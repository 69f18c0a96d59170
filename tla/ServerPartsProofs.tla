-------------------------- MODULE ServerPartsProofs --------------------------
(* Proofs about parts of the server that stand for themselves: the channels *)
(* of the SDR backend (SdrChannels), the framing of AIS and APRS            *)
(* (HdlcFraming), the decoder tasks (DecoderTasks) and their histories      *)
(* (DecoderHistories), the station with its rigs (Station) and the threads  *)
(* of the sound card (SoundCard). Each has its own inductive invariant; the *)
(* parts share no variable.                                                 *)
EXTENDS SdrChannels, DecoderHistories, Station, SoundCard,
        SequenceFacts, SequenceTheorems, FiniteSetTheorems, TLAPS

(***************************************************************************)
(* The channels of the SDR backend.  A list of channels and a list of DSPs  *)
(* grow, shrink and are retuned by several connections and by the thread    *)
(* that reads the hardware; the slot that a channel remembers must stay the *)
(* place of its own DSP, and the DSP must have the offset of its frequency. *)
(***************************************************************************)
Dsp == [tag : 0..MaxAdds, offset : Int, on : BOOLEAN]
Channel == [id : Ids \cup {Nobody}, freq : Int, slot : Nat \ {0}, hidden : BOOLEAN, tag : 0..MaxAdds]
Call == {NoCall} \cup [op : {"create", "tune"}, id : Ids, freq : Freqs, offset : Int]

SdrTypes ==
    /\ dsps \in Seq(Dsp) /\ chans \in Seq(Channel)
    /\ center \in Centers /\ tuned \in Centers
    /\ rig \in [freq : Freqs, ais : BOOLEAN, center : Centers]
    /\ step \in {"idle", "store", "spread", "own"} /\ retune \in Centers \cup {NoCenter}
    /\ call \in [Conns -> Call]
    /\ tags \in 0..MaxAdds /\ tunes \in 0..MaxTunes /\ raced \subseteq Ids /\ refused \in BOOLEAN

\* The dial has the first slot, the other entries have those behind the fixed ones, in order.
Numbered ==
    /\ Len(chans) >= 1 /\ Len(dsps) = Len(chans) + 2
    /\ \A i \in 1..Len(chans) :
          /\ chans[i].slot = IF i = 1 THEN 1 ELSE i + 2
          /\ chans[i].id = Nobody <=> i = 1
          /\ dsps[chans[i].slot].tag = chans[i].tag

\* A connection that tunes a channel found the frequency inside the span.
Found == \A c \in Conns : call[c].op = "tune" => Abs(call[c].offset) <= HalfSpan

\* What the rig asks for is what waits for the hardware, or where it is.
Follows ==
    /\ step # "store" => center = rig.center
    /\ retune # NoCenter => retune = rig.center
    /\ (retune = NoCenter /\ ~refused) => tuned = rig.center

DialRight ==
    step = "idle" =>
        /\ dsps[1].offset = rig.freq - rig.center /\ dsps[2].offset = rig.freq - rig.center
        /\ dsps[3].offset = rig.freq + Spacing - rig.center

\* Of several entries with one identifier only the first is ever retuned.
First(i) == \A j \in 1..i - 1 : chans[j].id # chans[i].id
Right(i) ==
    IF InSpan(chans[i].freq, center) THEN dsps[i + 2].offset = chans[i].freq - center
    ELSE ~dsps[i + 2].on
Aimed ==
    step \in {"own", "idle"} =>
        \A i \in 2..Len(chans) : (chans[i].id \in raced /\ First(i)) \/ Right(i)

SdrInd ==
    /\ SdrTypes /\ Numbered /\ VisibleWithinCap /\ Found /\ Follows /\ DialRight /\ Aimed

LEMMA Hertz == /\ Centers \subseteq Int /\ Freqs \subseteq Centers /\ Freqs \subseteq Int /\ NoCenter \notin Centers
               /\ Offset \in Int /\ Spacing \in Nat /\ HalfSpan \in Nat
               /\ \A f \in Freqs : f - Offset \in Centers
<1>1. Offset \in Int /\ Freqs \subseteq Int /\ Spacing \in Nat /\ HalfSpan \in Nat
  BY SdrAssumption DEF SdrAssumption
<1>2. \A f \in Freqs : f - Offset \in Int /\ NoCenter # f /\ NoCenter # f - Offset
  BY <1>1, SdrAssumption DEF SdrAssumption
<1>3. /\ \A x \in Centers : x \in Freqs \/ \E f \in Freqs : x = f - Offset
      /\ Freqs \subseteq Centers /\ \A f \in Freqs : f - Offset \in Centers
  BY DEF Centers
<1>4. \A x \in Centers : x \in Int /\ x # NoCenter
  BY <1>1, <1>2, <1>3
<1> QED
  BY <1>1, <1>3, <1>4

LEMMA Lists ==
    ASSUME SdrTypes
    PROVE  /\ Len(chans) \in Nat /\ Entries = 1..Len(chans) /\ \A i \in 1..Len(chans) : chans[i] \in Channel
           /\ Len(dsps) \in Nat /\ Slots = 1..Len(dsps) /\ \A s \in 1..Len(dsps) : dsps[s] \in Dsp
           /\ chans \in [1..Len(chans) -> Channel] /\ dsps \in [1..Len(dsps) -> Dsp]
BY LenProperties DEF SdrTypes, Entries, Slots

LEMMA SdrImplies == SdrInd => SdrInv
<1> SUFFICES ASSUME SdrInd PROVE SdrInv
  OBVIOUS
<1> USE DEF SdrInd
<1>1. SdrTypeOK
  BY DEF SdrTypes, SdrTypeOK, Dsp, Channel, Call
<1>2. SlotRight
  <2>1. /\ Len(dsps) = Fixed - 1 + Len(chans)
        /\ \A i \in 1..Len(chans) : chans[i].slot \in 1..Len(dsps) /\ chans[i].slot \notin 2..3
        /\ \A i, j \in 1..Len(chans) : chans[i].slot = chans[j].slot => i = j
    BY Lists DEF Numbered, Fixed
  <2> QED
    BY <2>1, Lists DEF SlotRight, Numbered, Fixed
<1>3. ASSUME step = "idle" PROVE center = rig.center
  BY <1>3 DEF Follows
<1>4. ASSUME step = "idle", NEW i \in Entries, chans[i].id \notin raced \cup {Nobody}
      PROVE  LET d == dsps[chans[i].slot] IN
             IF InSpan(chans[i].freq, center) THEN d.offset = chans[i].freq - center ELSE ~d.on
  <2>1. i \in 2..Len(chans) /\ chans[i].slot = i + 2
    BY <1>4, Lists DEF Numbered
  <2>2. Right(i)
    BY <1>4, <2>1 DEF Aimed
  <2> QED
    BY <2>1, <2>2 DEF Right
<1>5. ListensWhereListed
  <2>1. ASSUME step = "idle", NEW s \in 1..2 PROVE dsps[s].offset = rig.freq - rig.center
    <3>1. s = 1 \/ s = 2
      OBVIOUS
    <3> QED
      BY <2>1, <3>1 DEF DialRight
  <2> QED
    BY <1>4, <2>1 DEF ListensWhereListed, DialRight
<1> QED
  BY <1>1, <1>2, <1>5 DEF SdrInv, Follows, HardwareMatches

(* What a step does to the calls and to the list. *)
LEMMA CallStep ==
    ASSUME SdrTypes, Found, NEW c \in Conns, NEW r \in Call, r.op = "tune" => Abs(r.offset) <= HalfSpan,
           call' = [call EXCEPT ![c] = r]
    PROVE  call' \in [Conns -> Call] /\ Found'
BY DEF SdrTypes, Found

LEMMA CallEnds ==
    ASSUME SdrTypes, Found, NEW c \in Conns, Returns(c)
    PROVE  call' \in [Conns -> Call] /\ Found'
<1>1. NoCall \in Call /\ NoCall.op # "tune"
  BY DEF Call, NoCall
<1> QED
  BY <1>1, CallStep DEF Returns

LEMMA TagsStay ==
    ASSUME SdrTypes, Numbered, chans' = chans, Len(dsps') = Len(dsps),
           \A s \in 1..Len(dsps) : dsps'[s].tag = dsps[s].tag
    PROVE  Numbered'
<1>1. \A i \in 1..Len(chans) : chans[i].slot \in 1..Len(dsps)
  BY Lists DEF Numbered
<1> QED
  BY <1>1 DEF Numbered

LEMMA CapStays == ASSUME VisibleWithinCap, chans' = chans PROVE VisibleWithinCap'
BY DEF VisibleWithinCap, Visible, Entries

LEMMA AimStays ==
    ASSUME SdrTypes, Numbered, Aimed, chans' = chans, center' = center, raced' = raced,
           step' \in {"own", "idle"} => step \in {"own", "idle"},
           \A s \in 4..Len(dsps) : dsps'[s] = dsps[s]
    PROVE  Aimed'
<1>1. ASSUME NEW i \in 2..Len(chans) PROVE dsps'[i + 2] = dsps[i + 2]
  BY Lists DEF Numbered
<1> QED
  BY <1>1 DEF Aimed, Right, First

LEMMA LeastEntry ==
    ASSUME SdrInd, NEW id \in Ids, NEW e, e = Min(EntryOf(id)), EntryOf(id) # {}
    PROVE  e \in 2..Len(chans) /\ chans[e].id = id /\ First(e)
<1>1. /\ EntryOf(id) \in SUBSET Nat /\ EntryOf(id) = {i \in 1..Len(chans) : chans[i].id = id}
  BY Lists DEF SdrInd, EntryOf
<1>2. PICK m \in EntryOf(id) : \A i \in EntryOf(id) : m <= i
  BY <1>1, Least
<1>3. e \in EntryOf(id) /\ \A i \in EntryOf(id) : e <= i
  BY <1>2 DEF Min
<1>4. Nobody \notin Ids
  BY SdrAssumption DEF SdrAssumption
<1>5. e # 1
  BY <1>1, <1>3, <1>4 DEF SdrInd, Numbered
<1>6. e \in 2..Len(chans) /\ chans[e].id = id
  BY <1>1, <1>3, <1>5, Lists DEF SdrInd
<1>7. ASSUME NEW j \in 1..e - 1 PROVE chans[j].id # chans[e].id
  <2>1. j \in 1..Len(chans) /\ ~ (e <= j)
    BY <1>6, Lists DEF SdrInd
  <2> QED
    BY <1>1, <1>3, <1>6, <2>1
<1> QED
  BY <1>6, <1>7 DEF First

(* The steps. *)
LEMMA SdrStarts == SdrInit => SdrInd
<1> SUFFICES ASSUME SdrInit PROVE SdrInd
  OBVIOUS
<1>1. PICK f \in Freqs :
        /\ rig = [freq |-> f, ais |-> FALSE, center |-> f - Offset]
        /\ dsps = [s \in 1..3 |-> [tag |-> 0, on |-> s = 1,
                                   offset |-> IF s = 3 THEN Offset + Spacing ELSE Offset]]
        /\ chans = <<[id |-> Nobody, freq |-> 0, slot |-> 1, hidden |-> FALSE, tag |-> 0]>>
        /\ center = f - Offset /\ tuned = f - Offset /\ retune = NoCenter /\ step = "idle"
        /\ call = [c \in Conns |-> NoCall]
        /\ tags = 0 /\ tunes = 0 /\ raced = {} /\ refused = FALSE
  BY DEF SdrInit, Fixed
<1>2. MaxAdds \in Nat /\ MaxTunes \in Nat /\ MaxTotal \in Nat \ {0}
  BY SdrAssumption DEF SdrAssumption
<1>3. dsps \in Seq(Dsp) /\ Len(dsps) = 3
  <2>1. dsps \in [1..3 -> Dsp]
    BY <1>1, <1>2, Hertz DEF Dsp
  <2> QED
    BY <2>1, FunctionSeq
<1>4. chans \in Seq(Channel) /\ Len(chans) = 1 /\ chans[1] = [id |-> Nobody, freq |-> 0, slot |-> 1, hidden |-> FALSE, tag |-> 0]
  <2>1. [id |-> Nobody, freq |-> 0, slot |-> 1, hidden |-> FALSE, tag |-> 0] \in Channel
    BY <1>2 DEF Channel
  <2> QED
    BY <1>1, <2>1
<1>5. SdrTypes
  <2>1. NoCall \in Call
    BY DEF Call
  <2>2. call \in [Conns -> Call]
    BY <1>1, <2>1
  <2>3. f \in Freqs /\ f - Offset \in Centers
    BY Hertz
  <2>4. /\ rig \in [freq : Freqs, ais : BOOLEAN, center : Centers]
        /\ center \in Centers /\ tuned \in Centers /\ retune \in Centers \cup {NoCenter}
        /\ step \in {"idle", "store", "spread", "own"} /\ refused \in BOOLEAN /\ raced \subseteq Ids
    BY <1>1, <2>3
  <2>5. tags \in 0..MaxAdds /\ tunes \in 0..MaxTunes
    BY <1>1, <1>2
  <2> QED
    BY <1>3, <1>4, <2>2, <2>4, <2>5 DEF SdrTypes
<1>6. Numbered
  BY <1>1, <1>3, <1>4 DEF Numbered
<1>7. VisibleWithinCap
  <2>1. Entries = {1}
    BY <1>4, <1>5, Lists
  <2>2. Visible = {1}
    BY <1>4, <2>1 DEF Visible
  <2> QED
    BY <1>2, <2>2, FS_Singleton DEF VisibleWithinCap
<1>8. Found
  BY <1>1 DEF Found, NoCall
<1>9. Follows
  BY <1>1 DEF Follows
<1>10. DialRight
  <2>1. f \in Int /\ Offset \in Int /\ Spacing \in Int
    BY Hertz
  <2>2. dsps[1].offset = Offset /\ dsps[2].offset = Offset /\ dsps[3].offset = Offset + Spacing
    BY <1>1
  <2> QED
    BY <1>1, <2>1, <2>2 DEF DialRight
<1>11. Aimed
  BY <1>4 DEF Aimed
<1> QED
  BY <1>5, <1>6, <1>7, <1>8, <1>9, <1>10, <1>11 DEF SdrInd

LEMMA EnsureKeeps ==
    ASSUME SdrInd, NEW c \in Conns, NEW id \in Ids, NEW f \in Freqs, Ensure(c, id, f) \/ Aim(c, id, f)
    PROVE  SdrInd'
<1> USE DEF SdrInd
<1>1. UNCHANGED <<dsps, chans, center, rig, step, retune, tuned, tags, tunes, raced, refused>>
  BY DEF Ensure, Aim
<1>2. call' \in [Conns -> Call] /\ Found'
  <2>1. CASE Ensure(c, id, f)
    <3>1. [op |-> "create", id |-> id, freq |-> f, offset |-> 0] \in Call
      BY DEF Call
    <3>2. call' = call \/ call' = [call EXCEPT ![c] = [op |-> "create", id |-> id, freq |-> f, offset |-> 0]]
      BY <2>1 DEF Ensure
    <3>3. CASE call' = call
      BY <3>3 DEF SdrTypes, Found
    <3> QED
      BY <3>1, <3>2, <3>3, CallStep
  <2>2. CASE Aim(c, id, f)
    <3> DEFINE r == [op |-> "tune", id |-> id, freq |-> f, offset |-> f - center]
    <3>1. f - center \in Int /\ Abs(f - center) <= HalfSpan /\ call' = [call EXCEPT ![c] = r]
      BY <2>2, Hertz DEF SdrTypes, Aim, InSpan
    <3>2. r \in Call /\ Abs(r.offset) <= HalfSpan
      BY <3>1 DEF Call
    <3> HIDE DEF r
    <3> QED
      BY <3>1, <3>2, CallStep
  <2> QED
    BY <2>1, <2>2
<1>3. SdrTypes'
  BY <1>1, <1>2 DEF SdrTypes
<1>4. Numbered' /\ VisibleWithinCap'
  BY <1>1, TagsStay, CapStays
<1>5. Follows' /\ DialRight'
  BY <1>1 DEF Follows, DialRight
<1>6. Aimed'
  BY <1>1, AimStays
<1> QED
  BY <1>2, <1>3, <1>4, <1>5, <1>6

\* A channel more: the slot behind the others, listening where the entry says.
LEMMA CreateKeeps == ASSUME SdrInd, NEW c \in Conns, Create(c) PROVE SdrInd'
<1> USE DEF SdrInd
<1> DEFINE id == call[c].id
           f  == call[c].freq
           n  == Len(chans)
           d  == [tag |-> tags + 1, offset |-> f - center, on |-> TRUE]
           ch == [id |-> id, freq |-> f, slot |-> Len(dsps) + 1, hidden |-> id \in HiddenIds, tag |-> tags + 1]
<1>1. /\ call[c].op = "create" /\ tags < MaxAdds /\ Returns(c)
      /\ UNCHANGED <<center, rig, step, retune, tuned, tunes, raced, refused>>
  BY DEF Create
<1>2. call' \in [Conns -> Call] /\ Found'
  BY <1>1, CallEnds
<1>3. CASE UNCHANGED <<tags, dsps, chans>>
  <2>1. SdrTypes'
    BY <1>1, <1>2, <1>3 DEF SdrTypes
  <2>2. Numbered' /\ VisibleWithinCap'
    BY <1>3, TagsStay, CapStays
  <2>3. Follows' /\ DialRight'
    BY <1>1, <1>3 DEF Follows, DialRight
  <2>4. Aimed'
    BY <1>1, <1>3, AimStays
  <2> QED
    BY <1>2, <2>1, <2>2, <2>3, <2>4
<1>4. CASE /\ CanCreate(id, f) /\ tags' = tags + 1 /\ dsps' = Append(dsps, d) /\ chans' = Append(chans, ch)
  <2>1. id \in Ids /\ f \in Freqs
    BY <1>1 DEF SdrTypes, Call, NoCall
  <2>2. tags + 1 \in 0..MaxAdds /\ MaxAdds \in Nat
    BY <1>1, SdrAssumption DEF SdrTypes, SdrAssumption
  <2>3. Len(dsps) \in Nat /\ n \in Nat /\ n >= 1 /\ Len(dsps) = n + 2
    BY Lists DEF Numbered
  <2>4. d \in Dsp
    <3>1. f \in Int /\ center \in Int
      BY <2>1, Hertz DEF SdrTypes
    <3> HIDE DEF f
    <3> QED
      BY <2>2, <3>1 DEF Dsp
  <2>5. ch \in Channel
    <3>1. f \in Int
      BY <2>1, Hertz
    <3>2. Len(dsps) + 1 \in Nat \ {0}
      BY <2>3
    <3> HIDE DEF f, id
    <3> QED
      BY <2>1, <2>2, <3>1, <3>2 DEF Channel
  <2>6. /\ dsps' \in Seq(Dsp) /\ Len(dsps') = n + 3 /\ dsps'[n + 3] = d
        /\ \A s \in 1..n + 2 : dsps'[s] = dsps[s]
    <3> HIDE DEF d
    <3>1. /\ dsps' \in Seq(Dsp) /\ Len(dsps') = Len(dsps) + 1 /\ dsps'[Len(dsps) + 1] = d
          /\ \A s \in 1..Len(dsps) : dsps'[s] = dsps[s]
      BY <1>4, <2>4, AppendProperties DEF SdrTypes
    <3> QED
      BY <2>3, <3>1
  <2>7. /\ chans' \in Seq(Channel) /\ Len(chans') = n + 1 /\ chans'[n + 1] = ch
        /\ \A i \in 1..n : chans'[i] = chans[i]
    <3> HIDE DEF ch
    <3> QED
      BY <1>4, <2>5, AppendProperties DEF SdrTypes
  <2>8. SdrTypes'
    <3> HIDE DEF n, d, ch
    <3> QED
      BY <1>1, <1>2, <1>4, <2>2, <2>6, <2>7 DEF SdrTypes
  <2>9. Numbered'
    <3>1. ASSUME NEW i \in 1..n
          PROVE  /\ chans'[i].slot = IF i = 1 THEN 1 ELSE i + 2
                 /\ chans'[i].id = Nobody <=> i = 1
                 /\ dsps'[chans'[i].slot].tag = chans'[i].tag
      <4>1. chans[i].slot \in 1..n + 2
        BY <2>3 DEF Numbered
      <4> QED
        BY <2>6, <2>7, <4>1 DEF Numbered
    <3>2. /\ chans'[n + 1].slot = n + 3 /\ chans'[n + 1].id # Nobody /\ n + 1 # 1
          /\ dsps'[n + 3].tag = chans'[n + 1].tag
      BY <2>1, <2>3, <2>6, <2>7, SdrAssumption DEF SdrAssumption
    <3>3. \A i \in 1..n + 1 : i \in 1..n \/ i = n + 1
      BY <2>3
    <3> QED
      BY <2>3, <2>6, <2>7, <3>1, <3>2, <3>3 DEF Numbered
  <2>10. VisibleWithinCap'
    <3>1. Entries = 1..n /\ Entries' = 1..n + 1 /\ IsFiniteSet(Visible)
      <4>1. Entries = 1..n /\ Entries' = 1..n + 1
        BY <2>7, <2>8, Lists, LenProperties DEF Entries, SdrTypes
      <4>2. IsFiniteSet(1..n) /\ Visible \in SUBSET (1..n)
        BY <2>3, <4>1, FS_Interval DEF Visible
      <4> QED
        BY <4>1, <4>2, FS_Subset
    <3>2. Visible' = IF ch.hidden THEN Visible ELSE Visible \cup {n + 1}
      BY <2>3, <2>7, <3>1 DEF Visible
    <3>3. Cardinality(Visible) \in Nat /\ MaxTotal \in Nat /\ (~ch.hidden => Cardinality(Visible) < MaxTotal)
      BY <1>4, <3>1, FS_CardinalityType, SdrAssumption DEF CanCreate, SdrAssumption
    <3>4. Cardinality(Visible \cup {n + 1}) <= Cardinality(Visible) + 1
      <4>1. Cardinality(Visible \cup {n + 1}) =
              IF n + 1 \in Visible THEN Cardinality(Visible) ELSE Cardinality(Visible) + 1
        BY <3>1, FS_AddElement
      <4> QED
        BY <3>3, <4>1
    <3>5. IsFiniteSet(Visible \cup {n + 1}) /\ Cardinality(Visible \cup {n + 1}) \in Nat
      BY <3>1, FS_AddElement, FS_CardinalityType
    <3> HIDE DEF ch
    <3>6. CASE ch.hidden
      BY <3>2, <3>6 DEF VisibleWithinCap
    <3>7. CASE ~ch.hidden
      BY <3>2, <3>3, <3>4, <3>5, <3>7 DEF VisibleWithinCap
    <3> QED
      BY <3>6, <3>7
  <2>11. Follows'
    BY <1>1 DEF Follows
  <2>12. DialRight'
    <3>1. \A s \in 1..3 : dsps'[s] = dsps[s]
      BY <2>3, <2>6
    <3> QED
      BY <1>1, <3>1 DEF DialRight
  <2>13. Aimed'
    <3>1. ASSUME NEW i \in 2..n PROVE (Right(i) => Right(i)') /\ (First(i) => First(i)') /\ chans'[i] = chans[i]
      <4>1. chans'[i] = chans[i] /\ dsps'[i + 2] = dsps[i + 2] /\ \A j \in 1..i - 1 : chans'[j] = chans[j]
        BY <2>3, <2>6, <2>7
      <4> QED
        BY <1>1, <4>1 DEF Right, First
    <3>2. ASSUME NEW k, k = n + 1 PROVE Right(k)'
      <4>1. /\ chans'[k].freq = f /\ dsps'[k + 2].offset = f - center /\ InSpan(f, center)
        BY <1>4, <2>3, <2>6, <2>7, <3>2 DEF CanCreate
      <4> HIDE DEF f, n
      <4> QED
        BY <1>1, <4>1 DEF Right, InSpan
    <3>3. \A i \in 2..n + 1 : i \in 2..n \/ i = n + 1
      BY <2>3
    <3>4. ASSUME step' \in {"own", "idle"}, NEW i \in 2..Len(chans')
          PROVE  (chans'[i].id \in raced' /\ First(i)') \/ Right(i)'
      <4>1. CASE i \in 2..n
        BY <1>1, <3>1, <3>4, <4>1 DEF Aimed
      <4> QED
        BY <2>7, <3>2, <3>3, <4>1
    <3> QED
      BY <3>4 DEF Aimed
  <2> QED
    BY <1>2, <2>8, <2>9, <2>10, <2>11, <2>12, <2>13
<1> QED
  BY <1>3, <1>4 DEF Create

\* A channel less: the entries behind it and their slots move up together.
LEMMA RemoveKeeps == ASSUME SdrInd, NEW c \in Conns, NEW id \in Ids, RemoveChannel(c, id) PROVE SdrInd'
<1> USE DEF SdrInd
<1> DEFINE n == Len(chans)
           k == Min(EntryOf(id))
           old(i) == IF i < k THEN i ELSE i + 1
<1>1. EntryOf(id) # {} /\ UNCHANGED <<center, rig, step, retune, tuned, call, tags, tunes, raced, refused>>
  BY DEF RemoveChannel
<1>2. k \in 2..n
  BY <1>1, LeastEntry
<1>3. /\ n \in Nat /\ Len(dsps) = n + 2 /\ k \in Nat /\ chans[k].slot = k + 2
  BY <1>2, Lists DEF Numbered
<1>4. dsps' = [s \in 1..n + 1 |-> IF s < k + 2 THEN dsps[s] ELSE dsps[s + 1]]
  BY <1>3 DEF RemoveChannel, Dropped
<1>5. chans' = [i \in 1..n - 1 |-> IF chans[old(i)].slot > k + 2 THEN [chans[old(i)] EXCEPT !.slot = @ - 1]
                                   ELSE chans[old(i)]]
  <2>1. chans' = [i \in 1..n - 1 |->
                    LET ch == [j \in 1..n - 1 |-> IF j < k THEN chans[j] ELSE chans[j + 1]][i] IN
                    IF ch.slot > k + 2 THEN [ch EXCEPT !.slot = ch.slot - 1] ELSE ch]
    BY <1>3 DEF RemoveChannel, Dropped
  <2> HIDE DEF n, k
  <2> QED
    BY <2>1
<1> HIDE DEF k, n
<1>6. ASSUME NEW i \in 1..n - 1
      PROVE  /\ old(i) \in 1..n /\ (i = 1 <=> old(i) = 1) /\ chans[old(i)] \in Channel /\ chans'[i] \in Channel
             /\ \A j \in 1..i - 1 : old(j) \in 1..old(i) - 1
             /\ chans'[i].id = chans[old(i)].id /\ chans'[i].freq = chans[old(i)].freq
             /\ chans'[i].hidden = chans[old(i)].hidden /\ chans'[i].tag = chans[old(i)].tag
             /\ chans'[i].slot = IF i = 1 THEN 1 ELSE i + 2
  <2>1. /\ old(i) \in 1..n /\ (i = 1 <=> old(i) = 1) /\ (i < k => old(i) = i) /\ (i >= k => old(i) = i + 1)
        /\ \A j \in 1..i - 1 : old(j) \in 1..old(i) - 1
    BY <1>2, <1>3
  <2> HIDE DEF old
  <2>2. /\ chans[old(i)] \in Channel /\ chans[old(i)].slot = IF old(i) = 1 THEN 1 ELSE old(i) + 2
    BY <2>1, Lists DEF Numbered, n
  <2>3. i < k => ~ (chans[old(i)].slot > k + 2)
    BY <1>2, <1>3, <2>1, <2>2
  <2>4. i >= k => chans[old(i)].slot > k + 2
    BY <1>2, <1>3, <2>1, <2>2
  <2>5. CASE i < k
    <3>1. chans'[i] = chans[old(i)]
      BY <1>5, <2>3, <2>5
    <3> QED
      BY <2>1, <2>2, <2>5, <3>1
  <2>6. CASE i >= k
    <3>1. chans'[i] = [chans[old(i)] EXCEPT !.slot = @ - 1]
      BY <1>5, <2>4, <2>6
    <3>2. chans[old(i)].slot = i + 3 /\ i # 1
      BY <1>2, <1>3, <2>1, <2>2, <2>6
    <3>3. i + 2 \in Nat \ {0} /\ chans'[i] = [chans[old(i)] EXCEPT !.slot = i + 2]
      BY <3>1, <3>2
    <3> QED
      BY <2>1, <2>2, <3>2, <3>3 DEF Channel
  <2> QED
    BY <1>2, <1>3, <2>5, <2>6
<1>7. chans' \in Seq(Channel) /\ Len(chans') = n - 1
  <2>1. chans' \in [1..n - 1 -> Channel] /\ n - 1 \in Nat
    BY <1>2, <1>3, <1>5, <1>6
  <2> QED
    BY <2>1, FunctionSeq
<1>8. \A s \in 1..n + 2 : dsps[s] \in Dsp
  BY <1>3, Lists
<1>9. dsps' \in Seq(Dsp) /\ Len(dsps') = n + 1
  <2>1. dsps' \in [1..n + 1 -> Dsp] /\ n + 1 \in Nat
    BY <1>2, <1>3, <1>4, <1>8
  <2> QED
    BY <2>1, FunctionSeq
<1>10. /\ \A s \in 1..3 : dsps'[s] = dsps[s]
       /\ \A i \in 2..n - 1 : dsps'[i + 2] = dsps[old(i) + 2]
  BY <1>2, <1>3, <1>4
<1> HIDE DEF old
<1>11. SdrTypes'
  BY <1>1, <1>7, <1>9 DEF SdrTypes
<1>12. Numbered'
  <2>1. ASSUME NEW i \in 1..n - 1
        PROVE  /\ chans'[i].slot = IF i = 1 THEN 1 ELSE i + 2
               /\ chans'[i].id = Nobody <=> i = 1
               /\ dsps'[chans'[i].slot].tag = chans'[i].tag
    <3>1. /\ chans[old(i)].id = Nobody <=> old(i) = 1
          /\ dsps[IF old(i) = 1 THEN 1 ELSE old(i) + 2].tag = chans[old(i)].tag
      BY <1>6 DEF Numbered, n
    <3>2. CASE i = 1
      BY <1>6, <1>10, <3>1, <3>2
    <3>3. CASE i # 1
      <4>1. i \in 2..n - 1 /\ dsps'[i + 2] = dsps[old(i) + 2]
        BY <1>3, <1>10, <3>3
      <4> QED
        BY <1>6, <3>1, <3>3, <4>1
    <3> QED
      BY <3>2, <3>3
  <2> QED
    BY <1>2, <1>3, <1>7, <1>9, <2>1 DEF Numbered
<1>13. VisibleWithinCap'
  <2> DEFINE T == Visible
             V == {i \in 1..n - 1 : ~chans'[i].hidden}
             shift == [i \in V |-> old(i)]
  <2>1. Entries = 1..n /\ Visible' = V
    BY <1>7, <1>11, Lists, LenProperties DEF Entries, SdrTypes, Visible, n
  <2>2. IsFiniteSet(T)
    <3>1. IsFiniteSet(1..n)
      BY <1>3, FS_Interval
    <3>2. T \in SUBSET (1..n)
      BY <2>1 DEF Visible
    <3> QED
      BY <3>1, <3>2, FS_Subset
  <2>3. shift \in Injection(V, T)
    <3>1. \A i \in V : old(i) \in T
      BY <1>6, <2>1 DEF Visible
    <3>2. \A i, j \in V : old(i) = old(j) => i = j
      BY <1>3 DEF old
    <3> QED
      BY <3>1, <3>2 DEF Injection, IsInjective
  <2>4. IsFiniteSet(V) /\ Cardinality(V) <= Cardinality(T)
    BY <2>2, <2>3, FS_Injection
  <2>5. Cardinality(V) \in Nat /\ Cardinality(T) \in Nat /\ MaxTotal \in Nat
    BY <2>2, <2>4, FS_CardinalityType, SdrAssumption DEF SdrAssumption
  <2> QED
    BY <2>1, <2>4, <2>5 DEF VisibleWithinCap
<1>14. Found' /\ Follows' /\ DialRight'
  BY <1>1, <1>10 DEF Found, Follows, DialRight
<1>15. Aimed'
  <2>1. ASSUME step' \in {"own", "idle"}, NEW i \in 2..Len(chans')
        PROVE  (chans'[i].id \in raced' /\ First(i)') \/ Right(i)'
    <3>1. i \in 1..n - 1 /\ i \in 2..n - 1 /\ i # 1
      BY <1>3, <1>7, <2>1
    <3>2. old(i) \in 2..Len(chans)
      BY <1>3, <1>6, <3>1 DEF n
    <3>3. CASE Right(old(i))
      BY <1>1, <1>6, <1>10, <3>1, <3>3 DEF Right
    <3>4. CASE chans[old(i)].id \in raced /\ First(old(i))
      <4>1. ASSUME NEW j \in 1..i - 1 PROVE chans'[j].id # chans'[i].id
        <5>1. j \in 1..n - 1 /\ old(j) \in 1..old(i) - 1
          BY <1>3, <1>6, <3>1
        <5> QED
          BY <1>6, <3>1, <3>4, <5>1 DEF First
      <4> QED
        BY <1>1, <1>6, <3>1, <3>4, <4>1 DEF First
    <3> QED
      BY <1>1, <2>1, <3>2, <3>3, <3>4 DEF Aimed
  <2> QED
    BY <2>1 DEF Aimed
<1> QED
  BY <1>11, <1>12, <1>13, <1>14, <1>15

\* A channel is retuned: the first entry of its identifier, and its slot.
LEMMA TuneKeeps == ASSUME SdrInd, NEW c \in Conns, Tune(c) PROVE SdrInd'
<1> USE DEF SdrInd
<1> DEFINE id == call[c].id
           f  == call[c].freq
           at == call[c].offset
           k  == Min(EntryOf(id))
<1>1. call[c].op = "tune" /\ Returns(c) /\ UNCHANGED <<center, rig, step, retune, tuned, tags, tunes, refused>>
  BY DEF Tune
<1>2. call' \in [Conns -> Call] /\ Found'
  BY <1>1, CallEnds
<1>3. id \in Ids /\ f \in Freqs /\ at \in Int /\ Abs(at) <= HalfSpan
  BY <1>1 DEF SdrTypes, Call, NoCall, Found
<1>4. CASE UNCHANGED <<chans, dsps, raced>>
  <2>1. SdrTypes'
    BY <1>1, <1>2, <1>4 DEF SdrTypes
  <2>2. Numbered' /\ VisibleWithinCap'
    BY <1>4, TagsStay, CapStays
  <2>3. Follows' /\ DialRight'
    BY <1>1, <1>4 DEF Follows, DialRight
  <2>4. Aimed'
    BY <1>1, <1>4, AimStays
  <2> QED
    BY <1>2, <2>1, <2>2, <2>3, <2>4
<1>5. CASE /\ EntryOf(id) # {}
           /\ chans' = [chans EXCEPT ![k].freq = f]
           /\ dsps' = [dsps EXCEPT ![chans[k].slot].offset = at]
           /\ raced' = IF at # f - center THEN raced \cup {id} ELSE raced \ {id}
  <2>1. k \in 2..Len(chans) /\ chans[k].id = id /\ First(k)
    BY <1>3, <1>5, LeastEntry
  <2>2. k \in 1..Len(chans) /\ chans[k].slot = k + 2 /\ Len(dsps) = Len(chans) + 2 /\ Len(chans) \in Nat
    BY <2>1, Lists DEF Numbered
  <2> HIDE DEF k
  <2>3. f \in Int /\ center \in Int
    BY <1>3, Hertz DEF SdrTypes
  <2>4. /\ chans' \in Seq(Channel) /\ Len(chans') = Len(chans) /\ chans'[k] = [chans[k] EXCEPT !.freq = f]
        /\ \A i \in 1..Len(chans) : i # k => chans'[i] = chans[i]
    <3>1. chans \in [1..Len(chans) -> Channel] /\ chans[k] \in Channel
      BY <2>2, Lists
    <3>2. [chans[k] EXCEPT !.freq = f] \in Channel
      BY <2>3, <3>1 DEF Channel
    <3>3. chans' \in [1..Len(chans) -> Channel]
      BY <1>5, <3>1, <3>2
    <3>4. chans' \in Seq(Channel) /\ Len(chans') = Len(chans)
      BY <2>2, <3>3, FunctionSeq
    <3> QED
      BY <1>5, <2>2, <3>1, <3>4
  <2>5. /\ dsps' \in Seq(Dsp) /\ Len(dsps') = Len(dsps) /\ dsps'[k + 2] = [dsps[k + 2] EXCEPT !.offset = at]
        /\ \A s \in 1..Len(dsps) : s # k + 2 => dsps'[s] = dsps[s]
    <3>1. dsps \in [1..Len(dsps) -> Dsp] /\ Len(dsps) \in Nat /\ k + 2 \in 1..Len(dsps) /\ dsps[k + 2] \in Dsp
      BY <2>1, <2>2, Lists
    <3>2. [dsps[k + 2] EXCEPT !.offset = at] \in Dsp
      BY <1>3, <3>1 DEF Dsp
    <3>3. dsps' = [dsps EXCEPT ![k + 2].offset = at]
      BY <1>5, <2>2
    <3>4. dsps' \in [1..Len(dsps) -> Dsp]
      BY <3>1, <3>2, <3>3
    <3> QED
      BY <3>1, <3>3, <3>4, FunctionSeq
  <2>6. \A i \in 1..Len(chans) : /\ chans'[i].id = chans[i].id /\ chans'[i].hidden = chans[i].hidden
                                 /\ chans'[i].slot = chans[i].slot /\ chans'[i].tag = chans[i].tag
    BY ZenonT(30), <2>2, <2>4, Lists DEF Channel
  <2>7. \A s \in 1..Len(dsps) : dsps'[s].tag = dsps[s].tag
    BY <2>1, <2>2, <2>5, Lists DEF Dsp
  <2>8. SdrTypes'
    <3>1. raced' \subseteq Ids
      BY <1>3, <1>5 DEF SdrTypes
    <3> QED
      BY <1>1, <1>2, <2>4, <2>5, <3>1 DEF SdrTypes
  <2>9. Numbered'
    <3>1. \A i \in 1..Len(chans) : chans[i].slot \in 1..Len(dsps)
      BY <2>2 DEF Numbered
    <3> QED
      BY <2>4, <2>5, <2>6, <2>7, <3>1 DEF Numbered
  <2>10. VisibleWithinCap'
    <3>1. Visible' = Visible
      BY <2>4, <2>6, <2>8, Lists, LenProperties DEF Visible, Entries, SdrTypes
    <3> QED
      BY <3>1 DEF VisibleWithinCap
  <2>11. Follows' /\ DialRight'
    <3>1. \A s \in 1..3 : dsps'[s] = dsps[s]
      BY <2>1, <2>2, <2>5
    <3> QED
      BY <1>1, <3>1 DEF Follows, DialRight
  <2>12. Aimed'
    <3>1. ASSUME step' \in {"own", "idle"}, NEW i \in 2..Len(chans')
          PROVE  (chans'[i].id \in raced' /\ First(i)') \/ Right(i)'
      <4>1. i \in 1..Len(chans) /\ i \in 2..Len(chans) /\ First(i)' = First(i)
        BY <2>2, <2>4, <2>6, <3>1 DEF First
      <4>2. (chans[i].id \in raced /\ First(i)) \/ Right(i)
        BY <1>1, <3>1, <4>1 DEF Aimed
      <4>3. CASE i # k
        <5>1. Right(i)' = Right(i)
          <6>1. chans'[i] = chans[i] /\ dsps'[i + 2] = dsps[i + 2]
            BY <2>2, <2>4, <2>5, <4>1, <4>3
          <6> QED
            BY <1>1, <6>1 DEF Right
        <5>2. First(i) => chans[i].id # id
          <6>1. ASSUME First(i), chans[i].id = id PROVE FALSE
            <7>1. i \in 1..k - 1 \/ k \in 1..i - 1
              BY <2>1, <2>2, <4>1, <4>3
            <7> QED
              BY <2>1, <6>1, <7>1 DEF First
          <6> QED
            BY <6>1
        <5> QED
          BY <1>5, <2>6, <4>1, <4>2, <5>1, <5>2
      <4>4. CASE i = k /\ at # f - center
        BY <1>5, <2>1, <2>6, <4>1, <4>4
      <4>5. CASE i = k /\ at = f - center
        <5>1. InSpan(f, center) /\ chans'[i].freq = f /\ dsps'[i + 2].offset = f - center
          <6>1. chans[k] \in Channel /\ dsps[k + 2] \in Dsp
            BY <2>1, <2>2, Lists
          <6> QED
            BY <1>3, <2>4, <2>5, <4>5, <6>1 DEF InSpan, Channel, Dsp
        <5> HIDE DEF f
        <5> QED
          BY <1>1, <5>1 DEF Right
      <4> QED
        BY <4>3, <4>4, <4>5
    <3> QED
      BY <3>1 DEF Aimed
  <2> QED
    BY <1>2, <2>8, <2>9, <2>10, <2>11, <2>12
<1> QED
  BY <1>4, <1>5 DEF Tune

\* A command that the rig takes without a look at the list.
LEMMA CommandKeeps ==
    ASSUME SdrInd, (\E f \in Freqs : SetFreq(f) \/ SetCenterFreq(f))
    PROVE  SdrInd'
<1> USE DEF SdrInd
<1>1. PICK f \in Freqs : SetFreq(f) \/ SetCenterFreq(f)
  OBVIOUS
<1>2. /\ UNCHANGED <<dsps, chans, center, tuned, call, tags, raced>>
      /\ step = "idle" /\ tunes < MaxTunes /\ tunes' = tunes + 1
  BY <1>1 DEF SetFreq, SetCenterFreq, Commanded
<1>3. \/ rig' = [rig EXCEPT !.freq = f] /\ step' = "own" /\ UNCHANGED <<retune, refused>>
      \/ \E at \in Centers, g \in Freqs :
            /\ rig' = [rig EXCEPT !.freq = g, !.center = at]
            /\ retune' = at /\ step' = "store" /\ refused' = FALSE
  <2>1. f \in Centers /\ f - Offset \in Centers
    BY Hertz
  <2> QED
    BY <1>1, <2>1 DEF SetFreq, SetCenterFreq, Retune, SdrTypes
<1>4. SdrTypes' /\ Follows' /\ step' \in {"own", "store"} /\ (step' = "own" => center = rig.center)
  <2>1. tunes' \in 0..MaxTunes
    BY <1>2, SdrAssumption DEF SdrTypes, SdrAssumption
  <2>2. CASE rig' = [rig EXCEPT !.freq = f] /\ step' = "own" /\ UNCHANGED <<retune, refused>>
    <3>1. rig' \in [freq : Freqs, ais : BOOLEAN, center : Centers] /\ rig'.center = rig.center
      BY <2>2 DEF SdrTypes
    <3> QED
      BY <1>2, <2>1, <2>2, <3>1 DEF SdrTypes, Follows
  <2>3. ASSUME NEW at \in Centers, NEW g \in Freqs, rig' = [rig EXCEPT !.freq = g, !.center = at],
               retune' = at, step' = "store", refused' = FALSE
        PROVE  SdrTypes' /\ Follows' /\ step' \in {"own", "store"} /\ (step' = "own" => center = rig.center)
    <3>1. rig' \in [freq : Freqs, ais : BOOLEAN, center : Centers] /\ rig'.center = at /\ at # NoCenter
      BY <2>3, Hertz DEF SdrTypes
    <3> QED
      BY <1>2, <2>1, <2>3, <3>1 DEF SdrTypes, Follows
  <2> QED
    BY <1>3, <2>2, <2>3
<1>5. Numbered' /\ VisibleWithinCap' /\ Found'
  BY <1>2, TagsStay, CapStays DEF Found
<1>6. DialRight' /\ Aimed'
  BY <1>2, <1>4, AimStays DEF DialRight
<1> QED
  BY <1>4, <1>5, <1>6

\* The slots of the list, whatever happens to the AIS channels.
LEMMA ModeKeeps == SdrInd /\ SetMode => SdrInd'
<1> SUFFICES ASSUME SdrInd, SetMode PROVE SdrInd'
  OBVIOUS
<1> USE DEF SdrInd
<1>1. /\ UNCHANGED <<chans, center, step, retune, tuned, call, tags, raced, refused>>
      /\ tunes < MaxTunes /\ tunes' = tunes + 1 /\ rig' = [rig EXCEPT !.ais = ~@]
  BY DEF SetMode, Commanded
<1>2. dsps' = [s \in 1..Len(dsps) |-> IF s \in {2, 3} THEN [dsps[s] EXCEPT !.on = ~rig.ais] ELSE dsps[s]]
  BY Lists DEF SetMode
<1>3. rig' \in [freq : Freqs, ais : BOOLEAN, center : Centers] /\ rig'.freq = rig.freq /\ rig'.center = rig.center
  BY <1>1 DEF SdrTypes
<1>4. ASSUME NEW s \in 1..Len(dsps)
      PROVE  /\ dsps'[s] \in Dsp /\ dsps'[s].tag = dsps[s].tag /\ dsps'[s].offset = dsps[s].offset
             /\ s \in 4..Len(dsps) => dsps'[s] = dsps[s]
  <2>1. rig.ais \in BOOLEAN /\ dsps[s] \in Dsp
    BY Lists DEF SdrTypes
  <2>2. CASE s \in {2, 3}
    <3>1. PICK on \in BOOLEAN : dsps'[s] = [dsps[s] EXCEPT !.on = on]
      BY <1>2, <2>2
    <3> QED
      BY <2>1, <2>2, <3>1 DEF Dsp
  <2>3. CASE s \notin {2, 3}
    <3>1. dsps'[s] = dsps[s]
      BY <1>2, <2>3
    <3> QED
      BY <2>1, <3>1
  <2> QED
    BY <2>2, <2>3
<1>5. dsps' \in Seq(Dsp) /\ Len(dsps') = Len(dsps)
  BY <1>2, <1>4, Lists, FunctionSeq
<1>6. SdrTypes'
  <2>1. tunes' \in 0..MaxTunes
    BY SMTT(30), <1>1, SdrAssumption DEF SdrTypes, SdrAssumption
  <2> QED
    BY <1>1, <1>3, <1>5, <2>1 DEF SdrTypes
<1>7. Numbered' /\ VisibleWithinCap' /\ Found'
  BY <1>1, <1>4, <1>5, TagsStay, CapStays DEF Found
<1>8. Follows' /\ DialRight'
  <2>1. {1, 2, 3} \subseteq 1..Len(dsps)
    BY Lists DEF Numbered
  <2> QED
    BY <1>1, <1>3, <1>4, <2>1 DEF Follows, DialRight
<1>9. Aimed'
  BY <1>1, <1>4, AimStays, Lists
<1> QED
  BY <1>6, <1>7, <1>8, <1>9

LEMMA StoreKeeps == SdrInd /\ StoreCenter => SdrInd'
<1> SUFFICES ASSUME SdrInd, StoreCenter PROVE SdrInd'
  OBVIOUS
<1> USE DEF SdrInd
<1>1. /\ step' = "spread" /\ center' = rig.center
      /\ UNCHANGED <<dsps, chans, rig, retune, tuned, call, tags, tunes, raced, refused>>
  BY DEF StoreCenter
<1>2. SdrTypes'
  BY <1>1 DEF SdrTypes
<1>3. Numbered' /\ VisibleWithinCap' /\ Found'
  BY <1>1, TagsStay, CapStays DEF Found
<1> QED
  BY <1>1, <1>2, <1>3 DEF Follows, DialRight, Aimed

\* After a retune every channel listens where its entry says, or is paused.
LEMMA SpreadKeeps == SdrInd /\ Spread => SdrInd'
<1> SUFFICES ASSUME SdrInd, Spread PROVE SdrInd'
  OBVIOUS
<1> USE DEF SdrInd
<1> DEFINE Mine(s) == {i \in 1..Len(chans) : chans[i].id # Nobody /\ chans[i].slot = s}
<1>1. /\ step = "spread" /\ step' = "own" /\ raced' = {}
      /\ UNCHANGED <<chans, center, rig, retune, tuned, call, tags, tunes, refused>>
  BY DEF Spread
<1>2. dsps' = [s \in 1..Len(dsps) |->
         IF Mine(s) = {} THEN dsps[s]
         ELSE IF InSpan(chans[Min(Mine(s))].freq, rig.center)
              THEN [dsps[s] EXCEPT !.offset = chans[Min(Mine(s))].freq - rig.center, !.on = TRUE]
              ELSE [dsps[s] EXCEPT !.on = FALSE]]
  BY Lists DEF Spread
<1>3. ASSUME NEW s \in 1..Len(dsps), Mine(s) # {}
      PROVE  /\ s \in 4..Len(dsps) /\ Min(Mine(s)) = s - 2 /\ s - 2 \in 1..Len(chans)
  <2>1. PICK i \in 1..Len(chans) : i \in Mine(s)
    BY <1>3
  <2>2. i # 1 /\ s = i + 2
    BY <2>1 DEF Numbered
  <2>3. Mine(s) = {i}
    <3>1. ASSUME NEW j \in Mine(s) PROVE j = i
      <4>1. j \in 1..Len(chans) /\ j # 1 /\ s = j + 2
        BY <3>1 DEF Numbered
      <4> QED
        BY <2>2, <4>1
    <3> QED
      BY <2>1, <3>1
  <2>4. Min(Mine(s)) = i
    <3> HIDE DEF Mine
    <3>1. \A y \in Mine(s) : i <= y
      BY <2>3
    <3> QED
      BY <2>3, <3>1 DEF Min
  <2> HIDE DEF Mine
  <2> QED
    BY <2>1, <2>2, <2>4, Lists
<1>4. ASSUME NEW i \in 2..Len(chans) PROVE Mine(i + 2) # {} /\ i + 2 \in 1..Len(dsps) /\ Min(Mine(i + 2)) = i
  <2>1. i \in Mine(i + 2) /\ i + 2 \in 1..Len(dsps)
    BY Lists DEF Numbered
  <2> HIDE DEF Mine
  <2> QED
    BY <1>3, <2>1
<1> HIDE DEF Mine
<1>5. ASSUME NEW s \in 1..Len(dsps) PROVE dsps'[s] \in Dsp /\ dsps'[s].tag = dsps[s].tag
  <2>1. dsps[s] \in Dsp
    BY Lists
  <2>2. CASE Mine(s) = {}
    BY <1>2, <2>1, <2>2
  <2>3. CASE Mine(s) # {}
    <3> DEFINE f == chans[Min(Mine(s))].freq
    <3>1. f - rig.center \in Int
      <4>1. f \in Int
        BY <1>3, <2>3, Lists DEF Channel
      <4>2. rig.center \in Int
        BY Hertz DEF SdrTypes
      <4> QED
        BY <4>1, <4>2
    <3>2. \/ dsps'[s] = [dsps[s] EXCEPT !.offset = f - rig.center, !.on = TRUE]
          \/ dsps'[s] = [dsps[s] EXCEPT !.on = FALSE]
      BY <1>2, <2>3
    <3> HIDE DEF f
    <3> QED
      BY <2>1, <3>1, <3>2 DEF Dsp
  <2> QED
    BY <2>2, <2>3
<1>6. dsps' \in Seq(Dsp) /\ Len(dsps') = Len(dsps)
  <2>1. dsps' \in [1..Len(dsps) -> Dsp] /\ Len(dsps) \in Nat
    BY <1>2, <1>5, Lists
  <2> QED
    BY <2>1, FunctionSeq
<1>7. SdrTypes'
  BY <1>1, <1>6 DEF SdrTypes
<1>8. Numbered' /\ VisibleWithinCap' /\ Found'
  BY <1>1, <1>5, <1>6, TagsStay, CapStays DEF Found
<1>9. Follows' /\ DialRight'
  BY <1>1 DEF Follows, DialRight
<1>10. ASSUME NEW i \in 2..Len(chans) PROVE Right(i)'
  <2> DEFINE f == chans[i].freq
  <2>1. center' = rig.center /\ chans' = chans /\ dsps[i + 2] \in Dsp
    BY <1>1, <1>4, Lists DEF Follows
  <2>2. dsps'[i + 2] = IF InSpan(f, rig.center) THEN [dsps[i + 2] EXCEPT !.offset = f - rig.center, !.on = TRUE]
                       ELSE [dsps[i + 2] EXCEPT !.on = FALSE]
    BY <1>2, <1>4
  <2>3. IF InSpan(f, rig.center) THEN dsps'[i + 2].offset = f - rig.center ELSE ~dsps'[i + 2].on
    <3> HIDE DEF f
    <3> QED
      BY <2>1, <2>2 DEF Dsp
  <2> QED
    BY <2>1, <2>3 DEF Right
<1>11. Aimed'
  BY <1>1, <1>10 DEF Aimed
<1> QED
  BY <1>7, <1>8, <1>9, <1>11

LEMMA OwnKeeps == SdrInd /\ Own => SdrInd'
<1> SUFFICES ASSUME SdrInd, Own PROVE SdrInd'
  OBVIOUS
<1> USE DEF SdrInd
<1>1. /\ step = "own" /\ step' = "idle"
      /\ UNCHANGED <<chans, center, rig, retune, tuned, call, tags, tunes, raced, refused>>
  BY DEF Own
<1>2. dsps' = [s \in 1..Len(dsps) |->
         CASE s \in {1, 2} -> [dsps[s] EXCEPT !.offset = rig.freq - rig.center]
           [] s = 3 -> [dsps[s] EXCEPT !.offset = rig.freq + Spacing - rig.center]
           [] OTHER -> dsps[s]]
  BY Lists DEF Own
<1>3. rig.freq - rig.center \in Int /\ rig.freq + Spacing - rig.center \in Int
  <2>1. rig.freq \in Freqs /\ rig.center \in Centers
    BY DEF SdrTypes
  <2>2. Freqs \subseteq Int /\ Centers \subseteq Int /\ Spacing \in Int
    BY Hertz
  <2>3. rig.freq \in Int /\ rig.center \in Int
    BY <2>1, <2>2
  <2> QED
    BY <2>2, <2>3
<1>4. ASSUME NEW s \in 1..Len(dsps)
      PROVE  /\ dsps'[s] \in Dsp /\ dsps'[s].tag = dsps[s].tag /\ (s \in 4..Len(dsps) => dsps'[s] = dsps[s])
             /\ s \in {1, 2} => dsps'[s].offset = rig.freq - rig.center
             /\ s = 3 => dsps'[s].offset = rig.freq + Spacing - rig.center
  <2>1. dsps[s] \in Dsp
    BY Lists
  <2>2. CASE s \in {1, 2}
    <3>1. dsps'[s] = [dsps[s] EXCEPT !.offset = rig.freq - rig.center]
      BY <1>2, <2>2
    <3> QED
      BY <1>3, <2>1, <2>2, <3>1 DEF Dsp
  <2>3. CASE s = 3
    <3>1. dsps'[s] = [dsps[s] EXCEPT !.offset = rig.freq + Spacing - rig.center]
      BY <1>2, <2>3
    <3> QED
      BY <1>3, <2>1, <2>3, <3>1 DEF Dsp
  <2>4. CASE s \notin {1, 2, 3}
    <3>1. dsps'[s] = dsps[s]
      BY <1>2, <2>4
    <3> QED
      BY <2>1, <2>4, <3>1
  <2> QED
    BY <2>2, <2>3, <2>4
<1>5. dsps' \in Seq(Dsp) /\ Len(dsps') = Len(dsps)
  <2>1. dsps' \in [1..Len(dsps) -> Dsp] /\ Len(dsps) \in Nat
    BY <1>2, <1>4, Lists
  <2> QED
    BY <2>1, FunctionSeq
<1>6. SdrTypes'
  BY <1>1, <1>5 DEF SdrTypes
<1>7. Numbered' /\ VisibleWithinCap' /\ Found'
  BY <1>1, <1>4, <1>5, TagsStay, CapStays DEF Found
<1>8. Follows' /\ DialRight'
  <2>1. {1, 2, 3} \subseteq 1..Len(dsps)
    BY Lists DEF Numbered
  <2> QED
    BY <1>1, <1>4, <2>1 DEF Follows, DialRight
<1>9. Aimed'
  <2>1. \A s \in 4..Len(dsps) : dsps'[s] = dsps[s]
    BY <1>4, Lists
  <2> QED
    BY <1>1, <2>1, AimStays
<1> QED
  BY <1>6, <1>7, <1>8, <1>9

LEMMA ReadKeeps == ASSUME SdrInd, NEW ok \in BOOLEAN, ReadLoop(ok) PROVE SdrInd'
<1> USE DEF SdrInd
<1>1. /\ retune # NoCenter /\ retune' = NoCenter /\ refused' = ~ok
      /\ tuned' = IF ok THEN retune ELSE tuned
      /\ UNCHANGED <<dsps, chans, center, rig, step, call, tags, tunes, raced>>
  BY DEF ReadLoop
<1>2. SdrTypes'
  BY <1>1 DEF SdrTypes
<1>3. Numbered' /\ VisibleWithinCap' /\ Found'
  BY <1>1, TagsStay, CapStays DEF Found
<1>4. Follows' /\ DialRight'
  BY <1>1 DEF Follows, DialRight
<1>5. Aimed'
  BY <1>1, AimStays
<1> QED
  BY <1>2, <1>3, <1>4, <1>5

LEMMA SdrKeeps == SdrInd /\ [SdrNext]_sdrVars => SdrInd'
<1> SUFFICES ASSUME SdrInd, [SdrNext]_sdrVars PROVE SdrInd'
  OBVIOUS
<1>1. ASSUME NEW c \in Conns, Create(c) \/ Tune(c) PROVE SdrInd'
  BY <1>1, CreateKeeps, TuneKeeps
<1>2. ASSUME NEW c \in Conns, NEW id \in Ids,
             RemoveChannel(c, id) \/ \E f \in Freqs : Ensure(c, id, f) \/ Aim(c, id, f)
      PROVE  SdrInd'
  BY <1>2, RemoveKeeps, EnsureKeeps
<1>3. ASSUME NEW f \in Freqs, SetFreq(f) \/ SetCenterFreq(f) PROVE SdrInd'
  BY <1>3, CommandKeeps
<1>4. CASE SetMode \/ StoreCenter \/ Spread \/ Own
  BY <1>4, ModeKeeps, StoreKeeps, SpreadKeeps, OwnKeeps
<1>5. ASSUME NEW ok \in BOOLEAN, ReadLoop(ok) PROVE SdrInd'
  BY <1>5, ReadKeeps
<1>6. CASE UNCHANGED sdrVars
  <2>1. UNCHANGED <<dsps, chans, center, rig, step, retune, tuned, call, tags, tunes, raced, refused>>
    BY <1>6 DEF sdrVars
  <2>2. SdrTypes'
    BY <2>1 DEF SdrInd, SdrTypes
  <2>3. Numbered' /\ VisibleWithinCap' /\ Aimed'
    BY <2>1, TagsStay, CapStays, AimStays DEF SdrInd
  <2> QED
    BY <2>1, <2>2, <2>3 DEF SdrInd, Found, Follows, DialRight
<1> QED
  BY <1>1, <1>2, <1>3, <1>4, <1>5, <1>6 DEF SdrNext

\* However connections create, remove and tune channels while the rig is tuned and the hardware
\* follows: every channel has its own DSP, what is seen of them stays within the limit, and a DSP
\* that is on listens to the frequency its channel names, but for what a tuning that met a change
\* of the centre has left (trx-backend-soapysdr: vchan_impl.rs, real_iq_source.rs).
THEOREM SdrHolds == SdrSpec => []SdrInv
<1>1. SdrInit => SdrInd
  BY SdrStarts
<1>2. SdrInd /\ [SdrNext]_sdrVars => SdrInd'
  BY SdrKeeps
<1>3. SdrInd => SdrInv
  BY SdrImplies
<1> QED
  BY <1>1, <1>2, <1>3, PTL DEF SdrSpec

(***************************************************************************)
(* The decoder tasks.                                                       *)
(***************************************************************************)
TaskRecord == [at : {"select", "check", "record", "absorb"}, on : BOOLEAN,
               last : 0..MaxChanges, slot : NoSlot..MaxSlots, run : 0..MaxChanges + 1]
TaskTypes ==
    /\ kind \in Decoders /\ state \in [on : BOOLEAN, resets : 0..MaxChanges] /\ unseen \in BOOLEAN
    /\ pcm \in Seq(Block) /\ Len(pcm) <= Backlog /\ task \in TaskRecord
    /\ taken \subseteq Block /\ block \in Block /\ out \subseteq Block /\ asked \in 0..MaxChanges
    /\ clearing \in BOOLEAN /\ slot \in 0..MaxSlots
    /\ blocks \in 0..MaxBlocks /\ changes \in 0..MaxChanges

HistoryOK ==
    /\ \A e \in history : e.from \subseteq Block /\ e.asked \in 0..MaxChanges
    /\ OneRunOneSlot /\ ResetForgets

Counted ==
    /\ state.resets <= changes /\ task.last <= state.resets /\ asked <= state.resets
    /\ task.run <= changes + 1 /\ (unseen => task.run <= changes)

\* A task that works on a block is on, and what may be recorded is among what it has taken in.
Working ==
    /\ out \subseteq taken /\ (task.at \in {"select", "absorb"} => out = {})
    /\ task.at # "select" => task.on /\ block.run = task.run
    /\ task.at = "absorb" => kind.slot = "decode" /\ block.slot = task.slot
    /\ task.at # "select" /\ kind.slot # "none" => block.slot # NoSlot

\* But for WEFAX, what a task has taken in belongs to its run and to its slot.
OneRun ==
    kind # Wefax =>
        /\ ~task.on => taken = {}
        /\ \A b \in taken : /\ b.run = task.run
                            /\ kind.slot = "none" => b.slot = NoSlot
                            /\ kind.slot # "none" => b.slot = task.slot /\ b.slot # NoSlot

\* What a task that looks for resets works with came after the last one it has seen.
Fresh ==
    kind.again =>
        /\ task.on => \A i \in 1..Len(pcm) : pcm[i].resets >= task.last
        /\ \A b \in taken : b.resets >= task.last
        /\ task.at # "select" => block.resets >= task.last
        /\ task.at \in {"check", "record"} => asked = task.last

TaskInd == TaskTypes /\ HistoryOK /\ Counted /\ Working /\ OneRun /\ Fresh

\* How the eleven loops differ, as far as the proof needs it.
LEMMA Variations ==
    ASSUME kind \in Decoders
    PROVE  /\ kind.again => kind.asks /\ kind.off # "record" /\ (~kind.renews => ~kind.watches)
           /\ kind = Lrpt => ~kind.again /\ kind.slot = "none"
           /\ kind # Wefax => kind.off # "keep" /\ ~kind.saves
           /\ kind.slot \in {"none", "clear", "decode"}
<1> DEFINE Varies == /\ kind.again => kind.asks /\ kind.off # "record" /\ (~kind.renews => ~kind.watches)
                     /\ kind # Wefax => kind.off # "keep" /\ ~kind.saves
                     /\ kind.slot \in {"none", "clear", "decode"}
<1>1. ASSUME kind = Aprs PROVE Varies
  BY <1>1 DEF Aprs, Plain
<1>2. ASSUME kind = Ais PROVE Varies
  BY <1>2 DEF Ais, Plain
<1>3. ASSUME kind = Vdes PROVE Varies
  BY <1>3 DEF Vdes, Ais, Plain
<1>4. ASSUME kind = Cw PROVE Varies
  BY <1>4 DEF Cw, Plain
<1>5. ASSUME kind = Ftx PROVE Varies
  BY <1>5 DEF Ftx, Plain
<1>6. ASSUME kind = Ft2 PROVE Varies
  BY <1>6 DEF Ft2, Plain
<1>7. ASSUME kind = Wspr PROVE Varies
  BY <1>7 DEF Wspr, Plain
<1>8. ASSUME kind = Lrpt PROVE Varies
  BY <1>8 DEF Lrpt, Plain
<1>9. ASSUME kind = Wefax PROVE Varies
  BY <1>9 DEF Wefax, Plain
<1>10. kind = Lrpt => ~kind.again /\ kind.slot = "none"
  BY DEF Lrpt, Plain
<1> HIDE DEF Varies
<1>11. Varies
  BY <1>1, <1>2, <1>3, <1>4, <1>5, <1>6, <1>7, <1>8, <1>9, Zenon DEF Decoders
<1> QED
  BY <1>10, <1>11 DEF Varies

LEMMA TaskBounds ==
    ASSUME TaskTypes
    PROVE  /\ {Backlog, MaxBlocks, MaxChanges, MaxSlots} \subseteq Nat /\ Backlog # 0
           /\ state.resets \in 0..MaxChanges /\ task.last \in 0..MaxChanges /\ task.slot \in NoSlot..MaxSlots
           /\ task.run \in 0..MaxChanges + 1 /\ task.on \in BOOLEAN /\ state.on \in BOOLEAN
           /\ \A b \in Block : b.resets \in 0..MaxChanges /\ b.run \in 0..MaxChanges + 1 /\ b.slot \in NoSlot..MaxSlots
BY DecoderAssumption DEF DecoderAssumption, TaskTypes, TaskRecord, Block

LEMMA Waiting ==
    ASSUME TaskTypes
    PROVE  /\ Len(pcm) \in Nat /\ <<>> \in Seq(Block) /\ Len(<<>>) = 0 /\ \A i \in 1..Len(pcm) : pcm[i] \in Block
           /\ pcm # <<>> => /\ Len(pcm) >= 1 /\ Head(pcm) \in Block /\ Head(pcm) = pcm[1]
                            /\ Tail(pcm) \in Seq(Block) /\ Len(Tail(pcm)) = Len(pcm) - 1
                            /\ \A i \in 1..Len(Tail(pcm)) : i + 1 \in 1..Len(pcm) /\ Tail(pcm)[i] = pcm[i + 1]
<1>1. pcm \in Seq(Block) /\ Len(pcm) \in Nat /\ \A i \in 1..Len(pcm) : pcm[i] \in Block
  BY LenProperties DEF TaskTypes
<1>2. ASSUME pcm # <<>>
      PROVE  /\ Len(pcm) >= 1 /\ Head(pcm) = pcm[1] /\ Head(pcm) \in Block
             /\ Tail(pcm) \in Seq(Block) /\ Len(Tail(pcm)) = Len(pcm) - 1
             /\ \A i \in 1..Len(Tail(pcm)) : Tail(pcm)[i] = pcm[i + 1]
  BY <1>1, <1>2, HeadTailProperties
<1> QED
  BY <1>1, <1>2

LEMMA QueueStep ==
    ASSUME TaskTypes, pcm' = pcm \/ pcm' = <<>> \/ (pcm # <<>> /\ pcm' = Tail(pcm))
    PROVE  pcm' \in Seq(Block) /\ Len(pcm') <= Backlog
<1>1. Len(pcm) \in Nat /\ Len(pcm) <= Backlog /\ Backlog \in Nat /\ pcm \in Seq(Block)
  BY Waiting, TaskBounds DEF TaskTypes
<1>2. CASE pcm' = pcm
  BY <1>1, <1>2
<1>3. CASE pcm' = <<>>
  BY <1>1, <1>3, Waiting
<1>4. CASE pcm # <<>> /\ pcm' = Tail(pcm)
  <2>1. Tail(pcm) \in Seq(Block) /\ Len(Tail(pcm)) = Len(pcm) - 1
    BY <1>4, Waiting
  <2>2. pcm' \in Seq(Block) /\ Len(pcm') = Len(pcm) - 1
    <3> DEFINE rest == Tail(pcm)
    <3>1. rest \in Seq(Block) /\ Len(rest) = Len(pcm) - 1 /\ pcm' = rest
      BY <1>4, <2>1
    <3> HIDE DEF rest
    <3> QED
      BY <3>1, Zenon
  <2>3. Len(pcm) - 1 <= Backlog
    BY <1>1
  <2> QED
    BY <2>2, <2>3
<1> QED
  BY <1>2, <1>3, <1>4

\* What is recorded of what has been taken in.
LEMMA Records ==
    ASSUME TaskInd, kind' = kind, NEW from, from = {} \/ from = taken \/ from = out, NEW a \in 0..MaxChanges,
           NEW saved \in BOOLEAN, kind.again => saved \/ a = task.last,
           history' = history \/ history' = history \cup {[from |-> from, asked |-> a, saved |-> saved]}
    PROVE  HistoryOK'
<1> DEFINE e == [from |-> from, asked |-> a, saved |-> saved]
<1>1. e.from = from /\ e.asked = a /\ e.saved = saved
  OBVIOUS
<1>2. from \subseteq taken /\ from \subseteq Block
  BY DEF TaskInd, TaskTypes, Working
<1>3. kind # Wefax => \A b, c \in from : b.run = c.run /\ b.slot = c.slot
  BY <1>2 DEF TaskInd, OneRun
<1>4. kind.again /\ ~saved => \A b \in from : b.resets >= a
  BY <1>2 DEF TaskInd, Fresh
<1>5. \A x \in history' : x \in history \/ x = e
  OBVIOUS
<1> HIDE DEF e
<1>6. \A x \in history' : x.from \subseteq Block /\ x.asked \in 0..MaxChanges
  BY <1>1, <1>2, <1>5 DEF TaskInd, HistoryOK
<1>7. OneRunOneSlot'
  BY <1>1, <1>3, <1>5 DEF TaskInd, HistoryOK, OneRunOneSlot
<1>8. ResetForgets'
  BY <1>1, <1>4, <1>5 DEF TaskInd, HistoryOK, ResetForgets
<1> QED
  BY <1>6, <1>7, <1>8 DEF HistoryOK

LEMMA Saves ==
    ASSUME TaskInd, kind' = kind, NEW saved \in BOOLEAN, MaySave(saved) \/ history' = history,
           kind.again => saved \/ state.resets = task.last
    PROVE  HistoryOK'
<1>1. state.resets \in 0..MaxChanges
  BY TaskBounds DEF TaskInd
<1>2. history' = history \/ history' = history \cup {[from |-> taken, asked |-> state.resets, saved |-> saved]}
  BY DEF MaySave, Recorded
<1> QED
  BY <1>1, <1>2, Records

LEMMA HistoryStays == ASSUME TaskInd, kind' = kind, history' = history PROVE HistoryOK'
<1>1. 0 \in 0..MaxChanges /\ TRUE \in BOOLEAN
  BY TaskBounds DEF TaskInd
<1> QED
  BY <1>1 DEF TaskInd, HistoryOK, OneRunOneSlot, ResetForgets

LEMMA TaskStarts == DecoderInit => TaskInd
<1> SUFFICES ASSUME DecoderInit PROVE TaskInd
  OBVIOUS
<1>1. PICK on \in BOOLEAN :
        /\ state = [on |-> on, resets |-> 0]
        /\ task = [at |-> "select", on |-> on, last |-> 0, slot |-> NoSlot, run |-> IF on THEN 1 ELSE 0]
  BY DEF DecoderInit
<1>2. /\ kind \in Decoders /\ unseen = FALSE /\ pcm = <<>> /\ taken = {} /\ block = NoBlock /\ asked = 0
      /\ out = {} /\ history = {} /\ clearing = FALSE /\ slot = 0 /\ blocks = 0 /\ changes = 0
  BY DEF DecoderInit
<1>3. {Backlog, MaxBlocks, MaxChanges, MaxSlots} \subseteq Nat
  BY DecoderAssumption DEF DecoderAssumption
<1>4. /\ state \in [on : BOOLEAN, resets : 0..MaxChanges] /\ task \in TaskRecord /\ block \in Block
  BY <1>1, <1>2, <1>3 DEF TaskRecord, Block, NoBlock, NoSlot
<1>5. pcm \in Seq(Block) /\ Len(pcm) = 0
  BY <1>2
<1>6. TaskTypes
  <2>1. {0} \subseteq 0..MaxChanges /\ 0 \in 0..MaxBlocks /\ 0 \in 0..MaxSlots /\ Len(pcm) <= Backlog
    BY <1>3, <1>5
  <2> QED
    BY <1>2, <1>4, <1>5, <2>1 DEF TaskTypes
<1>7. HistoryOK
  BY <1>2 DEF HistoryOK, OneRunOneSlot, ResetForgets
<1>8. Counted /\ Working /\ OneRun /\ Fresh
  BY <1>1, <1>2, <1>5 DEF Counted, Working, OneRun, Fresh
<1> QED
  BY <1>6, <1>7, <1>8 DEF TaskInd

\* The rig task and the sound card touch nothing that the task works with.
LEMMA WorldKeeps ==
    ASSUME TaskInd, ModeChanges \/ StateChanges \/ ClearHistory \/ PublishReset \/ SlotPasses
    PROVE  TaskInd'
<1> USE DEF TaskInd
<1>1. /\ UNCHANGED <<kind, pcm, task, taken, block, asked, out, blocks>>
      /\ history' \in {history, {}} /\ clearing' \in BOOLEAN
      /\ \/ Changes /\ slot' = slot
         \/ UNCHANGED <<changes, unseen, state>> /\ (slot' = slot \/ (slot < MaxSlots /\ slot' = slot + 1))
      /\ state'.resets = state.resets \/ (Changes /\ state'.resets = state.resets + 1)
      /\ \/ state' = state \/ state' = [state EXCEPT !.on = ~@] \/ state' = [state EXCEPT !.resets = @ + 1]
  BY DEF TaskTypes, ModeChanges, StateChanges, ClearHistory, PublishReset, SlotPasses
<1>2. /\ changes' \in 0..MaxChanges /\ unseen' \in BOOLEAN /\ slot' \in 0..MaxSlots /\ changes \in Nat
      /\ Changes => changes' = changes + 1 /\ unseen' = TRUE
  <2>1. changes \in 0..MaxChanges /\ slot \in 0..MaxSlots /\ MaxChanges \in Nat /\ MaxSlots \in Nat /\ unseen \in BOOLEAN
    BY TaskBounds DEF TaskTypes
  <2>2. Changes => changes < MaxChanges /\ changes' = changes + 1 /\ unseen' = TRUE
    BY DEF Changes
  <2>3. changes' \in 0..MaxChanges /\ unseen' \in BOOLEAN
    <3>1. CASE Changes
      BY <2>1, <2>2, <3>1
    <3>2. CASE UNCHANGED <<changes, unseen, state>>
      BY <2>1, <3>2
    <3> QED
      BY <1>1, <3>1, <3>2
  <2>4. slot' \in 0..MaxSlots
    BY <1>1, <2>1
  <2> QED
    BY <2>1, <2>2, <2>3, <2>4
<1>3. state' \in [on : BOOLEAN, resets : 0..MaxChanges]
  <2>1. state.resets \in 0..MaxChanges /\ state'.resets <= changes' /\ state'.resets \in Nat
    BY <1>1, <1>2, TaskBounds DEF Counted
  <2>2. state'.resets \in 0..MaxChanges
    BY <1>2, <2>1, TaskBounds
  <2> QED
    BY <1>1, <2>2 DEF TaskTypes
<1>4. TaskTypes'
  BY <1>1, <1>2, <1>3 DEF TaskTypes
<1>5. HistoryOK'
  <2>1. CASE history' = history
    BY <1>1, <2>1, HistoryStays
  <2>2. CASE history' = {}
    BY <2>2 DEF HistoryOK, OneRunOneSlot, ResetForgets
  <2> QED
    BY <1>1, <2>1, <2>2
<1>6. Counted'
  <2>1. /\ state.resets \in Nat /\ task.last \in Nat /\ asked \in Nat /\ task.run \in Nat /\ changes \in Nat
    BY TaskBounds DEF TaskTypes
  <2>2. CASE Changes
    BY <1>1, <1>2, <2>1, <2>2 DEF Counted
  <2>3. CASE UNCHANGED <<changes, unseen, state>>
    BY <1>1, <2>3 DEF Counted
  <2> QED
    BY <1>1, <2>2, <2>3
<1>7. Working' /\ OneRun' /\ Fresh'
  BY <1>1 DEF Working, OneRun, Fresh
<1> QED
  BY <1>4, <1>5, <1>6, <1>7

LEMMA CaptureKeeps == TaskInd /\ Capture => TaskInd'
<1> SUFFICES ASSUME TaskInd, Capture PROVE TaskInd'
  OBVIOUS
<1> USE DEF TaskInd
<1> DEFINE b == [NoBlock EXCEPT !.resets = state.resets]
           all == Append(pcm, b)
<1>1. /\ blocks < MaxBlocks /\ blocks' = blocks + 1 /\ pcm' = IF Len(all) > Backlog THEN Tail(all) ELSE all
      /\ UNCHANGED <<kind, state, unseen, task, taken, block, asked, out, history, clearing, slot, changes>>
  BY DEF Capture
<1>2. b \in Block /\ b.resets = state.resets
  BY TaskBounds DEF Block, NoBlock, NoSlot
<1> HIDE DEF b
<1>3. /\ all \in Seq(Block) /\ Len(all) = Len(pcm) + 1 /\ all[Len(pcm) + 1] = b
      /\ \A i \in 1..Len(pcm) : all[i] = pcm[i]
  BY <1>2, AppendProperties DEF TaskTypes
<1>4. Len(pcm) \in Nat /\ Len(pcm) <= Backlog /\ Backlog \in Nat
  BY Waiting, TaskBounds DEF TaskTypes
<1>5. all # <<>>
  BY <1>3, <1>4
<1>6. Tail(all) \in Seq(Block) /\ Len(Tail(all)) = Len(all) - 1 /\ \A i \in 1..Len(Tail(all)) : Tail(all)[i] = all[i + 1]
  BY <1>3, <1>5, HeadTailProperties
<1> HIDE DEF all
<1>7. pcm' \in Seq(Block) /\ Len(pcm') <= Backlog
  BY <1>1, <1>3, <1>4, <1>6
<1>8. ASSUME NEW i \in 1..Len(pcm') PROVE pcm'[i] = b \/ \E j \in 1..Len(pcm) : pcm'[i] = pcm[j]
  <2>1. \E j \in 1..Len(all) : pcm'[i] = all[j]
    BY <1>1, <1>3, <1>4, <1>6
  <2> QED
    BY <1>3, <1>4, <2>1
<1>9. TaskTypes'
  <2>1. blocks' \in 0..MaxBlocks
    BY <1>1, TaskBounds DEF TaskTypes
  <2> QED
    BY <1>1, <1>7, <2>1 DEF TaskTypes
<1>10. HistoryOK'
  BY <1>1, HistoryStays
<1>11. Counted' /\ Working' /\ OneRun'
  BY <1>1 DEF Counted, Working, OneRun
<1>12. Fresh'
  <2>1. ASSUME kind.again, task.on, NEW i \in 1..Len(pcm') PROVE pcm'[i].resets >= task.last
    BY <1>2, <1>8, <2>1, TaskBounds DEF Fresh, Counted
  <2> QED
    BY <1>1, <2>1 DEF Fresh
<1> QED
  BY <1>9, <1>10, <1>11, <1>12

\* The task sees a change of the state.
LEMMA SeeKeeps == ASSUME TaskInd, SeeIdle \/ SeeChange PROVE TaskInd'
<1> USE DEF TaskInd
<1> DEFINE reset == kind.watches /\ state.resets # task.last
<1>1. /\ task.at = "select" /\ unseen /\ unseen' = FALSE
      /\ UNCHANGED <<kind, state, block, asked, out, clearing, slot, blocks, changes>>
      /\ pcm' \in {pcm, <<>>} /\ taken' \in {taken, {}}
      /\ MaySave(FALSE) \/ history' = history
  BY DEF SeeIdle, SeeChange, Asleep, Awake
<1>2. /\ task' \in TaskRecord /\ task'.at = "select" /\ task'.on = state.on
      /\ task'.last = IF reset THEN state.resets ELSE task.last
      /\ task'.run = IF ~task.on /\ state.on THEN task.run + 1 ELSE task.run
      /\ ~task.on => task'.slot = NoSlot
      /\ task.on /\ state.on /\ ~reset => task'.slot = task.slot
  <2>1. task.run + 1 \in 0..MaxChanges + 1 /\ NoSlot \in NoSlot..MaxSlots /\ state.resets \in 0..MaxChanges /\ state.on \in BOOLEAN
    <3>1. task.run <= changes /\ changes \in 0..MaxChanges
      BY <1>1 DEF Counted, TaskTypes
    <3> QED
      BY <3>1, TaskBounds DEF NoSlot
  <2>2. CASE SeeIdle
    <3>1. task' = [task EXCEPT !.on = state.on, !.run = IF state.on THEN task.run + 1 ELSE task.run,
                               !.slot = NoSlot, !.last = IF reset THEN state.resets ELSE task.last]
          /\ ~task.on
      BY <2>2 DEF SeeIdle, Asleep
    <3>2. task \in TaskRecord
      BY DEF TaskTypes
    <3> QED
      BY <1>1, <2>1, <3>1, <3>2 DEF TaskRecord
  <2>3. CASE SeeChange
    <3>1. PICK x \in {NoSlot, task.slot} :
            /\ task' = [task EXCEPT !.on = state.on, !.slot = x,
                                    !.last = IF reset THEN state.resets ELSE task.last]
            /\ (state.on /\ ~reset => x = task.slot) /\ task.on
      BY <2>3 DEF SeeChange, Awake
    <3>2. task \in TaskRecord /\ x \in NoSlot..MaxSlots
      BY <2>1, TaskBounds DEF TaskTypes
    <3> QED
      BY <1>1, <2>1, <3>1, <3>2 DEF TaskRecord
  <2> QED
    BY <2>2, <2>3
<1>3. /\ reset => taken' = {}
      /\ kind.off # "keep" /\ ~state.on => taken' = {} \/ taken = {} \/ ~task.on
      /\ kind.again /\ ~task.on /\ state.on => pcm' = <<>>
      /\ kind.again /\ task.on /\ state.on /\ reset => pcm' = <<>>
      /\ kind.again => history' = history
  BY Variations DEF SeeIdle, SeeChange, Asleep, Awake, TaskTypes
<1> HIDE DEF reset
<1>4. TaskTypes'
  <2>1. pcm' \in Seq(Block) /\ Len(pcm') <= Backlog
    BY <1>1, QueueStep
  <2> QED
    BY <1>1, <1>2, <2>1 DEF TaskTypes
<1>5. HistoryOK'
  <2>1. CASE kind.again
    BY <1>1, <1>3, <2>1, HistoryStays
  <2>2. CASE ~kind.again
    BY <1>1, <2>2, Saves
  <2> QED
    BY <2>1, <2>2
<1>6. Counted'
  BY SMTT(30), <1>1, <1>2, TaskBounds DEF Counted, TaskTypes
<1>7. Working'
  BY <1>1, <1>2 DEF Working
<1>8. OneRun'
  <2> SUFFICES ASSUME kind # Wefax
               PROVE  /\ ~task'.on => taken' = {}
                      /\ \A b \in taken' : /\ b.run = task'.run
                                           /\ kind.slot = "none" => b.slot = NoSlot
                                           /\ kind.slot # "none" => b.slot = task'.slot /\ b.slot # NoSlot
    BY <1>1 DEF OneRun
  <2>1. kind.off # "keep" /\ (~task.on => taken = {})
    BY Variations DEF OneRun, TaskTypes
  <2>2. CASE ~task.on
    BY <1>1, <2>1, <2>2
  <2>3. CASE task.on /\ ~state.on
    BY <1>1, <1>2, <1>3, <2>1, <2>3
  <2>4. CASE task.on /\ state.on /\ reset
    BY <1>2, <1>3, <2>4
  <2>5. CASE task.on /\ state.on /\ ~reset
    BY <1>1, <1>2, <2>5 DEF OneRun
  <2> QED
    BY <2>2, <2>3, <2>4, <2>5
<1>9. Fresh'
  <2> SUFFICES ASSUME kind.again
               PROVE  /\ task'.on => \A i \in 1..Len(pcm') : pcm'[i].resets >= task'.last
                      /\ \A b \in taken' : b.resets >= task'.last
    BY <1>1, <1>2 DEF Fresh
  <2>1. \A b \in taken' : b.resets >= task'.last
    BY <1>1, <1>2, <1>3 DEF Fresh
  <2>2. ASSUME task'.on, NEW i \in 1..Len(pcm') PROVE pcm'[i].resets >= task'.last
    <3>1. CASE pcm' = <<>>
      BY <2>2, <3>1
    <3>2. CASE pcm' # <<>>
      BY <1>1, <1>2, <1>3, <2>2, <3>2 DEF Fresh
    <3> QED
      BY <3>1, <3>2
  <2> QED
    BY <2>1, <2>2
<1> QED
  BY <1>4, <1>5, <1>6, <1>7, <1>8, <1>9

\* The block that waits longest, when the task turns to it.
LEMMA Arrival ==
    ASSUME TaskTypes, pcm # <<>>, NEW b, b = Arrived(Head(pcm))
    PROVE  /\ b \in Block /\ b.run = task.run /\ b.resets = pcm[1].resets
           /\ kind.slot = "none" => b.slot = NoSlot
           /\ kind.slot # "none" => b.slot = slot /\ b.slot # NoSlot
<1>1. Head(pcm) \in Block /\ Head(pcm) = pcm[1]
  BY Waiting
<1>2. task.run \in 0..MaxChanges + 1 /\ slot \in NoSlot..MaxSlots /\ NoSlot \in NoSlot..MaxSlots /\ slot # NoSlot
  BY SMTT(30), TaskBounds DEF TaskTypes, NoSlot
<1> QED
  BY <1>1, <1>2 DEF Arrived, Block

LEMMA ResetKeeps == TaskInd /\ SeeReset => TaskInd'
<1> SUFFICES ASSUME TaskInd, SeeReset PROVE TaskInd'
  OBVIOUS
<1> USE DEF TaskInd
<1> DEFINE b == Arrived(Head(pcm))
<1>1. /\ task.at = "select" /\ task.on /\ pcm # <<>>
      /\ task' = [task EXCEPT !.last = state.resets, !.slot = IF kind.slot = "none" THEN @ ELSE slot]
      /\ MaySave(TRUE) \/ history' = history
      /\ taken' = IF kind = Lrpt THEN {b} ELSE {}
      /\ pcm' = IF kind = Lrpt THEN Tail(pcm) ELSE <<>>
      /\ UNCHANGED <<kind, state, unseen, block, asked, out, clearing, slot, blocks, changes>>
  BY DEF SeeReset, Awake
<1>2. /\ b \in Block /\ b.run = task.run /\ (kind.slot = "none" => b.slot = NoSlot)
  BY <1>1, Arrival
<1> HIDE DEF b
<1>3. /\ task' \in TaskRecord /\ task'.at = "select" /\ task'.on /\ task'.last = state.resets /\ task'.run = task.run
  <2>1. state.resets \in 0..MaxChanges /\ task.slot \in NoSlot..MaxSlots /\ slot \in NoSlot..MaxSlots /\ task \in TaskRecord
    BY TaskBounds DEF TaskTypes, NoSlot
  <2>2. PICK x \in NoSlot..MaxSlots : task' = [task EXCEPT !.last = state.resets, !.slot = x]
    BY <1>1, <2>1
  <2> QED
    BY <1>1, <2>1, <2>2 DEF TaskRecord
<1>4. TaskTypes'
  <2>1. pcm' \in Seq(Block) /\ Len(pcm') <= Backlog
    BY <1>1, QueueStep
  <2>2. taken' \subseteq Block
    BY <1>1, <1>2
  <2> QED
    BY <1>1, <1>3, <2>1, <2>2 DEF TaskTypes
<1>5. HistoryOK'
  BY <1>1, Saves
<1>6. Counted'
  BY <1>1, <1>3, TaskBounds DEF Counted
<1>7. Working'
  BY <1>1, <1>3 DEF Working
<1>8. OneRun' /\ Fresh'
  <2>1. CASE kind = Lrpt
    BY <1>1, <1>2, <1>3, <2>1, Variations DEF OneRun, Fresh, TaskTypes
  <2>2. CASE kind # Lrpt
    <3>1. taken' = {} /\ Len(pcm') = 0
      BY <1>1, <2>2
    <3> QED
      BY <1>3, <3>1 DEF OneRun, Fresh
  <2> QED
    BY <2>1, <2>2
<1> QED
  BY <1>4, <1>5, <1>6, <1>7, <1>8

\* What is taken from the blocks that wait.
LEMMA TailFresh ==
    ASSUME TaskTypes, Fresh, kind.again, task.on, pcm # <<>>
    PROVE  pcm[1].resets >= task.last /\ \A i \in 1..Len(Tail(pcm)) : Tail(pcm)[i].resets >= task.last
<1>1. \A i \in 1..Len(pcm) : pcm[i].resets >= task.last
  BY DEF Fresh
<1> QED
  BY <1>1, Waiting

LEMMA OffKeeps == TaskInd /\ (SeeOff \/ Silence) => TaskInd'
<1> SUFFICES ASSUME TaskInd, SeeOff \/ Silence PROVE TaskInd'
  OBVIOUS
<1> USE DEF TaskInd
<1>1. /\ task.at = "select" /\ task.on /\ taken' = {}
      /\ UNCHANGED <<kind, state, unseen, block, asked, out, clearing, slot, blocks, changes>>
      /\ MaySave(FALSE) \/ history' = history
      /\ \/ task' = [task EXCEPT !.on = FALSE] /\ pcm # <<>> /\ pcm' = Tail(pcm)
         \/ task' = task /\ pcm' = pcm
  BY DEF SeeOff, Silence, NoReset, Awake
<1>2. kind.again => state.resets = task.last
  BY Variations DEF SeeOff, Silence, NoReset, TaskTypes
<1>3. /\ task' \in TaskRecord /\ task'.at = "select" /\ task'.last = task.last /\ task'.run = task.run
      /\ ~task'.on \/ (task' = task /\ pcm' = pcm)
  BY <1>1 DEF TaskTypes, TaskRecord
<1>4. pcm' \in Seq(Block) /\ Len(pcm') <= Backlog
  BY <1>1, QueueStep
<1>5. TaskTypes'
  BY <1>1, <1>3, <1>4 DEF TaskTypes
<1>6. HistoryOK'
  BY <1>1, <1>2, Saves
<1>7. Counted' /\ Working'
  BY <1>1, <1>3 DEF Counted, Working
<1>8. OneRun' /\ Fresh'
  BY <1>1, <1>3 DEF OneRun, Fresh
<1> QED
  BY <1>5, <1>6, <1>7, <1>8

LEMMA DecodeKeeps == TaskInd /\ Decode => TaskInd'
<1> SUFFICES ASSUME TaskInd, Decode PROVE TaskInd'
  OBVIOUS
<1> USE DEF TaskInd
<1> DEFINE b == Arrived(Head(pcm))
<1>1. /\ task.at = "select" /\ task.on /\ pcm # <<>> /\ (kind.asks => state.resets = task.last)
      /\ pcm' = Tail(pcm) /\ asked' = state.resets /\ block' = b
      /\ UNCHANGED <<kind, state, unseen, history, clearing, slot, blocks, changes>>
  BY DEF Decode, NoReset, Awake
<1>2. /\ b \in Block /\ b.run = task.run /\ b.resets = pcm[1].resets
      /\ kind.slot = "none" => b.slot = NoSlot
      /\ kind.slot # "none" => b.slot = slot /\ b.slot # NoSlot
  BY <1>1, Arrival
<1>3. \/ /\ kind.slot = "decode" /\ taken' = taken /\ out' = {} /\ task.slot \in {NoSlot, slot}
         /\ task' = [task EXCEPT !.at = "absorb", !.slot = slot]
      \/ /\ kind.slot = "decode" /\ taken' = taken /\ out' \in {{}, taken}
         /\ task' = [task EXCEPT !.at = "check"]
      \/ /\ kind.slot # "decode" /\ taken' = Kept \cup {b} /\ out' \in {{}, taken'}
         /\ task' = [task EXCEPT !.at = "check", !.slot = SlotNow]
  BY DEF Decode
<1> HIDE DEF b
<1>4. task \in TaskRecord /\ slot \in NoSlot..MaxSlots /\ SlotNow \in NoSlot..MaxSlots
  BY TaskBounds DEF TaskTypes, SlotNow, NoSlot
<1>5. /\ task' \in TaskRecord /\ task'.at \in {"check", "absorb"} /\ task'.on
      /\ task'.last = task.last /\ task'.run = task.run
  BY <1>1, <1>3, <1>4 DEF TaskRecord
<1>6. Kept \subseteq taken /\ (kind.slot = "clear" /\ slot # task.slot => Kept = {})
  BY DEF Kept, SlotEnds
<1>7. TaskTypes'
  <2>1. pcm' \in Seq(Block) /\ Len(pcm') <= Backlog
    BY <1>1, QueueStep
  <2>2. taken' \subseteq Block /\ out' \subseteq Block
    BY <1>2, <1>3, <1>6 DEF TaskTypes
  <2>3. asked' \in 0..MaxChanges
    BY <1>1, TaskBounds
  <2> QED
    BY <1>1, <1>2, <1>5, <2>1, <2>2, <2>3 DEF TaskTypes
<1>8. HistoryOK'
  BY <1>1, HistoryStays
<1>9. Counted'
  BY <1>1, <1>5, TaskBounds DEF Counted
<1>10. Working'
  <2>1. out' \subseteq taken' /\ (task'.at = "absorb" => out' = {})
    BY <1>3, <1>4 DEF TaskRecord
  <2>2. task'.at = "absorb" => kind.slot = "decode" /\ task'.slot = slot
    BY <1>3, <1>4 DEF TaskRecord
  <2> QED
    BY <1>1, <1>2, <1>5, <2>1, <2>2 DEF Working
<1>11. OneRun'
  <2> SUFFICES ASSUME kind # Wefax, NEW c \in taken'
               PROVE  /\ c.run = task'.run /\ (kind.slot = "none" => c.slot = NoSlot)
                      /\ kind.slot # "none" => c.slot = task'.slot /\ c.slot # NoSlot
    BY <1>1, <1>5 DEF OneRun
  <2>1. c \in taken => /\ c.run = task.run /\ (kind.slot = "none" => c.slot = NoSlot)
                       /\ kind.slot # "none" => c.slot = task.slot /\ c.slot # NoSlot
    BY DEF OneRun
  <2>2. CASE kind.slot = "decode"
    <3>1. c \in taken /\ c.slot = task.slot /\ c.slot # NoSlot
      BY <1>3, <2>1, <2>2
    <3>2. task'.slot = task.slot
      BY <1>3, <1>4, <2>2, <3>1 DEF TaskRecord
    <3> QED
      BY <1>5, <2>1, <2>2, <3>1, <3>2
  <2>3. CASE kind.slot # "decode"
    <3>1. task'.slot = SlotNow /\ (c \in Kept \/ c = b)
      <4>1. taken' = Kept \cup {b} /\ task' = [task EXCEPT !.at = "check", !.slot = SlotNow]
        BY <1>3, <2>3
      <4>2. task'.slot = SlotNow
        BY <1>4, <4>1 DEF TaskRecord
      <4> QED
        BY <4>1, <4>2
    <3>2. kind.slot # "none" => kind.slot = "clear" /\ SlotNow = slot
      BY <2>3, Variations DEF TaskTypes, SlotNow
    <3> QED
      BY <1>2, <1>5, <1>6, <2>1, <3>1, <3>2
  <2> QED
    BY <2>2, <2>3
<1>12. Fresh'
  <2> SUFFICES ASSUME kind.again
               PROVE  /\ \A i \in 1..Len(pcm') : pcm'[i].resets >= task'.last
                      /\ \A c \in taken' : c.resets >= task'.last
                      /\ block'.resets >= task'.last /\ asked' = task'.last
    BY <1>1 DEF Fresh
  <2>1. pcm[1].resets >= task.last /\ \A i \in 1..Len(Tail(pcm)) : Tail(pcm)[i].resets >= task.last
    BY <1>1, TailFresh
  <2>2. \A c \in taken' : c \in taken \/ c = b
    BY <1>3, <1>6
  <2>3. \A c \in taken : c.resets >= task.last
    BY DEF Fresh
  <2>4. asked' = task.last
    BY <1>1, Variations DEF TaskTypes
  <2> QED
    BY <1>1, <1>2, <1>5, <2>1, <2>2, <2>3, <2>4
<1> QED
  BY <1>7, <1>8, <1>9, <1>10, <1>11, <1>12

\* A reset meanwhile voids the messages, and what the decoder has taken in.
LEMMA CheckKeeps == TaskInd /\ Check => TaskInd'
<1> SUFFICES ASSUME TaskInd, Check PROVE TaskInd'
  OBVIOUS
<1> USE DEF TaskInd
<1>1. /\ task.at = "check" /\ asked' = state.resets
      /\ UNCHANGED <<kind, state, unseen, block, clearing, slot, blocks, changes>>
  BY DEF Check
<1>2. task \in TaskRecord /\ task.on /\ state.resets \in 0..MaxChanges /\ block.slot \in NoSlot..MaxSlots
  BY <1>1, TaskBounds DEF TaskTypes, Working
<1>3. CASE kind.again /\ state.resets # asked
  <2>1. /\ task' = [task EXCEPT !.at = "select", !.last = state.resets,
                                !.slot = IF kind.slot = "decode" THEN block.slot ELSE @]
        /\ MaySave(TRUE) \/ history' = history
        /\ taken' = {} /\ pcm' = <<>> /\ out' = {}
    BY <1>3 DEF Check
  <2>2. /\ task' \in TaskRecord /\ task'.at = "select" /\ task'.on /\ task'.last = state.resets /\ task'.run = task.run
    <3>1. PICK x \in NoSlot..MaxSlots : task' = [task EXCEPT !.at = "select", !.last = state.resets, !.slot = x]
      BY <1>2, <2>1, TaskBounds
    <3> QED
      BY <1>2, <3>1 DEF TaskRecord
  <2>3. TaskTypes'
    BY <1>1, <1>2, <2>1, <2>2, Waiting, TaskBounds DEF TaskTypes
  <2>4. HistoryOK'
    BY <1>1, <2>1, Saves
  <2>5. Counted' /\ Working'
    BY <1>1, <2>1, <2>2, TaskBounds DEF Counted, Working
  <2>6. OneRun' /\ Fresh'
    <3>1. Len(pcm') = 0
      BY <2>1
    <3> QED
      BY <2>1, <2>2, <3>1 DEF OneRun, Fresh
  <2> QED
    BY <2>3, <2>4, <2>5, <2>6
<1>4. CASE ~(kind.again /\ state.resets # asked)
  <2>1. task' = [task EXCEPT !.at = "record"] /\ UNCHANGED <<history, taken, pcm, out>>
    BY <1>4 DEF Check
  <2>2. /\ task' \in TaskRecord /\ task'.at = "record" /\ task'.on = task.on /\ task'.last = task.last
        /\ task'.run = task.run /\ task'.slot = task.slot
    BY <1>2, <2>1 DEF TaskRecord
  <2>3. TaskTypes'
    BY <1>1, <1>2, <2>1, <2>2 DEF TaskTypes
  <2>4. HistoryOK'
    BY <1>1, <2>1, HistoryStays
  <2>5. Counted' /\ Working' /\ OneRun'
    BY <1>1, <2>1, <2>2, TaskBounds DEF Counted, Working, OneRun
  <2>6. Fresh'
    BY <1>1, <1>4, <2>1, <2>2 DEF Fresh
  <2> QED
    BY <2>3, <2>4, <2>5, <2>6
<1> QED
  BY <1>3, <1>4

LEMMA RecordKeeps == TaskInd /\ RecordMessages => TaskInd'
<1> SUFFICES ASSUME TaskInd, RecordMessages PROVE TaskInd'
  OBVIOUS
<1> USE DEF TaskInd
<1>1. /\ task.at = "record" /\ out' = {}
      /\ UNCHANGED <<kind, state, unseen, pcm, block, asked, clearing, slot, blocks, changes>>
      /\ history' = history \/ history' = history \cup {[from |-> out, asked |-> asked, saved |-> FALSE]}
      /\ \/ kind.slot = "decode" /\ taken' = {} /\ task' = [task EXCEPT !.at = "absorb", !.slot = block.slot]
         \/ kind.slot # "decode" /\ taken' = taken /\ task' = [task EXCEPT !.at = "select"]
  BY DEF RecordMessages
<1>2. task \in TaskRecord /\ task.on /\ block.slot \in NoSlot..MaxSlots
  BY <1>1, TaskBounds DEF TaskTypes, Working
<1>3. /\ task' \in TaskRecord /\ task'.on /\ task'.last = task.last /\ task'.run = task.run
      /\ \/ kind.slot = "decode" /\ taken' = {} /\ task'.at = "absorb" /\ task'.slot = block.slot
         \/ kind.slot # "decode" /\ taken' = taken /\ task'.at = "select" /\ task'.slot = task.slot
  BY <1>1, <1>2 DEF TaskRecord
<1>4. TaskTypes'
  BY <1>1, <1>3 DEF TaskTypes
<1>5. HistoryOK'
  <2>1. asked \in 0..MaxChanges /\ FALSE \in BOOLEAN /\ (kind.again => asked = task.last)
    BY <1>1 DEF TaskTypes, Fresh
  <2> QED
    BY <1>1, <2>1, Records
<1>6. Counted' /\ Working'
  BY <1>1, <1>3 DEF Counted, Working
<1>7. OneRun' /\ Fresh'
  BY <1>1, <1>2, <1>3 DEF OneRun, Fresh
<1> QED
  BY <1>4, <1>5, <1>6, <1>7

LEMMA AbsorbKeeps == TaskInd /\ Absorb => TaskInd'
<1> SUFFICES ASSUME TaskInd, Absorb PROVE TaskInd'
  OBVIOUS
<1> USE DEF TaskInd
<1>1. /\ task.at = "absorb" /\ task' = [task EXCEPT !.at = "select", !.last = state.resets]
      /\ \/ state.resets # task.last /\ taken' = {} /\ pcm' = <<>>
         \/ state.resets = task.last /\ taken' = taken \cup {block} /\ pcm' = pcm
      /\ UNCHANGED <<kind, state, unseen, block, asked, out, history, clearing, slot, blocks, changes>>
  BY DEF Absorb
<1>2. task \in TaskRecord /\ task.on /\ state.resets \in 0..MaxChanges
  BY <1>1, TaskBounds DEF TaskTypes, Working
<1>3. /\ task' \in TaskRecord /\ task'.at = "select" /\ task'.on /\ task'.last = state.resets
      /\ task'.run = task.run /\ task'.slot = task.slot
  BY <1>1, <1>2 DEF TaskRecord
<1>4. TaskTypes'
  <2>1. pcm' \in Seq(Block) /\ Len(pcm') <= Backlog
    BY <1>1, QueueStep
  <2> QED
    BY <1>1, <1>3, <2>1 DEF TaskTypes
<1>5. HistoryOK'
  BY <1>1, HistoryStays
<1>6. Counted' /\ Working'
  BY <1>1, <1>3, TaskBounds DEF Counted, Working
<1>7. OneRun'
  <2>1. kind.slot = "decode" /\ block.slot = task.slot /\ block.slot # NoSlot /\ block.run = task.run
    BY <1>1 DEF Working
  <2> QED
    BY <1>1, <1>2, <1>3, <2>1 DEF OneRun
<1>8. Fresh'
  <2>1. CASE state.resets # task.last
    <3>1. Len(pcm') = 0 /\ taken' = {}
      BY <1>1, <2>1
    <3> QED
      BY <1>1, <1>3, <3>1 DEF Fresh
  <2>2. CASE state.resets = task.last
    BY <1>1, <1>2, <1>3, <2>2 DEF Fresh
  <2> QED
    BY <2>1, <2>2
<1> QED
  BY <1>4, <1>5, <1>6, <1>7, <1>8

LEMMA TaskKeeps == TaskInd /\ [DecoderNext]_decoderVars => TaskInd'
<1> SUFFICES ASSUME TaskInd, [DecoderNext]_decoderVars PROVE TaskInd'
  OBVIOUS
<1>1. CASE ModeChanges \/ StateChanges \/ ClearHistory \/ PublishReset \/ SlotPasses
  BY <1>1, WorldKeeps
<1>2. CASE Capture \/ SeeIdle \/ SeeChange \/ SeeReset
  BY <1>2, CaptureKeeps, SeeKeeps, ResetKeeps
<1>3. CASE SeeOff \/ Silence \/ Decode \/ Check \/ RecordMessages \/ Absorb
  BY <1>3, OffKeeps, DecodeKeeps, CheckKeeps, RecordKeeps, AbsorbKeeps
<1>4. CASE UNCHANGED decoderVars
  BY <1>4 DEF TaskInd, TaskTypes, HistoryOK, OneRunOneSlot, ResetForgets, Counted, Working, OneRun, Fresh,
              decoderVars
<1> QED
  BY <1>1, <1>2, <1>3, <1>4 DEF DecoderNext

\* No message mixes two runs or two slots of a decoder, and none that is recorded rests on
\* audio from before the last reset its task has looked at, but for the exceptions that the
\* two invariants name: for any backlog and any number of blocks, changes and slots.
THEOREM TasksHold == DecoderSpec => []TaskInv
<1>1. DecoderInit => TaskInd
  BY TaskStarts
<1>2. TaskInd /\ [DecoderNext]_decoderVars => TaskInd'
  BY TaskKeeps
<1>3. TaskInd => TaskInv
  BY DEF TaskInd, TaskTypes, TaskRecord, HistoryOK, TaskInv, DecoderTypeOK
<1> QED
  BY <1>1, <1>2, <1>3, PTL DEF DecoderSpec

(***************************************************************************)
(* The station.  Its invariant is almost inductive: the functions need      *)
(* their domains, and a handle a rig that has been built.                   *)
(***************************************************************************)
TaskStates == {"none", "runs", "clean", "crashed", "panicked", "aborted"}

StationTypes ==
    /\ layout \in Layouts /\ callsign \in BOOLEAN
    /\ phase \in {"building", "running", "stopping", "exited"} /\ built \in 0..Len(layout)
    /\ rigTask \in [Places -> TaskStates] /\ shown \in [Places -> BOOLEAN]
    /\ alive \in [Places -> SUBSET Parts] /\ handle \in [AllIds -> Nat]
    /\ server \in {"none", "runs", "ended"} /\ stationFaults \in 0..MaxStationFaults
    /\ \A id \in AllIds : handle[id] \in 0..built

StationInd == StationTypes /\ RigsAreApart /\ CrashIsShown /\ IdsReachRigs

LEMMA Rigs ==
    ASSUME StationTypes
    PROVE  /\ Places = 1..Len(layout) /\ Len(layout) \in Nat /\ built \in Nat /\ built <= Len(layout)
           /\ \A i \in Places : layout[i].id \in AllIds
           /\ \A i \in 1..built : i \in Places /\ handle[layout[i].id] \in 0..built
<1>1. /\ Places = 1..Len(layout) /\ Len(layout) \in Nat
  BY StationAssumption DEF StationAssumption, StationTypes, Places
<1>2. \A i \in Places : layout[i].id \in AllIds
  BY DEF StationTypes, Places, AllIds
<1>3. built \in Nat /\ built <= Len(layout) /\ \A i \in 1..built : i \in Places
  BY <1>1 DEF StationTypes
<1> QED
  BY <1>1, <1>2, <1>3 DEF StationTypes

LEMMA StackIsFed ==
    ASSUME StationTypes, NEW i \in Places, rigTask[i] = "runs", alive[i] = Stack(layout[i]),
           NEW p \in alive[i]
    PROVE  ~Starved(i, p)
<1> DEFINE r == layout[i]
           s == Stack(layout[i])
<1>1. ~Over(i)
  BY DEF Over
<1>2. "audio" \in s
  BY DEF Stack
<1>3. "pcm" \in s => s \cap {"pump", "capture"} # {}
  <2>1. ASSUME "pcm" \in s PROVE r.rx
    BY <2>1 DEF Stack, Uplinked
  <2>2. ASSUME r.rx PROVE Source(r) \in s
    BY <2>2 DEF Stack
  <2>3. Source(r) \in {"pump", "capture"}
    BY DEF Source
  <2> QED
    BY <2>1, <2>2, <2>3
<1> HIDE DEF s
<1>4. CASE p = "pcm"
  BY <1>1, <1>3, <1>4 DEF Starved, SdrDecoders, s
<1>5. CASE p # "pcm"
  BY <1>1, <1>2, <1>5 DEF Starved, SdrDecoders, s
<1> QED
  BY <1>4, <1>5

LEMMA StationStarts == StationInit => StationInd
<1> SUFFICES ASSUME StationInit PROVE StationInd
  OBVIOUS
<1>1. /\ layout \in Layouts /\ callsign \in BOOLEAN /\ phase = "building" /\ built = 0
      /\ rigTask = [i \in Places |-> "none"] /\ shown = [i \in Places |-> FALSE]
      /\ handle = [id \in AllIds |-> 0] /\ alive = [i \in Places |-> {}]
      /\ server = "none" /\ hit = {} /\ stationFaults = 0
  BY DEF StationInit
<1>2. Len(layout) \in Nat /\ MaxStationFaults \in Nat
  BY <1>1, StationAssumption DEF StationAssumption
<1>3. StationTypes
  BY <1>1, <1>2 DEF StationTypes, TaskStates
<1>4. RigsAreApart /\ CrashIsShown /\ IdsReachRigs
  BY <1>1 DEF RigsAreApart, CrashIsShown, IdsReachRigs
<1> QED
  BY <1>3, <1>4 DEF StationInd

LEMMA BuildKeeps == StationInd /\ BuildRig => StationInd'
<1> SUFFICES ASSUME StationInd, BuildRig PROVE StationInd'
  OBVIOUS
<1> DEFINE n == built + 1
           me == layout[n].id
<1>1. /\ phase = "building" /\ built < Len(layout) /\ built' = n
      /\ rigTask' = [rigTask EXCEPT ![n] = "runs"]
      /\ alive' = [alive EXCEPT ![n] = Stack(layout[n])]
      /\ handle' = [handle EXCEPT ![me] = n]
      /\ UNCHANGED <<layout, callsign, phase, shown, server, hit, stationFaults>>
  BY DEF BuildRig
<1>2. StationTypes /\ n \in Places /\ n \in Nat /\ me \in AllIds /\ built \in Nat /\ Places' = Places
      /\ \A i \in 1..n : i \in 1..built \/ i = n
  BY <1>1, Rigs DEF StationInd, Places
<1> HIDE DEF n, me
<1>3. Stack(layout[n]) \subseteq Parts
  BY DEF Stack, Parts, Uplinked, Source, Decoding, AudioDecoders, SdrDecoders
<1>4. /\ \A i \in Places : i # n => rigTask'[i] = rigTask[i] /\ alive'[i] = alive[i]
      /\ rigTask'[n] = "runs" /\ alive'[n] = Stack(layout[n])
      /\ \A id \in AllIds : handle'[id] = IF id = me THEN n ELSE handle[id]
  BY <1>1, <1>2 DEF StationTypes
<1>5. StationTypes'
  <2>1. rigTask' \in [Places -> TaskStates] /\ alive' \in [Places -> SUBSET Parts] /\ handle' \in [AllIds -> Nat]
    BY <1>1, <1>2, <1>3 DEF StationTypes, TaskStates
  <2>2. \A id \in AllIds : handle'[id] \in 0..built'
    BY <1>1, <1>2, <1>4 DEF StationTypes, n
  <2>3. built' \in 0..Len(layout)
    BY <1>1, <1>2, Rigs DEF n
  <2> QED
    BY <1>1, <1>2, <2>1, <2>2, <2>3 DEF StationTypes
<1>6. ASSUME NEW i \in 1..built
      PROVE i \in Places /\ i # n /\ layout[i].id \in AllIds /\ handle[layout[i].id] \in 0..built /\ i \in Nat /\ i < n
  BY <1>2, Rigs DEF n
<1>7. handle'[layout[n].id] = n
  BY <1>2, <1>4 DEF me
<1>8. RigsAreApart'
  <2>1. ASSUME NEW i \in 1..built
        PROVE i \in hit' \/ handle'[layout[i].id] # i \/ (rigTask'[i] = "runs" /\ alive'[i] = Stack(layout[i])')
    <3>1. i \in hit \/ handle[layout[i].id] # i \/ (rigTask[i] = "runs" /\ alive[i] = Stack(layout[i]))
      BY <1>1 DEF StationInd, RigsAreApart
    <3>2. handle[layout[i].id] # i => handle'[layout[i].id] # i
      BY <1>4, <1>6
    <3>3. Stack(layout[i])' = Stack(layout[i])
      BY <1>1 DEF Stack, Uplinked, Source, Decoding
    <3> QED
      BY <1>1, <1>4, <1>6, <3>1, <3>2, <3>3
  <2>2. ASSUME NEW i, i = n PROVE rigTask'[i] = "runs" /\ alive'[i] = Stack(layout[i])'
    <3>1. Stack(layout[i])' = Stack(layout[i])
      BY <1>1 DEF Stack, Uplinked, Source, Decoding
    <3> QED
      BY <1>4, <2>2, <3>1
  <2>3. \A i \in 1..built' : i \in 1..built \/ i = n
    BY <1>1, <1>2
  <2> QED
    BY <1>1, <2>1, <2>2, <2>3 DEF RigsAreApart
<1>9. CrashIsShown'
  BY <1>1, <1>2, <1>4 DEF StationInd, CrashIsShown
<1>10. IdsReachRigs'
  <2>1. ASSUME NEW i \in 1..built', NEW h, h = handle'[layout[i].id]
        PROVE  /\ h >= i /\ layout[h].id = layout[i].id
               /\ h # i => \E j \in (i + 1)..built' : layout[j].id = layout[i].id
    <3>1. CASE i = n
      BY <1>2, <1>7, <2>1, <3>1
    <3>2. CASE i \in 1..built /\ layout[i].id = me
      BY <1>1, <1>2, <1>4, <1>6, <2>1, <3>2 DEF n, me
    <3>3. CASE i \in 1..built /\ layout[i].id # me
      <4>1. h = handle[layout[i].id]
        BY <1>4, <1>6, <2>1, <3>3
      <4>2. /\ h >= i /\ layout[h].id = layout[i].id
            /\ h # i => \E j \in (i + 1)..built : layout[j].id = layout[i].id
        BY <3>3, <4>1 DEF StationInd, IdsReachRigs
      <4>3. \A j \in (i + 1)..built : j \in (i + 1)..built'
        BY <1>1, <1>2, <1>6, <3>3 DEF n
      <4> QED
        BY <4>2, <4>3
    <3> QED
      BY <1>1, <1>2, <3>1, <3>2, <3>3
  <2> QED
    BY <1>1, <2>1 DEF IdsReachRigs
<1> QED
  BY <1>5, <1>8, <1>9, <1>10 DEF StationInd

\* A step that leaves the layout and the handles alone: what it may do to a rig.
LEMMA RigsStay ==
    ASSUME StationInd, UNCHANGED <<layout, callsign, built, handle>>, hit \subseteq hit',
           phase' \in {"building", "running"} => phase \in {"building", "running"},
           \A i \in 1..built : phase' \in {"building", "running"} =>
               \/ i \in hit' \/ handle[layout[i].id] # i
               \/ rigTask'[i] = rigTask[i] /\ alive'[i] = alive[i]
               \/ rigTask[i] # "runs",
           \A i \in Places : rigTask'[i] = "crashed" => ~shown'[i]
    PROVE  RigsAreApart' /\ CrashIsShown' /\ IdsReachRigs'
<1>1. \A i : Stack(layout[i])' = Stack(layout[i])
  BY DEF Stack, Uplinked, Source, Decoding
<1>2. RigsAreApart'
  BY <1>1 DEF StationInd, RigsAreApart
<1>3. CrashIsShown' /\ IdsReachRigs'
  BY DEF StationInd, CrashIsShown, IdsReachRigs, Places
<1> QED
  BY <1>2, <1>3

\* The phases of the process.
LEMMA PhaseKeeps ==
    StationInd /\ (BuildFails \/ StartListener \/ ListenerEnds \/ CtrlC) => StationInd'
<1> SUFFICES ASSUME StationInd, BuildFails \/ StartListener \/ ListenerEnds \/ CtrlC PROVE StationInd'
  OBVIOUS
<1>1. /\ UNCHANGED <<layout, callsign, built, rigTask, shown, handle, alive, hit>>
      /\ phase' \in {"building", "running", "stopping", "exited"} /\ server' \in {"none", "runs", "ended"}
      /\ phase' \in {"building", "running"} => phase \in {"building", "running"}
      /\ stationFaults' = stationFaults \/ Breaks
  BY DEF StationInd, StationTypes, BuildFails, StartListener, ListenerEnds, CtrlC
<1>2. stationFaults' \in 0..MaxStationFaults
  BY <1>1, StationAssumption DEF StationInd, StationTypes, Breaks, StationAssumption
<1>3. StationTypes'
  BY <1>1, <1>2 DEF StationInd, StationTypes, Places
<1>4. \A i \in Places : rigTask'[i] = "crashed" => ~shown'[i]
  BY <1>1 DEF StationInd, CrashIsShown
<1> QED
  BY <1>1, <1>3, <1>4, RigsStay DEF StationInd

LEMMA AbortKeeps == StationInd /\ Abort => StationInd'
<1> SUFFICES ASSUME StationInd, Abort PROVE StationInd'
  OBVIOUS
<1>1. /\ phase' = "exited" /\ server' = "ended" /\ alive' = [i \in Places |-> {}]
      /\ rigTask' = [i \in Places |-> IF rigTask[i] = "runs" THEN "aborted" ELSE rigTask[i]]
      /\ UNCHANGED <<layout, callsign, built, shown, handle, hit, stationFaults>>
  BY DEF Abort
<1>2. rigTask' \in [Places -> TaskStates] /\ alive' \in [Places -> SUBSET Parts]
  BY <1>1 DEF StationInd, StationTypes, TaskStates
<1>3. StationTypes'
  BY <1>1, <1>2 DEF StationInd, StationTypes, Places
<1>4. \A i \in Places : rigTask'[i] = "crashed" => ~shown'[i]
  BY <1>1 DEF StationInd, CrashIsShown
<1> QED
  BY <1>1, <1>3, <1>4, RigsStay DEF StationInd

\* A rig task begins, or ends in one of its ways.
LEMMA RigTaskKeeps ==
    ASSUME StationInd, NEW k \in Places, Initializes(k) \/ TaskCrashes(k) \/ TaskPanics(k) \/ TaskEnds(k)
    PROVE  StationInd'
<1>1. /\ UNCHANGED <<layout, callsign, phase, built, handle, alive, server>> /\ rigTask[k] = "runs"
      /\ (stationFaults' = stationFaults /\ hit' = hit) \/ (Breaks /\ hit' = hit \cup {k})
  BY DEF Initializes, TaskCrashes, TaskPanics, TaskEnds, Lives, Hit
<1>2. /\ rigTask' = rigTask \/ \E t \in {"crashed", "panicked", "clean"} : rigTask' = [rigTask EXCEPT ![k] = t]
      /\ shown' = shown \/ \E b \in BOOLEAN : shown' = [shown EXCEPT ![k] = b]
  BY DEF Initializes, TaskCrashes, TaskPanics, TaskEnds
<1>3. rigTask' \in [Places -> TaskStates] /\ shown' \in [Places -> BOOLEAN]
  BY <1>2 DEF StationInd, StationTypes, TaskStates
<1>4. stationFaults' \in 0..MaxStationFaults
  BY <1>1, StationAssumption DEF StationInd, StationTypes, Breaks, StationAssumption
<1>5. StationTypes'
  BY <1>1, <1>3, <1>4 DEF StationInd, StationTypes, Places
<1>6. ASSUME NEW i \in Places PROVE rigTask'[i] = "crashed" => ~shown'[i]
  <2>1. rigTask[i] = "crashed" => ~shown[i]
    BY DEF StationInd, CrashIsShown
  <2>2. CASE i # k
    BY <1>2, <2>1, <2>2 DEF StationInd, StationTypes
  <2>3. CASE i = k
    BY <1>1, <2>3 DEF StationInd, StationTypes, Initializes, TaskCrashes, TaskPanics, TaskEnds
  <2> QED
    BY <2>2, <2>3
<1>7. ASSUME NEW i \in 1..built, phase' \in {"building", "running"}
      PROVE  \/ i \in hit' \/ handle[layout[i].id] # i
             \/ rigTask'[i] = rigTask[i] /\ alive'[i] = alive[i]
             \/ rigTask[i] # "runs"
  <2>1. i \in Places
    BY Rigs DEF StationInd
  <2>2. CASE i # k
    BY <1>1, <1>2, <2>1, <2>2 DEF StationInd, StationTypes
  <2>3. CASE i = k
    BY <1>1, <1>7, <2>3 DEF Initializes, TaskCrashes, TaskPanics, TaskEnds, Hit, Stopping
  <2> QED
    BY <2>2, <2>3
<1>8. hit \subseteq hit' /\ (phase' \in {"building", "running"} => phase \in {"building", "running"})
  BY <1>1
<1> QED
  BY <1>1, <1>5, <1>6, <1>7, <1>8, RigsStay DEF StationInd

\* A part fails, or ends because what it reads is closed: not in a rig that is whole.
LEMMA PartKeeps ==
    ASSUME StationInd, NEW k \in Places, NEW p \in Parts, PartFails(k, p) \/ PartEnds(k, p)
    PROVE  StationInd'
<1>1. /\ UNCHANGED <<layout, callsign, phase, built, rigTask, shown, handle, server>>
      /\ p \in alive[k] /\ alive' = [alive EXCEPT ![k] = @ \ {p}]
      /\ \/ stationFaults' = stationFaults /\ hit' = hit /\ (Stopping \/ Starved(k, p))
         \/ Breaks /\ hit' = hit \cup {k}
  BY DEF PartFails, PartEnds, Hit
<1>2. alive' \in [Places -> SUBSET Parts]
  BY <1>1 DEF StationInd, StationTypes
<1>3. stationFaults' \in 0..MaxStationFaults
  BY <1>1, StationAssumption DEF StationInd, StationTypes, Breaks, StationAssumption
<1>4. StationTypes'
  BY <1>1, <1>2, <1>3 DEF StationInd, StationTypes, Places
<1>5. \A i \in Places : rigTask'[i] = "crashed" => ~shown'[i]
  BY <1>1 DEF StationInd, CrashIsShown
<1>6. ASSUME NEW i \in 1..built, phase' \in {"building", "running"}
      PROVE  \/ i \in hit' \/ handle[layout[i].id] # i
             \/ rigTask'[i] = rigTask[i] /\ alive'[i] = alive[i]
             \/ rigTask[i] # "runs"
  <2>1. i \in Places
    BY Rigs DEF StationInd
  <2>2. CASE i # k
    BY <1>1, <2>1, <2>2 DEF StationInd, StationTypes
  <2>3. CASE i = k /\ i \notin hit'
    <3>1. i \notin hit /\ Starved(k, p)
      BY <1>1, <1>6, <2>3 DEF Stopping
    <3>2. \/ i \in hit \/ handle[layout[i].id] # i
          \/ rigTask[i] = "runs" /\ alive[i] = Stack(layout[i])
      BY <1>1, <1>6 DEF StationInd, RigsAreApart
    <3> QED
      BY <1>1, <2>3, <3>1, <3>2, StackIsFed DEF StationInd
  <2> QED
    BY <2>2, <2>3
<1>7. hit \subseteq hit' /\ (phase' \in {"building", "running"} => phase \in {"building", "running"})
  BY <1>1
<1> QED
  BY <1>1, <1>4, <1>5, <1>6, <1>7, RigsStay DEF StationInd

LEMMA StationKeeps == StationInd /\ [StationNext]_stationVars => StationInd'
<1> SUFFICES ASSUME StationInd, [StationNext]_stationVars PROVE StationInd'
  OBVIOUS
<1>1. CASE BuildRig \/ BuildFails \/ StartListener \/ ListenerEnds \/ CtrlC \/ Abort
  BY <1>1, BuildKeeps, PhaseKeeps, AbortKeeps
<1>2. ASSUME NEW i \in Places, Initializes(i) \/ TaskCrashes(i) \/ TaskPanics(i) \/ TaskEnds(i)
      PROVE  StationInd'
  BY <1>2, RigTaskKeeps
<1>3. ASSUME NEW i \in Places, NEW p \in Parts, PartFails(i, p) \/ PartEnds(i, p) PROVE StationInd'
  BY <1>3, PartKeeps
<1>4. CASE UNCHANGED stationVars
  BY ZenonT(30), <1>4 DEF StationInd, StationTypes, RigsAreApart, CrashIsShown, IdsReachRigs, stationVars, Places,
              Stack, Uplinked, Source, Decoding
<1> QED
  BY <1>1, <1>2, <1>3, <1>4 DEF StationNext

\* A rig keeps what it was built with until something of its own fails or a later rig takes
\* its id, a crashed task is never shown as initialized, and an id reaches the last rig built
\* under it: for any configuration and any number of failures.
THEOREM StationHolds == StationSpec => []StationInv
<1>1. StationInit => StationInd
  BY StationStarts
<1>2. StationInd /\ [StationNext]_stationVars => StationInd'
  BY StationKeeps
<1>3. StationInd => StationInv
  BY DEF StationInd, StationTypes, StationInv, StationTypeOK, TaskStates
<1> QED
  BY <1>1, <1>2, <1>3, PTL DEF StationSpec

(***************************************************************************)
(* The sound card.  What waits in the buffer and behind it in the channel   *)
(* is of one piece up to the last sample, while the stream of the input is  *)
(* open; the packets that wait follow those in the ring.                    *)
(***************************************************************************)
CaptureTypes ==
    /\ in \in [at : {"find", "run", "recover", "done"}, failed : BOOLEAN, capturing : BOOLEAN,
               late : BOOLEAN]
    /\ chunk \in Seq(Nat) /\ Len(chunk) <= InputRoom
    /\ pcm_buf \in Seq(Nat) /\ Len(pcm_buf) < FrameSamples /\ frame \in Seq(Nat)
    /\ heard \in 0..MaxSamples

PlaybackTypes ==
    /\ output \in [at : {"find", "run", "idle", "recover", "done"}, failed : BOOLEAN,
                   playing : BOOLEAN, closed : BOOLEAN]
    /\ packets \in Seq(Nat) /\ Len(packets) <= PacketRoom /\ ring \in Seq(Nat)
    /\ offered \in 0..MaxPackets /\ played \in 0..MaxPackets /\ stale \in 0..MaxPackets

\* Between two samples of seq nothing lies but what was missed.
OfOnePiece(seq) == \A i \in 1..Len(seq) - 1 : (seq[i] + 1)..(seq[i + 1] - 1) \subseteq missed

\* Between the last sample of seq and number n.
UpTo(seq, n) == seq # <<>> => (seq[Len(seq)] + 1)..n \subseteq missed

Joined ==
    /\ OfOnePiece(pcm_buf) /\ OfOnePiece(chunk)
    /\ IF chunk = <<>> THEN UpTo(pcm_buf, heard) ELSE UpTo(pcm_buf, chunk[1] - 1) /\ UpTo(chunk, heard)

\* While the input rests nothing waits but the sample of a late callback.
Rested ==
    /\ pcm_buf = <<>> /\ (in.late => chunk = <<>>)
    /\ (chunk # <<>> => heard + 1 \in missed)

CaptureOK ==
    /\ CaptureTypes /\ OfOnePiece(frame)
    /\ in.at = "run" => Joined
    /\ in.at = "find" => ~in.capturing
    /\ ~in.capturing => pcm_buf = <<>> /\ (in.at = "run" => Rested)
    /\ in.capturing => ~in.late

\* The packets in seq are in order, younger than what was played or forgotten, and sent.
InOrder(seq) ==
    /\ \A i \in 1..Len(seq) : stale < seq[i] /\ played < seq[i] /\ seq[i] <= offered
    /\ \A i, j \in 1..Len(seq) : i < j => seq[i] < seq[j]

PlaybackOK ==
    /\ PlaybackTypes /\ InOrder(ring) /\ InOrder(packets)
    /\ stale <= offered /\ played <= offered
    /\ \A i \in 1..Len(ring), j \in 1..Len(packets) : ring[i] < packets[j]
    /\ output.at = "find" => ~output.playing
    /\ PlayingHasPackets

CardInd == CaptureOK /\ PlaybackOK /\ cardFaults \in 0..MaxCardFaults

LEMMA CardImplies == CardInd => CardInv
<1> SUFFICES ASSUME CardInd PROVE CardInv
  OBVIOUS
<1>1. CardTypeOK
  BY DEF CardInd, CaptureOK, CaptureTypes, PlaybackOK, PlaybackTypes, CardTypeOK
<1>2. FramesAreOfOnePiece
  BY DEF CardInd, CaptureOK, OfOnePiece, FramesAreOfOnePiece
<1>3. NothingOldOnAir
  <2>1. DOMAIN ring = 1..Len(ring) /\ Len(ring) \in Nat /\ \A i \in 1..Len(ring) : ring[i] \in Nat
    BY LenProperties DEF CardInd, PlaybackOK, PlaybackTypes
  <2> QED
    BY <2>1 DEF CardInd, PlaybackOK, InOrder, NothingOldOnAir, PlaybackTypes
<1> QED
  BY <1>1, <1>2, <1>3 DEF CardInv, CardInd, PlaybackOK

LEMMA CardStarts == CardInit => CardInd
<1> SUFFICES ASSUME CardInit PROVE CardInd
  OBVIOUS
<1>1. <<>> \in Seq(Nat) /\ Len(<<>>) = 0 /\ {InputRoom, PacketRoom, FrameSamples} \subseteq Nat \ {0}
      /\ {MaxSamples, MaxPackets, MaxCardFaults} \subseteq Nat
  BY CardAssumption DEF CardAssumption
<1>2. PICK first \in {"find", "done"}, second \in {"find", "done"} :
          /\ in = [at |-> first, failed |-> FALSE, capturing |-> FALSE, late |-> FALSE]
          /\ output = [at |-> second, failed |-> FALSE, playing |-> FALSE, closed |-> FALSE]
  BY DEF CardInit
<1>3. /\ in \in [at : {"find", "run", "recover", "done"}, failed : BOOLEAN, capturing : BOOLEAN,
                 late : BOOLEAN]
      /\ in.at # "run" /\ ~in.capturing
  BY <1>2
<1>4. /\ output \in [at : {"find", "run", "idle", "recover", "done"}, failed : BOOLEAN,
                     playing : BOOLEAN, closed : BOOLEAN]
      /\ ~output.playing
  BY <1>2
<1>5. CaptureOK
  BY <1>1, <1>3 DEF CardInit, CaptureOK, CaptureTypes, OfOnePiece
<1>6. PlaybackOK
  BY <1>1, <1>4 DEF CardInit, PlaybackOK, PlaybackTypes, InOrder, PlayingHasPackets
<1> QED
  BY <1>1, <1>5, <1>6 DEF CardInit, CardInd

(***************************************************************************)
(* Capture.                                                                 *)
(***************************************************************************)
LEMMA CardBounds ==
    /\ {InputRoom, PacketRoom, FrameSamples} \subseteq Nat \ {0}
    /\ {MaxSamples, MaxPackets, MaxCardFaults} \subseteq Nat
    /\ <<>> \in Seq(Nat) /\ Len(<<>>) = 0
BY CardAssumption DEF CardAssumption

\* One thread leaves the other alone.
LEMMA CaptureApart == ASSUME CaptureOK, UNCHANGED captureVars PROVE CaptureOK'
BY DEF CaptureOK, CaptureTypes, OfOnePiece, Joined, UpTo, Rested, captureVars

LEMMA PlaybackApart == ASSUME PlaybackOK, UNCHANGED playbackVars PROVE PlaybackOK'
BY DEF PlaybackOK, PlaybackTypes, InOrder, PlayingHasPackets, playbackVars

\* Nothing that was missed is heard after all.
LEMMA MissedGrows ==
    ASSUME NEW seq, missed \subseteq missed'
    PROVE  /\ \A s \in {seq} : OfOnePiece(s) => \A i \in 1..Len(s) - 1 : (s[i] + 1)..(s[i + 1] - 1) \subseteq missed'
           /\ \A n \in Nat : UpTo(seq, n) => (seq # <<>> => (seq[Len(seq)] + 1)..n \subseteq missed')
BY DEF OfOnePiece, UpTo

LEMMA SampledKeeps == CaptureOK /\ Sampled => CaptureOK'
<1> SUFFICES ASSUME CaptureOK, Sampled PROVE CaptureOK'
  OBVIOUS
<1>1. /\ heard' = heard + 1 /\ heard' \in 0..MaxSamples /\ heard \in Nat /\ in.at = "run"
      /\ in'.at = "run" /\ in'.capturing = in.capturing /\ in'.late = FALSE
      /\ in' \in [at : {"find", "run", "recover", "done"}, failed : BOOLEAN, capturing : BOOLEAN,
                  late : BOOLEAN]
  <2>1. heard' = heard + 1 /\ heard < MaxSamples /\ in.at = "run" /\ in' = [in EXCEPT !.late = FALSE]
    BY DEF Sampled
  <2>2. heard \in 0..MaxSamples /\ MaxSamples \in Nat
    BY CardBounds DEF CaptureOK, CaptureTypes
  <2>3. /\ in'.at = in.at /\ in'.capturing = in.capturing /\ in'.late = FALSE
        /\ in' \in [at : {"find", "run", "recover", "done"}, failed : BOOLEAN, capturing : BOOLEAN,
                    late : BOOLEAN]
    BY <2>1 DEF CaptureOK, CaptureTypes
  <2> QED
    BY <2>1, <2>2, <2>3
<1>2. pcm_buf' = pcm_buf /\ frame' = frame /\ missed \subseteq missed'
  BY DEF Sampled
<1>3. OfOnePiece(pcm_buf)' /\ OfOnePiece(frame)'
  BY <1>1, <1>2 DEF CaptureOK, Joined, OfOnePiece
<1>4. chunk \in Seq(Nat) /\ Len(chunk) \in Nat /\ Len(chunk) <= InputRoom /\ InputRoom \in Nat \ {0}
      /\ OfOnePiece(chunk) /\ \A i \in 1..Len(chunk) : chunk[i] \in Nat
  <2>1. chunk \in Seq(Nat) /\ Len(chunk) <= InputRoom /\ OfOnePiece(chunk)
    BY <1>1 DEF CaptureOK, CaptureTypes, Joined
  <2> QED
    BY <2>1, CardBounds, LenProperties
<1>5. ~in.capturing => in.late /\ chunk = <<>> /\ pcm_buf = <<>>
  BY <1>1 DEF Sampled, CaptureOK, Rested
<1>6. CASE Len(chunk) < InputRoom
  <2> DEFINE c == Append(chunk, heard + 1)
             n == Len(chunk)
  <2>1. /\ c \in Seq(Nat) /\ Len(c) = n + 1 /\ c[n + 1] = heard + 1 /\ c # <<>>
        /\ \A i \in 1..n : c[i] = chunk[i]
    <3>1. c \in Seq(Nat) /\ Len(c) = n + 1 /\ c[n + 1] = heard + 1 /\ \A i \in 1..n : c[i] = chunk[i]
      BY <1>1, <1>4, AppendProperties
    <3>2. n \in Nat
      BY <1>4
    <3> HIDE DEF c
    <3> QED
      BY <3>1, <3>2, CardBounds
  <2>2. chunk' = c /\ (~in.capturing => heard + 2 \in missed')
    BY <1>6 DEF Sampled
  <2>3. n \in Nat /\ (chunk = <<>> <=> n = 0) /\ n < InputRoom
    BY <1>4, <1>6, EmptySeq
  <2> HIDE DEF c
  <2>4. OfOnePiece(chunk)'
    <3> SUFFICES ASSUME NEW i \in 1..n PROVE (c[i] + 1)..(c[i + 1] - 1) \subseteq missed'
      BY <2>1, <2>2, <2>3 DEF OfOnePiece
    <3>1. CASE i < n
      <4>1. i \in 1..n - 1 /\ i + 1 \in 1..n
        BY <3>1, <2>3
      <4>2. (chunk[i] + 1)..(chunk[i + 1] - 1) \subseteq missed
        BY <4>1, <1>4 DEF OfOnePiece
      <4> QED
        BY <4>1, <4>2, <2>1, <1>2
    <3>2. CASE i = n
      <4>1. chunk # <<>> /\ UpTo(chunk, heard)
        BY <3>2, <2>3, <1>1 DEF CaptureOK, Joined
      <4>2. (chunk[n] + 1)..heard \subseteq missed
        BY <4>1 DEF UpTo
      <4>3. c[i] = chunk[n] /\ c[i + 1] - 1 = heard
        BY <3>2, <2>1, <1>1
      <4>4. (c[i] + 1)..(c[i + 1] - 1) = (chunk[n] + 1)..heard
        BY <4>3
      <4> QED
        BY <4>2, <4>4, <1>2
    <3> QED
      BY <3>1, <3>2, <2>3
  <2>5. UpTo(chunk, heard)'
    <3>1. chunk'[Len(chunk')] + 1 = heard + 2 /\ (heard + 2)..(heard + 1) = {}
      BY <2>1, <2>2, <1>1
    <3> QED
      BY <3>1, <1>1 DEF UpTo
  <2>6. UpTo(pcm_buf, chunk[1] - 1)'
    <3>1. CASE chunk = <<>>
      <4>1. c[1] - 1 = heard /\ UpTo(pcm_buf, heard)
        BY <3>1, <2>1, <2>3, <1>1 DEF CaptureOK, Joined
      <4> QED
        BY <4>1, <2>2, <1>2 DEF UpTo
    <3>2. CASE chunk # <<>>
      <4>1. c[1] = chunk[1] /\ UpTo(pcm_buf, chunk[1] - 1)
        BY <3>2, <2>1, <2>3, <1>1 DEF CaptureOK, Joined
      <4> QED
        BY <4>1, <2>2, <1>2 DEF UpTo
    <3> QED
      BY <3>1, <3>2
  <2>7. Joined'
    BY <1>3, <2>1, <2>2, <2>4, <2>5, <2>6 DEF Joined
  <2>8. chunk' \in Seq(Nat) /\ Len(chunk') <= InputRoom
    BY <2>1, <2>2, <2>3, <1>4
  <2>9. CaptureTypes'
    BY <1>1, <1>2, <2>8 DEF CaptureOK, CaptureTypes
  <2>10. ~in'.capturing => pcm_buf' = <<>> /\ Rested'
    BY <1>1, <1>2, <1>5, <2>2 DEF Rested
  <2> QED
    BY <1>1, <1>3, <2>7, <2>9, <2>10 DEF CaptureOK
<1>7. CASE ~(Len(chunk) < InputRoom)
  <2>1. chunk' = chunk /\ missed' = missed \cup {heard + 1}
    BY <1>7 DEF Sampled
  <2>2. chunk # <<>> /\ in.capturing
    BY <1>4, <1>5, <1>7, CardBounds
  <2>3. OfOnePiece(chunk)'
    BY <1>2, <1>4, <2>1 DEF OfOnePiece
  <2>4. UpTo(pcm_buf, chunk[1] - 1) /\ UpTo(chunk, heard)
    BY <1>1, <2>2 DEF CaptureOK, Joined
  <2>5. UpTo(pcm_buf, chunk[1] - 1)'
    BY <1>2, <2>1, <2>4 DEF UpTo
  <2>6. UpTo(chunk, heard)'
    <3>1. Len(chunk) \in 1..Len(chunk) /\ chunk[Len(chunk)] \in Nat
      BY <2>2, <1>4, EmptySeq
    <3>2. (chunk[Len(chunk)] + 1)..(heard + 1) \subseteq ((chunk[Len(chunk)] + 1)..heard) \cup {heard + 1}
      BY <3>1, <1>1
    <3>3. (chunk[Len(chunk)] + 1)..(heard + 1) \subseteq missed'
      BY <3>2, <2>1, <2>2, <2>4 DEF UpTo
    <3> QED
      BY <3>3, <2>1, <1>1 DEF UpTo
  <2>7. Joined'
    BY <1>3, <2>1, <2>2, <2>3, <2>5, <2>6 DEF Joined
  <2>8. CaptureTypes'
    BY <1>1, <1>2, <2>1 DEF CaptureOK, CaptureTypes
  <2> QED
    BY <1>1, <1>3, <2>2, <2>7, <2>8 DEF CaptureOK
<1> QED
  BY <1>6, <1>7

LEMMA TakesKeeps == CaptureOK /\ CaptureTakes => CaptureOK'
<1> SUFFICES ASSUME CaptureOK, CaptureTakes PROVE CaptureOK'
  OBVIOUS
<1> DEFINE n == Len(pcm_buf)
           h == chunk[1]
           t == Tail(chunk)
           m == Len(t)
           filled == Append(pcm_buf, Head(chunk))
<1>1. /\ in.at = "run" /\ in.capturing /\ chunk # <<>> /\ in' = in /\ heard' = heard /\ missed' = missed
      /\ chunk' = t /\ heard \in Nat /\ ~in.late
  BY DEF CaptureTakes, InputTurns, CaptureOK, CaptureTypes
<1>2. /\ t \in Seq(Nat) /\ m \in Nat /\ m = Len(chunk) - 1 /\ Len(chunk) \in Nat /\ m + 1 = Len(chunk)
      /\ \A i \in 1..m : t[i] = chunk[i + 1] /\ chunk[i + 1] \in Nat
  <2>1. chunk \in Seq(Nat) /\ Len(chunk) \in Nat /\ \A i \in 1..Len(chunk) : chunk[i] \in Nat
    BY LenProperties DEF CaptureOK, CaptureTypes
  <2>2. t \in Seq(Nat) /\ m = Len(chunk) - 1 /\ \A i \in 1..m : t[i] = chunk[i + 1]
    BY <2>1, <1>1, HeadTailProperties
  <2>3. Len(chunk) >= 1
    BY <2>1, <1>1, EmptySeq
  <2> HIDE DEF t, m
  <2> QED
    BY <2>1, <2>2, <2>3
<1>3. Head(chunk) = h /\ h \in Nat /\ n \in Nat /\ pcm_buf \in Seq(Nat) /\ n < FrameSamples
      /\ FrameSamples \in Nat \ {0}
  BY <1>1, <1>2, LenProperties, CardBounds DEF CaptureOK, CaptureTypes
<1>4. /\ filled \in Seq(Nat) /\ Len(filled) = n + 1 /\ filled[n + 1] = h
      /\ \A i \in 1..n : filled[i] = pcm_buf[i]
  BY <1>3, AppendProperties
<1>5. Joined /\ OfOnePiece(pcm_buf) /\ OfOnePiece(chunk) /\ UpTo(pcm_buf, h - 1) /\ UpTo(chunk, heard)
  BY <1>1 DEF CaptureOK, Joined
<1>6. IF n + 1 >= FrameSamples
      THEN /\ frame' = SubSeq(filled, 1, FrameSamples)
           /\ pcm_buf' = SubSeq(filled, FrameSamples + 1, n + 1)
      ELSE frame' = frame /\ pcm_buf' = filled
  BY <1>4 DEF CaptureTakes
<1>7. pcm_buf # <<>> <=> n # 0
  BY <1>3, EmptySeq
<1> HIDE DEF n, h, t, m, filled
\* The sample joins those in the buffer.
<1>8. \A i \in 1..n : (filled[i] + 1)..(filled[i + 1] - 1) \subseteq missed
  <2> TAKE i \in 1..n
  <2>1. CASE i < n
    <3>1. i \in 1..n - 1 /\ i + 1 \in 1..n
      BY <2>1, <1>3
    <3>2. (pcm_buf[i] + 1)..(pcm_buf[i + 1] - 1) \subseteq missed
      BY <3>1, <1>5 DEF OfOnePiece, n
    <3> QED
      BY <3>1, <3>2, <1>4
  <2>2. CASE i = n
    <3>1. (pcm_buf[n] + 1)..(h - 1) \subseteq missed
      BY <2>2, <1>3, <1>5, <1>7 DEF UpTo, n
    <3> QED
      BY <3>1, <2>2, <1>3, <1>4
  <2> QED
    BY <2>1, <2>2, <1>3
\* What is left in the channel is of one piece.
<1>9. OfOnePiece(t)
  <2> SUFFICES ASSUME NEW i \in 1..m - 1 PROVE (t[i] + 1)..(t[i + 1] - 1) \subseteq missed
    BY DEF OfOnePiece, m
  <2>1. i \in 1..m /\ i + 1 \in 1..m /\ i + 1 \in 1..Len(chunk) - 1
    BY <1>2
  <2>2. (chunk[i + 1] + 1)..(chunk[i + 1 + 1] - 1) \subseteq missed
    BY <2>1, <1>5 DEF OfOnePiece
  <2> QED
    BY <2>1, <2>2, <1>2
<1>10. t # <<>> => /\ m >= 1 /\ t[1] = chunk[2] /\ t[m] = chunk[m + 1]
                   /\ (h + 1)..(t[1] - 1) \subseteq missed /\ (t[m] + 1)..heard \subseteq missed
  <2> SUFFICES ASSUME t # <<>>
               PROVE  /\ m >= 1 /\ t[1] = chunk[2] /\ t[m] = chunk[m + 1]
                      /\ (h + 1)..(t[1] - 1) \subseteq missed /\ (t[m] + 1)..heard \subseteq missed
    OBVIOUS
  <2>1. m >= 1
    BY <1>2, EmptySeq DEF m
  <2>2. 1 \in 1..m /\ m \in 1..m /\ 1 \in 1..Len(chunk) - 1 /\ 1 + 1 = 2
    BY <2>1, <1>2
  <2>3. t[1] = chunk[2] /\ t[m] = chunk[m + 1]
    BY <2>2, <1>2
  <2>4. (chunk[1] + 1)..(chunk[1 + 1] - 1) \subseteq missed
    BY <2>2, <1>5 DEF OfOnePiece
  <2>5. (chunk[Len(chunk)] + 1)..heard \subseteq missed
    BY <1>1, <1>5 DEF UpTo
  <2> QED
    BY <2>1, <2>2, <2>3, <2>4, <2>5, <1>2 DEF h
<1>11. t = <<>> => (h + 1)..heard \subseteq missed
  <2> SUFFICES ASSUME t = <<>> PROVE (h + 1)..heard \subseteq missed
    OBVIOUS
  <2>1. m = 0 /\ Len(chunk) = 1
    BY <1>2, CardBounds DEF m
  <2> QED
    BY <2>1, <1>1, <1>5 DEF UpTo, h
\* Whatever of the samples is left in the buffer reaches up to the channel.
<1>12. ASSUME NEW s \in Seq(Nat), OfOnePiece(s), s # <<>> => s[Len(s)] = h, pcm_buf' = s,
             Len(s) < FrameSamples, frame' \in Seq(Nat), OfOnePiece(frame)'
      PROVE  CaptureOK'
  <2>1. OfOnePiece(pcm_buf)' /\ OfOnePiece(chunk)'
    BY <1>1, <1>9, <1>12 DEF OfOnePiece
  <2>2. chunk' = <<>> => UpTo(pcm_buf, heard)'
    BY <1>1, <1>11, <1>12 DEF UpTo
  <2>3. chunk' # <<>> => UpTo(pcm_buf, chunk[1] - 1)' /\ UpTo(chunk, heard)'
    BY <1>1, <1>10, <1>12 DEF UpTo, m
  <2>4. Joined'
    BY <2>1, <2>2, <2>3 DEF Joined
  <2>5. Len(chunk') <= InputRoom
    BY <1>1, <1>2, CardBounds DEF CaptureOK, CaptureTypes, m
  <2>6. CaptureTypes'
    BY <1>1, <1>2, <1>12, <2>5 DEF CaptureOK, CaptureTypes
  <2> QED
    BY <1>1, <1>12, <2>4, <2>6 DEF CaptureOK
<1>13. CASE n + 1 >= FrameSamples
  <2>1. n + 1 = FrameSamples
    BY <1>3, <1>13
  <2>2. frame' = SubSeq(filled, 1, n + 1) /\ pcm_buf' = SubSeq(filled, n + 2, n + 1)
    BY <1>3, <1>6, <2>1
  <2>3. /\ SubSeq(filled, 1, n + 1) \in Seq(Nat) /\ Len(SubSeq(filled, 1, n + 1)) = n + 1
        /\ \A i \in 1..n + 1 : SubSeq(filled, 1, n + 1)[i] = filled[i]
    <3> DEFINE u == SubSeq(filled, 1, n + 1)
    <3>1. /\ u \in Seq(Nat)
          /\ Len(u) = IF 1 <= n + 1 THEN n + 1 - 1 + 1 ELSE 0
          /\ \A i \in 1..n + 1 - 1 + 1 : u[i] = filled[1 + i - 1]
      <4>1. 1 \in 1..Len(filled) + 1 /\ n + 1 \in 0..Len(filled)
        BY <1>3, <1>4
      <4> QED
        BY <4>1, <1>3, <1>4, SubSeqProperties
    <3> HIDE DEF u
    <3>2. 1 <= n + 1 /\ n + 1 - 1 + 1 = n + 1 /\ \A i \in 1..n + 1 : 1 + i - 1 = i
      BY <1>3
    <3>3. Len(u) = n + 1 /\ \A i \in 1..n + 1 : u[i] = filled[i]
      BY <3>1, <3>2
    <3> QED
      BY <3>1, <3>3 DEF u
  <2>4. pcm_buf' = <<>>
    <3>1. n + 2 > n + 1
      BY <1>3
    <3> QED
      BY <2>2, <3>1, <1>3, <1>4, SubSeqProperties, EmptySeq
  <2>5. frame' \in Seq(Nat) /\ Len(frame') = n + 1 /\ \A i \in 1..n + 1 : frame'[i] = filled[i]
    BY <2>2, <2>3
  <2>6. OfOnePiece(frame)'
    <3> SUFFICES ASSUME NEW i \in 1..n PROVE (frame'[i] + 1)..(frame'[i + 1] - 1) \subseteq missed
      BY <2>5, <1>1, <1>3 DEF OfOnePiece
    <3>1. i \in 1..n + 1 /\ i + 1 \in 1..n + 1
      BY <1>3
    <3> QED
      BY <3>1, <2>5, <1>8
  <2>7. OfOnePiece(<<>>)
    BY CardBounds DEF OfOnePiece
  <2>8. /\ <<>> \in Seq(Nat) /\ Len(<<>>) < FrameSamples /\ pcm_buf' = <<>>
        /\ frame' \in Seq(Nat) /\ OfOnePiece(frame)' /\ OfOnePiece(<<>>)
    BY <2>4, <2>5, <2>6, <2>7, <1>3, CardBounds
  <2>9. \A s \in Seq(Nat) :
            /\ OfOnePiece(s) /\ (s # <<>> => s[Len(s)] = h) /\ pcm_buf' = s /\ Len(s) < FrameSamples
            /\ frame' \in Seq(Nat) /\ OfOnePiece(frame)'
            => CaptureOK'
    BY <1>12
  <2> QED
    BY <2>8, <2>9
<1>14. CASE ~(n + 1 >= FrameSamples)
  <2>1. OfOnePiece(filled) /\ (filled # <<>> => filled[Len(filled)] = h) /\ Len(filled) < FrameSamples
    BY <1>3, <1>4, <1>8, <1>14 DEF OfOnePiece
  <2>2. frame' = frame /\ frame \in Seq(Nat) /\ OfOnePiece(frame)'
    BY <1>1, <1>6, <1>14 DEF CaptureOK, CaptureTypes, OfOnePiece
  <2> QED
    BY <1>4, <1>6, <1>12, <1>14, <2>1, <2>2
<1> QED
  BY <1>13, <1>14

\* What opens, starts, pauses or ends the stream.
LEMMA StreamKeeps ==
    ASSUME CaptureOK,
           OpenInput \/ InputFails \/ InputBreaks \/ InputRecovers \/ CaptureStarts
           \/ CapturePauses \/ ListenersChange \/ InputStops
    PROVE  CaptureOK'
<1>1. missed' = missed /\ frame' = frame /\ OfOnePiece(frame)'
  BY DEF OpenInput, InputFails, InputBreaks, InputRecovers, CaptureStarts, CapturePauses,
         ListenersChange, InputStops, CaptureOK, OfOnePiece
<1>2. heard' \in 0..MaxSamples
  BY CardBounds DEF OpenInput, InputFails, InputBreaks, InputRecovers, CaptureStarts, CapturePauses,
         ListenersChange, InputStops, CaptureOK, CaptureTypes
<1>3. in' \in [at : {"find", "run", "recover", "done"}, failed : BOOLEAN, capturing : BOOLEAN,
               late : BOOLEAN]
  BY DEF OpenInput, InputFails, InputBreaks, InputRecovers, CaptureStarts, CapturePauses,
         ListenersChange, InputStops, CaptureOK, CaptureTypes
<1>4. (chunk' = chunk \/ chunk' = <<>>) /\ (pcm_buf' = pcm_buf \/ pcm_buf' = <<>>)
  BY DEF OpenInput, InputFails, InputBreaks, InputRecovers, CaptureStarts, CapturePauses,
         ListenersChange, InputStops
<1>5. CaptureTypes'
  <2>1. CaptureTypes
    BY DEF CaptureOK
  <2>2. /\ <<>> \in Seq(Nat) /\ Len(<<>>) <= InputRoom /\ Len(<<>>) < FrameSamples
        /\ chunk \in Seq(Nat) /\ Len(chunk) <= InputRoom
        /\ pcm_buf \in Seq(Nat) /\ Len(pcm_buf) < FrameSamples
    BY <2>1, CardBounds DEF CaptureTypes
  <2>3. /\ chunk' \in Seq(Nat) /\ Len(chunk') <= InputRoom
        /\ pcm_buf' \in Seq(Nat) /\ Len(pcm_buf') < FrameSamples
    BY <1>4, <2>2, Zenon
  <2> QED
    BY <1>1, <1>2, <1>3, <2>1, <2>3 DEF CaptureTypes
<1>6. CASE OpenInput
  <2>1. in'.at = "run" /\ ~in'.capturing /\ pcm_buf' = <<>> /\ chunk' = <<>>
    BY <1>6 DEF OpenInput, CaptureOK, CaptureTypes
  <2>2. Joined' /\ Rested'
    BY <2>1, CardBounds DEF Joined, Rested, OfOnePiece, UpTo
  <2> QED
    BY <1>1, <1>5, <2>1, <2>2 DEF CaptureOK
<1>7. CASE InputFails \/ ListenersChange
  <2>1. /\ in'.at = in.at /\ in'.capturing = in.capturing /\ in'.late = in.late /\ chunk' = chunk
        /\ pcm_buf' = pcm_buf /\ heard' = heard
    BY <1>7 DEF InputFails, ListenersChange, CaptureOK, CaptureTypes
  <2>2. (Joined => Joined') /\ (Rested => Rested')
    BY <1>1, <2>1 DEF Joined, Rested, OfOnePiece, UpTo
  <2> QED
    BY <1>1, <1>5, <2>1, <2>2 DEF CaptureOK
<1>8. CASE InputBreaks \/ InputStops
  <2>1. in'.at \in {"recover", "done"} /\ in'.capturing = in.capturing /\ in'.late = in.late
        /\ pcm_buf' = pcm_buf
    BY <1>8 DEF InputBreaks, InputStops, CaptureOK, CaptureTypes
  <2> QED
    BY <1>1, <1>5, <2>1 DEF CaptureOK
<1>9. CASE InputRecovers
  <2>1. in'.at = "find" /\ ~in'.capturing /\ pcm_buf' = <<>>
    BY <1>9 DEF InputRecovers, CaptureOK, CaptureTypes
  <2> QED
    BY <1>1, <1>5, <2>1 DEF CaptureOK
<1>10. CASE CaptureStarts
  <2>1. /\ in.at = "run" /\ Rested /\ Joined /\ heard \in Nat
        /\ in'.at = "run" /\ in'.capturing /\ ~in'.late /\ chunk' = chunk /\ pcm_buf' = <<>>
        /\ heard' \in {heard, heard + 1}
    BY <1>10 DEF CaptureStarts, InputTurns, CaptureOK, CaptureTypes, Rested
  <2>2. UpTo(chunk, heard)'
    <3> SUFFICES ASSUME chunk # <<>> PROVE (chunk[Len(chunk)] + 1)..heard' \subseteq missed
      BY <1>1, <2>1 DEF UpTo
    <3>1. (chunk[Len(chunk)] + 1)..heard \subseteq missed /\ heard + 1 \in missed
      BY <2>1 DEF Joined, Rested, UpTo
    <3>2. chunk[Len(chunk)] \in Nat
      BY LenProperties, EmptySeq DEF CaptureOK, CaptureTypes
    <3>3. \A k \in (chunk[Len(chunk)] + 1)..heard' : k \in (chunk[Len(chunk)] + 1)..heard \/ k = heard + 1
      BY <2>1, <3>2
    <3> QED
      BY <3>1, <3>3
  <2>3. OfOnePiece(chunk)' /\ OfOnePiece(pcm_buf)'
    BY <1>1, <2>1, CardBounds DEF Joined, OfOnePiece
  <2>4. Joined'
    BY <2>1, <2>2, <2>3 DEF Joined, UpTo
  <2> QED
    BY <1>1, <1>5, <2>1, <2>4 DEF CaptureOK
<1>11. CASE CapturePauses
  <2>1. in'.at = "run" /\ ~in'.capturing /\ pcm_buf' = <<>> /\ chunk' = <<>>
    BY <1>11 DEF CapturePauses, InputTurns, CaptureOK, CaptureTypes
  <2>2. Joined' /\ Rested'
    BY <2>1, CardBounds DEF Joined, Rested, OfOnePiece, UpTo
  <2> QED
    BY <1>1, <1>5, <2>1, <2>2 DEF CaptureOK
<1> QED
  BY <1>6, <1>7, <1>8, <1>9, <1>10, <1>11

(***************************************************************************)
(* Playback.                                                                *)
(***************************************************************************)
\* A sequence of packets in order, its first one and the others.
LEMMA FirstPacket ==
    ASSUME NEW seq \in Seq(Nat), seq # <<>>
    PROVE  /\ Len(seq) \in Nat /\ Len(seq) >= 1 /\ Head(seq) = seq[1] /\ Head(seq) \in Nat
           /\ \A i \in 1..Len(seq) : seq[i] \in Nat
           /\ Tail(seq) \in Seq(Nat) /\ Len(Tail(seq)) = Len(seq) - 1
           /\ \A i \in 1..Len(Tail(seq)) : i + 1 \in 1..Len(seq) /\ Tail(seq)[i] = seq[i + 1]
<1>1. Len(seq) \in Nat /\ \A i \in 1..Len(seq) : seq[i] \in Nat
  BY LenProperties
<1>2. Len(seq) >= 1
  BY <1>1, EmptySeq
<1>3. /\ Head(seq) = seq[1] /\ Head(seq) \in Nat /\ Tail(seq) \in Seq(Nat)
      /\ Len(Tail(seq)) = Len(seq) - 1 /\ \A i \in 1..Len(Tail(seq)) : Tail(seq)[i] = seq[i + 1]
  BY HeadTailProperties
<1>4. \A i \in 1..Len(seq) - 1 : i + 1 \in 1..Len(seq)
  BY <1>1
<1> QED
  BY <1>1, <1>2, <1>3, <1>4

LEMMA LastPacket ==
    ASSUME NEW seq \in Seq(Nat), NEW e \in Nat
    PROVE  /\ Len(seq) \in Nat /\ \A i \in 1..Len(seq) : seq[i] \in Nat
           /\ Append(seq, e) \in Seq(Nat) /\ Len(Append(seq, e)) = Len(seq) + 1
           /\ Append(seq, e)[Len(seq) + 1] = e /\ \A i \in 1..Len(seq) : Append(seq, e)[i] = seq[i]
           /\ \A i \in 1..Len(seq) + 1 : i = Len(seq) + 1 \/ i \in 1..Len(seq)
BY AppendProperties, LenProperties

LEMMA OutputTypes ==
    ASSUME PlaybackTypes,
           \/ Offer \/ QueueCloses \/ Plays \/ OpenOutput \/ OutputFails \/ OutputBreaks
           \/ OutputRecovers \/ PlayFails \/ PlaybackTakes \/ IdleEnds \/ PlaybackEnds \/ OutputStops
    PROVE  output' \in [at : {"find", "run", "idle", "recover", "done"}, failed : BOOLEAN,
                        playing : BOOLEAN, closed : BOOLEAN]
BY DEF PlaybackTypes, Offer, QueueCloses, Plays, OpenOutput, OutputFails, OutputBreaks,
       OutputRecovers, PlayFails, PlaybackTakes, IdleEnds, PlaybackEnds, OutputStops

LEMMA OfferKeeps == PlaybackOK /\ Offer => PlaybackOK'
<1> SUFFICES ASSUME PlaybackOK, Offer PROVE PlaybackOK'
  OBVIOUS
<1> DEFINE p == Append(packets, offered + 1)
<1>1. /\ packets \in Seq(Nat) /\ ring \in Seq(Nat) /\ {offered, played, stale} \subseteq Nat
      /\ offered + 1 \in Nat /\ offered < MaxPackets /\ MaxPackets \in Nat
      /\ Len(packets) < PacketRoom /\ PacketRoom \in Nat
  BY CardBounds DEF PlaybackOK, PlaybackTypes, Offer
<1>2. /\ packets' = p /\ offered' = offered + 1
      /\ ring' = ring /\ output' = output /\ played' = played /\ stale' = stale
  BY DEF Offer
<1>3. /\ Len(packets) \in Nat /\ \A i \in 1..Len(packets) : packets[i] \in Nat
      /\ p \in Seq(Nat) /\ Len(p) = Len(packets) + 1
      /\ p[Len(packets) + 1] = offered + 1 /\ \A i \in 1..Len(packets) : p[i] = packets[i]
      /\ \A i \in 1..Len(packets) + 1 : i = Len(packets) + 1 \/ i \in 1..Len(packets)
  BY <1>1, LastPacket
<1>4. Len(ring) \in Nat /\ \A i \in 1..Len(ring) : ring[i] \in Nat
  BY <1>1, LenProperties
<1> HIDE DEF p
<1>5. p # <<>>
  BY <1>3, CardBounds
<1>6. PlaybackTypes'
  BY <1>1, <1>2, <1>3 DEF PlaybackOK, PlaybackTypes
<1>7. InOrder(ring)'
  BY <1>1, <1>2, <1>4 DEF PlaybackOK, InOrder
<1>8. InOrder(packets)'
  <2>1. ASSUME NEW i \in 1..Len(p) PROVE stale < p[i] /\ played < p[i] /\ p[i] <= offered + 1
    <3>1. CASE i = Len(packets) + 1
      BY <3>1, <1>1, <1>3 DEF PlaybackOK
    <3>2. CASE i \in 1..Len(packets)
      <4>1. p[i] = packets[i] /\ packets[i] \in Nat
        BY <3>2, <1>3
      <4>2. stale < packets[i] /\ played < packets[i] /\ packets[i] <= offered
        BY <3>2 DEF PlaybackOK, InOrder
      <4>3. offered \in Nat
        BY <1>1
      <4> QED
        BY <4>1, <4>2, <4>3
    <3> QED
      BY <3>1, <3>2, <1>3
  <2>2. ASSUME NEW i \in 1..Len(p), NEW j \in 1..Len(p), i < j PROVE p[i] < p[j]
    <3>1. i \in 1..Len(packets) /\ p[i] = packets[i] /\ packets[i] <= offered
      BY <1>3, <2>2 DEF PlaybackOK, InOrder
    <3>2. CASE j = Len(packets) + 1
      <4>1. p[j] = offered + 1
        BY <3>2, <1>3
      <4>2. packets[i] \in Nat /\ offered \in Nat
        BY <3>1, <1>1, <1>3
      <4> QED
        BY <3>1, <4>1, <4>2
    <3>3. CASE j \in 1..Len(packets)
      <4>1. p[j] = packets[j] /\ packets[i] < packets[j]
        BY <3>1, <3>3, <1>3, <2>2 DEF PlaybackOK, InOrder
      <4> QED
        BY <3>1, <4>1
    <3> QED
      BY <3>2, <3>3, <1>3
  <2> QED
    BY <1>2, <2>1, <2>2 DEF InOrder
<1>9. \A i \in 1..Len(ring'), j \in 1..Len(packets') : ring'[i] < packets'[j]
  <2> SUFFICES ASSUME NEW i \in 1..Len(ring), NEW j \in 1..Len(p) PROVE ring[i] < p[j]
    BY <1>2
  <2>1. ring[i] \in Nat /\ ring[i] <= offered
    BY <1>4 DEF PlaybackOK, InOrder
  <2>2. CASE j = Len(packets) + 1
    BY SMTT(30), <2>1, <2>2, <1>1, <1>3
  <2>3. CASE j \in 1..Len(packets)
    BY <2>3, <1>3 DEF PlaybackOK
  <2> QED
    BY <2>2, <2>3, <1>3
<1> QED
  BY <1>1, <1>2, <1>5, <1>6, <1>7, <1>8, <1>9 DEF PlaybackOK, PlayingHasPackets

\* The lists and their marks stay as they are.
LEMMA OrderStays ==
    ASSUME PlaybackOK, UNCHANGED <<packets, ring, offered, played, stale>>,
           output' \in [at : {"find", "run", "idle", "recover", "done"}, failed : BOOLEAN,
                        playing : BOOLEAN, closed : BOOLEAN],
           output'.at = "find" => ~output'.playing,
           output'.at = "run" /\ output'.playing => packets # <<>>
    PROVE  PlaybackOK'
BY DEF PlaybackOK, PlaybackTypes, InOrder, PlayingHasPackets

LEMMA DeviceKeeps ==
    ASSUME PlaybackOK,
           QueueCloses \/ OpenOutput \/ OutputFails \/ OutputBreaks \/ PlaybackEnds \/ OutputStops
    PROVE  PlaybackOK'
<1>1. /\ output' \in [at : {"find", "run", "idle", "recover", "done"}, failed : BOOLEAN,
                      playing : BOOLEAN, closed : BOOLEAN]
      /\ UNCHANGED <<packets, ring, offered, played, stale>>
  <2>1. PlaybackTypes
    BY DEF PlaybackOK
  <2> QED
    BY <2>1, OutputTypes DEF QueueCloses, OpenOutput, OutputFails, OutputBreaks, PlaybackEnds, OutputStops
<1>2. /\ output'.at = "find" => ~output'.playing
      /\ output'.at = "run" /\ output'.playing => packets # <<>>
  BY DEF PlaybackOK, PlaybackTypes, PlayingHasPackets, QueueCloses, OpenOutput, OutputFails,
         OutputBreaks, PlaybackEnds, OutputStops
<1> QED
  BY <1>1, <1>2, OrderStays

LEMMA PlaysKeeps == PlaybackOK /\ Plays => PlaybackOK'
<1> SUFFICES ASSUME PlaybackOK, Plays PROVE PlaybackOK'
  OBVIOUS
<1> DEFINE t == Tail(ring)
<1>1. /\ ring \in Seq(Nat) /\ ring # <<>> /\ played' = Head(ring) /\ ring' = t
      /\ packets' = packets /\ output' = output /\ offered' = offered /\ stale' = stale
      /\ packets \in Seq(Nat) /\ {offered, played, stale} \subseteq Nat /\ offered <= MaxPackets /\ MaxPackets \in Nat
  BY CardBounds DEF Plays, PlaybackOK, PlaybackTypes
<1>2. /\ Len(ring) \in Nat /\ Len(ring) >= 1 /\ Head(ring) = ring[1] /\ Head(ring) \in Nat
      /\ \A i \in 1..Len(ring) : ring[i] \in Nat
      /\ t \in Seq(Nat) /\ Len(t) = Len(ring) - 1
      /\ \A i \in 1..Len(t) : i + 1 \in 1..Len(ring) /\ t[i] = ring[i + 1]
  BY <1>1, FirstPacket
<1>3. Len(packets) \in Nat /\ \A i \in 1..Len(packets) : packets[i] \in Nat
  BY <1>1, LenProperties
<1> HIDE DEF t
<1>4. 1 \in 1..Len(ring) /\ played' = ring[1] /\ ring[1] <= offered
  BY <1>1, <1>2 DEF PlaybackOK, InOrder
<1>5. PlaybackTypes'
  BY <1>1, <1>2, <1>4 DEF PlaybackOK, PlaybackTypes
<1>6. InOrder(ring)'
  <2>1. ASSUME NEW i \in 1..Len(t) PROVE stale < t[i] /\ ring[1] < t[i] /\ t[i] <= offered
    <3>1. i + 1 \in 1..Len(ring) /\ t[i] = ring[i + 1] /\ 1 < i + 1
      BY <1>2
    <3> QED
      BY <3>1, <1>4 DEF PlaybackOK, InOrder
  <2>2. ASSUME NEW i \in 1..Len(t), NEW j \in 1..Len(t), i < j PROVE t[i] < t[j]
    <3>1. i + 1 < j + 1
      BY <1>2, <2>2
    <3> QED
      BY <3>1, <1>2 DEF PlaybackOK, InOrder
  <2> QED
    BY <1>1, <1>4, <2>1, <2>2 DEF InOrder
<1>7. InOrder(packets)'
  BY <1>1, <1>3, <1>4 DEF PlaybackOK, InOrder
<1>8. \A i \in 1..Len(ring'), j \in 1..Len(packets') : ring'[i] < packets'[j]
  BY <1>1, <1>2 DEF PlaybackOK
<1> QED
  BY <1>1, <1>4, <1>5, <1>6, <1>7, <1>8 DEF PlaybackOK, PlayingHasPackets

\* What is forgotten is the whole ring; whatever waits is younger.
LEMMA Forgets ==
    ASSUME PlaybackOK, ring' = <<>>, stale' = (IF ring = <<>> THEN stale ELSE Last(ring)),
           UNCHANGED <<packets, offered, played>>,
           output' \in [at : {"find", "run", "idle", "recover", "done"}, failed : BOOLEAN,
                        playing : BOOLEAN, closed : BOOLEAN],
           ~output'.playing
    PROVE  PlaybackOK'
<1>1. /\ ring \in Seq(Nat) /\ packets \in Seq(Nat) /\ {offered, played, stale} \subseteq Nat
      /\ MaxPackets \in Nat /\ offered <= MaxPackets
  BY CardBounds DEF PlaybackOK, PlaybackTypes
<1>2. Len(ring) \in Nat /\ Len(packets) \in Nat
      /\ (\A i \in 1..Len(ring) : ring[i] \in Nat) /\ \A i \in 1..Len(packets) : packets[i] \in Nat
  BY SMTT(30), <1>1, LenProperties
<1>3. stale' \in Nat /\ stale' <= offered /\ \A i \in 1..Len(packets) : stale' < packets[i]
  <2>1. CASE ring = <<>>
    BY <2>1, <1>1 DEF PlaybackOK, InOrder
  <2>2. CASE ring # <<>>
    <3>1. stale' = ring[Len(ring)] /\ Len(ring) \in 1..Len(ring)
      BY <2>2, <1>1, <1>2, EmptySeq DEF Last
    <3> QED
      BY <3>1, <1>2 DEF PlaybackOK, InOrder
  <2> QED
    BY <2>1, <2>2
<1>4. PlaybackTypes'
  BY <1>1, <1>3, CardBounds DEF PlaybackOK, PlaybackTypes
<1>5. InOrder(ring)'
  BY CardBounds DEF InOrder
<1>6. InOrder(packets)'
  BY <1>2, <1>3 DEF PlaybackOK, InOrder
<1>7. \A i \in 1..Len(ring'), j \in 1..Len(packets') : ring'[i] < packets'[j]
  BY CardBounds
<1> QED
  BY <1>1, <1>3, <1>4, <1>5, <1>6, <1>7 DEF PlaybackOK, PlayingHasPackets

LEMMA RestKeeps == ASSUME PlaybackOK, OutputRecovers \/ IdleEnds PROVE PlaybackOK'
<1>1. output' \in [at : {"find", "run", "idle", "recover", "done"}, failed : BOOLEAN,
                   playing : BOOLEAN, closed : BOOLEAN]
  <2>1. PlaybackTypes
    BY DEF PlaybackOK
  <2> QED
    BY <2>1, OutputTypes
<1>2. UNCHANGED <<packets, offered, played>>
  BY DEF OutputRecovers, IdleEnds
<1>3. CASE OutputRecovers
  <2>1. /\ ring' = <<>> /\ stale' = (IF ring = <<>> THEN stale ELSE Last(ring)) /\ ~output'.playing
    BY <1>3 DEF OutputRecovers, PlaybackOK, PlaybackTypes
  <2> QED
    BY <1>1, <1>2, <2>1, Forgets
<1>4. CASE IdleEnds /\ packets # <<>>
  <2>1. UNCHANGED <<ring, stale>> /\ output'.at = "run"
    BY <1>4 DEF IdleEnds, PlaybackOK, PlaybackTypes
  <2> QED
    BY <1>1, <1>2, <1>4, <2>1, OrderStays
<1>5. CASE IdleEnds /\ packets = <<>>
  <2>1. /\ ring' = <<>> /\ stale' = (IF ring = <<>> THEN stale ELSE Last(ring)) /\ ~output'.playing
    BY <1>5 DEF IdleEnds, PlaybackOK, PlaybackTypes
  <2> QED
    BY <1>1, <1>2, <2>1, Forgets
<1> QED
  BY <1>3, <1>4, <1>5

LEMMA TakenKeeps == ASSUME PlaybackOK, PlayFails \/ PlaybackTakes PROVE PlaybackOK'
<1> DEFINE t == Tail(packets)
           r == Append(ring, Head(packets))
<1>1. /\ packets \in Seq(Nat) /\ packets # <<>> /\ ring \in Seq(Nat)
      /\ {offered, played, stale} \subseteq Nat /\ MaxPackets \in Nat /\ packets' = t
      /\ UNCHANGED <<offered, played, stale>> /\ Len(packets) <= PacketRoom /\ PacketRoom \in Nat
  <2>1. packets # <<>> /\ packets' = t /\ UNCHANGED <<offered, played, stale>>
    BY DEF PlayFails, PlaybackTakes
  <2>2. /\ packets \in Seq(Nat) /\ ring \in Seq(Nat) /\ {offered, played, stale} \subseteq Nat
        /\ Len(packets) <= PacketRoom
    BY CardBounds DEF PlaybackOK, PlaybackTypes
  <2> QED
    BY <2>1, <2>2, CardBounds
<1>2. /\ Len(packets) \in Nat /\ Len(packets) >= 1 /\ Head(packets) = packets[1] /\ Head(packets) \in Nat
      /\ \A i \in 1..Len(packets) : packets[i] \in Nat
      /\ t \in Seq(Nat) /\ Len(t) = Len(packets) - 1
      /\ \A i \in 1..Len(t) : i + 1 \in 1..Len(packets) /\ t[i] = packets[i + 1]
  BY <1>1, FirstPacket
<1>3. /\ Len(ring) \in Nat /\ \A i \in 1..Len(ring) : ring[i] \in Nat
      /\ r \in Seq(Nat) /\ Len(r) = Len(ring) + 1
      /\ r[Len(ring) + 1] = Head(packets) /\ \A i \in 1..Len(ring) : r[i] = ring[i]
      /\ \A i \in 1..Len(ring) + 1 : i = Len(ring) + 1 \/ i \in 1..Len(ring)
  BY <1>1, <1>2, LastPacket
<1>4. 1 \in 1..Len(packets) /\ Len(t) <= PacketRoom /\ Len(t) \in Nat
  BY <1>1, <1>2
<1>5. /\ output' \in [at : {"find", "run", "idle", "recover", "done"}, failed : BOOLEAN,
                      playing : BOOLEAN, closed : BOOLEAN]
      /\ output'.at # "find" /\ (output'.at = "run" => packets' # <<>>)
  <2>1. PlaybackTypes
    BY DEF PlaybackOK
  <2>2. output'.at # "find" /\ (output'.at = "run" => packets' # <<>>)
    BY <2>1, <1>1 DEF PlayFails, PlaybackTakes, PlaybackTypes
  <2> QED
    BY <2>1, <2>2, OutputTypes
<1>6. ring' = ring \/ ring' = r
  BY DEF PlayFails, PlaybackTakes
<1> HIDE DEF t, r
<1>7. PlaybackTypes'
  BY <1>1, <1>2, <1>3, <1>4, <1>5, <1>6 DEF PlaybackOK, PlaybackTypes
<1>8. ASSUME NEW i \in 1..Len(t)
      PROVE  /\ stale < t[i] /\ played < t[i] /\ t[i] <= offered /\ packets[1] < t[i]
             /\ \A j \in 1..Len(ring) : ring[j] < t[i]
             /\ \A j \in 1..Len(t) : i < j => t[i] < t[j]
  <2>1. i + 1 \in 1..Len(packets) /\ t[i] = packets[i + 1] /\ 1 < i + 1
    BY <1>2
  <2>2. \A j \in 1..Len(t) : i < j => i + 1 < j + 1 /\ j + 1 \in 1..Len(packets) /\ t[j] = packets[j + 1]
    BY <1>2, <1>4
  <2> QED
    BY <2>1, <2>2, <1>4 DEF PlaybackOK, InOrder
<1>9. InOrder(packets)'
  BY <1>1, <1>8 DEF InOrder
<1>10. CASE ring' = ring
  <2>1. InOrder(ring)'
    BY <1>1, <1>10 DEF PlaybackOK, InOrder
  <2> QED
    BY <1>1, <1>5, <1>7, <1>8, <1>9, <1>10, <2>1 DEF PlaybackOK, PlayingHasPackets
<1>11. CASE ring' = r
  <2>1. InOrder(ring)'
    <3>1. ASSUME NEW i \in 1..Len(r) PROVE stale < r[i] /\ played < r[i] /\ r[i] <= offered
      BY <1>2, <1>3, <1>4 DEF PlaybackOK, InOrder
    <3>2. ASSUME NEW i \in 1..Len(r), NEW j \in 1..Len(r), i < j PROVE r[i] < r[j]
      <4>1. i \in 1..Len(ring) /\ r[i] = ring[i]
        BY <1>3, <3>2
      <4>2. CASE j = Len(ring) + 1
        BY <4>1, <4>2, <1>2, <1>3, <1>4 DEF PlaybackOK
      <4>3. CASE j \in 1..Len(ring)
        <5>1. r[j] = ring[j]
          BY <4>3, <1>3
        <5>2. ring[i] < ring[j]
          BY <4>1, <4>3, <3>2 DEF PlaybackOK, InOrder
        <5> QED
          BY <4>1, <5>1, <5>2
      <4> QED
        BY <4>2, <4>3, <1>3
    <3> QED
      BY <1>1, <1>11, <3>1, <3>2 DEF InOrder
  <2>2. \A i \in 1..Len(r), j \in 1..Len(t) : r[i] < t[j]
    BY <1>2, <1>3, <1>8
  <2> QED
    BY <1>1, <1>5, <1>7, <1>9, <1>11, <2>1, <2>2 DEF PlaybackOK, PlayingHasPackets
<1> QED
  BY <1>6, <1>10, <1>11

LEMMA CardKeeps == CardInd /\ [CardNext]_cardVars => CardInd'
<1> SUFFICES ASSUME CardInd, [CardNext]_cardVars PROVE CardInd'
  OBVIOUS
<1>1. CaptureOK /\ PlaybackOK /\ MaxCardFaults \in Nat
  BY CardBounds DEF CardInd
<1>2. cardFaults' \in 0..MaxCardFaults
  BY <1>1 DEF CardInd, CardNext, cardVars, captureVars, playbackVars, Fault, Sampled, OpenInput, InputFails, InputBreaks,
         InputRecovers, CaptureStarts, CapturePauses, CaptureTakes, ListenersChange, InputStops,
         Offer, QueueCloses, Plays, OpenOutput, OutputFails, OutputBreaks, OutputRecovers, PlayFails,
         PlaybackTakes, IdleEnds, PlaybackEnds, OutputStops, ShutDown
<1>3. CASE \/ Sampled \/ OpenInput \/ InputFails \/ InputBreaks \/ InputRecovers
           \/ CaptureStarts \/ CapturePauses \/ CaptureTakes \/ ListenersChange \/ InputStops
  <2>1. UNCHANGED playbackVars
    BY <1>3 DEF Sampled, OpenInput, InputFails, InputBreaks, InputRecovers, CaptureStarts,
                CapturePauses, CaptureTakes, ListenersChange, InputStops
  <2>2. CaptureOK'
    BY <1>1, <1>3, SampledKeeps, TakesKeeps, StreamKeeps
  <2> QED
    BY <1>1, <1>2, <2>1, <2>2, PlaybackApart DEF CardInd
<1>4. CASE \/ Offer \/ QueueCloses \/ Plays \/ OpenOutput \/ OutputFails \/ OutputBreaks
           \/ OutputRecovers \/ PlayFails \/ PlaybackTakes \/ IdleEnds \/ PlaybackEnds \/ OutputStops
  <2>1. UNCHANGED captureVars
    BY <1>4 DEF Offer, QueueCloses, Plays, OpenOutput, OutputFails, OutputBreaks, OutputRecovers,
                PlayFails, PlaybackTakes, IdleEnds, PlaybackEnds, OutputStops
  <2>2. PlaybackOK'
    BY <1>1, <1>4, OfferKeeps, DeviceKeeps, PlaysKeeps, RestKeeps, TakenKeeps
  <2> QED
    BY <1>1, <1>2, <2>1, <2>2, CaptureApart DEF CardInd
<1>5. CASE ShutDown \/ UNCHANGED cardVars
  <2>1. UNCHANGED captureVars /\ UNCHANGED playbackVars
    BY <1>5 DEF ShutDown, cardVars
  <2> QED
    BY <1>1, <1>2, <2>1, CaptureApart, PlaybackApart DEF CardInd
<1> QED
  BY <1>3, <1>4, <1>5 DEF CardNext

\* Whatever the card, its callbacks and the listeners do: a published frame is of one piece, what
\* was left unplayed at a rest or a failure is not transmitted later, and the thread does not look
\* at an empty queue with its stream playing (audio.rs: run_capture, run_playback).
THEOREM CardHolds == CardSpec => []CardInv
<1>1. CardInit => CardInd
  BY CardStarts
<1>2. CardInd /\ [CardNext]_cardVars => CardInd'
  BY CardKeeps
<1>3. CardInd => CardInv
  BY CardImplies
<1> QED
  BY <1>1, <1>2, <1>3, PTL DEF CardSpec

(***************************************************************************)
(* The histories of the decoders.  Messages are numbered as they are       *)
(* recorded, and a history, its copy in the store and its copy on disk     *)
(* hold numbers of their own: so entries and debts together are no more    *)
(* than what was recorded, and a flush saves what it has seen.             *)
(***************************************************************************)
Sorted(entries) == entries \in Seq(Entry) /\ OldestFirst(entries)

\* A history after t messages, now.
Row(entries, t, now) ==
    Sorted(entries) /\ \A i \in DOMAIN entries : entries[i].n <= t /\ entries[i].at <= now

HistTyped ==
    /\ clock \in 0..MaxClock /\ total \in 0..MaxEntries
    /\ hist \in [Histories -> Seq(Entry)] /\ db \in [ToSet(Saved) -> Seq(Entry)]
    /\ file \in [ToSet(Saved) -> Seq(Entry)]
    /\ owed \in [Histories -> [delta : 0..total, seen : -1..total]]
    /\ sending \in [Histories -> 0..total] /\ loaded \in BOOLEAN
    /\ flush \in 0..(Len(Saved) + 1)
    /\ client \in [at : {"gone", "replay", "subscribe", "live"}, next : 1..(Len(Replayed) + 1),
                   got : SUBSET Nat]

Rows ==
    /\ \A k \in Histories : Row(hist[k], total, clock) /\ Len(hist[k]) <= Room
    /\ \A k \in ToSet(Saved) : /\ Row(db[k], total, clock) /\ Len(db[k]) <= Room
                               /\ Row(file[k], total, clock) /\ Len(file[k]) <= Room

\* Every number a history ever holds is its own.
Kin(k) == Numbers(hist[k]) \cup (IF k \in ToSet(Saved) THEN Numbers(db[k]) \cup Numbers(file[k]) ELSE {})
Apart == \A j, k \in Histories : j # k => Kin(j) \cap Kin(k) = {}

Lengths == [k \in Histories |-> Len(hist[k])]
Debts == [k \in Histories |-> owed[k].delta]
CountKept == count \in Nat /\ CountAccurate /\ SumOver(Lengths) + SumOver(Debts) <= total

\* What was live and dead at a flush, and how far a running one has got.
Mark == [live : SUBSET (1..total), dead : SUBSET (1..total)]
Stored ==
    /\ marks \in [done : Mark, begun : Mark, now : Mark]
    /\ StoreFaithful
    /\ \A k \in Histories :
          /\ Numbers(hist[k]) \cap marks.now.dead = {}
          /\ flush # 0 => Numbers(hist[k]) \cap marks.begun.dead = {}
    /\ \A i \in 1..(flush - 1) :
          /\ Numbers(db[Saved[i]]) \cap marks.begun.dead = {}
          /\ Numbers(hist[Saved[i]]) \cap marks.begun.live \subseteq Numbers(db[Saved[i]])

\* How far a client that connects has got.
Copied ==
    /\ client.at = "replay" => client.next \in DOMAIN Replayed
    /\ client.at \in {"subscribe", "live"} => client.next = Len(Replayed) + 1
    /\ client.at # "gone" =>
          \A i \in 1..(client.next - 1) :
              Numbers(hist[Replayed[i]]) \subseteq client.got \cup skipped \cup {sending[Replayed[i]]}

HistInd == HistTyped /\ Rows /\ Apart /\ CountKept /\ Stored /\ Copied

-----------------------------------------------------------------------------
(* What is left of a history when entries leave it from the front.          *)
LeftOf(rest, entries) ==
    \E d \in 0..Len(entries) :
        /\ rest \in Seq(Entry) /\ Len(rest) = Len(entries) - d
        /\ \A i \in 1..Len(rest) : rest[i] = entries[i + d]

LEMMA NumbersAre == ASSUME NEW entries PROVE Numbers(entries) = {entries[i].n : i \in DOMAIN entries}
BY DEF Numbers, ToSet

LEMMA CutOff ==
    ASSUME NEW entries \in Seq(Entry), NEW d \in 0..Len(entries)
    PROVE  LeftOf(SubSeq(entries, d + 1, Len(entries)), entries)
<1>1. Len(entries) \in Nat /\ \A i \in 1..Len(entries) : entries[i] \in Entry
  BY LenProperties
<1>2. \A i \in (d + 1)..Len(entries) : entries[i] \in Entry
  BY <1>1
<1> DEFINE rest == SubSeq(entries, d + 1, Len(entries))
<1>3. /\ rest \in Seq(Entry) /\ Len(rest) = IF d + 1 <= Len(entries) THEN Len(entries) - (d + 1) + 1 ELSE 0
      /\ \A i \in 1..Len(entries) - (d + 1) + 1 : rest[i] = entries[d + 1 + i - 1]
  BY <1>1, <1>2, SubSeqProperties
<1> HIDE DEF rest
<1>4. Len(rest) = Len(entries) - d
  BY <1>1, <1>3
<1>5. \A i \in 1..Len(rest) : rest[i] = entries[i + d]
  <2> SUFFICES ASSUME NEW i \in 1..Len(rest) PROVE rest[i] = entries[i + d]
    OBVIOUS
  <2>1. i \in 1..Len(entries) - (d + 1) + 1 /\ d + 1 + i - 1 = i + d
    BY <1>1, <1>4
  <2> QED
    BY <1>3, <2>1
<1> QED
  BY <1>3, <1>4, <1>5 DEF LeftOf, rest

LEMMA NothingLeft ==
    ASSUME NEW entries \in Seq(Entry)
    PROVE  LeftOf(<<>>, entries)
<1>1. Len(entries) \in Nat /\ <<>> \in Seq(Entry) /\ Len(<<>>) = 0
  BY LenProperties, EmptySeq
<1>2. Len(entries) \in 0..Len(entries) /\ Len(<<>>) = Len(entries) - Len(entries) /\ 1..Len(<<>>) = {}
  BY <1>1
<1> QED
  BY <1>1, <1>2 DEF LeftOf

LEMMA PrunedLeft ==
    ASSUME NEW entries \in Seq(Entry)
    PROVE  LeftOf(Pruned(entries), entries)
<1> DEFINE fresh == {i \in DOMAIN entries : entries[i].at >= clock - Retention}
<1>1. Len(entries) \in Nat /\ DOMAIN entries = 1..Len(entries)
  BY LenProperties
<1>2. CASE fresh = {}
  <2>1. Pruned(entries) = <<>>
    BY <1>2 DEF Pruned
  <2> QED
    BY <2>1, NothingLeft
<1>3. CASE fresh # {}
  <2>1. fresh \in SUBSET Nat
    BY <1>1
  <2>2. Pruned(entries) = SubSeq(entries, Min(fresh), Len(entries))
    BY <1>3 DEF Pruned
  <2>3. fresh \subseteq 1..Len(entries)
    BY <1>1
  <2> HIDE DEF fresh
  <2>4. \E m \in fresh : \A i \in fresh : m <= i
    BY <1>3, <2>1, Least
  <2>5. Min(fresh) \in fresh
    BY <2>4 DEF Min
  <2>6. Min(fresh) \in 1..Len(entries)
    BY <2>3, <2>5
  <2> DEFINE d == Min(fresh) - 1
  <2>7. d \in 0..Len(entries) /\ d + 1 = Min(fresh)
    BY <1>1, <2>6
  <2> HIDE DEF d
  <2> QED
    BY <2>2, <2>7, CutOff
<1> QED
  BY <1>2, <1>3

LEMMA TrimmedLeft ==
    ASSUME NEW entries \in Seq(Entry)
    PROVE  LeftOf(Trimmed(entries), entries) /\ Len(Trimmed(entries)) <= Room
<1>1. Len(entries) \in Nat /\ Room \in Nat
  BY LenProperties, HistoryAssumption DEF HistoryAssumption
<1>2. CASE Len(entries) > Room
  <2> DEFINE d == Len(entries) - Room
  <2>1. d \in 0..Len(entries) /\ Len(entries) - d = Room
    BY <1>1, <1>2
  <2>2. Trimmed(entries) = SubSeq(entries, d + 1, Len(entries))
    BY <1>2 DEF Trimmed
  <2> HIDE DEF d
  <2>3. LeftOf(Trimmed(entries), entries)
    BY <2>1, <2>2, CutOff
  <2>4. Len(Trimmed(entries)) = Room
    <3>1. \A i \in (d + 1)..Len(entries) : entries[i] \in Entry
      BY <1>1, <2>1, LenProperties
    <3>2. Len(SubSeq(entries, d + 1, Len(entries))) = IF d + 1 <= Len(entries) THEN Len(entries) - (d + 1) + 1 ELSE 0
      BY <1>1, <2>1, <3>1, SubSeqProperties
    <3> QED
      BY <1>1, <2>1, <2>2, <3>2
  <2> QED
    BY <1>1, <2>3, <2>4
<1>3. CASE ~(Len(entries) > Room)
  <2>1. Trimmed(entries) = entries /\ Len(entries) <= Room
    BY <1>1, <1>3 DEF Trimmed
  <2>2. 0 \in 0..Len(entries) /\ Len(entries) = Len(entries) - 0 /\ \A i \in 1..Len(entries) : i + 0 = i
    BY <1>1
  <2>3. LeftOf(entries, entries)
    BY <2>2 DEF LeftOf
  <2> QED
    BY <2>1, <2>3
<1> QED
  BY <1>2, <1>3

LEMMA LeftSorted ==
    ASSUME NEW entries, NEW rest, Sorted(entries), LeftOf(rest, entries)
    PROVE  /\ Sorted(rest) /\ Len(rest) \in Nat /\ Len(entries) \in Nat /\ Len(rest) <= Len(entries)
           /\ \A i \in DOMAIN rest : \E j \in DOMAIN entries : rest[i] = entries[j]
           /\ Numbers(rest) \subseteq Numbers(entries)
<1>1. PICK d \in 0..Len(entries) : /\ rest \in Seq(Entry) /\ Len(rest) = Len(entries) - d
                                   /\ \A i \in 1..Len(rest) : rest[i] = entries[i + d]
  BY DEF LeftOf
<1>2. /\ Len(entries) \in Nat /\ DOMAIN entries = 1..Len(entries)
      /\ Len(rest) \in Nat /\ DOMAIN rest = 1..Len(rest)
  BY <1>1, LenProperties DEF Sorted
<1>3. \A i \in DOMAIN rest : i + d \in DOMAIN entries /\ rest[i] = entries[i + d]
  BY <1>1, <1>2
<1>4. \A i, j \in DOMAIN rest : i < j => i + d < j + d
  BY <1>1, <1>2
<1>5. OldestFirst(rest)
  BY <1>3, <1>4 DEF Sorted, OldestFirst
<1>6. \A i \in DOMAIN rest : \E j \in DOMAIN entries : rest[i] = entries[j]
  BY <1>3
<1>7. Numbers(rest) \subseteq Numbers(entries)
  BY <1>6, NumbersAre
<1> QED
  BY <1>1, <1>2, <1>5, <1>6, <1>7 DEF Sorted

LEMMA LeftRow ==
    ASSUME NEW entries, NEW rest, NEW t, NEW now, Row(entries, t, now), LeftOf(rest, entries)
    PROVE  Row(rest, t, now)
BY LeftSorted DEF Row

\* A history with the next message at its end.
LEMMA RowGrows ==
    ASSUME NEW entries, Row(entries, total, clock), total < MaxEntries,
           total \in Nat, clock \in 0..MaxClock, NEW e, e = [n |-> total + 1, at |-> clock]
    PROVE  /\ Row(Append(entries, e), total + 1, clock)
           /\ Len(entries) \in Nat /\ Len(Append(entries, e)) = Len(entries) + 1
           /\ Numbers(Append(entries, e)) = Numbers(entries) \cup {total + 1}
<1>1. e \in Entry /\ e.n = total + 1 /\ e.at = clock
  BY HistoryAssumption DEF HistoryAssumption, Entry
<1>2. entries \in Seq(Entry) /\ OldestFirst(entries)
      /\ \A i \in DOMAIN entries : entries[i].n <= total /\ entries[i].at <= clock
  BY DEF Row, Sorted
<1> DEFINE app == Append(entries, e)  l == Len(entries)
<1>3. /\ app \in Seq(Entry) /\ Len(app) = l + 1 /\ l \in Nat
      /\ DOMAIN app = DOMAIN entries \cup {l + 1} /\ l + 1 \notin DOMAIN entries
      /\ app[l + 1] = e /\ \A k \in DOMAIN entries : app[k] = entries[k]
  BY <1>1, <1>2, AppendAt
<1>4. DOMAIN entries = 1..l /\ \A i \in DOMAIN entries : entries[i] \in Entry
  BY <1>2, LenProperties
<1> HIDE DEF app, l
<1>5. \A i \in DOMAIN entries : entries[i].n \in Nat /\ entries[i].at \in Nat
  BY <1>4, HistoryAssumption DEF HistoryAssumption, Entry
<1>6. \A i \in DOMAIN app : app[i].n <= total + 1 /\ app[i].at <= clock
  <2>1. \A i \in DOMAIN entries : entries[i].n <= total + 1
    BY <1>2, <1>5
  <2>2. total + 1 <= total + 1 /\ clock <= clock
    OBVIOUS
  <2> QED
    BY <1>1, <1>2, <1>3, <2>1, <2>2
<1>7. OldestFirst(app)
  <2> SUFFICES ASSUME NEW i \in DOMAIN app, NEW j \in DOMAIN app, i < j
               PROVE  app[i].n < app[j].n /\ app[i].at <= app[j].at
    BY DEF OldestFirst
  <2>1. i \in DOMAIN entries
    BY <1>3, <1>4
  <2>2. CASE j \in DOMAIN entries
    BY <1>2, <1>3, <2>1, <2>2 DEF OldestFirst
  <2>3. CASE j = l + 1
    <3>1. entries[i].n < total + 1 /\ entries[i].at <= clock
      BY <1>2, <1>5, <2>1
    <3> QED
      BY <1>1, <1>3, <2>1, <2>3, <3>1
  <2> QED
    BY <1>3, <2>2, <2>3
<1>8. Numbers(app) = Numbers(entries) \cup {total + 1}
  <2>1. {app[i].n : i \in DOMAIN app} = {entries[i].n : i \in DOMAIN entries} \cup {total + 1}
    BY <1>1, <1>3
  <2> QED
    BY <2>1, NumbersAre
<1> QED
  BY <1>3, <1>6, <1>7, <1>8 DEF Row, Sorted, app, l

-----------------------------------------------------------------------------
(* Sums over the histories.                                                 *)
LEMMA HistoriesFinite == IsFiniteSet(Histories)
<1>1. Replayed \in Seq(Histories) /\ Len(Replayed) \in Nat /\ DOMAIN Replayed = 1..Len(Replayed)
  BY HistoryAssumption, LenProperties DEF HistoryAssumption
<1>2. IsFiniteSet(1..Len(Replayed))
  BY <1>1, FS_Interval
<1>3. Replayed \in Surjection(1..Len(Replayed), Histories)
  <2>1. Replayed \in [1..Len(Replayed) -> Histories]
    BY <1>1, LenProperties
  <2>2. \A h \in Histories : \E i \in 1..Len(Replayed) : Replayed[i] = h
    BY <1>1 DEF Histories, ToSet
  <2> QED
    BY <2>1, <2>2 DEF Surjection
<1> QED
  BY <1>2, <1>3, FS_Surjection

Beside(f, k) == UNION {{j} \X (1..f[j]) : j \in Histories \ {k}}

LEMMA UpToSize == ASSUME NEW n \in Nat PROVE IsFiniteSet(1..n) /\ Cardinality(1..n) = n
<1>1. 1 \in Int /\ n \in Int
  OBVIOUS
<1>2. IsFiniteSet(1..n) /\ Cardinality(1..n) = IF 1 > n THEN 0 ELSE n - 1 + 1
  BY <1>1, FS_Interval
<1>3. (IF 1 > n THEN 0 ELSE n - 1 + 1) = n
  OBVIOUS
<1> QED
  BY <1>2, <1>3

LEMMA SumPart ==
    ASSUME NEW f, \A j \in Histories : f[j] \in Nat, NEW k \in Histories
    PROVE  /\ Cardinality(Beside(f, k)) \in Nat
           /\ SumOver(f) = Cardinality(Beside(f, k)) + f[k]
<1> DEFINE cells == UNION {{j} \X (1..f[j]) : j \in Histories}  own == {k} \X (1..f[k])
<1>1. IsFiniteSet(own) /\ Cardinality(own) = f[k]
  <2>1. IsFiniteSet({k}) /\ Cardinality({k}) = 1
    BY FS_Singleton
  <2>2. IsFiniteSet(1..f[k]) /\ Cardinality(1..f[k]) = f[k]
    BY UpToSize
  <2>3. IsFiniteSet(own) /\ Cardinality(own) = Cardinality({k}) * Cardinality(1..f[k])
    BY <2>1, <2>2, FS_Product
  <2> QED
    BY <2>1, <2>2, <2>3
<1>2. IsFiniteSet(Beside(f, k))
  <2> DEFINE S == {{j} \X (1..f[j]) : j \in Histories \ {k}}
  <2>1. IsFiniteSet(Histories \ {k})
    BY HistoriesFinite, FS_Subset
  <2>2. IsFiniteSet(S)
    <3> DEFINE each == [j \in Histories \ {k} |-> {j} \X (1..f[j])]
    <3>1. each \in Surjection(Histories \ {k}, S)
      BY DEF Surjection
    <3> QED
      BY <2>1, <3>1, FS_Surjection
  <2>3. \A T \in S : IsFiniteSet(T)
    <3> SUFFICES ASSUME NEW j \in Histories PROVE IsFiniteSet({j} \X (1..f[j]))
      OBVIOUS
    <3>1. IsFiniteSet({j}) /\ IsFiniteSet(1..f[j])
      BY FS_Singleton, UpToSize
    <3> QED
      BY <3>1, FS_Product
  <2> HIDE DEF S
  <2>4. IsFiniteSet(UNION S)
    BY <2>2, <2>3, FS_UNION
  <2> QED
    BY <2>4 DEF Beside, S
<1>3. cells = Beside(f, k) \cup own /\ Beside(f, k) \cap own = {}
  BY DEF Beside
<1> HIDE DEF own, cells
<1>4. Cardinality(cells) = Cardinality(Beside(f, k)) + f[k]
  <2>1. Cardinality(Beside(f, k) \cup own) = Cardinality(Beside(f, k)) + Cardinality(own) - Cardinality({})
    BY <1>1, <1>2, <1>3, FS_Union
  <2>2. Cardinality({}) = 0 /\ Cardinality(Beside(f, k)) \in Nat
    BY <1>2, FS_EmptySet, FS_CardinalityType
  <2> QED
    BY <1>1, <1>3, <2>1, <2>2
<1> QED
  BY <1>2, <1>4, FS_CardinalityType DEF SumOver, cells

\* A sum when one of its terms changes.
LEMMA SumMoves ==
    ASSUME NEW f, \A j \in Histories : f[j] \in Nat, NEW g, \A j \in Histories : g[j] \in Nat,
           NEW k \in Histories, \A j \in Histories : j # k => g[j] = f[j]
    PROVE  /\ SumOver(f) \in Nat /\ SumOver(g) \in Nat /\ f[k] <= SumOver(f)
           /\ SumOver(g) = SumOver(f) - f[k] + g[k]
<1>1. Beside(g, k) = Beside(f, k)
  BY DEF Beside
<1>2. /\ Cardinality(Beside(f, k)) \in Nat /\ SumOver(f) = Cardinality(Beside(f, k)) + f[k]
      /\ SumOver(g) = Cardinality(Beside(g, k)) + g[k]
  BY SumPart
<1> QED
  BY <1>1, <1>2

LEMMA SumSame ==
    ASSUME NEW f, NEW g, \A j \in Histories : g[j] = f[j]
    PROVE  SumOver(g) = SumOver(f)
<1>1. {{k} \X (1..g[k]) : k \in Histories} = {{k} \X (1..f[k]) : k \in Histories}
  OBVIOUS
<1> QED
  BY <1>1 DEF SumOver

LEMMA SumZero ==
    ASSUME NEW f, \A j \in Histories : f[j] = 0
    PROVE  SumOver(f) = 0
<1>1. UNION {{k} \X (1..f[k]) : k \in Histories} = {}
  BY DEF Histories
<1> QED
  BY <1>1, FS_EmptySet DEF SumOver

\* Histories with entries of their own have no more of them than there are numbers.
LEMMA SumWithin ==
    ASSUME NEW rows, NEW t \in Nat, NEW now,
           \A k \in Histories : Row(rows[k], t, now),
           \A j, k \in Histories : j # k => Numbers(rows[j]) \cap Numbers(rows[k]) = {}
    PROVE  SumOver([k \in Histories |-> Len(rows[k])]) \in Nat
           /\ SumOver([k \in Histories |-> Len(rows[k])]) <= t
<1> DEFINE f == [k \in Histories |-> Len(rows[k])]
           cells == UNION {{k} \X (1..f[k]) : k \in Histories}
           name == [c \in cells |-> rows[c[1]][c[2]].n]
<1>1. ASSUME NEW k \in Histories
      PROVE  /\ f[k] = Len(rows[k]) /\ Len(rows[k]) \in Nat /\ DOMAIN rows[k] = 1..Len(rows[k])
             /\ \A i \in DOMAIN rows[k] : rows[k][i].n \in 1..t /\ rows[k][i].n \in Numbers(rows[k])
             /\ OldestFirst(rows[k])
  <2>1. rows[k] \in Seq(Entry) /\ \A i \in DOMAIN rows[k] : rows[k][i].n <= t
    BY DEF Row, Sorted
  <2>2. /\ Len(rows[k]) \in Nat /\ DOMAIN rows[k] = 1..Len(rows[k])
        /\ \A i \in DOMAIN rows[k] : rows[k][i] \in Entry
    BY <2>1, LenProperties
  <2>3. \A i \in DOMAIN rows[k] : rows[k][i].n \in Nat /\ rows[k][i].n >= 1
    BY <2>2, HistoryAssumption DEF HistoryAssumption, Entry
  <2>4. \A i \in DOMAIN rows[k] : rows[k][i].n \in 1..t
    BY <2>1, <2>3
  <2>5. \A i \in DOMAIN rows[k] : rows[k][i].n \in Numbers(rows[k])
    BY NumbersAre
  <2> QED
    BY <2>2, <2>4, <2>5 DEF Row, Sorted
<1>2. \A c \in cells : /\ c = <<c[1], c[2]>> /\ c[1] \in Histories /\ c[2] \in DOMAIN rows[c[1]]
  BY <1>1
<1>3. name \in [cells -> 1..t]
  BY <1>1, <1>2
<1>4. ASSUME NEW c \in cells, NEW d \in cells, name[c] = name[d] PROVE c = d
  <2>1. rows[c[1]][c[2]].n = rows[d[1]][d[2]].n
    BY <1>4
  <2>2. c[1] = d[1]
    <3>1. /\ rows[c[1]][c[2]].n \in Numbers(rows[c[1]]) /\ rows[d[1]][d[2]].n \in Numbers(rows[d[1]])
          /\ c[1] \in Histories /\ d[1] \in Histories
      BY <1>1, <1>2
    <3> QED
      BY <2>1, <3>1
  <2>3. c[2] = d[2]
    <3>1. c[2] \in Nat /\ d[2] \in Nat
      BY <1>1, <1>2
    <3>2. c[2] < d[2] => rows[c[1]][c[2]].n < rows[c[1]][d[2]].n
      BY <1>1, <1>2, <2>2 DEF OldestFirst
    <3>3. d[2] < c[2] => rows[c[1]][d[2]].n < rows[c[1]][c[2]].n
      BY <1>1, <1>2, <2>2 DEF OldestFirst
    <3>4. rows[c[1]][c[2]].n \in Int /\ rows[c[1]][c[2]].n = rows[c[1]][d[2]].n
      BY <1>1, <1>2, <2>1, <2>2
    <3> QED
      BY <3>1, <3>2, <3>3, <3>4
  <2> QED
    BY <1>2, <2>2, <2>3
<1> HIDE DEF name, cells
<1>5. name \in Injection(cells, 1..t)
  BY <1>3, <1>4 DEF Injection, IsInjective
<1>6. IsFiniteSet(1..t) /\ Cardinality(1..t) = t
  BY UpToSize
<1>7. IsFiniteSet(cells) /\ Cardinality(cells) <= Cardinality(1..t)
  BY <1>5, <1>6, FS_Injection
<1>8. SumOver(f) = Cardinality(cells)
  BY DEF SumOver, cells
<1> QED
  BY <1>6, <1>7, <1>8, FS_CardinalityType

-----------------------------------------------------------------------------
(* What the steps share.                                                    *)
LEMMA HistBasics ==
    ASSUME HistInd
    PROVE  /\ HistTyped /\ Rows /\ Apart /\ CountKept /\ Stored /\ Copied
           /\ total \in Nat /\ total <= MaxEntries /\ clock \in Nat /\ clock <= MaxClock
           /\ {Room, MaxEntries, MaxClock} \subseteq Nat
           /\ ToSet(Saved) \subseteq Histories /\ Len(Saved) \in Nat /\ Len(Replayed) \in Nat
           /\ Len(Replayed) > 0
           /\ \A i \in 1..Len(Saved) : Saved[i] \in ToSet(Saved)
           /\ \A i \in 1..Len(Replayed) : Replayed[i] \in Histories
           /\ DOMAIN Saved = 1..Len(Saved) /\ DOMAIN Replayed = 1..Len(Replayed)
           /\ \A k \in Histories : \E i \in 1..Len(Replayed) : Replayed[i] = k
           /\ \A k \in ToSet(Saved) : \E i \in 1..Len(Saved) : Saved[i] = k
<1>1. /\ Replayed \in Seq(Histories) /\ Saved \in Seq(Histories) /\ Replayed # <<>>
      /\ {Room, MaxEntries, MaxClock} \subseteq Nat
  BY HistoryAssumption DEF HistoryAssumption
<1>2. /\ Len(Saved) \in Nat /\ Len(Replayed) \in Nat
      /\ DOMAIN Saved = 1..Len(Saved) /\ DOMAIN Replayed = 1..Len(Replayed)
      /\ \A i \in 1..Len(Saved) : Saved[i] \in Histories
      /\ \A i \in 1..Len(Replayed) : Replayed[i] \in Histories
  BY <1>1, LenProperties
<1>3. Len(Replayed) > 0
  BY <1>1, <1>2, EmptySeq
<1>4. /\ ToSet(Saved) \subseteq Histories
      /\ \A i \in 1..Len(Saved) : Saved[i] \in ToSet(Saved)
      /\ \A k \in ToSet(Saved) : \E i \in 1..Len(Saved) : Saved[i] = k
  BY <1>2 DEF ToSet
<1>5. \A k \in Histories : \E i \in 1..Len(Replayed) : Replayed[i] = k
  BY <1>2 DEF Histories, ToSet
<1>6. HistTyped /\ Rows /\ Apart /\ CountKept /\ Stored /\ Copied
  BY DEF HistInd
<1>7. total \in Nat /\ total <= MaxEntries /\ clock \in Nat /\ clock <= MaxClock
  BY <1>1, <1>6 DEF HistTyped
<1> QED
  BY <1>1, <1>2, <1>3, <1>4, <1>5, <1>6, <1>7

LEMMA RowLater ==
    ASSUME NEW entries, NEW t \in Nat, NEW now \in Nat, NEW later \in Nat, NEW then \in Nat,
           t <= later, now <= then, Row(entries, t, now)
    PROVE  Row(entries, later, then)
<1>1. entries \in Seq(Entry)
  BY DEF Row, Sorted
<1>2. \A i \in DOMAIN entries : entries[i] \in Entry
  BY <1>1, LenProperties
<1>3. \A i \in DOMAIN entries : entries[i].n \in Int /\ entries[i].at \in Int
  BY <1>2, HistoryAssumption DEF HistoryAssumption, Entry
<1>4. \A i \in DOMAIN entries : entries[i].n <= t /\ entries[i].at <= now
  BY DEF Row
<1>5. \A i \in DOMAIN entries : entries[i].n <= later /\ entries[i].at <= then
  BY <1>3, <1>4
<1> QED
  BY <1>5 DEF Row

LEMMA RowNumbers ==
    ASSUME NEW entries, NEW t \in Nat, NEW now, Row(entries, t, now)
    PROVE  /\ Numbers(entries) \subseteq 1..t /\ Len(entries) \in Nat
           /\ entries \in Seq(Entry) /\ Sorted(entries)
<1>1. entries \in Seq(Entry) /\ Sorted(entries)
  BY DEF Row, Sorted
<1>2. Len(entries) \in Nat /\ \A i \in DOMAIN entries : entries[i] \in Entry
  BY <1>1, LenProperties
<1>3. \A i \in DOMAIN entries : entries[i].n \in 1..t
  <2>1. \A i \in DOMAIN entries : entries[i].n \in Int /\ entries[i].n >= 1
    BY <1>2, HistoryAssumption DEF HistoryAssumption, Entry
  <2>2. \A i \in DOMAIN entries : entries[i].n <= t
    BY DEF Row
  <2> QED
    BY <2>1, <2>2
<1>4. Numbers(entries) \subseteq 1..t
  BY <1>3, NumbersAre
<1> QED
  BY <1>1, <1>2, <1>4

LEMMA KinKnown ==
    ASSUME HistInd
    PROVE  /\ \A k \in Histories : Kin(k) \subseteq 1..total /\ Numbers(hist[k]) \subseteq 1..total
           /\ \A k \in Histories : Len(hist[k]) \in Nat
<1>1. Rows /\ total \in Nat
  BY HistBasics
<1>2. \A k \in Histories : Numbers(hist[k]) \subseteq 1..total /\ Len(hist[k]) \in Nat
  BY <1>1, RowNumbers DEF Rows
<1>3. \A k \in ToSet(Saved) : Numbers(db[k]) \subseteq 1..total /\ Numbers(file[k]) \subseteq 1..total
  BY <1>1, RowNumbers DEF Rows
<1> QED
  BY <1>2, <1>3 DEF Kin

\* Time and numbers go on, and nothing moves.
LEMMA RowsStay ==
    ASSUME HistInd, UNCHANGED <<hist, db, file>>, total' \in Nat, total <= total',
           clock' \in Nat, clock <= clock'
    PROVE  Rows'
<1>1. Rows /\ total \in Nat /\ clock \in Nat
  BY HistBasics
<1>2. \A k \in Histories : Row(hist[k], total', clock')
  BY <1>1, RowLater DEF Rows
<1>3. \A k \in ToSet(Saved) : Row(db[k], total', clock') /\ Row(file[k], total', clock')
  BY <1>1, RowLater DEF Rows
<1> QED
  BY <1>1, <1>2, <1>3 DEF Rows

LEMMA ApartStays ==
    ASSUME Apart, \A k \in Histories : Kin(k)' \subseteq Kin(k)
    PROVE  Apart'
BY DEF Apart

LEMMA CountStays ==
    ASSUME CountKept, UNCHANGED <<hist, count, owed, total, loaded>>
    PROVE  CountKept'
<1>1. Lengths' = Lengths /\ Debts' = Debts
  BY DEF Lengths, Debts
<1>2. SumOver(Lengths)' = SumOver(Lengths) /\ SumOver(Debts)' = SumOver(Debts)
  BY <1>1
<1>3. CountAccurate <=> IF loaded THEN count <= SumOver(Lengths) + SumOver(Debts)
                        ELSE count = SumOver(Lengths) + SumOver(Debts)
  BY DEF CountAccurate, Lengths, Debts
<1>4. CountAccurate' <=> IF loaded THEN count <= SumOver(Lengths) + SumOver(Debts)
                         ELSE count = SumOver(Lengths) + SumOver(Debts)
  BY <1>2 DEF CountAccurate, Lengths, Debts
<1> QED
  BY <1>2, <1>3, <1>4 DEF CountKept

LEMMA WithinMore ==
    ASSUME NEW e \in Nat, NEW d \in Nat, NEW old \in Nat, NEW new \in Nat, NEW t \in Nat, NEW later \in Nat,
           e + d <= t, new <= old + (later - t)
    PROVE  e + d + (new - old) <= later
OBVIOUS

\* A history is changed under its lock: the count follows, at once or by a debt.
LEMMA PutKeeps ==
    ASSUME HistInd, NEW k \in Histories, NEW entries, Put(k, entries),
           total' \in Nat, total <= total', UNCHANGED <<clock, loaded>>,
           Row(entries, total', clock), Len(entries) <= Room,
           Len(entries) <= Len(hist[k]) + (total' - total)
    PROVE  /\ hist' \in [Histories -> Seq(Entry)] /\ hist' = [hist EXCEPT ![k] = entries]
           /\ \A j \in Histories : Row(hist'[j], total', clock') /\ Len(hist'[j]) <= Room
           /\ owed' \in [Histories -> [delta : 0..total', seen : -1..total']]
           /\ CountKept'
<1> DEFINE grown == Len(entries) - Len(hist[k])
           E == SumOver(Lengths)  D == SumOver(Debts)
<1>1. /\ HistTyped /\ Rows /\ CountKept /\ total \in Nat /\ clock \in Nat
      /\ \A j \in Histories : Len(hist[j]) \in Nat
  BY HistBasics, KinKnown
<1>2. /\ hist' = [hist EXCEPT ![k] = entries] /\ owed[k] = Nothing
      /\ count' = IF grown > 0 THEN count + grown ELSE count
      /\ owed' = IF grown < 0 THEN [owed EXCEPT ![k].delta = -grown] ELSE owed
  BY DEF Put, Unlocked
<1>3. entries \in Seq(Entry) /\ Len(entries) \in Nat
  BY RowNumbers
<1>4. /\ hist' \in [Histories -> Seq(Entry)] /\ hist'[k] = entries
      /\ \A j \in Histories : j # k => hist'[j] = hist[j]
  BY <1>1, <1>2, <1>3 DEF HistTyped
<1>5. \A j \in Histories : Row(hist'[j], total', clock') /\ Len(hist'[j]) <= Room
  <2> SUFFICES ASSUME NEW j \in Histories PROVE Row(hist'[j], total', clock') /\ Len(hist'[j]) <= Room
    OBVIOUS
  <2>1. CASE j = k
    BY <1>4, <2>1
  <2>2. CASE j # k
    <3>1. Row(hist[j], total, clock) /\ Len(hist[j]) <= Room
      BY <1>1 DEF Rows
    <3>2. clock <= clock
      BY <1>1
    <3>3. Row(hist[j], total', clock)
      BY <1>1, <3>1, <3>2, RowLater
    <3> QED
      BY <1>4, <2>2, <3>1, <3>3
  <2> QED
    BY <2>1, <2>2
<1>6. /\ \A j \in Histories : Lengths[j] = Len(hist[j]) /\ Lengths'[j] = Len(hist'[j])
      /\ \A j \in Histories : Debts[j] = owed[j].delta /\ Debts'[j] = owed'[j].delta
  BY DEF Lengths, Debts
<1>7. /\ \A j \in Histories : Lengths[j] \in Nat /\ Lengths'[j] \in Nat
      /\ \A j \in Histories : j # k => Lengths'[j] = Lengths[j]
  <2>1. \A j \in Histories : Len(hist'[j]) \in Nat /\ (j # k => Len(hist'[j]) = Len(hist[j]))
    BY <1>1, <1>3, <1>4
  <2> QED
    BY <1>1, <1>6, <2>1
<1>8. /\ E \in Nat /\ Len(hist[k]) <= E
      /\ SumOver(Lengths)' = E - Len(hist[k]) + Len(entries)
  <2>1. /\ SumOver(Lengths) \in Nat /\ Lengths[k] <= SumOver(Lengths)
        /\ SumOver(Lengths') = SumOver(Lengths) - Lengths[k] + Lengths'[k]
    BY <1>7, SumMoves
  <2> QED
    BY <1>4, <1>6, <2>1
<1>9. \A j \in Histories : owed[j] \in [delta : 0..total, seen : -1..total]
  BY <1>1 DEF HistTyped
<1>10. Debts[k] = 0 /\ \A j \in Histories : Debts[j] \in Nat
  BY <1>2, <1>6, <1>9 DEF Nothing
<1>11. D \in Nat
  <2>1. \A j \in Histories : j # k => Debts[j] = Debts[j]
    OBVIOUS
  <2> QED
    BY <1>10, <2>1, SumMoves
<1>12. /\ count \in Nat /\ E + D <= total
       /\ IF loaded THEN count <= E + D ELSE count = E + D
  BY <1>1 DEF CountKept, CountAccurate, Lengths, Debts
<1>13. CountAccurate' <=> IF loaded THEN count' <= SumOver(Lengths)' + SumOver(Debts)'
                          ELSE count' = SumOver(Lengths)' + SumOver(Debts)'
  <2>1. CountAccurate' <=> IF loaded' THEN count' <= SumOver(Lengths)' + SumOver(Debts)'
                          ELSE count' = SumOver(Lengths)' + SumOver(Debts)'
    BY DEF CountAccurate, Lengths, Debts
  <2> QED
    BY <2>1
<1>14. 0..total \subseteq 0..total' /\ -1..total \subseteq -1..total'
  BY <1>1
<1>15. CASE grown >= 0
  <2>1. owed' = owed /\ count' = count + grown
    BY <1>1, <1>2, <1>3, <1>12, <1>15
  <2>2. SumOver(Debts)' = D
    BY <2>1 DEF Debts
  <2>3. owed' \in [Histories -> [delta : 0..total', seen : -1..total']]
    BY <1>1, <1>14, <2>1 DEF HistTyped
  <2> HIDE DEF E, D
  <2>4. /\ count' \in Nat /\ SumOver(Lengths)' + SumOver(Debts)' <= total'
        /\ IF loaded THEN count' <= SumOver(Lengths)' + SumOver(Debts)'
           ELSE count' = SumOver(Lengths)' + SumOver(Debts)'
    <3> DEFINE old == Len(hist[k])  new == Len(entries)
    <3>1. old \in Nat /\ new \in Nat /\ new >= old /\ new <= old + (total' - total)
      BY <1>1, <1>3, <1>15
    <3>2. /\ SumOver(Lengths)' = E - old + new /\ SumOver(Debts)' = D /\ count' = count + (new - old)
          /\ E \in Nat /\ D \in Nat /\ count \in Nat /\ E + D <= total /\ old <= E
          /\ IF loaded THEN count <= E + D ELSE count = E + D
      BY <1>8, <1>11, <1>12, <2>1, <2>2
    <3> HIDE DEF old, new
    <3>3. new - old \in Nat /\ count' = count + (new - old) /\ count' \in Nat
      BY <3>1, <3>2
    <3>4. SumOver(Lengths)' + SumOver(Debts)' = E + D + (new - old)
      BY <3>1, <3>2
    <3>5. E + D + (new - old) <= total'
      <4>1. total \in Nat /\ total' \in Nat
        BY <1>1
      <4> QED
        BY <3>1, <3>2, <4>1, WithinMore
    <3>6. IF loaded THEN count' <= E + D + (new - old) ELSE count' = E + D + (new - old)
      BY <3>2, <3>3
    <3> QED
      BY <3>3, <3>4, <3>5, <3>6
  <2> QED
    BY <1>2, <1>4, <1>5, <1>13, <2>3, <2>4 DEF CountKept
<1>16. CASE grown < 0
  <2>1. owed' = [owed EXCEPT ![k].delta = -grown] /\ count' = count
    BY <1>1, <1>2, <1>3, <1>16
  <2>2. -grown \in 0..total /\ -grown = Len(hist[k]) - Len(entries)
    <3> HIDE DEF E, D
    <3> QED
      BY <1>1, <1>3, <1>8, <1>11, <1>12, <1>16
  <2>3. /\ owed' \in [Histories -> [delta : 0..total, seen : -1..total]]
        /\ owed'[k].delta = -grown /\ \A j \in Histories : j # k => owed'[j] = owed[j]
    BY <1>1, <1>9, <2>1, <2>2 DEF HistTyped
  <2>4. owed' \in [Histories -> [delta : 0..total', seen : -1..total']]
    BY <1>14, <2>3
  <2>5. /\ \A j \in Histories : Debts'[j] \in Nat /\ (j # k => Debts'[j] = Debts[j])
        /\ Debts'[k] = -grown
    BY <1>6, <2>3
  <2>6. SumOver(Debts)' = D - grown
    <3>1. SumOver(Debts') = SumOver(Debts) - Debts[k] + Debts'[k]
      BY <1>10, <2>5, SumMoves
    <3> HIDE DEF D
    <3>2. SumOver(Debts') = D - 0 + (-grown)
      BY <1>10, <2>5, <3>1 DEF D
    <3> QED
      BY <1>1, <1>3, <1>11, <3>2
  <2> HIDE DEF E, D
  <2>7. /\ count' \in Nat /\ SumOver(Lengths)' + SumOver(Debts)' <= total'
        /\ IF loaded THEN count' <= SumOver(Lengths)' + SumOver(Debts)'
           ELSE count' = SumOver(Lengths)' + SumOver(Debts)'
    <3> DEFINE old == Len(hist[k])  new == Len(entries)
    <3>1. old \in Nat /\ new \in Nat
      BY <1>1, <1>3
    <3>2. /\ SumOver(Lengths)' = E - old + new /\ SumOver(Debts)' = D - (new - old) /\ count' = count
          /\ E \in Nat /\ D \in Nat /\ count \in Nat /\ E + D <= total
          /\ IF loaded THEN count <= E + D ELSE count = E + D
      BY <1>8, <1>11, <1>12, <2>1, <2>6
    <3> HIDE DEF old, new
    <3> QED
      BY <1>1, <3>1, <3>2
  <2> QED
    BY <1>2, <1>4, <1>5, <1>13, <2>4, <2>7 DEF CountKept
<1>17. grown >= 0 \/ grown < 0
  BY <1>1, <1>3
<1> HIDE DEF grown, E, D
<1> QED
  BY <1>15, <1>16, <1>17

LEMMA TakeOffCounts ==
    ASSUME HistInd, NEW k \in Histories, TakeOff(k)
    PROVE  owed' \in [Histories -> [delta : 0..total, seen : -1..total]] /\ CountKept'
<1> DEFINE E == SumOver(Lengths)  D == SumOver(Debts)
<1>1. /\ HistTyped /\ CountKept /\ total \in Nat /\ \A j \in Histories : Len(hist[j]) \in Nat
      /\ UNCHANGED <<hist, loaded, total>>
  BY HistBasics, KinKnown DEF TakeOff, storeVars
<1>2. \A j \in Histories : owed[j] \in [delta : 0..total, seen : -1..total]
  BY <1>1 DEF HistTyped
<1>3. \A j \in Histories : Debts[j] = owed[j].delta /\ Debts'[j] = owed'[j].delta
  BY DEF Debts
<1>4. \A j \in Histories : Debts[j] \in Nat
  BY <1>2, <1>3
<1>5. D \in Nat /\ Debts[k] <= D
  <2>1. \A j \in Histories : j # k => Debts[j] = Debts[j]
    OBVIOUS
  <2> QED
    BY <1>4, <2>1, SumMoves
<1>6. E \in Nat
  <2>1. \A j \in Histories : Lengths[j] \in Nat /\ (j # k => Lengths[j] = Lengths[j])
    BY <1>1 DEF Lengths
  <2> QED
    BY <2>1, SumMoves
<1>7. /\ count \in Nat /\ E + D <= total
      /\ IF loaded THEN count <= E + D ELSE count = E + D
  BY <1>1 DEF CountKept, CountAccurate, Lengths, Debts
<1>8. CountAccurate' <=> IF loaded THEN count' <= SumOver(Lengths)' + SumOver(Debts)'
                         ELSE count' = SumOver(Lengths)' + SumOver(Debts)'
  <2>1. CountAccurate' <=> IF loaded' THEN count' <= SumOver(Lengths)' + SumOver(Debts)'
                          ELSE count' = SumOver(Lengths)' + SumOver(Debts)'
    BY DEF CountAccurate, Lengths, Debts
  <2> QED
    BY <1>1, <2>1
<1>9. SumOver(Lengths)' = E
  BY <1>1 DEF Lengths
<1>10. CASE owed[k].seen = count
  <2>1. /\ count' = IF count > owed[k].delta THEN count - owed[k].delta ELSE 0
        /\ owed' = [owed EXCEPT ![k] = Nothing]
    BY <1>10 DEF TakeOff
  <2>2. Nothing \in [delta : 0..total, seen : -1..total]
    BY <1>1 DEF Nothing
  <2>3. /\ owed' \in [Histories -> [delta : 0..total, seen : -1..total]]
        /\ owed'[k] = Nothing /\ \A j \in Histories : j # k => owed'[j] = owed[j]
    BY <1>1, <2>1, <2>2 DEF HistTyped
  <2>4. Debts'[k] = 0 /\ \A j \in Histories : Debts'[j] \in Nat /\ (j # k => Debts'[j] = Debts[j])
    BY <1>3, <2>3 DEF Nothing
  <2>5. SumOver(Debts') = SumOver(Debts) - Debts[k] + Debts'[k]
    BY <1>4, <2>4, SumMoves
  <2> DEFINE d == owed[k].delta
  <2>6. d = Debts[k] /\ d \in Nat
    BY <1>3, <1>4
  <2> HIDE DEF E, D, d
  <2>7. SumOver(Debts)' = D - d /\ d <= D
    <3>1. SumOver(Debts') = D - d + 0
      BY <2>4, <2>5, <2>6 DEF D
    <3> QED
      BY <1>5, <2>6, <3>1
  <2>8. count' = IF count > d THEN count - d ELSE 0
    BY <2>1 DEF d
  <2>9. /\ count' \in Nat /\ SumOver(Lengths)' + SumOver(Debts)' <= total'
        /\ IF loaded THEN count' <= SumOver(Lengths)' + SumOver(Debts)'
           ELSE count' = SumOver(Lengths)' + SumOver(Debts)'
    <3>1. /\ E \in Nat /\ D \in Nat /\ count \in Nat /\ total \in Nat /\ E + D <= total /\ d \in Nat /\ d <= D
          /\ SumOver(Lengths)' = E /\ SumOver(Debts)' = D - d
      BY <1>1, <1>5, <1>6, <1>7, <1>9, <2>6, <2>7
    <3>2. count' \in Nat /\ (count > d => count' = count - d) /\ (count <= d => count' = 0)
      BY <2>8, <3>1
    <3>3. E + (D - d) <= total /\ E + (D - d) \in Nat
      BY <3>1
    <3>4. IF loaded THEN count' <= E + (D - d) ELSE count' = E + (D - d)
      <4>1. CASE count > d
        BY <1>7, <3>1, <3>2, <4>1
      <4>2. CASE count <= d
        BY <1>7, <3>1, <3>2, <3>3, <4>2
      <4> QED
        BY <3>1, <4>1, <4>2
    <3>5. SumOver(Lengths)' + SumOver(Debts)' = E + (D - d)
      BY <3>1
    <3> QED
      BY <1>1, <3>2, <3>3, <3>4, <3>5
  <2> QED
    BY <1>8, <2>3, <2>9 DEF CountKept
<1>11. CASE owed[k].seen # count
  <2>1. owed' = [owed EXCEPT ![k].seen = count] /\ count' = count
    BY <1>11 DEF TakeOff
  <2>2. count \in -1..total
    <3> HIDE DEF E, D
    <3> QED
      BY <1>1, <1>5, <1>6, <1>7
  <2>3. /\ owed' \in [Histories -> [delta : 0..total, seen : -1..total]]
        /\ \A j \in Histories : owed'[j].delta = owed[j].delta
    BY <1>1, <1>2, <2>1, <2>2 DEF HistTyped
  <2>4. SumOver(Debts)' = D
    BY <2>3 DEF Debts
  <2> HIDE DEF E, D
  <2> QED
    BY <1>1, <1>7, <1>8, <1>9, <2>1, <2>3, <2>4 DEF CountKept
<1> QED
  BY <1>10, <1>11

LEMMA MarksLast ==
    ASSUME HistInd, total' \in Nat, total <= total'
    PROVE  \A m \in Mark : m \in Mark'
<1>1. total \in Nat
  BY HistBasics
<1>2. 1..total \subseteq 1..total'
  BY <1>1
<1>3. SUBSET (1..total) \subseteq SUBSET (1..total')
  BY <1>2
<1> QED
  BY <1>3 DEF Mark

\* The store, while histories lose entries or get the next one.
LEMMA StoredStays ==
    ASSUME HistInd, total' \in Nat, total <= total', UNCHANGED <<db, file, flush>>,
           \A k \in Histories : Numbers(hist'[k]) \subseteq Numbers(hist[k]) \cup {total + 1},
           marks'.done = marks.done, marks'.begun = marks.begun,
           marks' \in [done : Mark', begun : Mark', now : Mark'],
           \A k \in Histories : Numbers(hist'[k]) \cap marks'.now.dead = {}
    PROVE  Stored'
<1>1. /\ Stored /\ total \in Nat /\ ToSet(Saved) \subseteq Histories /\ HistTyped
      /\ Len(Saved) \in Nat /\ \A i \in 1..Len(Saved) : Saved[i] \in ToSet(Saved)
  BY HistBasics
<1>2. total + 1 \notin 1..total
  BY <1>1
<1>3. /\ marks.done \in Mark /\ marks.begun \in Mark
  BY <1>1 DEF Stored
<1>4. /\ total + 1 \notin marks.done.live /\ total + 1 \notin marks.done.dead
      /\ total + 1 \notin marks.begun.live /\ total + 1 \notin marks.begun.dead
  BY <1>2, <1>3 DEF Mark
<1>5. \A i \in 1..(flush - 1) : Saved[i] \in Histories
  <2>1. flush \in 0..(Len(Saved) + 1)
    BY <1>1 DEF HistTyped
  <2>2. 1..(flush - 1) \subseteq 1..Len(Saved)
    BY <1>1, <2>1
  <2> QED
    BY <1>1, <2>2
<1>6. \A k \in ToSet(Saved) : Numbers(hist'[k]) \cap marks.done.live \subseteq Numbers(file[k])
  <2>1. \A k \in ToSet(Saved) : Numbers(hist[k]) \cap marks.done.live \subseteq Numbers(file[k])
    BY <1>1 DEF Stored, StoreFaithful
  <2> QED
    BY <1>1, <1>4, <2>1
<1>7. \A k \in Histories : Numbers(hist'[k]) \cap marks.done.dead = {}
  <2>1. \A k \in Histories : Numbers(hist[k]) \cap marks.done.dead = {}
    BY <1>1 DEF Stored, StoreFaithful
  <2> QED
    BY <1>4, <2>1
<1>8. \A k \in ToSet(Saved) : Numbers(file[k]) \cap marks.done.dead = {}
  BY <1>1 DEF Stored, StoreFaithful
<1>9. flush # 0 => \A k \in Histories : Numbers(hist'[k]) \cap marks.begun.dead = {}
  <2>1. flush # 0 => \A k \in Histories : Numbers(hist[k]) \cap marks.begun.dead = {}
    BY <1>1 DEF Stored
  <2> QED
    BY <1>4, <2>1
<1>10. \A i \in 1..(flush - 1) :
          /\ Numbers(db[Saved[i]]) \cap marks.begun.dead = {}
          /\ Numbers(hist'[Saved[i]]) \cap marks.begun.live \subseteq Numbers(db[Saved[i]])
  <2>1. \A i \in 1..(flush - 1) :
          /\ Numbers(db[Saved[i]]) \cap marks.begun.dead = {}
          /\ Numbers(hist[Saved[i]]) \cap marks.begun.live \subseteq Numbers(db[Saved[i]])
    BY <1>1 DEF Stored
  <2> QED
    BY <1>4, <1>5, <2>1
<1>11. StoreFaithful'
  BY <1>6, <1>7, <1>8 DEF StoreFaithful
<1> QED
  BY <1>9, <1>10, <1>11 DEF Stored

LEMMA CopiedStays ==
    ASSUME HistInd, UNCHANGED <<client, skipped>>,
           \A k \in Histories : /\ Numbers(hist'[k]) \subseteq Numbers(hist[k]) \cup {sending'[k]}
                                /\ sending'[k] = sending[k] \/ sending[k] = 0
    PROVE  Copied'
<1>1. Copied /\ HistTyped /\ Len(Replayed) \in Nat /\ \A i \in 1..Len(Replayed) : Replayed[i] \in Histories
      /\ total \in Nat
  BY HistBasics
<1>2. client.next \in 1..(Len(Replayed) + 1)
  BY <1>1 DEF HistTyped
<1>3. 1..(client.next - 1) \subseteq 1..Len(Replayed)
  BY <1>1, <1>2
<1>4. \A k \in Histories : 0 \notin Numbers(hist[k])
  <2>1. 0 \notin 1..total
    BY <1>1
  <2> QED
    BY <2>1, KinKnown
<1>5. ASSUME client.at # "gone", NEW i \in 1..(client.next - 1)
      PROVE  Numbers(hist'[Replayed[i]]) \subseteq client.got \cup skipped \cup {sending'[Replayed[i]]}
  <2> DEFINE k == Replayed[i]
  <2>1. k \in Histories
    BY <1>1, <1>3
  <2>2. Numbers(hist[k]) \subseteq client.got \cup skipped \cup {sending[k]}
    BY <1>1, <1>5 DEF Copied
  <2> HIDE DEF k
  <2>3. Numbers(hist'[k]) \subseteq client.got \cup skipped \cup {sending'[k]}
    BY <1>4, <2>1, <2>2
  <2> QED
    BY <2>3 DEF k
<1> QED
  BY <1>1, <1>5 DEF Copied

LEMMA KinLess ==
    ASSUME UNCHANGED <<db, file>>, \A k \in Histories : Numbers(hist'[k]) \subseteq Numbers(hist[k])
    PROVE  \A k \in Histories : Kin(k)' \subseteq Kin(k)
<1> SUFFICES ASSUME NEW k \in Histories PROVE Kin(k)' \subseteq Kin(k)
  OBVIOUS
<1>1. Numbers(hist[k])' = Numbers(hist'[k])
  BY NumbersAre
<1> QED
  BY <1>1 DEF Kin

\* A step that leaves histories and store alone.
LEMMA AsideSteps ==
    ASSUME HistInd, UNCHANGED <<hist, db, file, flush, marks, total, loaded>>,
           clock' \in 0..MaxClock, clock <= clock',
           owed' \in [Histories -> [delta : 0..total, seen : -1..total]], CountKept',
           sending' \in [Histories -> 0..total],
           client' \in [at : {"gone", "replay", "subscribe", "live"}, next : 1..(Len(Replayed) + 1),
                        got : SUBSET Nat],
           Copied'
    PROVE  HistInd'
<1>1. HistTyped /\ Rows /\ Apart /\ Stored /\ total \in Nat /\ total <= total /\ MaxClock \in Nat
      /\ Histories = Histories
  BY HistBasics
<1>2. HistTyped'
  BY <1>1 DEF HistTyped
<1>3. Rows'
  <2>1. clock' \in Nat
    BY <1>1
  <2> QED
    BY <1>1, <2>1, RowsStay
<1>4. Apart'
  <2>1. \A k \in Histories : Kin(k)' \subseteq Kin(k)
    BY DEF Kin
  <2> QED
    BY <1>1, <2>1, ApartStays
<1>5. Stored'
  BY <1>1 DEF Stored, StoreFaithful, Mark
<1> QED
  BY <1>2, <1>3, <1>4, <1>5 DEF HistInd

-----------------------------------------------------------------------------
(* The steps.                                                               *)
LEMMA HistStarts == HistoryInit => HistInd
<1> SUFFICES ASSUME HistoryInit PROVE HistInd
  OBVIOUS
<1> DEFINE none == [live |-> {}, dead |-> {}]
<1>1. /\ clock = 0 /\ total = 0 /\ count = 0
      /\ hist = [k \in Histories |-> <<>>] /\ owed = [k \in Histories |-> Nothing]
      /\ sending = [k \in Histories |-> 0]
      /\ db = [k \in ToSet(Saved) |-> <<>>] /\ file = db /\ flush = 0 /\ client = Gone
      /\ loaded = FALSE /\ skipped = {}
      /\ marks = [done |-> none, begun |-> none, now |-> none]
  BY DEF HistoryInit
<1>2. /\ {Room, MaxEntries, MaxClock} \subseteq Nat /\ Len(Saved) \in Nat /\ Len(Replayed) \in Nat
  BY HistoryAssumption, LenProperties DEF HistoryAssumption
<1>3. <<>> \in Seq(Entry) /\ Len(<<>>) = 0 /\ DOMAIN <<>> = {} /\ Numbers(<<>>) = {}
  BY EmptySeq, NumbersAre
<1>4. HistTyped
  <2>1. 0 \in 0..MaxClock /\ 0 \in 0..MaxEntries /\ 0 \in 0..(Len(Saved) + 1)
    BY <1>2
  <2>2. Nothing \in [delta : 0..total, seen : -1..total]
    BY <1>1 DEF Nothing
  <2>3. client \in [at : {"gone", "replay", "subscribe", "live"}, next : 1..(Len(Replayed) + 1),
                    got : SUBSET Nat]
    BY <1>1, <1>2 DEF Gone
  <2>4. owed \in [Histories -> [delta : 0..total, seen : -1..total]]
        /\ sending \in [Histories -> 0..total]
    BY <1>1, <2>2
  <2>5. hist \in [Histories -> Seq(Entry)] /\ db \in [ToSet(Saved) -> Seq(Entry)]
        /\ file \in [ToSet(Saved) -> Seq(Entry)]
    BY <1>1, <1>3
  <2> QED
    BY <1>1, <2>1, <2>3, <2>4, <2>5 DEF HistTyped
<1>5. Rows
  <2>1. Row(<<>>, total, clock)
    BY <1>3 DEF Row, Sorted, OldestFirst
  <2> QED
    BY <1>1, <1>2, <1>3, <2>1 DEF Rows
<1>6. \A k \in Histories : Kin(k) = {}
  BY <1>1, <1>3 DEF Kin
<1>7. CountKept
  <2>1. \A k \in Histories : Lengths[k] = 0 /\ Debts[k] = 0
    BY <1>1, <1>3 DEF Lengths, Debts, Nothing
  <2>2. SumOver(Lengths) = 0 /\ SumOver(Debts) = 0
    BY <2>1, SumZero
  <2> QED
    BY <1>1, <2>2 DEF CountKept, CountAccurate, Lengths, Debts
<1>8. Stored
  <2>1. marks \in [done : Mark, begun : Mark, now : Mark]
    BY <1>1 DEF Mark
  <2>2. 1..(flush - 1) = {}
    BY <1>1
  <2>3. /\ marks.done = none /\ marks.now = none
        /\ \A k \in Histories : Numbers(hist[k]) = {} /\ \A j \in ToSet(Saved) : Numbers(file[j]) = {}
    BY <1>1, <1>3
  <2>4. none.live = {} /\ none.dead = {}
    OBVIOUS
  <2> HIDE DEF none
  <2>5. StoreFaithful
    BY <1>1, <1>3, <2>3, <2>4 DEF StoreFaithful
  <2> QED
    BY <1>1, <2>1, <2>2, <2>3, <2>4, <2>5 DEF Stored
<1>9. Copied
  BY <1>1 DEF Copied, Gone
<1> QED
  BY <1>4, <1>5, <1>6, <1>7, <1>8, <1>9 DEF HistInd, Apart

LEMMA TakeOffKeeps == ASSUME HistInd, NEW k \in Histories, TakeOff(k) PROVE HistInd'
<1>1. /\ UNCHANGED <<clock, hist, sending, client, total, skipped, marks, db, file, flush, loaded>>
      /\ HistTyped /\ clock \in Nat
  BY HistBasics DEF TakeOff, storeVars
<1>2. Copied'
  <2>1. \A j \in Histories : Numbers(hist'[j]) \subseteq Numbers(hist[j]) \cup {sending'[j]}
    BY <1>1
  <2> QED
    BY <1>1, <2>1, CopiedStays
<1>3. clock' \in 0..MaxClock /\ clock <= clock' /\ sending' \in [Histories -> 0..total]
      /\ client' \in [at : {"gone", "replay", "subscribe", "live"}, next : 1..(Len(Replayed) + 1),
                        got : SUBSET Nat]
  BY <1>1 DEF HistTyped
<1> QED
  BY <1>1, <1>2, <1>3, AsideSteps, TakeOffCounts

LEMMA SendKeeps == ASSUME HistInd, NEW k \in Histories, Send(k) PROVE HistInd'
<1>1. /\ UNCHANGED <<clock, hist, count, owed, total, marks, db, file, flush, loaded>>
      /\ HistTyped /\ clock \in Nat /\ total \in Nat /\ CountKept /\ Copied
      /\ sending' = [sending EXCEPT ![k] = 0]
      /\ client' = IF client.at = "live" THEN [client EXCEPT !.got = @ \cup {sending[k]}] ELSE client
      /\ skipped' = IF client.at \in {"replay", "subscribe"} THEN skipped \cup {sending[k]} ELSE skipped
  BY HistBasics DEF Send, storeVars
<1>2. /\ sending' \in [Histories -> 0..total] /\ sending[k] \in Nat
      /\ \A j \in Histories : j # k => sending'[j] = sending[j]
  BY <1>1 DEF HistTyped
<1>3. client' \in [at : {"gone", "replay", "subscribe", "live"}, next : 1..(Len(Replayed) + 1),
                   got : SUBSET Nat]
      /\ client'.at = client.at /\ client'.next = client.next
  BY <1>1, <1>2 DEF HistTyped
<1>4. client.got \subseteq client'.got /\ skipped \subseteq skipped'
  BY <1>1 DEF HistTyped
<1>5. client.at # "gone" => sending[k] \in client'.got \cup skipped'
  BY <1>1 DEF HistTyped
<1>6. ASSUME client.at # "gone", NEW i \in 1..(client.next - 1)
      PROVE  Numbers(hist[Replayed[i]]) \subseteq client'.got \cup skipped' \cup {sending'[Replayed[i]]}
  <2>1. Numbers(hist[Replayed[i]]) \subseteq client.got \cup skipped \cup {sending[Replayed[i]]}
    BY <1>1, <1>6 DEF Copied
  <2>2. Replayed[i] \in Histories
    <3>1. i \in 1..Len(Replayed)
      <4>1. Len(Replayed) \in Nat /\ client.next \in 1..(Len(Replayed) + 1)
        BY <1>1, HistBasics DEF HistTyped
      <4> QED
        BY <4>1
    <3> QED
      BY <3>1, HistBasics
  <2> QED
    BY <1>2, <1>4, <1>5, <1>6, <2>1, <2>2
<1>7. Copied'
  BY <1>1, <1>3, <1>6 DEF Copied
<1>8. CountKept'
  BY <1>1, CountStays
<1>9. clock' \in 0..MaxClock /\ clock <= clock' /\ owed' \in [Histories -> [delta : 0..total, seen : -1..total]]
  BY <1>1 DEF HistTyped
<1> QED
  BY <1>1, <1>2, <1>3, <1>7, <1>8, <1>9, AsideSteps

\* Time passes; a client connects, subscribes or leaves.
LEMMA ClientSteps ==
    ASSUME HistInd, Passes \/ Connect \/ Subscribe \/ Leave
    PROVE  HistInd'
<1>1. /\ UNCHANGED <<hist, count, owed, sending, total, marks, db, file, flush, loaded>>
      /\ HistTyped /\ clock \in Nat /\ total \in Nat /\ CountKept /\ Copied /\ MaxClock \in Nat
      /\ Len(Replayed) \in Nat /\ Len(Replayed) > 0 /\ DOMAIN Replayed = 1..Len(Replayed)
  BY HistBasics DEF Passes, Connect, Subscribe, Leave, storeVars
<1>2. clock' \in 0..MaxClock /\ clock <= clock'
  BY <1>1 DEF Passes, Connect, Subscribe, Leave, HistTyped
<1>3. owed' \in [Histories -> [delta : 0..total, seen : -1..total]] /\ sending' \in [Histories -> 0..total]
  BY <1>1 DEF HistTyped
<1>4. 1 \in 1..(Len(Replayed) + 1) /\ 1 \in DOMAIN Replayed /\ 1..(1 - 1) = {}
  BY <1>1
<1>5. client \in [at : {"gone", "replay", "subscribe", "live"}, next : 1..(Len(Replayed) + 1),
                  got : SUBSET Nat]
  BY <1>1 DEF HistTyped
<1>6. /\ client' \in [at : {"gone", "replay", "subscribe", "live"}, next : 1..(Len(Replayed) + 1),
                      got : SUBSET Nat]
      /\ Copied'
  <2>1. CASE Passes
    BY <1>1, <1>5, <2>1 DEF Passes, Copied
  <2>2. CASE Connect
    <3>1. client' = [at |-> "replay", next |-> 1, got |-> {}] /\ skipped' = {}
      BY <2>2 DEF Connect
    <3> QED
      BY <1>4, <3>1 DEF Copied
  <2>3. CASE Subscribe
    <3>1. client.at = "subscribe" /\ client' = [client EXCEPT !.at = "live"] /\ skipped' = skipped
      BY <2>3 DEF Subscribe
    <3>2. client'.next = client.next /\ client'.got = client.got /\ client'.at = "live"
      BY <1>5, <3>1
    <3>3. client' \in [at : {"gone", "replay", "subscribe", "live"}, next : 1..(Len(Replayed) + 1),
                       got : SUBSET Nat]
      BY <1>5, <3>1
    <3> QED
      BY <1>1, <3>1, <3>2, <3>3 DEF Copied
  <2>4. CASE Leave
    <3>1. client' = Gone
      BY <2>4 DEF Leave
    <3> QED
      BY <1>4, <3>1 DEF Copied, Gone
  <2> QED
    BY <2>1, <2>2, <2>3, <2>4
<1>7. CountKept'
  BY <1>1, CountStays
<1> QED
  BY <1>1, <1>2, <1>3, <1>6, <1>7, AsideSteps

\* A step that changes one history.
LEMMA PutSteps ==
    ASSUME HistInd, NEW k \in Histories, NEW entries, Put(k, entries),
           UNCHANGED <<clock, db, file, flush, loaded>>,
           total' \in Nat, total <= total', total' <= MaxEntries,
           Row(entries, total', clock), Len(entries) <= Room,
           Len(entries) <= Len(hist[k]) + (total' - total),
           Numbers(entries) \subseteq Numbers(hist[k]) \cup {total + 1},
           marks'.done = marks.done, marks'.begun = marks.begun,
           marks' \in [done : Mark', begun : Mark', now : Mark'],
           \A j \in Histories : Numbers(hist'[j]) \cap marks'.now.dead = {},
           sending' \in [Histories -> 0..total'],
           client' \in [at : {"gone", "replay", "subscribe", "live"}, next : 1..(Len(Replayed) + 1),
                        got : SUBSET Nat],
           Copied'
    PROVE  HistInd'
<1>1. HistTyped /\ Rows /\ Apart /\ total \in Nat /\ clock \in Nat /\ ToSet(Saved) \subseteq Histories
  BY HistBasics
<1>2. /\ hist' \in [Histories -> Seq(Entry)] /\ hist' = [hist EXCEPT ![k] = entries]
      /\ \A j \in Histories : Row(hist'[j], total', clock') /\ Len(hist'[j]) <= Room
      /\ owed' \in [Histories -> [delta : 0..total', seen : -1..total']]
      /\ CountKept'
  BY PutKeeps
<1>3. hist'[k] = entries /\ \A j \in Histories : j # k => hist'[j] = hist[j]
  BY <1>1, <1>2 DEF HistTyped
<1>4. HistTyped'
  <2>1. total' \in 0..MaxEntries
    BY HistBasics
  <2> QED
    BY <1>1, <1>2, <2>1 DEF HistTyped
<1>5. Rows'
  <2>1. \A j \in ToSet(Saved) : /\ Row(db[j], total', clock) /\ Len(db[j]) <= Room
                                /\ Row(file[j], total', clock) /\ Len(file[j]) <= Room
    <3>1. clock <= clock
      BY <1>1
    <3> QED
      BY <1>1, <3>1, RowLater DEF Rows
  <2> QED
    BY <1>2, <2>1 DEF Rows
<1>6. \A j \in Histories : Numbers(hist'[j]) \subseteq Numbers(hist[j]) \cup {total + 1}
  BY <1>3
<1>7. Apart'
  <2>1. \A j \in Histories : IF j = k THEN Kin(j)' \subseteq Kin(j) \cup Numbers(entries) ELSE Kin(j)' = Kin(j)
    <3> SUFFICES ASSUME NEW j \in Histories
                 PROVE  IF j = k THEN Kin(j)' \subseteq Kin(j) \cup Numbers(entries) ELSE Kin(j)' = Kin(j)
      OBVIOUS
    <3>1. Kin(j)' = Numbers(hist'[j]) \cup (IF j \in ToSet(Saved) THEN Numbers(db[j]) \cup Numbers(file[j]) ELSE {})
      BY DEF Kin
    <3>2. Kin(j) = Numbers(hist[j]) \cup (IF j \in ToSet(Saved) THEN Numbers(db[j]) \cup Numbers(file[j]) ELSE {})
      BY DEF Kin
    <3> QED
      BY <1>3, <3>1, <3>2
  <2>2. Kin(k)' \subseteq Kin(k) \cup {total + 1} /\ \A j \in Histories : j # k => Kin(j)' = Kin(j)
    <3>1. Numbers(hist[k]) \subseteq Kin(k)
      BY DEF Kin
    <3> QED
      BY <2>1, <3>1
  <2>3. \A j \in Histories : total + 1 \notin Kin(j)
    <3>1. total + 1 \notin 1..total
      BY <1>1
    <3> QED
      BY <3>1, KinKnown
  <2>4. ASSUME NEW i \in Histories, NEW j \in Histories, i # j PROVE Kin(i)' \cap Kin(j)' = {}
    <3>1. Kin(i) \cap Kin(j) = {}
      BY <1>1, <2>4 DEF Apart
    <3>2. CASE i = k
      BY <2>2, <2>3, <2>4, <3>1, <3>2
    <3>3. CASE j = k
      BY <2>2, <2>3, <2>4, <3>1, <3>3
    <3>4. CASE i # k /\ j # k
      BY <2>2, <3>1, <3>4
    <3> QED
      BY <3>2, <3>3, <3>4
  <2> QED
    BY <2>4 DEF Apart
<1>8. Stored'
  BY <1>6, StoredStays
<1> QED
  BY <1>2, <1>4, <1>5, <1>7, <1>8 DEF HistInd

LEMMA EntryKeeps == ASSUME HistInd, NEW k \in Histories, Record(k) PROVE HistInd'
<1> DEFINE e == [n |-> total + 1, at |-> clock]
           app == Append(hist[k], e)
           entries == Trimmed(Pruned(app))
<1>1. /\ HistTyped /\ Rows /\ Stored /\ total \in Nat /\ clock \in Nat /\ MaxEntries \in Nat
      /\ UNCHANGED <<clock, client, skipped, db, file, flush, loaded>>
      /\ sending[k] = 0 /\ total < MaxEntries /\ total' = total + 1 /\ Put(k, entries)
      /\ sending' = [sending EXCEPT ![k] = total + 1]
      /\ marks' = [marks EXCEPT !.now.live = @ \cup {total + 1}]
  BY HistBasics DEF Record, storeVars
<1>2. total' \in Nat /\ total <= total' /\ total' <= MaxEntries /\ total' - total = 1
  BY <1>1
<1>3. /\ Row(app, total', clock) /\ Len(hist[k]) \in Nat /\ Len(app) = Len(hist[k]) + 1
      /\ Numbers(app) = Numbers(hist[k]) \cup {total + 1}
  <2>1. Row(hist[k], total, clock) /\ clock \in 0..MaxClock
    BY <1>1 DEF Rows, HistTyped
  <2> QED
    BY <1>1, <2>1, RowGrows
<1> HIDE DEF app
<1>4. app \in Seq(Entry) /\ Sorted(app)
  BY <1>2, <1>3, RowNumbers
<1>5. /\ Row(Pruned(app), total', clock) /\ Pruned(app) \in Seq(Entry) /\ Sorted(Pruned(app))
      /\ Len(Pruned(app)) \in Nat /\ Len(Pruned(app)) <= Len(app) /\ Numbers(Pruned(app)) \subseteq Numbers(app)
  <2>1. LeftOf(Pruned(app), app)
    BY <1>4, PrunedLeft
  <2> QED
    BY <1>3, <1>4, <2>1, LeftSorted, LeftRow DEF Sorted
<1>6. /\ Row(entries, total', clock) /\ Len(entries) <= Room /\ Len(entries) \in Nat
      /\ Len(entries) <= Len(Pruned(app)) /\ Numbers(entries) \subseteq Numbers(Pruned(app))
  <2>1. LeftOf(entries, Pruned(app)) /\ Len(entries) <= Room
    BY <1>5, TrimmedLeft
  <2> QED
    BY <1>5, <2>1, LeftSorted, LeftRow
<1> HIDE DEF entries, e
<1>7. Len(entries) <= Len(hist[k]) + (total' - total)
  BY <1>2, <1>3, <1>5, <1>6
<1>8. Numbers(entries) \subseteq Numbers(hist[k]) \cup {total + 1}
  BY <1>3, <1>5, <1>6
<1>9. /\ marks.done \in Mark' /\ marks.begun \in Mark' /\ marks.now \in Mark' /\ marks.now \in Mark
      /\ marks = [done |-> marks.done, begun |-> marks.begun, now |-> marks.now]
  BY <1>1, <1>2, MarksLast DEF Stored
<1>10. /\ marks'.done = marks.done /\ marks'.begun = marks.begun
       /\ marks'.now = [marks.now EXCEPT !.live = @ \cup {total + 1}] /\ marks'.now.dead = marks.now.dead
       /\ marks' = [done |-> marks'.done, begun |-> marks'.begun, now |-> marks'.now]
  BY <1>1, <1>9 DEF Mark
<1>11. marks'.now \in Mark'
  <2>1. total + 1 \in 1..total'
    BY <1>1
  <2> QED
    BY <1>9, <1>10, <2>1 DEF Mark
<1>12. marks' \in [done : Mark', begun : Mark', now : Mark']
  BY <1>9, <1>10, <1>11
<1>13. hist'[k] = entries /\ \A j \in Histories : j # k => hist'[j] = hist[j]
  BY <1>1 DEF Put, HistTyped
<1>14. \A j \in Histories : Numbers(hist'[j]) \cap marks'.now.dead = {}
  <2>1. \A j \in Histories : Numbers(hist[j]) \cap marks.now.dead = {}
    BY <1>1 DEF Stored
  <2>2. total + 1 \notin marks.now.dead
    <3>1. total + 1 \notin 1..total
      BY <1>1
    <3> QED
      BY <1>9, <3>1 DEF Mark
  <2> QED
    BY <1>8, <1>10, <1>13, <2>1, <2>2
<1>15. sending' \in [Histories -> 0..total'] /\ sending'[k] = total + 1
       /\ \A j \in Histories : j # k => sending'[j] = sending[j]
  <2>1. 0..total \subseteq 0..total' /\ total + 1 \in 0..total'
    BY <1>1
  <2> QED
    BY <1>1, <2>1 DEF HistTyped
<1>16. Copied'
  BY <1>1, <1>8, <1>13, <1>15, CopiedStays
<1>17. client' \in [at : {"gone", "replay", "subscribe", "live"}, next : 1..(Len(Replayed) + 1),
                    got : SUBSET Nat]
  BY <1>1 DEF HistTyped
<1> QED
  BY <1>1, <1>2, <1>6, <1>7, <1>8, <1>10, <1>12, <1>14, <1>15, <1>16, <1>17, PutSteps

LEMMA ClearKeeps == ASSUME HistInd, NEW k \in Histories, Clear(k) PROVE HistInd'
<1>1. /\ HistTyped /\ Rows /\ Stored /\ total \in Nat /\ clock \in Nat /\ total <= MaxEntries
      /\ UNCHANGED <<clock, client, skipped, sending, total, db, file, flush, loaded>>
      /\ Put(k, <<>>) /\ marks' = [marks EXCEPT !.now.dead = @ \cup Numbers(hist[k])]
      /\ Room \in Nat
  BY HistBasics DEF Clear, storeVars
<1>2. /\ <<>> \in Seq(Entry) /\ Len(<<>>) = 0 /\ DOMAIN <<>> = {} /\ Numbers(<<>>) = {}
      /\ Row(<<>>, total', clock)
  <2>1. <<>> \in Seq(Entry) /\ Len(<<>>) = 0 /\ DOMAIN <<>> = {} /\ Numbers(<<>>) = {}
    BY EmptySeq, NumbersAre
  <2> QED
    BY <2>1 DEF Row, Sorted, OldestFirst
<1>3. total' \in Nat /\ total <= total' /\ total' <= MaxEntries /\ Len(hist[k]) \in Nat
      /\ Len(<<>>) <= Len(hist[k]) + (total' - total) /\ Len(<<>>) <= Room
  BY <1>1, <1>2, KinKnown
<1>4. /\ marks.done \in Mark /\ marks.begun \in Mark /\ marks.now \in Mark /\ Mark' = Mark
      /\ marks = [done |-> marks.done, begun |-> marks.begun, now |-> marks.now]
  BY <1>1 DEF Stored, Mark
<1>5. /\ marks'.done = marks.done /\ marks'.begun = marks.begun
      /\ marks'.now = [marks.now EXCEPT !.dead = @ \cup Numbers(hist[k])]
      /\ marks' = [done |-> marks'.done, begun |-> marks'.begun, now |-> marks'.now]
  BY <1>1, <1>4
<1>6. marks'.now \in Mark /\ marks'.now.dead = marks.now.dead \cup Numbers(hist[k])
  BY <1>4, <1>5, KinKnown DEF Mark
<1>7. marks' \in [done : Mark', begun : Mark', now : Mark']
  BY <1>4, <1>5, <1>6
<1>8. hist'[k] = <<>> /\ \A j \in Histories : j # k => hist'[j] = hist[j]
  BY <1>1 DEF Put, HistTyped
<1>9. \A j \in Histories : Numbers(hist'[j]) \cap marks'.now.dead = {}
  <2> SUFFICES ASSUME NEW j \in Histories PROVE Numbers(hist'[j]) \cap marks'.now.dead = {}
    OBVIOUS
  <2>1. CASE j = k
    BY <1>2, <1>8, <2>1
  <2>2. CASE j # k
    <3>1. Numbers(hist[j]) \cap marks.now.dead = {}
      BY <1>1 DEF Stored
    <3>2. Numbers(hist[j]) \cap Numbers(hist[k]) = {}
      <4>1. Kin(j) \cap Kin(k) = {}
        BY <2>2, HistBasics DEF Apart
      <4>2. Numbers(hist[j]) \subseteq Kin(j) /\ Numbers(hist[k]) \subseteq Kin(k)
        BY DEF Kin
      <4> QED
        BY <4>1, <4>2
    <3> QED
      BY <1>6, <1>8, <2>2, <3>1, <3>2
  <2> QED
    BY <2>1, <2>2
<1>10. \A j \in Histories : Numbers(hist'[j]) \subseteq Numbers(hist[j])
  BY <1>2, <1>8
<1>11. Copied'
  BY <1>1, <1>10, CopiedStays
<1>12. sending' \in [Histories -> 0..total']
       /\ client' \in [at : {"gone", "replay", "subscribe", "live"}, next : 1..(Len(Replayed) + 1),
                       got : SUBSET Nat]
  BY <1>1 DEF HistTyped
<1>13. Numbers(<<>>) \subseteq Numbers(hist[k]) \cup {total + 1}
  BY <1>2
<1> QED
  BY <1>1, <1>2, <1>3, <1>5, <1>7, <1>9, <1>11, <1>12, <1>13, PutSteps

LEMMA ReplayKeeps == ASSUME HistInd, Replay PROVE HistInd'
<1> DEFINE k == Replayed[client.next]  entries == Pruned(hist[k])
<1>1. /\ HistTyped /\ Rows /\ Stored /\ Copied /\ total \in Nat /\ clock \in Nat /\ total <= MaxEntries
      /\ UNCHANGED <<clock, sending, total, skipped, marks, db, file, flush, loaded>>
      /\ client.at = "replay" /\ Put(k, entries)
      /\ client' = [at |-> IF client.next = Len(Replayed) THEN "subscribe" ELSE "replay",
                    next |-> client.next + 1, got |-> client.got \cup Numbers(entries)]
      /\ Len(Replayed) \in Nat /\ DOMAIN Replayed = 1..Len(Replayed)
      /\ \A i \in 1..Len(Replayed) : Replayed[i] \in Histories
  BY HistBasics DEF Replay, ReplayStep, storeVars
<1>2. client.next \in 1..Len(Replayed) /\ k \in Histories
  BY <1>1 DEF Copied
<1> HIDE DEF k
<1>3. Row(hist[k], total, clock) /\ Len(hist[k]) <= Room /\ hist[k] \in Seq(Entry) /\ Sorted(hist[k])
      /\ Numbers(hist[k]) \subseteq 1..total
  <2>1. Row(hist[k], total, clock) /\ Len(hist[k]) <= Room
    BY <1>1, <1>2 DEF Rows
  <2> QED
    BY <1>1, <2>1, RowNumbers
<1>4. /\ Row(entries, total, clock) /\ Len(entries) \in Nat /\ Len(hist[k]) \in Nat
      /\ Len(entries) <= Len(hist[k]) /\ Numbers(entries) \subseteq Numbers(hist[k])
  <2>1. LeftOf(entries, hist[k])
    BY <1>3, PrunedLeft
  <2> QED
    BY <1>3, <2>1, LeftSorted, LeftRow
<1> HIDE DEF entries
<1>5. /\ total' \in Nat /\ total <= total' /\ total' <= MaxEntries /\ Len(entries) <= Room
      /\ Len(entries) <= Len(hist[k]) + (total' - total) /\ Row(entries, total', clock)
      /\ Numbers(entries) \subseteq Numbers(hist[k]) \cup {total + 1}
  <2>1. Room \in Nat
    BY HistBasics
  <2> QED
    BY <1>1, <1>3, <1>4, <2>1
<1>6. hist'[k] = entries /\ \A j \in Histories : j # k => hist'[j] = hist[j]
  BY <1>1, <1>2 DEF Put, HistTyped
<1>7. \A j \in Histories : Numbers(hist'[j]) \subseteq Numbers(hist[j])
  BY <1>4, <1>6
<1>8. /\ marks' \in [done : Mark', begun : Mark', now : Mark']
      /\ \A j \in Histories : Numbers(hist'[j]) \cap marks'.now.dead = {}
  <2>1. Mark' = Mark
    BY <1>1 DEF Mark
  <2>2. /\ marks \in [done : Mark, begun : Mark, now : Mark]
        /\ \A j \in Histories : Numbers(hist[j]) \cap marks.now.dead = {}
    BY <1>1 DEF Stored
  <2> QED
    BY <1>1, <1>7, <2>1, <2>2
<1>9. sending' \in [Histories -> 0..total']
  BY <1>1 DEF HistTyped
<1>10. client' \in [at : {"gone", "replay", "subscribe", "live"}, next : 1..(Len(Replayed) + 1),
                    got : SUBSET Nat]
  <2>1. client.got \subseteq Nat
    BY <1>1 DEF HistTyped
  <2>2. client.got \cup Numbers(entries) \in SUBSET Nat
    BY <1>1, <1>3, <1>4, <2>1
  <2>3. client.next + 1 \in 1..(Len(Replayed) + 1)
    BY <1>1, <1>2
  <2> QED
    BY <1>1, <2>2, <2>3
<1>11. Copied'
  <2>1. /\ client'.next = client.next + 1 /\ client'.got = client.got \cup Numbers(entries)
        /\ client'.at = IF client.next = Len(Replayed) THEN "subscribe" ELSE "replay"
    BY <1>1
  <2>2. client'.at = "replay" => client'.next \in DOMAIN Replayed
    BY <1>1, <1>2, <2>1
  <2>3. client'.at \in {"subscribe", "live"} => client'.next = Len(Replayed) + 1
    BY <1>1, <1>2, <2>1
  <2>4. ASSUME NEW i \in 1..(client'.next - 1)
        PROVE  Numbers(hist'[Replayed[i]]) \subseteq client'.got \cup skipped \cup {sending[Replayed[i]]}
    <3>1. Replayed[i] \in Histories
      BY <1>1, <1>2, <2>1
    <3>2. CASE i = client.next
      BY <1>6, <2>1, <3>2 DEF k
    <3>3. CASE i # client.next
      <4>1. i \in 1..(client.next - 1)
        BY <1>1, <1>2, <2>1, <3>3
      <4>2. Numbers(hist[Replayed[i]]) \subseteq client.got \cup skipped \cup {sending[Replayed[i]]}
        BY <1>1, <4>1 DEF Copied
      <4> QED
        BY <1>7, <2>1, <3>1, <4>2
    <3> QED
      BY <3>2, <3>3
  <2> QED
    BY <1>1, <2>2, <2>3, <2>4 DEF Copied
<1>12. UNCHANGED <<clock, db, file, flush, loaded>> /\ marks'.done = marks.done /\ marks'.begun = marks.begun
  BY <1>1
<1> QED
  BY <1>1, <1>2, <1>5, <1>8, <1>9, <1>10, <1>11, <1>12, PutSteps

\* A step of the store: the histories, their count and the client are left alone.
LEMMA StoreSteps ==
    ASSUME HistInd, UNCHANGED <<clock, hist, count, owed, sending, client, total, skipped, loaded>>,
           flush' \in 0..(Len(Saved) + 1),
           db' \in [ToSet(Saved) -> Seq(Entry)], file' \in [ToSet(Saved) -> Seq(Entry)],
           \A k \in ToSet(Saved) : db'[k] \in {hist[k], db[k]} /\ file'[k] \in {db[k], file[k]},
           Stored'
    PROVE  HistInd'
<1>1. /\ HistTyped /\ Rows /\ Apart /\ CountKept /\ Copied /\ ToSet(Saved) \subseteq Histories
  BY HistBasics
<1>2. HistTyped'
  BY <1>1 DEF HistTyped
<1>3. Rows'
  BY <1>1 DEF Rows
<1>4. Apart'
  <2>1. ASSUME NEW k \in Histories PROVE Kin(k)' \subseteq Kin(k)
    <3>1. Kin(k)' = Numbers(hist'[k]) \cup (IF k \in ToSet(Saved) THEN Numbers(db'[k]) \cup Numbers(file'[k]) ELSE {})
      BY DEF Kin
    <3> QED
      BY <3>1 DEF Kin
  <2> QED
    BY <1>1, <2>1, ApartStays
<1>5. CountKept'
  BY <1>1, CountStays
<1>6. Copied'
  BY <1>1 DEF Copied
<1> QED
  BY <1>2, <1>3, <1>4, <1>5, <1>6 DEF HistInd

LEMMA FlushBeginsKeeps == ASSUME HistInd, FlushBegins PROVE HistInd'
<1>1. /\ HistTyped /\ Stored /\ Len(Saved) \in Nat
      /\ UNCHANGED <<clock, hist, count, owed, sending, client, total, skipped, db, file, loaded>>
      /\ flush' = 1 /\ marks' = [marks EXCEPT !.begun = marks.now]
  BY HistBasics DEF FlushBegins
<1>2. marks'.done = marks.done /\ marks'.begun = marks.now /\ marks'.now = marks.now
      /\ marks' \in [done : Mark, begun : Mark, now : Mark] /\ Mark' = Mark
  BY <1>1 DEF Stored, Mark
<1>3. flush' \in 0..(Len(Saved) + 1) /\ 1..(flush' - 1) = {}
  BY <1>1
<1>4. StoreFaithful'
  BY <1>1, <1>2 DEF Stored, StoreFaithful
<1>5. Stored'
  BY <1>1, <1>2, <1>3, <1>4 DEF Stored
<1>6. db' \in [ToSet(Saved) -> Seq(Entry)] /\ file' \in [ToSet(Saved) -> Seq(Entry)]
      /\ \A k \in ToSet(Saved) : db'[k] \in {hist[k], db[k]} /\ file'[k] \in {db[k], file[k]}
  BY <1>1 DEF HistTyped
<1> QED
  BY <1>1, <1>3, <1>5, <1>6, StoreSteps

LEMMA SaveOneKeeps == ASSUME HistInd, SaveOne PROVE HistInd'
<1> DEFINE k == Saved[flush]
<1>1. /\ HistTyped /\ Stored /\ Len(Saved) \in Nat /\ DOMAIN Saved = 1..Len(Saved)
      /\ ToSet(Saved) \subseteq Histories /\ \A i \in 1..Len(Saved) : Saved[i] \in ToSet(Saved)
      /\ UNCHANGED <<clock, hist, count, owed, sending, client, total, skipped, file, marks, loaded>>
      /\ flush \in DOMAIN Saved /\ flush' = flush + 1 /\ db' = [db EXCEPT ![k] = hist[k]]
  BY HistBasics DEF SaveOne
<1>2. flush \in 1..Len(Saved) /\ k \in ToSet(Saved) /\ flush # 0 /\ flush' # 0
      /\ flush' \in 0..(Len(Saved) + 1)
  BY <1>1
<1>3. \A i \in 1..(flush' - 1) : i \in 1..Len(Saved) /\ (i = flush \/ i \in 1..(flush - 1))
  BY <1>1, <1>2
<1>4. \A i \in 1..Len(Saved) : i # flush => Saved[i] # k
  BY <1>1, <1>2, HistoryAssumption DEF HistoryAssumption, IsInjective
<1>5. db'[k] = hist[k] /\ \A j \in ToSet(Saved) : j # k => db'[j] = db[j]
  BY <1>1, <1>2 DEF HistTyped
<1>6. ASSUME NEW i \in 1..(flush' - 1)
      PROVE  /\ Numbers(db'[Saved[i]]) \cap marks.begun.dead = {}
             /\ Numbers(hist[Saved[i]]) \cap marks.begun.live \subseteq Numbers(db'[Saved[i]])
  <2>1. CASE i = flush
    <3>1. Numbers(hist[k]) \cap marks.begun.dead = {}
      BY <1>1, <1>2 DEF Stored
    <3> QED
      BY <1>5, <2>1, <3>1
  <2>2. CASE i # flush
    <3>1. i \in 1..(flush - 1) /\ Saved[i] \in ToSet(Saved) /\ Saved[i] # k
      BY <1>1, <1>3, <1>4, <2>2
    <3>2. /\ Numbers(db[Saved[i]]) \cap marks.begun.dead = {}
          /\ Numbers(hist[Saved[i]]) \cap marks.begun.live \subseteq Numbers(db[Saved[i]])
      BY <1>1, <3>1 DEF Stored
    <3> QED
      BY <1>5, <3>1, <3>2
  <2> QED
    BY <2>1, <2>2
<1>7. Mark' = Mark /\ StoreFaithful'
  BY <1>1 DEF Stored, StoreFaithful, Mark
<1>8. Stored'
  BY <1>1, <1>2, <1>6, <1>7 DEF Stored
<1>9. /\ db' \in [ToSet(Saved) -> Seq(Entry)] /\ file' \in [ToSet(Saved) -> Seq(Entry)]
      /\ \A j \in ToSet(Saved) : db'[j] \in {hist[j], db[j]} /\ file'[j] \in {db[j], file[j]}
  BY <1>1, <1>2, <1>5 DEF HistTyped
<1> QED
  BY <1>1, <1>2, <1>8, <1>9, StoreSteps

LEMMA DumpKeeps == ASSUME HistInd, Dump PROVE HistInd'
<1>1. /\ HistTyped /\ Stored /\ Len(Saved) \in Nat /\ ToSet(Saved) \subseteq Histories
      /\ \A j \in ToSet(Saved) : \E i \in 1..Len(Saved) : Saved[i] = j
      /\ UNCHANGED <<clock, hist, count, owed, sending, client, total, skipped, db, loaded>>
      /\ flush = Len(Saved) + 1 /\ flush' = 0 /\ file' = db
      /\ marks' = [marks EXCEPT !.done = marks.begun]
  BY HistBasics DEF Dump
<1>2. marks'.done = marks.begun /\ marks'.now = marks.now
      /\ marks' \in [done : Mark, begun : Mark, now : Mark] /\ Mark' = Mark
  BY <1>1 DEF Stored, Mark
<1>3. flush # 0 /\ flush - 1 = Len(Saved) /\ 1..(flush' - 1) = {} /\ flush' \in 0..(Len(Saved) + 1)
  BY <1>1
<1>4. \A i \in 1..Len(Saved) :
          /\ Numbers(db[Saved[i]]) \cap marks.begun.dead = {}
          /\ Numbers(hist[Saved[i]]) \cap marks.begun.live \subseteq Numbers(db[Saved[i]])
  BY <1>1, <1>3 DEF Stored
<1>5. \A j \in ToSet(Saved) :
          /\ Numbers(db[j]) \cap marks.begun.dead = {}
          /\ Numbers(hist[j]) \cap marks.begun.live \subseteq Numbers(db[j])
  BY <1>1, <1>4
<1>6. \A j \in Histories : Numbers(hist[j]) \cap marks.begun.dead = {}
  BY <1>1, <1>3 DEF Stored
<1>7. StoreFaithful'
  BY <1>1, <1>2, <1>5, <1>6 DEF StoreFaithful
<1>8. Stored'
  BY <1>1, <1>2, <1>3, <1>7 DEF Stored
<1>9. /\ db' \in [ToSet(Saved) -> Seq(Entry)] /\ file' \in [ToSet(Saved) -> Seq(Entry)]
      /\ \A j \in ToSet(Saved) : db'[j] \in {hist[j], db[j]} /\ file'[j] \in {db[j], file[j]}
  BY <1>1 DEF HistTyped
<1> QED
  BY <1>1, <1>3, <1>8, <1>9, StoreSteps

LEMMA RestartKeeps == ASSUME HistInd, Restart PROVE HistInd'
<1>1. /\ HistTyped /\ Rows /\ Apart /\ Stored /\ total \in Nat /\ clock \in Nat /\ Len(Saved) \in Nat
      /\ Len(Replayed) \in Nat /\ Room \in Nat /\ ToSet(Saved) \subseteq Histories
      /\ hist' = [k \in Histories |-> IF k \in ToSet(Saved) THEN Pruned(file[k]) ELSE <<>>]
      /\ count' = 0 /\ owed' = [k \in Histories |-> Nothing]
      /\ sending' = [k \in Histories |-> 0] /\ client' = Gone /\ skipped' = {}
      /\ db' = file /\ flush' = 0
      /\ loaded' = (loaded \/ \E k \in Histories : hist'[k] # <<>>)
      /\ marks' = [marks EXCEPT !.now.dead = @ \ UNION {Numbers(hist'[k]) : k \in Histories}]
      /\ UNCHANGED <<clock, file, total>>
  BY HistBasics DEF Restart
<1>2. <<>> \in Seq(Entry) /\ Len(<<>>) = 0 /\ DOMAIN <<>> = {} /\ Numbers(<<>>) = {}
      /\ Row(<<>>, total, clock)
  <2>1. <<>> \in Seq(Entry) /\ Len(<<>>) = 0 /\ DOMAIN <<>> = {} /\ Numbers(<<>>) = {}
    BY EmptySeq, NumbersAre
  <2> QED
    BY <2>1 DEF Row, Sorted, OldestFirst
<1>3. ASSUME NEW k \in ToSet(Saved)
      PROVE  /\ hist'[k] \in Seq(Entry) /\ Row(hist'[k], total, clock) /\ Len(hist'[k]) <= Room
             /\ Numbers(hist'[k]) \subseteq Numbers(file[k])
  <2>1. hist'[k] = Pruned(file[k])
    BY <1>1
  <2>2. Row(file[k], total, clock) /\ Len(file[k]) <= Room
    BY <1>1 DEF Rows
  <2>3. file[k] \in Seq(Entry) /\ Sorted(file[k]) /\ LeftOf(Pruned(file[k]), file[k])
    BY <1>1, <2>2, RowNumbers, PrunedLeft
  <2>4. Row(Pruned(file[k]), total, clock)
    BY <2>2, <2>3, LeftRow
  <2>5. /\ Len(Pruned(file[k])) \in Nat /\ Len(file[k]) \in Nat /\ Len(Pruned(file[k])) <= Len(file[k])
        /\ Numbers(Pruned(file[k])) \subseteq Numbers(file[k]) /\ Pruned(file[k]) \in Seq(Entry)
    BY <2>3, LeftSorted DEF Sorted
  <2> QED
    BY <1>1, <2>1, <2>2, <2>4, <2>5
<1>4. \A k \in Histories : k \notin ToSet(Saved) => hist'[k] = <<>>
  BY <1>1
<1>5. ASSUME NEW k \in Histories
      PROVE  /\ hist'[k] \in Seq(Entry) /\ Row(hist'[k], total, clock) /\ Len(hist'[k]) <= Room
             /\ Numbers(hist'[k]) \subseteq Kin(k) /\ Kin(k)' \subseteq Kin(k)
  <2>1. Kin(k)' = Numbers(hist'[k]) \cup (IF k \in ToSet(Saved) THEN Numbers(db'[k]) \cup Numbers(file'[k]) ELSE {})
    BY DEF Kin
  <2>2. CASE k \in ToSet(Saved)
    BY <1>1, <1>3, <2>1, <2>2 DEF Kin
  <2>3. CASE k \notin ToSet(Saved)
    BY <1>1, <1>2, <1>4, <2>1, <2>3
  <2> QED
    BY <2>2, <2>3
<1>6. HistTyped'
  <2>1. hist' \in [Histories -> Seq(Entry)]
    <3>1. hist' = [k \in Histories |-> hist'[k]]
      BY <1>1
    <3> QED
      BY <1>5, <3>1
  <2>2. Nothing \in [delta : 0..total, seen : -1..total] /\ 0 \in 0..total
    BY <1>1 DEF Nothing
  <2>3. owed' \in [Histories -> [delta : 0..total, seen : -1..total]] /\ sending' \in [Histories -> 0..total]
    BY <1>1, <2>2
  <2>4. client' \in [at : {"gone", "replay", "subscribe", "live"}, next : 1..(Len(Replayed) + 1),
                    got : SUBSET Nat]
    BY <1>1 DEF Gone
  <2>5. flush' \in 0..(Len(Saved) + 1) /\ loaded' \in BOOLEAN
    BY <1>1
  <2> QED
    BY <1>1, <2>1, <2>3, <2>4, <2>5 DEF HistTyped
<1>7. Rows'
  BY <1>1, <1>5 DEF Rows
<1>8. Apart'
  BY <1>1, <1>5, ApartStays
<1>9. CountKept'
  <2>1. \A j, k \in Histories : j # k => Numbers(hist'[j]) \cap Numbers(hist'[k]) = {}
    BY <1>1, <1>5 DEF Apart
  <2>2. SumOver([k \in Histories |-> Len(hist'[k])]) \in Nat /\ SumOver([k \in Histories |-> Len(hist'[k])]) <= total
    BY <1>1, <1>5, <2>1, SumWithin
  <2>3. Lengths' = [k \in Histories |-> Len(hist'[k])]
    BY DEF Lengths
  <2>4. SumOver(Lengths)' \in Nat /\ SumOver(Lengths)' <= total
    BY <2>2, <2>3
  <2>5. SumOver(Debts)' = 0
    <3>1. \A k \in Histories : Debts'[k] = 0
      BY <1>1 DEF Debts, Nothing
    <3>2. SumOver(Debts') = 0
      BY <3>1, SumZero
    <3> QED
      BY <3>2
  <2>6. ~loaded' => SumOver(Lengths)' = 0
    <3> SUFFICES ASSUME ~loaded' PROVE SumOver(Lengths)' = 0
      OBVIOUS
    <3>1. \A k \in Histories : hist'[k] = <<>>
      BY <1>1
    <3>2. \A k \in Histories : Lengths'[k] = 0
      BY <1>2, <3>1 DEF Lengths
    <3>3. SumOver(Lengths') = 0
      BY <3>2, SumZero
    <3> QED
      BY <3>3
  <2>7. CountAccurate' <=> IF loaded' THEN count' <= SumOver(Lengths)' + SumOver(Debts)'
                           ELSE count' = SumOver(Lengths)' + SumOver(Debts)'
    BY DEF CountAccurate, Lengths, Debts
  <2>8. CountAccurate'
    BY <1>1, <2>4, <2>5, <2>6, <2>7
  <2> QED
    BY <1>1, <2>4, <2>5, <2>8 DEF CountKept
<1>10. /\ marks'.done = marks.done /\ marks'.begun = marks.begun
       /\ marks'.now.dead = marks.now.dead \ UNION {Numbers(hist'[k]) : k \in Histories}
       /\ marks' \in [done : Mark, begun : Mark, now : Mark] /\ Mark' = Mark
  BY <1>1 DEF Stored, Mark
<1>11. \A k \in Histories : Numbers(hist'[k]) \cap marks'.now.dead = {}
  BY <1>10
<1>12. StoreFaithful'
  <2>1. \A k \in ToSet(Saved) : Numbers(file[k]) \cap marks.done.dead = {}
    BY <1>1 DEF Stored, StoreFaithful
  <2>2. \A k \in Histories : Numbers(hist'[k]) \cap marks.done.dead = {}
    BY <1>2, <1>3, <1>4, <2>1
  <2>3. \A k \in ToSet(Saved) : Numbers(hist'[k]) \cap marks.done.live \subseteq Numbers(file[k])
    BY <1>3
  <2> QED
    BY <1>1, <1>10, <2>1, <2>2, <2>3 DEF StoreFaithful
<1>13. Stored'
  <2>1. 1..(flush' - 1) = {}
    BY <1>1
  <2> QED
    BY <1>1, <1>10, <1>11, <1>12, <2>1 DEF Stored
<1>14. Copied'
  <2>1. client'.at = "gone"
    BY <1>1 DEF Gone
  <2> QED
    BY <2>1 DEF Copied
<1> QED
  BY <1>6, <1>7, <1>8, <1>9, <1>13, <1>14 DEF HistInd

LEMMA HistSteps == ASSUME HistInd, [HistoryNext]_historyVars PROVE HistInd'
<1>1. CASE \E k \in Histories : TakeOff(k) \/ Record(k) \/ Send(k) \/ Clear(k)
  BY <1>1, TakeOffKeeps, EntryKeeps, SendKeeps, ClearKeeps
<1>2. CASE Passes \/ Connect \/ Subscribe \/ Leave
  BY <1>2, ClientSteps
<1>3. CASE Replay
  BY <1>3, ReplayKeeps
<1>4. CASE FlushBegins
  BY <1>4, FlushBeginsKeeps
<1>5. CASE SaveOne
  BY <1>5, SaveOneKeeps
<1>6. CASE Dump
  BY <1>6, DumpKeeps
<1>7. CASE Restart
  BY <1>7, RestartKeeps
<1>8. CASE UNCHANGED historyVars
  <2>1. UNCHANGED <<clock, hist, count, owed, sending, db, file, flush, client, total, loaded, skipped, marks>>
    BY <1>8 DEF historyVars
  <2>2. /\ HistTyped /\ CountKept /\ Copied /\ clock \in 0..MaxClock /\ clock <= clock'
    <3>1. HistTyped /\ CountKept /\ Copied /\ clock \in Nat
      BY HistBasics
    <3> QED
      BY <2>1, <3>1 DEF HistTyped
  <2>3. CountKept'
    BY <2>1, <2>2, CountStays
  <2>4. Copied'
    BY <2>1, <2>2 DEF Copied
  <2>5. /\ clock' \in 0..MaxClock
        /\ owed' \in [Histories -> [delta : 0..total, seen : -1..total]] /\ sending' \in [Histories -> 0..total]
        /\ client' \in [at : {"gone", "replay", "subscribe", "live"}, next : 1..(Len(Replayed) + 1),
                        got : SUBSET Nat]
    BY <2>1, <2>2 DEF HistTyped
  <2> QED
    BY <2>1, <2>2, <2>3, <2>4, <2>5, AsideSteps
<1> QED
  BY <1>1, <1>2, <1>3, <1>4, <1>5, <1>6, <1>7, <1>8 DEF HistoryNext

LEMMA HistGives == HistInd => HistoryInv
<1> SUFFICES ASSUME HistInd PROVE HistoryInv
  OBVIOUS
<1>1. /\ HistTyped /\ Rows /\ CountKept /\ Stored /\ Copied /\ total \in Nat /\ total <= MaxEntries
      /\ MaxEntries \in Nat /\ ToSet(Saved) \subseteq Histories
      /\ Len(Replayed) \in Nat /\ \A k \in Histories : \E i \in 1..Len(Replayed) : Replayed[i] = k
  BY HistBasics
<1>2. \A entries : Row(entries, total, clock) => ToSet(entries) \subseteq Entry /\ OldestFirst(entries)
  <2> SUFFICES ASSUME NEW entries, Row(entries, total, clock)
               PROVE  ToSet(entries) \subseteq Entry /\ OldestFirst(entries)
    OBVIOUS
  <2>1. entries \in Seq(Entry) /\ OldestFirst(entries)
    BY DEF Row, Sorted
  <2>2. \A i \in DOMAIN entries : entries[i] \in Entry
    BY <2>1, LenProperties
  <2> QED
    BY <2>1, <2>2 DEF ToSet
<1>3. count \in 0..MaxEntries
  <2>1. SumOver(Lengths) + SumOver(Debts) <= total /\ count \in Nat
        /\ count <= SumOver(Lengths) + SumOver(Debts)
    <3>1. \A j \in Histories : Lengths[j] \in Nat /\ Debts[j] \in Nat
      BY <1>1, KinKnown DEF HistTyped, Lengths, Debts
    <3>2. PICK k \in Histories : TRUE
      BY HistBasics
    <3>3. SumOver(Lengths) \in Nat /\ SumOver(Debts) \in Nat
      <4>1. \A j \in Histories : j # k => Lengths[j] = Lengths[j] /\ Debts[j] = Debts[j]
        OBVIOUS
      <4> QED
        BY <3>1, <4>1, SumMoves
    <3>4. IF loaded THEN count <= SumOver(Lengths) + SumOver(Debts)
          ELSE count = SumOver(Lengths) + SumOver(Debts)
      BY <1>1 DEF CountKept, CountAccurate, Lengths, Debts
    <3> QED
      BY <1>1, <3>3, <3>4 DEF CountKept
  <2>2. SumOver(Lengths) \in Nat /\ SumOver(Debts) \in Nat
    <3>1. \A j \in Histories : Lengths[j] \in Nat /\ Debts[j] \in Nat
      BY <1>1, KinKnown DEF HistTyped, Lengths, Debts
    <3>2. PICK k \in Histories : TRUE
      BY HistBasics
    <3>3. \A j \in Histories : j # k => Lengths[j] = Lengths[j] /\ Debts[j] = Debts[j]
      OBVIOUS
    <3> QED
      BY <3>1, <3>3, SumMoves
  <2> QED
    BY <1>1, <2>1, <2>2
<1>4. 0..total \subseteq 0..MaxEntries /\ -1..total \subseteq -1..MaxEntries
  BY <1>1
<1>5. /\ owed \in [Histories -> [delta : 0..MaxEntries, seen : -1..MaxEntries]]
      /\ sending \in [Histories -> 0..MaxEntries]
  BY <1>1, <1>4 DEF HistTyped
<1>6. HistoryTypeOK
  <2>1. \A k \in Histories :
           ToSet(hist[k]) \subseteq Entry /\ Len(hist[k]) <= Room /\ OldestFirst(hist[k])
    BY <1>1, <1>2 DEF Rows
  <2>2. \A k \in ToSet(Saved) :
           ToSet(db[k]) \cup ToSet(file[k]) \subseteq Entry /\ OldestFirst(db[k]) /\ OldestFirst(file[k])
    BY <1>1, <1>2 DEF Rows
  <2>3. client.at \in {"gone", "replay", "subscribe", "live"} /\ clock \in 0..MaxClock /\ total \in 0..MaxEntries
        /\ flush \in 0..(Len(Saved) + 1)
    BY <1>1 DEF HistTyped
  <2> QED
    BY <1>3, <1>5, <2>1, <2>2, <2>3 DEF HistoryTypeOK
<1>7. ClientHasAll
  <2> SUFFICES ASSUME client.at = "live", NEW k \in Histories
               PROVE  Numbers(hist[k]) \subseteq client.got \cup skipped \cup {sending[k]}
    BY DEF ClientHasAll
  <2>1. client.next = Len(Replayed) + 1 /\ client.next - 1 = Len(Replayed)
    BY <1>1 DEF Copied
  <2>2. \A i \in 1..Len(Replayed) :
           Numbers(hist[Replayed[i]]) \subseteq client.got \cup skipped \cup {sending[Replayed[i]]}
    BY <1>1, <2>1 DEF Copied
  <2> QED
    BY <1>1, <2>2
<1> QED
  BY <1>1, <1>6, <1>7 DEF HistoryInv, CountKept, Stored

\* However the tasks of a rig interleave, wherever the server stops and whatever the
\* client copies meanwhile: the count of the decoder histories is their entries but for
\* what is owed, the store keeps what a flush has seen, and a client has every entry.
THEOREM HistoriesHold == HistorySpec => []HistoryInv
<1>1. HistoryInit => HistInd
  BY HistStarts
<1>2. HistInd /\ [HistoryNext]_historyVars => HistInd'
  BY HistSteps
<1>3. HistInd => HistoryInv
  BY HistGives
<1> QED
  BY <1>1, <1>2, <1>3, PTL DEF HistorySpec

(***************************************************************************)
(* The framing of AIS and APRS.  While a frame that nothing has hit is on  *)
(* the air, the decoder holds what was sent of it: the collected bits, and *)
(* the ones since the last zero.  Of the flag after it the decoder collects*)
(* the first zero too, which the rounding to whole bytes drops.            *)
(***************************************************************************)
Bits == {0, 1}
Place == [part : {"noise", "flag", "frame", "over"}, number : 1..Len(sent) + 1, at : Nat \ {0},
          run : 0..5, level : Bits]

\* Where the station may be.
PlaceOK(d) ==
    /\ d \in Place
    /\ d.part = "noise" => d.at \in 1..Len(noise) /\ d.number = 1
    /\ d.part = "flag" => d.at \in 1..8 /\ d.run = 0
    /\ d.part = "frame" => /\ d.number \in 1..Len(sent) /\ d.at \in 1..Len(sent[d.number]) + 1
                           /\ d.at > Len(sent[d.number]) => d.run = 5
    /\ d.part = "over" => d.number = Len(sent) + 1

FoundFrame == [bits : Seq(Bits), of : SUBSET Int]
HdlcTyped ==
    /\ demod \in {"ais", "aprs"} /\ noise \in Seq(Bits) /\ sent \in Seq(Payloads) /\ PlaceOK(due)
    /\ prev_raw_bit \in Bits /\ ones \in Nat /\ in_frame \in BOOLEAN /\ frame_bits \in Seq(Bits)
    /\ frames \in Seq(FoundFrame) /\ slips \in 0..MaxSlips

\* The decoder compares the next symbol with the one that was sent before it.
Aligned == due.part # "over" => prev_raw_bit = due.level \/ Belongs(due) \subseteq disturbed

\* The first n bits of frame i are collected, but for the ones since the last zero.
Received(i, n) ==
    /\ in_frame /\ Len(frame_bits) + ones = n
    /\ \A m \in 1..n : IF m <= Len(frame_bits) THEN frame_bits[m] = sent[i][m] ELSE sent[i][m] = 1
WithZero(i) ==
    /\ in_frame /\ Len(frame_bits) = Len(sent[i]) + 1
    /\ \A m \in 1..Len(sent[i]) : frame_bits[m] = sent[i][m]

InStepAt(i) ==
    /\ due.part = "frame" /\ due.number = i => Received(i, due.at - 1) /\ ones = due.run
    /\ due.part = "flag" /\ due.number = i + 1 =>
          IF due.at = 1 THEN Received(i, Len(sent[i])) /\ ones <= 4 ELSE WithZero(i)
    /\ due.part = "flag" /\ i \in Belongs(due) /\ due.at > 1 => ones = due.at - 2
InStep == \A i \in DOMAIN sent \ disturbed : InStepAt(i)

Exact(i) ==
    IF Len(sent[i]) \div ByteBits >= Shortest[demod]
    THEN \E n \in DOMAIN frames : FoundFor(i) = {n} /\ frames[n].bits = sent[i]
    ELSE FoundFor(i) = {}
FoundAll == \A i \in DOMAIN sent \ disturbed : IF Passed(i) THEN Exact(i) ELSE FoundFor(i) = {}

HdlcInd == HdlcTyped /\ Aligned /\ InStep /\ FoundAll

-----------------------------------------------------------------------------
LEMMA Sent ==
    ASSUME HdlcTyped
    PROVE  /\ Len(sent) \in Nat /\ DOMAIN sent = 1..Len(sent)
           /\ \A i \in DOMAIN sent : /\ sent[i] \in Payloads /\ sent[i] \in Seq(Bits)
                                     /\ Len(sent[i]) \in Nat /\ Len(sent[i]) % ByteBits = 0
                                     /\ \A m \in 1..Len(sent[i]) : sent[i][m] \in Bits
           /\ Len(noise) \in Nat /\ \A m \in 1..Len(noise) : noise[m] \in Bits
           /\ Len(frame_bits) \in Nat /\ \A m \in 1..Len(frame_bits) : frame_bits[m] \in Bits
<1>1. sent \in Seq(Payloads) /\ noise \in Seq(Bits) /\ frame_bits \in Seq(Bits)
  BY DEF HdlcTyped
<1>2. Len(sent) \in Nat /\ DOMAIN sent = 1..Len(sent) /\ \A i \in DOMAIN sent : sent[i] \in Payloads
  BY <1>1, LenProperties
<1>3. \A p \in Payloads : p \in Seq(Bits) /\ Len(p) % ByteBits = 0
  BY HdlcAssumption DEF HdlcAssumption, Bits
<1>4. \A s \in Seq(Bits) : Len(s) \in Nat /\ \A m \in 1..Len(s) : s[m] \in Bits
  BY LenProperties
<1> QED
  BY <1>1, <1>2, <1>3, <1>4

LEMMA FlagBits == /\ \A k \in 1..8 : Flag[k] \in Bits
                  /\ Flag[1] = 0 /\ Flag[8] = 0 /\ \A k \in 2..7 : Flag[k] = 1
<1>1. /\ Flag[1] = 0 /\ Flag[2] = 1 /\ Flag[3] = 1 /\ Flag[4] = 1 /\ Flag[5] = 1 /\ Flag[6] = 1
      /\ Flag[7] = 1 /\ Flag[8] = 0
  BY DEF Flag
<1>2. 1..8 = {1, 2, 3, 4, 5, 6, 7, 8} /\ 2..7 = {2, 3, 4, 5, 6, 7}
  OBVIOUS
<1> HIDE DEF Flag
<1> QED
  BY <1>1, <1>2 DEF Bits

\* The next bit.
LEMMA BitIs ==
    ASSUME HdlcTyped, due.part # "over"
    PROVE  /\ Bit \in Bits /\ Keyed(Bit) \in Bits /\ (Keyed(Bit) = due.level <=> Bit = 1)
           /\ due.part = "flag" => Bit = Flag[due.at]
           /\ due.part = "frame" => IF due.run = 5 THEN Bit = 0
                                    ELSE Bit = sent[due.number][due.at] /\ due.at <= Len(sent[due.number])
<1>1. PlaceOK(due) /\ due \in Place
  BY DEF HdlcTyped, PlaceOK
<1>2. Bit \in Bits
  <2>1. CASE due.part = "noise"
    <3>1. Bit = noise[due.at]
      BY <2>1 DEF Bit
    <3> QED
      BY <1>1, <2>1, <3>1, Sent DEF PlaceOK
  <2>2. CASE due.part = "flag"
    <3>1. Bit = Flag[due.at]
      BY <2>2 DEF Bit
    <3> QED
      BY <1>1, <2>2, <3>1, FlagBits DEF PlaceOK
  <2>3. CASE due.part = "frame" /\ due.run = 5
    BY <2>3 DEF Bit, Bits
  <2>4. CASE due.part = "frame" /\ due.run # 5
    <3>1. Bit = sent[due.number][due.at]
      BY <2>4 DEF Bit
    <3>2. due.number \in DOMAIN sent /\ due.at \in 1..Len(sent[due.number])
      BY <1>1, <2>4, Sent DEF PlaceOK
    <3> QED
      BY <3>1, <3>2, Sent
  <2> QED
    BY <1>1, <2>1, <2>2, <2>3, <2>4 DEF Place
<1>3. Keyed(Bit) \in Bits /\ (Keyed(Bit) = due.level <=> Bit = 1)
  BY <1>1, <1>2 DEF Keyed, Place, Bits
<1>4. due.part = "flag" => Bit = Flag[due.at]
  BY DEF Bit
<1>5. due.part = "frame" => IF due.run = 5 THEN Bit = 0
                            ELSE Bit = sent[due.number][due.at] /\ due.at <= Len(sent[due.number])
  <2> SUFFICES ASSUME due.part = "frame"
               PROVE  IF due.run = 5 THEN Bit = 0
                      ELSE Bit = sent[due.number][due.at] /\ due.at <= Len(sent[due.number])
    OBVIOUS
  <2>1. due.run = 5 => Bit = 0
    BY DEF Bit
  <2>2. due.run # 5 => Bit = sent[due.number][due.at]
    BY DEF Bit
  <2>3. due.run # 5 => due.at <= Len(sent[due.number])
    BY <1>1, Sent DEF PlaceOK
  <2> QED
    BY <2>1, <2>2, <2>3
<1> QED
  BY <1>2, <1>3, <1>4, <1>5

\* Where a frame goes on.
LEMMA FrameGoesOn ==
    ASSUME HdlcTyped, NEW n \in DOMAIN sent, NEW at \in 1..Len(sent[n]) + 1, NEW run \in 0..5, NEW level \in Bits
    PROVE  /\ PlaceOK(FrameFrom(n, at, run, level)) /\ FrameFrom(n, at, run, level).level = level
           /\ \/ FrameFrom(n, at, run, level) = [part |-> "frame", number |-> n, at |-> at, run |-> run, level |-> level]
              \/ /\ FrameFrom(n, at, run, level) = FlagFrom(n + 1, level)
                 /\ at = Len(sent[n]) + 1 /\ run # 5
<1>1. n \in 1..Len(sent) /\ Len(sent) \in Nat /\ Len(sent[n]) \in Nat /\ n + 1 \in 1..Len(sent) + 1
  BY Sent
<1>2. CASE at > Len(sent[n]) /\ run # 5
  <2>1. FrameFrom(n, at, run, level) = [part |-> "flag", number |-> n + 1, at |-> 1, run |-> 0, level |-> level]
    BY <1>2 DEF FrameFrom, FlagFrom
  <2>2. at = Len(sent[n]) + 1
    BY <1>1, <1>2
  <2> QED
    BY <1>1, <1>2, <2>1, <2>2 DEF PlaceOK, Place, FlagFrom
<1>3. CASE ~(at > Len(sent[n]) /\ run # 5)
  <2>1. FrameFrom(n, at, run, level) = [part |-> "frame", number |-> n, at |-> at, run |-> run, level |-> level]
    BY <1>3 DEF FrameFrom
  <2>2. at \in Nat \ {0} /\ n \in 1..Len(sent) + 1
    BY <1>1
  <2>3. at > Len(sent[n]) => run = 5
    BY <1>3
  <2> QED
    BY <1>1, <2>1, <2>2, <2>3 DEF PlaceOK, Place
<1> QED
  BY <1>2, <1>3

LEMMA OnIs ==
    ASSUME NEW d \in Place, NEW level
    PROVE  [d EXCEPT !.at = @ + 1, !.level = level]
             = [part |-> d.part, number |-> d.number, at |-> d.at + 1, run |-> d.run, level |-> level]
<1> DEFINE r == [part |-> d.part, number |-> d.number, at |-> d.at, run |-> d.run, level |-> d.level]
<1>1. d = r
  BY DEF Place
<1>2. [r EXCEPT !.at = @ + 1]
        = [part |-> d.part, number |-> d.number, at |-> d.at + 1, run |-> d.run, level |-> d.level]
  OBVIOUS
<1>3. [[part |-> d.part, number |-> d.number, at |-> d.at + 1, run |-> d.run, level |-> d.level]
         EXCEPT !.level = level]
        = [part |-> d.part, number |-> d.number, at |-> d.at + 1, run |-> d.run, level |-> level]
  OBVIOUS
<1>4. [[d EXCEPT !.at = @ + 1] EXCEPT !.level = level]
        = [part |-> d.part, number |-> d.number, at |-> d.at + 1, run |-> d.run, level |-> level]
  BY <1>1, <1>2, <1>3
<1> QED
  BY <1>4

\* Where the station goes from noise, within a flag, from its end, and from a bit of a frame.
LEMMA StationMoves ==
    ASSUME HdlcTyped, Transmits
    PROVE  LET level == Keyed(Bit)  n == due.number IN
           /\ PlaceOK(due') /\ due'.level = level /\ due.part # "over"
           /\ due.part = "noise" => \/ due' = FlagFrom(1, level)
                                    \/ due'.part = "noise" /\ due'.number = n
           /\ due.part = "flag" /\ due.at # 8 => due'.part = "flag" /\ due'.number = n /\ due'.at = due.at + 1
           /\ due.part = "flag" /\ due.at = 8 =>
                 IF n \in DOMAIN sent THEN due' = FrameFrom(n, 1, 0, level)
                 ELSE due'.part = "over" /\ n = Len(sent) + 1
           /\ due.part = "frame" =>
                 /\ n \in DOMAIN sent
                 /\ due.run = 5 => due' = FrameFrom(n, due.at, 0, level)
                 /\ due.run # 5 =>
                       due' = FrameFrom(n, due.at + 1, IF Bit = 1 THEN due.run + 1 ELSE 0, level)
<1> DEFINE level == Keyed(Bit)  n == due.number  on == [due EXCEPT !.at = @ + 1, !.level = level]
           next == CASE due.part = "noise" -> IF due.at = Len(noise) THEN FlagFrom(1, level) ELSE on
                     [] due.part = "flag" /\ due.at < 8 -> on
                     [] due.part = "flag" /\ due.at = 8 ->
                           IF n \in DOMAIN sent THEN FrameFrom(n, 1, 0, level)
                           ELSE [on EXCEPT !.part = "over"]
                     [] due.part = "frame" /\ due.run = 5 -> FrameFrom(n, due.at, 0, level)
                     [] OTHER -> FrameFrom(n, due.at + 1, IF Bit = 1 THEN due.run + 1 ELSE 0, level)
<1>1. due.part # "over" /\ due' = next
  BY DEF Transmits
<1>2. /\ PlaceOK(due) /\ due \in Place /\ Len(sent) \in Nat /\ DOMAIN sent = 1..Len(sent)
      /\ \A i \in DOMAIN sent : Len(sent[i]) \in Nat
      /\ Len(noise) \in Nat
  BY Sent DEF HdlcTyped, PlaceOK
<1>3. level \in Bits /\ Bit \in Bits
  BY <1>1, BitIs
<1>4. /\ on = [part |-> due.part, number |-> n, at |-> due.at + 1, run |-> due.run, level |-> level]
      /\ due.part \in {"noise", "flag", "frame"} /\ n \in 1..Len(sent) + 1 /\ due.at \in Nat \ {0}
      /\ due.run \in 0..5
  <2>1. on = [part |-> due.part, number |-> n, at |-> due.at + 1, run |-> due.run, level |-> level]
    <3> HIDE DEF level, next
    <3> QED
      BY <1>2, OnIs
  <2> QED
    BY <1>1, <1>2, <2>1 DEF Place
<1> HIDE DEF level, on
<1>5. CASE due.part = "noise"
  <2>1. next = IF due.at = Len(noise) THEN FlagFrom(1, level) ELSE on
    BY <1>5
  <2> HIDE DEF next
  <2>2. PlaceOK(FlagFrom(1, level)) /\ FlagFrom(1, level).level = level
    BY <1>2, <1>3 DEF PlaceOK, Place, FlagFrom
  <2>3. CASE due.at = Len(noise)
    BY <1>1, <1>5, <2>1, <2>2, <2>3 DEF level
  <2>4. CASE due.at # Len(noise)
    <3>1. due.at + 1 \in 1..Len(noise)
      BY <1>2, <1>5, <2>4 DEF PlaceOK
    <3>2. on.part = "noise" /\ on.number = n /\ on.at = due.at + 1 /\ on.level = level
      BY <1>4, <1>5
    <3>3. PlaceOK(on)
      <4>1. n = 1 /\ due.at + 1 \in Nat \ {0}
        BY <1>2, <1>4, <1>5 DEF PlaceOK
      <4> HIDE DEF n
      <4>2. on \in Place
        BY <1>3, <1>4, <4>1 DEF Place
      <4> QED
        BY <1>5, <3>1, <3>2, <4>1, <4>2 DEF PlaceOK
    <3> QED
      BY <1>1, <1>5, <2>1, <2>4, <3>2, <3>3 DEF level
  <2> QED
    BY <2>3, <2>4
<1>6. CASE due.part = "flag" /\ due.at # 8
  <2>1. due.at \in 1..8 /\ due.at < 8 /\ due.at + 1 \in 1..8 /\ due.run = 0
    BY <1>2, <1>6 DEF PlaceOK
  <2>2. next = on
    BY <1>6, <2>1
  <2> HIDE DEF next
  <2>3. PlaceOK(on) /\ on.part = "flag" /\ on.number = n /\ on.at = due.at + 1 /\ on.level = level
    BY <1>3, <1>4, <1>6, <2>1 DEF PlaceOK, Place
  <2> QED
    BY <1>1, <1>6, <2>2, <2>3 DEF level
<1>7. CASE due.part = "flag" /\ due.at = 8
  <2>1. next = IF n \in DOMAIN sent THEN FrameFrom(n, 1, 0, level) ELSE [on EXCEPT !.part = "over"]
    BY <1>7
  <2> HIDE DEF next
  <2>2. CASE n \in DOMAIN sent
    <3>1. 1 \in 1..Len(sent[n]) + 1 /\ 0 \in 0..5
      BY <1>2, <2>2
    <3> QED
      BY <1>1, <1>3, <1>7, <2>1, <2>2, <3>1, FrameGoesOn DEF level
  <2>3. CASE n \notin DOMAIN sent
    <3>1. n = Len(sent) + 1
      BY <1>2, <1>4, <2>3
    <3>2. next = [part |-> "over", number |-> n, at |-> due.at + 1, run |-> due.run, level |-> level]
      BY <1>4, <2>1, <2>3
    <3>3. PlaceOK(next) /\ next.part = "over" /\ next.level = level
      BY <1>3, <1>4, <3>1, <3>2 DEF PlaceOK, Place
    <3> QED
      BY <1>1, <1>7, <2>3, <3>1, <3>3 DEF level
  <2> QED
    BY <2>2, <2>3
<1>8. CASE due.part = "frame"
  <2>1. n \in DOMAIN sent /\ due.at \in 1..Len(sent[n]) + 1 /\ (due.at > Len(sent[n]) => due.run = 5)
    BY <1>2, <1>8 DEF PlaceOK
  <2>2. CASE due.run = 5
    <3>1. next = FrameFrom(n, due.at, 0, level)
      BY <1>8, <2>2
    <3> HIDE DEF next
    <3>2. 0 \in 0..5
      OBVIOUS
    <3>3. PlaceOK(FrameFrom(n, due.at, 0, level)) /\ FrameFrom(n, due.at, 0, level).level = level
      BY <1>3, <2>1, <3>2, FrameGoesOn
    <3> QED
      BY <1>1, <1>8, <2>1, <2>2, <3>1, <3>3 DEF level
  <2>3. CASE due.run # 5
    <3> DEFINE run == IF Bit = 1 THEN due.run + 1 ELSE 0
    <3>1. next = FrameFrom(n, due.at + 1, run, level)
      BY <1>8, <2>3
    <3> HIDE DEF next
    <3>2. run \in 0..5 /\ due.at + 1 \in 1..Len(sent[n]) + 1
      BY SMTT(30), <1>2, <1>4, <2>1, <2>3
    <3>3. PlaceOK(FrameFrom(n, due.at + 1, run, level)) /\ FrameFrom(n, due.at + 1, run, level).level = level
      BY <1>3, <2>1, <3>2, FrameGoesOn
    <3> QED
      BY <1>1, <1>8, <2>1, <2>3, <3>1, <3>3 DEF level
  <2> QED
    BY <2>2, <2>3
<1> QED
  BY <1>4, <1>5, <1>6, <1>7, <1>8

\* What belongs where, and which frames are through after a bit.
LEMMA PassedMoves ==
    ASSUME HdlcTyped, Transmits, UNCHANGED sent, NEW i \in DOMAIN sent
    PROVE  /\ ~(due.part = "flag" /\ due.number = i + 1 /\ due.at = 8) => (Passed(i)' <=> Passed(i))
           /\ due.part = "flag" /\ due.number = i + 1 => ~Passed(i) /\ i \in Belongs(due)
           /\ due.part = "flag" /\ due.number = i + 1 /\ due.at = 8 => Passed(i)'
<1>1. /\ PlaceOK(due) /\ due \in Place /\ Len(sent) \in Nat /\ i \in 1..Len(sent) /\ DOMAIN sent = 1..Len(sent)
      /\ \A j \in DOMAIN sent : Len(sent[j]) \in Nat
      /\ PlaceOK(due') /\ due.part # "over" /\ Keyed(Bit) \in Bits
  BY Sent, StationMoves, BitIs DEF HdlcTyped, PlaceOK
<1>2. due.number \in Nat /\ due.at \in Nat /\ due'.number \in Nat /\ i \in Nat /\ due.run \in 0..5
  BY <1>1 DEF PlaceOK, Place
<1>3. /\ Passed(i) <=> due.number > i + 1 \/ (due.part = "frame" /\ due.number = i + 1)
      /\ Passed(i)' <=> due'.part = "over" \/ due'.number > i + 1 \/ (due'.part = "frame" /\ due'.number = i + 1)
  BY <1>1 DEF Passed
<1>4. \A n, level : FlagFrom(n, level).part = "flag" /\ FlagFrom(n, level).number = n
  BY DEF FlagFrom
<1>5. ASSUME due.number \in DOMAIN sent, NEW at \in 1..Len(sent[due.number]) + 1, NEW run \in 0..5,
             due' = FrameFrom(due.number, at, run, Keyed(Bit))
      PROVE  \/ due'.part = "frame" /\ due'.number = due.number
             \/ due'.part = "flag" /\ due'.number = due.number + 1
  <2> DEFINE n == due.number  level == Keyed(Bit)
  <2>1. n \in DOMAIN sent /\ level \in Bits /\ at \in 1..Len(sent[n]) + 1
    BY <1>1, <1>5
  <2> HIDE DEF n, level
  <2>2. \/ FrameFrom(n, at, run, level) = [part |-> "frame", number |-> n, at |-> at, run |-> run, level |-> level]
        \/ FrameFrom(n, at, run, level) = FlagFrom(n + 1, level)
    BY <2>1, FrameGoesOn
  <2>3. due' = FrameFrom(n, at, run, level)
    BY <1>5 DEF n, level
  <2>4. (due'.part = "frame" /\ due'.number = n) \/ (due'.part = "flag" /\ due'.number = n + 1)
    <3>1. CASE FrameFrom(n, at, run, level)
                 = [part |-> "frame", number |-> n, at |-> at, run |-> run, level |-> level]
      <4>1. due'.part = "frame" /\ due'.number = n
        BY <2>3, <3>1
      <4> QED
        BY <4>1
    <3>2. CASE FrameFrom(n, at, run, level) = FlagFrom(n + 1, level)
      <4>1. due'.part = "flag" /\ due'.number = n + 1
        BY <1>4, <2>3, <3>2
      <4> QED
        BY <4>1
    <3> QED
      BY <2>2, <3>1, <3>2
  <2> QED
    BY <2>4 DEF n
<1>6. CASE due.part = "noise"
  <2>1. due'.part \in {"flag", "noise"} /\ (due'.number = 1 \/ due'.number = due.number)
    BY <1>4, <1>6, StationMoves
  <2>2. due.number = 1
    BY <1>1, <1>6 DEF PlaceOK
  <2> QED
    BY <1>2, <1>3, <1>6, <2>1, <2>2
<1>7. CASE due.part = "flag" /\ due.at # 8
  <2>1. due'.part = "flag" /\ due'.number = due.number
    BY <1>7, StationMoves
  <2> QED
    BY <1>2, <1>3, <1>7, <2>1 DEF Belongs
<1>8. CASE due.part = "flag" /\ due.at = 8
  <2>1. CASE due.number \in DOMAIN sent
    <3>1. due' = FrameFrom(due.number, 1, 0, Keyed(Bit)) /\ 1 \in 1..Len(sent[due.number]) + 1 /\ 0 \in 0..5
      BY <1>1, <1>8, <2>1, StationMoves
    <3>2. \/ due'.part = "frame" /\ due'.number = due.number
          \/ due'.part = "flag" /\ due'.number = due.number + 1
      BY <1>5, <2>1, <3>1
    <3> QED
      BY <1>2, <1>3, <1>8, <3>2 DEF Belongs
  <2>2. CASE due.number \notin DOMAIN sent
    <3>1. due'.part = "over" /\ due.number = Len(sent) + 1
      BY <1>8, <2>2, StationMoves
    <3> QED
      BY <1>1, <1>2, <1>3, <1>8, <3>1 DEF Belongs
  <2> QED
    BY <2>1, <2>2
<1>9. CASE due.part = "frame"
  <2>1. /\ due.number \in DOMAIN sent /\ due.at \in 1..Len(sent[due.number]) + 1
        /\ (due.at > Len(sent[due.number]) => due.run = 5)
    BY <1>1, <1>9 DEF PlaceOK
  <2>2. \E at \in 1..Len(sent[due.number]) + 1, run \in 0..5 : due' = FrameFrom(due.number, at, run, Keyed(Bit))
    <3>1. CASE due.run = 5
      <4>1. due' = FrameFrom(due.number, due.at, 0, Keyed(Bit))
        BY <1>9, <3>1, StationMoves
      <4>2. 0 \in 0..5
        OBVIOUS
      <4> QED
        BY <2>1, <4>1, <4>2
    <3>2. CASE due.run # 5
      <4> DEFINE run == IF Bit = 1 THEN due.run + 1 ELSE 0
      <4>1. due' = FrameFrom(due.number, due.at + 1, run, Keyed(Bit))
        BY <1>9, <3>2, StationMoves
      <4>2. run \in 0..5
        BY <1>2, <3>2
      <4>3. PICK l \in Nat : l = Len(sent[due.number])
        BY <1>1, <2>1
      <4>4. due.at \in 1..l + 1 /\ (due.at > l => due.run = 5)
        BY <2>1, <4>3
      <4>5. due.at + 1 \in 1..l + 1
        BY <3>2, <4>4
      <4> HIDE DEF run
      <4> QED
        BY <4>1, <4>2, <4>3, <4>5
    <3> QED
      BY <3>1, <3>2
  <2>3. \/ due'.part = "frame" /\ due'.number = due.number
        \/ due'.part = "flag" /\ due'.number = due.number + 1
    BY <1>5, <2>1, <2>2
  <2> QED
    BY <1>2, <1>3, <1>9, <2>3
<1> QED
  BY <1>1, <1>6, <1>7, <1>8, <1>9 DEF PlaceOK, Place

-----------------------------------------------------------------------------
(* What a symbol does to the decoder.                                       *)
LEMMA OnesAre ==
    ASSUME NEW n \in Nat
    PROVE  /\ Ones(n) \in Seq(Bits) /\ Len(Ones(n)) = n /\ \A m \in 1..n : Ones(n)[m] = 1
           /\ Append(Ones(n), 0) \in Seq(Bits) /\ Len(Append(Ones(n), 0)) = n + 1
           /\ Append(Ones(n), 0)[n + 1] = 0 /\ \A m \in 1..n : Append(Ones(n), 0)[m] = 1
<1>1. Ones(n) \in [1..n -> Bits] /\ \A m \in 1..n : Ones(n)[m] = 1
  BY DEF Ones, Bits
<1>2. Ones(n) \in Seq(Bits) /\ Len(Ones(n)) = n
  BY <1>1, FunctionSeq
<1>3. 0 \in Bits
  BY DEF Bits
<1>4. /\ Append(Ones(n), 0) \in Seq(Bits) /\ Len(Append(Ones(n), 0)) = Len(Ones(n)) + 1
      /\ Append(Ones(n), 0)[Len(Ones(n)) + 1] = 0
      /\ \A m \in 1..Len(Ones(n)) : Append(Ones(n), 0)[m] = Ones(n)[m]
  BY <1>2, <1>3, AppendProperties
<1> HIDE DEF Ones
<1> QED
  BY <1>1, <1>2, <1>4

\* The decoder collects bits.
LEMMA CollectedIs ==
    ASSUME HdlcTyped, NEW bits \in Seq(Bits), Collected(bits)
    PROVE  /\ UNCHANGED <<in_frame, frames>> /\ frame_bits' \in Seq(Bits)
           /\ in_frame => /\ Len(frame_bits') = Len(frame_bits) + Len(bits)
                          /\ Len(frame_bits) \in Nat /\ Len(bits) \in Nat
                          /\ \A m \in 1..Len(frame_bits) : frame_bits'[m] = frame_bits[m]
                          /\ \A m \in 1..Len(bits) : frame_bits'[Len(frame_bits) + m] = bits[m]
<1>1. /\ frame_bits' = IF in_frame THEN frame_bits \o bits ELSE frame_bits
      /\ UNCHANGED <<in_frame, frames>> /\ frame_bits \in Seq(Bits)
      /\ Len(frame_bits) \in Nat /\ Len(bits) \in Nat
  BY LenProperties DEF Collected, HdlcTyped
<1>2. /\ frame_bits \o bits \in Seq(Bits) /\ Len(frame_bits \o bits) = Len(frame_bits) + Len(bits)
      /\ \A m \in 1..Len(frame_bits) + Len(bits) :
            (frame_bits \o bits)[m] = IF m <= Len(frame_bits) THEN frame_bits[m] ELSE bits[m - Len(frame_bits)]
  BY <1>1, ConcatProperties
<1>3. \A m \in 1..Len(frame_bits) : (frame_bits \o bits)[m] = frame_bits[m]
  BY <1>1, <1>2
<1>4. \A m \in 1..Len(bits) : (frame_bits \o bits)[Len(frame_bits) + m] = bits[m]
  <2> SUFFICES ASSUME NEW m \in 1..Len(bits)
               PROVE  (frame_bits \o bits)[Len(frame_bits) + m] = bits[m]
    OBVIOUS
  <2> DEFINE k == Len(frame_bits) + m
  <2>1. k \in 1..Len(frame_bits) + Len(bits) /\ ~(k <= Len(frame_bits)) /\ k - Len(frame_bits) = m
    BY <1>1
  <2> HIDE DEF k
  <2>2. (frame_bits \o bits)[k] = bits[m]
    BY <1>2, <2>1
  <2> QED
    BY <2>2 DEF k
<1> QED
  BY <1>1, <1>2, <1>3, <1>4

LEMMA Rounding ==
    ASSUME NEW L \in Nat, NEW B \in Nat, B >= 2
    PROVE  /\ L % B \in 0..L /\ L \div B \in Nat
           /\ L % B = 0 => (L + 1) \div B = L \div B /\ (L + 1) % B = 1
<1>1. L % B \in 0..L /\ L \div B \in Nat
  OBVIOUS
<1>2. ASSUME L % B = 0 PROVE (L + 1) \div B = L \div B
  BY <1>2
<1>3. ASSUME L % B = 0 PROVE (L + 1) % B = 1
  <2>1. L = B * (L \div B) + (L % B)
    OBVIOUS
  <2>2. L + 1 = B * ((L + 1) \div B) + ((L + 1) % B)
    OBVIOUS
  <2>3. B * ((L + 1) \div B) = B * (L \div B) /\ B * (L \div B) \in Int /\ (L + 1) % B \in Int
    BY <1>1, <1>2, <1>3
  <2> QED
    BY <1>3, <2>1, <2>2, <2>3
<1> QED
  BY <1>1, <1>2, <1>3

\* Whole bytes; and of a frame and the zero of its flag, the frame.
LEMMA WholeAre ==
    ASSUME NEW bits \in Seq(Bits)
    PROVE  /\ WholeBytes(bits) \in Seq(Bits)
           /\ \A p \in Payloads :
                 Len(bits) = Len(p) + 1 /\ (\A m \in 1..Len(p) : bits[m] = p[m]) =>
                     WholeBytes(bits) = p /\ Len(bits) \div ByteBits = Len(p) \div ByteBits
<1>1. ByteBits \in Nat /\ ByteBits >= 2 /\ Payloads \subseteq Seq(Bits)
      /\ \A p \in Payloads : Len(p) % ByteBits = 0
  BY HdlcAssumption DEF HdlcAssumption, Bits
<1>2. Len(bits) \in Nat /\ \A m \in 1..Len(bits) : bits[m] \in Bits
  BY LenProperties
<1> DEFINE whole == Len(bits) - (Len(bits) % ByteBits)
<1>3. whole \in 0..Len(bits)
  <2>1. Len(bits) % ByteBits \in 0..Len(bits)
    BY <1>1, <1>2, Rounding
  <2> QED
    BY <1>2, <2>1
<1>4. /\ WholeBytes(bits) \in Seq(Bits) /\ Len(WholeBytes(bits)) = whole
      /\ \A m \in 1..whole : WholeBytes(bits)[m] = bits[m]
  <2>1. WholeBytes(bits) = SubSeq(bits, 1, whole)
    BY DEF WholeBytes
  <2> HIDE DEF whole
  <2>2. \A m \in 1..whole : bits[m] \in Bits
    BY <1>2, <1>3
  <2>3. /\ SubSeq(bits, 1, whole) \in Seq(Bits)
        /\ Len(SubSeq(bits, 1, whole)) = IF 1 <= whole THEN whole - 1 + 1 ELSE 0
        /\ \A m \in 1..whole - 1 + 1 : SubSeq(bits, 1, whole)[m] = bits[1 + m - 1]
    BY <1>2, <1>3, <2>2, SubSeqProperties
  <2>4. Len(SubSeq(bits, 1, whole)) = whole
    BY <1>2, <1>3, <2>3
  <2>5. ASSUME NEW m \in 1..whole PROVE SubSeq(bits, 1, whole)[m] = bits[m]
    <3>1. m \in 1..whole - 1 + 1 /\ 1 + m - 1 = m
      BY <1>2, <1>3
    <3> QED
      BY <2>3, <3>1
  <2>6. SubSeq(bits, 1, whole) \in Seq(Bits)
    BY <2>3
  <2> QED
    BY <2>1, <2>4, <2>5, <2>6
<1>5. ASSUME NEW p \in Payloads, Len(bits) = Len(p) + 1, \A m \in 1..Len(p) : bits[m] = p[m]
      PROVE  WholeBytes(bits) = p /\ Len(bits) \div ByteBits = Len(p) \div ByteBits
  <2>1. p \in Seq(Bits) /\ Len(p) \in Nat /\ Len(p) % ByteBits = 0
    BY <1>1, LenProperties
  <2>2. Len(bits) % ByteBits = 1 /\ Len(bits) \div ByteBits = Len(p) \div ByteBits
    <3>1. (Len(p) + 1) \div ByteBits = Len(p) \div ByteBits /\ (Len(p) + 1) % ByteBits = 1
      BY <1>1, <2>1, Rounding
    <3> QED
      BY <1>5, <3>1
  <2>3. whole = Len(p)
    BY <1>5, <2>1, <2>2
  <2> HIDE DEF whole
  <2>4. Len(WholeBytes(bits)) = Len(p) /\ \A m \in 1..Len(p) : WholeBytes(bits)[m] = p[m]
    BY <1>4, <1>5, <2>3
  <2>5. WholeBytes(bits) = p
    BY <1>4, <2>1, <2>4, SeqEqual
  <2> QED
    BY <2>2, <2>5
<1> QED
  BY <1>4, <1>5

\* A flag ends a frame.
LEMMA FlaggedIs ==
    ASSUME HdlcTyped, NEW numbers \in SUBSET Int, Flagged(numbers)
    PROVE  /\ in_frame' = TRUE /\ frame_bits' = <<>> /\ frame_bits' \in Seq(Bits) /\ Len(frame_bits') = 0
           /\ frames' \in Seq(FoundFrame)
           /\ frames' = IF in_frame /\ Len(frame_bits) \div ByteBits >= Shortest[demod]
                        THEN Append(frames, [bits |-> WholeBytes(frame_bits), of |-> numbers]) ELSE frames
<1>1. /\ frames' = IF in_frame THEN frames \o FrameOf(frame_bits, numbers) ELSE frames
      /\ frame_bits' = <<>> /\ in_frame' = TRUE
      /\ frames \in Seq(FoundFrame) /\ frame_bits \in Seq(Bits) /\ Len(frame_bits) \in Nat
      /\ demod \in {"ais", "aprs"}
  BY Sent DEF Flagged, HdlcTyped
<1>2. <<>> \in Seq(Bits) /\ Len(<<>>) = 0
  BY EmptySeq
<1> DEFINE f == [bits |-> WholeBytes(frame_bits), of |-> numbers]
<1>3. f \in FoundFrame
  BY <1>1, WholeAre DEF FoundFrame
<1>4. Len(frame_bits) \div ByteBits \in Int /\ Shortest[demod] \in Int
  <2>1. ByteBits \in Nat /\ ByteBits >= 2 /\ Shortest[demod] \in Nat
    BY <1>1, HdlcAssumption DEF HdlcAssumption
  <2>2. Len(frame_bits) \div ByteBits \in Nat
    BY <1>1, <2>1, Rounding
  <2> QED
    BY <2>1, <2>2
<1>5. FrameOf(frame_bits, numbers) = IF Len(frame_bits) \div ByteBits < Shortest[demod] THEN <<>> ELSE <<f>>
  BY DEF FrameOf
<1> HIDE DEF f
<1>6. frames \o <<>> = frames /\ frames \o <<f>> = Append(frames, f) /\ Append(frames, f) \in Seq(FoundFrame)
  BY <1>1, <1>3, AppendIsConcat, ConcatEmptySeq, AppendProperties
<1>7. frames' = IF in_frame /\ Len(frame_bits) \div ByteBits >= Shortest[demod] THEN Append(frames, f) ELSE frames
  <2>1. CASE in_frame /\ Len(frame_bits) \div ByteBits >= Shortest[demod]
    <3>1. ~(Len(frame_bits) \div ByteBits < Shortest[demod])
      BY <1>4, <2>1
    <3> QED
      BY <1>1, <1>5, <1>6, <2>1, <3>1
  <2>2. CASE in_frame /\ ~(Len(frame_bits) \div ByteBits >= Shortest[demod])
    <3>1. Len(frame_bits) \div ByteBits < Shortest[demod]
      BY <1>4, <2>2
    <3> QED
      BY <1>1, <1>5, <1>6, <2>2, <3>1
  <2>3. CASE ~in_frame
    BY <1>1, <2>3
  <2> QED
    BY <2>1, <2>2, <2>3
<1> QED
  BY <1>1, <1>2, <1>6, <1>7 DEF f

\* Whatever a symbol is, and whatever the decoder has heard before it.
LEMMA SymbolTypes ==
    ASSUME HdlcTyped, NEW level \in Bits, NEW numbers \in SUBSET Int, Symbol(level, numbers)
    PROVE  /\ prev_raw_bit' \in Bits /\ ones' \in Nat /\ in_frame' \in BOOLEAN /\ frame_bits' \in Seq(Bits)
           /\ frames' \in Seq(FoundFrame) /\ prev_raw_bit' = level
           /\ \/ frames' = frames
              \/ \E f \in FoundFrame : f.of = numbers /\ frames' = Append(frames, f)
<1>1. /\ prev_raw_bit \in Bits /\ ones \in Nat /\ in_frame \in BOOLEAN /\ frame_bits \in Seq(Bits)
      /\ frames \in Seq(FoundFrame) /\ prev_raw_bit' = level
  BY DEF HdlcTyped, Symbol
<1>2. CASE level = prev_raw_bit
  BY <1>1, <1>2 DEF Symbol
<1>3. CASE level # prev_raw_bit /\ ones >= 7
  <2>1. ones' = 0 /\ Aborted
    BY <1>1, <1>3 DEF Symbol
  <2>2. <<>> \in Seq(Bits)
    BY EmptySeq
  <2> QED
    BY <1>1, <2>1, <2>2 DEF Aborted
<1>4. CASE level # prev_raw_bit /\ ones = 6
  <2>1. ones' = 0 /\ Flagged(numbers)
    BY <1>1, <1>4 DEF Symbol
  <2>2. /\ in_frame' = TRUE /\ frame_bits' \in Seq(Bits) /\ frames' \in Seq(FoundFrame)
        /\ frames' = IF in_frame /\ Len(frame_bits) \div ByteBits >= Shortest[demod]
                     THEN Append(frames, [bits |-> WholeBytes(frame_bits), of |-> numbers]) ELSE frames
    BY <2>1, FlaggedIs
  <2>3. [bits |-> WholeBytes(frame_bits), of |-> numbers] \in FoundFrame
    BY <1>1, WholeAre DEF FoundFrame
  <2> QED
    BY <1>1, <2>1, <2>2, <2>3
<1>5. CASE level # prev_raw_bit /\ ones = 5
  <2>1. ones' = 0 /\ Collected(Ones(5))
    BY <1>1, <1>5 DEF Symbol
  <2>2. Ones(5) \in Seq(Bits)
    BY OnesAre
  <2>3. UNCHANGED <<in_frame, frames>> /\ frame_bits' \in Seq(Bits)
    BY <2>1, <2>2, CollectedIs
  <2> QED
    BY <1>1, <2>1, <2>3
<1>6. CASE level # prev_raw_bit /\ ones <= 4
  <2>1. ones' = 0 /\ Collected(Append(Ones(ones), 0))
    BY <1>1, <1>6 DEF Symbol
  <2>2. Append(Ones(ones), 0) \in Seq(Bits)
    BY <1>1, OnesAre
  <2>3. UNCHANGED <<in_frame, frames>> /\ frame_bits' \in Seq(Bits)
    BY <2>1, <2>2, CollectedIs
  <2> QED
    BY <1>1, <2>1, <2>3
<1> QED
  BY <1>1, <1>2, <1>3, <1>4, <1>5, <1>6

\* What is collected of a frame, after a one and after a zero.
LEMMA ReceivedGrows ==
    ASSUME HdlcTyped, NEW i \in DOMAIN sent, NEW n \in 0..Len(sent[i]), Received(i, n), UNCHANGED sent,
           NEW level \in Bits, NEW numbers \in SUBSET Int, Symbol(level, numbers)
    PROVE  /\ level = prev_raw_bit => ones' = ones + 1 /\ frames' = frames
           /\ level = prev_raw_bit /\ n < Len(sent[i]) /\ sent[i][n + 1] = 1 => Received(i, n + 1)'
           /\ level # prev_raw_bit /\ ones <= 5 => ones' = 0 /\ frames' = frames
           /\ level # prev_raw_bit /\ ones <= 4 =>
                 /\ n < Len(sent[i]) /\ sent[i][n + 1] = 0 => Received(i, n + 1)'
                 /\ n = Len(sent[i]) => WithZero(i)'
           /\ level # prev_raw_bit /\ ones = 5 => Received(i, n)'
<1>1. /\ ones \in Nat /\ Len(frame_bits) \in Nat /\ Len(sent[i]) \in Nat /\ n \in Nat /\ n <= Len(sent[i])
      /\ in_frame /\ Len(frame_bits) + ones = n
      /\ \A m \in 1..n : IF m <= Len(frame_bits) THEN frame_bits[m] = sent[i][m] ELSE sent[i][m] = 1
  BY Sent DEF HdlcTyped, Received
<1>2. ASSUME level = prev_raw_bit
      PROVE  /\ ones' = ones + 1 /\ UNCHANGED <<in_frame, frame_bits, frames>>
             /\ n < Len(sent[i]) /\ sent[i][n + 1] = 1 => Received(i, n + 1)'
  <2>1. ones' = ones + 1 /\ UNCHANGED <<in_frame, frame_bits, frames>>
    BY <1>2 DEF Symbol
  <2>2. ASSUME n < Len(sent[i]), sent[i][n + 1] = 1 PROVE Received(i, n + 1)'
    <3>1. Len(frame_bits) + (ones + 1) = n + 1 /\ ~(n + 1 <= Len(frame_bits))
      BY <1>1
    <3>2. \A m \in 1..n + 1 : m \in 1..n \/ m = n + 1
      BY <1>1
    <3> QED
      BY <1>1, <2>1, <2>2, <3>1, <3>2 DEF Received
  <2> QED
    BY <2>1, <2>2
<1>3. ASSUME level # prev_raw_bit, ones <= 4
      PROVE  /\ ones' = 0 /\ frames' = frames
             /\ n < Len(sent[i]) /\ sent[i][n + 1] = 0 => Received(i, n + 1)'
             /\ n = Len(sent[i]) => WithZero(i)'
  <2>1. ones' = 0 /\ Collected(Append(Ones(ones), 0))
    BY <1>1, <1>3 DEF Symbol
  <2>2. /\ Append(Ones(ones), 0) \in Seq(Bits) /\ Len(Append(Ones(ones), 0)) = ones + 1
        /\ Append(Ones(ones), 0)[ones + 1] = 0 /\ \A m \in 1..ones : Append(Ones(ones), 0)[m] = 1
    BY <1>1, OnesAre
  <2> DEFINE bits == Append(Ones(ones), 0)  l == Len(frame_bits)
  <2>3. /\ UNCHANGED <<in_frame, frames>> /\ Len(frame_bits') = l + Len(bits)
        /\ \A m \in 1..l : frame_bits'[m] = frame_bits[m]
        /\ \A m \in 1..Len(bits) : frame_bits'[l + m] = bits[m]
    BY <1>1, <2>1, <2>2, CollectedIs
  <2>4. /\ Len(frame_bits') = n + 1 /\ frame_bits'[n + 1] = 0 /\ \A m \in 1..n : frame_bits'[m] = sent[i][m]
    <3> HIDE DEF bits
    <3>1. Len(bits) = ones + 1 /\ bits[ones + 1] = 0 /\ \A m \in 1..ones : bits[m] = 1
      BY <2>2 DEF bits
    <3> HIDE DEF l
    <3>2. l \in Nat /\ l + ones = n /\ l + (ones + 1) = n + 1
      BY <1>1 DEF l
    <3>3. ones + 1 \in 1..Len(bits)
      BY <1>1, <3>1
    <3>4. frame_bits'[l + (ones + 1)] = 0
      BY <2>3, <3>1, <3>3
    <3>5. ASSUME NEW m \in 1..n PROVE frame_bits'[m] = sent[i][m]
      <4>1. CASE m <= l
        <5>1. m \in 1..l
          BY <1>1, <3>2, <4>1
        <5> QED
          BY <1>1, <2>3, <4>1, <5>1 DEF l
      <4>2. CASE ~(m <= l)
        <5> DEFINE d == m - l
        <5>1. d \in 1..ones /\ l + d = m
          BY <1>1, <3>2, <4>2
        <5>2. d \in 1..Len(bits)
          BY <1>1, <3>1, <5>1
        <5> HIDE DEF d
        <5>3. frame_bits'[l + d] = bits[d] /\ bits[d] = 1
          BY <2>3, <3>1, <5>1, <5>2
        <5>4. sent[i][m] = 1
          BY <1>1, <4>2 DEF l
        <5> QED
          BY <5>1, <5>3, <5>4
      <4> QED
        BY <4>1, <4>2
    <3> QED
      BY <2>3, <3>1, <3>2, <3>4, <3>5
  <2> HIDE DEF bits, l
  <2>5. ASSUME n < Len(sent[i]), sent[i][n + 1] = 0 PROVE Received(i, n + 1)'
    <3>1. \A m \in 1..n + 1 : frame_bits'[m] = sent[i][m] /\ m <= Len(frame_bits')
      <4>1. \A m \in 1..n + 1 : (m \in 1..n \/ m = n + 1) /\ m <= n + 1
        BY <1>1
      <4> QED
        BY <2>4, <2>5, <4>1
    <3>2. Len(frame_bits') + ones' = n + 1
      BY <1>1, <2>1, <2>4
    <3> QED
      BY <1>1, <2>3, <3>1, <3>2 DEF Received
  <2>6. ASSUME n = Len(sent[i]) PROVE WithZero(i)'
    BY <1>1, <2>3, <2>4, <2>6 DEF WithZero
  <2> QED
    BY <2>1, <2>3, <2>5, <2>6
<1>4. ASSUME level # prev_raw_bit, ones = 5
      PROVE  ones' = 0 /\ frames' = frames /\ Received(i, n)'
  <2>1. ones' = 0 /\ Collected(Ones(5))
    BY <1>1, <1>4 DEF Symbol
  <2>2. /\ Ones(5) \in Seq(Bits) /\ Len(Ones(5)) = 5 /\ \A m \in 1..5 : Ones(5)[m] = 1
    BY OnesAre
  <2> DEFINE bits == Ones(5)  l == Len(frame_bits)
  <2>3. /\ UNCHANGED <<in_frame, frames>> /\ Len(frame_bits') = l + Len(bits)
        /\ \A m \in 1..l : frame_bits'[m] = frame_bits[m]
        /\ \A m \in 1..Len(bits) : frame_bits'[l + m] = bits[m]
    BY <1>1, <2>1, <2>2, CollectedIs
  <2>4. Len(bits) = 5 /\ \A m \in 1..5 : bits[m] = 1
    BY <2>2
  <2> HIDE DEF bits, l
  <2>5. l \in Nat /\ l + 5 = n /\ Len(frame_bits') = n
    BY <1>1, <1>4, <2>3, <2>4 DEF l
  <2>6. ASSUME NEW m \in 1..n PROVE frame_bits'[m] = sent[i][m] /\ m <= Len(frame_bits')
    <3>1. CASE m <= l
      <4>1. m \in 1..l
        BY <1>1, <2>5, <3>1
      <4> QED
        BY <1>1, <2>3, <2>5, <3>1, <4>1 DEF l
    <3>2. CASE ~(m <= l)
      <4> DEFINE d == m - l
      <4>1. d \in 1..5 /\ l + d = m
        BY <1>1, <2>5, <3>2
      <4> HIDE DEF d
      <4>2. frame_bits'[l + d] = 1
        BY <2>3, <2>4, <4>1
      <4>3. sent[i][m] = 1
        BY <1>1, <3>2 DEF l
      <4> QED
        BY <2>5, <4>1, <4>2, <4>3
    <3> QED
      BY <3>1, <3>2
  <2>7. Len(frame_bits') + ones' = n
    BY <1>1, <2>1, <2>5
  <2> QED
    BY <1>1, <2>1, <2>3, <2>6, <2>7 DEF Received
<1>5. ones <= 5 => ones <= 4 \/ ones = 5
  BY <1>1
<1>6. level # prev_raw_bit /\ ones <= 5 => ones' = 0 /\ frames' = frames
  BY <1>3, <1>4, <1>5
<1>7. level = prev_raw_bit /\ n < Len(sent[i]) /\ sent[i][n + 1] = 1 => Received(i, n + 1)'
  BY <1>2
<1> QED
  BY <1>2, <1>3, <1>4, <1>6, <1>7

-----------------------------------------------------------------------------
(* The frames found.                                                        *)

\* A frame between two flags is found for the frame between these flags only.
LEMMA FoundElsewhere ==
    ASSUME HdlcTyped, NEW i \in DOMAIN sent, UNCHANGED <<sent, demod>>,
           \/ frames' = frames
           \/ \E f \in FoundFrame : ~({i, i + 1} \subseteq f.of) /\ frames' = Append(frames, f)
    PROVE  FoundFor(i)' = FoundFor(i) /\ (Exact(i) => Exact(i)')
<1>1. frames \in Seq(FoundFrame)
  BY DEF HdlcTyped
<1>2. CASE frames' = frames
  BY <1>2 DEF FoundFor, Exact
<1>3. ASSUME NEW f \in FoundFrame, ~({i, i + 1} \subseteq f.of), frames' = Append(frames, f)
      PROVE  FoundFor(i)' = FoundFor(i) /\ (Exact(i) => Exact(i)')
  <2>1. /\ DOMAIN frames' = DOMAIN frames \cup {Len(frames) + 1} /\ Len(frames) + 1 \notin DOMAIN frames
        /\ frames'[Len(frames) + 1] = f /\ \A n \in DOMAIN frames : frames'[n] = frames[n]
    BY <1>1, <1>3, AppendAt
  <2>2. FoundFor(i)' = FoundFor(i)
    BY <1>3, <2>1 DEF FoundFor
  <2>3. Exact(i) => Exact(i)'
    BY <2>1, <2>2 DEF Exact
  <2> QED
    BY <2>2, <2>3
<1> QED
  BY <1>2, <1>3

LEMMA FoundHere ==
    ASSUME HdlcTyped, NEW i \in DOMAIN sent, UNCHANGED <<sent, demod>>, FoundFor(i) = {}, WithZero(i),
           Flagged({i, i + 1})
    PROVE  Exact(i)'
<1>1. frames \in Seq(FoundFrame) /\ i \in Nat /\ sent[i] \in Payloads /\ frame_bits \in Seq(Bits) /\ in_frame
  BY Sent DEF HdlcTyped, WithZero
<1>2. WholeBytes(frame_bits) = sent[i] /\ Len(frame_bits) \div ByteBits = Len(sent[i]) \div ByteBits
  BY <1>1, WholeAre DEF WithZero
<1>3. {i, i + 1} \in SUBSET Int
  BY <1>1
<1>4. frames' = IF Len(sent[i]) \div ByteBits >= Shortest[demod]
                THEN Append(frames, [bits |-> sent[i], of |-> {i, i + 1}]) ELSE frames
  BY <1>1, <1>2, <1>3, FlaggedIs
<1>5. CASE Len(sent[i]) \div ByteBits >= Shortest[demod]
  <2> DEFINE f == [bits |-> sent[i], of |-> {i, i + 1}]
  <2>1. f \in FoundFrame /\ f.bits = sent[i] /\ f.of = {i, i + 1}
    BY <1>1, <1>3, Sent DEF FoundFrame
  <2>2. frames' = Append(frames, f)
    BY <1>4, <1>5
  <2> HIDE DEF f
  <2>3. /\ DOMAIN frames' = DOMAIN frames \cup {Len(frames) + 1} /\ Len(frames) + 1 \notin DOMAIN frames
        /\ frames'[Len(frames) + 1] = f /\ \A n \in DOMAIN frames : frames'[n] = frames[n]
    BY <1>1, <2>1, <2>2, AppendAt
  <2>4. FoundFor(i)' = {Len(frames) + 1}
    BY <2>1, <2>3 DEF FoundFor
  <2> QED
    BY <1>5, <2>1, <2>3, <2>4 DEF Exact
<1>6. CASE ~(Len(sent[i]) \div ByteBits >= Shortest[demod])
  BY <1>4, <1>6 DEF Exact, FoundFor
<1> QED
  BY <1>5, <1>6

-----------------------------------------------------------------------------
(* The steps.                                                               *)
LEMMA HdlcStarts == HdlcInit => HdlcInd
<1> SUFFICES ASSUME HdlcInit PROVE HdlcInd
  OBVIOUS
<1>1. /\ demod \in {"ais", "aprs"} /\ noise \in Noises /\ frames = <<>> /\ slips = 0 /\ disturbed = {}
      /\ prev_raw_bit = 0 /\ ones = 0 /\ in_frame = FALSE /\ frame_bits = <<>>
      /\ due = IF noise = <<>> THEN FlagFrom(1, 0)
               ELSE [part |-> "noise", number |-> 1, at |-> 1, run |-> 0, level |-> 0]
  BY DEF HdlcInit, ResetState
<1>2. noise \in Seq(Bits) /\ MaxSlips \in Nat /\ MaxFrames \in Nat
  BY <1>1, HdlcAssumption DEF HdlcAssumption, Bits
<1>3. sent \in Seq(Payloads) /\ Len(sent) \in Nat
  <2>1. PICK n \in 1..MaxFrames : sent \in [1..n -> Payloads]
    BY DEF HdlcInit
  <2>2. n \in Nat
    BY <1>2
  <2> QED
    BY <2>1, <2>2, FunctionSeq, LenProperties
<1>4. <<>> \in Seq(Bits) /\ <<>> \in Seq(FoundFrame) /\ DOMAIN frames = {}
  BY <1>1, EmptySeq
<1>5. PlaceOK(due)
  <2>1. 1 \in 1..Len(sent) + 1 /\ 0 \in Bits
    BY <1>3 DEF Bits
  <2>2. CASE noise = <<>>
    <3>1. due = [part |-> "flag", number |-> 1, at |-> 1, run |-> 0, level |-> 0]
      BY <1>1, <2>2 DEF FlagFrom
    <3> QED
      BY <2>1, <3>1 DEF PlaceOK, Place
  <2>3. CASE noise # <<>>
    <3>1. due = [part |-> "noise", number |-> 1, at |-> 1, run |-> 0, level |-> 0]
      BY <1>1, <2>3
    <3>2. 1 \in 1..Len(noise)
      <4>1. Len(noise) \in Nat \ {0}
        BY <1>2, <2>3, EmptySeq
      <4> QED
        BY <4>1
    <3> QED
      BY <2>1, <3>1, <3>2 DEF PlaceOK, Place
  <2> QED
    BY <2>2, <2>3
<1>6. HdlcTyped
  <2>1. 0 \in Bits /\ 0 \in Nat /\ FALSE \in BOOLEAN /\ 0 \in 0..MaxSlips
    BY <1>2 DEF Bits
  <2>2. /\ prev_raw_bit \in Bits /\ ones \in Nat /\ in_frame \in BOOLEAN /\ slips \in 0..MaxSlips
        /\ frame_bits \in Seq(Bits) /\ frames \in Seq(FoundFrame)
    BY <1>1, <1>4, <2>1
  <2> QED
    BY <1>1, <1>2, <1>3, <1>5, <2>2 DEF HdlcTyped
<1>7. due.number = 1 /\ due.at = 1 /\ due.level = 0 /\ due.part \in {"flag", "noise"}
  BY <1>1 DEF FlagFrom
<1>8. \A i \in DOMAIN sent : i \in Nat /\ i >= 1 /\ ~(1 > i + 1) /\ 1 # i + 1
  BY <1>3, LenProperties
<1>9. Aligned /\ InStep
  BY <1>1, <1>7, <1>8 DEF Aligned, InStep, InStepAt
<1>10. FoundAll
  <2>1. \A i \in DOMAIN sent : ~Passed(i) /\ FoundFor(i) = {}
    BY <1>4, <1>7, <1>8 DEF Passed, FoundFor
  <2> QED
    BY <2>1 DEF FoundAll
<1> QED
  BY <1>6, <1>9, <1>10 DEF HdlcInd

LEMMA Numbering ==
    ASSUME HdlcTyped
    PROVE  /\ Belongs(due) \in SUBSET Int /\ due.number \in Nat /\ due.at \in Nat \ {0} /\ due.run \in 0..5
           /\ due.part \in {"noise", "flag", "frame", "over"}
           /\ \A i \in DOMAIN sent :
                 /\ i \in Nat /\ i >= 1
                 /\ i \in Belongs(due) <=> \/ due.part = "flag" /\ (due.number = i \/ due.number = i + 1)
                                           \/ due.part = "frame" /\ due.number = i
                 /\ {i, i + 1} \subseteq Belongs(due) <=> due.part = "flag" /\ due.number = i + 1
                 /\ due.part = "flag" /\ due.number = i + 1 => Belongs(due) = {i, i + 1}
<1>1. PlaceOK(due) /\ due \in Place /\ Len(sent) \in Nat /\ DOMAIN sent = 1..Len(sent)
  BY Sent DEF HdlcTyped, PlaceOK
<1>2. /\ due.number \in Nat /\ due.at \in Nat \ {0} /\ due.run \in 0..5
      /\ due.part \in {"noise", "flag", "frame", "over"}
  BY <1>1 DEF Place
<1>3. /\ due.part = "flag" => Belongs(due) = {due.number - 1, due.number}
      /\ due.part = "frame" => Belongs(due) = {due.number}
      /\ due.part \in {"noise", "over"} => Belongs(due) = {}
  BY DEF Belongs
<1>4. Belongs(due) \in SUBSET Int
  BY <1>2, <1>3
<1>5. ASSUME NEW i \in DOMAIN sent
      PROVE  /\ i \in Nat /\ i >= 1
             /\ i \in Belongs(due) <=> \/ due.part = "flag" /\ (due.number = i \/ due.number = i + 1)
                                       \/ due.part = "frame" /\ due.number = i
             /\ {i, i + 1} \subseteq Belongs(due) <=> due.part = "flag" /\ due.number = i + 1
             /\ due.part = "flag" /\ due.number = i + 1 => Belongs(due) = {i, i + 1}
  <2>1. i \in Nat /\ i >= 1
    BY <1>1
  <2>2. CASE due.part = "flag"
    BY <1>2, <1>3, <2>1, <2>2
  <2>3. CASE due.part = "frame"
    BY <1>2, <1>3, <2>1, <2>3
  <2>4. CASE due.part \in {"noise", "over"}
    BY <1>3, <2>1, <2>4
  <2> QED
    BY <1>2, <2>1, <2>2, <2>3, <2>4
<1> QED
  BY <1>2, <1>4, <1>5

\* The next bit of a frame or of its flags comes after one of them.
LEMMA Enters ==
    ASSUME HdlcTyped, Transmits, UNCHANGED <<noise, sent>>, NEW i \in DOMAIN sent, i \notin Belongs(due)
    PROVE  /\ ~(due'.part = "frame" /\ due'.number = i)
           /\ ~(due'.part = "flag" /\ due'.number = i + 1)
           /\ due'.part = "flag" /\ due'.number = i => due'.at = 1
<1>1. /\ due.number \in Nat /\ i \in Nat /\ i >= 1 /\ due.part \in {"noise", "flag", "frame", "over"}
      /\ due.part = "flag" => due.number # i /\ due.number # i + 1
      /\ due.part = "frame" => due.number # i
      /\ due.part = "noise" => due.number = 1
      /\ \A j \in DOMAIN sent : Len(sent[j]) \in Nat
  BY Numbering, Sent DEF HdlcTyped, PlaceOK
<1>2. \A n, level : FlagFrom(n, level).part = "flag" /\ FlagFrom(n, level).number = n /\ FlagFrom(n, level).at = 1
  BY DEF FlagFrom
<1>3. Keyed(Bit) \in Bits /\ due.part # "over"
  BY BitIs, StationMoves
<1>4. ASSUME due.number \in DOMAIN sent, NEW at \in 1..Len(sent[due.number]) + 1, NEW run \in 0..5,
             due' = FrameFrom(due.number, at, run, Keyed(Bit))
      PROVE  \/ due'.part = "frame" /\ due'.number = due.number
             \/ due'.part = "flag" /\ due'.number = due.number + 1 /\ due'.at = 1
  <2> DEFINE n == due.number  level == Keyed(Bit)
  <2>1. n \in DOMAIN sent /\ level \in Bits /\ at \in 1..Len(sent[n]) + 1
    BY <1>3, <1>4
  <2> HIDE DEF n, level
  <2>2. \/ FrameFrom(n, at, run, level) = [part |-> "frame", number |-> n, at |-> at, run |-> run, level |-> level]
        \/ FrameFrom(n, at, run, level) = FlagFrom(n + 1, level)
    BY <2>1, FrameGoesOn
  <2>3. due' = FrameFrom(n, at, run, level)
    BY <1>4 DEF n, level
  <2>4. \/ due'.part = "frame" /\ due'.number = n
        \/ due'.part = "flag" /\ due'.number = n + 1 /\ due'.at = 1
    BY <1>2, <2>2, <2>3
  <2> QED
    BY <2>4 DEF n
<1>5. CASE due.part = "noise"
  <2>1. due'.part = "noise" \/ due' = FlagFrom(1, Keyed(Bit))
    BY <1>5, StationMoves
  <2>2. 1 # i + 1
    BY <1>1
  <2> QED
    BY <1>2, <2>1, <2>2
<1>6. CASE due.part = "flag" /\ due.at # 8
  <2>1. due'.part = "flag" /\ due'.number = due.number
    BY <1>6, StationMoves
  <2> QED
    BY <1>1, <1>6, <2>1
<1>7. CASE due.part = "flag" /\ due.at = 8
  <2>1. CASE due.number \in DOMAIN sent
    <3>1. due' = FrameFrom(due.number, 1, 0, Keyed(Bit)) /\ 1 \in 1..Len(sent[due.number]) + 1 /\ 0 \in 0..5
      BY <1>1, <1>7, <2>1, StationMoves
    <3>2. \/ due'.part = "frame" /\ due'.number = due.number
          \/ due'.part = "flag" /\ due'.number = due.number + 1 /\ due'.at = 1
      BY <1>4, <2>1, <3>1
    <3> QED
      BY <1>1, <1>7, <3>2
  <2>2. CASE due.number \notin DOMAIN sent
    BY <1>7, <2>2, StationMoves
  <2> QED
    BY <2>1, <2>2
<1>8. CASE due.part = "frame"
  <2>1. \/ due'.part = "frame" /\ due'.number = due.number
        \/ due'.part = "flag" /\ due'.number = due.number + 1 /\ due'.at = 1
    <3>1. /\ due.number \in DOMAIN sent /\ due.at \in 1..Len(sent[due.number]) + 1 /\ due.run \in 0..5
          /\ (due.at > Len(sent[due.number]) => due.run = 5) /\ due.at \in Nat
      BY <1>8, Numbering, Sent DEF HdlcTyped, PlaceOK
    <3>2. CASE due.run = 5
      <4>1. due' = FrameFrom(due.number, due.at, 0, Keyed(Bit)) /\ 0 \in 0..5
        BY <1>8, <3>2, StationMoves
      <4> QED
        BY <1>4, <3>1, <4>1
    <3>3. CASE due.run # 5
      <4> DEFINE run == IF Bit = 1 THEN due.run + 1 ELSE 0
      <4>1. due' = FrameFrom(due.number, due.at + 1, run, Keyed(Bit))
        BY <1>8, <3>3, StationMoves
      <4>2. run \in 0..5 /\ due.at + 1 \in 1..Len(sent[due.number]) + 1
        BY SMTT(30), <1>1, <3>1, <3>3
      <4> HIDE DEF run
      <4> QED
        BY <1>4, <3>1, <4>1, <4>2
    <3> QED
      BY <3>2, <3>3
  <2> QED
    BY <1>1, <1>8, <2>1
<1> QED
  BY <1>1, <1>3, <1>5, <1>6, <1>7, <1>8

\* A frame goes on in step, or ends so.
LEMMA FrameInStep ==
    ASSUME HdlcTyped, UNCHANGED sent, NEW i \in DOMAIN sent, NEW at \in 1..Len(sent[i]) + 1, NEW run \in 0..5,
           NEW level \in Bits, due' = FrameFrom(i, at, run, level), Received(i, at - 1)', ones' = run
    PROVE  InStepAt(i)'
<1>1. Len(sent[i]) \in Nat /\ i \in Nat /\ at \in Nat /\ i # i + 1 /\ ones' \in Nat
  BY Sent, Numbering
<1>2. /\ \A n, l : FlagFrom(n, l).part = "flag" /\ FlagFrom(n, l).number = n /\ FlagFrom(n, l).at = 1
  BY DEF FlagFrom
<1>3. \/ due' = [part |-> "frame", number |-> i, at |-> at, run |-> run, level |-> level]
      \/ due' = FlagFrom(i + 1, level) /\ at = Len(sent[i]) + 1 /\ run # 5
  BY FrameGoesOn
<1>4. CASE due' = [part |-> "frame", number |-> i, at |-> at, run |-> run, level |-> level]
  <2>1. due'.part = "frame" /\ due'.number = i /\ due'.at = at /\ due'.run = run
    BY <1>4
  <2>2. Received(i, due.at - 1)'
    BY <2>1 DEF Received
  <2> QED
    BY <2>1, <2>2 DEF InStepAt
<1>5. CASE due' = FlagFrom(i + 1, level) /\ at = Len(sent[i]) + 1 /\ run # 5
  <2>1. due'.part = "flag" /\ due'.number = i + 1 /\ due'.at = 1
    BY <1>2, <1>5
  <2>2. at - 1 = Len(sent[i]) /\ run <= 4
    BY <1>1, <1>5
  <2>3. Received(i, Len(sent[i]))'
    BY <2>2 DEF Received
  <2> QED
    BY <2>1, <2>2, <2>3 DEF InStepAt
<1> QED
  BY <1>3, <1>4, <1>5

\* What the decoder does with a bit of a frame that nothing has hit, or of one of its flags.
LEMMA HeardOf ==
    ASSUME HdlcTyped, Aligned, Hears, NEW i \in DOMAIN sent \ disturbed, i \in Belongs(due)
    PROVE  Keyed(Bit) = prev_raw_bit <=> Bit = 1
<1>1. due.part # "over"
  BY Numbering
<1>2. prev_raw_bit = due.level
  BY <1>1 DEF Aligned
<1> QED
  BY <1>1, <1>2, BitIs

\* A bit of the frame itself.
LEMMA FrameBitHeard ==
    ASSUME HdlcTyped, Aligned, Hears, NEW i \in DOMAIN sent \ disturbed, InStepAt(i),
           due.part = "frame", due.number = i, NEW at, at = due.at, NEW run, run = due.run
    PROVE  InStepAt(i)'
<1>1. /\ Transmits /\ Symbol(Keyed(Bit), Belongs(due)) /\ UNCHANGED sent /\ Received(i, at - 1) /\ ones = run
      /\ i \in DOMAIN sent
  BY DEF Hears, InStepAt
<1>2. /\ run \in 0..5 /\ ones \in Nat /\ Len(sent[i]) \in Nat /\ Belongs(due) \in SUBSET Int
      /\ at \in 1..Len(sent[i]) + 1 /\ i \in Belongs(due)
  BY Numbering, Sent DEF HdlcTyped, PlaceOK
<1>3. PICK level \in Bits : level = Keyed(Bit)
  BY <1>1, BitIs, StationMoves
<1>4. level = prev_raw_bit <=> Bit = 1
  BY <1>2, <1>3, HeardOf
<1>5. /\ IF run = 5 THEN Bit = 0 /\ due' = FrameFrom(i, at, 0, level)
         ELSE /\ Bit = sent[i][at] /\ Bit \in Bits /\ at <= Len(sent[i])
              /\ due' = FrameFrom(i, at + 1, IF Bit = 1 THEN run + 1 ELSE 0, level)
  BY <1>1, <1>3, BitIs, StationMoves
<1>6. PICK n \in 0..Len(sent[i]) : n = at - 1 /\ n + 1 = at
  BY <1>2
<1>7. Received(i, n)
  BY <1>1, <1>6
<1>8. Symbol(level, Belongs(due))
  BY <1>1, <1>3
<1>9. /\ level = prev_raw_bit => ones' = ones + 1
      /\ level = prev_raw_bit /\ n < Len(sent[i]) /\ sent[i][n + 1] = 1 => Received(i, n + 1)'
      /\ level # prev_raw_bit /\ ones <= 5 => ones' = 0
      /\ level # prev_raw_bit /\ ones <= 4 => (n < Len(sent[i]) /\ sent[i][n + 1] = 0 => Received(i, n + 1)')
      /\ level # prev_raw_bit /\ ones = 5 => Received(i, n)'
  BY <1>1, <1>2, <1>7, <1>8, ReceivedGrows
<1>10. CASE run = 5
  <2>1. ones' = 0 /\ Received(i, n)' /\ due' = FrameFrom(i, at, 0, level)
    BY <1>1, <1>4, <1>5, <1>9, <1>10
  <2>2. PICK none \in 0..5 : none = 0
    OBVIOUS
  <2>3. Received(i, at - 1)' /\ ones' = none /\ due' = FrameFrom(i, at, none, level)
    BY <1>6, <2>1, <2>2
  <2> QED
    BY <1>1, <1>2, <2>3, FrameInStep
<1>11. CASE run # 5
  <2>1. /\ Bit = sent[i][n + 1] /\ Bit \in Bits /\ n < Len(sent[i]) /\ ones <= 4
        /\ due' = FrameFrom(i, at + 1, IF Bit = 1 THEN run + 1 ELSE 0, level)
    <3>1. n < Len(sent[i]) /\ ones <= 4
      <4>1. at <= Len(sent[i])
        BY <1>5, <1>11
      <4> QED
        BY <1>1, <1>2, <1>6, <1>11, <4>1
    <3> QED
      BY <1>5, <1>6, <1>11, <3>1
  <2>2. Received(i, at)' /\ ones' = IF Bit = 1 THEN run + 1 ELSE 0
    <3>1. CASE Bit = 1
      <4>1. Received(i, n + 1)' /\ ones' = ones + 1
        BY <1>4, <1>9, <2>1, <3>1
      <4> QED
        BY <1>1, <1>6, <3>1, <4>1
    <3>2. CASE Bit # 1
      <4>1. Bit = 0 /\ ones <= 5
        BY <1>2, <2>1, <3>2 DEF Bits
      <4>2. Received(i, n + 1)' /\ ones' = 0
        BY <1>4, <1>9, <2>1, <4>1
      <4> QED
        BY <1>6, <3>2, <4>2
    <3> QED
      BY <3>1, <3>2
  <2>3. PICK next \in 0..5 : next = IF Bit = 1 THEN run + 1 ELSE 0
    BY <1>2, <1>11
  <2>4. Received(i, (at + 1) - 1)' /\ at + 1 \in 1..Len(sent[i]) + 1
    <3>1. (at + 1) - 1 = at
      BY <1>2
    <3> QED
      BY <1>2, <1>6, <2>1, <2>2, <3>1
  <2>5. due' = FrameFrom(i, at + 1, next, level) /\ ones' = next
    BY <2>1, <2>2, <2>3
  <2> QED
    BY <1>1, <2>4, <2>5, FrameInStep
<1> QED
  BY <1>10, <1>11

\* Ones are only counted; a zero begins the count anew.
LEMMA OneHeard ==
    ASSUME NEW level, NEW numbers, Symbol(level, numbers)
    PROVE  IF level = prev_raw_bit THEN ones' = ones + 1 /\ UNCHANGED <<in_frame, frame_bits, frames>>
           ELSE ones' = 0 /\ (ones = 6 => Flagged(numbers))
BY DEF Symbol

\* A bit of the flag that ends the frame.
LEMMA ClosingHeard ==
    ASSUME HdlcTyped, Aligned, Hears, NEW i \in DOMAIN sent \ disturbed, InStepAt(i),
           due.part = "flag", due.number = i + 1, due.at # 8
    PROVE  InStepAt(i)' /\ frames' = frames
<1>1. /\ Transmits /\ Symbol(Keyed(Bit), Belongs(due)) /\ UNCHANGED sent /\ i \in DOMAIN sent
  BY DEF Hears
<1>2. /\ i \in Nat /\ ones \in Nat /\ Len(sent[i]) \in Nat /\ Belongs(due) \in SUBSET Int /\ i \in Belongs(due)
      /\ due.at \in 1..7
  BY Numbering, Sent DEF HdlcTyped, PlaceOK
<1>3. PICK level \in Bits : level = Keyed(Bit)
  BY <1>1, BitIs, StationMoves
<1>4. (level = prev_raw_bit <=> Bit = 1) /\ Symbol(level, Belongs(due)) /\ Bit = Flag[due.at]
  BY <1>1, <1>2, <1>3, HeardOf, BitIs, StationMoves
<1>5. due'.part = "flag" /\ due'.number = i + 1 /\ due'.at = due.at + 1
  BY <1>1, StationMoves
<1>6. CASE due.at = 1
  <2>1. Received(i, Len(sent[i])) /\ ones <= 4 /\ level # prev_raw_bit
    BY <1>4, <1>6, FlagBits DEF InStepAt
  <2>2. PICK n \in 0..Len(sent[i]) : n = Len(sent[i])
    BY <1>2
  <2>3. ones' = 0 /\ frames' = frames /\ WithZero(i)'
    <3>1. Received(i, n) /\ ones <= 5
      BY <1>2, <2>1, <2>2
    <3> QED
      BY <1>1, <1>2, <1>4, <2>1, <2>2, <3>1, ReceivedGrows
  <2>4. due'.at = 2
    BY <1>5, <1>6
  <2> QED
    BY <1>2, <1>5, <2>3, <2>4 DEF InStepAt
<1>7. CASE due.at # 1
  <2>1. WithZero(i) /\ ones = due.at - 2 /\ due.at \in 2..7
    BY <1>2, <1>7 DEF InStepAt
  <2>2. ones' = ones + 1 /\ UNCHANGED <<in_frame, frame_bits, frames>>
    BY <1>4, <2>1, OneHeard, FlagBits
  <2>3. WithZero(i)'
    BY <1>1, <2>1, <2>2 DEF WithZero
  <2>4. ones' = due'.at - 2 /\ due'.at # 1
    BY SMTT(30), <1>2, <1>5, <2>1, <2>2
  <2> QED
    BY <1>2, <1>5, <2>2, <2>3, <2>4 DEF InStepAt
<1> QED
  BY <1>6, <1>7

\* A bit of the flag that begins the frame.
LEMMA OpeningHeard ==
    ASSUME HdlcTyped, Aligned, Hears, NEW i \in DOMAIN sent \ disturbed, InStepAt(i),
           due.part = "flag", due.number = i
    PROVE  InStepAt(i)'
<1>1. /\ Transmits /\ Symbol(Keyed(Bit), Belongs(due)) /\ UNCHANGED sent /\ i \in DOMAIN sent
  BY DEF Hears
<1>2. /\ i \in Nat /\ ones \in Nat /\ Len(sent[i]) \in Nat /\ Belongs(due) \in SUBSET Int /\ i \in Belongs(due)
      /\ due.at \in 1..8
  BY Numbering, Sent DEF HdlcTyped, PlaceOK
<1>3. PICK level \in Bits : level = Keyed(Bit)
  BY <1>1, BitIs, StationMoves
<1>4. (level = prev_raw_bit <=> Bit = 1) /\ Symbol(level, Belongs(due)) /\ Bit = Flag[due.at]
  BY <1>1, <1>2, <1>3, HeardOf, BitIs, StationMoves
<1>5. CASE due.at = 8
  <2>1. ones = 6 /\ level # prev_raw_bit
    BY <1>2, <1>4, <1>5, FlagBits DEF InStepAt
  <2>2. ones' = 0 /\ Flagged(Belongs(due))
    BY <1>4, <2>1, OneHeard
  <2>3. in_frame' = TRUE /\ Len(frame_bits') = 0
    BY <1>2, <2>2, FlaggedIs
  <2>4. Received(i, 1 - 1)'
    <3>1. 1 - 1 = 0 /\ 1..0 = {}
      OBVIOUS
    <3> QED
      BY <2>2, <2>3, <3>1 DEF Received
  <2>5. due' = FrameFrom(i, 1, 0, level) /\ 1 \in 1..Len(sent[i]) + 1 /\ 0 \in 0..5
    BY <1>1, <1>2, <1>3, <1>5, StationMoves
  <2> QED
    BY <1>1, <2>2, <2>4, <2>5, FrameInStep
<1>6. CASE due.at # 8
  <2>1. due'.part = "flag" /\ due'.number = i /\ due'.at = due.at + 1 /\ i # i + 1
    BY <1>1, <1>2, <1>6, StationMoves
  <2>2. ones' = due'.at - 2
    <3>1. CASE due.at = 1
      BY <1>4, <2>1, <3>1, OneHeard, FlagBits
    <3>2. CASE due.at # 1
      <4>1. due.at \in 2..7 /\ ones = due.at - 2
        BY <1>2, <1>6, <3>2 DEF InStepAt
      <4>2. ones' = ones + 1
        BY <1>4, <4>1, OneHeard, FlagBits
      <4> QED
        BY <2>1, <4>1, <4>2
    <3> QED
      BY <3>1, <3>2
  <2> QED
    BY <2>1, <2>2 DEF InStepAt
<1> QED
  BY <1>5, <1>6

LEMMA HearsInStep ==
    ASSUME HdlcTyped, Aligned, Hears, NEW i \in DOMAIN sent \ disturbed, InStepAt(i)
    PROVE  InStepAt(i)'
<1>1. /\ Transmits /\ sent' = sent /\ UNCHANGED <<noise, sent>> /\ i \in DOMAIN sent
  BY DEF Hears
<1>2. /\ i \in Nat /\ due.number \in Nat /\ PlaceOK(due') /\ PlaceOK(due) /\ DOMAIN sent = 1..Len(sent)
      /\ i \in Belongs(due) <=> \/ due.part = "flag" /\ (due.number = i \/ due.number = i + 1)
                                \/ due.part = "frame" /\ due.number = i
  BY <1>1, Numbering, Sent, StationMoves DEF HdlcTyped
<1>3. due'.part = "flag" => (i \in Belongs(due)' <=> due'.number = i \/ due'.number = i + 1)
  <2>1. due'.number \in Nat
    BY <1>2, Sent DEF PlaceOK, Place
  <2>2. due'.part = "flag" => Belongs(due)' = {due'.number - 1, due'.number}
    BY DEF Belongs
  <2> QED
    BY <1>2, <2>1, <2>2
<1>4. CASE i \notin Belongs(due)
  BY <1>1, <1>2, <1>3, <1>4, Enters DEF InStepAt
<1>5. CASE due.part = "frame" /\ due.number = i
  BY <1>5, FrameBitHeard
<1>6. CASE due.part = "flag" /\ due.number = i
  BY <1>6, OpeningHeard
<1>7. CASE due.part = "flag" /\ due.number = i + 1 /\ due.at # 8
  BY <1>7, ClosingHeard
<1>8. CASE due.part = "flag" /\ due.number = i + 1 /\ due.at = 8
  <2> DEFINE n == i + 1
  <2>1. /\ n \in DOMAIN sent => due' = FrameFrom(n, 1, 0, Keyed(Bit))
        /\ n \notin DOMAIN sent => due'.part = "over"
    BY <1>1, <1>8, StationMoves
  <2>2. CASE n \in DOMAIN sent
    <3>1. PICK level \in Bits : due' = FrameFrom(n, 1, 0, level)
      BY <1>1, <2>1, <2>2, BitIs, StationMoves
    <3>2. 1 \in 1..Len(sent[n]) + 1 /\ 0 \in 0..5
      BY <2>2, Sent
    <3> HIDE DEF n
    <3>3. \/ due' = [part |-> "frame", number |-> n, at |-> 1, run |-> 0, level |-> level]
          \/ due' = FlagFrom(n + 1, level)
      BY <2>2, <3>1, <3>2, FrameGoesOn
    <3>4. \/ due'.part = "frame" /\ due'.number = n
          \/ due'.part = "flag" /\ due'.number = n + 1
      BY <3>3 DEF FlagFrom
    <3>5. n # i /\ n # i + 2 /\ n + 1 # i /\ n + 1 # i + 1
      BY <1>2 DEF n
    <3> QED
      BY <1>3, <3>4, <3>5 DEF InStepAt
  <2>3. CASE n \notin DOMAIN sent
    BY <2>1, <2>3 DEF InStepAt
  <2> QED
    BY <2>2, <2>3
<1> QED
  BY <1>2, <1>4, <1>5, <1>6, <1>7, <1>8

LEMMA HearsFound ==
    ASSUME HdlcTyped, Aligned, Hears, NEW i \in DOMAIN sent \ disturbed, InStepAt(i),
           IF Passed(i) THEN Exact(i) ELSE FoundFor(i) = {}
    PROVE  (IF Passed(i) THEN Exact(i) ELSE FoundFor(i) = {})'
<1>1. /\ Transmits /\ Symbol(Keyed(Bit), Belongs(due)) /\ UNCHANGED sent /\ UNCHANGED <<sent, demod>>
      /\ i \in DOMAIN sent
  BY DEF Hears
<1>2. /\ i \in Nat /\ Belongs(due) \in SUBSET Int /\ Keyed(Bit) \in Bits
      /\ {i, i + 1} \subseteq Belongs(due) <=> due.part = "flag" /\ due.number = i + 1
      /\ due.part = "flag" /\ due.number = i + 1 => Belongs(due) = {i, i + 1} /\ i \in Belongs(due)
  BY <1>1, Numbering, BitIs, StationMoves
<1>3. CASE due.part = "flag" /\ due.number = i + 1 /\ due.at = 8
  <2>1. ~Passed(i) /\ Passed(i)'
    BY <1>1, <1>3, PassedMoves
  <2>2. WithZero(i) /\ ones = 6
    BY <1>2, <1>3 DEF InStepAt
  <2>3. Keyed(Bit) # prev_raw_bit
    BY <1>1, <1>2, <1>3, HeardOf, BitIs, StationMoves, FlagBits
  <2>4. Flagged({i, i + 1})
    BY <1>1, <1>2, <1>3, <2>2, <2>3, OneHeard
  <2> QED
    BY <1>1, <2>1, <2>2, <2>4, FoundHere
<1>4. CASE ~(due.part = "flag" /\ due.number = i + 1 /\ due.at = 8)
  <2>1. Passed(i)' <=> Passed(i)
    BY <1>1, <1>4, PassedMoves
  <2>2. FoundFor(i)' = FoundFor(i) /\ (Exact(i) => Exact(i)')
    <3>1. \/ frames' = frames
          \/ \E f \in FoundFrame : ~({i, i + 1} \subseteq f.of) /\ frames' = Append(frames, f)
      <4>1. CASE due.part = "flag" /\ due.number = i + 1
        BY <1>4, <4>1, ClosingHeard
      <4>2. CASE ~(due.part = "flag" /\ due.number = i + 1)
        BY <1>1, <1>2, <4>2, SymbolTypes
      <4> QED
        BY <4>1, <4>2
    <3> QED
      BY <1>1, <3>1, FoundElsewhere
  <2> QED
    BY <2>1, <2>2
<1> QED
  BY <1>3, <1>4

\* The station goes on, whatever is heard of it.
LEMMA MovesTyped ==
    ASSUME HdlcTyped, Transmits, UNCHANGED <<noise, sent>>
    PROVE  PlaceOK(due)' /\ due'.level = Keyed(Bit)
<1>1. PlaceOK(due') /\ due'.level = Keyed(Bit) /\ noise' = noise /\ sent' = sent
  BY StationMoves
<1> QED
  BY <1>1 DEF PlaceOK, Place

LEMMA HearsKeeps == HdlcInd /\ Hears => HdlcInd'
<1> SUFFICES ASSUME HdlcInd, Hears PROVE HdlcInd'
  OBVIOUS
<1>1. /\ HdlcTyped /\ Aligned /\ InStep /\ FoundAll /\ Transmits /\ Symbol(Keyed(Bit), Belongs(due))
      /\ demod' = demod /\ noise' = noise /\ sent' = sent /\ slips' = slips /\ disturbed' = disturbed
      /\ UNCHANGED <<noise, sent>>
  BY DEF HdlcInd, Hears
<1>2. PlaceOK(due)' /\ due'.level = Keyed(Bit) /\ Keyed(Bit) \in Bits /\ Belongs(due) \in SUBSET Int
  BY <1>1, MovesTyped, BitIs, StationMoves, Numbering
<1>3. /\ prev_raw_bit' \in Bits /\ ones' \in Nat /\ in_frame' \in BOOLEAN /\ frame_bits' \in Seq(Bits)
      /\ frames' \in Seq(FoundFrame) /\ prev_raw_bit' = Keyed(Bit)
  BY <1>1, <1>2, SymbolTypes
<1>4. HdlcTyped'
  BY <1>1, <1>2, <1>3 DEF HdlcTyped
<1>5. Aligned'
  BY <1>2, <1>3 DEF Aligned
<1>6. InStep'
  BY <1>1, HearsInStep DEF InStep
<1>7. FoundAll'
  BY <1>1, HearsFound DEF FoundAll, InStep
<1> QED
  BY <1>4, <1>5, <1>6, <1>7 DEF HdlcInd

LEMMA SlipsKeeps == HdlcInd /\ Slips => HdlcInd'
<1> SUFFICES ASSUME HdlcInd, Slips PROVE HdlcInd'
  OBVIOUS
<1>1. /\ HdlcTyped /\ Aligned /\ InStep /\ FoundAll /\ Transmits
      /\ slips < MaxSlips /\ slips' = slips + 1 /\ disturbed' = disturbed \cup Belongs(due) \cup Belongs(due')
      /\ demod' = demod /\ noise' = noise /\ sent' = sent /\ UNCHANGED <<noise, sent>>
      /\ prev_raw_bit' = prev_raw_bit /\ ones' = ones /\ in_frame' = in_frame /\ frame_bits' = frame_bits
      /\ frames' = frames
  BY DEF HdlcInd, Slips
<1>2. PlaceOK(due)'
  BY <1>1, MovesTyped
<1>3. slips' \in 0..MaxSlips
  BY <1>1, HdlcAssumption DEF HdlcTyped, HdlcAssumption
<1>4. HdlcTyped'
  BY <1>1, <1>2, <1>3 DEF HdlcTyped
<1>5. Belongs(due)' = Belongs(due')
  BY DEF Belongs
<1>6. Aligned'
  BY <1>1, <1>5 DEF Aligned
<1>7. ASSUME NEW i \in DOMAIN sent, i \notin disturbed'
      PROVE  InStepAt(i)' /\ (IF Passed(i) THEN Exact(i) ELSE FoundFor(i) = {})'
  <2>1. i \notin disturbed /\ i \notin Belongs(due) /\ i \notin Belongs(due)'
    BY <1>1, <1>5, <1>7
  <2>2. InStepAt(i)'
    <3>1. /\ i \in Nat /\ ~(due'.part = "frame" /\ due'.number = i) /\ ~(due'.part = "flag" /\ due'.number = i + 1)
      BY <1>1, <2>1, Enters, Numbering
    <3> QED
      BY <2>1, <3>1 DEF InStepAt
  <2>3. Passed(i)' <=> Passed(i)
    <3>1. ~(due.part = "flag" /\ due.number = i + 1)
      BY <1>1, <2>1, Numbering
    <3> QED
      BY <1>1, <3>1, PassedMoves
  <2>4. FoundFor(i)' = FoundFor(i) /\ (Exact(i) => Exact(i)')
    BY <1>1, FoundElsewhere
  <2> QED
    BY <1>1, <2>1, <2>2, <2>3, <2>4 DEF FoundAll
<1>8. InStep' /\ FoundAll'
  BY <1>1, <1>7 DEF InStep, FoundAll
<1> QED
  BY <1>4, <1>6, <1>8 DEF HdlcInd

LEMMA QuietKeeps == HdlcInd /\ Quiet => HdlcInd'
<1> SUFFICES ASSUME HdlcInd, Quiet PROVE HdlcInd'
  OBVIOUS
<1>1. /\ HdlcTyped /\ InStep /\ FoundAll
      /\ slips < MaxSlips /\ slips' = slips + 1 /\ disturbed' = disturbed \cup Belongs(due)
      /\ demod' = demod /\ noise' = noise /\ sent' = sent /\ due' = due /\ frames' = frames
      /\ prev_raw_bit' = 0 /\ ones' = 0 /\ in_frame' = FALSE /\ frame_bits' = <<>>
  BY DEF HdlcInd, Quiet
<1>2. slips' \in 0..MaxSlips /\ 0 \in Bits /\ 0 \in Nat /\ <<>> \in Seq(Bits)
  BY <1>1, HdlcAssumption, EmptySeq DEF HdlcTyped, HdlcAssumption, Bits
<1>3. HdlcTyped'
  <2>1. PlaceOK(due)'
    BY <1>1 DEF HdlcTyped, PlaceOK, Place
  <2>2. /\ prev_raw_bit' \in Bits /\ ones' \in Nat /\ in_frame' \in BOOLEAN /\ frame_bits' \in Seq(Bits)
    BY <1>1, <1>2
  <2> QED
    BY <1>1, <1>2, <2>1, <2>2 DEF HdlcTyped
<1>4. Belongs(due)' = Belongs(due)
  BY <1>1 DEF Belongs
<1>5. Aligned'
  BY <1>1, <1>4 DEF Aligned
<1>6. ASSUME NEW i \in DOMAIN sent, i \notin disturbed'
      PROVE  InStepAt(i)' /\ (IF Passed(i) THEN Exact(i) ELSE FoundFor(i) = {})'
  <2>1. i \notin disturbed /\ i \notin Belongs(due)
    BY <1>1, <1>6
  <2>2. ~(due.part = "frame" /\ due.number = i) /\ ~(due.part = "flag" /\ (due.number = i \/ due.number = i + 1))
    BY <1>1, <2>1, Numbering
  <2>3. InStepAt(i)'
    BY <1>1, <1>4, <2>1, <2>2 DEF InStepAt
  <2>4. Passed(i)' <=> Passed(i)
    BY <1>1 DEF Passed
  <2>5. FoundFor(i)' = FoundFor(i) /\ (Exact(i) => Exact(i)')
    BY <1>1, FoundElsewhere
  <2> QED
    BY <1>1, <2>1, <2>3, <2>4, <2>5 DEF FoundAll
<1>7. InStep' /\ FoundAll'
  BY <1>1, <1>6 DEF InStep, FoundAll
<1> QED
  BY <1>3, <1>5, <1>7 DEF HdlcInd

LEMMA HdlcStutters == HdlcInd /\ UNCHANGED hdlcVars => HdlcInd'
<1> SUFFICES ASSUME HdlcInd, UNCHANGED hdlcVars PROVE HdlcInd'
  OBVIOUS
<1>1. /\ demod' = demod /\ noise' = noise /\ sent' = sent /\ due' = due /\ frames' = frames /\ slips' = slips
      /\ prev_raw_bit' = prev_raw_bit /\ ones' = ones /\ in_frame' = in_frame /\ frame_bits' = frame_bits
      /\ disturbed' = disturbed
  BY DEF hdlcVars
<1>2. HdlcTyped' /\ Aligned'
  BY <1>1 DEF HdlcInd, HdlcTyped, Aligned, PlaceOK, Place, Belongs
<1>3. \A i : InStepAt(i)' <=> InStepAt(i)
  BY <1>1 DEF InStepAt, Received, WithZero, Belongs
<1>4. \A i : (Passed(i)' <=> Passed(i)) /\ FoundFor(i)' = FoundFor(i) /\ (Exact(i)' <=> Exact(i))
  BY <1>1 DEF Passed, FoundFor, Exact
<1> QED
  BY <1>1, <1>2, <1>3, <1>4 DEF HdlcInd, InStep, FoundAll

LEMMA HdlcHolds == HdlcInd => HdlcInv
<1> SUFFICES ASSUME HdlcInd PROVE HdlcInv
  OBVIOUS
<1>1. HdlcTyped /\ FoundAll /\ PlaceOK(due) /\ due \in Place
  BY DEF HdlcInd, HdlcTyped, PlaceOK
<1>2. \A f \in ToSet(frames) : f.bits \in Seq({0, 1})
  <2>1. frames \in Seq(FoundFrame)
    BY <1>1 DEF HdlcTyped
  <2>2. \A n \in DOMAIN frames : frames[n] \in FoundFrame
    BY <2>1, LenProperties
  <2> QED
    BY <2>2 DEF ToSet, FoundFrame, Bits
<1>3. HdlcTypeOK
  BY <1>1, <1>2 DEF HdlcTyped, HdlcTypeOK, Place, Bits
<1>4. FramesExact
  BY <1>1 DEF FoundAll, Exact, FramesExact
<1> QED
  BY <1>3, <1>4 DEF HdlcInv

\* A frame of AIS or APRS that is heard from flag to flag is found exactly once, bit for bit,
\* whatever noise, lost symbols and resets come before and after it.
THEOREM FramesHold == HdlcSpec => []HdlcInv
<1>1. HdlcInd /\ [HdlcNext]_hdlcVars => HdlcInd'
  BY HearsKeeps, SlipsKeeps, QuietKeeps, HdlcStutters DEF HdlcNext
<1> QED
  BY <1>1, HdlcStarts, HdlcHolds, PTL DEF HdlcSpec

\* What the server decodes is framed as it was sent, taken from the channel the decoder
\* listened to, and kept, counted, stored and replayed as it was recorded.
THEOREM DecodingHolds == HdlcSpec /\ DecoderSpec /\ HistorySpec => []DecodingInv
<1>1. HdlcInv /\ TaskInv /\ HistoryInv => DecodingInv
  BY DEF DecodingInv
<1> QED
  BY <1>1, FramesHold, TasksHold, HistoriesHold, PTL

=============================================================================

--------------------------- MODULE MorePartsProofs ---------------------------
(* Proofs about five parts that stand for themselves: the reporters          *)
(* (Uplinks), the recorder (Recorder), the rigctl sessions (RigctlSessions), *)
(* the reception of weather charts (WefaxReception) and the configuration    *)
(* files (Configuration). Each has its own inductive invariant; the parts    *)
(* share no variable.                                                        *)
EXTENDS Uplinks, Recorder, RigctlSessions, WefaxReception, Configuration,
        SequenceTheorems, FiniteSetTheorems, TLAPS

(***************************************************************************)
(* The uplinks.  What waits for the subscriber are the last messages in     *)
(* order; every number below them has been taken or was lost.               *)
(***************************************************************************)
Taken == Len(msgs) - Len(waiting)
Datagrams == [sequence : Nat, spots : SUBSET Numbered, templates : BOOLEAN, sent : Nat]
Reported == UNION {datagrams[j].spots : j \in 1..Len(datagrams)}

Published ==
    /\ now \in 0..MaxNow /\ enabled \in Subscribers
    /\ msgs \in Seq([what : Kinds, born : Nat]) /\ Len(msgs) <= MaxMessages
    /\ \A n \in 1..Len(msgs) : msgs[n].born <= now
    /\ waiting \in Seq(Numbered) /\ Len(waiting) <= Backlogged /\ Len(waiting) <= Len(msgs)
    /\ \A i \in 1..Len(waiting) : waiting[i] = Taken + i

\* Spots are pending or reported, not both, and a pending one fits into the next datagram.
Spots ==
    /\ psk \in [at : {"runs", "stopped"}, pending : SUBSET Numbered, flush : Nat, sequence : Nat,
                packets : Nat, template : Never..now]
    /\ datagrams \in Seq(Datagrams) /\ psk.packets = Len(datagrams)
    /\ psk.pending \subseteq 1..Taken /\ Reported \subseteq 1..Taken
    /\ psk.pending \cap Reported = {} /\ psk.sequence = 1 + Cardinality(Reported)
    /\ \A m, n \in psk.pending : msgs[m].what.call = msgs[n].what.call => m = n
    /\ psk.template # Never =>
          \E j \in 1..Len(datagrams) : datagrams[j].templates /\ datagrams[j].sent = psk.template

InTime ==
    enabled = "psk" /\ psk.at = "runs" =>
        /\ now <= psk.flush /\ psk.flush <= now + FlushEvery
        /\ \A n \in psk.pending : psk.flush - msgs[n].born <= 2 * FlushEvery

Tallied ==
    /\ fate \in [accepted : SUBSET Numbered, unsent : SUBSET Numbered, cut : SUBSET Numbered,
                 unwanted : SUBSET Numbered]
    /\ fate.accepted \subseteq 1..Taken /\ fate.cut \subseteq 1..Taken

Gated ==
    /\ igate \in [at : {"connect", "login", "logresp", "forward", "sleep", "stopped"},
                  lines : 0..LoginLines - 1, backoff : 1..MaxBackoff]
    /\ gated \in Seq([n : Numbered, at : Nat])
    /\ \A i \in 1..Len(gated) :
          /\ gated[i].n \in 1..Taken /\ gated[i].n \notin fate.cut
          /\ msgs[gated[i].n].what \in [to : {"igate"}, good : {TRUE}]
          /\ gated[i].at - msgs[gated[i].n].born <= Stale
          /\ i > 1 => gated[i - 1].n < gated[i].n
    /\ enabled = "igate" /\ Len(msgs) <= Backlogged =>
          \A n \in 1..Taken : \/ \E i \in 1..Len(gated) : gated[i].n = n
                              \/ n \in fate.cut \cup fate.unwanted

UplinkInd ==
    /\ Published /\ Spots /\ InTime /\ Tallied /\ Gated /\ DatagramsAddUp /\ SpotsAccountedFor

LEMMA UplinkStarts == UplinkInit => UplinkInd
<1> SUFFICES ASSUME UplinkInit PROVE UplinkInd
  OBVIOUS
<1> USE UplinkAssumption DEF UplinkAssumption, UplinkInit
<1>1. Len(msgs) = 0 /\ Len(waiting) = 0 /\ Taken = 0 /\ Len(datagrams) = 0 /\ Len(gated) = 0
  BY DEF Taken
<1>2. Reported = {} /\ Cardinality({}) = 0
  BY <1>1, FS_EmptySet DEF Reported
<1>3. Published
  BY <1>1 DEF Published
<1>4. Spots
  <2>1. psk \in [at : {"runs", "stopped"}, pending : SUBSET Numbered, flush : Nat, sequence : Nat,
                 packets : Nat, template : Never..now]
    BY DEF Never
  <2>2. datagrams \in Seq(Datagrams)
    OBVIOUS
  <2> QED
    BY <1>1, <1>2, <2>1, <2>2 DEF Spots
<1>5. InTime /\ Tallied
  BY DEF InTime, Tallied
<1>6. Gated
  BY <1>1 DEF Gated
<1>7. DatagramsAddUp /\ SpotsAccountedFor
  BY <1>1 DEF DatagramsAddUp, SpotsAccountedFor
<1> QED
  BY <1>3, <1>4, <1>5, <1>6, <1>7 DEF UplinkInd

LEMMA Numbers ==
    ASSUME Published
    PROVE  /\ Len(msgs) \in Nat /\ Len(waiting) \in Nat /\ Taken \in Nat /\ Taken <= Len(msgs)
           /\ 1..Taken \subseteq 1..Len(msgs) /\ 1..Len(msgs) \subseteq Numbered
           /\ \A n \in 1..Len(msgs) : msgs[n] \in [what : Kinds, born : Nat]
<1>1. MaxMessages \in Nat
  BY UplinkAssumption DEF UplinkAssumption
<1>2. msgs \in Seq([what : Kinds, born : Nat]) /\ waiting \in Seq(Numbered)
  BY DEF Published
<1>3. Len(msgs) \in Nat /\ Len(waiting) \in Nat /\ Len(waiting) <= Len(msgs) /\ Len(msgs) <= MaxMessages
  BY <1>2, LenProperties DEF Published
<1>4. \A n \in 1..Len(msgs) : msgs[n] \in [what : Kinds, born : Nat]
  BY <1>2, ElementOfSeq
<1>5. Taken \in Nat /\ Taken <= Len(msgs)
  BY <1>3 DEF Taken
<1> QED
  BY <1>1, <1>3, <1>4, <1>5 DEF Numbered

LEMMA SentStays == ASSUME DatagramsAddUp, datagrams' = datagrams, msgs' = msgs PROVE DatagramsAddUp'
<1> SUFFICES ASSUME NEW i \in 1..Len(datagrams')
             PROVE  LET d == datagrams'[i] IN
                    /\ d.sequence = 1 + Cardinality(UNION {datagrams'[j].spots : j \in 1..i - 1})
                    /\ \A j \in 1..i - 1 : datagrams'[j].spots \cap d.spots = {}
                    /\ \A n \in d.spots : d.sent - msgs'[n].born <= 2 * FlushEvery
                    /\ \A m, n \in d.spots : msgs'[m].what.call = msgs'[n].what.call => m = n
                    /\ \/ d.templates
                       \/ \E j \in 1..i - 1 : datagrams'[j].templates /\ d.sent - datagrams'[j].sent < TemplatesEvery
  BY DEF DatagramsAddUp
<1>1. {datagrams'[j].spots : j \in 1..i - 1} = {datagrams[j].spots : j \in 1..i - 1}
  OBVIOUS
<1> QED
  BY <1>1 DEF DatagramsAddUp

\* What a subscriber has done stays right while messages come and time goes on.
LEMMA NewsKeeps ==
    ASSUME UplinkInd, Published', UNCHANGED <<enabled, psk, datagrams, igate, gated, fate>>,
           \A n \in 1..Taken : msgs'[n] = msgs[n], Taken' >= Taken, now' >= now,
           InTime', Len(msgs') <= Backlogged => Taken' = Taken /\ Len(msgs) <= Backlogged
    PROVE  UplinkInd'
<1> USE DEF UplinkInd
<1>1. Taken \in Nat /\ Taken' \in Nat /\ 1..Taken \subseteq 1..Taken' /\ now \in Nat /\ now' \in Nat
  BY Numbers DEF Published, Taken
<1>2. Reported' = Reported
  BY DEF Reported
<1>3. Spots'
  <2>1. Never..now \subseteq Never..now'
    BY <1>1 DEF Never
  <2>2. psk \in [at : {"runs", "stopped"}, pending : SUBSET Numbered, flush : Nat, sequence : Nat,
                 packets : Nat, template : Never..now']
    BY <2>1 DEF Spots
  <2>3. psk.pending \subseteq 1..Taken
    BY DEF Spots
  <2>4. \A m, n \in psk.pending : msgs'[m].what.call = msgs'[n].what.call => m = n
    BY <2>3 DEF Spots
  <2>5. psk.pending \subseteq 1..Taken' /\ Reported \subseteq 1..Taken'
    BY <1>1 DEF Spots
  <2> QED
    BY <1>2, <2>2, <2>4, <2>5 DEF Spots
<1>4. Tallied'
  BY <1>1 DEF Tallied
<1>5. Gated'
  BY <1>1 DEF Gated
<1>6. DatagramsAddUp'
  <2>1. \A i \in 1..Len(datagrams) : datagrams[i].spots \subseteq 1..Taken
    BY DEF Spots, Reported
  <2>2. ASSUME NEW i \in 1..Len(datagrams)
        PROVE  LET d == datagrams'[i] IN
               /\ d.sequence = 1 + Cardinality(UNION {datagrams'[j].spots : j \in 1..i - 1})
               /\ \A j \in 1..i - 1 : datagrams'[j].spots \cap d.spots = {}
               /\ \A n \in d.spots : d.sent - msgs'[n].born <= 2 * FlushEvery
               /\ \A m, n \in d.spots : msgs'[m].what.call = msgs'[n].what.call => m = n
               /\ \/ d.templates
                  \/ \E j \in 1..i - 1 : datagrams'[j].templates /\ d.sent - datagrams'[j].sent < TemplatesEvery
    <3> DEFINE d == datagrams[i]
    <3>1. \A n \in d.spots : msgs'[n] = msgs[n]
      BY <2>1
    <3>2. /\ d.sequence = 1 + Cardinality(UNION {datagrams[j].spots : j \in 1..i - 1})
          /\ \A j \in 1..i - 1 : datagrams[j].spots \cap d.spots = {}
          /\ \A n \in d.spots : d.sent - msgs[n].born <= 2 * FlushEvery
          /\ \A m, n \in d.spots : msgs[m].what.call = msgs[n].what.call => m = n
          /\ \/ d.templates
             \/ \E j \in 1..i - 1 : datagrams[j].templates /\ d.sent - datagrams[j].sent < TemplatesEvery
      BY DEF DatagramsAddUp
    <3>3. /\ datagrams'[i] = d
          /\ {datagrams'[j].spots : j \in 1..i - 1} = {datagrams[j].spots : j \in 1..i - 1}
      OBVIOUS
    <3>4. \A n \in d.spots : d.sent - msgs'[n].born <= 2 * FlushEvery
      BY <3>1, <3>2
    <3>5. \A m, n \in d.spots : msgs'[m].what.call = msgs'[n].what.call => m = n
      BY <3>1, <3>2
    <3> QED
      BY <3>2, <3>3, <3>4, <3>5
  <2> QED
    BY <2>2 DEF DatagramsAddUp
<1>7. SpotsAccountedFor'
  <2>1. fate.accepted \subseteq 1..Taken
    BY DEF Tallied
  <2> QED
    BY <2>1 DEF SpotsAccountedFor
<1> QED
  BY <1>3, <1>4, <1>5, <1>6, <1>7

LEMMA ElapseKeeps == ASSUME UplinkInd, Elapse, UNCHANGED enabled PROVE UplinkInd'
<1> USE DEF UplinkInd
<1>1. /\ now < MaxNow /\ (enabled = "psk" /\ psk.at = "runs" => now < psk.flush) /\ now' = now + 1
      /\ UNCHANGED <<msgs, waiting, psk, datagrams, igate, gated, fate>>
  BY DEF Elapse
<1>2. /\ now \in Nat /\ now' \in 0..MaxNow /\ now' >= now /\ Taken \in Nat /\ Taken' = Taken
      /\ Len(msgs) \in Nat
  BY <1>1, Numbers, UplinkAssumption DEF Published, Taken, UplinkAssumption
<1>3. Published'
  <2>1. \A n \in 1..Len(msgs) : msgs[n].born <= now'
    BY <1>1, <1>2, Numbers DEF Published
  <2> QED
    BY <1>1, <1>2, <2>1 DEF Published
<1>4. InTime'
  <2> SUFFICES ASSUME enabled = "psk", psk.at = "runs"
               PROVE  /\ now' <= psk.flush /\ psk.flush <= now' + FlushEvery
                      /\ \A m \in psk.pending : psk.flush - msgs[m].born <= 2 * FlushEvery
    BY <1>1, Zenon DEF InTime
  <2>1. psk.flush \in Nat /\ FlushEvery \in Nat
    BY UplinkAssumption DEF Spots, UplinkAssumption
  <2>2. /\ now <= psk.flush /\ psk.flush <= now + FlushEvery
        /\ \A m \in psk.pending : psk.flush - msgs[m].born <= 2 * FlushEvery
    BY Zenon DEF InTime
  <2>3. now' <= psk.flush /\ psk.flush <= now' + FlushEvery
    <3> HIDE DEF UplinkInd
    <3> QED
      BY <1>1, <1>2, <2>1, <2>2
  <2> QED
    BY <2>2, <2>3
<1> QED
  BY <1>1, <1>2, <1>3, <1>4, NewsKeeps

LEMMA BroadcastKeeps == ASSUME UplinkInd, NEW k \in Kinds, Broadcast(k), UNCHANGED enabled PROVE UplinkInd'
<1> USE DEF UplinkInd
<1> DEFINE msg == [what |-> k, born |-> now]
           n == Len(msgs) + 1
<1>1. /\ Len(msgs) < MaxMessages /\ msgs' = Append(msgs, msg) /\ waiting' = Append(Behind, n)
      /\ UNCHANGED <<now, psk, datagrams, igate, gated, fate>>
  BY DEF Broadcast
<1>2. /\ now \in Nat /\ Len(msgs) \in Nat /\ Len(waiting) \in Nat /\ Taken \in Nat /\ Backlogged \in Nat \ {0}
      /\ msgs \in Seq([what : Kinds, born : Nat]) /\ waiting \in Seq(Numbered)
      /\ Len(waiting) <= Backlogged /\ Len(waiting) <= Len(msgs)
  BY Numbers, UplinkAssumption DEF Published, UplinkAssumption
<1>3. n \in Numbered /\ msg \in [what : Kinds, born : Nat]
  BY <1>1, <1>2, UplinkAssumption DEF Numbered, UplinkAssumption
<1>4. /\ msgs' \in Seq([what : Kinds, born : Nat]) /\ Len(msgs') = n /\ msgs'[n] = msg
      /\ \A i \in 1..Len(msgs) : msgs'[i] = msgs[i]
  BY <1>1, <1>2, <1>3, AppendProperties
<1>5. /\ Behind \in Seq(Numbered) /\ Len(Behind) \in Nat /\ Len(Behind) < Backlogged /\ Len(Behind) <= Len(msgs)
      /\ Len(msgs) - Len(Behind) >= Taken
      /\ Len(msgs) < Backlogged => Len(Behind) = Len(waiting)
      /\ \A i \in 1..Len(Behind) : Behind[i] = Len(msgs) - Len(Behind) + i
  <2>1. CASE Len(waiting) = Backlogged
    <3>1. waiting # <<>> /\ Behind = Tail(waiting)
      BY <1>2, <2>1 DEF Behind
    <3>2. /\ Behind \in Seq(Numbered) /\ Len(Behind) = Len(waiting) - 1
          /\ \A i \in 1..Len(Behind) : Behind[i] = waiting[i + 1]
      BY <1>2, <3>1, HeadTailProperties
    <3>3. \A i \in 1..Len(Behind) : i + 1 \in 1..Len(waiting)
      BY <1>2, <3>2
    <3>4. \A i \in 1..Len(waiting) : waiting[i] = Len(msgs) - Len(waiting) + i
      BY DEF Published, Taken
    <3> QED
      BY <1>2, <2>1, <3>2, <3>3, <3>4 DEF Taken
  <2>2. CASE Len(waiting) # Backlogged
    <3>1. Behind = waiting
      BY <2>2 DEF Behind
    <3>2. \A i \in 1..Len(waiting) : waiting[i] = Len(msgs) - Len(waiting) + i
      BY DEF Published, Taken
    <3> QED
      BY <1>2, <2>2, <3>1, <3>2 DEF Taken
  <2> QED
    BY <2>1, <2>2
<1>6. /\ waiting' \in Seq(Numbered) /\ Len(waiting') = Len(Behind) + 1 /\ waiting'[Len(Behind) + 1] = n
      /\ \A i \in 1..Len(Behind) : waiting'[i] = Behind[i]
  BY <1>1, <1>3, <1>5, AppendProperties
<1> HIDE DEF msg
<1>7. Taken' = Len(msgs) - Len(Behind)
  BY <1>2, <1>4, <1>5, <1>6 DEF Taken
<1>8. Published'
  <2>1. ASSUME NEW i \in 1..Len(waiting') PROVE waiting'[i] = Taken' + i
    <3>1. CASE i \in 1..Len(Behind)
      BY <1>5, <1>6, <1>7, <3>1
    <3>2. CASE i = Len(Behind) + 1
      BY <1>2, <1>5, <1>6, <1>7, <3>2
    <3> QED
      BY <1>5, <1>6, <3>1, <3>2
  <2>2. ASSUME NEW i \in 1..Len(msgs') PROVE msgs'[i].born <= now'
    <3>1. CASE i \in 1..Len(msgs)
      BY <1>1, <1>4, <3>1 DEF Published
    <3>2. CASE i = n
      BY <1>1, <1>2, <1>4, <3>2 DEF msg
    <3> QED
      BY <1>2, <1>4, <3>1, <3>2
  <2>3. Len(msgs') <= MaxMessages /\ Len(waiting') <= Backlogged /\ Len(waiting') <= Len(msgs')
    <3>1. MaxMessages \in Nat
      BY UplinkAssumption DEF UplinkAssumption
    <3> QED
      BY <1>1, <1>2, <1>4, <1>5, <1>6, <3>1
  <2>4. now' \in 0..MaxNow /\ enabled' \in Subscribers
    BY <1>1 DEF Published
  <2> HIDE DEF n
  <2> QED
    BY <1>4, <1>6, <2>1, <2>2, <2>3, <2>4 DEF Published
<1>9. /\ \A i \in 1..Taken : msgs'[i] = msgs[i]
      /\ Taken' >= Taken /\ (Len(msgs') <= Backlogged => Taken' = Taken /\ Len(msgs) <= Backlogged)
  <2>1. \A i \in 1..Taken : msgs'[i] = msgs[i]
    BY <1>4, Numbers
  <2>2. Taken' >= Taken
    BY <1>5, <1>7
  <2>3. ASSUME Len(msgs') <= Backlogged PROVE Taken' = Taken /\ Len(msgs) <= Backlogged
    <3>1. Len(msgs) < Backlogged
      BY <1>2, <1>4, <2>3
    <3> QED
      BY <1>2, <1>5, <1>7, <3>1 DEF Taken
  <2> QED
    BY <2>1, <2>2, <2>3
<1>10. InTime'
  <2>1. psk.pending \subseteq 1..Taken
    BY DEF Spots
  <2> QED
    BY <1>1, <1>9, <2>1 DEF InTime
<1>11. UNCHANGED <<enabled, psk, datagrams, igate, gated, fate>> /\ now' >= now
  BY <1>1, <1>2
<1> HIDE DEF UplinkInd
<1> QED
  BY <1>8, <1>9, <1>10, <1>11, NewsKeeps

\* The message at the head is the next number.
LEMMA Received ==
    ASSUME UplinkInd, Receive, UNCHANGED <<enabled, now, msgs>>
    PROVE  /\ Published' /\ Head(waiting) = Taken + 1 /\ Taken' = Taken + 1 /\ Taken \in Nat
           /\ Taken + 1 \in 1..Len(msgs) /\ Taken + 1 \in Numbered
           /\ msgs[Taken + 1] \in [what : Kinds, born : Nat] /\ msgs[Taken + 1].born <= now
<1> USE DEF UplinkInd
<1>1. waiting # <<>> /\ waiting' = Tail(waiting) /\ waiting \in Seq(Numbered)
  BY DEF Receive, Published
<1>2. /\ Head(waiting) = waiting[1] /\ waiting' \in Seq(Numbered) /\ Len(waiting') = Len(waiting) - 1
      /\ \A i \in 1..Len(waiting') : waiting'[i] = waiting[i + 1]
      /\ Len(waiting) \in Nat \ {0}
  BY <1>1, HeadTailProperties, EmptySeq, LenProperties
<1>3. Len(msgs) \in Nat /\ Taken \in Nat /\ Taken' = Taken + 1 /\ Backlogged \in Nat
  BY <1>2, Numbers, UplinkAssumption DEF Taken, UplinkAssumption
<1>4. Taken + 1 \in 1..Len(msgs)
  BY <1>2, <1>3 DEF Taken, Published
<1>5. Published'
  <2>1. \A i \in 1..Len(waiting') : waiting'[i] = Taken' + i
    BY <1>2, <1>3 DEF Published
  <2> QED
    BY <1>2, <1>3, <2>1 DEF Published
<1> QED
  BY <1>2, <1>3, <1>4, <1>5, Numbers DEF Published

(***************************************************************************)
(* PSK Reporter.                                                            *)
(***************************************************************************)
LEMMA SpotKeeps == ASSUME UplinkInd, SpotComes, enabled = "psk", UNCHANGED enabled PROVE UplinkInd'
<1> USE DEF UplinkInd
<1> DEFINE n == Taken + 1
           same == {p \in psk.pending : msgs[p].what.call = msgs[n].what.call}
<1>1. /\ Published' /\ Head(waiting) = n /\ Taken' = n /\ Taken \in Nat /\ n \in 1..Len(msgs) /\ n \in Numbered
      /\ msgs[n].born \in Nat /\ msgs[n].born <= now /\ now \in Nat
      /\ psk.at = "runs" /\ UNCHANGED <<now, msgs, datagrams, igate, gated>>
  BY Received DEF SpotComes, Published
<1>2. /\ 1..Taken \subseteq 1..Taken' /\ n \in 1..Taken' /\ n \notin 1..Taken
      /\ psk.pending \subseteq 1..Taken /\ Reported' = Reported /\ FlushEvery \in Nat
      /\ psk.flush \in Nat
  <2>1. 1..Taken \subseteq 1..Taken' /\ n \in 1..Taken' /\ n \notin 1..Taken
    BY <1>1
  <2>2. psk.pending \subseteq 1..Taken /\ psk.flush \in Nat
    BY DEF Spots
  <2>3. Reported' = Reported /\ FlushEvery \in Nat
    BY <1>1, UplinkAssumption DEF Reported, UplinkAssumption
  <2> QED
    BY <2>1, <2>2, <2>3
<1>3. Gated'
  <2>1. fate'.cut = fate.cut /\ fate'.unwanted = fate.unwanted
    BY DEF SpotComes, Tallied
  <2> QED
    BY <1>1, <1>2, <2>1 DEF Gated
<1>4. DatagramsAddUp'
  BY <1>1, SentStays
<1>5. CASE /\ now - msgs[n].born <= FlushEvery
           /\ psk' = [psk EXCEPT !.pending = (@ \ same) \cup {n}]
           /\ fate' = [fate EXCEPT !.accepted = @ \cup {n}]
  <2>1. /\ psk'.pending = (psk.pending \ same) \cup {n} /\ psk'.at = psk.at /\ psk'.flush = psk.flush
        /\ psk'.sequence = psk.sequence /\ psk'.packets = psk.packets /\ psk'.template = psk.template
        /\ psk' \in [at : {"runs", "stopped"}, pending : SUBSET Numbered, flush : Nat, sequence : Nat,
                     packets : Nat, template : Never..now]
    BY <1>1, <1>5 DEF Spots
  <2>2. /\ fate' \in [accepted : SUBSET Numbered, unsent : SUBSET Numbered, cut : SUBSET Numbered,
                      unwanted : SUBSET Numbered]
        /\ fate'.accepted = fate.accepted \cup {n} /\ fate'.unsent = fate.unsent /\ fate'.cut = fate.cut
    BY <1>1, <1>5 DEF Tallied
  <2>3. Spots'
    <3>1. \A a, b \in psk'.pending : msgs[a].what.call = msgs[b].what.call => a = b
      BY <2>1 DEF Spots
    <3>2. psk'.pending \subseteq 1..Taken' /\ Reported \subseteq 1..Taken' /\ psk'.pending \cap Reported = {}
      BY <1>2, <2>1 DEF Spots
    <3> HIDE DEF n, same
    <3> QED
      BY <1>1, <1>2, <2>1, <3>1, <3>2 DEF Spots
  <2>4. InTime'
    <3>1. psk.flush - msgs[n].born <= 2 * FlushEvery
      BY <1>1, <1>2, <1>5 DEF InTime
    <3> QED
      BY <1>1, <1>2, <2>1, <3>1 DEF InTime
  <2>5. Tallied'
    BY <1>1, <1>2, <2>2 DEF Tallied
  <2>6. SpotsAccountedFor'
    <3> SUFFICES ASSUME NEW a \in fate'.accepted
                 PROVE  \/ a \in psk'.pending \cup fate'.unsent
                        \/ \E i \in 1..Len(datagrams) : a \in datagrams[i].spots
                        \/ \E m \in fate'.accepted : m > a /\ msgs[m].what.call = msgs[a].what.call
      BY <1>1 DEF SpotsAccountedFor
    <3>1. CASE a = n
      BY <2>1, <3>1
    <3>2. CASE a \in fate.accepted /\ a \in same
      <4>1. n > a
        BY <1>1, <1>2, <3>2
      <4> QED
        BY <2>2, <3>2, <4>1
    <3>3. CASE a \in fate.accepted /\ a \notin same
      BY <2>1, <2>2, <3>3 DEF SpotsAccountedFor
    <3> QED
      BY <2>2, <3>1, <3>2, <3>3
  <2> QED
    BY <1>1, <1>3, <1>4, <2>3, <2>4, <2>5, <2>6
<1>6. CASE UNCHANGED <<psk, fate>>
  <2>1. Spots' /\ InTime'
    BY <1>1, <1>2, <1>6 DEF Spots, InTime
  <2>2. Tallied' /\ SpotsAccountedFor'
    BY <1>1, <1>2, <1>6 DEF Tallied, SpotsAccountedFor
  <2> QED
    BY <1>1, <1>3, <1>4, <2>1, <2>2
<1> QED
  BY <1>1, <1>5, <1>6 DEF SpotComes, Age

\* What a flush leaves alone.
LEMMA FlushFacts ==
    ASSUME UplinkInd, FlushTick, enabled = "psk", UNCHANGED enabled
    PROVE  /\ Published' /\ Taken' = Taken /\ Taken \in Nat /\ now \in Nat /\ now = psk.flush
           /\ psk.at = "runs" /\ psk.flush \in Nat /\ FlushEvery \in Nat \ {0}
           /\ UNCHANGED <<now, msgs, waiting, igate, gated>>
<1> USE DEF UplinkInd
<1>1. psk.at = "runs" /\ now >= psk.flush /\ UNCHANGED <<now, msgs, waiting, igate, gated>>
  BY DEF FlushTick
<1>2. now <= psk.flush /\ now \in Nat /\ psk.flush \in Nat /\ FlushEvery \in Nat \ {0}
  BY <1>1, UplinkAssumption DEF InTime, Published, Spots, UplinkAssumption
<1>3. Taken' = Taken /\ Taken \in Nat
  BY <1>1, Numbers DEF Taken
<1> QED
  BY <1>1, <1>2, <1>3 DEF Published

LEMMA SendKeeps ==
    ASSUME UplinkInd, FlushTick, enabled = "psk", UNCHANGED enabled, SendSpots PROVE UplinkInd'
<1> USE DEF UplinkInd
<1> DEFINE d == [sequence |-> psk.sequence, spots |-> psk.pending, templates |-> WithTemplates, sent |-> now]
           n == Len(datagrams) + 1
<1>1. /\ Published' /\ Taken' = Taken /\ Taken \in Nat /\ now \in Nat /\ now = psk.flush
      /\ psk.at = "runs" /\ psk.flush \in Nat /\ FlushEvery \in Nat \ {0}
      /\ UNCHANGED <<now, msgs, waiting, igate, gated>>
  BY FlushFacts
<1>2. /\ datagrams' = Append(datagrams, d) /\ fate' = fate
      /\ psk' = [psk EXCEPT !.sequence = @ + Cardinality(psk.pending), !.packets = @ + 1,
                            !.pending = {}, !.template = IF WithTemplates THEN now ELSE @,
                            !.flush = @ + FlushEvery]
  BY DEF SendSpots
<1>3. /\ psk \in [at : {"runs", "stopped"}, pending : SUBSET Numbered, flush : Nat, sequence : Nat,
                  packets : Nat, template : Never..now]
      /\ datagrams \in Seq(Datagrams) /\ psk.packets = Len(datagrams) /\ Len(datagrams) \in Nat
  BY LenProperties DEF Spots
<1>4. d \in Datagrams
  BY <1>1, <1>3 DEF Datagrams, WithTemplates
<1>5. d.sequence = psk.sequence /\ d.spots = psk.pending /\ d.templates = WithTemplates /\ d.sent = now
  OBVIOUS
<1> HIDE DEF d
<1>6. /\ datagrams' \in Seq(Datagrams) /\ Len(datagrams') = n /\ datagrams'[n] = d
      /\ \A i \in 1..Len(datagrams) : datagrams'[i] = datagrams[i]
  BY <1>2, <1>3, <1>4, AppendProperties
<1>7. 1..n = 1..Len(datagrams) \cup {n} /\ n \notin 1..Len(datagrams) /\ 1..n - 1 = 1..Len(datagrams) /\ n \in Nat
  BY <1>3
<1> HIDE DEF n
<1>8. Reported' = Reported \cup psk.pending
  BY <1>5, <1>6, <1>7 DEF Reported
<1>9. /\ IsFiniteSet(Reported) /\ IsFiniteSet(psk.pending)
      /\ Cardinality(psk.pending) \in Nat /\ Cardinality(Reported) \in Nat
      /\ Cardinality(Reported \cup psk.pending) = Cardinality(Reported) + Cardinality(psk.pending)
  <2>1. IsFiniteSet(1..Taken)
    BY <1>1, FS_Interval
  <2>2. IsFiniteSet(Reported) /\ IsFiniteSet(psk.pending)
    BY <2>1, FS_Subset DEF Spots
  <2>3. Cardinality(psk.pending) \in Nat /\ Cardinality(Reported) \in Nat
    BY <2>2, FS_CardinalityType
  <2>4. Reported \cap psk.pending = {} /\ Cardinality({}) = 0
    BY FS_EmptySet DEF Spots
  <2>5. Cardinality(Reported \cup psk.pending)
          = Cardinality(Reported) + Cardinality(psk.pending) - Cardinality(Reported \cap psk.pending)
    BY <2>2, FS_Union
  <2>6. Cardinality(Reported \cap psk.pending) = 0
    BY <2>4
  <2> QED
    BY <2>2, <2>3, <2>5, <2>6
<1>10. /\ psk'.at = "runs" /\ psk'.pending = {} /\ psk'.flush = psk.flush + FlushEvery
       /\ psk'.sequence = psk.sequence + Cardinality(psk.pending) /\ psk'.packets = psk.packets + 1
       /\ psk'.template = (IF WithTemplates THEN now ELSE psk.template)
       /\ psk' \in [at : {"runs", "stopped"}, pending : SUBSET Numbered, flush : Nat, sequence : Nat,
                    packets : Nat, template : Never..now]
  <2>1. now \in Never..now /\ psk.template \in Never..now /\ psk.sequence + Cardinality(psk.pending) \in Nat
        /\ psk.flush + FlushEvery \in Nat /\ psk.packets + 1 \in Nat
    BY <1>1, <1>3, <1>9 DEF Never
  <2> QED
    BY <1>1, <1>2, <1>3, <2>1
<1>11. Spots'
  <2>1. psk'.sequence = 1 + Cardinality(Reported')
    BY <1>3, <1>8, <1>9, <1>10 DEF Spots
  <2>2. Reported' \subseteq 1..Taken'
    BY <1>1, <1>8 DEF Spots
  <2>3. psk'.template # Never =>
          \E j \in 1..Len(datagrams') : datagrams'[j].templates /\ datagrams'[j].sent = psk'.template
    <3>1. CASE WithTemplates
      BY <1>5, <1>6, <1>7, <1>10, <3>1
    <3>2. CASE ~WithTemplates
      BY <1>6, <1>7, <1>10, <3>2 DEF Spots
    <3> QED
      BY <3>1, <3>2
  <2>4. psk'.packets = Len(datagrams')
    BY <1>3, <1>6, <1>10 DEF n
  <2> QED
    BY <1>1, <1>6, <1>10, <2>1, <2>2, <2>3, <2>4 DEF Spots, Never
<1>12. InTime'
  BY <1>1, <1>10 DEF InTime
<1>13. Tallied' /\ Gated'
  BY <1>1, <1>2 DEF Tallied, Gated
<1>14. DatagramsAddUp'
  <2> SUFFICES ASSUME NEW i \in 1..Len(datagrams')
               PROVE  LET e == datagrams'[i] IN
                      /\ e.sequence = 1 + Cardinality(UNION {datagrams'[j].spots : j \in 1..i - 1})
                      /\ \A j \in 1..i - 1 : datagrams'[j].spots \cap e.spots = {}
                      /\ \A m \in e.spots : e.sent - msgs[m].born <= 2 * FlushEvery
                      /\ \A m, k \in e.spots : msgs[m].what.call = msgs[k].what.call => m = k
                      /\ \/ e.templates
                         \/ \E j \in 1..i - 1 : datagrams'[j].templates /\ e.sent - datagrams'[j].sent < TemplatesEvery
    BY <1>1 DEF DatagramsAddUp
  <2>1. 1..i - 1 \subseteq 1..Len(datagrams) /\ \A j \in 1..i - 1 : datagrams'[j] = datagrams[j]
    BY <1>3, <1>6, <1>7
  <2>2. {datagrams'[j].spots : j \in 1..i - 1} = {datagrams[j].spots : j \in 1..i - 1}
    BY <2>1
  <2>3. CASE i \in 1..Len(datagrams)
    BY <1>6, <2>1, <2>2, <2>3 DEF DatagramsAddUp
  <2>4. CASE i = n
    <3>1. UNION {datagrams'[j].spots : j \in 1..i - 1} = Reported
      BY <1>7, <2>2, <2>4 DEF Reported
    <3>2. \A j \in 1..i - 1 : datagrams'[j].spots \subseteq Reported
      BY <2>1 DEF Reported
    <3>3. \A m \in psk.pending : now - msgs[m].born <= 2 * FlushEvery
      BY <1>1 DEF InTime
    <3>4. \/ WithTemplates
          \/ \E j \in 1..i - 1 : datagrams'[j].templates /\ now - datagrams'[j].sent < TemplatesEvery
      <4> SUFFICES ASSUME ~WithTemplates
                   PROVE  \E j \in 1..i - 1 : datagrams'[j].templates /\ now - datagrams'[j].sent < TemplatesEvery
        OBVIOUS
      <4>1. psk.template # Never /\ ~(now - psk.template >= TemplatesEvery)
        BY DEF WithTemplates
      <4>2. PICK j \in 1..Len(datagrams) : datagrams[j].templates /\ datagrams[j].sent = psk.template
        BY <4>1 DEF Spots
      <4>3. psk.template \in Int /\ TemplatesEvery \in Int
        BY <1>1, <1>3, UplinkAssumption DEF Never, UplinkAssumption
      <4>4. now - psk.template < TemplatesEvery
        BY <1>1, <4>1, <4>3
      <4>5. j \in 1..i - 1 /\ datagrams'[j].templates /\ datagrams'[j].sent = psk.template
        BY <1>6, <1>7, <2>4, <4>2
      <4> QED
        BY <4>4, <4>5
    <3> QED
      BY <1>5, <1>6, <2>4, <3>1, <3>2, <3>3, <3>4 DEF Spots
  <2> QED
    BY <1>6, <1>7, <2>3, <2>4
<1>15. SpotsAccountedFor'
  BY <1>1, <1>2, <1>5, <1>6, <1>7 DEF SpotsAccountedFor
<1> QED
  BY <1>1, <1>11, <1>12, <1>13, <1>14, <1>15

\* A flush that sends nothing: with nothing pending, or with what was pending lost.
LEMMA NoDatagramKeeps ==
    ASSUME UplinkInd, FlushTick, enabled = "psk", UNCHANGED enabled,
           SendFailed \/ (psk' = [psk EXCEPT !.flush = @ + FlushEvery] /\ UNCHANGED <<datagrams, fate>>)
    PROVE  UplinkInd'
<1> USE DEF UplinkInd
<1>1. /\ Published' /\ Taken' = Taken /\ Taken \in Nat /\ now \in Nat /\ now = psk.flush
      /\ psk.at = "runs" /\ psk.flush \in Nat /\ FlushEvery \in Nat \ {0}
      /\ UNCHANGED <<now, msgs, waiting, igate, gated>>
  BY FlushFacts
<1>2. /\ datagrams' = datagrams /\ fate' \in [accepted : SUBSET Numbered, unsent : SUBSET Numbered,
                                             cut : SUBSET Numbered, unwanted : SUBSET Numbered]
      /\ fate'.accepted = fate.accepted /\ fate'.cut = fate.cut /\ fate'.unwanted = fate.unwanted
      /\ psk.pending \cup fate.unsent \subseteq psk'.pending \cup fate'.unsent
  BY DEF SendFailed, Spots, Tallied
<1>3. /\ psk'.at = "runs" /\ psk'.pending \subseteq psk.pending /\ psk'.flush = psk.flush + FlushEvery
      /\ psk'.sequence = psk.sequence /\ psk'.packets = psk.packets /\ psk'.template = psk.template
      /\ psk' \in [at : {"runs", "stopped"}, pending : SUBSET Numbered, flush : Nat, sequence : Nat,
                   packets : Nat, template : Never..now]
  <2>1. /\ psk \in [at : {"runs", "stopped"}, pending : SUBSET Numbered, flush : Nat, sequence : Nat,
                    packets : Nat, template : Never..now]
        /\ psk.flush + FlushEvery \in Nat
    BY <1>1 DEF Spots
  <2>2. CASE psk' = [psk EXCEPT !.pending = {}, !.flush = @ + FlushEvery]
    BY <1>1, <2>1, <2>2
  <2>3. CASE psk' = [psk EXCEPT !.flush = @ + FlushEvery]
    BY <1>1, <2>1, <2>3
  <2> QED
    BY <2>2, <2>3 DEF SendFailed
<1>4. psk'.pending = {}
  <2>1. CASE SendFailed
    BY <2>1 DEF SendFailed, Spots
  <2>2. CASE ~SendFailed
    <3>1. CASE psk.pending = {}
      BY <1>3, <3>1
    <3>2. CASE psk.pending # {}
      <4>1. SendSpots
        BY <2>2, <3>2 DEF FlushTick
      <4> QED
        BY <4>1 DEF SendSpots, Spots
    <3> QED
      BY <3>1, <3>2
  <2> QED
    BY <2>1, <2>2
<1>5. Reported' = Reported
  BY <1>2 DEF Reported
<1>6. Spots'
  BY <1>1, <1>2, <1>3, <1>4, <1>5 DEF Spots, Never
<1>7. InTime'
  BY <1>1, <1>3, <1>4 DEF InTime
<1>8. Tallied' /\ Gated'
  BY <1>1, <1>2 DEF Tallied, Gated
<1>9. DatagramsAddUp'
  BY <1>1, <1>2, SentStays
<1>10. SpotsAccountedFor'
  BY <1>1, <1>2 DEF SpotsAccountedFor
<1> QED
  BY <1>1, <1>6, <1>7, <1>8, <1>9, <1>10

LEMMA PskStopKeeps == ASSUME UplinkInd, PskStops, UNCHANGED enabled PROVE UplinkInd'
<1> USE DEF UplinkInd
<1>1. /\ psk' = [psk EXCEPT !.at = "stopped"] /\ UNCHANGED <<now, msgs, waiting, datagrams, igate, gated, fate>>
  BY DEF PskStops
<1>2. /\ psk'.at = "stopped" /\ psk'.pending = psk.pending /\ psk'.flush = psk.flush
      /\ psk'.sequence = psk.sequence /\ psk'.packets = psk.packets /\ psk'.template = psk.template
      /\ psk' \in [at : {"runs", "stopped"}, pending : SUBSET Numbered, flush : Nat, sequence : Nat,
                   packets : Nat, template : Never..now]
  BY <1>1 DEF Spots
<1>3. Taken' = Taken /\ Reported' = Reported
  BY <1>1 DEF Taken, Reported
<1>4. Published' /\ Tallied' /\ Gated'
  BY <1>1, <1>3 DEF Published, Tallied, Gated
<1>5. Spots' /\ InTime'
  BY <1>1, <1>2, <1>3 DEF Spots, InTime
<1>6. DatagramsAddUp' /\ SpotsAccountedFor'
  BY <1>1, <1>2, SentStays DEF SpotsAccountedFor
<1> QED
  BY <1>4, <1>5, <1>6

(***************************************************************************)
(* The gateway.                                                             *)
(***************************************************************************)
LEMMA GateMovesKeeps ==
    ASSUME UplinkInd, UNCHANGED <<enabled, now, msgs, waiting, psk, datagrams, gated, fate>>,
           igate' \in [at : {"connect", "login", "logresp", "forward", "sleep", "stopped"},
                       lines : 0..LoginLines - 1, backoff : 1..MaxBackoff]
    PROVE  UplinkInd'
<1> USE DEF UplinkInd
<1>1. Taken' = Taken /\ Reported' = Reported
  BY DEF Taken, Reported
<1>2. Published' /\ Tallied' /\ InTime' /\ DatagramsAddUp' /\ SpotsAccountedFor'
  BY <1>1, SentStays DEF Published, Tallied, InTime, SpotsAccountedFor
<1>3. Spots'
  BY <1>1 DEF Spots
<1>4. Gated'
  BY <1>1 DEF Gated
<1> QED
  BY <1>2, <1>3, <1>4

LEMMA GateStepKeeps ==
    ASSUME UplinkInd, UNCHANGED enabled,
           ConnectGate \/ LoginWritten \/ OtherLine \/ LogRespLine \/ GateFails \/ Slept \/ GateStops
    PROVE  UplinkInd'
<1> USE UplinkAssumption DEF UplinkAssumption, UplinkInd
<1> DEFINE Gates == [at : {"connect", "login", "logresp", "forward", "sleep", "stopped"},
                     lines : 0..LoginLines - 1, backoff : 1..MaxBackoff]
<1>1. igate \in Gates /\ 0 \in 0..LoginLines - 1 /\ 1 \in 1..MaxBackoff
  BY DEF Gated
<1>2. igate' \in Gates
  <2>1. CASE ConnectGate \/ GateFails \/ GateStops
    BY <1>1, <2>1 DEF ConnectGate, GateFails, GateStops, GateMoves
  <2>2. CASE LoginWritten
    BY <1>1, <2>2 DEF LoginWritten
  <2>4. CASE LogRespLine
    BY <1>1, <2>4 DEF LogRespLine
  <2>5. CASE OtherLine
    <3>1. igate.lines # LoginLines - 1 => igate.lines + 1 \in 0..LoginLines - 1
      BY <1>1
    <3> QED
      BY <1>1, <2>5, <3>1 DEF OtherLine
  <2>3. CASE Slept
    <3> DEFINE b == Min({igate.backoff * 2, MaxBackoff})
    <3>1. igate.backoff * 2 \in Nat \ {0} /\ MaxBackoff \in Nat \ {0}
      BY <1>1
    <3>2. b \in 1..MaxBackoff
      <4>1. \A x \in Nat, y \in Nat : Min({x, y}) = IF x <= y THEN x ELSE y
        BY DEF Min
      <4> QED
        BY <3>1, <4>1
    <3> HIDE DEF b
    <3>3. igate' = [igate EXCEPT !.at = "connect", !.backoff = b]
      BY <2>3 DEF Slept, b
    <3> QED
      BY <1>1, <3>2, <3>3
  <2> QED
    BY <2>1, <2>2, <2>3, <2>4, <2>5
<1>3. UNCHANGED <<now, msgs, waiting, psk, datagrams, gated, fate>>
  BY DEF ConnectGate, LoginWritten, OtherLine, LogRespLine, GateFails, Slept, GateStops, GateMoves
<1> QED
  BY <1>2, <1>3, GateMovesKeeps

LEMMA PacketKeepsOrder == ASSUME UplinkInd, PacketComes, UNCHANGED enabled PROVE UplinkInd'
<1> USE DEF UplinkInd
<1> DEFINE n == Taken + 1
           wanted == msgs[n].what.to = "igate" /\ msgs[n].what.good /\ Age(n) <= Stale
           e == [n |-> n, at |-> now]
<1>1. /\ Published' /\ Head(waiting) = n /\ Taken' = n /\ Taken \in Nat /\ n \in 1..Len(msgs) /\ n \in Numbered
      /\ msgs[n] \in [what : Kinds, born : Nat] /\ now \in Nat
      /\ UNCHANGED <<now, msgs, psk, datagrams>>
  BY Received DEF PacketComes, Published
<1>2. /\ 1..Taken' = 1..Taken \cup {n} /\ n \notin 1..Taken /\ Reported' = Reported
  BY <1>1 DEF Reported
<1>3. \/ wanted /\ gated' = Append(gated, e) /\ UNCHANGED <<igate, fate>>
      \/ /\ gated' = gated /\ fate' = [fate EXCEPT !.cut = @ \cup {n}]
         /\ igate' = [igate EXCEPT !.at = "sleep"]
      \/ gated' = gated /\ fate' = [fate EXCEPT !.unwanted = @ \cup {n}] /\ igate' = igate
  BY <1>1 DEF PacketComes
<1>4. wanted => msgs[n].what \in [to : {"igate"}, good : {TRUE}] /\ now - msgs[n].born <= Stale
  BY <1>1 DEF Kinds, Age
<1>5. n \in Numbered /\ e \in [n : Numbered, at : Nat] /\ e.n = n /\ e.at = now
  BY <1>1
<1> HIDE DEF n, wanted, e
<1>6. /\ fate' \in [accepted : SUBSET Numbered, unsent : SUBSET Numbered, cut : SUBSET Numbered,
                    unwanted : SUBSET Numbered]
      /\ fate'.accepted = fate.accepted /\ fate'.unsent = fate.unsent
      /\ fate'.cut \subseteq fate.cut \cup {n} /\ fate.cut \subseteq fate'.cut /\ fate.unwanted \subseteq fate'.unwanted
  BY <1>3, <1>5 DEF Tallied
<1>7. Tallied'
  BY <1>2, <1>6 DEF Tallied
<1>8. Spots' /\ InTime' /\ DatagramsAddUp' /\ SpotsAccountedFor'
  <2>1. Spots'
    BY <1>1, <1>2 DEF Spots
  <2>2. InTime' /\ DatagramsAddUp'
    BY <1>1, SentStays DEF InTime
  <2>3. SpotsAccountedFor'
    BY <1>1, <1>6 DEF SpotsAccountedFor
  <2> QED
    BY <2>1, <2>2, <2>3
<1>9. Gated'
  <2>1. gated \in Seq([n : Numbered, at : Nat]) /\ Len(gated) \in Nat
    BY LenProperties DEF Gated
  <2>2. \A i \in 1..Len(gated) :
          /\ gated[i].n \in 1..Taken /\ gated[i].n \notin fate.cut
          /\ msgs[gated[i].n].what \in [to : {"igate"}, good : {TRUE}]
          /\ gated[i].at - msgs[gated[i].n].born <= Stale
          /\ i > 1 => gated[i - 1].n < gated[i].n
    BY DEF Gated
  <2>3. igate' \in [at : {"connect", "login", "logresp", "forward", "sleep", "stopped"},
                    lines : 0..LoginLines - 1, backoff : 1..MaxBackoff]
    BY <1>3 DEF Gated
  <2>4. enabled = "igate" /\ Len(msgs) <= Backlogged =>
          \A m \in 1..Taken : \/ \E i \in 1..Len(gated) : gated[i].n = m
                              \/ m \in fate.cut \cup fate.unwanted
    BY DEF Gated
  <2>5. CASE wanted /\ gated' = Append(gated, e) /\ UNCHANGED <<igate, fate>>
    <3>1. /\ gated' \in Seq([n : Numbered, at : Nat]) /\ Len(gated') = Len(gated) + 1
          /\ gated'[Len(gated) + 1] = e /\ \A i \in 1..Len(gated) : gated'[i] = gated[i]
      BY <1>5, <2>1, <2>5, AppendProperties
    <3>2. 1..Len(gated') = 1..Len(gated) \cup {Len(gated) + 1} /\ Len(gated) + 1 \in 1..Len(gated')
      BY <2>1, <3>1
    <3>3. ASSUME NEW i \in 1..Len(gated)
          PROVE  /\ gated'[i].n \in 1..Taken' /\ gated'[i].n \notin fate'.cut
                 /\ msgs[gated'[i].n].what \in [to : {"igate"}, good : {TRUE}]
                 /\ gated'[i].at - msgs[gated'[i].n].born <= Stale
                 /\ i > 1 => gated'[i - 1].n < gated'[i].n
      <4>1. i > 1 => i - 1 \in 1..Len(gated)
        BY <2>1
      <4> QED
        BY <1>2, <2>2, <2>5, <3>1, <4>1
    <3>4. /\ e.n \in 1..Taken' /\ e.n \notin fate'.cut
          /\ msgs[e.n].what \in [to : {"igate"}, good : {TRUE}] /\ e.at - msgs[e.n].born <= Stale
          /\ Len(gated) + 1 > 1 => gated'[Len(gated)].n < e.n
      <4>1. fate.cut \subseteq 1..Taken
        BY DEF Tallied
      <4>2. Len(gated) + 1 > 1 => Len(gated) \in 1..Len(gated)
        BY <2>1
      <4>3. \A m \in 1..Taken : m < n
        BY <1>1 DEF n
      <4> QED
        BY <1>2, <1>4, <1>5, <2>2, <2>5, <3>1, <4>1, <4>2, <4>3
    <3>5. enabled = "igate" /\ Len(msgs) <= Backlogged =>
            \A m \in 1..Taken' : \/ \E i \in 1..Len(gated') : gated'[i].n = m
                                 \/ m \in fate'.cut \cup fate'.unwanted
      <4>1. \A m \in 1..Taken : (\E i \in 1..Len(gated) : gated[i].n = m) => \E i \in 1..Len(gated') : gated'[i].n = m
        BY <3>1, <3>2
      <4>2. \E i \in 1..Len(gated') : gated'[i].n = n
        BY <1>5, <3>1, <3>2
      <4> QED
        BY <1>2, <2>4, <2>5, <4>1, <4>2
    <3>6. Len(gated) + 1 - 1 = Len(gated)
      BY <2>1
    <3>7. ASSUME NEW i \in 1..Len(gated')
          PROVE  /\ gated'[i].n \in 1..Taken' /\ gated'[i].n \notin fate'.cut
                 /\ msgs[gated'[i].n].what \in [to : {"igate"}, good : {TRUE}]
                 /\ gated'[i].at - msgs[gated'[i].n].born <= Stale
                 /\ i > 1 => gated'[i - 1].n < gated'[i].n
      <4>1. CASE i \in 1..Len(gated)
        BY <3>3, <4>1
      <4>2. CASE i = Len(gated) + 1
        <5>1. gated'[i] = e /\ i - 1 = Len(gated)
          BY <3>1, <3>6, <4>2
        <5> QED
          BY <3>4, <4>2, <5>1
      <4> QED
        BY <3>2, <3>7, <4>1, <4>2
    <3> QED
      BY <1>1, <2>3, <3>1, <3>5, <3>7 DEF Gated
  <2>6. CASE gated' = gated /\ n \in fate'.cut \cup fate'.unwanted
    <3>1. \A i \in 1..Len(gated) : gated[i].n \in 1..Taken' /\ gated[i].n \notin fate'.cut
      BY <1>2, <1>6, <2>2
    <3>2. enabled = "igate" /\ Len(msgs) <= Backlogged =>
            \A m \in 1..Taken' : \/ \E i \in 1..Len(gated) : gated[i].n = m
                                 \/ m \in fate'.cut \cup fate'.unwanted
      BY <1>2, <1>6, <2>4, <2>6
    <3> QED
      BY <1>1, <2>1, <2>2, <2>3, <2>6, <3>1, <3>2 DEF Gated
  <2>7. gated' = gated /\ (fate' = [fate EXCEPT !.cut = @ \cup {n}] \/ fate' = [fate EXCEPT !.unwanted = @ \cup {n}])
           => n \in fate'.cut \cup fate'.unwanted
    BY DEF Tallied
  <2> QED
    BY <1>3, <2>5, <2>6, <2>7
<1> QED
  BY <1>1, <1>7, <1>8, <1>9

LEMMA UplinkKeeps == UplinkInd /\ [UplinkNext]_uplinkVars => UplinkInd'
<1> SUFFICES ASSUME UplinkInd, [UplinkNext]_uplinkVars PROVE UplinkInd'
  OBVIOUS
<1>1. CASE UNCHANGED uplinkVars
  <2>1. igate \in [at : {"connect", "login", "logresp", "forward", "sleep", "stopped"},
                   lines : 0..LoginLines - 1, backoff : 1..MaxBackoff]
    BY DEF UplinkInd, Gated
  <2> QED
    BY <1>1, <2>1, GateMovesKeeps DEF uplinkVars
<1>2. CASE UplinkNext
  <2>1. UNCHANGED enabled
    BY <1>2 DEF UplinkNext
  <2>2. CASE Elapse \/ \E k \in Kinds : Broadcast(k)
    BY <2>1, <2>2, ElapseKeeps, BroadcastKeeps
  <2>3. CASE enabled = "psk" /\ (SpotComes \/ FlushTick \/ PskStops)
    <3>1. CASE FlushTick
      BY <2>1, <2>3, <3>1, SendKeeps, NoDatagramKeeps DEF FlushTick
    <3> QED
      BY <2>1, <2>3, <3>1, SpotKeeps, PskStopKeeps
  <2>4. CASE enabled = "igate" /\ (ConnectGate \/ LoginWritten \/ OtherLine \/ LogRespLine)
    BY <2>1, <2>4, GateStepKeeps
  <2>5. CASE enabled = "igate" /\ (GateFails \/ Slept \/ PacketComes \/ GateStops)
    BY <2>1, <2>5, GateStepKeeps, PacketKeepsOrder
  <2> QED
    BY <1>2, <2>2, <2>3, <2>4, <2>5 DEF UplinkNext
<1> QED
  BY <1>1, <1>2

\* The reporters (pskreporter.rs and aprsfi.rs of trx-reporting): sequence numbers count the
\* spots reported before, no spot is reported twice, late or beside another of its sender,
\* none that was accepted disappears without a reason; packets are forwarded in order and
\* once, and none is missed in a reconnect unless the broadcast is full. For any capacity,
\* period and backoff, and any number of messages.
THEOREM UplinksHold == UplinkSpec => []UplinkInv
<1>1. UplinkInd => UplinkInv
  <2> SUFFICES ASSUME UplinkInd PROVE UplinkInv
    OBVIOUS
  <2> USE UplinkAssumption DEF UplinkAssumption, UplinkInd
  <2>1. UplinkTypeOK
    <3>1. ASSUME NEW n \in 1..Len(msgs) PROVE msgs[n].what \in Kinds /\ msgs[n].born \in 0..now
      <4>1. Published
        OBVIOUS
      <4>2. msgs[n] \in [what : Kinds, born : Nat]
        BY <3>1, <4>1, Numbers
      <4>3. msgs[n].born <= now /\ now \in Nat
        BY <3>1 DEF Published
      <4> QED
        BY <4>2, <4>3
    <3>2. psk.sequence \in 1..MaxMessages + 1
      <4>1. Reported \in SUBSET (1..MaxMessages)
        BY Numbers DEF Spots, Numbered
      <4>4. IsFiniteSet(1..MaxMessages) /\ Cardinality(1..MaxMessages) = MaxMessages
        <5>1. MaxMessages \in Nat /\ MaxMessages \in Int /\ 1 \in Int
          OBVIOUS
        <5>2. /\ IsFiniteSet(1..MaxMessages)
              /\ Cardinality(1..MaxMessages) = IF 1 > MaxMessages THEN 0 ELSE MaxMessages - 1 + 1
          BY <5>1, FS_Interval
        <5> QED
          BY <5>1, <5>2
      <4>2. IsFiniteSet(Reported) /\ Cardinality(Reported) <= MaxMessages
        BY <4>1, <4>4, FS_Subset
      <4>3. Cardinality(Reported) \in Nat
        BY <4>2, FS_CardinalityType
      <4> QED
        BY <4>2, <4>3 DEF Spots
    <3> QED
      BY <3>1, <3>2 DEF UplinkTypeOK, Published, Spots, Gated
  <2>2. PacketsGatedInOrder
    <3>1. ASSUME NEW n \in 1..Len(msgs), n \notin 1..Taken PROVE \E i \in 1..Len(waiting) : waiting[i] = n
      <4>1. n - Taken \in 1..Len(waiting)
        BY <3>1, Numbers DEF Taken
      <4>2. waiting[n - Taken] = Taken + (n - Taken)
        BY <4>1 DEF Published
      <4> QED
        BY <4>1, <4>2, Numbers
    <3> QED
      BY <3>1 DEF PacketsGatedInOrder, Gated
  <2> QED
    BY <2>1, <2>2 DEF UplinkInv
<1> QED
  BY <1>1, UplinkStarts, UplinkKeeps, PTL DEF UplinkSpec

-----------------------------------------------------------------------------
(***************************************************************************)
(* The recorder.                                                            *)
(***************************************************************************)
RecorderTask == [at : {"spawned", "runs", "done", "failed"}, key : Keys, second : 0..MaxSeconds,
                 stop : BOOLEAN, packets : 0..MaxPackets, faulty : BOOLEAN]
RecorderShape ==
    /\ second \in 0..MaxSeconds /\ {flag, missed, muddled, spoiled} \subseteq BOOLEAN
    /\ tasks \in Seq(RecorderTask) /\ Len(tasks) <= MaxTasks
    /\ \A t \in TaskIds : tasks[t].at = "spawned" => tasks[t].packets = 0
    /\ entries \in [Keys -> 0..Len(tasks)]
    /\ call \in [Callers -> [at : {"idle", "flagOn", "join", "check", "flagOff"}, task : 0..MaxTasks]]
    /\ \A c \in Callers : call[c].at = "join" => call[c].task \in TaskIds

Recorded == \E k \in Keys : entries[k] # 0
Somebody(S) == \E c \in Callers : call[c].at \in S

\* The flag of the rig while requests are under way: a start sets it and a stop clears it
\* with their entries already changed, and they do not meet.
FlagUnderWay ==
    ~muddled =>
        /\ Somebody({"flagOn"}) => Recorded /\ ~Somebody(Stopping)
        /\ Somebody({"flagOff"}) => ~Recorded
        /\ ~missed => (Recorded => flag \/ Somebody({"flagOn"}))
        /\ ~missed => (flag => Recorded \/ spoiled \/ Somebody(Stopping))

\* The whole pages of a task's file.
Pages(t) == IF tasks[t].at = "failed" THEN 0 ELSE tasks[t].packets + 2

FilesShape ==
    \A f \in files :
        /\ f = [name |-> f.name, by |-> f.by, pages |-> f.pages, ended |-> f.ended, mixed |-> f.mixed]
        /\ f.by \in TaskIds /\ f.name = NameOf(f.by) /\ tasks[f.by].at # "spawned"
        /\ f.pages = Pages(f.by) /\ f.mixed \in BOOLEAN /\ f.ended \in BOOLEAN

\* What makes the recording of a file whole, its pages apart.
EndedRight(f) ==
    /\ f.ended => tasks[f.by].at = "done"
    /\ tasks[f.by].at = "done" /\ ~tasks[f.by].faulty => f.ended
MixedRight(f) ==
    f.mixed => \E t \in TaskIds \ {f.by} : NameOf(t) = f.name /\ (tasks[t].stop \/ tasks[f.by].stop)
FilesKept == \A f \in files : EndedRight(f) /\ MixedRight(f)

RecorderInd == RecorderShape /\ EntriesAreTasks /\ FlagUnderWay /\ FilesShape /\ FilesKept

LEMMA RecorderStarts == RecorderInit => RecorderInd
<1> SUFFICES ASSUME RecorderInit PROVE RecorderInd
  OBVIOUS
<1>1. tasks \in Seq(RecorderTask) /\ Len(tasks) = 0 /\ TaskIds = {}
  BY DEF RecorderInit, TaskIds
<1>2. RecorderShape
  <2>1. second \in 0..MaxSeconds /\ Len(tasks) <= MaxTasks /\ 0 \in 0..Len(tasks) /\ 0 \in 0..MaxTasks
    BY <1>1, RecorderAssumption DEF RecorderAssumption, RecorderInit
  <2>2. {flag, missed, muddled, spoiled} \subseteq BOOLEAN /\ entries \in [Keys -> 0..Len(tasks)]
    BY <2>1 DEF RecorderInit
  <2>3. /\ call \in [Callers -> [at : {"idle", "flagOn", "join", "check", "flagOff"}, task : 0..MaxTasks]]
        /\ \A c \in Callers : call[c].at = "idle"
    BY <2>1 DEF RecorderInit, Idle
  <2> QED
    BY <1>1, <2>1, <2>2, <2>3 DEF RecorderShape
<1>3. EntriesAreTasks
  BY <1>1 DEF RecorderInit, EntriesAreTasks
<1>4. FlagUnderWay
  BY DEF RecorderInit, Idle, FlagUnderWay, Recorded, Somebody, Stopping
<1>5. FilesShape /\ FilesKept
  BY DEF RecorderInit, FilesShape, FilesKept
<1> QED
  BY <1>2, <1>3, <1>4, <1>5 DEF RecorderInd

\* What does not touch the tasks leaves the files as they are.
LEMMA FilesStay ==
    ASSUME RecorderInd, UNCHANGED tasks, files' \subseteq files
    PROVE  FilesShape' /\ FilesKept' /\ TaskIds' = TaskIds
BY DEF RecorderInd, FilesShape, FilesKept, EndedRight, MixedRight, Pages, TaskIds, NameOf

LEMMA TasksTyped ==
    ASSUME RecorderShape
    PROVE  /\ Len(tasks) \in Nat /\ TaskIds = 1..Len(tasks) /\ TaskIds = DOMAIN tasks
           /\ TaskIds \subseteq 1..MaxTasks
           /\ \A t \in TaskIds : tasks[t] \in RecorderTask
<1>1. Len(tasks) \in Nat /\ DOMAIN tasks = 1..Len(tasks) /\ \A t \in 1..Len(tasks) : tasks[t] \in RecorderTask
  BY LenProperties DEF RecorderShape
<1> QED
  BY <1>1, RecorderAssumption DEF RecorderAssumption, RecorderShape, TaskIds

LEMMA StartKeeps ==
    ASSUME RecorderInd, NEW c \in Callers, NEW k \in Keys, StartRecording(c, k) PROVE RecorderInd'
<1> USE RecorderAssumption DEF RecorderAssumption, RecorderInd
<1> DEFINE n == Len(tasks) + 1
           task == [at |-> "spawned", key |-> k, second |-> second, stop |-> FALSE, packets |-> 0, faulty |-> FALSE]
<1>0. /\ call[c].at = "idle" /\ entries[k] = 0 /\ Len(tasks) < MaxTasks
      /\ tasks' = Append(tasks, task) /\ entries' = [entries EXCEPT ![k] = n]
      /\ call' = [call EXCEPT ![c] = [at |-> "flagOn", task |-> 0]]
      /\ muddled' = (muddled \/ \E d \in Callers : call'[d].at = "flagOn" /\ \E e \in Callers : call'[e].at \in Stopping)
      /\ UNCHANGED <<second, files, flag, missed, spoiled>>
  BY DEF StartRecording, Moves
<1>1. task \in RecorderTask /\ tasks \in Seq(RecorderTask)
  BY DEF RecorderShape, RecorderTask
<1> HIDE DEF task
<1>2. /\ tasks' \in Seq(RecorderTask) /\ Len(tasks') = n /\ tasks'[n] = task /\ TaskIds' = TaskIds \cup {n}
      /\ \A t \in TaskIds : tasks'[t] = tasks[t] /\ t # n
      /\ Len(tasks) \in Nat /\ n \notin TaskIds /\ n # 0
  BY <1>0, <1>1, AppendProperties, TasksTyped DEF TaskIds
<1> HIDE DEF n
<1>3. RecorderShape'
  <2>1. n \in 0..n /\ 0..Len(tasks) \subseteq 0..n /\ n <= MaxTasks
    BY <1>0, <1>2 DEF n
  <2>2. entries' \in [Keys -> 0..Len(tasks')]
    BY <1>0, <1>2, <2>1 DEF RecorderShape
  <2>3. \A t \in TaskIds' : tasks'[t].at = "spawned" => tasks'[t].packets = 0
    <3>1. \A t \in TaskIds : tasks[t].at = "spawned" => tasks[t].packets = 0
      BY DEF RecorderShape
    <3>2. task.packets = 0
      BY DEF task
    <3> QED
      BY <1>2, <3>1, <3>2
  <2>4. call' \in [Callers -> [at : {"idle", "flagOn", "join", "check", "flagOff"}, task : 0..MaxTasks]]
    BY <1>0 DEF RecorderShape
  <2>5. \A d \in Callers : call'[d].at = "join" => call'[d].task \in TaskIds'
    BY <1>0, <1>2 DEF RecorderShape
  <2> QED
    BY <1>0, <1>2, <2>1, <2>2, <2>3, <2>4, <2>5 DEF RecorderShape
<1>4. EntriesAreTasks'
  <2>1. task.key = k /\ ~task.stop
    BY DEF task
  <2>2. ASSUME NEW j \in Keys, entries'[j] # 0 PROVE tasks'[entries'[j]].key = j /\ ~tasks'[entries'[j]].stop
    <3>1. CASE j = k
      BY <1>0, <1>2, <2>1, <3>1 DEF RecorderShape
    <3>2. CASE j # k
      <4>1. entries'[j] = entries[j] /\ entries[j] \in TaskIds
        BY <1>0, <1>2, <2>2, <3>2, TasksTyped DEF RecorderShape
      <4> QED
        BY <1>2, <2>2, <4>1 DEF EntriesAreTasks
    <3> QED
      BY <3>1, <3>2
  <2>3. ASSUME NEW t \in TaskIds' PROVE entries'[tasks'[t].key] = t \/ tasks'[t].stop
    <3>1. CASE t = n
      BY <1>0, <1>2, <2>1, <3>1 DEF RecorderShape
    <3>2. CASE t \in TaskIds
      <4>1. tasks'[t] = tasks[t] /\ tasks[t].key \in Keys /\ t # 0
        BY <1>2, <3>2, TasksTyped DEF RecorderTask
      <4>2. tasks[t].stop \/ tasks[t].key # k
        BY <1>0, <3>2, <4>1 DEF EntriesAreTasks
      <4> QED
        BY <1>0, <3>2, <4>1, <4>2 DEF EntriesAreTasks, RecorderShape
    <3> QED
      BY <1>2, <3>1, <3>2
  <2> QED
    BY <2>2, <2>3 DEF EntriesAreTasks
<1>5. FlagUnderWay'
  <2>1. Recorded'
    BY <1>0, <1>2 DEF Recorded, RecorderShape
  <2>2. call'[c].at = "flagOn" /\ \A d \in Callers : d # c => call'[d] = call[d]
    BY <1>0 DEF RecorderShape
  <2>3. ~muddled' => ~Somebody(Stopping)' /\ Somebody({"flagOn"})' /\ ~Somebody({"flagOff"})'
    BY <1>0, <2>2 DEF Somebody, Stopping
  <2> QED
    BY <2>1, <2>3 DEF FlagUnderWay
<1>6. FilesShape' /\ FilesKept'
  <2>1. \A t \in TaskIds : NameOf(t)' = NameOf(t)
    BY <1>2 DEF NameOf
  <2>2. FilesShape'
    BY <1>0, <1>2, <2>1 DEF FilesShape, Pages
  <2>3. ASSUME NEW f \in files PROVE EndedRight(f)'
    <3>1. f.by \in TaskIds /\ tasks'[f.by] = tasks[f.by] /\ EndedRight(f)
      BY <1>2 DEF FilesShape, FilesKept
    <3> QED
      BY <3>1, Zenon DEF EndedRight
  <2>4. ASSUME NEW f \in files, f.mixed
        PROVE  \E u \in TaskIds' \ {f.by} : NameOf(u)' = f.name /\ (tasks'[u].stop \/ tasks'[f.by].stop)
    <3>1. f.by \in TaskIds /\ tasks'[f.by] = tasks[f.by]
      BY <1>2 DEF FilesShape
    <3>2. PICK u \in TaskIds \ {f.by} : NameOf(u) = f.name /\ (tasks[u].stop \/ tasks[f.by].stop)
      BY <2>4 DEF FilesKept, MixedRight
    <3>3. tasks'[u] = tasks[u] /\ NameOf(u)' = f.name /\ u \in TaskIds' \ {f.by}
      BY <1>2, <2>1, <3>2
    <3> QED
      BY <3>1, <3>2, <3>3
  <2>5. FilesKept'
    BY <1>0, <2>3, <2>4 DEF FilesKept, MixedRight
  <2> QED
    BY <2>2, <2>5
<1> QED
  BY <1>3, <1>4, <1>5, <1>6

\* A request that goes on without a change of the tasks and entries.
LEMMA CallerMoves ==
    ASSUME RecorderInd, NEW c \in Callers, NEW at \in {"idle", "check", "flagOff"},
           Moves(c, at, 0), UNCHANGED <<second, entries, tasks, files>>, {flag', missed', spoiled'} \subseteq BOOLEAN
    PROVE  /\ RecorderShape' /\ EntriesAreTasks' /\ FilesShape' /\ FilesKept' /\ Recorded' = Recorded
           /\ call'[c].at = at /\ \A d \in Callers : d # c => call'[d] = call[d]
           /\ muddled => muddled'
<1> USE DEF RecorderInd
<1>1. /\ call' = [call EXCEPT ![c] = [at |-> at, task |-> 0]]
      /\ muddled' = (muddled \/ \E d \in Callers : call'[d].at = "flagOn" /\ \E e \in Callers : call'[e].at \in Stopping)
  BY DEF Moves
<1>2. FilesShape' /\ FilesKept' /\ TaskIds' = TaskIds
  BY FilesStay
<1>3. RecorderShape'
  BY <1>1, <1>2, RecorderAssumption DEF RecorderAssumption, RecorderShape
<1>4. EntriesAreTasks' /\ Recorded' = Recorded
  BY <1>2 DEF EntriesAreTasks, Recorded
<1>5. call'[c].at = at /\ \A d \in Callers : d # c => call'[d] = call[d]
  BY <1>1 DEF RecorderShape
<1> QED
  BY <1>1, <1>2, <1>3, <1>4, <1>5

LEMMA FlagOnKeeps == ASSUME RecorderInd, NEW c \in Callers, FlagOn(c) PROVE RecorderInd'
<1> USE DEF RecorderInd
<1>1. /\ call[c].at = "flagOn" /\ SetFlag(TRUE) /\ spoiled' = spoiled /\ Moves(c, "idle", 0)
      /\ UNCHANGED <<second, entries, tasks, files>>
  BY DEF FlagOn
<1>2. {flag', missed', spoiled'} \subseteq BOOLEAN
  BY <1>1, Zenon DEF RecorderShape, SetFlag
<1>3. /\ RecorderShape' /\ EntriesAreTasks' /\ FilesShape' /\ FilesKept' /\ Recorded' = Recorded
      /\ call'[c].at = "idle" /\ \A d \in Callers : d # c => call'[d] = call[d]
      /\ muddled => muddled'
  BY <1>1, <1>2, CallerMoves
<1>4. FlagUnderWay'
  BY <1>1, <1>3 DEF FlagUnderWay, Somebody, Stopping, SetFlag
<1> QED
  BY <1>3, <1>4

LEMMA StopKeeps ==
    ASSUME RecorderInd, NEW c \in Callers, NEW k \in Keys, StopRecording(c, k) PROVE RecorderInd'
<1> USE RecorderAssumption DEF RecorderAssumption, RecorderInd
<1> DEFINE n == entries[k]
<1>0. /\ call[c].at = "idle" /\ n # 0
      /\ tasks' = [tasks EXCEPT ![n].stop = TRUE] /\ entries' = [entries EXCEPT ![k] = 0]
      /\ call' = [call EXCEPT ![c] = [at |-> "join", task |-> n]]
      /\ muddled' = (muddled \/ \E d \in Callers : call'[d].at = "flagOn" /\ \E e \in Callers : call'[e].at \in Stopping)
      /\ UNCHANGED <<second, files, flag, missed, spoiled>>
  BY DEF StopRecording, Moves
<1>1. n \in TaskIds /\ tasks[n] \in RecorderTask /\ tasks[n].key = k /\ ~tasks[n].stop /\ n \in 1..MaxTasks
  BY <1>0, TasksTyped DEF RecorderShape, EntriesAreTasks
<1> DEFINE task == [tasks[n] EXCEPT !.stop = TRUE]
<1>2. /\ task \in RecorderTask /\ task.key = k /\ task.stop = TRUE /\ task.at = tasks[n].at
      /\ task.packets = tasks[n].packets /\ task.second = tasks[n].second
      /\ task.faulty = tasks[n].faulty
  BY <1>1 DEF RecorderTask
<1>3. tasks' = [tasks EXCEPT ![n] = task]
  BY <1>0
<1> HIDE DEF task
<1>4. /\ tasks' \in Seq(RecorderTask) /\ Len(tasks') = Len(tasks) /\ TaskIds' = TaskIds /\ tasks'[n] = task
      /\ \A t \in TaskIds : t # n => tasks'[t] = tasks[t]
  BY <1>1, <1>2, <1>3, ExceptSeq, TasksTyped DEF RecorderShape, TaskIds
<1> HIDE DEF n
<1>5. \A t \in TaskIds : /\ tasks'[t].key = tasks[t].key /\ tasks'[t].second = tasks[t].second
                         /\ tasks'[t].at = tasks[t].at /\ tasks'[t].packets = tasks[t].packets
                         /\ tasks'[t].faulty = tasks[t].faulty
                         /\ tasks[t].stop => tasks'[t].stop
  BY <1>1, <1>2, <1>4
<1>6. RecorderShape'
  <2>1. entries' \in [Keys -> 0..Len(tasks')]
    BY <1>0, <1>4, TasksTyped DEF RecorderShape
  <2>2. call' \in [Callers -> [at : {"idle", "flagOn", "join", "check", "flagOff"}, task : 0..MaxTasks]]
    BY <1>0, <1>1 DEF RecorderShape
  <2>3. \A d \in Callers : call'[d].at = "join" => call'[d].task \in TaskIds'
    BY <1>0, <1>1, <1>4 DEF RecorderShape
  <2> QED
    BY <1>0, <1>4, <1>5, <2>1, <2>2, <2>3 DEF RecorderShape
<1>7. EntriesAreTasks'
  <2>1. ASSUME NEW j \in Keys, entries'[j] # 0 PROVE tasks'[entries'[j]].key = j /\ ~tasks'[entries'[j]].stop
    <3>1. j # k /\ entries'[j] = entries[j] /\ entries[j] \in TaskIds
      BY <1>0, <2>1, TasksTyped DEF RecorderShape
    <3>2. tasks[entries[j]].key = j /\ ~tasks[entries[j]].stop
      BY <3>1, <2>1 DEF EntriesAreTasks
    <3> QED
      BY <1>1, <1>4, <3>1, <3>2
  <2>2. ASSUME NEW t \in TaskIds' PROVE entries'[tasks'[t].key] = t \/ tasks'[t].stop
    <3>1. CASE t = n
      BY <1>2, <1>4, <3>1
    <3>2. CASE t # n
      <4>1. tasks'[t] = tasks[t] /\ tasks[t].key \in Keys /\ t # 0
        BY <1>4, <2>2, <3>2, TasksTyped DEF RecorderTask
      <4>2. CASE tasks[t].key = k
        BY <1>4, <2>2, <3>2, <4>1, <4>2 DEF EntriesAreTasks, n
      <4>3. CASE tasks[t].key # k
        BY <1>0, <1>4, <2>2, <3>2, <4>1, <4>3 DEF EntriesAreTasks, RecorderShape
      <4> QED
        BY <4>2, <4>3
    <3> QED
      BY <3>1, <3>2
  <2> QED
    BY <2>1, <2>2 DEF EntriesAreTasks
<1>8. FlagUnderWay'
  <2>1. call'[c].at = "join" /\ \A d \in Callers : d # c => call'[d] = call[d]
    BY <1>0 DEF RecorderShape
  <2>2. Somebody(Stopping)'
    BY <2>1 DEF Somebody, Stopping
  <2>3. ~muddled' => ~Somebody({"flagOn"})' /\ ~Somebody({"flagOn"}) /\ ~muddled
    BY <1>0, <2>1 DEF Somebody, Stopping
  <2>4. Recorded' => Recorded
    BY <1>0 DEF Recorded, RecorderShape
  <2>5. Somebody({"flagOff"})' => Somebody({"flagOff"})
    BY <1>0, <2>1 DEF Somebody
  <2> QED
    BY <1>0, <2>2, <2>3, <2>4, <2>5 DEF FlagUnderWay
<1>9. FilesShape' /\ FilesKept'
  BY <1>0, <1>4, <1>5 DEF FilesShape, FilesKept, EndedRight, MixedRight, Pages, NameOf
<1> QED
  BY <1>6, <1>7, <1>8, <1>9

LEMMA JoinKeeps == ASSUME RecorderInd, NEW c \in Callers, Joined(c) PROVE RecorderInd'
<1> USE DEF RecorderInd
<1> DEFINE at == IF tasks[call[c].task].at = "done" THEN "check" ELSE "idle"
<1>1. /\ call[c].at = "join" /\ tasks[call[c].task].at \in {"done", "failed"} /\ Moves(c, at, 0)
      /\ spoiled' = (spoiled \/ tasks[call[c].task].at = "failed") /\ UNCHANGED <<second, entries, tasks, files, flag, missed>>
  BY DEF Joined
<1>2. {flag', missed', spoiled'} \subseteq BOOLEAN /\ at \in {"idle", "check", "flagOff"} /\ (at = "idle" => spoiled')
  BY <1>1 DEF RecorderShape
<1> HIDE DEF at
<1>3. /\ RecorderShape' /\ EntriesAreTasks' /\ FilesShape' /\ FilesKept' /\ Recorded' = Recorded
      /\ call'[c].at = at /\ \A d \in Callers : d # c => call'[d] = call[d]
      /\ muddled => muddled'
  BY <1>1, <1>2, CallerMoves
<1>4. at \in {"idle", "check"}
  BY DEF at
<1>5. FlagUnderWay'
  BY <1>1, <1>2, <1>3, <1>4 DEF FlagUnderWay, Somebody, Stopping
<1> QED
  BY <1>3, <1>5

LEMMA CheckKeeps == ASSUME RecorderInd, NEW c \in Callers, ChecksOthers(c) PROVE RecorderInd'
<1> USE DEF RecorderInd
<1> DEFINE at == IF Recorded THEN "idle" ELSE "flagOff"
<1>1. /\ call[c].at = "check" /\ Moves(c, at, 0) /\ UNCHANGED <<second, entries, tasks, files, flag, missed, spoiled>>
  BY DEF ChecksOthers, Recorded
<1>2. /\ {flag', missed', spoiled'} \subseteq BOOLEAN
      /\ at \in {"idle", "check", "flagOff"} /\ ((at = "idle" /\ Recorded) \/ (at = "flagOff" /\ ~Recorded))
  <2>1. {flag', missed', spoiled'} \subseteq BOOLEAN
    BY <1>1 DEF RecorderShape
  <2>2. at \in {"idle", "check", "flagOff"} /\ ((at = "idle" /\ Recorded) \/ (at = "flagOff" /\ ~Recorded))
    <3>1. ASSUME Recorded PROVE at = "idle"
      BY <3>1
    <3>2. ASSUME ~Recorded PROVE at = "flagOff"
      BY <3>2
    <3> QED
      BY <3>1, <3>2
  <2> QED
    BY <2>1, <2>2
<1> HIDE DEF at
<1>3. /\ RecorderShape' /\ EntriesAreTasks' /\ FilesShape' /\ FilesKept' /\ Recorded' = Recorded
      /\ call'[c].at = at /\ \A d \in Callers : d # c => call'[d] = call[d]
      /\ muddled => muddled'
  BY <1>1, <1>2, CallerMoves
<1>4. FlagUnderWay'
  BY <1>1, <1>2, <1>3 DEF FlagUnderWay, Somebody, Stopping
<1> QED
  BY <1>3, <1>4

LEMMA FlagOffKeeps == ASSUME RecorderInd, NEW c \in Callers, FlagOff(c) PROVE RecorderInd'
<1> USE DEF RecorderInd
<1>1. /\ call[c].at = "flagOff" /\ SetFlag(FALSE) /\ spoiled' = spoiled /\ Moves(c, "idle", 0)
      /\ UNCHANGED <<second, entries, tasks, files>>
  BY DEF FlagOff
<1>2. {flag', missed', spoiled'} \subseteq BOOLEAN
  BY <1>1, Zenon DEF RecorderShape, SetFlag
<1>3. /\ RecorderShape' /\ EntriesAreTasks' /\ FilesShape' /\ FilesKept' /\ Recorded' = Recorded
      /\ call'[c].at = "idle" /\ \A d \in Callers : d # c => call'[d] = call[d]
      /\ muddled => muddled'
  BY <1>1, <1>2, CallerMoves
<1>4. FlagUnderWay'
  BY <1>1, <1>3 DEF FlagUnderWay, Somebody, Stopping, SetFlag
<1> QED
  BY <1>3, <1>4

\* A step of a task: nothing of the manager changes.
LEMMA TaskMoves ==
    ASSUME RecorderInd, NEW t \in TaskIds, NEW task \in RecorderTask, tasks' = [tasks EXCEPT ![t] = task],
           task.key = tasks[t].key, task.stop = tasks[t].stop, task.second = tasks[t].second,
           task.at # "spawned",
           UNCHANGED <<second, call, entries, flag, missed, muddled, spoiled>>
    PROVE  /\ RecorderShape' /\ EntriesAreTasks' /\ FlagUnderWay' /\ TaskIds' = TaskIds
           /\ tasks'[t] = task /\ \A u \in TaskIds : u # t => tasks'[u] = tasks[u]
           /\ \A u \in TaskIds : NameOf(u)' = NameOf(u) /\ tasks'[u].stop = tasks[u].stop
<1> USE DEF RecorderInd
<1>1. /\ tasks' \in Seq(RecorderTask) /\ Len(tasks') = Len(tasks) /\ TaskIds' = TaskIds /\ tasks'[t] = task
      /\ \A u \in TaskIds : u # t => tasks'[u] = tasks[u]
  BY ExceptSeq, TasksTyped DEF RecorderShape, TaskIds
<1>2. \A u \in TaskIds : /\ tasks'[u].key = tasks[u].key /\ tasks'[u].second = tasks[u].second
                         /\ tasks'[u].stop = tasks[u].stop
  BY <1>1
<1>3. RecorderShape'
  BY <1>1 DEF RecorderShape
<1>4. EntriesAreTasks'
  <2>1. \A k \in Keys : entries[k] # 0 => entries[k] \in TaskIds
    BY TasksTyped DEF RecorderShape
  <2> QED
    BY <1>1, <1>2, <2>1 DEF EntriesAreTasks
<1>5. FlagUnderWay'
  BY DEF FlagUnderWay, Recorded, Somebody
<1> QED
  BY <1>1, <1>2, <1>3, <1>4, <1>5 DEF NameOf

\* A new file with its task.
LEMMA NewFileKeeps ==
    ASSUME RecorderInd, NEW t \in TaskIds, NEW task \in RecorderTask, NEW pages \in {0, 2},
           tasks[t].at = "spawned", tasks' = [tasks EXCEPT ![t] = task],
           task.key = tasks[t].key, task.stop = tasks[t].stop, task.second = tasks[t].second,
           task.packets = 0, task.at = (IF pages = 2 THEN "runs" ELSE "failed"),
           files' = NewFile(t, pages) \/ (files' = files /\ pages = 0),
           UNCHANGED <<second, call, entries, flag, missed, muddled, spoiled>>
    PROVE  RecorderInd'
<1> USE DEF RecorderInd
<1>1. /\ RecorderShape' /\ EntriesAreTasks' /\ FlagUnderWay' /\ TaskIds' = TaskIds
      /\ tasks'[t] = task /\ \A u \in TaskIds : u # t => tasks'[u] = tasks[u]
      /\ \A u \in TaskIds : NameOf(u)' = NameOf(u) /\ tasks'[u].stop = tasks[u].stop
  BY TaskMoves
<1> DEFINE new == [name |-> NameOf(t), by |-> t, pages |-> pages, ended |-> FALSE, mixed |-> FALSE]
<1>2. \A f \in files' : f \in files \/ f = new
  BY DEF NewFile
<1>3. /\ new.name = NameOf(t) /\ new.by = t /\ new.pages = pages /\ new.ended = FALSE /\ new.mixed = FALSE
      /\ new = [name |-> new.name, by |-> new.by, pages |-> new.pages, ended |-> new.ended, mixed |-> new.mixed]
  OBVIOUS
<1> HIDE DEF new
<1>4. ASSUME NEW f \in files
      PROVE  /\ f.by \in TaskIds /\ f.by # t /\ tasks'[f.by] = tasks[f.by] /\ NameOf(f.by)' = NameOf(f.by)
             /\ Pages(f.by)' = Pages(f.by)
  BY <1>1 DEF FilesShape, Pages
<1>5. task.at \in {"runs", "failed"} /\ Pages(t)' = pages
  BY <1>1 DEF Pages
<1>6. FilesShape'
  <2> SUFFICES ASSUME NEW f \in files'
               PROVE  /\ f = [name |-> f.name, by |-> f.by, pages |-> f.pages, ended |-> f.ended, mixed |-> f.mixed]
                      /\ f.by \in TaskIds' /\ f.name = NameOf(f.by)' /\ tasks'[f.by].at # "spawned"
                      /\ f.pages = Pages(f.by)' /\ f.mixed \in BOOLEAN /\ f.ended \in BOOLEAN
    BY DEF FilesShape
  <2>1. CASE f \in files
    BY <1>1, <1>4, <2>1 DEF FilesShape
  <2>2. CASE f = new
    <3>1. f.by = t /\ f.name = NameOf(t) /\ f.pages = pages
      BY <1>3, <2>2
    <3>2. f = [name |-> f.name, by |-> f.by, pages |-> f.pages, ended |-> f.ended, mixed |-> f.mixed]
      BY <1>3, <2>2
    <3>3. f.mixed \in BOOLEAN /\ f.ended \in BOOLEAN
      BY <1>3, <2>2, Zenon
    <3>4. tasks'[f.by].at # "spawned" /\ f.name = NameOf(f.by)' /\ f.pages = Pages(f.by)' /\ f.by \in TaskIds'
      BY <1>1, <1>5, <3>1
    <3> QED
      BY <3>2, <3>3, <3>4, Zenon
  <2> QED
    BY <1>2, <2>1, <2>2
<1>7. ASSUME NEW f \in files' PROVE EndedRight(f)' /\ MixedRight(f)'
  <2>1. CASE f \in files
    <3>1. EndedRight(f) /\ tasks'[f.by] = tasks[f.by]
      BY <1>4, <2>1 DEF FilesKept
    <3>2. EndedRight(f)'
      BY <3>1, Zenon DEF EndedRight
    <3>3. MixedRight(f)'
      BY <1>1, <1>4, <2>1 DEF FilesKept, MixedRight
    <3> QED
      BY <3>2, <3>3
  <2>2. CASE f = new
    <3>1. f.by = t /\ ~f.ended /\ ~f.mixed
      BY <1>3, <2>2, Zenon
    <3>2. tasks'[f.by].at # "done"
      BY <1>1, <1>5, <3>1
    <3> QED
      BY <3>1, <3>2, Zenon DEF EndedRight, MixedRight
  <2> QED
    BY <1>2, <2>1, <2>2
<1> QED
  BY <1>1, <1>6, <1>7 DEF FilesKept

LEMMA CreateKeeps == ASSUME RecorderInd, NEW t \in TaskIds, CreateFile(t) \/ CreateFails(t) PROVE RecorderInd'
<1> USE DEF RecorderInd
<1>1. PICK pages \in {0, 2} :
         /\ tasks[t].at = "spawned"
         /\ tasks' = [tasks EXCEPT ![t].at = IF pages = 2 THEN "runs" ELSE "failed"]
         /\ UNCHANGED <<second, call, entries, flag, missed, muddled, spoiled>>
         /\ files' = NewFile(t, pages) \/ (files' = files /\ pages = 0)
  BY DEF CreateFile, CreateFails, SetTask
<1> DEFINE at == IF pages = 2 THEN "runs" ELSE "failed"
           task == [tasks[t] EXCEPT !.at = at]
<1>2. /\ task \in RecorderTask /\ tasks' = [tasks EXCEPT ![t] = task] /\ task.key = tasks[t].key
      /\ task.stop = tasks[t].stop /\ task.second = tasks[t].second /\ task.at = at /\ task.packets = 0
  BY <1>1, TasksTyped DEF RecorderTask, RecorderShape
<1> HIDE DEF task
<1> QED
  BY <1>1, <1>2, NewFileKeeps

\* What a task writes: its own file grows, and another of the same name is mixed up with it.
LEMMA WritesKeep ==
    ASSUME RecorderInd, NEW t \in TaskIds, NEW more \in {0, 1}, NEW ended \in BOOLEAN, NEW task \in RecorderTask,
           tasks[t].at = "runs", tasks' = [tasks EXCEPT ![t] = task],
           files' = Written(t, more, ended) \/ (files' = files /\ more = 0 /\ ~ended),
           task.key = tasks[t].key, task.stop = tasks[t].stop, task.second = tasks[t].second,
           task.packets = tasks[t].packets + more, task.at \in {"runs", "done"},
           ended => task.at = "done", task.at = "done" /\ ~task.faulty => ended,
           UNCHANGED <<second, call, entries, flag, missed, muddled, spoiled>>
    PROVE  RecorderInd'
<1> USE DEF RecorderInd
<1>1. /\ RecorderShape' /\ EntriesAreTasks' /\ FlagUnderWay' /\ TaskIds' = TaskIds
      /\ tasks'[t] = task /\ \A u \in TaskIds : u # t => tasks'[u] = tasks[u]
      /\ \A u \in TaskIds : NameOf(u)' = NameOf(u) /\ tasks'[u].stop = tasks[u].stop
  BY TaskMoves
<1>2. ASSUME NEW f \in files
      PROVE  /\ f.by \in TaskIds /\ f.name = NameOf(f.by) /\ tasks[f.by].at # "spawned"
             /\ f.mixed \in BOOLEAN /\ f.ended \in BOOLEAN
             /\ f = [name |-> f.name, by |-> f.by, pages |-> f.pages, ended |-> f.ended, mixed |-> f.mixed]
             /\ f.pages = Pages(f.by) /\ f.pages \in Nat
             /\ f.by = t => ~f.ended
  BY TasksTyped, RecorderAssumption
     DEF FilesShape, FilesKept, EndedRight, Pages, RecorderTask, RecorderAssumption
<1>3. ASSUME NEW g \in files'
      PROVE  \E f \in files : /\ g.name = f.name /\ g.by = f.by /\ g.mixed \in BOOLEAN
                              /\ g = [name |-> g.name, by |-> g.by, pages |-> g.pages, ended |-> g.ended, mixed |-> g.mixed]
                              /\ g.pages = f.pages + (IF f.by = t THEN more ELSE 0)
                              /\ g.ended = (IF f.by = t THEN ended ELSE f.ended)
                              /\ g.mixed => f.mixed \/ (f.by # t /\ f.name = NameOf(t))
  <2>1. CASE files' = Written(t, more, ended)
    <3>1. PICK f \in files : g = IF f.name # NameOf(t) THEN f
                                 ELSE IF f.by = t THEN [f EXCEPT !.pages = @ + more, !.ended = ended]
                                 ELSE [f EXCEPT !.mixed = TRUE]
      BY <1>3, <2>1 DEF Written
    <3>2. CASE f.name # NameOf(t)
      BY <1>2, <3>1, <3>2
    <3>5. f = [name |-> f.name, by |-> f.by, pages |-> f.pages, ended |-> f.ended, mixed |-> f.mixed]
      BY <1>2
    <3>3. CASE f.name = NameOf(t) /\ f.by = t
      <4>1. g = [f EXCEPT !.pages = @ + more, !.ended = ended]
        BY <3>1, <3>3, Zenon
      <4>2. g = [name |-> f.name, by |-> f.by, pages |-> f.pages + more, ended |-> ended, mixed |-> f.mixed]
        BY <3>5, <4>1
      <4>3. /\ g.name = f.name /\ g.by = f.by /\ g.pages = f.pages + more /\ g.ended = ended
            /\ g.mixed = f.mixed
        BY <4>2
      <4> QED
        BY <1>2, <3>3, <4>2, <4>3, Zenon
    <3>4. CASE f.name = NameOf(t) /\ f.by # t
      <4>1. g = [f EXCEPT !.mixed = TRUE]
        BY <3>1, <3>4, Zenon
      <4>2. g = [name |-> f.name, by |-> f.by, pages |-> f.pages, ended |-> f.ended, mixed |-> TRUE]
        BY <3>5, <4>1
      <4>3. f.pages + 0 = f.pages
        BY <1>2
      <4> QED
        BY <3>4, <4>2, <4>3
    <3> QED
      BY <3>2, <3>3, <3>4
  <2>2. CASE files' = files /\ more = 0 /\ ~ended
    <3>1. g \in files
      BY <1>3, <2>2
    <3>2. g.pages = g.pages + (IF g.by = t THEN more ELSE 0)
      BY <1>2, <2>2, <3>1
    <3>3. g.ended = (IF g.by = t THEN ended ELSE g.ended)
      BY <1>2, <2>2, <3>1, Zenon
    <3> QED
      BY <1>2, <3>1, <3>2, <3>3, Zenon
  <2> QED
    BY <2>1, <2>2
<1>4. \A u \in TaskIds : Pages(u)' = Pages(u) + (IF u = t THEN more ELSE 0)
  <2>1. \A u \in TaskIds : tasks[u].packets \in Nat
    BY TasksTyped, RecorderAssumption DEF RecorderTask, RecorderAssumption
  <2> QED
    BY <1>1, <2>1 DEF Pages
<1>5. FilesShape'
  <2> SUFFICES ASSUME NEW g \in files'
               PROVE  /\ g = [name |-> g.name, by |-> g.by, pages |-> g.pages, ended |-> g.ended, mixed |-> g.mixed]
                      /\ g.by \in TaskIds /\ g.name = NameOf(g.by) /\ tasks'[g.by].at # "spawned"
                      /\ g.pages = Pages(g.by)' /\ g.mixed \in BOOLEAN /\ g.ended \in BOOLEAN
    BY <1>1 DEF FilesShape
  <2>1. PICK f \in files : /\ g.name = f.name /\ g.by = f.by /\ g.mixed \in BOOLEAN
                           /\ g = [name |-> g.name, by |-> g.by, pages |-> g.pages, ended |-> g.ended, mixed |-> g.mixed]
                           /\ g.pages = f.pages + (IF f.by = t THEN more ELSE 0)
                           /\ g.ended = (IF f.by = t THEN ended ELSE f.ended)
    BY <1>3
  <2>2. g.pages = Pages(g.by)' /\ g.by \in TaskIds /\ g.name = NameOf(g.by)
    BY <1>2, <1>4, <2>1
  <2>3. g.ended \in BOOLEAN
    BY <1>2, <2>1, Zenon
  <2>4. tasks'[g.by].at # "spawned"
    BY <1>1, <1>2, <2>1
  <2> QED
    BY <2>1, <2>2, <2>3, <2>4, Zenon
<1>6. ASSUME NEW g \in files' PROVE EndedRight(g)' /\ MixedRight(g)'
  <2>1. PICK f \in files : /\ g.name = f.name /\ g.by = f.by
                           /\ g.ended = (IF f.by = t THEN ended ELSE f.ended)
                           /\ g.mixed => f.mixed \/ (f.by # t /\ f.name = NameOf(t))
    BY <1>3
  <2>2. f.by \in TaskIds /\ f.name = NameOf(f.by)
    BY <1>2
  <2>3. EndedRight(g)'
    <3>1. CASE f.by = t
      <4>1. tasks'[g.by] = task /\ g.ended = ended
        BY <1>1, <2>1, <3>1, Zenon
      <4> QED
        BY <4>1, Zenon DEF EndedRight
    <3>2. CASE f.by # t
      <4>1. tasks'[g.by] = tasks[f.by] /\ g.ended = f.ended /\ EndedRight(f) /\ g.by = f.by
        BY <1>1, <2>1, <2>2, <3>2, Zenon DEF FilesKept
      <4> QED
        BY <4>1, Zenon DEF EndedRight
    <3> QED
      BY <3>1, <3>2
  <2>4. ASSUME f.by # t, f.name = NameOf(t) PROVE tasks[t].stop \/ tasks[f.by].stop
    BY <2>2, <2>4 DEF NameOf, EntriesAreTasks
  <2>5. ASSUME g.mixed PROVE \E u \in TaskIds' \ {g.by} : NameOf(u)' = g.name /\ (tasks'[u].stop \/ tasks'[g.by].stop)
    <3>1. CASE f.mixed
      <4>1. PICK u \in TaskIds \ {f.by} : NameOf(u) = f.name /\ (tasks[u].stop \/ tasks[f.by].stop)
        BY <3>1 DEF FilesKept, MixedRight
      <4> QED
        BY <1>1, <2>1, <2>2, <4>1
    <3>2. CASE ~f.mixed
      BY <1>1, <2>1, <2>2, <2>4, <2>5, <3>2
    <3> QED
      BY <3>1, <3>2
  <2>6. MixedRight(g)'
    BY <2>5 DEF MixedRight
  <2> QED
    BY <2>3, <2>6
<1> QED
  BY <1>1, <1>5, <1>6 DEF FilesKept

LEMMA PacketKeeps == ASSUME RecorderInd, NEW t \in TaskIds, PacketWritten(t) PROVE RecorderInd'
<1> DEFINE task == [tasks[t] EXCEPT !.packets = @ + 1]
<1>1. tasks[t] \in RecorderTask
  BY TasksTyped DEF RecorderInd
<1>2. /\ tasks[t].at = "runs" /\ tasks[t].packets < MaxPackets /\ tasks' = [tasks EXCEPT ![t].packets = @ + 1]
      /\ files' = Written(t, 1, FALSE) /\ UNCHANGED <<second, call, entries, flag, missed, muddled, spoiled>>
  BY DEF PacketWritten
<1>3. /\ task \in RecorderTask /\ tasks' = [tasks EXCEPT ![t] = task] /\ task.key = tasks[t].key
      /\ task.stop = tasks[t].stop /\ task.second = tasks[t].second /\ task.at = "runs"
      /\ task.packets = tasks[t].packets + 1
      /\ task.faulty = tasks[t].faulty
  BY <1>1, <1>2, RecorderAssumption DEF RecorderTask, RecorderAssumption
<1> HIDE DEF task
<1> QED
  BY <1>2, <1>3, WritesKeep

LEMMA FinalizedKeeps == ASSUME RecorderInd, NEW t \in TaskIds, Finalized(t) PROVE RecorderInd'
<1>1. tasks[t] \in RecorderTask
  BY TasksTyped DEF RecorderInd
<1>2. tasks[t].at = "runs" /\ UNCHANGED <<second, call, entries, flag, missed, muddled, spoiled>>
  BY DEF Finalized, SetTask
<1>3. CASE files' = Written(t, 0, TRUE) /\ SetTask(t, "done")
  <2> DEFINE task == [tasks[t] EXCEPT !.at = "done"]
  <2>1. /\ task \in RecorderTask /\ tasks' = [tasks EXCEPT ![t] = task] /\ task.key = tasks[t].key
        /\ task.stop = tasks[t].stop /\ task.second = tasks[t].second /\ task.at = "done"
        /\ task.packets = tasks[t].packets + 0
    BY <1>1, <1>3, RecorderAssumption DEF SetTask, RecorderTask, RecorderAssumption
  <2> HIDE DEF task
  <2> QED
    BY <1>2, <1>3, <2>1, WritesKeep
<1>4. CASE /\ files' \in {files, Written(t, 0, FALSE), Written(t, 0, TRUE)}
           /\ tasks' = [tasks EXCEPT ![t] = [@ EXCEPT !.at = "done", !.faulty = TRUE]]
  <2> DEFINE task == [tasks[t] EXCEPT !.at = "done", !.faulty = TRUE]
  <2>4. tasks' = [tasks EXCEPT ![t] = task]
    BY <1>4
  <2>5. task \in RecorderTask
    BY <1>1 DEF RecorderTask
  <2>6. /\ task.key = tasks[t].key /\ task.stop = tasks[t].stop /\ task.second = tasks[t].second
        /\ task.at = "done" /\ task.packets = tasks[t].packets
    BY <1>1, Zenon DEF RecorderTask
  <2>1. task.packets = tasks[t].packets + 0
    BY <1>1, <2>6, RecorderAssumption DEF RecorderTask, RecorderAssumption
  <2>3. task.faulty
    BY <1>1 DEF RecorderTask
  <2> HIDE DEF task
  <2> DEFINE ended == files' = Written(t, 0, TRUE)
  <2>2. /\ ended \in BOOLEAN
        /\ files' = Written(t, 0, ended) \/ (files' = files /\ ~ended)
    BY <1>4
  <2> HIDE DEF ended
  <2> QED
    BY <1>2, <2>1, <2>2, <2>3, <2>4, <2>5, <2>6, WritesKeep
<1> QED
  BY <1>2, <1>3, <1>4 DEF Finalized

LEMMA RecorderKeeps == RecorderInd /\ [RecorderNext]_recorderVars => RecorderInd'
<1> SUFFICES ASSUME RecorderInd, [RecorderNext]_recorderVars PROVE RecorderInd'
  OBVIOUS
<1>1. ASSUME UNCHANGED <<call, entries, tasks, flag, missed, muddled, spoiled>>, files' \subseteq files,
             second' \in 0..MaxSeconds
      PROVE  RecorderInd'
  <2>1. FilesShape' /\ FilesKept' /\ TaskIds' = TaskIds
    BY <1>1, FilesStay
  <2> QED
    BY <1>1, <2>1 DEF RecorderInd, RecorderShape, EntriesAreTasks, FlagUnderWay, Recorded, Somebody
<1>2. CASE SecondPasses
  BY <1>1, <1>2, RecorderAssumption DEF SecondPasses, RecorderAssumption, RecorderInd, RecorderShape
<1>3. CASE \E f \in files : DeleteFile(f)
  BY <1>1, <1>3 DEF DeleteFile, RecorderInd, RecorderShape
<1>4. CASE UNCHANGED recorderVars
  BY <1>1, <1>4 DEF recorderVars, RecorderInd, RecorderShape
<1>5. CASE RecorderNext
  BY <1>2, <1>3, <1>5, StartKeeps, StopKeeps, FlagOnKeeps, JoinKeeps, CheckKeeps, FlagOffKeeps, CreateKeeps,
     PacketKeeps, FinalizedKeeps DEF RecorderNext
<1> QED
  BY <1>4, <1>5

\* The recorder (RecorderManager and the routes of api/recorder.rs): a task that was not told
\* to stop is the entry of its key; between requests the rig is shown as recorded exactly as
\* the entries say unless a start has met a stop, a failed recording was stopped or the last
\* command about it failed; and a file holds what its task has written, complete when it has
\* ended without a failed write. For any number of requests and recordings.
THEOREM RecordingsHold == RecorderSpec => []RecorderInv
<1>1. RecorderInd => RecorderInv
  <2> SUFFICES ASSUME RecorderInd PROVE RecorderInv
    OBVIOUS
  <2> USE RecorderAssumption DEF RecorderAssumption, RecorderInd
  <2>1. \A f \in files : f.pages \in 0..MaxPackets + 2
    <3> SUFFICES ASSUME NEW f \in files PROVE f.pages \in 0..MaxPackets + 2
      OBVIOUS
    <3>1. f.by \in TaskIds /\ f.pages = Pages(f.by)
      BY DEF FilesShape
    <3>2. tasks[f.by].packets \in 0..MaxPackets
      BY <3>1, TasksTyped DEF RecorderTask
    <3> QED
      BY <3>1, <3>2 DEF Pages
  <2>2. RecorderTypeOK
    BY <2>1, TasksTyped DEF RecorderTypeOK, RecorderShape, RecorderTask, FilesShape
  <2>3. FlagFollows
    BY DEF FlagFollows, FlagUnderWay, Recorded, Somebody, Stopping
  <2>4. FilesWhole
    BY DEF FilesWhole, FilesShape, FilesKept, EndedRight, MixedRight, Pages
  <2> QED
    BY <2>2, <2>3, <2>4 DEF RecorderInv
<1> QED
  BY <1>1, RecorderStarts, RecorderKeeps, PTL DEF RecorderSpec

-----------------------------------------------------------------------------
(***************************************************************************)
(* The rigctl sessions.  An answer carries the state of the rig that made   *)
(* it, and that state is one of those the program's promise is about.       *)
(***************************************************************************)
Vfos == {"VFOA", "VFOB"}
Cmds == [op : {"SetFreq"}, arg : Nat] \cup [op : {"SetPtt"}, arg : BOOLEAN]
        \cup [op : {"ToggleVfo", "GetSnapshot"}, arg : {0}]
Answers == [ok : BOOLEAN, why : {"", "grid", "other"}, vfo : Vfos]
Talks == [at : {"closed", "reading", "waiting"}, line : Lines \cup {NoLine}, step : 0..3, req : Nat,
          got : Seq(Answers)]
Queued == [who : Programs, n : Nat, cmd : Cmds]

\* What a line asks at a step, what a state must be to have done it, and to
\* fulfil the line.
AskedAt(line, step) ==
    IF line.op = "F" THEN [op |-> "SetFreq", arg |-> IF step = 1 THEN line.arg ELSE Rounded(line.arg)]
    ELSE IF line.op = "T" THEN [op |-> "SetPtt", arg |-> line.arg]
    ELSE IF line.op = "V" /\ step = 2 THEN [op |-> "ToggleVfo", arg |-> 0]
    ELSE Look
StepFits(line, step) ==
    /\ line \in Lines /\ step \in 1..3
    /\ line.op = "F" => step \in 1..2
    /\ line.op \in {"f", "T"} => step = 1
Did(t, cmd) == /\ cmd.op = "SetFreq" => t.freq = cmd.arg
               /\ cmd.op = "SetPtt" => t.ptt = cmd.arg
Fulfils(t, line) == /\ line.op = "V" => t.vfo = line.arg
                    /\ line.op = "F" => t.freq \in {line.arg, Rounded(line.arg)}
                    /\ line.op = "T" => t.ptt = line.arg

SessionShape ==
    /\ program \in [Programs -> Talks] /\ requests \in Seq(Queued)
    /\ issued \in Nat /\ trx \in Trx /\ lines \in 0..MaxLines /\ trouble \in 0..MaxTrouble
    /\ since \in [Programs -> SUBSET Trx]
    /\ \A p \in Programs : program[p].req <= issued /\ Len(program[p].got) <= 1
    /\ \A p \in Programs : program[p].at = "waiting" => StepFits(program[p].line, program[p].step)
    /\ \A i \in DOMAIN requests : requests[i].n \in 1..issued

\* The request a program waits for is the one its line asks at its step.
Pending ==
    \A i \in DOMAIN requests : \A p \in Programs :
        (requests[i].who = p /\ program[p].at = "waiting" /\ program[p].req = requests[i].n)
            => requests[i].cmd = AskedAt(program[p].line, program[p].step)

\* An answer tells of a state the rig has had since the request.
Witnessed ==
    \A p \in Programs :
        (program[p].at = "waiting" /\ program[p].got # <<>> /\ program[p].got[1].ok)
            => \E t \in since[p] : /\ t.vfo = program[p].got[1].vfo
                                   /\ Did(t, AskedAt(program[p].line, program[p].step))

Promised == said.ok => \E t \in said.states : Fulfils(t, said.line)

OpenOnes == {p \in Programs : program[p].at # "closed"}
Connections == IsFiniteSet(OpenOnes) /\ connected = Cardinality(OpenOnes)

RigctlInd == SessionShape /\ Pending /\ Witnessed /\ Promised /\ Connections /\ OnGrid

LEMMA RoundedType == ASSUME NEW f \in Nat PROVE Rounded(f) \in Nat
<1>1. Grid \div 2 \in Nat
  BY RigctlAssumption DEF RigctlAssumption
<1>2. (f + Grid \div 2) \div Grid \in Nat
  BY <1>1, RigctlAssumption DEF RigctlAssumption
<1> DEFINE n == (f + Grid \div 2) \div Grid
<1>3. ASSUME NEW m \in Nat PROVE m * Grid \in Nat
  BY RigctlAssumption DEF RigctlAssumption
<1> QED
  BY <1>2, <1>3 DEF Rounded

LEMMA AskedType == ASSUME NEW line, NEW step, StepFits(line, step) PROVE AskedAt(line, step) \in Cmds
<1>1. line \in Lines
  BY DEF StepFits
<1>2. CASE line.op = "F"
  <2>1. line.arg \in Nat
    BY <1>1, <1>2, RigctlAssumption DEF Lines, RigctlAssumption
  <2>2. Rounded(line.arg) \in Nat
    BY <2>1, RoundedType
  <2> QED
    BY <1>2, <2>1, <2>2 DEF AskedAt, Cmds
<1>3. CASE line.op = "T"
  BY <1>1, <1>3 DEF AskedAt, Cmds, Lines
<1>4. CASE line.op \notin {"F", "T"}
  BY <1>4 DEF AskedAt, Cmds, Look
<1> QED
  BY <1>2, <1>3, <1>4

LEMMA RigctlStarts == RigctlInit => RigctlInd
<1> SUFFICES ASSUME RigctlInit PROVE RigctlInd
  OBVIOUS
<1> USE RigctlAssumption DEF RigctlAssumption, RigctlInit
<1>1. requests \in Seq(Queued) /\ DOMAIN requests = {} /\ <<>> \in Seq(Answers) /\ Len(<<>>) = 0
  OBVIOUS
<1>2. Hangup \in Talks /\ Hangup.at = "closed" /\ Hangup.req = 0 /\ Hangup.got = <<>>
  BY <1>1 DEF Hangup, Talks
<1> HIDE DEF Hangup
<1>3. trx \in Trx /\ OnGrid
  BY DEF Trx, OnGrid
<1>4. SessionShape
  BY <1>1, <1>2, <1>3 DEF SessionShape
<1>5. Pending /\ Witnessed
  BY <1>1, <1>2 DEF Pending, Witnessed
<1>6. Promised
  BY DEF Promised, NothingSaid
<1>7. Connections
  <2>1. OpenOnes = {}
    BY <1>2 DEF OpenOnes
  <2> QED
    BY <2>1, FS_EmptySet DEF Connections
<1> QED
  BY <1>3, <1>4, <1>5, <1>6, <1>7 DEF RigctlInd

LEMMA QueueFacts ==
    ASSUME SessionShape
    PROVE  /\ Len(requests) \in Nat /\ DOMAIN requests = 1..Len(requests)
           /\ \A i \in DOMAIN requests : requests[i] \in Queued
BY LenProperties DEF SessionShape

(***************************************************************************)
(* A session that changes.                                                  *)
(***************************************************************************)
LEMMA SessionChanges ==
    ASSUME RigctlInd, NEW p \in Programs, NEW s \in Talks, program' = [program EXCEPT ![p] = s],
           Len(s.got) <= 1, s.req <= issued', s.at = "waiting" => StepFits(s.line, s.step),
           issued' \in Nat, issued' >= issued, UNCHANGED trx, lines' \in 0..MaxLines, trouble' \in 0..MaxTrouble,
           NEW states \in SUBSET Trx, since' = [since EXCEPT ![p] = states],
           requests' \in Seq(Queued), \A i \in DOMAIN requests' : requests'[i].n \in 1..issued'
    PROVE  SessionShape' /\ OnGrid' /\ program'[p] = s /\ since'[p] = states
           /\ \A q \in Programs : q # p => program'[q] = program[q] /\ since'[q] = since[q]
<1> USE DEF RigctlInd
<1>1. /\ program'[p] = s /\ since'[p] = states
      /\ \A q \in Programs : q # p => program'[q] = program[q] /\ since'[q] = since[q]
      /\ program' \in [Programs -> Talks] /\ since' \in [Programs -> SUBSET Trx]
  BY DEF SessionShape
<1>2. \A q \in Programs : program[q].req \in Nat
  BY DEF SessionShape, Talks
<1>3. \A q \in Programs : program'[q].req <= issued' /\ Len(program'[q].got) <= 1
  <2> SUFFICES ASSUME NEW q \in Programs PROVE program'[q].req <= issued' /\ Len(program'[q].got) <= 1
    OBVIOUS
  <2>1. CASE q = p
    BY <1>1, <2>1
  <2>2. CASE q # p
    <3>1. program'[q] = program[q] /\ program[q].req <= issued /\ Len(program[q].got) <= 1
      BY <1>1, <2>2 DEF SessionShape
    <3>2. issued \in Nat
      BY DEF SessionShape
    <3> QED
      BY <1>2, <3>1, <3>2
  <2> QED
    BY <2>1, <2>2
<1>4. \A q \in Programs : program'[q].at = "waiting" => StepFits(program'[q].line, program'[q].step)
  BY <1>1 DEF SessionShape
<1>5. OnGrid'
  BY DEF OnGrid
<1>6. SessionShape'
  BY <1>1, <1>3, <1>4 DEF SessionShape, StepFits
<1> QED
  BY <1>1, <1>5, <1>6

LEMMA StaysOpen ==
    ASSUME RigctlInd, NEW p \in Programs, program[p].at # "closed", program'[p].at # "closed",
           \A q \in Programs : q # p => program'[q] = program[q], UNCHANGED connected
    PROVE  Connections'
<1>1. OpenOnes' = OpenOnes
  BY DEF OpenOnes
<1> QED
  BY <1>1 DEF RigctlInd, Connections

\* The answers of the others are not touched, and this one has none to show.
LEMMA WitnessStays ==
    ASSUME RigctlInd, NEW p \in Programs, program'[p].at # "waiting" \/ program'[p].got = <<>>,
           \A q \in Programs : q # p => program'[q] = program[q] /\ since'[q] = since[q]
    PROVE  Witnessed'
<1> SUFFICES ASSUME NEW q \in Programs, program'[q].at = "waiting", program'[q].got # <<>>, program'[q].got[1].ok
             PROVE  \E t \in since'[q] : /\ t.vfo = program'[q].got[1].vfo
                                         /\ Did(t, AskedAt(program'[q].line, program'[q].step))
  BY DEF Witnessed, AskedAt, Rounded, Look, Did
<1>1. q # p
  OBVIOUS
<1>2. program'[q] = program[q] /\ since'[q] = since[q]
  BY <1>1
<1> QED
  BY <1>2 DEF RigctlInd, Witnessed

LEMMA IssueKeeps ==
    ASSUME RigctlInd, NEW p \in Programs, program[p].at # "closed", NEW line, NEW step, StepFits(line, step),
           Issue(p, line, step, AskedAt(line, step)), since' = [since EXCEPT ![p] = {trx}],
           UNCHANGED <<trx, connected, said>>, lines' \in 0..MaxLines, trouble' \in 0..MaxTrouble
    PROVE  RigctlInd'
<1> USE DEF RigctlInd
<1> DEFINE n == issued + 1
           cmd == AskedAt(line, step)
           s == [at |-> "waiting", line |-> line, step |-> step, req |-> n, got |-> <<>>]
           r == [who |-> p, n |-> n, cmd |-> cmd]
<1>1. issued \in Nat /\ trx \in Trx /\ requests \in Seq(Queued)
  BY DEF SessionShape
<1>2. issued' = n /\ requests' = Append(requests, r) /\ program' = [program EXCEPT ![p] = s]
  BY DEF Issue
<1>3. cmd \in Cmds
  BY AskedType
<1>4. /\ r \in Queued /\ r.who = p /\ r.n = n /\ r.cmd = cmd
  BY <1>1, <1>3 DEF Queued
<1>5. /\ s \in Talks /\ s.at = "waiting" /\ s.line = line /\ s.step = step /\ s.req = n /\ s.got = <<>>
      /\ Len(<<>>) = 0
  BY <1>1 DEF Talks, StepFits
<1>6. n \in Nat /\ n >= issued /\ n > issued /\ n \in 1..n
  BY <1>1
<1> HIDE DEF s, r, n, cmd
<1>7. /\ requests' \in Seq(Queued) /\ DOMAIN requests' = DOMAIN requests \cup {Len(requests) + 1}
      /\ requests'[Len(requests) + 1] = r /\ \A i \in DOMAIN requests : requests'[i] = requests[i]
  BY <1>1, <1>2, <1>4, QueueFacts, AppendProperties, LenProperties
<1>8. \A i \in DOMAIN requests' : requests'[i].n \in 1..issued'
  <2>1. \A i \in DOMAIN requests : requests[i].n \in 1..issued
    BY DEF SessionShape
  <2> QED
    BY <1>1, <1>2, <1>4, <1>6, <1>7, <2>1
<1>9. /\ SessionShape' /\ OnGrid' /\ program'[p] = s /\ since'[p] = {trx}
      /\ \A q \in Programs : q # p => program'[q] = program[q] /\ since'[q] = since[q]
  <2>1. Len(s.got) <= 1 /\ s.req <= issued' /\ StepFits(s.line, s.step) /\ {trx} \in SUBSET Trx
    BY <1>1, <1>2, <1>5, <1>6
  <2>2. issued' \in Nat /\ issued' >= issued
    BY <1>2, <1>6
  <2> QED
    BY <1>2, <1>5, <1>7, <1>8, <2>1, <2>2, SessionChanges
<1>10. Pending'
  <2> SUFFICES ASSUME NEW i \in DOMAIN requests', NEW q \in Programs, requests'[i].who = q,
                      program'[q].at = "waiting", program'[q].req = requests'[i].n
               PROVE  requests'[i].cmd = AskedAt(program'[q].line, program'[q].step)
    BY DEF Pending, AskedAt, Rounded, Look
  <2>1. CASE i = Len(requests) + 1
    BY <1>4, <1>5, <1>7, <1>9, <2>1 DEF cmd
  <2>2. CASE i \in DOMAIN requests /\ q # p
    BY <1>7, <1>9, <2>2 DEF Pending
  <2>3. CASE i \in DOMAIN requests /\ q = p
    <3>1. requests[i].n \in 1..issued /\ requests'[i] = requests[i] /\ program'[q].req = n
      BY <1>5, <1>7, <1>9, <2>3 DEF SessionShape
    <3> QED
      BY <1>1, <1>6, <3>1
  <2> QED
    BY <1>7, <2>1, <2>2, <2>3
<1>11. Witnessed'
  BY <1>5, <1>9, WitnessStays
<1>12. Promised' /\ Connections'
  BY <1>5, <1>9, StaysOpen DEF Promised, Fulfils, Rounded
<1> QED
  BY <1>9, <1>10, <1>11, <1>12

LEMMA ReplyKeeps ==
    ASSUME RigctlInd, NEW p \in Programs, program[p].at = "waiting", NEW ok \in BOOLEAN, Reply(p, ok),
           ok => \E t \in since[p] : Fulfils(t, program[p].line),
           UNCHANGED <<trx, connected, lines>>, trouble' \in 0..MaxTrouble
    PROVE  RigctlInd'
<1> USE DEF RigctlInd
<1> DEFINE s == [Hangup EXCEPT !.at = "reading"]
<1>1. /\ program' = [program EXCEPT ![p] = s] /\ since' = [since EXCEPT ![p] = {}]
      /\ said' = [line |-> program[p].line, ok |-> ok, states |-> since[p]] /\ UNCHANGED <<requests, issued>>
  BY DEF Reply
<1>2. /\ issued \in Nat /\ lines \in 0..MaxLines /\ requests \in Seq(Queued)
      /\ \A i \in DOMAIN requests : requests[i].n \in 1..issued
  BY DEF SessionShape
<1>3. s \in Talks /\ s.at = "reading" /\ s.req = 0 /\ s.got = <<>> /\ Len(<<>>) = 0
  <2>1. <<>> \in Seq(Answers) /\ Len(<<>>) = 0
    OBVIOUS
  <2>2. s = [at |-> "reading", line |-> NoLine, step |-> 0, req |-> 0, got |-> <<>>]
    BY DEF Hangup
  <2> HIDE DEF s
  <2> QED
    BY <2>1, <2>2 DEF Talks
<1> HIDE DEF s
<1>4. /\ SessionShape' /\ OnGrid' /\ program'[p] = s /\ since'[p] = {}
      /\ \A q \in Programs : q # p => program'[q] = program[q] /\ since'[q] = since[q]
  <2>1. /\ Len(s.got) <= 1 /\ s.req <= issued' /\ s.at # "waiting" /\ issued' \in Nat /\ issued' >= issued
        /\ lines' \in 0..MaxLines /\ trouble' \in 0..MaxTrouble /\ requests' \in Seq(Queued)
        /\ \A i \in DOMAIN requests' : requests'[i].n \in 1..issued'
    BY <1>1, <1>2, <1>3
  <2> QED
    BY <1>1, <1>2, <1>3, <2>1, SessionChanges
<1>5. Pending'
  BY <1>1, <1>3, <1>4 DEF Pending, AskedAt, Rounded, Look
<1>8. Witnessed'
  BY <1>1, <1>3, <1>4, WitnessStays
<1>6. Promised'
  BY <1>1 DEF Promised, Fulfils, Rounded
<1>7. Connections'
  BY <1>3, <1>4, StaysOpen
<1> QED
  BY <1>4, <1>5, <1>8, <1>6, <1>7

(***************************************************************************)
(* The steps.                                                               *)
(***************************************************************************)
LEMMA AcceptKeeps == ASSUME RigctlInd, NEW p \in Programs, AcceptProgram(p) PROVE RigctlInd'
<1> USE DEF RigctlInd
<1> DEFINE s == [program[p] EXCEPT !.at = "reading"]
<1>1. /\ program[p].at = "closed" /\ program' = [program EXCEPT ![p].at = "reading"]
      /\ connected' = connected + 1
      /\ UNCHANGED <<requests, trx, issued, lines, trouble, since, said>>
  BY DEF AcceptProgram
<1>2. program[p] \in Talks /\ program[p].req <= issued /\ Len(program[p].got) <= 1 /\ issued \in Nat
      /\ since[p] \in SUBSET Trx /\ since' = [since EXCEPT ![p] = since[p]] 
      /\ lines \in 0..MaxLines /\ trouble \in 0..MaxTrouble /\ requests \in Seq(Queued)
      /\ \A i \in DOMAIN requests : requests[i].n \in 1..issued
  BY <1>1 DEF SessionShape
<1>3. s \in Talks /\ s.at = "reading" /\ s.req = program[p].req /\ s.got = program[p].got
      /\ program' = [program EXCEPT ![p] = s]
  BY <1>1, <1>2 DEF Talks
<1> HIDE DEF s
<1>4. /\ SessionShape' /\ OnGrid' /\ program'[p] = s
      /\ \A q \in Programs : q # p => program'[q] = program[q] /\ since'[q] = since[q]
  <2>1. /\ Len(s.got) <= 1 /\ s.req <= issued' /\ s.at # "waiting" /\ issued' \in Nat /\ issued' >= issued
        /\ lines' \in 0..MaxLines /\ trouble' \in 0..MaxTrouble /\ requests' \in Seq(Queued)
        /\ \A i \in DOMAIN requests' : requests'[i].n \in 1..issued'
    BY <1>1, <1>2, <1>3
  <2> DEFINE states == since[p]
  <2>2. states \in SUBSET Trx /\ since' = [since EXCEPT ![p] = states] /\ trx' = trx
    BY <1>1, <1>2
  <2> HIDE DEF states
  <2> QED
    BY <1>3, <2>1, <2>2, SessionChanges
<1>5. Pending'
  BY <1>1, <1>3, <1>4 DEF Pending, AskedAt, Rounded, Look
<1>8. Witnessed'
  BY <1>1, <1>3, <1>4, WitnessStays
<1>6. Promised'
  BY <1>1 DEF Promised, Fulfils, Rounded
<1>7. Connections'
  <2>1. OpenOnes' = OpenOnes \cup {p} /\ p \notin OpenOnes
    BY <1>1, <1>3, <1>4 DEF OpenOnes
  <2> QED
    BY <1>1, <2>1, FS_AddElement DEF Connections
<1> QED
  BY <1>4, <1>5, <1>8, <1>6, <1>7

LEMMA QuitKeeps == ASSUME RigctlInd, NEW p \in Programs, Quits(p) PROVE RigctlInd'
<1> USE DEF RigctlInd
<1>1. /\ program[p].at = "reading" /\ program' = [program EXCEPT ![p] = Hangup]
      /\ connected' = connected - 1
      /\ UNCHANGED <<requests, trx, issued, lines, trouble, since, said>>
  BY DEF Quits
<1>2. issued \in Nat /\ since[p] \in SUBSET Trx /\ since' = [since EXCEPT ![p] = since[p]] 
      /\ lines \in 0..MaxLines /\ trouble \in 0..MaxTrouble /\ requests \in Seq(Queued)
      /\ \A i \in DOMAIN requests : requests[i].n \in 1..issued
  BY <1>1 DEF SessionShape
<1>3. Hangup \in Talks /\ Hangup.at = "closed" /\ Hangup.req = 0 /\ Hangup.got = <<>> /\ Len(<<>>) = 0
  <2>1. <<>> \in Seq(Answers) /\ Len(<<>>) = 0
    OBVIOUS
  <2> QED
    BY <2>1 DEF Hangup, Talks
<1>4. /\ SessionShape' /\ OnGrid' /\ program'[p] = Hangup
      /\ \A q \in Programs : q # p => program'[q] = program[q] /\ since'[q] = since[q]
  <2>1. /\ Len(Hangup.got) <= 1 /\ Hangup.req <= issued' /\ Hangup.at # "waiting" /\ issued' \in Nat /\ issued' >= issued
        /\ lines' \in 0..MaxLines /\ trouble' \in 0..MaxTrouble /\ requests' \in Seq(Queued)
        /\ \A i \in DOMAIN requests' : requests'[i].n \in 1..issued'
    BY <1>1, <1>2, <1>3
  <2> QED
    BY <1>1, <1>2, <1>3, <2>1, SessionChanges
<1>5. Pending'
  BY <1>1, <1>3, <1>4 DEF Pending, AskedAt, Rounded, Look
<1>8. Witnessed'
  BY <1>1, <1>3, <1>4, WitnessStays
<1>6. Promised'
  BY <1>1 DEF Promised, Fulfils, Rounded
<1>7. Connections'
  <2>1. OpenOnes' = OpenOnes \ {p} /\ p \in OpenOnes
    BY <1>1, <1>3, <1>4 DEF OpenOnes
  <2> QED
    BY <1>1, <2>1, FS_RemoveElement DEF Connections
<1> QED
  BY <1>4, <1>5, <1>8, <1>6, <1>7

LEMMA LineKeeps == ASSUME RigctlInd, NEW p \in Programs, NEW line \in Lines, Line(p, line) PROVE RigctlInd'
<1>1. StepFits(line, 1)
  BY DEF StepFits, Lines
<1>2. FirstRequest(line) = AskedAt(line, 1)
  BY DEF FirstRequest, AskedAt, Look
<1>3. lines' \in 0..MaxLines /\ trouble' \in 0..MaxTrouble
  BY RigctlAssumption DEF Line, RigctlInd, SessionShape, RigctlAssumption
<1> QED
  BY <1>1, <1>2, <1>3, IssueKeeps DEF Line

\* One answer, and what is known of it.
LEMMA GotOne ==
    ASSUME SessionShape, NEW p \in Programs, program[p].got # <<>>
    PROVE  program[p].got[1] \in Answers
<1>1. program[p].got \in Seq(Answers)
  BY DEF SessionShape, Talks
<1> QED
  BY <1>1, EmptySeq, LenProperties, ElementOfSeq

LEMMA ContinueKeeps == ASSUME RigctlInd, NEW p \in Programs, Continue(p) PROVE RigctlInd'
<1> USE DEF RigctlInd
<1> DEFINE s == program[p]
           a == s.got[1]
<1>1. /\ s.at = "waiting" /\ s.got # <<>> /\ UNCHANGED <<trx, connected, lines, trouble>>
      /\ a \in Answers /\ StepFits(s.line, s.step) /\ lines \in 0..MaxLines /\ trouble \in 0..MaxTrouble
      /\ s.line.op \in {"f", "F", "V", "T"} /\ s.step \in 1..3
  BY GotOne DEF Continue, SessionShape, StepFits, Lines
<1>2. ASSUME NEW cmd \in Further(s), Issue(p, s.line, s.step + 1, cmd), since' = [since EXCEPT ![p] = {trx}],
             UNCHANGED said
      PROVE  RigctlInd'
  <2>1. StepFits(s.line, s.step + 1) /\ cmd = AskedAt(s.line, s.step + 1)
    <3>1. CASE s.line.op = "F"
      BY <1>1, <1>2, <3>1 DEF Further, StepFits, AskedAt
    <3>2. CASE s.line.op = "V"
      BY <1>1, <1>2, <3>2 DEF Further, StepFits, AskedAt, Look
    <3>3. CASE s.line.op \in {"f", "T"}
      BY <1>1, <1>2, <3>3 DEF Further
    <3> QED
      BY <1>1, <3>1, <3>2, <3>3
  <2> QED
    BY <1>1, <1>2, <2>1, IssueKeeps
<1>3. ASSUME Reply(p, Confirmed(s)) PROVE RigctlInd'
  <2> DEFINE ok == Confirmed(s)
  <2>1. ok \in BOOLEAN
    BY <1>1 DEF Confirmed, Answers
  <2>2. ASSUME ok PROVE \E t \in since[p] : Fulfils(t, s.line)
    <3>1. a.ok /\ (s.line.op = "V" => a.vfo = s.line.arg)
      BY <2>2 DEF Confirmed
    <3>2. PICK t \in since[p] : t.vfo = a.vfo /\ Did(t, AskedAt(s.line, s.step))
      BY <1>1, <3>1 DEF Witnessed
    <3>3. Fulfils(t, s.line)
      BY <3>1, <3>2 DEF Fulfils, Did, AskedAt, Look
    <3> QED
      BY <3>3
  <2> HIDE DEF ok
  <2>3. Reply(p, ok)
    BY <1>3 DEF ok
  <2> QED
    BY <1>1, <2>1, <2>2, <2>3, ReplyKeeps
<1> QED
  BY <1>2, <1>3 DEF Continue

LEMMA GiveUpKeeps == ASSUME RigctlInd, NEW p \in Programs, GivesUp(p) PROVE RigctlInd'
<1>1. trouble' \in 0..MaxTrouble
  BY RigctlAssumption DEF GivesUp, RigctlInd, SessionShape, RigctlAssumption
<1> QED
  BY <1>1, ReplyKeeps DEF GivesUp

\* The rig carries out, or refuses, the request at the head of its queue.
LEMMA CarryOutKeeps == ASSUME RigctlInd, CarryOut PROVE RigctlInd'
<1> USE RigctlAssumption DEF RigctlAssumption, RigctlInd
<1> DEFINE r == Head(requests)
           cmd == r.cmd
<1>1. requests # <<>> /\ requests' = Tail(requests) /\ UNCHANGED <<issued, connected, lines, said>>
  BY DEF CarryOut
<1>2. /\ requests \in Seq(Queued) /\ issued \in Nat /\ lines \in 0..MaxLines /\ trouble \in 0..MaxTrouble
      /\ trx \in Trx /\ since \in [Programs -> SUBSET Trx] /\ program \in [Programs -> Talks]
  BY DEF SessionShape
<1>3. /\ 1 \in DOMAIN requests /\ r = requests[1] /\ r \in Queued
      /\ requests' \in Seq(Queued)
      /\ \A i \in DOMAIN requests' : i + 1 \in DOMAIN requests /\ requests'[i] = requests[i + 1]
  BY <1>1, <1>2, HeadTailProperties, EmptySeq, LenProperties, QueueFacts
<1>4. r.who \in Programs /\ r.n \in 1..issued /\ cmd \in Cmds
  BY <1>3 DEF Queued, SessionShape
<1> HIDE DEF r
<1>5. ASSUME NEW a \in Answers, Delivered(r, a), trouble' \in 0..MaxTrouble, trx' \in Trx, OnGrid',
             since' \in [Programs -> SUBSET Trx], \A p \in Programs : since[p] \subseteq since'[p],
             a.ok => a.vfo = trx'.vfo /\ Did(trx', cmd) /\ \A p \in Programs : trx' \in since'[p]
      PROVE  RigctlInd'
  <2> DEFINE w == r.who
             s == [program[w] EXCEPT !.got = <<a>>]
  <2>1. program[w] \in Talks
    BY <1>2, <1>4
  <2>2. <<a>> \in Seq(Answers) /\ Len(<<a>>) = 1 /\ <<a>>[1] = a
    BY <1>5
  <2>3. /\ s \in Talks /\ s.at = program[w].at /\ s.line = program[w].line /\ s.step = program[w].step
        /\ s.req = program[w].req /\ s.got = <<a>>
    BY <2>1, <2>2 DEF Talks
  <2>4. \/ program' = program
        \/ program[w].at = "waiting" /\ program[w].req = r.n /\ program' = [program EXCEPT ![w] = s]
    BY <1>5 DEF Delivered
  <2> HIDE DEF s
  <2>5. /\ program' \in [Programs -> Talks]
        /\ \A p \in Programs :
              /\ program'[p].at = program[p].at /\ program'[p].line = program[p].line
              /\ program'[p].step = program[p].step /\ program'[p].req = program[p].req
              /\ \/ program'[p].got = program[p].got
                 \/ p = w /\ program[w].at = "waiting" /\ program[w].req = r.n /\ program'[p].got = <<a>>
    <3>1. CASE program' = program
      BY <1>2, <3>1
    <3>2. CASE program[w].at = "waiting" /\ program[w].req = r.n /\ program' = [program EXCEPT ![w] = s]
      <4>1. program'[w] = s /\ \A p \in Programs : p # w => program'[p] = program[p]
        BY <1>2, <1>4, <3>2
      <4> QED
        BY <1>2, <2>3, <3>2, <4>1
    <3> QED
      BY <2>4, <3>1, <3>2
  <2>6. SessionShape'
    <3>1. \A p \in Programs : program'[p].req <= issued' /\ Len(program'[p].got) <= 1
      <4> SUFFICES ASSUME NEW p \in Programs PROVE program'[p].req <= issued' /\ Len(program'[p].got) <= 1
        OBVIOUS
      <4>1. program[p].req <= issued /\ Len(program[p].got) <= 1
        BY DEF SessionShape
      <4>2. CASE program'[p].got = program[p].got
        BY <1>1, <2>5, <4>1, <4>2
      <4>3. CASE program'[p].got = <<a>>
        BY <1>1, <2>2, <2>5, <4>1, <4>3
      <4> QED
        BY <2>5, <4>2, <4>3
    <3>2. \A p \in Programs : program'[p].at = "waiting" => StepFits(program'[p].line, program'[p].step)
      BY <2>5 DEF SessionShape
    <3>3. \A i \in DOMAIN requests' : requests'[i].n \in 1..issued'
      BY <1>1, <1>3 DEF SessionShape
    <3> QED
      BY <1>1, <1>2, <1>3, <1>5, <2>5, <3>1, <3>2, <3>3 DEF SessionShape, StepFits
  <2>7. \A p \in Programs : AskedAt(program'[p].line, program'[p].step) = AskedAt(program[p].line, program[p].step)
    BY <2>5
  <2>8. Pending'
    <3> SUFFICES ASSUME NEW i \in DOMAIN requests', NEW p \in Programs, requests'[i].who = p,
                        program'[p].at = "waiting", program'[p].req = requests'[i].n
                 PROVE  requests'[i].cmd = AskedAt(program'[p].line, program'[p].step)
      BY DEF Pending, AskedAt, Rounded, Look
    <3>1. i + 1 \in DOMAIN requests /\ requests'[i] = requests[i + 1]
      BY <1>3
    <3> QED
      BY <2>5, <2>7, <3>1 DEF Pending
  <2>9. Witnessed'
    <3> SUFFICES ASSUME NEW p \in Programs, program'[p].at = "waiting", program'[p].got # <<>>,
                        program'[p].got[1].ok
                 PROVE  \E t \in since'[p] : /\ t.vfo = program'[p].got[1].vfo
                                             /\ Did(t, AskedAt(program'[p].line, program'[p].step))
      BY DEF Witnessed, AskedAt, Rounded, Look, Did
    <3>1. CASE program'[p].got = program[p].got
      BY <1>5, <2>5, <2>7, <3>1 DEF Witnessed
    <3>2. CASE p = w /\ program[w].at = "waiting" /\ program[w].req = r.n /\ program'[p].got = <<a>>
      <4>1. cmd = AskedAt(program[p].line, program[p].step)
        BY <1>3, <3>2 DEF Pending
      <4> QED
        BY <1>5, <2>2, <2>7, <3>2, <4>1
    <3> QED
      BY <2>5, <3>1, <3>2
  <2>10. Promised'
    BY <1>1 DEF Promised, Fulfils, Rounded
  <2>11. Connections'
    <3>1. OpenOnes' = OpenOnes
      BY <2>5 DEF OpenOnes
    <3> QED
      BY <1>1, <3>1 DEF Connections
  <2> QED
    BY <1>5, <2>6, <2>8, <2>9, <2>10, <2>11
<1>6. trx.vfo \in Vfos /\ Other(trx.vfo) \in Vfos
  BY <1>2 DEF Trx, Vfos, Other
<1>7. ASSUME ~OffGrid(cmd), trx' = Carried(cmd), since' = [p \in Programs |-> since[p] \cup {trx'}],
             Delivered(r, [ok |-> TRUE, why |-> "", vfo |-> trx'.vfo]), UNCHANGED trouble
      PROVE  RigctlInd'
  <2>1. trx' \in Trx /\ Did(trx', cmd) /\ OnGrid'
    <3>1. CASE cmd.op = "SetFreq"
      <4>1. cmd.arg \in Nat /\ cmd.arg % Grid = 0 /\ trx' = [trx EXCEPT !.freq = cmd.arg]
        BY <1>4, <1>7, <3>1 DEF Cmds, OffGrid, Carried
      <4> QED
        BY <1>2, <3>1, <4>1 DEF Trx, Did, OnGrid
    <3>2. CASE cmd.op = "SetPtt"
      <4>1. cmd.arg \in BOOLEAN /\ trx' = [trx EXCEPT !.ptt = cmd.arg]
        BY <1>4, <1>7, <3>2 DEF Cmds, Carried
      <4> QED
        BY <1>2, <3>2, <4>1 DEF Trx, Did, OnGrid
    <3>3. CASE cmd.op \in {"ToggleVfo", "GetSnapshot"}
      <4>1. trx' = trx \/ trx' = [trx EXCEPT !.vfo = Other(@)]
        BY <1>7, <3>3 DEF Carried
      <4> QED
        BY <1>2, <1>6, <3>3, <4>1 DEF Trx, Vfos, Did, OnGrid
    <3> QED
      BY <1>4, <3>1, <3>2, <3>3 DEF Cmds
  <2> DEFINE a == [ok |-> TRUE, why |-> "", vfo |-> trx'.vfo]
  <2>2. a \in Answers /\ a.vfo = trx'.vfo
    BY <2>1 DEF Answers, Vfos, Trx
  <2>3. /\ since' \in [Programs -> SUBSET Trx] /\ \A p \in Programs : since[p] \subseteq since'[p]
        /\ \A p \in Programs : trx' \in since'[p]
    BY <1>2, <1>7, <2>1
  <2>4. Delivered(r, a) /\ trouble' \in 0..MaxTrouble
    BY <1>2, <1>7
  <2> HIDE DEF a
  <2> QED
    BY <1>5, <2>1, <2>2, <2>3, <2>4
<1>8. ASSUME NEW why \in {"grid", "other"}, Delivered(r, [ok |-> FALSE, why |-> why, vfo |-> trx.vfo]),
             UNCHANGED <<trx, since>>, trouble' \in 0..MaxTrouble
      PROVE  RigctlInd'
  <2> DEFINE a == [ok |-> FALSE, why |-> why, vfo |-> trx.vfo]
  <2>1. a \in Answers /\ ~a.ok
    BY <1>6 DEF Answers
  <2>2. Delivered(r, a)
    BY <1>8
  <2>3. OnGrid'
    BY <1>8 DEF OnGrid
  <2> HIDE DEF a
  <2> QED
    BY <1>2, <1>5, <1>8, <2>1, <2>2, <2>3
<1> QED
  <2>1. \/ /\ ~OffGrid(cmd) /\ trx' = Carried(cmd)
           /\ since' = [p \in Programs |-> since[p] \cup {trx'}]
           /\ Delivered(r, [ok |-> TRUE, why |-> "", vfo |-> trx'.vfo]) /\ UNCHANGED trouble
        \/ /\ Delivered(r, [ok |-> FALSE, why |-> "grid", vfo |-> trx.vfo])
           /\ UNCHANGED <<trx, since, trouble>>
        \/ /\ trouble < MaxTrouble /\ trouble' = trouble + 1
           /\ Delivered(r, [ok |-> FALSE, why |-> "other", vfo |-> trx.vfo])
           /\ UNCHANGED <<trx, since>>
    BY DEF CarryOut, r
  <2>2. trouble < MaxTrouble => trouble + 1 \in 0..MaxTrouble
    BY <1>2
  <2> QED
    BY <1>2, <1>7, <1>8, <2>1, <2>2

LEMMA RigctlKeeps == RigctlInd /\ [RigctlNext]_rigctlVars => RigctlInd'
<1> SUFFICES ASSUME RigctlInd, [RigctlNext]_rigctlVars PROVE RigctlInd'
  OBVIOUS
<1>1. CASE UNCHANGED rigctlVars
  <2>1. OpenOnes' = OpenOnes
    BY <1>1 DEF rigctlVars, OpenOnes
  <2> QED
    BY <1>1, <2>1 DEF rigctlVars, RigctlInd, SessionShape, Pending, Witnessed, Promised, Connections, OnGrid,
       AskedAt, Rounded, Look, Did, Fulfils, StepFits
<1>2. CASE RigctlNext
  BY <1>2, AcceptKeeps, QuitKeeps, LineKeeps, ContinueKeeps, GiveUpKeeps, CarryOutKeeps DEF RigctlNext
<1> QED
  BY <1>1, <1>2

\* The rigctl frontend (handle_client and process_command of its server.rs): what a program was
\* told to be done was so at some moment since its last request, whoever else toggles the VFO
\* and however many requests were given up; clients are counted.
THEOREM RigctlHolds == RigctlSpec => []RigctlInv
<1>1. RigctlInd => RigctlInv
  <2> SUFFICES ASSUME RigctlInd PROVE RigctlInv
    OBVIOUS
  <2> USE DEF RigctlInd
  <2>1. RigctlTypeOK
    <3>1. ASSUME NEW p \in Programs
          PROVE  /\ program[p].at \in {"closed", "reading", "waiting"}
                 /\ program[p].line \in Lines \cup {NoLine}
                 /\ program[p].step \in 0..3 /\ program[p].req \in 0..issued
                 /\ Len(program[p].got) <= 1
      BY DEF SessionShape, Talks
    <3>2. ASSUME NEW r \in ToSet(requests) PROVE r.who \in Programs /\ r.n \in 1..issued
      <4>1. PICK i \in DOMAIN requests : r = requests[i]
        BY <3>2 DEF ToSet
      <4> QED
        BY <4>1, QueueFacts DEF SessionShape, Queued
    <3> QED
      BY <3>1, <3>2 DEF RigctlTypeOK, SessionShape
  <2>2. DoneWasSo
    <3> SUFFICES ASSUME said.ok PROVE DoneWasSo
      BY DEF DoneWasSo
    <3>1. PICK t \in said.states : Fulfils(t, said.line)
      BY DEF Promised
    <3> QED
      BY <3>1 DEF Fulfils, DoneWasSo
  <2>3. ProgramsCounted
    BY DEF ProgramsCounted, Connections, OpenOnes
  <2> QED
    BY <2>1, <2>2, <2>3 DEF RigctlInv
<1> QED
  BY <1>1, RigctlStarts, RigctlKeeps, PTL DEF RigctlSpec

-----------------------------------------------------------------------------
(***************************************************************************)
(* The reception of a chart.  What the type does not say: the counters      *)
(* follow the time, a detector that has not started anything is below its   *)
(* limit, lines are held by a reception alone, and one under way has the    *)
(* start and the lines of its own.                                          *)
(***************************************************************************)
WefaxCounts ==
    /\ phase \in {"Idle", "StartDetected", "Phasing", "Receiving"}
    /\ tone.now \in Tones \cup {"none"} /\ tone = [now |-> tone.now, windows |-> tone.windows]
    /\ blocks \in 0..MaxAudio /\ tone.windows \in 0..blocks
    /\ active \in 0..ActiveNeeded /\ (phase = "Idle" => active < ActiveNeeded)
    /\ pulses \in 0..PulsesNeeded
    /\ waited \in 0..PhasingLines - 1 /\ unlike \in 0..NoiseLines - 1
    /\ image \in -1..blocks /\ startedAt \in -1..blocks
UnderWay ==
    /\ phase # "Receiving" => image <= 0
    /\ phase # "Idle" => startedAt = began
    /\ phase = "Receiving" => image >= 0 /\ image = aired
WefaxInd == WefaxCounts /\ UnderWay /\ ChartsWhole

LEMMA WefaxStarts == WefaxInit => WefaxInd
BY WefaxAssumption DEF WefaxAssumption, WefaxInit, WefaxInd, WefaxCounts, UnderWay, ChartsWhole, NoTone, Tones

LEMMA HeardCounts ==
    ASSUME WefaxCounts, NEW b \in Blocks
    PROVE  /\ Heard(b).now \in Tones \cup {"none"} /\ Heard(b).windows \in 0..blocks + 1
           /\ Heard(b) = [now |-> Heard(b).now, windows |-> Heard(b).windows]
<1>1. b.window \in {"open", "none"} \cup Tones
  BY DEF Blocks
<1>2. CASE b.window = "open"
  BY <1>2 DEF Heard, WefaxCounts
<1>3. CASE b.window # "open"
  BY <1>1, <1>3 DEF Heard, WefaxCounts
<1> QED
  BY <1>2, <1>3

LEMMA ListensKeeps == ASSUME WefaxInd, NEW b \in Blocks, Listens(b) PROVE WefaxInd'
<1> USE WefaxAssumption DEF WefaxAssumption, WefaxInd
<1>0. /\ blocks' = blocks + 1 /\ blocks' \in 0..MaxAudio /\ blocks \in Nat /\ phase = "Idle"
      /\ UNCHANGED <<pulses, waited>> /\ WefaxCounts /\ b.signal \in {"open", "active", "flat"}
  BY DEF Listens, Block, WefaxCounts, Blocks
<1>1. CASE Confirms(b, "start")
  BY <1>0, <1>1, HeardCounts DEF Listens, WefaxCounts, UnderWay, ChartsWhole
<1>2. CASE ~Confirms(b, "start") /\ b.signal = "active" /\ active + 1 = ActiveNeeded
  BY <1>0, <1>2 DEF Listens, ToReceiving, NoTone, Tones, WefaxCounts, UnderWay, ChartsWhole
<1>3. CASE ~Confirms(b, "start") /\ ~(b.signal = "active" /\ active + 1 = ActiveNeeded)
  <2>1. active' \in 0..ActiveNeeded /\ active' < ActiveNeeded
    BY <1>0, <1>3 DEF Listens, WefaxCounts
  <2> QED
    BY <1>0, <1>3, <2>1, HeardCounts DEF Listens, WefaxCounts, UnderWay, ChartsWhole
<1> QED
  BY <1>1, <1>2, <1>3

LEMMA StartPassesKeeps == ASSUME WefaxInd, NEW b \in Blocks, StartPasses(b) PROVE WefaxInd'
<1> USE WefaxAssumption DEF WefaxAssumption, WefaxInd
<1>0. /\ blocks' = blocks + 1 /\ blocks' \in 0..MaxAudio /\ blocks \in Nat /\ phase = "StartDetected"
      /\ UNCHANGED <<active, image, unlike, startedAt, charts, aired, began>> /\ WefaxCounts
  BY DEF StartPasses, Block, WefaxCounts
<1>1. CASE Confirms(b, "start")
  BY <1>0, <1>1, HeardCounts DEF StartPasses, WefaxCounts, UnderWay, ChartsWhole
<1>2. CASE ~Confirms(b, "start")
  BY <1>0, <1>2 DEF StartPasses, NoTone, Tones, WefaxCounts, UnderWay, ChartsWhole
<1> QED
  BY <1>1, <1>2

LEMMA PhasesKeeps == ASSUME WefaxInd, NEW b \in Blocks, Phases(b) PROVE WefaxInd'
<1> USE WefaxAssumption DEF WefaxAssumption, WefaxInd
<1> DEFINE passed == waited + (IF b.line = "open" THEN 0 ELSE 1)
<1>0. /\ blocks' = blocks + 1 /\ blocks' \in 0..MaxAudio /\ blocks \in Nat /\ phase = "Phasing"
      /\ began' = began /\ WefaxCounts
  BY DEF Phases, Block, WefaxCounts
<1>1. CASE ToIdle /\ UNCHANGED <<image, startedAt, charts, aired>>
  BY <1>0, <1>1 DEF ToIdle, NoTone, Tones, WefaxCounts, UnderWay, ChartsWhole
<1>2. CASE ToReceiving /\ UNCHANGED <<pulses, waited, startedAt, active>>
  BY <1>0, <1>2 DEF ToReceiving, NoTone, Tones, WefaxCounts, UnderWay, ChartsWhole
<1>3. CASE /\ passed < PhasingLines /\ pulses' = Pulses(b) /\ waited' = passed /\ tone' = Heard(b)
           /\ UNCHANGED <<phase, image, unlike, startedAt, charts, aired, active>>
  <2>1. Pulses(b) \in 0..PulsesNeeded
    BY DEF Pulses, WefaxCounts
  <2>2. passed \in 0..PhasingLines - 1
    BY <1>3 DEF WefaxCounts
  <2> QED
    BY <1>0, <1>3, <2>1, <2>2, HeardCounts DEF WefaxCounts, UnderWay, ChartsWhole
<1> QED
  BY <1>1, <1>2, <1>3 DEF Phases

\* What is sent at the end of a reception is its own.
LEMMA FinalizeKeeps ==
    ASSUME WefaxInd, phase = "Receiving", NEW held \in Int, held >= 0, held <= blocks + 1,
           aired' = held, began' = began, Finalize(held)
    PROVE  ChartsWhole' /\ image' \in {-1, 0} /\ startedAt' \in -1..blocks
<1> USE DEF WefaxInd
<1>1. startedAt = began /\ startedAt \in -1..blocks
  BY DEF UnderWay, WefaxCounts
<1>2. CASE held > 0
  BY <1>1, <1>2 DEF Finalize, ChartsWhole, WefaxCounts
<1>3. CASE ~(held > 0)
  BY <1>1, <1>3 DEF Finalize, ChartsWhole
<1> QED
  BY <1>2, <1>3

LEMMA ReceivesKeeps == ASSUME WefaxInd, NEW b \in Blocks, Receives(b) PROVE WefaxInd'
<1> USE WefaxAssumption DEF WefaxAssumption, WefaxInd
<1> DEFINE held == image + (IF b.line = "open" THEN 0 ELSE 1)
<1>0. /\ blocks' = blocks + 1 /\ blocks' \in 0..MaxAudio /\ blocks \in Nat /\ phase = "Receiving"
      /\ began' = began /\ image \in 0..blocks /\ aired = image /\ startedAt = began
      /\ held \in 0..blocks + 1 /\ WefaxCounts
  BY DEF Receives, Block, WefaxCounts, UnderWay
<1>1. ASSUME NEW n \in 0..blocks + 1, Finalize(n), ToIdle, aired' = n PROVE WefaxInd'
  <2>1. ChartsWhole' /\ image' \in {-1, 0} /\ startedAt' \in -1..blocks
    BY <1>0, <1>1, FinalizeKeeps
  <2>2. WefaxCounts' /\ UnderWay'
    BY <1>0, <1>1, <2>1 DEF ToIdle, NoTone, Tones, WefaxCounts, UnderWay
  <2> QED
    BY <2>1, <2>2
<1>2. CASE Confirms(b, "stop")
  BY <1>0, <1>1, <1>2 DEF Receives
<1>3. CASE ~Confirms(b, "stop")
  <2>1. aired' = held
    BY <1>0, <1>3 DEF Receives
  <2>2. CASE Unlike(b) = NoiseLines
    BY <1>0, <1>1, <1>3, <2>1, <2>2 DEF Receives
  <2>3. CASE Unlike(b) # NoiseLines
    <3>1. Unlike(b) \in 0..NoiseLines - 1
      BY <2>3 DEF Unlike, WefaxCounts
    <3>2. /\ image' = held /\ unlike' = Unlike(b) /\ tone' = Heard(b)
          /\ UNCHANGED <<phase, active, pulses, waited, startedAt, charts>>
      BY <1>3, <2>3 DEF Receives
    <3> HIDE DEF held
    <3> QED
      BY <1>0, <2>1, <3>1, <3>2, HeardCounts DEF WefaxCounts, UnderWay, ChartsWhole
  <2> QED
    BY <2>2, <2>3
<1> QED
  BY <1>2, <1>3

LEMMA ResetKeeps == ASSUME WefaxInd, ResetWefax PROVE WefaxInd'
<1> USE WefaxAssumption DEF WefaxAssumption, WefaxInd
<1>0. /\ blocks' = blocks + 1 /\ blocks' \in 0..MaxAudio /\ blocks \in Nat /\ aired' = aired
      /\ image' = -1 /\ startedAt' = -1 /\ began' = -1 /\ ToIdle
  BY DEF ResetWefax, Block, WefaxCounts
<1>1. ChartsWhole'
  <2>1. CASE phase \in {"Receiving", "Phasing"} /\ image > 0
    <3>1. image = aired /\ startedAt = began
      BY <2>1 DEF UnderWay, WefaxCounts
    <3> QED
      BY <2>1, <3>1 DEF ResetWefax, ChartsWhole
  <2>2. CASE ~(phase \in {"Receiving", "Phasing"} /\ image > 0)
    BY <2>2 DEF ResetWefax, ChartsWhole
  <2> QED
    BY <2>1, <2>2
<1>2. WefaxCounts' /\ UnderWay'
  BY <1>0 DEF ToIdle, NoTone, Tones, WefaxCounts, UnderWay
<1> QED
  BY <1>1, <1>2

LEMMA WefaxKeeps == WefaxInd /\ [WefaxNext]_wefaxVars => WefaxInd'
<1> SUFFICES ASSUME WefaxInd, [WefaxNext]_wefaxVars PROVE WefaxInd'
  OBVIOUS
<1>1. CASE UNCHANGED wefaxVars
  BY <1>1 DEF wefaxVars, WefaxInd, WefaxCounts, UnderWay, ChartsWhole
<1>2. CASE WefaxNext
  BY <1>2, ListensKeeps, StartPassesKeeps, PhasesKeeps, ReceivesKeeps, ResetKeeps DEF WefaxNext
<1> QED
  BY <1>1, <1>2

\* The charts of a WEFAX receiver (trx-wefax, WefaxDecoder): each is sent with all lines that
\* came while it was received and with the time its own reception began, no reception throws
\* away the lines of another, and phasing and noise end at their limits, for every limit.
THEOREM ChartsHold == WefaxSpec => []WefaxInv
<1>1. WefaxInd => WefaxInv
  BY WefaxAssumption DEF WefaxAssumption, WefaxInd, WefaxCounts, UnderWay, WefaxInv, WefaxTypeOK, NoChartThrownAway
<1> QED
  BY <1>1, WefaxStarts, WefaxKeeps, PTL DEF WefaxSpec

(***************************************************************************)
(* The configuration files.  Whose hand a file comes from tells what its   *)
(* sections are, and the last start and the last check speak of the files  *)
(* as they are.                                                            *)
(***************************************************************************)
Section(s, values) ==
    /\ s = [f \in DOMAIN values |-> s[f]]
    /\ \A f \in DOMAIN values : s[f] \in values[f]

LEMMA ServerFields ==
    /\ DOMAIN ServerValues =
         {"level", "lat", "lon", "model", "access", "serial", "tcp", "args", "ranges", "tokens", "listen",
          "listenAt", "listenPort", "audio", "rx", "tx", "audioPort", "audioForm", "psk", "locator",
          "aprsfi", "logs", "sdr", "rigs"}
    /\ DOMAIN ServerDefault = DOMAIN ServerValues
  BY DEF ServerValues, ServerDefault

LEMMA ClientFields ==
    /\ DOMAIN ClientValues =
         {"level", "url", "token", "remotes", "ranges", "texts", "http", "httpPort", "rigctl",
          "rigctlPort", "rigPorts", "audio", "audioPort", "audioUrl", "auth", "rx", "control", "ttl"}
    /\ DOMAIN ClientDefault = DOMAIN ClientValues
  BY DEF ClientValues, ClientDefault

LEMMA ServerDefaultFits == Section(ServerDefault, ServerValues)
<1> USE ConfigAssumption DEF ConfigAssumption
<1>1. ServerDefault = [f \in DOMAIN ServerValues |-> ServerDefault[f]]
  BY ServerFields DEF ServerDefault
<1>2. \A f \in DOMAIN ServerValues : ServerDefault[f] \in ServerValues[f]
  <2>1. /\ ServerDefault.level \in ServerValues.level
        /\ ServerDefault.lat \in ServerValues.lat
        /\ ServerDefault.lon \in ServerValues.lon
        /\ ServerDefault.model \in ServerValues.model
        /\ ServerDefault.access \in ServerValues.access
        /\ ServerDefault.serial \in ServerValues.serial
        /\ ServerDefault.tcp \in ServerValues.tcp
        /\ ServerDefault.args \in ServerValues.args
    BY DEF ServerValues, ServerDefault
  <2>2. /\ ServerDefault.ranges \in ServerValues.ranges
        /\ ServerDefault.tokens \in ServerValues.tokens
        /\ ServerDefault.listenAt \in ServerValues.listenAt
        /\ ServerDefault.listenPort \in ServerValues.listenPort
        /\ ServerDefault.audioPort \in ServerValues.audioPort
        /\ ServerDefault.audioForm \in ServerValues.audioForm
        /\ ServerDefault.psk \in ServerValues.psk
    BY DEF ServerValues, ServerDefault
  <2>3. /\ ServerDefault.aprsfi \in ServerValues.aprsfi
        /\ ServerDefault.logs \in ServerValues.logs
        /\ ServerDefault.sdr \in ServerValues.sdr
        /\ ServerDefault.rigs \in ServerValues.rigs
    BY DEF ServerValues, ServerDefault
  <2>4. /\ ServerDefault.listen \in ServerValues.listen
        /\ ServerDefault.audio \in ServerValues.audio
        /\ ServerDefault.rx \in ServerValues.rx
        /\ ServerDefault.tx \in ServerValues.tx
        /\ ServerDefault.locator \in ServerValues.locator
    BY DEF ServerValues, ServerDefault
  <2> QED
    BY <2>1, <2>2, <2>3, <2>4, ServerFields
<1> QED
  BY <1>1, <1>2 DEF Section

LEMMA ClientDefaultFits == Section(ClientDefault, ClientValues)
<1> USE ConfigAssumption DEF ConfigAssumption
<1>1. ClientDefault = [f \in DOMAIN ClientValues |-> ClientDefault[f]]
  BY ClientFields DEF ClientDefault
<1>2. \A f \in DOMAIN ClientValues : ClientDefault[f] \in ClientValues[f]
  <2>1. /\ ClientDefault.level \in ClientValues.level
        /\ ClientDefault.url \in ClientValues.url
        /\ ClientDefault.token \in ClientValues.token
        /\ ClientDefault.remotes \in ClientValues.remotes
        /\ ClientDefault.ranges \in ClientValues.ranges
        /\ ClientDefault.texts \in ClientValues.texts
        /\ ClientDefault.httpPort \in ClientValues.httpPort
    BY DEF ClientValues, ClientDefault
  <2>2. /\ ClientDefault.rigctlPort \in ClientValues.rigctlPort
        /\ ClientDefault.rigPorts \in ClientValues.rigPorts
        /\ ClientDefault.audioPort \in ClientValues.audioPort
        /\ ClientDefault.audioUrl \in ClientValues.audioUrl
        /\ ClientDefault.rx \in ClientValues.rx
        /\ ClientDefault.control \in ClientValues.control
        /\ ClientDefault.ttl \in ClientValues.ttl
    BY DEF ClientValues, ClientDefault
  <2>3. /\ ClientDefault.http \in ClientValues.http
        /\ ClientDefault.rigctl \in ClientValues.rigctl
        /\ ClientDefault.audio \in ClientValues.audio
        /\ ClientDefault.auth \in ClientValues.auth
    BY DEF ClientValues, ClientDefault
  <2> QED
    BY <2>1, <2>2, <2>3, ClientFields
<1> QED
  BY <1>1, <1>2 DEF Section

\* A setting changed to another of its values.
LEMMA SettingChanged ==
    ASSUME NEW values, NEW s, Section(s, values), NEW f \in DOMAIN values, NEW v \in values[f]
    PROVE Section([s EXCEPT ![f] = v], values)
<1>1. s = [g \in DOMAIN values |-> s[g]] /\ \A g \in DOMAIN values : s[g] \in values[g]
  BY DEF Section
<1> DEFINE t == [s EXCEPT ![f] = v]
<1>2. t = [g \in DOMAIN values |-> IF g = f THEN v ELSE s[g]]
  BY <1>1
<1> HIDE DEF t
<1>3. Section(t, values)
  BY <1>1, <1>2 DEF Section
<1> QED
  BY <1>3 DEF t

LEMMA ServerAnswersAre ==
    ASSUME NEW a \in ServerAnswers
    PROVE /\ a.listenAt \in {"ok", "odd"} /\ a.located \in BOOLEAN
          /\ {a.rig.serial, a.rig.tcp, a.rig.args} \subseteq {"none", "ok"}
          /\ \/ a.rig.access = "serial" /\ a.rig.serial = "ok" /\ a.rig.model = "ft817"
             \/ a.rig.access = "tcp" /\ a.rig.tcp = "ok" /\ a.rig.model = "ft817"
             \/ a.rig.access = "sdr" /\ a.rig.args = "ok" /\ a.rig.model = "soapysdr"
<1>1. a.rig \in RigAnswers /\ a.listenAt \in {"ok", "odd"} /\ a.located \in BOOLEAN
  BY DEF ServerAnswers
<1> QED
  BY <1>1 DEF RigAnswers, RigBy

LEMMA ServerTablesFit == ASSUME NEW a \in ServerAnswers PROVE Section(ServerTables(a), ServerValues)
<1>1. /\ a.rig.model \in {"ft817", "soapysdr"} /\ a.rig.access \in {"serial", "tcp", "sdr"}
      /\ {a.rig.serial, a.rig.tcp, a.rig.args} \subseteq {"none", "ok"} /\ a.listenAt \in {"ok", "odd"}
  BY ServerAnswersAre
<1>2. ServerTables(a) = [f \in DOMAIN ServerValues |-> ServerTables(a)[f]]
  BY ServerFields DEF ServerTables
<1>3. \A f \in DOMAIN ServerValues : f \notin {"lat", "lon", "model", "access", "serial", "tcp", "args", "listenAt"} => ServerTables(a)[f] = ServerDefault[f]
  BY ServerFields DEF ServerTables
<1>4. /\ ServerTables(a).lat \in ServerValues.lat
      /\ ServerTables(a).lon \in ServerValues.lon
      /\ ServerTables(a).model \in ServerValues.model
      /\ ServerTables(a).access \in ServerValues.access
      /\ ServerTables(a).serial \in ServerValues.serial
      /\ ServerTables(a).tcp \in ServerValues.tcp
      /\ ServerTables(a).args \in ServerValues.args
      /\ ServerTables(a).listenAt \in ServerValues.listenAt
  BY <1>1 DEF ServerTables, ServerDefault, ServerValues
<1>6. \A f \in DOMAIN ServerValues : ServerTables(a)[f] \in ServerValues[f]
  BY <1>3, <1>4, ServerDefaultFits DEF Section
<1> QED
  BY <1>2, <1>6 DEF Section

LEMMA ClientTablesFit == ASSUME NEW a \in ClientAnswers PROVE Section(ClientTables(a), ClientValues)
<1>1. a.url \in {"ok", "odd"} /\ a.token \in {"none", "ok"} /\ a.http \in BOOLEAN /\ a.rigctl \in BOOLEAN
  BY DEF ClientAnswers
<1>2. ClientTables(a) = [f \in DOMAIN ClientValues |-> ClientTables(a)[f]]
  BY ClientFields DEF ClientTables
<1>3. \A f \in DOMAIN ClientValues : f \notin {"url", "token", "http", "rigctl"} => ClientTables(a)[f] = ClientDefault[f]
  BY ClientFields DEF ClientTables
<1>4. /\ ClientTables(a).url \in ClientValues.url
      /\ ClientTables(a).token \in ClientValues.token
  BY <1>1 DEF ClientTables, ClientDefault, ClientValues
<1>5. /\ ClientTables(a).http \in ClientValues.http
      /\ ClientTables(a).rigctl \in ClientValues.rigctl
  BY <1>1 DEF ClientTables, ClientDefault, ClientValues
<1>6. \A f \in DOMAIN ClientValues : ClientTables(a)[f] \in ClientValues[f]
  BY <1>3, <1>4, <1>5, ClientDefaultFits DEF Section
<1> QED
  BY <1>2, <1>6 DEF Section

LEMMA ExampleClientFits == Section(Example("client"), ClientValues)
<1>1. ExampleRemotes \in Remotes
  BY ConfigAssumption DEF ConfigAssumption
<1>2. Example("client") = [f \in DOMAIN ClientValues |-> Example("client")[f]]
  BY ClientFields DEF Example, ClientDefault
<1>3. \A f \in DOMAIN ClientValues : f \notin {"rx", "control", "remotes"} => Example("client")[f] = ClientDefault[f]
  BY ClientFields DEF Example
<1>4. /\ Example("client").rx \in ClientValues.rx
      /\ Example("client").control \in ClientValues.control
      /\ Example("client").remotes \in ClientValues.remotes
  BY <1>1 DEF Example, ClientDefault, ClientValues
<1>6. \A f \in DOMAIN ClientValues : Example("client")[f] \in ClientValues[f]
  BY <1>3, <1>4, ClientDefaultFits DEF Section
<1> QED
  BY <1>2, <1>6 DEF Section

LEMMA DefaultAnswers ==
    /\ DefaultServer \in ServerAnswers /\ DefaultClient \in ClientAnswers
    /\ [DefaultServer EXCEPT !.located = TRUE] \in ServerAnswers
<1> DEFINE rig == RigBy("ft817", "serial")
<1>1. rig \in RigAnswers
  BY DEF RigAnswers
<1>2. DefaultServer = [rig |-> rig, located |-> FALSE, listenAt |-> "ok"]
  BY DEF DefaultServer
<1> HIDE DEF rig
<1>3. DefaultServer \in ServerAnswers
  <2>1. FALSE \in BOOLEAN /\ "ok" \in {"ok", "odd"}
    OBVIOUS
  <2> QED
    BY <1>1, <1>2, <2>1 DEF ServerAnswers
<1>4. [DefaultServer EXCEPT !.located = TRUE] \in ServerAnswers
  BY <1>3 DEF ServerAnswers
<1> QED
  BY <1>3, <1>4 DEF DefaultClient, ClientAnswers

-----------------------------------------------------------------------------
(* What is accepted and what is not.                                        *)

\* A transceiver whose address is one runs as the wizard has written it.
LEMMA PlainServerRuns ==
    ASSUME NEW a \in ServerAnswers, ServerTables(a).model = "ft817", ServerTables(a).listenAt = "ok"
    PROVE Parses("server", ServerTables(a)) /\ Accepted("server", ServerTables(a))
<1> DEFINE s == ServerTables(a)
<1>1. /\ s.level = "info" /\ s.ranges = "ok" /\ s.tokens = "ok" /\ s.listen /\ s.listenPort = "ok"
      /\ s.audio /\ s.audioPort = "ok" /\ s.rx /\ s.tx /\ s.audioForm = "ok" /\ s.psk = "off"
      /\ s.aprsfi = "off" /\ s.logs = "off" /\ s.sdr = "ok" /\ s.rigs = <<>>
  BY DEF ServerTables, ServerDefault
<1>2. /\ s.model = a.rig.model /\ s.access = a.rig.access /\ s.serial = a.rig.serial
      /\ s.tcp = a.rig.tcp /\ s.lat = s.lon /\ s.lat \in {"ok", "none"}
  BY DEF ServerTables, ServerDefault
<1>3. /\ s.model = "ft817" /\ s.listenAt = "ok"
      /\ \/ s.access = "serial" /\ s.serial = "ok"
         \/ s.access = "tcp" /\ s.tcp = "ok"
  BY <1>2, ServerAnswersAre
<1> HIDE DEF s
<1>4. Parses("server", s)
  BY <1>1, <1>3 DEF Parses
<1>5. CoordinatesAccepted(s)
  BY <1>2 DEF CoordinatesAccepted
<1>6. AccessAccepted(s)
  BY <1>3 DEF AccessAccepted
<1>7. ServerAccepted(s)
  BY <1>1, <1>5, <1>6 DEF ServerAccepted, FleetAccepted
<1>8. SdrAccepted(s) /\ RigsResolve(s)
  BY <1>1, <1>3 DEF SdrAccepted, RigsResolve
<1> QED
  BY <1>4, <1>7, <1>8 DEF Accepted, s

LEMMA ExampleServerRuns ==
    Parses("server", Example("server")) /\ Accepted("server", Example("server"))
<1> DEFINE a == [DefaultServer EXCEPT !.located = TRUE]
<1>1. a \in ServerAnswers /\ Example("server") = ServerTables(a)
  BY DefaultAnswers DEF Example
<1>2. a.rig.model = "ft817" /\ a.listenAt = "ok"
  BY DEF DefaultServer, RigBy
<1> HIDE DEF a
<1>3. ServerTables(a).model = "ft817" /\ ServerTables(a).listenAt = "ok"
  BY <1>2 DEF ServerTables, ServerDefault
<1> QED
  BY <1>1, <1>3, PlainServerRuns

LEMMA PlainClientRuns ==
    ASSUME NEW a \in ClientAnswers, ClientTables(a).url = "ok", ~ClientTables(a).rigctl
    PROVE Parses("client", ClientTables(a)) /\ Accepted("client", ClientTables(a))
<1> DEFINE c == ClientTables(a)
<1>1. /\ c.level = "info" /\ c.remotes = <<>> /\ c.ranges = "ok" /\ c.texts = "ok" /\ c.httpPort = "ok"
      /\ c.rigctlPort = "ok" /\ c.rigPorts = "none" /\ c.audio /\ c.audioPort = "ok"
      /\ c.audioUrl = "none" /\ ~c.auth
  BY DEF ClientTables, ClientDefault
<1>2. c.token \in {"none", "ok"} /\ c.url = "ok" /\ ~c.rigctl
  BY DEF ClientTables, ClientDefault, ClientAnswers
<1> HIDE DEF c
<1>3. Parses("client", c)
  BY <1>1 DEF Parses
<1>4. RemotesAccepted(c.remotes) /\ AuthAccepted(c)
  BY <1>1 DEF RemotesAccepted, AuthAccepted
<1>5. ClientAccepted(c)
  BY <1>1, <1>2, <1>4 DEF ClientAccepted
<1>6. RemotesResolve(c)
  <2>1. ResolvedRemotes(c) = << [name |-> "default", url |-> "ok", fine |-> TRUE] >>
    BY <1>1, <1>2 DEF ResolvedRemotes
  <2> QED
    BY <2>1 DEF RemotesResolve
<1> QED
  BY <1>3, <1>5, <1>6 DEF Accepted, c

LEMMA ExampleClientRuns ==
    Parses("client", Example("client")) /\ Accepted("client", Example("client"))
<1> DEFINE c == Example("client")
<1>1. /\ c.level = "info" /\ c.remotes = ExampleRemotes /\ c.ranges = "ok" /\ c.texts = "ok"
      /\ c.httpPort = "ok" /\ ~c.rigctl
      /\ c.rigctlPort = "ok" /\ c.rigPorts = "none" /\ c.audio /\ c.audioPort = "ok"
      /\ c.audioUrl = "none" /\ ~c.auth /\ c.token = "none" /\ c.url = "none"
  BY DEF Example, ClientDefault
<1> HIDE DEF c
<1>2. Parses("client", c)
  BY <1>1 DEF Parses
<1>3. AuthAccepted(c)
  BY <1>1 DEF AuthAccepted
<1>4. /\ DOMAIN ExampleRemotes = {1, 2} /\ ExampleRemotes # <<>>
      /\ ExampleRemotes[1] = [name |-> "hf", url |-> "ok", fine |-> TRUE]
      /\ ExampleRemotes[2] = [name |-> "vhf", url |-> "ok", fine |-> TRUE]
  BY DEF ExampleRemotes
<1>5. RemotesAccepted(c.remotes)
  BY <1>1, <1>4 DEF RemotesAccepted
<1>6. ClientAccepted(c)
  BY <1>1, <1>3, <1>5 DEF ClientAccepted
<1>7. RemotesResolve(c)
  BY <1>1, <1>4 DEF RemotesResolve, ResolvedRemotes
<1> QED
  BY <1>2, <1>6, <1>7 DEF Accepted, c

\* Nothing runs without a file.
LEMMA DefaultsRefused == ASSUME NEW p \in Binaries PROVE ~Accepted(p, Default(p))
<1>1. ~RigsResolve(ServerDefault)
  BY DEF RigsResolve, ServerDefault
<1>2. ~RemotesResolve(ClientDefault)
  BY DEF RemotesResolve, ResolvedRemotes, ClientDefault
<1> QED
  BY <1>1, <1>2 DEF Binaries, Accepted, Default

\* What the checker calls an error is refused, but for the old port of rigctl.
LEMMA ServerErrorRefused ==
    ASSUME NEW s, Parses("server", s), Accepted("server", s), ServerErrors(s) PROVE FALSE
<1>1. /\ s.level = "info" /\ CoordinatesAccepted(s) /\ AccessAccepted(s)
      /\ (s.listen => s.listenPort = "ok") /\ (s.audio => s.audioPort = "ok")
  BY DEF Accepted, ServerAccepted
<1>2. s.listenPort # "neg" /\ s.audioPort # "neg"
  BY DEF Parses
<1>3. s.lat = s.lon /\ s.lat # "far"
  BY <1>1 DEF CoordinatesAccepted
<1>4. s.access # "usb"
  BY <1>1 DEF AccessAccepted
<1> QED
  BY <1>1, <1>2, <1>3, <1>4 DEF ServerErrors, PortError

LEMMA ClientErrorRefused ==
    ASSUME NEW c, Parses("client", c), Accepted("client", c), ClientErrors(c)
    PROVE c.rigctlPort = "zero"
<1>1. c.level = "info" /\ (c.http => c.httpPort = "ok")
  BY DEF Accepted, ClientAccepted
<1>2. c.httpPort # "neg" /\ c.rigctlPort # "neg"
  BY DEF Parses
<1> QED
  BY <1>1, <1>2 DEF ClientErrors, PortError

\* The rigs of an accepted section.
LEMMA RigsSound ==
    ASSUME NEW s, FleetAccepted(s.rigs)
    PROVE /\ ResolvedRigs(s) # {}
          /\ \A r, q \in ResolvedRigs(s) :
                r # q => /\ r.audio = 0 \/ r.audio # q.audio
                         /\ r.id = q.id => Len(r.id) = 2
<1>1. CASE s.rigs = <<>>
  BY <1>1 DEF ResolvedRigs
<1>2. CASE s.rigs # <<>>
  <2> DEFINE rig(i) == [id |-> IdOf(s.rigs, i), audio |-> s.rigs[i].audio, at |-> i]
  <2>1. ResolvedRigs(s) = {rig(i) : i \in Enabled(s.rigs)}
    BY <1>2 DEF ResolvedRigs
  <2>2. Enabled(s.rigs) # {}
    BY <1>2 DEF FleetAccepted
  <2>3. ASSUME NEW i \in Enabled(s.rigs), NEW j \in Enabled(s.rigs), i # j
        PROVE /\ s.rigs[i].audio = 0 \/ s.rigs[i].audio # s.rigs[j].audio
              /\ IdOf(s.rigs, i) = IdOf(s.rigs, j) => Len(IdOf(s.rigs, i)) = 2
    <3>1. /\ s.rigs[i].audio = 0 \/ s.rigs[i].audio # s.rigs[j].audio
          /\ s.rigs[i].id = <<>> \/ s.rigs[i].id # s.rigs[j].id
      BY <1>2, <2>3 DEF FleetAccepted
    <3>2. \A k : s.rigs[k].id = <<>> => Len(IdOf(s.rigs, k)) = 2
      BY DEF IdOf
    <3>3. s.rigs[i].id # <<>> /\ s.rigs[j].id # <<>> => IdOf(s.rigs, i) # IdOf(s.rigs, j)
      BY <3>1 DEF IdOf
    <3> HIDE DEF IdOf
    <3> QED
      BY <3>1, <3>2, <3>3
  <2>4. \A i : rig(i).id = IdOf(s.rigs, i) /\ rig(i).audio = s.rigs[i].audio
    OBVIOUS
  <2> HIDE DEF rig
  <2>5. ASSUME NEW r \in ResolvedRigs(s), NEW q \in ResolvedRigs(s), r # q
        PROVE /\ r.audio = 0 \/ r.audio # q.audio
              /\ r.id = q.id => Len(r.id) = 2
    <3>1. PICK i \in Enabled(s.rigs) : r = rig(i)
      BY <2>1
    <3>2. PICK j \in Enabled(s.rigs) : q = rig(j)
      BY <2>1
    <3>3. i # j
      BY <3>1, <3>2, <2>5
    <3> QED
      BY <3>1, <3>2, <3>3, <2>3, <2>4
  <2> QED
    BY <2>1, <2>2, <2>5
<1> QED
  BY <1>1, <1>2

-----------------------------------------------------------------------------
(* The inductive invariant.                                                 *)

File(d) ==
    /\ d = [by |-> d.by, sound |-> d.sound, layout |-> d.layout, server |-> d.server, client |-> d.client]
    /\ d.by \in {"wizard", "example", "hand"} /\ d.sound \in BOOLEAN /\ d.layout \in {"flat", "sections"}
    /\ d.server = Absent \/ Section(d.server, ServerValues)
    /\ d.client = Absent \/ Section(d.client, ClientValues)

\* Whose hand a file comes from tells what is in it.
Genuine(d) ==
    /\ d.by = "wizard" =>
          /\ d.sound
          /\ d.server # Absent => \E a \in ServerAnswers : d.server = ServerTables(a)
          /\ d.client # Absent => \E a \in ClientAnswers : d.client = ClientTables(a)
    /\ d.by = "example" =>
          /\ d.sound /\ d.layout = "sections"
          /\ d.server # Absent => d.server = Example("server")
          /\ d.client # Absent => d.client = Example("client")

Runs(p, path) == Loads(p, disk[path]) /\ Accepted(p, disk[path][p])

\* The last start speaks of the files as they are.
Ran ==
    /\ started.program \in Binaries
    /\ \/ started.path = Absent /\ ~started.runs
       \/ /\ started.path \in Paths /\ disk[started.path] # Absent
          /\ started.runs = Runs(started.program, started.path)
    /\ started.rigs = IF started.runs /\ started.program = "server"
                      THEN ResolvedRigs(disk[started.path]["server"]) ELSE {}

Checked == verdict.path \in Paths /\ verdict.errors = Errors(disk[verdict.path])

ConfigInd ==
    /\ disk = [p \in Paths |-> disk[p]]
    /\ \A p \in Paths : disk[p] = Absent \/ (File(disk[p]) /\ Genuine(disk[p]))
    /\ verdict = Absent \/ Checked
    /\ started = Absent \/ Ran
    /\ edits \in 0..MaxEdits /\ writes \in 0..MaxWrites

LEMMA ConfigStarts == ConfigInit => ConfigInd
<1> SUFFICES ASSUME ConfigInit PROVE ConfigInd
  OBVIOUS
<1>1. 0 \in 0..MaxEdits /\ 0 \in 0..MaxWrites
  BY ConfigAssumption DEF ConfigAssumption
<1> QED
  BY <1>1 DEF ConfigInit, ConfigInd

LEMMA FilePut ==
    ASSUME ConfigInd, NEW path \in Paths, NEW file, File(file), Genuine(file),
           disk' = [disk EXCEPT ![path] = file], verdict' = Absent, started' = Absent,
           edits' \in 0..MaxEdits, writes' \in 0..MaxWrites
    PROVE ConfigInd'
<1>1. disk' = [p \in Paths |-> IF p = path THEN file ELSE disk[p]]
  BY DEF ConfigInd
<1>2. \A p \in Paths : disk'[p] = IF p = path THEN file ELSE disk[p]
  BY <1>1
<1>3. disk' = [p \in Paths |-> disk'[p]]
  BY <1>1
<1>4. \A p \in Paths : disk'[p] = Absent \/ (File(disk'[p]) /\ Genuine(disk'[p]))
  BY <1>2 DEF ConfigInd
<1> QED
  BY <1>3, <1>4 DEF ConfigInd

LEMMA StoredKeeps ==
    ASSUME ConfigInd, NEW path \in Paths, NEW file, File(file), Genuine(file), Stored(path, file)
    PROVE ConfigInd'
<1>1. /\ disk' = [disk EXCEPT ![path] = file] /\ verdict' = Absent /\ started' = Absent
      /\ edits' = edits /\ writes < MaxWrites /\ writes' = writes + 1
  BY DEF Stored
<1>2. edits' \in 0..MaxEdits /\ writes' \in 0..MaxWrites
  BY <1>1, ConfigAssumption DEF ConfigInd, ConfigAssumption
<1> QED
  BY <1>1, <1>2, FilePut

LEMMA DocumentFits ==
    ASSUME NEW type, NEW s \in ServerAnswers, NEW c \in ClientAnswers
    PROVE File(Document(type, s, c)) /\ Genuine(Document(type, s, c))
<1> DEFINE d == Document(type, s, c)
<1>1. /\ d = [by |-> d.by, sound |-> d.sound, layout |-> d.layout, server |-> d.server, client |-> d.client]
      /\ d.by = "wizard" /\ d.sound = TRUE /\ d.layout \in {"sections", "flat"}
      /\ d.server \in {Absent, ServerTables(s)} /\ d.client \in {Absent, ClientTables(c)}
  BY DEF Document
<1> HIDE DEF d
<1>2. File(d)
  BY <1>1, ServerTablesFit, ClientTablesFit DEF File
<1>3. Genuine(d)
  BY <1>1 DEF Genuine
<1> QED
  BY <1>2, <1>3 DEF d

LEMMA ConfigureKeeps == ASSUME ConfigInd, NEW type, Configure(type) PROVE ConfigInd'
<1>1. FileName(type) \in Paths
  BY DEF FileName, Paths
<1>2. PICK s \in ServerAnswers, c \in ClientAnswers : Stored(FileName(type), Document(type, s, c))
  <2>1. CASE \E a \in Answered : Stored(FileName(type), Document(type, a.server, a.client))
    <3>1. \A a \in Answered : a.server \in ServerAnswers /\ a.client \in ClientAnswers
      BY AnswersAssumption
    <3> QED
      BY <2>1, <3>1
  <2>2. CASE Stored(FileName(type), Document(type, DefaultServer, DefaultClient))
    BY <2>2, DefaultAnswers
  <2> QED
    BY <2>1, <2>2 DEF Configure
<1> QED
  BY <1>1, <1>2, DocumentFits, StoredKeeps

LEMMA PrintConfigKeeps == ASSUME ConfigInd, NEW p \in Binaries, PrintConfig(p) PROVE ConfigInd'
<1> DEFINE d == [by |-> "example", sound |-> TRUE, layout |-> "sections",
                 server |-> IF p = "server" THEN Example("server") ELSE Absent,
                 client |-> IF p = "client" THEN Example("client") ELSE Absent]
<1>1. Stored(FileName(p), d) /\ FileName(p) \in Paths
  BY DEF PrintConfig, FileName, Paths
<1>2. /\ d = [by |-> d.by, sound |-> d.sound, layout |-> d.layout, server |-> d.server, client |-> d.client]
      /\ d.by = "example" /\ d.sound = TRUE /\ d.layout = "sections"
      /\ d.server \in {Absent, Example("server")} /\ d.client \in {Absent, Example("client")}
  OBVIOUS
<1> HIDE DEF d
<1>3. Section(Example("server"), ServerValues)
  BY DefaultAnswers, ServerTablesFit DEF Example
<1>4. File(d)
  BY <1>2, <1>3, ExampleClientFits DEF File
<1>5. Genuine(d)
  BY <1>2 DEF Genuine
<1> QED
  BY <1>1, <1>4, <1>5, StoredKeeps

LEMMA InstallKeeps == ASSUME ConfigInd, NEW path \in Paths, Install(path) PROVE ConfigInd'
<1>1. Stored("/etc", disk[path]) /\ "/etc" \in Paths /\ File(disk[path]) /\ Genuine(disk[path])
  BY DEF Install, Paths, ConfigInd
<1> QED
  BY <1>1, StoredKeeps

LEMMA EditKeeps == ASSUME ConfigInd, NEW path \in Paths, EditByHand(path) PROVE ConfigInd'
<1> DEFINE d == disk[path]
<1>1. File(d)
  BY DEF EditByHand, ConfigInd
<1>2. PICK new \in
           {[d EXCEPT !.sound = FALSE], [d EXCEPT !.layout = "sections"]}
           \cup {[d EXCEPT ![p] = Absent] : p \in Binaries}
           \cup (IF d.server = Absent THEN {}
                 ELSE UNION {{[d EXCEPT !.server[f] = v] : v \in ServerValues[f]} :
                             f \in DOMAIN ServerValues})
           \cup (IF d.client = Absent THEN {}
                 ELSE UNION {{[d EXCEPT !.client[f] = v] : v \in ClientValues[f]} :
                             f \in DOMAIN ClientValues}) :
           disk' = [disk EXCEPT ![path] = [new EXCEPT !.by = "hand"]]
  BY DEF EditByHand
<1> HIDE DEF d
<1>3. d = [by |-> d.by, sound |-> d.sound, layout |-> d.layout, server |-> d.server, client |-> d.client]
  BY <1>1 DEF File
<1>4. File(new)
  <2>1. CASE new = [d EXCEPT !.sound = FALSE] \/ new = [d EXCEPT !.layout = "sections"]
    <3>1. /\ new = [by |-> new.by, sound |-> new.sound, layout |-> new.layout, server |-> new.server,
                    client |-> new.client]
          /\ new.by = d.by /\ new.sound \in {d.sound, FALSE} /\ new.layout \in {d.layout, "sections"}
          /\ new.server = d.server /\ new.client = d.client
      BY <2>1, <1>3
    <3> QED
      BY <3>1, <1>1 DEF File
  <2>2. CASE new \in {[d EXCEPT ![p] = Absent] : p \in Binaries}
    <3>1. new = [d EXCEPT !.server = Absent] \/ new = [d EXCEPT !.client = Absent]
      BY <2>2 DEF Binaries
    <3>2. /\ new = [by |-> new.by, sound |-> new.sound, layout |-> new.layout, server |-> new.server,
                    client |-> new.client]
          /\ new.by = d.by /\ new.sound = d.sound /\ new.layout = d.layout
          /\ new.server \in {d.server, Absent} /\ new.client \in {d.client, Absent}
      BY <3>1, <1>3
    <3> QED
      BY <3>2, <1>1 DEF File
  <2>3. CASE /\ d.server # Absent
             /\ \E f \in DOMAIN ServerValues : \E v \in ServerValues[f] : new = [d EXCEPT !.server[f] = v]
    <3>0. PICK f \in DOMAIN ServerValues : \E v \in ServerValues[f] : new = [d EXCEPT !.server[f] = v]
      BY <2>3
    <3>1. PICK v \in ServerValues[f] : new = [d EXCEPT !.server[f] = v]
      BY <3>0
    <3> DEFINE s == [d.server EXCEPT ![f] = v]
    <3>2. Section(s, ServerValues)
      BY <2>3, <1>1, SettingChanged DEF File
    <3>3. new = [d EXCEPT !.server = s]
      BY <3>1
    <3> HIDE DEF s
    <3>4. /\ new = [by |-> new.by, sound |-> new.sound, layout |-> new.layout, server |-> new.server,
                    client |-> new.client]
          /\ new.by = d.by /\ new.sound = d.sound /\ new.layout = d.layout
          /\ new.server = s /\ new.client = d.client
      BY <3>3, <1>3
    <3> QED
      BY <3>2, <3>4, <1>1 DEF File
  <2>4. CASE /\ d.client # Absent
             /\ \E f \in DOMAIN ClientValues : \E v \in ClientValues[f] : new = [d EXCEPT !.client[f] = v]
    <3>0. PICK f \in DOMAIN ClientValues : \E v \in ClientValues[f] : new = [d EXCEPT !.client[f] = v]
      BY <2>4
    <3>1. PICK v \in ClientValues[f] : new = [d EXCEPT !.client[f] = v]
      BY <3>0
    <3> DEFINE s == [d.client EXCEPT ![f] = v]
    <3>2. Section(s, ClientValues)
      BY <2>4, <1>1, SettingChanged DEF File
    <3>3. new = [d EXCEPT !.client = s]
      BY <3>1
    <3> HIDE DEF s
    <3>4. /\ new = [by |-> new.by, sound |-> new.sound, layout |-> new.layout, server |-> new.server,
                    client |-> new.client]
          /\ new.by = d.by /\ new.sound = d.sound /\ new.layout = d.layout
          /\ new.server = d.server /\ new.client = s
      BY <3>3, <1>3
    <3> QED
      BY <3>2, <3>4, <1>1 DEF File
  <2> QED
    BY <2>1, <2>2, <2>3, <2>4
<1> DEFINE file == [new EXCEPT !.by = "hand"]
<1>5. new = [by |-> new.by, sound |-> new.sound, layout |-> new.layout, server |-> new.server,
             client |-> new.client]
  BY <1>4 DEF File
<1>6. /\ file = [by |-> file.by, sound |-> file.sound, layout |-> file.layout, server |-> file.server,
                 client |-> file.client]
      /\ file.by = "hand" /\ file.sound = new.sound /\ file.layout = new.layout
      /\ file.server = new.server /\ file.client = new.client
  BY <1>5
<1> HIDE DEF file
<1>7. File(file) /\ Genuine(file)
  BY <1>4, <1>6 DEF File, Genuine
<1>8. verdict' = Absent /\ started' = Absent /\ edits' \in 0..MaxEdits /\ writes' \in 0..MaxWrites
  BY ConfigAssumption DEF EditByHand, ConfigInd, ConfigAssumption
<1>9. disk' = [disk EXCEPT ![path] = file]
  BY <1>2 DEF file
<1> QED
  BY <1>7, <1>8, <1>9, FilePut

LEMMA CheckKeepsFiles == ASSUME ConfigInd, NEW path \in Paths, CheckFile(path) PROVE ConfigInd'
<1>1. /\ verdict' = [path |-> path, errors |-> Errors(disk[path])]
      /\ UNCHANGED <<disk, started, edits, writes>>
  BY DEF CheckFile
<1>2. Checked'
  BY <1>1 DEF Checked
<1> QED
  BY <1>1, <1>2 DEF ConfigInd, Ran, Runs

LEMMA StartWithKeeps ==
    ASSUME ConfigInd, NEW p \in Binaries, NEW path \in Paths, StartWith(p, path) PROVE ConfigInd'
<1> DEFINE s == disk[path][p]
           runs == Runs(p, path)
<1>1. /\ disk[path] # Absent
      /\ started' = [program |-> p, path |-> path, runs |-> runs,
                     rigs |-> IF runs /\ p = "server" THEN ResolvedRigs(s) ELSE {}]
      /\ UNCHANGED <<disk, verdict, edits, writes>>
  BY DEF StartWith, Starts, Runs
<1>2. Runs(p, path)' = runs
  BY <1>1 DEF Runs
<1>3. Ran'
  <2>1. /\ started'.program = p /\ started'.path = path /\ started'.runs = runs
        /\ started'.rigs = IF runs /\ p = "server" THEN ResolvedRigs(disk[path]["server"]) ELSE {}
    BY <1>1
  <2> HIDE DEF runs, s
  <2> QED
    BY <2>1, <1>1, <1>2 DEF Ran
<1> QED
  BY <1>1, <1>3 DEF ConfigInd, Checked

LEMMA SearchKeeps == ASSUME ConfigInd, NEW p \in Binaries, StartSearching(p) PROVE ConfigInd'
<1>1. CASE Starts(p, Absent, Accepted(p, Default(p)), Default(p))
  <2>1. /\ started' = [program |-> p, path |-> Absent, runs |-> FALSE, rigs |-> {}]
        /\ UNCHANGED <<disk, verdict, edits, writes>>
    <3>1. Accepted(p, Default(p)) = FALSE
      <4>1. Accepted(p, Default(p)) \in BOOLEAN
        BY DEF Accepted, ServerAccepted, ClientAccepted
      <4> QED
        BY <4>1, DefaultsRefused
    <3> QED
      BY <1>1, <3>1 DEF Starts
  <2>2. Ran'
    BY <2>1 DEF Ran
  <2> QED
    BY <2>1, <2>2 DEF ConfigInd, Checked
<1>2. CASE \E i \in DOMAIN Searched : StartWith(p, Searched[i])
  <2>1. \A i \in DOMAIN Searched : Searched[i] \in Paths
    BY DEF Searched, Paths
  <2> QED
    BY <1>2, <2>1, StartWithKeeps
<1> QED
  BY <1>1, <1>2 DEF StartSearching

LEMMA ConfigKeeps == ConfigInd /\ [ConfigNext]_configVars => ConfigInd'
<1> SUFFICES ASSUME ConfigInd, [ConfigNext]_configVars PROVE ConfigInd'
  OBVIOUS
<1>1. CASE UNCHANGED configVars
  BY <1>1 DEF configVars, ConfigInd, Ran, Runs, Checked
<1>2. CASE ConfigNext
  BY <1>2, ConfigureKeeps, PrintConfigKeeps, InstallKeeps, EditKeeps, CheckKeepsFiles, StartWithKeeps,
     SearchKeeps DEF ConfigNext
<1> QED
  BY <1>1, <1>2

LEMMA ConfigImplies == ConfigInd => ConfigInv
<1> SUFFICES ASSUME ConfigInd PROVE ConfigInv
  OBVIOUS
<1>1. ConfigTypeOK
  BY DEF ConfigInd, ConfigTypeOK, File, Section
\* The section of the last start.
<1>2. ASSUME started # Absent, started.path # Absent
      PROVE /\ started.path \in Paths /\ disk[started.path] # Absent
            /\ File(disk[started.path]) /\ Genuine(disk[started.path])
            /\ started.program \in {"server", "client"}
            /\ started.runs = Runs(started.program, started.path)
  BY <1>2 DEF ConfigInd, Ran, Binaries
<1>3. PlainFilesRun
  <2> DEFINE d == disk[started.path]
  <2>1. ASSUME Untouched("example") PROVE started.runs
    <3>1. started # Absent /\ started.path # Absent /\ d.by = "example" /\ d[started.program] # Absent
      BY <2>1 DEF Untouched
    <3>2. d.sound /\ d.layout = "sections" /\ d[started.program] = Example(started.program)
      BY <3>1, <1>2 DEF Genuine
    <3>3. Parses(started.program, d[started.program]) /\ Accepted(started.program, d[started.program])
      BY <3>1, <3>2, <1>2, ExampleServerRuns, ExampleClientRuns
    <3> QED
      BY <3>1, <3>2, <3>3, <1>2 DEF Runs, Loads, HasSection
  <2>2. ASSUME Untouched("wizard"), d.layout = "sections", started.program = "server",
               d.server.model = "ft817", d.server.listenAt = "ok"
        PROVE started.runs
    <3>1. started # Absent /\ started.path # Absent /\ d.by = "wizard" /\ d.server # Absent
      BY <2>2 DEF Untouched
    <3>2. d.sound /\ \E a \in ServerAnswers : d.server = ServerTables(a)
      BY <3>1, <1>2 DEF Genuine
    <3>3. Parses("server", d.server) /\ Accepted("server", d.server)
      BY <3>2, <2>2, PlainServerRuns
    <3> QED
      BY <3>1, <3>2, <3>3, <2>2, <1>2 DEF Runs, Loads, HasSection
  <2>3. ASSUME Untouched("wizard"), d.layout = "sections", started.program = "client",
               d.client.url = "ok", ~d.client.rigctl
        PROVE started.runs
    <3>1. started # Absent /\ started.path # Absent /\ d.by = "wizard" /\ d.client # Absent
      BY <2>3 DEF Untouched
    <3>2. d.sound /\ \E a \in ClientAnswers : d.client = ClientTables(a)
      BY <3>1, <1>2 DEF Genuine
    <3>3. Parses("client", d.client) /\ Accepted("client", d.client)
      BY <3>2, <2>3, PlainClientRuns
    <3> QED
      BY <3>1, <3>2, <3>3, <2>3, <1>2 DEF Runs, Loads, HasSection
  <2>4. Untouched("wizard") => started.program = "server" \/ started.program = "client"
    BY <1>2 DEF Untouched
  <2> QED
    BY <2>1, <2>2, <2>3, <2>4 DEF PlainFilesRun
<1>4. CheckedErrorsRefused
  <2> SUFFICES ASSUME started # Absent, verdict # Absent, verdict.path = started.path,
                      started.program \in verdict.errors, started.runs
               PROVE started.program = "client" /\ disk[started.path].client.rigctlPort = "zero"
    BY DEF CheckedErrorsRefused
  <2> DEFINE d == disk[started.path]
  <2>1. started.path # Absent /\ started.program \in Errors(d)
    BY ConfigAssumption DEF ConfigInd, Checked, ConfigAssumption
  <2>2. /\ d.sound /\ Parses(started.program, d[started.program])
        /\ Accepted(started.program, d[started.program]) /\ started.program \in {"server", "client"}
    BY <2>1, <1>2 DEF Runs, Loads
  <2>3. \/ started.program = "server" /\ ServerErrors(d.server)
        \/ started.program = "client" /\ ClientErrors(d.client)
    BY <2>1, <2>2 DEF Errors
  <2> QED
    BY <2>2, <2>3, ServerErrorRefused, ClientErrorRefused
<1>5. RunsAreSound
  <2> SUFFICES ASSUME started # Absent, started.runs
               PROVE /\ started.path # Absent
                     /\ started.program = "server" => started.rigs # {}
                     /\ \A r, q \in started.rigs :
                         r # q => /\ r.audio = 0 \/ r.audio # q.audio
                                  /\ r.id = q.id => Len(r.id) = 2
    BY DEF RunsAreSound
  <2>1. Ran /\ started.path # Absent
    BY ConfigAssumption DEF ConfigInd, Ran, ConfigAssumption
  <2>2. CASE started.program = "server"
    <3>1. FleetAccepted(disk[started.path]["server"].rigs)
      BY <2>1, <2>2, <1>2 DEF Runs, Accepted, ServerAccepted
    <3>2. started.rigs = ResolvedRigs(disk[started.path]["server"])
      BY <2>1, <2>2 DEF Ran
    <3> QED
      BY <2>1, <3>1, <3>2, RigsSound
  <2>3. CASE started.program # "server"
    BY <2>1, <2>3 DEF Ran
  <2> QED
    BY <2>2, <2>3
<1> QED
  BY <1>1, <1>3, <1>4, <1>5 DEF ConfigInv

\* What trx-configurator and --print-config write starts the program it is for, what --check
\* calls an error is refused by validate() but for one old port, and a server that runs has
\* rigs that can be told apart: for every file, every edit and every place it is found at.
THEOREM ConfigHolds == ConfigSpec => []ConfigInv
<1>1. ConfigSpec => []ConfigInd
  BY ConfigStarts, ConfigKeeps, PTL DEF ConfigSpec
<1> QED
  BY <1>1, ConfigImplies, PTL
=============================================================================

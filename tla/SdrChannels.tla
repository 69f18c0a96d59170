----------------------------- MODULE SdrChannels -----------------------------
(* The channels of a SoapySDR rig: the DSP slots of the pipeline (dsp.rs),  *)
(* the list that maps virtual channels to slots (vchan_impl.rs) and the     *)
(* retunes of the rig (lib.rs).                                             *)
(*                                                                          *)
(* Connections of the audio server, the task of the rig and the thread that *)
(* reads samples share the two lists. What happens under the write lock of  *)
(* the list is one step; what is read before a lock is a step of its own.   *)
(* Frequencies are whole numbers; slots count from 1, the first Fixed being *)
(* the dial and the two AIS channels. Modes and filters are left out.       *)
EXTENDS Integers, Sequences, FiniteSets, FiniteSetsExt

CONSTANTS Conns,      \* connections that manage channels
          Ids,        \* identifiers of virtual channels
          HiddenIds,  \* those of the background decoder
          Freqs,      \* frequencies somebody asks for
          HalfSpan,   \* half of the captured bandwidth
          Offset,     \* center_offset_hz
          NoCenter,   \* nothing to retune to
          Spacing,    \* AIS_CHANNEL_SPACING_HZ
          MaxTotal,   \* max_total: visible channels, the dial included
          MaxAdds,    \* bound: channels ever added
          MaxTunes    \* bound: commands for the rig

Nobody == "dial"      \* the identifier of the permanent channel
Fixed == 3

ASSUME SdrAssumption ==
    /\ Freqs \subseteq Int /\ Freqs # {}
    /\ {HalfSpan, Spacing, MaxAdds, MaxTunes} \subseteq Nat
    /\ Offset \in -HalfSpan..HalfSpan
    /\ MaxTotal \in Nat \ {0}
    /\ \A f \in Freqs : NoCenter \notin {f, f - Offset}
    /\ HiddenIds \subseteq Ids /\ Nobody \notin Ids

VARIABLES
    dsps,    \* channel_dsps: [tag, offset, on] per slot
    chans,   \* channels of the manager: [id, freq, slot, hidden, tag]
    center,  \* shared_center_hz, which the manager reads
    rig,     \* SoapySdrRig: dial, mode and the center it has asked for
    step,    \* where the rig is in a retune
    retune,  \* retune_cmd, waiting for the thread that reads samples
    tuned,   \* the center of the hardware
    call,    \* what each connection has looked up and not done yet
    tags, tunes,
    raced,   \* history: channels retuned against a center that had moved
    refused  \* history: the hardware did not take the last center

sdrVars == <<dsps, chans, center, rig, step, retune, tuned, call, tags, tunes, raced, refused>>

Abs(x) == IF x < 0 THEN -x ELSE x
InSpan(freq, at) == Abs(freq - at) <= HalfSpan
Slots == DOMAIN dsps
Entries == DOMAIN chans
Dropped(seq, k) == [i \in 1..(Len(seq) - 1) |-> IF i < k THEN seq[i] ELSE seq[i + 1]]
EntryOf(id) == {i \in Entries : chans[i].id = id}
Visible == {i \in Entries : ~chans[i].hidden}

\* A connection that does nothing in the manager.
NoCall == [op |-> "none", id |-> Nobody, freq |-> 0, offset |-> 0]

Centers == Freqs \cup {f - Offset : f \in Freqs}

SdrTypeOK ==
    /\ dsps \in Seq([tag : 0..MaxAdds, offset : Int, on : BOOLEAN])
    /\ chans \in Seq([id : Ids \cup {Nobody}, freq : Int, slot : Nat \ {0},
                      hidden : BOOLEAN, tag : 0..MaxAdds])
    /\ center \in Centers /\ tuned \in Centers
    /\ rig \in [freq : Freqs, ais : BOOLEAN, center : Centers]
    /\ step \in {"idle", "store", "spread", "own"}
    /\ retune \in Centers \cup {NoCenter}
    /\ call \in [Conns -> {NoCall} \cup
                          [op : {"create", "tune"}, id : Ids, freq : Freqs, offset : Int]]
    /\ tags \in 0..MaxAdds /\ tunes \in 0..MaxTunes
    /\ raced \subseteq Ids /\ refused \in BOOLEAN

Idle(c) == call[c] = NoCall
Returns(c) == call' = [call EXCEPT ![c] = NoCall]

SdrInit ==
    \E f \in Freqs :
        /\ rig = [freq |-> f, ais |-> FALSE, center |-> f - Offset]
        /\ dsps = [s \in 1..Fixed |->
                     [tag |-> 0, on |-> s = 1,
                      offset |-> IF s = 3 THEN Offset + Spacing ELSE Offset]]
        /\ chans = <<[id |-> Nobody, freq |-> 0, slot |-> 1, hidden |-> FALSE, tag |-> 0]>>
        /\ center = f - Offset /\ tuned = f - Offset /\ retune = NoCenter /\ step = "idle"
        /\ call = [c \in Conns |-> NoCall]
        /\ tags = 0 /\ tunes = 0 /\ raced = {} /\ refused = FALSE

-----------------------------------------------------------------------------
(* Connections (SdrVirtualChannelManager).                                  *)

\* ensure_channel_pcm, ensure_background_channel_pcm: the list is looked at
\* under the read lock ...
Ensure(c, id, f) ==
    /\ Idle(c)
    /\ IF EntryOf(id) # {} THEN UNCHANGED call
       ELSE call' = [call EXCEPT ![c] = [op |-> "create", id |-> id, freq |-> f, offset |-> 0]]
    /\ UNCHANGED <<dsps, chans, center, rig, step, retune, tuned, tags, tunes, raced, refused>>

\* ... and create_channel takes the write lock afterwards, without another look.
\* Hidden channels do not count against the cap.
CanCreate(id, f) ==
    /\ InSpan(f, center)
    /\ id \notin HiddenIds => Cardinality(Visible) < MaxTotal
Create(c) ==
    LET id == call[c].id  f == call[c].freq IN
    /\ call[c].op = "create" /\ tags < MaxAdds
    /\ Returns(c)
    /\ IF CanCreate(id, f)
       THEN /\ tags' = tags + 1
            /\ dsps' = Append(dsps, [tag |-> tags + 1, offset |-> f - center, on |-> TRUE])
            /\ chans' = Append(chans, [id |-> id, freq |-> f, slot |-> Len(dsps) + 1,
                                       hidden |-> id \in HiddenIds, tag |-> tags + 1])
       ELSE UNCHANGED <<tags, dsps, chans>>
    /\ UNCHANGED <<center, rig, step, retune, tuned, tunes, raced, refused>>

\* Mutant: the slots behind the one that went are not renumbered.
RemoveChannel_NoShift(c, id) ==
    /\ Idle(c) /\ EntryOf(id) # {}
    /\ LET i == Min(EntryOf(id))  slot == chans[i].slot IN
       /\ dsps' = Dropped(dsps, slot)
       /\ chans' = Dropped(chans, i)
    /\ UNCHANGED <<center, rig, step, retune, tuned, call, tags, tunes, raced, refused>>

\* remove_channel: the slot goes, and those behind it move up.
RemoveChannel(c, id) ==
    /\ Idle(c) /\ EntryOf(id) # {}
    /\ LET i == Min(EntryOf(id))  slot == chans[i].slot IN
       /\ dsps' = Dropped(dsps, slot)
       /\ chans' = [j \in 1..(Len(chans) - 1) |->
                      LET ch == Dropped(chans, i)[j] IN
                      IF ch.slot > slot THEN [ch EXCEPT !.slot = @ - 1] ELSE ch]
    /\ UNCHANGED <<center, rig, step, retune, tuned, call, tags, tunes, raced, refused>>

\* set_channel_freq: the offset is computed from the center before the lock ...
Aim(c, id, f) ==
    /\ Idle(c) /\ InSpan(f, center)
    /\ call' = [call EXCEPT ![c] = [op |-> "tune", id |-> id, freq |-> f,
                                    offset |-> f - center]]
    /\ UNCHANGED <<dsps, chans, center, rig, step, retune, tuned, tags, tunes, raced, refused>>

\* ... and written under it; a channel that is paused stays paused.
Tune(c) ==
    LET id == call[c].id  f == call[c].freq IN
    /\ call[c].op = "tune" /\ Returns(c)
    /\ IF EntryOf(id) # {}
       THEN LET i == Min(EntryOf(id)) IN
            /\ chans' = [chans EXCEPT ![i].freq = f]
            /\ dsps' = [dsps EXCEPT ![chans[i].slot].offset = call[c].offset]
            /\ raced' = IF call[c].offset # f - center THEN raced \cup {id}
                        ELSE raced \ {id}
       ELSE UNCHANGED <<chans, dsps, raced>>
    /\ UNCHANGED <<center, rig, step, retune, tuned, tags, tunes, refused>>

-----------------------------------------------------------------------------
(* The rig (SoapySdrRig) and its hardware.                                  *)

Commanded == step = "idle" /\ tunes < MaxTunes /\ tunes' = tunes + 1

Retune(freq, at) ==
    /\ rig' = [rig EXCEPT !.freq = freq, !.center = at]
    /\ retune' = at /\ step' = "store" /\ refused' = FALSE

\* set_freq: the hardware moves only when the dial leaves the captured span.
SetFreq(f) ==
    /\ Commanded
    /\ IF InSpan(f, rig.center) /\ (rig.ais => f + Spacing - rig.center <= HalfSpan)
       THEN rig' = [rig EXCEPT !.freq = f] /\ step' = "own" /\ UNCHANGED <<retune, refused>>
       ELSE Retune(f, f - Offset)
    /\ UNCHANGED <<dsps, chans, center, tuned, call, tags, raced>>

SetCenterFreq(at) ==
    /\ Commanded /\ Retune(rig.freq, at)
    /\ UNCHANGED <<dsps, chans, center, tuned, call, tags, raced>>

\* set_mode: the AIS channels work in AIS mode only.
SetMode ==
    /\ Commanded
    /\ rig' = [rig EXCEPT !.ais = ~@]
    /\ dsps' = [s \in Slots |-> IF s \in {2, 3} THEN [dsps[s] EXCEPT !.on = ~rig.ais]
                                ELSE dsps[s]]
    /\ UNCHANGED <<chans, center, step, retune, tuned, call, tags, raced, refused>>

\* update_center_hz: the center is stored first ...
StoreCenter ==
    /\ step = "store" /\ step' = "spread"
    /\ center' = rig.center
    /\ UNCHANGED <<dsps, chans, rig, retune, tuned, call, tags, tunes, raced, refused>>

\* ... then every virtual channel follows, or is paused outside the span.
Spread ==
    /\ step = "spread" /\ step' = "own"
    /\ dsps' = [s \in Slots |->
         LET mine == {i \in Entries : chans[i].id # Nobody /\ chans[i].slot = s} IN
         IF mine = {} THEN dsps[s]
         ELSE LET f == chans[Min(mine)].freq IN
              IF InSpan(f, rig.center) THEN [dsps[s] EXCEPT !.offset = f - rig.center, !.on = TRUE]
              ELSE [dsps[s] EXCEPT !.on = FALSE]]
    /\ raced' = {}
    /\ UNCHANGED <<chans, center, rig, retune, tuned, call, tags, tunes, refused>>

\* The dial and the AIS channels, which are no entries of the list or permanent.
Own ==
    /\ step = "own" /\ step' = "idle"
    /\ dsps' = [s \in Slots |->
         CASE s \in {1, 2} -> [dsps[s] EXCEPT !.offset = rig.freq - rig.center]
           [] s = 3 -> [dsps[s] EXCEPT !.offset = rig.freq + Spacing - rig.center]
           [] OTHER -> dsps[s]]
    /\ UNCHANGED <<chans, center, rig, retune, tuned, call, tags, tunes, raced, refused>>

\* iq_read_loop: a pending center is taken before the next block; a refusal is
\* only logged.
ReadLoop(ok) ==
    /\ retune # NoCenter /\ retune' = NoCenter
    /\ tuned' = IF ok THEN retune ELSE tuned
    /\ refused' = ~ok
    /\ UNCHANGED <<dsps, chans, center, rig, step, call, tags, tunes, raced>>

SdrNext ==
    \/ \E c \in Conns :
          \/ Create(c) \/ Tune(c)
          \/ \E id \in Ids : RemoveChannel(c, id) \/ \E f \in Freqs : Ensure(c, id, f) \/ Aim(c, id, f)
    \/ \E f \in Freqs : SetFreq(f) \/ SetCenterFreq(f)
    \/ SetMode \/ StoreCenter \/ Spread \/ Own
    \/ \E ok \in BOOLEAN : ReadLoop(ok)

SdrSpec == SdrInit /\ [][SdrNext]_sdrVars

-----------------------------------------------------------------------------
(* Properties.                                                              *)

\* Every entry of the list names the slot whose audio its subscribers hear, and
\* no two name the same one, whatever was added and removed in between: "When a
\* channel at slot K is removed [...] the manager updates every surviving entry's
\* pipeline_slot accordingly" (vchan_impl.rs).
SlotRight ==
    /\ Len(dsps) = Fixed - 1 + Len(chans)
    /\ \A i \in Entries :
          /\ chans[i].slot \in Slots
          /\ dsps[chans[i].slot].tag = chans[i].tag
          /\ \A j \in Entries : chans[i].slot = chans[j].slot => i = j
          /\ chans[i].slot \notin 2..Fixed

\* Between two retunes a channel listens where its entry says, the dial and the AIS
\* channels where the rig says, and what lies outside the captured span is paused:
\* but for a channel that was retuned against a center that moved meanwhile.
ListensWhereListed ==
    step = "idle" =>
        /\ \A s \in 1..2 : dsps[s].offset = rig.freq - rig.center
        /\ dsps[3].offset = rig.freq + Spacing - rig.center
        /\ \A i \in Entries : chans[i].id \notin raced \cup {Nobody} =>
              LET d == dsps[chans[i].slot] IN
              IF InSpan(chans[i].freq, center) THEN d.offset = chans[i].freq - center
              ELSE ~d.on

\* Only hidden channels come on top of the cap, even when several connections
\* create channels at once.
VisibleWithinCap == Cardinality(Visible) <= MaxTotal

\* The hardware is where the offsets of all channels suppose it to be, once it has
\* taken what was asked for and refused nothing.
HardwareMatches == (retune = NoCenter /\ ~refused) => tuned = rig.center

\* What holds of the channels at every moment: types, slots, the cap and the center.
SdrInv ==
    /\ SdrTypeOK /\ SlotRight /\ VisibleWithinCap /\ HardwareMatches
    /\ ListensWhereListed

=============================================================================

---------------------------- MODULE DecoderTasks ----------------------------
(* The life of one decoder task of the server (audio.rs): it sleeps while    *)
(* its mode is off, takes blocks of audio while it is on, and records what   *)
(* it decodes in the history of its kind, while the rig task changes mode    *)
(* and settings, clears the history and asks for resets (rig_task.rs).       *)
(*                                                                           *)
(* The eleven tasks are one loop with eleven variations. What a block holds  *)
(* is left out: a block is known by when it was captured, a decoder by the   *)
(* blocks it has taken in since its last reset, and a message by the blocks  *)
(* it may come from.                                                         *)
EXTENDS Integers, Sequences, FiniteSets

CONSTANTS Backlog,      \* capacity of the broadcast channel of audio blocks
          MaxBlocks,    \* bound: blocks ever captured
          MaxChanges,   \* bound: changes of the rig's state
          MaxSlots      \* bound: time slots that pass

ASSUME DecoderAssumption ==
    /\ Backlog \in Nat \ {0}
    /\ {MaxBlocks, MaxChanges, MaxSlots} \subseteq Nat

-----------------------------------------------------------------------------
(* The variations. watches: a change of the state is searched for a reset;  *)
(* asks: a block is not decoded before the reset counter was looked at;     *)
(* again: nor are its messages kept before it was looked at once more;      *)
(* gated: a block is dropped when the mode has gone; renews: whenever the   *)
(* state changes, or a reset is seen, what waits in the channel is dropped; *)
(* off: what becomes of the decoder when its mode goes; slot: what happens  *)
(* when a time slot ends; saves: a reset records the image in progress.     *)

Plain == [watches |-> TRUE, asks |-> TRUE, again |-> TRUE, gated |-> FALSE,
          renews |-> TRUE, off |-> "reset", slot |-> "none", saves |-> FALSE]

Aprs == Plain
Ais == [Plain EXCEPT !.watches = FALSE, !.asks = FALSE, !.again = FALSE]
Vdes == Ais
Cw == [Plain EXCEPT !.gated = TRUE]
Ftx == [Plain EXCEPT !.slot = "clear"]
Ft2 == Plain
Wspr == [Plain EXCEPT !.slot = "decode"]
Lrpt == [Plain EXCEPT !.again = FALSE, !.renews = FALSE, !.off = "record"]
Wefax == [Plain EXCEPT !.watches = FALSE, !.gated = TRUE, !.renews = FALSE,
                       !.off = "keep", !.saves = TRUE]

Decoders == {Aprs, Ais, Vdes, Cw, Ftx, Ft2, Wspr, Lrpt, Wefax}

VARIABLES
    kind,     \* the decoder
    state,    \* the watch channel: [on, resets], as far as it concerns the decoder
    unseen,   \* the task has not seen the last change of it
    pcm,      \* blocks that wait in the channel
    task,     \* where the task is: [at, on, last, slot, run]
    taken,    \* blocks the decoder has taken in since its last reset
    block,    \* the block that is being worked on
    asked,    \* the reset counter when the task last looked at it for that block
    out,      \* what may be recorded from it
    history,  \* of the kind: [from, asked, saved]
    clearing, \* the rig task has cleared the history and not published it yet
    slot,     \* the time slot
    blocks, changes   \* bounded counters

decoderVars == <<kind, state, unseen, pcm, task, taken, block, asked, out, history,
                 clearing, slot, blocks, changes>>

NoSlot == -1
NoBlock == [resets |-> 0, slot |-> NoSlot, run |-> 0]
Block == [resets : 0..MaxChanges, slot : NoSlot..MaxSlots, run : 0..MaxChanges + 1]

DecoderTypeOK ==
    /\ kind \in Decoders
    /\ state \in [on : BOOLEAN, resets : 0..MaxChanges] /\ unseen \in BOOLEAN
    /\ pcm \in Seq(Block) /\ Len(pcm) <= Backlog
    /\ task \in [at : {"select", "check", "record", "absorb"}, on : BOOLEAN,
                 last : 0..MaxChanges, slot : NoSlot..MaxSlots, run : 0..MaxChanges + 1]
    /\ taken \subseteq Block /\ block \in Block /\ out \subseteq Block
    /\ asked \in 0..MaxChanges
    /\ \A e \in history : e.from \subseteq Block /\ e.asked \in 0..MaxChanges
    /\ clearing \in BOOLEAN /\ slot \in 0..MaxSlots
    /\ blocks \in 0..MaxBlocks /\ changes \in 0..MaxChanges

DecoderInit ==
    /\ kind \in Decoders
    /\ \E on \in BOOLEAN :
          /\ state = [on |-> on, resets |-> 0]
          /\ task = [at |-> "select", on |-> on, last |-> 0, slot |-> NoSlot,
                     run |-> IF on THEN 1 ELSE 0]
    /\ unseen = FALSE /\ pcm = <<>> /\ taken = {} /\ block = NoBlock /\ asked = 0
    /\ out = {} /\ history = {} /\ clearing = FALSE /\ slot = 0
    /\ blocks = 0 /\ changes = 0

-----------------------------------------------------------------------------
(* The rig task and the sound card.                                         *)

Changes == changes < MaxChanges /\ changes' = changes + 1 /\ unseen' = TRUE

\* The decoder is switched, or the mode it works in comes or goes.
ModeChanges ==
    /\ Changes /\ ~clearing
    /\ state' = [state EXCEPT !.on = ~@]
    /\ UNCHANGED <<kind, pcm, task, taken, block, asked, out, history, clearing, slot, blocks>>

\* Any other change of the state, as every poll may bring one.
StateChanges ==
    /\ Changes /\ ~clearing
    /\ UNCHANGED <<kind, state, pcm, task, taken, block, asked, out, history, clearing,
                   slot, blocks>>

\* Reset...Decoder: the history is cleared, then the counter is raised and published.
ClearHistory ==
    /\ ~clearing /\ clearing' = TRUE /\ changes < MaxChanges
    /\ history' = {}
    /\ UNCHANGED <<kind, state, unseen, pcm, task, taken, block, asked, out, slot, blocks,
                   changes>>

PublishReset ==
    /\ clearing /\ clearing' = FALSE /\ Changes
    /\ state' = [state EXCEPT !.resets = @ + 1]
    /\ UNCHANGED <<kind, pcm, task, taken, block, asked, out, history, slot, blocks>>

\* A block is captured whatever the mode is; a slow receiver loses the oldest one.
Capture ==
    /\ blocks < MaxBlocks /\ blocks' = blocks + 1
    /\ LET b == [NoBlock EXCEPT !.resets = state.resets]  all == Append(pcm, b) IN
       pcm' = IF Len(all) > Backlog THEN Tail(all) ELSE all
    /\ UNCHANGED <<kind, state, unseen, task, taken, block, asked, out, history, clearing,
                   slot, changes>>

SlotPasses ==
    /\ kind.slot # "none" /\ slot < MaxSlots /\ slot' = slot + 1
    /\ UNCHANGED <<kind, state, unseen, pcm, task, taken, block, asked, out, history,
                   clearing, blocks, changes>>

-----------------------------------------------------------------------------
(* The task.                                                                *)

Asleep == task.at = "select" /\ ~task.on
Awake == task.at = "select" /\ task.on
Recorded(from, saved) == [from |-> from, asked |-> state.resets, saved |-> saved]
\* An image in progress is recorded, unless too little of it is there.
MaySave(saved) ==
    \/ UNCHANGED history
    \/ taken # {} /\ history' = history \cup {Recorded(taken, saved)}

\* While it is off the task waits for a change of the state only.
SeeIdle ==
    LET reset == kind.watches /\ state.resets # task.last
        woken == state.on IN
    /\ Asleep /\ unseen /\ unseen' = FALSE
    /\ task' = [task EXCEPT !.on = woken, !.run = IF woken THEN @ + 1 ELSE @,
                            !.slot = NoSlot,
                            !.last = IF reset THEN state.resets ELSE @]
    /\ pcm' = IF woken THEN <<>> ELSE pcm
    /\ taken' = IF reset \/ kind.slot = "decode" \/ (woken /\ kind.off = "record")
                THEN {} ELSE taken
    /\ UNCHANGED <<kind, state, block, asked, out, history, clearing, slot, blocks, changes>>

\* Mutant: a decoder that is no longer wanted is only told to stop.
SeeChange_NoReset ==
    LET reset == kind.watches /\ state.resets # task.last IN
    /\ Awake /\ unseen /\ unseen' = FALSE
    /\ task' = [task EXCEPT !.on = state.on, !.slot = IF state.on THEN @ ELSE NoSlot,
                            !.last = IF reset THEN state.resets ELSE @]
    /\ taken' = IF reset THEN {} ELSE taken
    /\ pcm' = IF state.on /\ kind.renews THEN <<>> ELSE pcm
    /\ UNCHANGED <<kind, state, block, asked, out, history, clearing, slot, blocks, changes>>

\* While it is on, a change of the state may end the run, and drops the blocks that
\* wait in any other case.
SeeChange ==
    LET reset == kind.watches /\ state.resets # task.last
        ends == ~state.on IN
    /\ Awake /\ unseen /\ unseen' = FALSE
    /\ task' = [task EXCEPT !.on = state.on,
                            !.slot = IF ends \/ (reset /\ kind.slot = "decode") THEN NoSlot ELSE @,
                            !.last = IF reset THEN state.resets ELSE @]
    /\ IF ends /\ ~reset /\ kind.off = "record" THEN MaySave(FALSE) ELSE UNCHANGED history
    /\ taken' = IF reset \/ (ends /\ kind.off # "keep") THEN {} ELSE taken
    /\ pcm' = IF state.on /\ kind.renews THEN <<>> ELSE pcm
    /\ UNCHANGED <<kind, state, block, asked, out, clearing, slot, blocks, changes>>

\* A block comes; first of all the slot may have ended (FT8, FT4).
Arrived(b) == [b EXCEPT !.run = task.run, !.slot = IF kind.slot = "none" THEN NoSlot ELSE slot]
SlotEnds == kind.slot = "clear" /\ slot # task.slot
Kept == IF SlotEnds THEN {} ELSE taken
SlotNow == IF kind.slot = "clear" THEN slot ELSE task.slot

\* It finds that a reset was asked for: it is dropped with those that wait, but for
\* LRPT, which goes on with it.
SeeReset ==
    /\ Awake /\ pcm # <<>> /\ kind.asks /\ state.resets # task.last
    /\ task' = [task EXCEPT !.last = state.resets,
                            !.slot = IF kind.slot = "none" THEN @ ELSE slot]
    /\ IF kind.saves THEN MaySave(TRUE) ELSE UNCHANGED history
    /\ taken' = IF kind = Lrpt THEN {Arrived(Head(pcm))} ELSE {}
    /\ pcm' = IF kind = Lrpt THEN Tail(pcm) ELSE <<>>
    /\ UNCHANGED <<kind, state, unseen, block, asked, out, clearing, slot, blocks, changes>>

NoReset == Awake /\ pcm # <<>> /\ (kind.asks => state.resets = task.last)

\* It finds that the mode has gone (CW, WEFAX): the task stops before it is told.
SeeOff ==
    /\ NoReset /\ kind.gated /\ ~state.on
    /\ task' = [task EXCEPT !.on = FALSE] /\ pcm' = Tail(pcm)
    /\ IF kind.saves THEN MaySave(FALSE) ELSE UNCHANGED history
    /\ taken' = {}
    /\ UNCHANGED <<kind, state, unseen, block, asked, out, clearing, slot, blocks, changes>>

\* It is decoded, with what the decoder has taken in before; whether a message comes
\* out is left open. WSPR decodes at the end of a slot what it has collected in it.
Decode ==
    LET b == Arrived(Head(pcm)) IN
    /\ NoReset /\ (kind.gated => state.on)
    /\ pcm' = Tail(pcm) /\ asked' = state.resets /\ block' = b
    /\ IF kind.slot = "decode"
       THEN /\ taken' = taken
            /\ IF task.slot \in {NoSlot, slot}
               THEN out' = {} /\ task' = [task EXCEPT !.at = "absorb", !.slot = slot]
               ELSE out' \in {{}, taken} /\ task' = [task EXCEPT !.at = "check"]
       ELSE /\ taken' = Kept \cup {b}
            /\ out' \in IF kind.off = "record" THEN {{}} ELSE {{}, taken'}
            /\ task' = [task EXCEPT !.at = "check", !.slot = SlotNow]
    /\ UNCHANGED <<kind, state, unseen, history, clearing, slot, blocks, changes>>

\* Then the counter is looked at again: a reset meanwhile voids the messages.
Check ==
    /\ task.at = "check" /\ asked' = state.resets
    /\ IF kind.again /\ state.resets # asked
       THEN /\ task' = [task EXCEPT !.at = "select", !.last = state.resets,
                                    !.slot = IF kind.slot = "decode" THEN block.slot ELSE @]
            /\ IF kind.saves THEN MaySave(TRUE) ELSE UNCHANGED history
            /\ taken' = {} /\ pcm' = <<>> /\ out' = {}
       ELSE /\ task' = [task EXCEPT !.at = "record"]
            /\ UNCHANGED <<history, taken, pcm, out>>
    /\ UNCHANGED <<kind, state, unseen, block, clearing, slot, blocks, changes>>

\* The messages are recorded and published, whatever was reset since the check.
RecordMessages ==
    /\ task.at = "record"
    /\ history' = IF out = {} THEN history
                  ELSE history \cup {[from |-> out, asked |-> asked, saved |-> FALSE]}
    /\ out' = {}
    /\ IF kind.slot = "decode"
       THEN taken' = {} /\ task' = [task EXCEPT !.at = "absorb", !.slot = block.slot]
       ELSE taken' = taken /\ task' = [task EXCEPT !.at = "select"]
    /\ UNCHANGED <<kind, state, unseen, pcm, block, asked, clearing, slot, blocks, changes>>

\* WSPR looks once more before it collects the block.
Absorb ==
    LET late == state.resets # task.last IN
    /\ task.at = "absorb"
    /\ task' = [task EXCEPT !.at = "select", !.last = state.resets]
    /\ taken' = IF late THEN {} ELSE taken \cup {block}
    /\ pcm' = IF late THEN <<>> ELSE pcm
    /\ UNCHANGED <<kind, state, unseen, block, asked, out, history, clearing, slot, blocks,
                   changes>>

\* LRPT closes an image when nothing more has come for a while.
Silence ==
    /\ Awake /\ kind.off = "record" /\ taken # {}
    /\ MaySave(FALSE) /\ taken' = {}
    /\ UNCHANGED <<kind, state, unseen, pcm, task, block, asked, out, clearing, slot, blocks,
                   changes>>

DecoderNext ==
    \/ ModeChanges \/ StateChanges \/ ClearHistory \/ PublishReset \/ Capture \/ SlotPasses
    \/ SeeIdle \/ SeeChange \/ SeeReset \/ SeeOff \/ Decode \/ Check \/ RecordMessages \/ Absorb
    \/ Silence

DecoderSpec == DecoderInit /\ [][DecoderNext]_decoderVars

-----------------------------------------------------------------------------
(* Properties.                                                              *)

\* No message mixes the audio of two runs of a decoder that it knows to be two, or
\* of two slots, whichever way the first one ended. WEFAX is excepted: the branch
\* that learns from the state that its mode is gone keeps the image in progress.
OneRunOneSlot ==
    kind # Wefax => \A e \in history : \A b, c \in e.from : b.run = c.run /\ b.slot = c.slot

\* Once a task has looked at the reset counter and found nothing new, what it records
\* was captured after the last reset: only what it had looked at before the reset
\* can come into the cleared history, and images that a reset saves on purpose. AIS
\* and VDES know no reset, and LRPT does not drop the blocks that wait.
ResetForgets ==
    kind.again => \A e \in history : ~e.saved => \A b \in e.from : b.resets >= e.asked

\* What holds of a task at every moment: its types, and unmixed runs and slots.
TaskInv ==
    /\ DecoderTypeOK /\ OneRunOneSlot /\ ResetForgets

=============================================================================

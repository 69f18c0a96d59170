-------------------------- MODULE BackgroundDecode --------------------------
(* The background decoder of the http frontend (background_decode.rs): one  *)
(* task that compares, round after round, the bookmarks picked for the      *)
(* active rig with the hidden channels it has asked the audio servers for. *)
(*                                                                          *)
(* A round borrows the last frame of the spectrum, looks up the active rig, *)
(* waits for the store and then decides and sends without another await.    *)
(* Two bookmarks differ in their frequency only.                            *)
EXTENDS Integers, FiniteSets, Functions

CONSTANTS Rigs,       \* the rigs of the client
          Marks,      \* identifiers of bookmarks with a decoder
          Dials,      \* frequencies of bookmarks and centers of the spectrum
          HalfWidth,  \* half of the bandwidth of a frame
          NoRig,      \* no rig is active
          NoFrame,    \* no frame of the spectrum
          MaxEdits    \* bound: what others change

ASSUME BackgroundAssumption ==
    /\ IsFiniteSet(Marks)
    /\ Dials \subseteq Int /\ HalfWidth \in Nat /\ MaxEdits \in Nat
    /\ NoRig \notin Rigs /\ NoFrame \notin Dials

VARIABLES
    pickedMarks, \* the store: [enabled, marks] per rig
    dial,      \* frequency of each bookmark, 0 when it is deleted
    viewers,   \* somebody has an event stream open
    released,  \* the scheduler may act while somebody is there
    covered,   \* bookmarks of each rig that a channel of a client works on
    activeRig, \* the active rig
    spectrum,  \* the last frame: its center
    round,     \* the round under way: [at, frame, rig]
    runtime,   \* [rig, channels]: what the task believes it has asked for
    requested, \* channels each audio server was asked for
    dropped,   \* history: channels with a command that was dropped
    shown,     \* status map: [known, active, on] per rig
    stirred,   \* history: something has changed since the round began
    uids, edits  \* bounded counters

backgroundVars == <<pickedMarks, dial, viewers, released, covered, activeRig, spectrum, round, runtime,
                    requested, dropped, shown, stirred, uids, edits>>
outside == <<pickedMarks, dial, viewers, released, covered, activeRig, spectrum>>

\* A change is seen by the round under way and by the next one, and then no more.
MaxUids == Cardinality(Marks) * (2 * MaxEdits + 1)
Channel == [uid : 1..MaxUids, rig : Rigs, mark : Marks, freq : Dials]
Frames == Dials \cup {NoFrame}

BackgroundTypeOK ==
    /\ pickedMarks \in [Rigs -> [enabled : BOOLEAN, marks : SUBSET Marks]]
    /\ dial \in [Marks -> Dials \cup {0}]
    /\ {viewers, released, stirred} \subseteq BOOLEAN 
    /\ covered \in [Rigs -> SUBSET Marks]
    /\ activeRig \in Rigs \cup {NoRig} /\ spectrum \in Frames
    /\ round \in [at : {"wake", "look", "decide"}, frame : Frames, rig : Rigs \cup {NoRig}]
    /\ runtime.rig \in Rigs \cup {NoRig} /\ runtime.channels \subseteq Channel
    /\ requested \in [Rigs -> SUBSET Channel] /\ dropped \subseteq 1..MaxUids
    /\ \A r \in Rigs : shown[r].active \in BOOLEAN /\ shown[r].on \subseteq Marks
    /\ uids \in 0..MaxUids /\ edits \in 0..MaxEdits

BackgroundInit ==
    /\ pickedMarks = [r \in Rigs |-> [enabled |-> FALSE, marks |-> {}]]
    /\ dial \in [Marks -> Dials]
    /\ viewers = FALSE /\ released = FALSE /\ covered = [r \in Rigs |-> {}]
    /\ activeRig = NoRig
    /\ spectrum = NoFrame
    /\ round = [at |-> "wake", frame |-> NoFrame, rig |-> NoRig]
    /\ runtime = [rig |-> NoRig, channels |-> {}]
    /\ requested = [r \in Rigs |-> {}] /\ dropped = {}
    /\ shown = [r \in Rigs |-> [active |-> FALSE, on |-> {}]]
    /\ stirred = TRUE /\ uids = 0 /\ edits = 0

-----------------------------------------------------------------------------
(* What others do.                                                          *)

Stirs ==
    /\ edits < MaxEdits /\ edits' = edits + 1 /\ stirred' = TRUE
    /\ UNCHANGED <<round, runtime, requested, dropped, shown, uids>>

\* put_config, reset_config
Pick(r) ==
    /\ Stirs
    /\ \E enabled \in BOOLEAN, marks \in SUBSET Marks :
          pickedMarks' = [pickedMarks EXCEPT ![r] = [enabled |-> enabled, marks |-> marks]]
    /\ UNCHANGED <<dial, viewers, released, covered, activeRig, spectrum>>

\* A bookmark is moved or deleted.
Edit(m) ==
    /\ Stirs /\ \E f \in Dials \cup {0} : dial' = [dial EXCEPT ![m] = f]
    /\ UNCHANGED <<pickedMarks, viewers, released, covered, activeRig, spectrum>>

ViewerComesOrGoes ==
    /\ Stirs /\ viewers' = ~viewers
    /\ UNCHANGED <<pickedMarks, dial, released, covered, activeRig, spectrum>>

ReleaseChanges ==
    /\ Stirs /\ released' = ~released
    /\ UNCHANGED <<pickedMarks, dial, viewers, covered, activeRig, spectrum>>

\* A page works on the frequency of a bookmark, or no longer does.
Cover(r, m) ==
    /\ Stirs
    /\ covered' = [covered EXCEPT ![r] = IF m \in @ THEN @ \ {m} ELSE @ \cup {m}]
    /\ UNCHANGED <<pickedMarks, dial, viewers, released, activeRig, spectrum>>

ActivateRig(r) ==
    /\ Stirs /\ activeRig # r /\ activeRig' = r
    /\ UNCHANGED <<pickedMarks, dial, viewers, released, covered, spectrum>>

\* The poller of the spectrum publishes a frame, whichever rig it came from.
FrameComes(f) ==
    /\ Stirs /\ spectrum # f /\ spectrum' = f
    /\ UNCHANGED <<pickedMarks, dial, viewers, released, covered, activeRig>>

-----------------------------------------------------------------------------
(* The task.                                                                *)

\* It wakes up with the last frame, if anybody is there to have it polled.
Wakes ==
    /\ round.at = "wake"
    /\ round' = [at |-> "look", frame |-> IF viewers THEN spectrum ELSE NoFrame, rig |-> NoRig]
    /\ stirred' = FALSE
    /\ UNCHANGED <<outside, runtime, requested, dropped, shown, uids, edits>>

\* Commands for the audio servers; one that finds the queue full is dropped.
Told(gone, new) ==
    \E lost \in SUBSET (gone \cup new) :
        /\ requested' = [r \in Rigs |-> (requested[r] \ (gone \ lost)) \cup {c \in new \ lost : c.rig = r}]
        /\ dropped' = dropped \cup {c.uid : c \in lost}

\* Mutant: the channels of the rig before are forgotten and not removed.
LookUp_Forget ==
    LET moves == runtime.rig # activeRig IN
    /\ round.at = "look"
    /\ shown' = IF moves /\ runtime.rig # NoRig
                THEN [shown EXCEPT ![runtime.rig].active = FALSE] ELSE shown
    /\ runtime' = [rig |-> activeRig, channels |-> IF moves THEN {} ELSE runtime.channels]
    /\ round' = [round EXCEPT !.at = IF activeRig = NoRig THEN "wake" ELSE "decide", !.rig = activeRig]
    /\ UNCHANGED <<outside, requested, dropped, stirred, uids, edits>>

\* reconcile: when the active rig is another one, the channels of the rig before go.
LookUp ==
    LET moves == runtime.rig # activeRig
        gone == IF moves THEN runtime.channels ELSE {} IN
    /\ round.at = "look"
    /\ shown' = IF moves /\ runtime.rig # NoRig
                THEN [shown EXCEPT ![runtime.rig].active = FALSE] ELSE shown
    /\ Told(gone, {})
    /\ runtime' = [rig |-> activeRig, channels |-> runtime.channels \ gone]
    /\ round' = [round EXCEPT !.at = IF activeRig = NoRig THEN "wake" ELSE "decide", !.rig = activeRig]
    /\ UNCHANGED <<outside, stirred, uids, edits>>

\* evaluate_bookmark: the bookmarks of rig r that ask for a channel.
Distance(f, g) == IF f > g THEN f - g ELSE g - f
Wanted(r, frame) ==
    {m \in pickedMarks[r].marks :
        /\ dial[m] # 0
        /\ pickedMarks[r].enabled /\ viewers /\ ~released
        /\ m \notin covered[r]
        /\ frame # NoFrame /\ Distance(dial[m], frame) <= HalfWidth}

\* The rest of reconcile: what no longer fits goes, what is missing is asked for.
Decide ==
    LET wanted == Wanted(round.rig, round.frame)
        fits == {c \in runtime.channels : c.mark \in wanted /\ c.freq = dial[c.mark]}
        gone == runtime.channels \ fits
        missing == wanted \ {c.mark : c \in fits}
        number == CHOOSE n \in [missing -> uids + 1..uids + Cardinality(missing)] : IsInjective(n)
        new == {[uid |-> number[m], rig |-> round.rig, mark |-> m, freq |-> dial[m]] :
                  m \in missing} IN
    /\ round.at = "decide"
    /\ Told(gone, new)
    /\ runtime' = [runtime EXCEPT !.channels = fits \cup new]
    /\ uids' = uids + Cardinality(missing)
    /\ shown' = [shown EXCEPT ![round.rig] = [active |-> TRUE, on |-> wanted]]
    /\ round' = [round EXCEPT !.at = "wake"]
    /\ UNCHANGED <<outside, stirred, edits>>

BackgroundNext ==
    \/ \E r \in Rigs : Pick(r)
    \/ \E m \in Marks : Edit(m) \/ \E r \in Rigs : Cover(r, m)
    \/ ViewerComesOrGoes \/ ReleaseChanges
    \/ \E r \in Rigs \cup {NoRig} : ActivateRig(r)
    \/ \E f \in Frames : FrameComes(f)
    \/ Wakes \/ LookUp \/ Decide

BackgroundSpec == BackgroundInit /\ [][BackgroundNext]_backgroundVars

-----------------------------------------------------------------------------
(* Properties.                                                              *)

\* After a round in which nothing else has changed, the audio servers were asked for
\* the channels that are wanted on the active rig and for no others, but for
\* commands that a full queue has dropped, and only that rig is shown as the active
\* one, with just those bookmarks on.
BackgroundAsWanted ==
    (round.at = "wake" /\ ~stirred) =>
        \A r \in Rigs :
            LET kept == {c \in requested[r] : c.uid \notin dropped}
                wanted == IF r = activeRig THEN Wanted(r, IF viewers THEN spectrum ELSE NoFrame)
                          ELSE {} IN
            /\ \A c \in kept : c.mark \in wanted /\ c.freq = dial[c.mark]
            /\ \A m \in wanted : \/ \E c \in kept : c.mark = m
                                 \/ \E c \in runtime.channels : c.mark = m /\ c.uid \in dropped
            /\ \A c, d \in kept : c.mark = d.mark => c = d
            /\ shown[r].active = (r = activeRig)
            /\ r = activeRig => shown[r].on = wanted

\* What holds of the background decoder at every moment: types, and rounds that settle.
BackgroundInv == BackgroundTypeOK /\ BackgroundAsWanted
=============================================================================

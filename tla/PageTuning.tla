----------------------------- MODULE PageTuning ------------------------------
(* The frequency a page of the web application shows (app.js): it is set    *)
(* before the rig has it, guarded against older states while the request is *)
(* under way, and taken back when the request fails. The states of the rig  *)
(* come over a stream of their own, which may leave out what has changed    *)
(* again, and so do the frames of the spectrum with its centre.             *)
(*                                                                          *)
(* A frequency is a step of the dial, and the span of the spectrum is what  *)
(* lies within HalfView of its centre.                                      *)
EXTENDS Integers, Sequences, SequencesExt

CONSTANTS Dial,         \* frequencies of the rig
          HalfView,     \* how far from the centre the rig can be tuned
          Unset,        \* no frequency
          MaxTunings, MaxFlops   \* bounds

ASSUME PageTuningAssumption ==
    Dial \subseteq Int /\ Unset \notin Int /\ HalfView \in Nat /\ {MaxTunings, MaxFlops} \subseteq Nat

VARIABLES
    freq, center,   \* of the rig
    stream,         \* frequencies on their way to the page, oldest first
    emitted,        \* the last of them
    lastFreqHz,     \* the frequency on display
    lastCenter,     \* that of the last spectrum frame
    _freqOptimisticHz, _freqOptimisticSeq,
    spectrumCenterPendingHz,
    prevFreqHz,     \* prevRenderData: the last frequency of the stream
    tuneRequests,   \* under way: [seq, hz, prev, at], at: "sent", "ok", "failed"
    shifts,         \* shifts of the centre that wait for an answer: [n, center, at, hz]
    unsure,         \* history: the last state was skipped, written over by what was local, or
                    \* left out by the stream
    tunings, flops  \* bounded counters

pageTuningVars == <<freq, center, stream, emitted, lastFreqHz, lastCenter, _freqOptimisticHz,
                    _freqOptimisticSeq, spectrumCenterPendingHz, prevFreqHz, tuneRequests, shifts,
                    unsure, tunings, flops>>
rigState == <<freq, center>>
tuningShown == <<lastFreqHz, lastCenter, _freqOptimisticHz, _freqOptimisticSeq,
                 spectrumCenterPendingHz, prevFreqHz>>
shownTuning == <<tuningShown, unsure>>

PageTuningInit ==
    /\ freq \in Dial /\ center = freq /\ stream = <<>> /\ emitted = freq
    /\ lastFreqHz = freq /\ lastCenter = center /\ prevFreqHz = freq
    /\ _freqOptimisticHz = Unset /\ _freqOptimisticSeq = 0 /\ spectrumCenterPendingHz = Unset
    /\ tuneRequests = {} /\ shifts = {} /\ unsure = FALSE /\ tunings = 0 /\ flops = 0

PageTuningTypeOK ==
    /\ {freq, center, emitted, lastFreqHz, prevFreqHz} \cup ToSet(stream) \subseteq Int
    /\ _freqOptimisticHz \in Dial \cup {Unset} /\ _freqOptimisticSeq \in 0..MaxTunings
    /\ \A q \in tuneRequests : q.seq \in 1.._freqOptimisticSeq /\ q.at \in {"sent", "ok", "failed"}
    /\ tunings \in 0..MaxTunings /\ flops \in 0..MaxFlops

Tuning == tunings < MaxTunings /\ tunings' = tunings + 1
Flop == flops < MaxFlops /\ flops' = flops + 1

-----------------------------------------------------------------------------
(* The rig and the stream.                                                  *)

\* The rig is tuned. When it comes back to what the stream told last, no state will tell.
Tuned(f) == freq' = f /\ unsure' = (unsure \/ (f = emitted /\ freq # emitted))

\* Somebody else tunes the rig.
TunedElsewhere(f) ==
    /\ f # freq /\ Flop /\ Tuned(f)
    /\ UNCHANGED <<center, stream, emitted, tuningShown, tuneRequests, shifts, tunings>>

\* The stream takes the state there is; what came in between is left out.
Emit ==
    /\ emitted # freq /\ emitted' = freq /\ stream' = Append(stream, freq)
    /\ UNCHANGED <<rigState, shownTuning, tuneRequests, shifts, tunings, flops>>

\* A spectrum frame.
Frame ==
    /\ lastCenter # center /\ lastCenter' = center
    /\ spectrumCenterPendingHz' = IF spectrumCenterPendingHz = center THEN Unset
                                  ELSE spectrumCenterPendingHz
    /\ UNCHANGED <<rigState, stream, emitted, lastFreqHz, _freqOptimisticHz, _freqOptimisticSeq,
                   prevFreqHz, unsure, tuneRequests, shifts, tunings, flops>>

\* render: a state other than the last. While a request is under way any frequency but its
\* own is skipped, and its own ends the guard.
Render ==
    /\ stream # <<>> /\ stream' = Tail(stream)
    /\ LET hz == Head(stream) IN
       /\ prevFreqHz' = hz
       /\ IF hz = prevFreqHz THEN UNCHANGED <<lastFreqHz, _freqOptimisticHz, unsure>>
          ELSE IF _freqOptimisticHz \notin {Unset, hz}
               THEN unsure' = TRUE /\ UNCHANGED <<lastFreqHz, _freqOptimisticHz>>
               ELSE lastFreqHz' = hz /\ _freqOptimisticHz' = Unset /\ unsure' = FALSE
    /\ UNCHANGED <<rigState, emitted, lastCenter, _freqOptimisticSeq, spectrumCenterPendingHz,
                   tuneRequests, shifts, tunings, flops>>

-----------------------------------------------------------------------------
(* Tuning.                                                                  *)

\* setRigFrequency: the display first, then the request.
SetRigFrequency(hz) ==
    /\ Tuning /\ hz \in Dial
    /\ _freqOptimisticSeq' = _freqOptimisticSeq + 1 /\ _freqOptimisticHz' = hz
    /\ tuneRequests' = tuneRequests \cup {[seq |-> _freqOptimisticSeq + 1, hz |-> hz, prev |-> lastFreqHz,
                                   at |-> "sent"]}
    /\ lastFreqHz' = hz
    /\ UNCHANGED <<rigState, stream, emitted, lastCenter, spectrumCenterPendingHz, prevFreqHz,
                   unsure, shifts, flops>>

\* The rig takes it, perhaps after a later one. The request may fail all the same: its answer
\* is lost, or the centre that goes with it is refused.
Reaches(q) ==
    /\ q.at = "sent" /\ Tuned(q.hz)
    /\ \/ tuneRequests' = (tuneRequests \ {q}) \cup {[q EXCEPT !.at = "ok"]} /\ UNCHANGED flops
       \/ tuneRequests' = (tuneRequests \ {q}) \cup {[q EXCEPT !.at = "failed"]} /\ Flop
    /\ UNCHANGED <<center, stream, emitted, tuningShown, shifts, tunings>>

Refused(q) ==
    /\ q.at = "sent" /\ Flop
    /\ tuneRequests' = (tuneRequests \ {q}) \cup {[q EXCEPT !.at = "failed"]}
    /\ UNCHANGED <<rigState, stream, emitted, shownTuning, shifts, tunings>>

Newest(q) == q.seq = _freqOptimisticSeq

\* Mutant: the guard stays when the answer comes.
Succeeds_Guarded(q) ==
    /\ q.at = "ok" /\ tuneRequests' = tuneRequests \ {q}
    /\ UNCHANGED <<rigState, stream, emitted, shownTuning, shifts, tunings, flops>>

\* finally: the newest request ends the guard.
Succeeds(q) ==
    /\ q.at = "ok" /\ tuneRequests' = tuneRequests \ {q}
    /\ _freqOptimisticHz' = IF Newest(q) THEN Unset ELSE _freqOptimisticHz
    /\ UNCHANGED <<rigState, stream, emitted, lastFreqHz, lastCenter, _freqOptimisticSeq,
                   spectrumCenterPendingHz, prevFreqHz, unsure, shifts, tunings, flops>>

\* catch: the newest request puts back what was shown before it.
Fails(q) ==
    /\ q.at = "failed" /\ tuneRequests' = tuneRequests \ {q}
    /\ IF Newest(q) THEN _freqOptimisticHz' = Unset /\ lastFreqHz' = q.prev /\ unsure' = TRUE
       ELSE UNCHANGED <<_freqOptimisticHz, lastFreqHz, unsure>>
    /\ UNCHANGED <<rigState, stream, emitted, lastCenter, _freqOptimisticSeq,
                   spectrumCenterPendingHz, prevFreqHz, shifts, tunings, flops>>

-----------------------------------------------------------------------------
(* The centre.                                                              *)

\* tunedFrequencyForCenterCoverage.
Covered(c, hz) == IF hz < c - HalfView THEN c - HalfView ELSE IF hz > c + HalfView THEN c + HalfView ELSE hz

\* shiftSpectrumCenter: clicks add up before the rig has followed.
ShiftSpectrumCenter(d) ==
    LET next == (IF spectrumCenterPendingHz = Unset THEN lastCenter ELSE spectrumCenterPendingHz) + d IN
    /\ Tuning /\ spectrumCenterPendingHz' = next
    /\ shifts' = shifts \cup {[n |-> tunings, center |-> next, at |-> "center", hz |-> Unset]}
    /\ UNCHANGED <<rigState, stream, emitted, lastFreqHz, lastCenter, _freqOptimisticHz,
                   _freqOptimisticSeq, prevFreqHz, unsure, tuneRequests, flops>>

\* The rig has moved; a dial outside of the new span follows.
CenterMoves(s) ==
    /\ s.at = "center" /\ center' = s.center
    /\ shifts' = (shifts \ {s}) \cup
                 (IF Covered(s.center, lastFreqHz) = lastFreqHz THEN {}
                  ELSE {[s EXCEPT !.at = "freq", !.hz = Covered(s.center, lastFreqHz)]})
    /\ UNCHANGED <<freq, stream, emitted, shownTuning, tuneRequests, tunings, flops>>

\* The request fails: nothing is put back.
ShiftFails(s) ==
    /\ s.at # "done" /\ Flop /\ shifts' = shifts \ {s}
    /\ UNCHANGED <<rigState, stream, emitted, shownTuning, tuneRequests, tunings>>

DialFollows(s) ==
    /\ s.at = "freq" /\ Tuned(s.hz) /\ shifts' = (shifts \ {s}) \cup {[s EXCEPT !.at = "done"]}
    /\ UNCHANGED <<center, stream, emitted, tuningShown, tuneRequests, tunings, flops>>

\* Only after the answer does the display, whatever the stream has brought meanwhile.
DialShown(s) ==
    /\ s.at = "done" /\ shifts' = shifts \ {s}
    /\ lastFreqHz' = s.hz /\ unsure' = (unsure \/ prevFreqHz # s.hz)
    /\ UNCHANGED <<rigState, stream, emitted, lastCenter, _freqOptimisticHz, _freqOptimisticSeq,
                   spectrumCenterPendingHz, prevFreqHz, tuneRequests, tunings, flops>>

PageTuningNext ==
    \/ Emit \/ Frame \/ Render
    \/ \E f \in Dial : TunedElsewhere(f) \/ SetRigFrequency(f)
    \/ \E q \in tuneRequests : Reaches(q) \/ Refused(q) \/ Succeeds(q) \/ Fails(q)
    \/ \E d \in {-1, 1} : ShiftSpectrumCenter(d)
    \/ \E s \in shifts : CenterMoves(s) \/ ShiftFails(s) \/ DialFollows(s) \/ DialShown(s)

PageTuningSpec == PageTuningInit /\ [][PageTuningNext]_pageTuningVars
-----------------------------------------------------------------------------
\* Once everything has arrived the page shows the frequency of the rig, in whatever order
\* requests, answers and states came, unless the last it did was to skip a state under its
\* guard, to put an older frequency back, or to show its own after a newer state.
ShownIsTuned ==
    tuneRequests = {} /\ shifts = {} /\ stream = <<>> /\ emitted = freq /\ ~unsure =>
        lastFreqHz = freq

\* The guard never outlives its request: later states are shown.
GuardEnds == _freqOptimisticHz # Unset => \E q \in tuneRequests : Newest(q)

PageTuningInv == PageTuningTypeOK /\ ShownIsTuned /\ GuardEnds
=============================================================================

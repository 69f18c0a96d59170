------------------------------ MODULE SoundCard ------------------------------
(* The two threads between a sound card and a rig's streams (trx-server,    *)
(* audio.rs): capture cuts the samples of the input into frames, playback   *)
(* plays the packets of a transmission. Both open the device again after an *)
(* error, both rest while nobody needs them, and the callbacks of the card  *)
(* run beside them.                                                         *)
(*                                                                          *)
(* Samples and packets are numbered as they come; a number that is never    *)
(* delivered stands for the time in which the input rests. A packet is one  *)
(* unit of the output ring. Opus is left out.                                  *)
EXTENDS Integers, Sequences, FiniteSets, SequencesExt

CONSTANTS FrameSamples, \* samples of a frame
          InputRoom,    \* chunks between the callback and the thread
          PacketRoom,   \* packets of the transmit queue
          MaxSamples, MaxPackets, MaxCardFaults   \* bounds

ASSUME CardAssumption ==
    /\ {FrameSamples, InputRoom, PacketRoom} \subseteq Nat \ {0}
    /\ {MaxSamples, MaxPackets, MaxCardFaults} \subseteq Nat

VARIABLES
    in,         \* capture: [at, failed, capturing, late], the thread and its stream
    listeners,  \* whether anybody receives packets or samples
    chunk,      \* the channel from the callback
    pcm_buf,    \* samples that do not fill a frame yet
    heard,      \* the last sample
    frame,      \* the last frame published
    missed,     \* history: samples a full channel dropped, and rests hidden by a late callback
    output,     \* playback: [at, failed, playing, closed]
    packets,    \* the transmit queue
    ring,       \* decoded packets the output callback has not played
    offered,    \* the last packet a client sent
    played,     \* the last packet that was played
    stale,      \* history: packets up to this one may not be played any more
    shutdown,
    cardFaults  \* bounded counter

captureVars == <<in, listeners, chunk, pcm_buf, heard, frame, missed>>
playbackVars == <<output, packets, ring, offered, played, stale>>
cardVars == <<captureVars, playbackVars, shutdown, cardFaults>>

\* The threads share nothing but the shutdown: one of them at a time.
CardInit ==
    /\ \E first, second \in {"find", "done"} :
        /\ {first, second} = {"find", "done"}
        /\ in = [at |-> first, failed |-> FALSE, capturing |-> FALSE, late |-> FALSE]
        /\ output = [at |-> second, failed |-> FALSE, playing |-> FALSE, closed |-> FALSE]
    /\ listeners \in BOOLEAN
    /\ chunk = <<>> /\ pcm_buf = <<>> /\ heard = 0 /\ frame = <<>> /\ missed = {}
    /\ packets = <<>> /\ ring = <<>> /\ offered = 0 /\ played = 0 /\ stale = 0
    /\ shutdown = FALSE /\ cardFaults = 0

CardTypeOK ==
    /\ in.at \in {"find", "run", "recover", "done"} /\ {in.failed, in.capturing, in.late} \subseteq BOOLEAN
    /\ output.at \in {"find", "run", "idle", "recover", "done"}
    /\ {output.failed, output.playing, output.closed} \subseteq BOOLEAN
    /\ Len(chunk) <= InputRoom /\ Len(packets) <= PacketRoom
    /\ heard \in 0..MaxSamples /\ offered \in 0..MaxPackets /\ cardFaults \in 0..MaxCardFaults

-----------------------------------------------------------------------------
(* Capture.                                                                 *)

Fault == cardFaults < MaxCardFaults /\ cardFaults' = cardFaults + 1

\* The input callback: try_send. After a pause one callback may still be on its way.
Sampled ==
    /\ in.at = "run" /\ (in.capturing \/ in.late) /\ heard < MaxSamples
    /\ heard' = heard + 1
    /\ in' = [in EXCEPT !.late = FALSE]
    /\ IF Len(chunk) < InputRoom
       THEN /\ chunk' = Append(chunk, heard + 1)
            /\ missed' = IF in.capturing THEN missed ELSE missed \cup {heard + 2}
       ELSE chunk' = chunk /\ missed' = missed \cup {heard + 1}
    /\ UNCHANGED <<listeners, pcm_buf, frame, playbackVars, shutdown, cardFaults>>

\* find_device and build_input_stream; the channel of a new stream is empty.
OpenInput ==
    /\ in.at = "find" /\ ~shutdown
    /\ in' = [in EXCEPT !.at = "run", !.failed = FALSE, !.late = FALSE] /\ chunk' = <<>>
    /\ UNCHANGED <<listeners, pcm_buf, heard, frame, missed, playbackVars, shutdown, cardFaults>>

\* The error callback.
InputFails ==
    /\ in.at = "run" /\ ~in.failed /\ Fault
    /\ in' = [in EXCEPT !.failed = TRUE]
    /\ UNCHANGED <<listeners, chunk, pcm_buf, heard, frame, missed, playbackVars, shutdown>>

InputBreaks ==
    /\ in.at = "run" /\ in.failed /\ ~shutdown
    /\ in' = [in EXCEPT !.at = "recover"]
    /\ UNCHANGED <<listeners, chunk, pcm_buf, heard, frame, missed, playbackVars, shutdown, cardFaults>>

\* The rest is a sample that never comes.
InputRecovers ==
    /\ in.at = "recover"
    /\ in' = [in EXCEPT !.at = "find", !.capturing = FALSE]
    /\ pcm_buf' = IF in.capturing THEN <<>> ELSE pcm_buf
    /\ heard' = IF heard < MaxSamples THEN heard + 1 ELSE heard
    /\ UNCHANGED <<listeners, chunk, frame, missed, playbackVars, shutdown, cardFaults>>

InputTurns == in.at = "run" /\ ~in.failed /\ ~shutdown

\* The stream plays while somebody listens.
CaptureStarts ==
    /\ InputTurns /\ listeners /\ ~in.capturing
    /\ in' = [in EXCEPT !.capturing = TRUE, !.late = FALSE]
    /\ heard' = IF heard < MaxSamples THEN heard + 1 ELSE heard
    /\ UNCHANGED <<listeners, chunk, pcm_buf, frame, missed, playbackVars, shutdown, cardFaults>>

\* Mutant: what the callback has sent before the pause is left in the channel.
CapturePauses_Keeps ==
    /\ InputTurns /\ ~listeners /\ in.capturing
    /\ in' = [in EXCEPT !.capturing = FALSE, !.late = TRUE]
    /\ pcm_buf' = <<>>
    /\ UNCHANGED <<listeners, chunk, heard, frame, missed, playbackVars, shutdown, cardFaults>>

CapturePauses ==
    /\ InputTurns /\ ~listeners /\ in.capturing
    /\ in' = [in EXCEPT !.capturing = FALSE, !.late = TRUE]
    /\ pcm_buf' = <<>> /\ chunk' = <<>>
    /\ UNCHANGED <<listeners, heard, frame, missed, playbackVars, shutdown, cardFaults>>

\* A whole frame is published as soon as there is one.
CaptureTakes ==
    /\ InputTurns /\ in.capturing /\ listeners /\ chunk # <<>>
    /\ chunk' = Tail(chunk)
    /\ LET filled == Append(pcm_buf, Head(chunk)) IN
       IF Len(filled) >= FrameSamples
       THEN frame' = SubSeq(filled, 1, FrameSamples)
            /\ pcm_buf' = SubSeq(filled, FrameSamples + 1, Len(filled))
       ELSE frame' = frame /\ pcm_buf' = filled
    /\ UNCHANGED <<in, listeners, heard, missed, playbackVars, shutdown, cardFaults>>

ListenersChange ==
    /\ in.at # "done" /\ listeners' = ~listeners
    /\ UNCHANGED <<in, chunk, pcm_buf, heard, frame, missed, playbackVars, shutdown, cardFaults>>

InputStops ==
    /\ shutdown /\ in.at \in {"find", "run"} /\ in' = [in EXCEPT !.at = "done"]
    /\ UNCHANGED <<listeners, chunk, pcm_buf, heard, frame, missed, playbackVars, shutdown, cardFaults>>

-----------------------------------------------------------------------------
(* Playback.                                                                *)

\* A client's packet on the queue of the rig.
Offer ==
    /\ output.at # "done" /\ ~output.closed /\ offered < MaxPackets /\ Len(packets) < PacketRoom
    /\ offered' = offered + 1 /\ packets' = Append(packets, offered + 1)
    /\ UNCHANGED <<captureVars, output, ring, played, stale, shutdown, cardFaults>>

\* The audio listener of the rig has ended.
QueueCloses ==
    /\ output.at # "done" /\ ~output.closed /\ output' = [output EXCEPT !.closed = TRUE]
    /\ UNCHANGED <<captureVars, packets, ring, offered, played, stale, shutdown, cardFaults>>

\* The output callback, as long as the stream plays.
Plays ==
    /\ output.at \in {"run", "idle"} /\ output.playing /\ ring # <<>>
    /\ played' = Head(ring) /\ ring' = Tail(ring)
    /\ UNCHANGED <<captureVars, output, packets, offered, stale, shutdown, cardFaults>>

OpenOutput ==
    /\ output.at = "find" /\ ~shutdown
    /\ output' = [output EXCEPT !.at = "run", !.failed = FALSE]
    /\ UNCHANGED <<captureVars, packets, ring, offered, played, stale, shutdown, cardFaults>>

OutputFails ==
    /\ output.at \in {"run", "idle"} /\ ~output.failed /\ Fault
    /\ output' = [output EXCEPT !.failed = TRUE]
    /\ UNCHANGED <<captureVars, packets, ring, offered, played, stale, shutdown>>

OutputBreaks ==
    /\ output.at = "run" /\ output.failed /\ ~shutdown
    /\ output' = [output EXCEPT !.at = "recover"]
    /\ UNCHANGED <<captureVars, packets, ring, offered, played, stale, shutdown, cardFaults>>

\* What was decoded and not played is forgotten.
OutputRecovers ==
    /\ output.at = "recover"
    /\ ring' = <<>> /\ stale' = IF ring = <<>> THEN stale ELSE Last(ring)
    /\ output' = [output EXCEPT !.playing = FALSE, !.at = IF output.closed THEN "done" ELSE "find"]
    /\ UNCHANGED <<captureVars, packets, offered, played, shutdown, cardFaults>>

OutputTurns == output.at = "run" /\ ~output.failed /\ ~shutdown

\* The packet has been taken when the stream does not start.
PlayFails ==
    /\ OutputTurns /\ packets # <<>> /\ ~output.playing /\ Fault
    /\ packets' = Tail(packets) /\ output' = [output EXCEPT !.at = "recover"]
    /\ UNCHANGED <<captureVars, ring, offered, played, stale, shutdown>>

PlaybackTakes ==
    /\ OutputTurns /\ packets # <<>>
    /\ packets' = Tail(packets) /\ ring' = Append(ring, Head(packets))
    /\ output' = [output EXCEPT !.playing = TRUE, !.at = IF Tail(packets) = <<>> THEN "idle" ELSE "run"]
    /\ UNCHANGED <<captureVars, offered, played, stale, shutdown, cardFaults>>

\* Two frames after the queue was empty: if it still is, the output rests and forgets.
IdleEnds ==
    /\ output.at = "idle"
    /\ IF packets # <<>> THEN output' = [output EXCEPT !.at = "run"] /\ UNCHANGED <<ring, stale>>
       ELSE /\ output' = [output EXCEPT !.playing = FALSE, !.at = IF output.closed THEN "done" ELSE "run"]
            /\ ring' = <<>> /\ stale' = IF ring = <<>> THEN stale ELSE Last(ring)
    /\ UNCHANGED <<captureVars, packets, offered, played, shutdown, cardFaults>>

\* Disconnected, or Empty after it: the thread ends unless the stream plays.
PlaybackEnds ==
    /\ OutputTurns /\ packets = <<>> /\ output.closed /\ ~output.playing
    /\ output' = [output EXCEPT !.at = "done"]
    /\ UNCHANGED <<captureVars, packets, ring, offered, played, stale, shutdown, cardFaults>>

OutputStops ==
    /\ shutdown /\ output.at \in {"find", "run"} /\ output' = [output EXCEPT !.at = "done"]
    /\ UNCHANGED <<captureVars, packets, ring, offered, played, stale, shutdown, cardFaults>>

ShutDown ==
    /\ ~shutdown /\ shutdown' = TRUE
    /\ UNCHANGED <<captureVars, playbackVars, cardFaults>>

CardNext ==
    \/ Sampled \/ OpenInput \/ InputFails \/ InputBreaks \/ InputRecovers
    \/ CaptureStarts \/ CapturePauses \/ CaptureTakes \/ ListenersChange \/ InputStops
    \/ Offer \/ QueueCloses \/ Plays \/ OpenOutput \/ OutputFails \/ OutputBreaks
    \/ OutputRecovers \/ PlayFails \/ PlaybackTakes \/ IdleEnds \/ PlaybackEnds \/ OutputStops
    \/ ShutDown

CardSpec == CardInit /\ [][CardNext]_cardVars
-----------------------------------------------------------------------------
\* A frame never joins what was heard before a rest or a failure with what is heard after
\* it: between two of its samples nothing lies but what a full channel dropped, or a rest
\* that a callback overran.
FramesAreOfOnePiece ==
    \A i \in 1..(Len(frame) - 1) : (frame[i] + 1)..(frame[i + 1] - 1) \subseteq missed

\* What was left unplayed at a rest or a failure is not transmitted later.
NothingOldOnAir == \A i \in DOMAIN ring : ring[i] > stale /\ ring[i] > played

\* The thread never looks at an empty queue with its stream playing: once the queue is
\* closed it can end.
PlayingHasPackets == output.at = "run" /\ output.playing => packets # <<>>

CardInv == CardTypeOK /\ FramesAreOfOnePiece /\ NothingOldOnAir /\ PlayingHasPackets
=============================================================================

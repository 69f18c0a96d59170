------------------------------- MODULE Station -------------------------------
(* trx-server's main: rigs are built one after the other, each with a rig   *)
(* task under its supervisor and an audio stack; then the listener starts,  *)
(* and Ctrl-C stops everything. A part ends when a channel it reads is      *)
(* closed, so that the end of one part takes others of its rig with it.     *)
(*                                                                          *)
(* What the tasks do is in RigTask, DecoderTasks, AudioLink, Uplinks and    *)
(* CommandQueue: here a part is only alive or not.                          *)
EXTENDS Integers, Sequences, FiniteSets

CONSTANTS Layouts,      \* configurations: sequences of [id, sdr, rx, tx, psk, aprsfi]
          MaxStationFaults   \* bound: parts that fail by themselves

ASSUME StationAssumption ==
    /\ MaxStationFaults \in Nat
    /\ \A l \in Layouts : Len(l) \in Nat \ {0} /\ DOMAIN l = 1..Len(l)

VARIABLES
    layout,     \* the configuration; audio is enabled when rx or tx is
    callsign,   \* whether there is one
    phase,      \* "building", "running", "stopping" or "exited"
    built,      \* rigs built so far
    rigTask,    \* per rig: "none", "runs", "clean", "crashed", "panicked", "aborted"
    shown,      \* per rig: whether its watch channel shows it as initialized
    handle,     \* per id: the rig behind it, or 0
    alive,      \* per rig: its other parts that run
    server,     \* the JSON listener: "none", "runs", "ended"
    hit,        \* history: rigs in which something failed by itself
    stationFaults   \* bounded counter

stationVars == <<layout, callsign, phase, built, rigTask, shown, handle, alive, server, hit, stationFaults>>

Places == DOMAIN layout
AllIds == UNION {{l[i].id : i \in DOMAIN l} : l \in Layouts}
SdrDecoders == {"iq"}                  \* those of the samples of an SDR: AIS and VDES
AudioDecoders == {"pcm"} \cup SdrDecoders    \* "pcm": the decoders of the audio of the rig
Parts == AudioDecoders \cup {"capture", "pump", "playback", "psk", "aprsfi", "audio"}

StationInit ==
    /\ layout \in Layouts /\ callsign \in BOOLEAN
    /\ phase = "building" /\ built = 0
    /\ rigTask = [i \in Places |-> "none"] /\ shown = [i \in Places |-> FALSE]
    /\ handle = [id \in AllIds |-> 0] /\ alive = [i \in Places |-> {}]
    /\ server = "none" /\ hit = {} /\ stationFaults = 0

StationTypeOK ==
    /\ phase \in {"building", "running", "stopping", "exited"} /\ built \in 0..Len(layout)
    /\ \A i \in Places :
        /\ rigTask[i] \in {"none", "runs", "clean", "crashed", "panicked", "aborted"}
        /\ shown[i] \in BOOLEAN /\ alive[i] \subseteq Parts
    /\ \A id \in AllIds : handle[id] \in 0..built
    /\ server \in {"none", "runs", "ended"} /\ stationFaults \in 0..MaxStationFaults

Stopping == phase = "stopping"
Breaks == stationFaults < MaxStationFaults /\ stationFaults' = stationFaults + 1

-----------------------------------------------------------------------------
(* Building.                                                                *)

\* spawn_rig_audio_stack. An uplink needs a callsign.
Uplinked(r) ==
    IF callsign THEN (IF r.psk THEN {"psk"} ELSE {}) \cup (IF r.aprsfi THEN {"aprsfi"} ELSE {})
    ELSE {}

\* The source of a receiver is the pump of its SDR, that of a transceiver the capture thread.
Source(r) == IF r.sdr THEN "pump" ELSE "capture"
Decoding(r) == {"pcm"} \cup (IF r.sdr THEN SdrDecoders ELSE {})

Stack(r) ==
    IF ~r.rx /\ ~r.tx THEN {}
    ELSE {"audio"} \cup Uplinked(r)
         \cup (IF r.rx THEN {Source(r)} \cup Decoding(r) ELSE {})
         \cup (IF r.tx THEN {"playback"} ELSE {})

\* The next rig. A handle of the same id is replaced.
BuildRig ==
    /\ phase = "building" /\ built < Len(layout) /\ built' = built + 1
    /\ rigTask' = [rigTask EXCEPT ![built + 1] = "runs"]
    /\ alive' = [alive EXCEPT ![built + 1] = Stack(layout[built + 1])]
    /\ handle' = [handle EXCEPT ![layout[built + 1].id] = built + 1]
    /\ UNCHANGED <<layout, callsign, phase, shown, server, hit, stationFaults>>

\* The backend of a receiver is built here: main returns, and with it the process ends.
BuildFails ==
    /\ phase = "building" /\ built < Len(layout) /\ layout[built + 1].sdr /\ Breaks
    /\ phase' = "exited"
    /\ UNCHANGED <<layout, callsign, built, rigTask, shown, handle, alive, server, hit>>

StartListener ==
    /\ phase = "building" /\ built = Len(layout)
    /\ phase' = "running" /\ server' = "runs"
    /\ UNCHANGED <<layout, callsign, built, rigTask, shown, handle, alive, hit, stationFaults>>

\* The port is taken, or accept fails: nobody can connect any more, and all goes on.
ListenerEnds ==
    /\ server = "runs" /\ ((Stopping /\ UNCHANGED stationFaults) \/ (phase = "running" /\ Breaks))
    /\ server' = "ended"
    /\ UNCHANGED <<layout, callsign, phase, built, rigTask, shown, handle, alive, hit>>

-----------------------------------------------------------------------------
(* A rig task and its supervisor.                                           *)

Lives(i) == phase # "exited" /\ rigTask[i] = "runs"
Hit(i) == Breaks /\ hit' = hit \cup {i}

Initializes(i) ==
    /\ Lives(i) /\ ~shown[i] /\ shown' = [shown EXCEPT ![i] = TRUE]
    /\ UNCHANGED <<layout, callsign, phase, built, rigTask, handle, alive, server, hit, stationFaults>>

\* Mutant: the error is only logged.
TaskCrashes_Silent(i) ==
    /\ Lives(i) /\ Hit(i)
    /\ rigTask' = [rigTask EXCEPT ![i] = "crashed"]
    /\ UNCHANGED <<layout, callsign, phase, built, shown, handle, alive, server>>

\* An error of run_rig_task: the supervisor takes the rig down for the clients.
TaskCrashes(i) ==
    /\ Lives(i) /\ Hit(i)
    /\ rigTask' = [rigTask EXCEPT ![i] = "crashed"] /\ shown' = [shown EXCEPT ![i] = FALSE]
    /\ UNCHANGED <<layout, callsign, phase, built, handle, alive, server>>

\* A panic ends the supervisor as well.
TaskPanics(i) ==
    /\ Lives(i) /\ Hit(i)
    /\ rigTask' = [rigTask EXCEPT ![i] = "panicked"]
    /\ UNCHANGED <<layout, callsign, phase, built, shown, handle, alive, server>>

\* The shutdown, or its handle is gone and the request channel with it.
TaskEnds(i) ==
    /\ Lives(i) /\ (Stopping \/ handle[layout[i].id] # i)
    /\ rigTask' = [rigTask EXCEPT ![i] = "clean"]
    /\ UNCHANGED <<layout, callsign, phase, built, shown, handle, alive, server, hit, stationFaults>>

-----------------------------------------------------------------------------
(* The audio stack.                                                         *)

Over(i) == rigTask[i] \notin {"none", "runs"}

\* By itself: the pump without an encoder, a sound card without an encoder or decoder, the
\* audio listener without its port.
PartFails(i, p) ==
    /\ phase # "exited" /\ p \in alive[i] \cap {"pump", "capture", "playback", "audio"}
    /\ Hit(i)
    /\ alive' = [alive EXCEPT ![i] = @ \ {p}]
    /\ UNCHANGED <<layout, callsign, phase, built, rigTask, shown, handle, server>>

\* What closes the channels a part reads: of the pump the SDR, which lives in the rig task;
\* of decoders the watch channel or their samples; of playback the listener and its clients;
\* of the uplinks the decoded messages, and of PSK Reporter also the watch channel.
Starved(i, p) ==
    CASE p = "pump" -> Over(i)
      [] p = "pcm" -> Over(i) \/ alive[i] \cap {"pump", "capture"} = {}
      [] p \in SdrDecoders -> Over(i)
      [] p = "playback" -> "audio" \notin alive[i]
      [] p = "psk" -> Over(i) \/ alive[i] \cap ({"audio"} \cup AudioDecoders) = {}
      [] p = "aprsfi" -> alive[i] \cap ({"audio"} \cup AudioDecoders) = {}
      [] OTHER -> FALSE

PartEnds(i, p) ==
    /\ phase # "exited" /\ p \in alive[i] /\ (Stopping \/ Starved(i, p))
    /\ alive' = [alive EXCEPT ![i] = @ \ {p}]
    /\ UNCHANGED <<layout, callsign, phase, built, rigTask, shown, handle, server, hit, stationFaults>>

-----------------------------------------------------------------------------
\* Ctrl-C is only heard once everything has been built; before, it ends the process.
CtrlC ==
    /\ phase \in {"building", "running"}
    /\ phase' = IF phase = "running" THEN "stopping" ELSE "exited"
    /\ UNCHANGED <<layout, callsign, built, rigTask, shown, handle, alive, server, hit, stationFaults>>

\* After 400 ms what still runs is aborted, and the process ends.
Abort ==
    /\ Stopping /\ phase' = "exited"
    /\ rigTask' = [i \in Places |-> IF rigTask[i] = "runs" THEN "aborted" ELSE rigTask[i]]
    /\ alive' = [i \in Places |-> {}] /\ server' = "ended"
    /\ UNCHANGED <<layout, callsign, built, shown, handle, hit, stationFaults>>

StationNext ==
    \/ BuildRig \/ BuildFails \/ StartListener \/ ListenerEnds \/ CtrlC \/ Abort
    \/ \E i \in Places : Initializes(i) \/ TaskCrashes(i) \/ TaskPanics(i) \/ TaskEnds(i)
    \/ \E i \in Places : \E p \in Parts : PartFails(i, p) \/ PartEnds(i, p)

StationSpec == StationInit /\ [][StationNext]_stationVars
-----------------------------------------------------------------------------
\* Before the shutdown a rig keeps everything it was built with, whatever happens to the
\* others: only a failure of its own, or a later rig of the same id, takes a part of it.
RigsAreApart ==
    phase \in {"building", "running"} =>
        \A i \in 1..built :
            \/ i \in hit \/ handle[layout[i].id] # i
            \/ rigTask[i] = "runs" /\ alive[i] = Stack(layout[i])

\* Clients see that a rig task has ended with an error: it is never shown as initialized.
CrashIsShown == \A i \in Places : rigTask[i] = "crashed" => ~shown[i]

\* An id reaches the last rig built under it: a rig is out of reach only when a later one took
\* its id.
IdsReachRigs ==
    \A i \in 1..built :
        LET h == handle[layout[i].id] IN
        /\ h >= i /\ layout[h].id = layout[i].id
        /\ h # i => \E j \in (i + 1)..built : layout[j].id = layout[i].id

\* The tasks of the server: types, rigs apart, crashes shown, ids that reach rigs.
StationInv == StationTypeOK /\ RigsAreApart /\ CrashIsShown /\ IdsReachRigs
=============================================================================

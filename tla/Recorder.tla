------------------------------ MODULE Recorder ------------------------------
(* The recorder of the http frontend: the routes that start and stop a      *)
(* recording (api/recorder.rs), the manager with one entry per rig or       *)
(* virtual channel, and the task that writes the file (recorder.rs). The    *)
(* rig is told whether it is being recorded with a command of its own.      *)
(*                                                                          *)
(* All recordings are of one rig. A file is named after its key and the     *)
(* second in which it was started.                                          *)
EXTENDS Integers, Sequences, FiniteSets

CONSTANTS Callers,     \* requests that may be under way at once
          Keys,        \* the rig and its virtual channels
          MaxTasks, MaxSeconds, MaxPackets \* bounds: recordings, seconds, packets of one

ASSUME RecorderAssumption == {MaxTasks, MaxSeconds, MaxPackets} \subseteq Nat

VARIABLES
    second,   \* the clock
    call,     \* [at, key, task] of each request
    entries,  \* RecorderManager: the task of each key, 0 when there is none
    tasks,    \* the tasks in order: [at, key, second, stop, packets, faulty], faulty once
              \* a write has failed after the file was there
    files,    \* files: [name, by, pages, ended, mixed], with the whole pages counted
    flag,     \* recorder_enabled of the rig
    missed,   \* history: the last command about the flag failed
    muddled,  \* history: a start and a stop were under way together
    spoiled   \* history: a recording whose file could not be written was stopped

recorderVars == <<second, call, entries, tasks, files, flag, missed, muddled, spoiled>>

TaskIds == 1..Len(tasks)
Idle == [at |-> "idle", task |-> 0]
NameOf(t) == <<tasks[t].key, tasks[t].second>>

RecorderTypeOK ==
    /\ second \in 0..MaxSeconds
    /\ \A c \in Callers :
          /\ call[c].at \in {"idle", "flagOn", "join", "check", "flagOff"}
          /\ call[c].task \in 0..MaxTasks
    /\ entries \in [Keys -> 0..Len(tasks)]
    /\ \A t \in TaskIds :
          /\ tasks[t].at \in {"spawned", "runs", "done", "failed"}
          /\ tasks[t].packets \in 0..MaxPackets
    /\ \A f \in files : f.by \in TaskIds /\ f.pages \in 0..MaxPackets + 2
    /\ {flag, missed, muddled, spoiled} \subseteq BOOLEAN

RecorderInit ==
    /\ second = 0
    /\ call = [c \in Callers |-> Idle]
    /\ entries = [k \in Keys |-> 0]
    /\ tasks = <<>> /\ files = {}
    /\ flag = FALSE /\ missed = FALSE /\ muddled = FALSE /\ spoiled = FALSE

SecondPasses ==
    /\ second < MaxSeconds /\ second' = second + 1
    /\ UNCHANGED <<call, entries, tasks, files, flag, missed, muddled, spoiled>>

Stopping == {"join", "check", "flagOff"}
Moves(c, at, t) ==
    /\ call' = [call EXCEPT ![c] = [at |-> at, task |-> t]]
    /\ muddled' = (muddled \/ \E d \in Callers : call'[d].at = "flagOn" /\ \E e \in Callers : call'[e].at \in Stopping)

-----------------------------------------------------------------------------
(* The routes.                                                              *)

\* recorder_start: refused while the key has an entry, whatever its task does.
StartRecording(c, k) ==
    /\ call[c].at = "idle" /\ entries[k] = 0 /\ Len(tasks) < MaxTasks
    /\ tasks' = Append(tasks, [at |-> "spawned", key |-> k, second |-> second, stop |-> FALSE, packets |-> 0,
                            faulty |-> FALSE])
    /\ entries' = [entries EXCEPT ![k] = Len(tasks) + 1]
    /\ Moves(c, "flagOn", 0)
    /\ UNCHANGED <<second, files, flag, missed, spoiled>>

\* send_command(SetRecorderEnabled), whose result the routes throw away: one that fails, on
\* its way there or back, has set the flag or has not.
SetFlag(b) ==
    \/ flag' = b /\ missed' = FALSE
    \/ flag' \in {b, flag} /\ missed' = TRUE

FlagOn(c) ==
    /\ call[c].at = "flagOn" /\ SetFlag(TRUE) /\ Moves(c, "idle", 0)
    /\ UNCHANGED <<second, entries, tasks, files, spoiled>>

\* recorder_stop takes the entry away, then waits for the task.
StopRecording(c, k) ==
    /\ call[c].at = "idle" /\ entries[k] # 0
    /\ tasks' = [tasks EXCEPT ![entries[k]].stop = TRUE]
    /\ entries' = [entries EXCEPT ![k] = 0]
    /\ Moves(c, "join", entries[k])
    /\ UNCHANGED <<second, files, flag, missed, spoiled>>

\* A recording that has failed is reported as an error, and nothing else is done.
Joined(c) ==
    LET t == call[c].task IN
    /\ call[c].at = "join" /\ tasks[t].at \in {"done", "failed"}
    /\ Moves(c, IF tasks[t].at = "done" THEN "check" ELSE "idle", 0)
    /\ spoiled' = (spoiled \/ tasks[t].at = "failed")
    /\ UNCHANGED <<second, entries, tasks, files, flag, missed>>

\* Mutant: the rig is told without a look at its other recordings.
ChecksOthers_Not(c) ==
    /\ call[c].at = "check"
    /\ Moves(c, "flagOff", 0)
    /\ UNCHANGED <<second, entries, tasks, files, flag, missed, spoiled>>

\* list_active: does the rig have other recordings?
ChecksOthers(c) ==
    /\ call[c].at = "check"
    /\ Moves(c, IF \E k \in Keys : entries[k] # 0 THEN "idle" ELSE "flagOff", 0)
    /\ UNCHANGED <<second, entries, tasks, files, flag, missed, spoiled>>

FlagOff(c) ==
    /\ call[c].at = "flagOff" /\ SetFlag(FALSE) /\ Moves(c, "idle", 0)
    /\ UNCHANGED <<second, entries, tasks, files, spoiled>>

\* recorder_delete does not ask whether the file is being written.
DeleteFile(f) ==
    /\ files' = files \ {f}
    /\ UNCHANGED <<second, call, entries, tasks, flag, missed, muddled, spoiled>>

-----------------------------------------------------------------------------
(* run_recorder.                                                            *)

SetTask(t, at) ==
    /\ tasks' = [tasks EXCEPT ![t].at = at]
    /\ UNCHANGED <<second, call, entries, flag, missed, muddled, spoiled>>

\* A new file of the task, with whole pages: one of the same name is cut to nothing, and
\* whoever still writes to it spoils the new one.
NewFile(t, pages) ==
    {f \in files : f.name # NameOf(t)} \cup
    {[name |-> NameOf(t), by |-> t, pages |-> pages, ended |-> FALSE, mixed |-> FALSE]}

\* OggOpusWriter::create, with its two pages.
CreateFile(t) == tasks[t].at = "spawned" /\ files' = NewFile(t, 2) /\ SetTask(t, "runs")

\* It fails before there is a file, or at one of the pages, none of which is counted then.
CreateFails(t) ==
    /\ tasks[t].at = "spawned" /\ SetTask(t, "failed")
    /\ files' \in {files, NewFile(t, 0)}

Written(t, more, ended) ==
    {IF f.name # NameOf(t) THEN f
     ELSE IF f.by = t THEN [f EXCEPT !.pages = @ + more, !.ended = ended]
     ELSE [f EXCEPT !.mixed = TRUE] : f \in files}

\* A packet that the broadcast has lost is left out: the file is shorter than the time.
PacketWritten(t) ==
    /\ tasks[t].at = "runs" /\ ~tasks[t].stop /\ tasks[t].packets < MaxPackets
    /\ tasks' = [tasks EXCEPT ![t].packets = @ + 1]
    /\ files' = Written(t, 1, FALSE)
    /\ UNCHANGED <<second, call, entries, flag, missed, muddled, spoiled>>

\* Told to stop, at its longest duration, out of audio or unable to write: the last page
\* is written, and the entry stays where it is. The packet that ended the loop or the last
\* page may be missing from the file or be there in part; the task ends as if nothing were.
Finalized(t) ==
    /\ tasks[t].at = "runs"
    /\ \/ files' = Written(t, 0, TRUE) /\ SetTask(t, "done")
       \/ /\ files' \in {files, Written(t, 0, FALSE), Written(t, 0, TRUE)}
          /\ tasks' = [tasks EXCEPT ![t] = [@ EXCEPT !.at = "done", !.faulty = TRUE]]
          /\ UNCHANGED <<second, call, entries, flag, missed, muddled, spoiled>>

RecorderNext ==
    \/ SecondPasses
    \/ \E c \in Callers :
          \/ \E k \in Keys : StartRecording(c, k) \/ StopRecording(c, k)
          \/ FlagOn(c) \/ Joined(c) \/ ChecksOthers(c) \/ FlagOff(c)
    \/ \E f \in files : DeleteFile(f)
    \/ \E t \in TaskIds : CreateFile(t) \/ CreateFails(t) \/ PacketWritten(t) \/ Finalized(t)

RecorderSpec == RecorderInit /\ [][RecorderNext]_recorderVars

-----------------------------------------------------------------------------
(* Properties.                                                              *)

\* The manager knows every task that has not been told to stop, under its key; a task it
\* has let go of will end.
EntriesAreTasks ==
    /\ \A k \in Keys : entries[k] # 0 => tasks[entries[k]].key = k /\ ~tasks[entries[k]].stop
    /\ \A t \in TaskIds : entries[tasks[t].key] = t \/ tasks[t].stop

\* Between requests the rig is shown as recorded while the manager has an entry for it, and
\* only then, unless the last command about it failed, a start has met a stop or a failed
\* recording was stopped.
FlagFollows ==
    ((\A c \in Callers : call[c].at = "idle") /\ ~missed /\ ~muddled) =>
        LET recorded == \E k \in Keys : entries[k] # 0 IN
        /\ recorded => flag
        /\ flag => recorded \/ spoiled

\* A file holds what its task has written, and is complete once that has ended without a
\* failed write; files are mixed up only by two recordings of a key that were started in
\* the same second.
FilesWhole ==
    \A f \in files :
        LET task == tasks[f.by] IN
        /\ ~f.mixed /\ task.at # "failed" => f.pages = task.packets + 2
        /\ f.ended => task.at = "done"
        /\ task.at = "done" /\ ~task.faulty => f.ended
        /\ f.mixed => \E t \in TaskIds \ {f.by} : NameOf(t) = f.name /\ (tasks[t].stop \/ task.stop)

\* What holds of the recorder at every moment.
RecorderInv == RecorderTypeOK /\ EntriesAreTasks /\ FlagFollows /\ FilesWhole
=============================================================================

------------------------------ MODULE Scheduler ------------------------------
(* The scheduler of the http frontend (scheduler.rs) for one rig: the task  *)
(* that looks at the schedule every 30 s, the routes that apply a target    *)
(* beside it (activation of an entry, release of the control), and the      *)
(* recorder it drives (recorder.rs).                                        *)
(*                                                                          *)
(* A target is applied command by command, each one awaited, by the task    *)
(* and by the routes independently; the commands for the dial are one step  *)
(* and those for the decoders another. Who holds the control is decided per *)
(* session; VirtualChannels has the table with its life.                    *)
EXTENDS Timetable

CONSTANTS Sessions, Handlers, Bookmarks,
          Configs,      \* schedules somebody may store
          Passes,       \* predicted satellite passes, in order
          Pretune,      \* SatelliteConfig::pretune_secs, in minutes
          StartMinute,  \* the minute of the day at step 0
          Horizon,      \* bound: steps of the clock
          MaxMoves,     \* bound: actions of users
          MaxFaults     \* bound: commands that fail or come late, restarts

\* ScheduleEntry, SatelliteEntry and SchedulerConfig, as far as they are used.
Periods == {"dawn", "day", "dusk", "night"}
ScheduleEntry == [bm : Bookmarks, extra : SUBSET Bookmarks, start : Nat, end : Nat,
                  gap : {None} \cup Nat, record : BOOLEAN, exclusive : BOOLEAN]
SatelliteEntries == [name : STRING, norad : Nat, bm : Bookmarks, extra : SUBSET Bookmarks,
                     min : Int, priority : Int, record : BOOLEAN]
IsSchedule(c) ==
    /\ c.mode \in {"disabled", "grayline", "timespan"} /\ c.entries \in Seq(ScheduleEntry)
    /\ c.grayline # None => c.grayline.bm \in [Periods -> {None} \cup Bookmarks]
    /\ c.sats # None => c.sats.entries \in Seq(SatelliteEntries)

ASSUME SchedulerAssumption ==
    /\ \A c \in Configs : IsSchedule(c)
    /\ StartMinute \in 0..(Day - 1) /\ Pretune \in Nat
    /\ {Horizon, MaxMoves, MaxFaults} \subseteq Nat
    /\ None \notin Bookmarks \cup Sessions /\ "task" \notin Handlers

VARIABLES
    clock,     \* minutes since the start
    config,    \* the schedule on disk, or None
    loaded,    \* SchedulerStoreMap: the store of the rig has been opened
    books,     \* bookmarks that exist
    control,   \* sessions: "away", "released", "holding"
    last,      \* last_applied of the rig
    seen,      \* last_control_allowed
    job,       \* what the task and each handler is applying
    rig,       \* what the rig is set to
    late,      \* a command that timed out and has not run yet
    status,    \* SchedulerStatusMap of the rig
    recording, \* RecorderManager: the entry of the rig, or None
    moves, faults,
    aside,     \* history: "no", or how the rig left the applied target
    forgotten  \* history: the task lost the target a recording belongs to

world == <<clock, config, loaded, books>>
memory == <<last, seen, status>>
bounds == <<moves, faults>>
vars == <<world, control, memory, job, rig, late, recording, bounds, aside, forgotten>>

Threads == {"task"} \cup Handlers
Minute == (StartMinute + clock) % Day

Target == [bm : Bookmarks, extra : SUBSET Bookmarks, sat : STRING \cup {None},
           record : BOOLEAN]
Job == [kind : {"tick", "activate", "restore"}, tgt : Target, found : SUBSET Bookmarks,
        step : {"tune", "decoders", "status", "stop", "start"}]
NoJob == [kind |-> "none", tgt |-> None, found |-> {}, step |-> "idle"]
NoStatus == [bm |-> None, extra |-> {}, sat |-> None]
Command == [what : {"tune", "decoders"}, bm : Bookmarks, found : SUBSET Bookmarks]

TypeOK ==
    /\ clock \in 0..Horizon /\ moves \in 0..MaxMoves /\ faults \in 0..MaxFaults
    /\ config \in Configs \cup {None} /\ loaded \in BOOLEAN
    /\ books \subseteq Bookmarks
    /\ control \in [Sessions -> {"away", "released", "holding"}]
    /\ last \in Target \cup {None} /\ seen \in BOOLEAN
    /\ job \in [Threads -> Job \cup {NoJob}]
    /\ rig.bm \in Bookmarks \cup {"user"} /\ rig.decoders \subseteq Bookmarks
    /\ late \in Command \cup {None}
    /\ status \in [bm : Bookmarks \cup {None}, extra : SUBSET Bookmarks, sat : STRING \cup {None}]
    /\ recording \in [by : {"scheduler", "user"}, alive : BOOLEAN] \cup {None}
    /\ aside \in {"no", "fresh", "noticed"} /\ forgotten \in BOOLEAN

-----------------------------------------------------------------------------
(* Who holds the control, and what is due.                                  *)

Present == {s \in Sessions : control[s] # "away"}
AllReleased == Present # {} /\ \A s \in Present : control[s] = "released"
SchedulerAllowed == Present = {} \/ AllReleased

TargetOf(e, sat, record) == [bm |-> e.bm, extra |-> e.extra, sat |-> sat, record |-> record]

\* list_all: the configurations of the stores that have been opened.
Known == IF loaded THEN config ELSE None

\* A satellite pass goes before the base mode; None: nothing is due.
SatelliteDue ==
    LET e == SatelliteEntry(config.sats, Passes, clock, Pretune) IN
    IF e = None THEN None ELSE TargetOf(e, e.name, e.record)
BaseDue ==
    CASE config.mode = "disabled" -> None
      [] config.mode = "grayline" ->
            LET bm == IF config.grayline = None THEN None
                      ELSE GraylineBookmark(config.grayline, Minute) IN
            IF bm = None THEN None
            ELSE [bm |-> bm, extra |-> {}, sat |-> None, record |-> FALSE]
      [] config.mode = "timespan" ->
            LET e == ActiveEntry(config.entries, Minute, config.gap) IN
            IF e = None THEN None ELSE TargetOf(e, None, e.record)
Due == IF config = None THEN None
       ELSE IF SatelliteDue # None THEN SatelliteDue ELSE BaseDue

-----------------------------------------------------------------------------
(* Threads that apply a target (apply_scheduler_target).                    *)

Idle(th) == job[th] = NoJob
At(th, step) == job[th].step = step
\* The bookmarks are looked up once; extra ones that are gone are left out.
Begin(th, kind, tgt) ==
    job' = [job EXCEPT ![th] = [kind |-> kind, tgt |-> tgt, found |-> tgt.extra \cap books,
                                step |-> "tune"]]
Goto(th, step) == job' = [job EXCEPT ![th].step = step]
Done(th) == job' = [job EXCEPT ![th] = NoJob]

\* Somebody beside the task changes the rig; a task that sees the control taken
\* at its next tick, or saw it at its last, will know.
Leaves == aside' = IF seen THEN "fresh" ELSE "noticed"

\* What a command does to the rig: the decoders are those of every bookmark.
Ran(c, r) == IF c.what = "tune" THEN [r EXCEPT !.bm = c.bm]
             ELSE [r EXCEPT !.decoders = {c.bm} \cup c.found]
CommandOf(th) == [what |-> job[th].step, bm |-> job[th].tgt.bm, found |-> job[th].found]
After(step) == IF step = "tune" THEN "decoders" ELSE "status"

Init ==
    /\ clock = 0 /\ config \in Configs /\ loaded \in BOOLEAN
    /\ books = Bookmarks
    \* Tabs may have come, and taken the control, before the first tick.
    /\ \E at \in {"away", "holding"} : control = [s \in Sessions |-> at]
    /\ last = None /\ seen = FALSE /\ status = NoStatus
    /\ job = [th \in Threads |-> NoJob]
    /\ rig = [bm |-> "user", decoders |-> {}]
    /\ late = None /\ recording = None
    /\ moves = MaxMoves /\ faults = MaxFaults
    /\ aside = "no" /\ forgotten = FALSE

-----------------------------------------------------------------------------
(* The task (spawn_scheduler_task).                                         *)

\* A target that goes with a recording may be lost while the recording runs.
Forget(kept) ==
    forgotten' = (forgotten \/ (kept = None /\ last # None /\ last.record
                                /\ recording # None /\ recording.by = "scheduler"))

\* A tick while somebody holds the control.
TickHeld ==
    /\ Idle("task") /\ ~SchedulerAllowed
    /\ seen' = FALSE
    /\ aside' = IF aside = "fresh" THEN "noticed" ELSE aside
    /\ UNCHANGED <<world, control, last, status, job, rig, late, recording, bounds,
                   forgotten>>

\* A tick with the control: what was applied is forgotten if the control was
\* held at the tick before, and when a satellite has passed; a target that is
\* not the one applied last is applied, if its bookmark exists.
\* Mutant: something has been applied already, whoever changed it since.
Fresh_Kept == IF last = None THEN None ELSE Due
Fresh == IF seen THEN last ELSE None
Cleared == IF Known # None /\ SatelliteDue = None /\ Fresh # None /\ Fresh.sat # None
           THEN None ELSE Fresh
\* Mutant: the target is recorded before its bookmark is looked up.
Tick_RecordsFirst ==
    /\ Idle("task") /\ SchedulerAllowed
    /\ seen' = TRUE
    /\ last' = IF Known # None /\ Due # None THEN Due ELSE Cleared
    /\ Forget(Cleared)
    /\ status' = IF Cleared = None /\ Fresh # None THEN [status EXCEPT !.sat = None] ELSE status
    /\ IF Known # None /\ Due # None /\ Due # Cleared /\ Due.bm \in books
       THEN Begin("task", "tick", Due) /\ aside' = "no"
       ELSE UNCHANGED <<job, aside>>
    /\ UNCHANGED <<world, control, rig, late, recording, bounds>>

Tick ==
    /\ Idle("task") /\ SchedulerAllowed
    /\ seen' = TRUE
    /\ last' = Cleared /\ Forget(Cleared)
    /\ status' = IF Cleared = None /\ Fresh # None THEN [status EXCEPT !.sat = None] ELSE status
    /\ IF Known # None /\ Due # None /\ Due # Cleared /\ Due.bm \in books
       THEN Begin("task", "tick", Due) /\ aside' = "no"
       ELSE UNCHANGED <<job, aside>>
    /\ UNCHANGED <<world, control, rig, late, recording, bounds>>

\* A command of a thread that has run, or was refused: the answer is ignored
\* (scheduler_send).
Send(th) ==
    /\ At(th, "tune") \/ At(th, "decoders")
    /\ rig' = Ran(CommandOf(th), rig)
    /\ Goto(th, After(job[th].step))
    /\ IF th = "task" THEN UNCHANGED aside ELSE Leaves
    /\ UNCHANGED <<world, control, memory, late, recording, bounds, forgotten>>

SendRefused(th) ==
    /\ At(th, "tune") \/ At(th, "decoders")
    /\ faults > 0 /\ faults' = faults - 1
    /\ Goto(th, After(job[th].step))
    /\ Leaves
    /\ UNCHANGED <<world, control, memory, rig, late, recording, moves, forgotten>>

\* The answer takes longer than 10 s: the thread goes on, the command runs later.
SendTimesOut(th) ==
    /\ At(th, "tune") \/ At(th, "decoders")
    /\ late = None /\ faults > 0 /\ faults' = faults - 1
    /\ late' = CommandOf(th)
    /\ Goto(th, After(job[th].step))
    /\ Leaves
    /\ UNCHANGED <<world, control, memory, rig, recording, moves, forgotten>>

LateRuns ==
    /\ late # None /\ late' = None
    /\ rig' = Ran(late, rig)
    /\ Leaves
    /\ UNCHANGED <<world, control, memory, job, recording, bounds, forgotten>>

\* The status of the rig, after the last command.
Report(th) ==
    /\ At(th, "status")
    /\ status' = [bm |-> job[th].tgt.bm, extra |-> job[th].tgt.extra, sat |-> job[th].tgt.sat]
    /\ IF th = "task" THEN Goto(th, "stop") /\ UNCHANGED aside ELSE Done(th) /\ Leaves
    /\ UNCHANGED <<world, control, last, seen, rig, late, recording, bounds, forgotten>>

\* Mutant: the new target is asked whether the old one was recorded.
StopRecording_ByNext ==
    /\ At("task", "stop")
    /\ recording' = IF job["task"].tgt.record THEN None ELSE recording
    /\ Goto("task", "start")
    /\ UNCHANGED <<world, control, memory, rig, late, bounds, aside, forgotten>>

\* manage_scheduler_recording: a recording goes with the target that asked for
\* it, if the task still knows that one ...
StopRecording ==
    /\ At("task", "stop")
    /\ recording' = IF last # None /\ last.record THEN None ELSE recording
    /\ Goto("task", "start")
    /\ UNCHANGED <<world, control, memory, rig, late, bounds, aside, forgotten>>

\* ... and the new target may ask for one, which an entry of the rig refuses.
StartRecording ==
    /\ At("task", "start")
    /\ recording' = IF job["task"].tgt.record /\ recording = None
                    THEN [by |-> "scheduler", alive |-> TRUE] ELSE recording
    /\ last' = job["task"].tgt
    /\ Done("task")
    /\ UNCHANGED <<world, control, seen, status, rig, late, bounds, aside, forgotten>>

-----------------------------------------------------------------------------
(* The routes and the users.                                                *)

Move == moves > 0 /\ moves' = moves - 1 /\ UNCHANGED faults

\* put_scheduler_activate_entry: beside the task, whoever holds the control.
Activate(h) ==
    /\ Idle(h) /\ Move /\ config # None /\ config.mode = "timespan"
    /\ loaded' = TRUE
    /\ \E k \in DOMAIN config.entries :
          /\ config.entries[k].bm \in books
          /\ Begin(h, "activate", TargetOf(config.entries[k], None, config.entries[k].record))
    /\ UNCHANGED <<clock, config, books, control, memory, rig, late, recording, aside, forgotten>>

\* put_scheduler_control: the last one to release the control has the last
\* target applied again at once, if the request names the rig.
Release(s) ==
    /\ control[s] = "holding" /\ Move
    /\ control' = [control EXCEPT ![s] = "released"]
    /\ \/ UNCHANGED job
       \/ \E h \in Handlers :
             /\ Idle(h) /\ \A x \in Present \ {s} : control[x] = "released"
             /\ status.bm \in books
             /\ Begin(h, "restore", [bm |-> status.bm, extra |-> status.extra,
                                     sat |-> status.sat, record |-> FALSE])
    /\ UNCHANGED <<world, memory, rig, late, recording, aside, forgotten>>

Take(s) ==
    /\ control[s] = "released" /\ Move
    /\ control' = [control EXCEPT ![s] = "holding"]
    /\ UNCHANGED <<world, memory, job, rig, late, recording, aside, forgotten>>

Comes(s) ==
    /\ control[s] = "away" /\ Move
    /\ control' = [control EXCEPT ![s] = "released"]
    /\ UNCHANGED <<world, memory, job, rig, late, recording, aside, forgotten>>

Goes(s) ==
    /\ control[s] # "away"
    /\ control' = [control EXCEPT ![s] = "away"]
    /\ UNCHANGED <<world, memory, job, rig, late, recording, bounds, aside, forgotten>>

\* Somebody tunes the rig; nothing asks for the control first.
UserTunes ==
    /\ Move /\ rig.bm # "user"
    /\ rig' = [rig EXCEPT !.bm = "user"]
    /\ Leaves
    /\ UNCHANGED <<world, control, memory, job, late, recording, forgotten>>

\* put_scheduler and delete_scheduler; get_scheduler opens the store as well.
Store(c) ==
    /\ Move /\ (c # config \/ ~loaded)
    /\ config' = c /\ loaded' = TRUE
    /\ UNCHANGED <<clock, books, control, memory, job, rig, late, recording, aside, forgotten>>

RemoveBookmark(b) ==
    /\ Move /\ b \in books /\ books' = books \ {b}
    /\ UNCHANGED <<clock, config, loaded, control, memory, job, rig, late, recording,
                   aside, forgotten>>

\* The recorder's own routes (RecorderManager::start and stop).
UserStarts ==
    /\ Move /\ recording = None
    /\ recording' = [by |-> "user", alive |-> TRUE]
    /\ UNCHANGED <<world, control, memory, job, rig, late, aside, forgotten>>
UserStops ==
    /\ Move /\ recording # None /\ recording' = None
    /\ UNCHANGED <<world, control, memory, job, rig, late, aside, forgotten>>

\* run_recorder ends by itself (its longest duration, a write error, no audio
\* any more); its entry stays.
RecorderEnds ==
    /\ recording # None /\ recording.alive /\ faults > 0 /\ faults' = faults - 1
    /\ recording' = [recording EXCEPT !.alive = FALSE]
    /\ UNCHANGED <<world, control, memory, job, rig, late, moves, aside, forgotten>>

\* The frontend restarts: what is on disk and the rig are left.
Restart ==
    /\ faults > 0 /\ faults' = faults - 1
    /\ loaded' = FALSE
    /\ control' = [s \in Sessions |-> "away"]
    /\ last' = None /\ seen' = FALSE /\ status' = NoStatus
    /\ job' = [th \in Threads |-> NoJob]
    /\ late' = None /\ recording' = None
    /\ aside' = "noticed" /\ forgotten' = FALSE
    /\ UNCHANGED <<clock, config, books, rig, moves>>

Pass ==
    /\ clock < Horizon /\ clock' = clock + 1
    /\ UNCHANGED <<config, loaded, books, control, memory, job, rig, late, recording,
                   bounds, aside, forgotten>>

Work(th) == Send(th) \/ Report(th) \/ (th = "task" /\ (StopRecording \/ StartRecording))

Next ==
    \/ TickHeld \/ Tick \/ LateRuns \/ Pass \/ Restart \/ RecorderEnds
    \/ UserTunes \/ UserStarts \/ UserStops
    \/ \E th \in Threads : Work(th) \/ SendRefused(th) \/ SendTimesOut(th)
    \/ \E h \in Handlers : Activate(h)
    \/ \E s \in Sessions : Release(s) \/ Take(s) \/ Comes(s) \/ Goes(s)
    \/ \E c \in Configs \cup {None} : Store(c)
    \/ \E b \in Bookmarks : RemoveBookmark(b)

\* The runtime polls every task that is ready, timers fire, answers arrive.
Fairness ==
    /\ WF_vars(Tick) /\ WF_vars(TickHeld) /\ WF_vars(LateRuns)
    /\ \A th \in Threads : WF_vars(Work(th))
Spec == Init /\ [][Next]_vars /\ Fairness

-----------------------------------------------------------------------------
(* Properties.                                                              *)

\* Between two targets, as long as nobody else changed the rig and every command
\* was carried out, the rig is where the last target put it and the status says
\* so, its decoders included: the task never records a target it did not apply
\* (spawn_scheduler_task).
AppliedAsRecorded ==
    (Idle("task") /\ last # None /\ aside = "no") =>
        /\ rig.bm = last.bm
        /\ {last.bm} \cup (last.extra \cap books) \subseteq rig.decoders
        /\ rig.decoders \subseteq {last.bm} \cup last.extra
        /\ status.bm = last.bm /\ status.sat = last.sat

\* The status the pages show, the targets of the task and the rig agree.
ScheduleInv == TypeOK /\ AppliedAsRecorded

\* A rig that is free gets what is due, whatever its users did before, unless
\* they did it and left between two ticks: the task compares two successive ticks
\* only (last_control_allowed). Without a lost command nothing else keeps it off.
SettlesOnSchedule ==
    <>[](/\ SchedulerAllowed /\ Known # None /\ Due # None /\ Due.bm \in books
         /\ aside # "fresh")
        => []<>(Due # None /\ rig.bm = Due.bm)

\* A recording of the scheduler ends with the target that asked for it, as long
\* as the task has not forgotten that target (manage_scheduler_recording).
RecordingEndsWithTarget ==
    (Idle("task") /\ recording # None /\ recording.by = "scheduler" /\ ~forgotten)
        => last # None /\ last.record
=============================================================================

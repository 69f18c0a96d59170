------------------------- MODULE HttpFrontendProofs -------------------------
(* Proofs about the http frontend and its web application: the scheduler's  *)
(* targets and recordings (Scheduler), the background decoder               *)
(* (BackgroundDecode), and of a page its session with the streams           *)
(* (PageSession), the frequency on display (PageTuning) and its transmitter *)
(* (PageAudio). The parts share no variable.                                *)
EXTENDS Scheduler, PageSession, PageTuning, PageAudio, BackgroundDecode,
        SequenceFacts, FiniteSetTheorems, TLAPS

(***************************************************************************)
(* The scheduler.  A target is applied step by step, and beside the task    *)
(* the routes apply targets of their own, users tune and record, and late   *)
(* commands run. Whoever changes the rig leaves a mark (aside), so that the *)
(* invariant speaks of targets that nobody has disturbed. Nothing is needed *)
(* of the timetable: which target is due plays no part.                     *)
(***************************************************************************)
IsJob(j) == j = [kind |-> j.kind, tgt |-> j.tgt, found |-> j.found, step |-> j.step]
JobsOK ==
    /\ job = [th \in Threads |-> job[th]]
    /\ \A th \in Threads : IsJob(job[th])
    /\ job["task"].step # "idle" => job["task"].tgt # None

\* The task knows the target of a recording that it started, until it has stopped the
\* recording and is about to start the next.
Belongs ==
    recording # None /\ recording.by = "scheduler" /\ ~forgotten =>
        last # None /\ last.record /\ ~At("task", "start")

RecordingInd == JobsOK /\ Belongs

LEMMA TaskIsThread == "task" \in Threads
BY DEF Threads

LEMMA JobsStart ==
    ASSUME job = [th \in Threads |-> NoJob] PROVE JobsOK /\ job["task"] = NoJob /\ NoJob.step = "idle"
<1>1. \A th \in Threads : job[th] = NoJob
  OBVIOUS
<1>2. IsJob(NoJob) /\ NoJob.step = "idle"
  BY DEF IsJob, NoJob
<1> QED  BY <1>1, <1>2, TaskIsThread DEF JobsOK

LEMMA RecordingStarts == Init => RecordingInd
BY JobsStart DEF Init, RecordingInd, Belongs

\* What a change of one thread's job leaves of all.
LEMMA OneJob ==
    ASSUME JobsOK, NEW th \in Threads, NEW j, job' = [job EXCEPT ![th] = j],
           IsJob(j), th = "task" /\ j.step # "idle" => j.tgt # None
    PROVE  JobsOK' /\ job'[th] = j /\ (th # "task" => job'["task"] = job["task"])
<1>1. job' = [o \in Threads |-> IF o = th THEN j ELSE job[o]]
  BY DEF JobsOK
<1>2. \A o \in Threads : job'[o] = IF o = th THEN j ELSE job[o]
  BY <1>1
<1>3. job' = [o \in Threads |-> job'[o]]
  BY <1>1
<1>4. \A o \in Threads : IsJob(job'[o])
  BY <1>2 DEF JobsOK
<1>5. job'["task"].step # "idle" => job'["task"].tgt # None
  BY <1>2, TaskIsThread DEF JobsOK
<1> QED  BY <1>2, <1>3, <1>4, <1>5, TaskIsThread DEF JobsOK

LEMMA Begun ==
    ASSUME JobsOK, NEW th \in Threads, NEW kind, NEW tgt, th = "task" => tgt # None,
           Begin(th, kind, tgt)
    PROVE  /\ JobsOK' /\ job'[th].step = "tune" /\ job'[th].tgt = tgt
           /\ job'[th].found = tgt.extra \cap books
           /\ th # "task" => job'["task"] = job["task"]
<1> DEFINE j == [kind |-> kind, tgt |-> tgt, found |-> tgt.extra \cap books, step |-> "tune"]
<1>1. job' = [job EXCEPT ![th] = j]
  BY DEF Begin
<1>2. IsJob(j) /\ j.tgt = tgt /\ j.found = tgt.extra \cap books /\ j.step = "tune"
  BY DEF IsJob
<1> HIDE DEF j
<1> QED  BY <1>1, <1>2, OneJob

LEMMA Went ==
    ASSUME JobsOK, NEW th \in Threads, job[th].step # "idle", NEW step, Goto(th, step)
    PROVE  /\ JobsOK' /\ job'[th].step = step
           /\ job'[th].tgt = job[th].tgt /\ job'[th].found = job[th].found
           /\ th # "task" => job'["task"] = job["task"]
<1>1. IsJob(job[th])
  BY DEF JobsOK
<1> DEFINE k == job[th].kind
           t == job[th].tgt
           f == job[th].found
           j == [kind |-> k, tgt |-> t, found |-> f, step |-> step]
<1>2. [job[th] EXCEPT !.step = step] = j
  BY <1>1 DEF IsJob
<1>3. job' = [job EXCEPT ![th] = [job[th] EXCEPT !.step = step]]
  BY DEF Goto
<1>4. IsJob(j) /\ j.tgt = t /\ j.found = f /\ j.step = step
  BY DEF IsJob
<1>5. th = "task" => t # None
  BY DEF JobsOK
<1>6. job' = [job EXCEPT ![th] = j]
  BY <1>2, <1>3
<1> HIDE DEF j
<1>7. JobsOK' /\ job'[th] = j /\ (th # "task" => job'["task"] = job["task"])
  BY <1>4, <1>5, <1>6, OneJob
<1> QED  BY <1>4, <1>7

LEMMA Ended ==
    ASSUME JobsOK, NEW th \in Threads, Done(th)
    PROVE  /\ JobsOK' /\ job'[th] = NoJob /\ job'[th].step = "idle"
           /\ th # "task" => job'["task"] = job["task"]
<1>1. IsJob(NoJob) /\ NoJob.step = "idle"
  BY DEF IsJob, NoJob
<1> QED  BY <1>1, OneJob DEF Done

\* Steps that touch no recording and no memory of the task.
LEMMA BesideKeeps ==
    ASSUME RecordingInd, JobsOK', UNCHANGED <<last, recording, forgotten>>,
           \/ job'["task"] = job["task"] \/ job'["task"].step # "start"
    PROVE  RecordingInd'
BY DEF RecordingInd, Belongs, At

LEMMA TickKeeps == ASSUME RecordingInd, Tick PROVE RecordingInd'
<1>1. JobsOK' /\ (job'["task"] = job["task"] \/ job'["task"].step # "start")
  <2>1. CASE job' = job
    BY <2>1 DEF RecordingInd, JobsOK
  <2>2. CASE Due # Cleared /\ Due # None /\ Begin("task", "tick", Due)
    BY <2>2, Begun, TaskIsThread DEF RecordingInd
  <2> QED  BY <2>1, <2>2 DEF Tick
<1>2. Cleared # None => Cleared = last
  BY DEF Cleared, Fresh
<1>3. recording' = recording /\ last' = Cleared /\ Forget(Cleared)
  BY DEF Tick
<1>4. ~forgotten' => /\ ~forgotten
                     /\ Cleared = None /\ last # None /\ last.record /\ recording # None
                           => recording.by # "scheduler"
  BY Zenon, <1>3 DEF Forget
<1>5. Belongs'
  BY <1>1, <1>2, <1>3, <1>4 DEF RecordingInd, Belongs, At
<1> QED  BY <1>1, <1>5 DEF RecordingInd

LEMMA StopKeeps == ASSUME RecordingInd, StopRecording PROVE RecordingInd'
<1>1. JobsOK'
  BY Went, TaskIsThread DEF StopRecording, At, RecordingInd
<1>2. Belongs'
  BY DEF StopRecording, RecordingInd, Belongs, memory, At
<1> QED  BY <1>1, <1>2 DEF RecordingInd

LEMMA StartKeeps == ASSUME RecordingInd, StartRecording PROVE RecordingInd'
<1>1. JobsOK' /\ job'["task"].step = "idle"
  BY Ended, TaskIsThread DEF StartRecording, RecordingInd
<1>2. last' # None /\ last' = job["task"].tgt /\ forgotten' = forgotten
  BY DEF StartRecording, At, RecordingInd, JobsOK
<1>3. recording' # None /\ recording'.by = "scheduler" /\ ~forgotten' => last'.record
  <2>1. CASE job["task"].tgt.record /\ recording = None
    BY <1>2, <2>1
  <2>2. CASE ~(job["task"].tgt.record /\ recording = None)
    <3>1. recording' = recording
      BY <2>2 DEF StartRecording
    <3> QED  BY <1>2, <3>1 DEF StartRecording, At, RecordingInd, Belongs
  <2> QED  BY <2>1, <2>2
<1> QED  BY <1>1, <1>2, <1>3 DEF RecordingInd, Belongs, At

LEMMA WorkKeeps ==
    ASSUME RecordingInd, NEW th \in Threads,
           Send(th) \/ SendRefused(th) \/ SendTimesOut(th) \/ Report(th)
    PROVE  RecordingInd'
<1> USE DEF memory
<1>1. CASE Report(th)
  <2>1. CASE th = "task"
    BY <1>1, <2>1, Went, TaskIsThread, BesideKeeps DEF Report, At, RecordingInd
  <2>2. CASE th # "task"
    BY <1>1, <2>2, Ended, BesideKeeps DEF Report, RecordingInd
  <2> QED  BY <2>1, <2>2
<1>2. CASE Send(th) \/ SendRefused(th) \/ SendTimesOut(th)
  <2>1. /\ job[th].step # "idle" /\ Goto(th, After(job[th].step)) /\ UNCHANGED <<last, recording, forgotten>>
    BY <1>2 DEF Send, SendRefused, SendTimesOut, At
  <2>2. After(job[th].step) # "start"
    BY DEF After
  <2>3. JobsOK' /\ job'[th].step # "start" /\ (th # "task" => job'["task"] = job["task"])
    BY <2>1, <2>2, Went DEF RecordingInd
  <2> QED  BY <2>1, <2>3, BesideKeeps
<1> QED  BY <1>1, <1>2

LEMMA RoutesKeep ==
    ASSUME RecordingInd,
           \/ \E h \in Handlers : Activate(h)
           \/ \E s \in Sessions : Release(s)
    PROVE  RecordingInd'
<1> USE DEF memory
<1>1. ASSUME NEW h \in Handlers, NEW kind, NEW tgt, Begin(h, kind, tgt)
      PROVE  JobsOK' /\ job'["task"] = job["task"]
  <2>1. h \in Threads /\ h # "task"
    BY SchedulerAssumption DEF Threads, SchedulerAssumption
  <2> QED  BY <1>1, <2>1, Begun DEF RecordingInd
<1>2. JobsOK' /\ job'["task"] = job["task"]
  <2>1. CASE job' = job
    BY <2>1 DEF RecordingInd, JobsOK
  <2>2. CASE \E h \in Handlers : \E kind, tgt : Begin(h, kind, tgt)
    BY <1>1, <2>2
  <2> QED  BY <2>1, <2>2 DEF Activate, Release
<1> QED  BY <1>2, BesideKeeps DEF Activate, Release

LEMMA UsersKeep ==
    ASSUME RecordingInd,
           \/ TickHeld \/ LateRuns \/ Pass \/ RecorderEnds \/ UserTunes \/ UserStarts \/ UserStops
           \/ \E s \in Sessions : Take(s) \/ Comes(s) \/ Goes(s)
           \/ \E c \in Configs \cup {None} : Store(c)
           \/ \E b \in Bookmarks : RemoveBookmark(b)
           \/ UNCHANGED vars
    PROVE  RecordingInd'
<1> USE DEF memory, TickHeld, LateRuns, Pass, RecorderEnds, UserTunes, UserStarts, UserStops,
            Take, Comes, Goes, Store, RemoveBookmark, vars
<1>1. job' = job /\ last' = last /\ forgotten' = forgotten
  OBVIOUS
<1>2. JobsOK'
  BY <1>1 DEF RecordingInd, JobsOK
<1>3. CASE recording' = recording
  BY <1>1, <1>2, <1>3, BesideKeeps
<1>4. CASE recording' = None \/ UserStarts
  <2>1. recording' = None \/ recording'.by = "user"
    BY <1>4 DEF UserStarts
  <2> QED  BY <1>2, <2>1 DEF RecordingInd, Belongs
<1>5. CASE RecorderEnds
  <2>1. recording'.by = "scheduler" => recording.by = "scheduler"
    BY <1>5
  <2> QED  BY <1>1, <1>2, <1>5, <2>1 DEF RecordingInd, Belongs, At
<1> QED  BY <1>3, <1>4, <1>5

LEMMA RestartKeeps == ASSUME RecordingInd, Restart PROVE RecordingInd'
<1>1. job' = [th \in Threads |-> NoJob] /\ recording' = None
  BY DEF Restart
<1>2. JobsOK'
  <2>1. \A th \in Threads : job'[th] = NoJob
    BY <1>1
  <2>2. IsJob(NoJob) /\ NoJob.step = "idle"
    BY DEF IsJob, NoJob
  <2> QED  BY <1>1, <2>1, <2>2, TaskIsThread DEF JobsOK
<1> QED  BY <1>1, <1>2 DEF RecordingInd, Belongs

LEMMA RecordingSteps == RecordingInd /\ [Next]_vars => RecordingInd'
<1> SUFFICES ASSUME RecordingInd, [Next]_vars PROVE RecordingInd'
  OBVIOUS
<1>1. ASSUME NEW th \in Threads, Work(th) \/ SendRefused(th) \/ SendTimesOut(th)
      PROVE  RecordingInd'
  BY <1>1, WorkKeeps, StopKeeps, StartKeeps DEF Work
<1> QED  BY <1>1, TickKeeps, RoutesKeep, UsersKeep, RestartKeeps DEF Next

\* A recording that the scheduler started is never left to a target that did not ask for
\* it, whatever users and routes do beside the task, unless the task lost its target.
THEOREM RecordingsEnd == Spec => []RecordingEndsWithTarget
<1>1. RecordingInd => RecordingEndsWithTarget
  BY DEF RecordingInd, Belongs, RecordingEndsWithTarget
<1> QED  BY <1>1, RecordingStarts, RecordingSteps, PTL DEF Spec

(***************************************************************************)
(* What has been applied.                                                   *)
(***************************************************************************)
\* Where the rig and the status are, as far as the task has come with its target.
AsFarAs ==
    LET j == job["task"] IN
    aside = "no" /\ j.step # "idle" =>
        /\ j.tgt.extra \cap books \subseteq j.found /\ j.found \subseteq j.tgt.extra
        /\ j.step # "tune" => rig.bm = j.tgt.bm
        /\ j.step \in {"status", "stop", "start"} => rig.decoders = {j.tgt.bm} \cup j.found
        /\ j.step \in {"stop", "start"} => status.bm = j.tgt.bm /\ status.sat = j.tgt.sat

RigOK == rig = [bm |-> rig.bm, decoders |-> rig.decoders]
AppliedInd == JobsOK /\ RigOK /\ AsFarAs /\ AppliedAsRecorded

LEMMA IdleStep == ASSUME NEW th, Idle(th) PROVE job[th].step = "idle"
BY DEF Idle, NoJob

LEMMA AppliedStarts == Init => AppliedInd
<1> SUFFICES ASSUME Init PROVE AppliedInd
  OBVIOUS
<1>1. JobsOK /\ job["task"].step = "idle" /\ last = None /\ RigOK
  BY JobsStart DEF Init, RigOK
<1> QED  BY <1>1 DEF AppliedInd, AsFarAs, AppliedAsRecorded

\* What a command does.
LEMMA RanRig ==
    ASSUME RigOK, NEW c, rig' = Ran(c, rig)
    PROVE  /\ RigOK'
           /\ c.what = "tune" => rig'.bm = c.bm
           /\ c.what # "tune" => rig'.bm = rig.bm /\ rig'.decoders = {c.bm} \cup c.found
<1> DEFINE b == rig.bm
           d == rig.decoders
           e == {c.bm} \cup c.found
<1>1. rig = [bm |-> b, decoders |-> d]
  BY DEF RigOK
<1>2. CASE c.what = "tune"
  <2>1. rig' = [bm |-> c.bm, decoders |-> d]
    BY <1>1, <1>2 DEF Ran
  <2> QED  BY <2>1, <1>2 DEF RigOK
<1>3. CASE c.what # "tune"
  <2>1. rig' = [bm |-> b, decoders |-> e]
    BY <1>1, <1>3 DEF Ran
  <2> QED  BY <2>1, <1>3 DEF RigOK
<1> QED  BY <1>2, <1>3

LEMMA RanTunes ==
    ASSUME RigOK, NEW c, rig' = Ran(c, rig), c.what = "tune"
    PROVE  rig'.decoders = rig.decoders
<1> DEFINE b == rig.bm
           d == rig.decoders
<1>1. rig = [bm |-> b, decoders |-> d]
  BY DEF RigOK
<1>2. rig' = [bm |-> c.bm, decoders |-> d]
  BY <1>1 DEF Ran
<1> QED  BY <1>2

\* Steps after which the rig counts as disturbed.
LEMMA MarkedKeeps == ASSUME AppliedInd, JobsOK', RigOK', aside' # "no" PROVE AppliedInd'
BY DEF AppliedInd, AsFarAs, AppliedAsRecorded

LEMMA LeavesMarks == Leaves => aside' # "no"
BY DEF Leaves

\* Steps that leave the task, its target and the rig alone.
LEMMA AsideKeeps ==
    ASSUME AppliedInd, JobsOK', job'["task"] = job["task"], UNCHANGED <<rig, last, status>>,
           books' \subseteq books, aside' = "no" => aside = "no"
    PROVE  AppliedInd'
<1>1. RigOK'
  BY DEF AppliedInd, RigOK
<1>2. AsFarAs'
  BY DEF AppliedInd, AsFarAs
<1>3. AppliedAsRecorded'
  BY DEF AppliedInd, AppliedAsRecorded, Idle
<1> QED  BY <1>1, <1>2, <1>3 DEF AppliedInd

LEMMA AppliedTick == ASSUME AppliedInd, Tick PROVE AppliedInd'
<1>1. RigOK'
  BY DEF Tick, AppliedInd, RigOK
<1>2. CASE Due # None /\ Begin("task", "tick", Due)
  <2>1. /\ JobsOK' /\ job'["task"].step = "tune" /\ job'["task"].tgt = Due
        /\ job'["task"].found = Due.extra \cap books
    BY <1>2, Begun, TaskIsThread DEF AppliedInd
  <2>2. books' = books
    BY DEF Tick, world
  <2>3. AsFarAs'
    BY <2>1, <2>2 DEF AsFarAs
  <2>4. AppliedAsRecorded'
    BY <2>1, IdleStep DEF AppliedAsRecorded, Idle, NoJob
  <2> QED  BY <1>1, <2>1, <2>3, <2>4 DEF AppliedInd
<1>3. CASE UNCHANGED <<job, aside>>
  <2>1. JobsOK'
    BY <1>3 DEF AppliedInd, JobsOK
  <2>2. last' = Cleared /\ (Cleared # None => Cleared = last) /\ (Cleared # None => status' = status)
    BY DEF Tick, Cleared, Fresh
  <2>3. UNCHANGED <<rig, books>>
    BY DEF Tick, world
  <2>4. job["task"].step = "idle"
    BY IdleStep DEF Tick
  <2>5. AsFarAs'
    BY <1>3, <2>4 DEF AsFarAs
  <2>6. AppliedAsRecorded'
    BY <1>3, <2>2, <2>3 DEF AppliedInd, AppliedAsRecorded, Idle
  <2> QED  BY <1>1, <2>1, <2>5, <2>6 DEF AppliedInd
<1> QED  BY <1>2, <1>3 DEF Tick

\* The commands of the task itself.
LEMMA AppliedSend == ASSUME AppliedInd, Send("task") PROVE AppliedInd'
<1> DEFINE j == job["task"]
           c == CommandOf("task")
<1>1. c.what = j.step /\ c.bm = j.tgt.bm /\ c.found = j.found
  BY DEF CommandOf
<1>2. /\ j.step \in {"tune", "decoders"} /\ Goto("task", After(j.step)) /\ rig' = Ran(c, rig)
      /\ UNCHANGED <<aside, books, status, last>>
  BY DEF Send, At, world, memory
<1>3. /\ JobsOK' /\ job'["task"].step = After(j.step) /\ job'["task"].tgt = j.tgt
      /\ job'["task"].found = j.found
  BY <1>2, Went, TaskIsThread DEF AppliedInd
<1> HIDE DEF c
<1>4. /\ RigOK'
      /\ c.what = "tune" => rig'.bm = c.bm
      /\ c.what # "tune" => rig'.bm = rig.bm /\ rig'.decoders = {c.bm} \cup c.found
  BY <1>2, RanRig DEF AppliedInd
<1>5. AsFarAs'
  <2> SUFFICES ASSUME aside = "no" PROVE AsFarAs'
    BY <1>2 DEF AsFarAs
  <2>1. j.tgt.extra \cap books \subseteq j.found /\ j.found \subseteq j.tgt.extra
    BY <1>2 DEF AppliedInd, AsFarAs
  <2>2. CASE j.step = "tune"
    <3>1. job'["task"].step = "decoders" /\ rig'.bm = j.tgt.bm
      BY <2>2, <1>1, <1>3, <1>4 DEF After
    <3> QED  BY <3>1, <2>1, <1>2, <1>3 DEF AsFarAs
  <2>3. CASE j.step = "decoders"
    <3>1. /\ job'["task"].step = "status" /\ rig'.bm = rig.bm
          /\ rig'.decoders = {j.tgt.bm} \cup j.found
      BY <2>3, <1>1, <1>3, <1>4 DEF After
    <3>2. rig.bm = j.tgt.bm
      BY <2>3 DEF AppliedInd, AsFarAs
    <3> QED  BY <3>1, <3>2, <2>1, <1>2, <1>3 DEF AsFarAs
  <2> QED  BY <1>2, <2>2, <2>3
<1>6. job'["task"].step # "idle"
  BY <1>3 DEF After
<1>7. AppliedAsRecorded'
  BY <1>6 DEF AppliedAsRecorded, Idle, NoJob
<1> QED  BY <1>3, <1>4, <1>5, <1>7 DEF AppliedInd

LEMMA AppliedReport ==
    ASSUME AppliedInd, Report("task") \/ StopRecording
    PROVE  AppliedInd'
<1> DEFINE j == job["task"]
           next == IF Report("task") THEN "stop" ELSE "start"
<1>1. /\ j.step = (IF Report("task") THEN "status" ELSE "stop") /\ Goto("task", next)
      /\ UNCHANGED <<aside, books, rig, last>>
  BY DEF Report, StopRecording, At, world, memory
<1>2. /\ JobsOK' /\ job'["task"].step = next /\ job'["task"].tgt = j.tgt
      /\ job'["task"].found = j.found
  BY <1>1, Went, TaskIsThread DEF AppliedInd
<1>3. RigOK'
  BY <1>1 DEF AppliedInd, RigOK
<1>4. Report("task") => status'.bm = j.tgt.bm /\ status'.sat = j.tgt.sat
  BY DEF Report
<1>5. ~Report("task") => status' = status
  BY DEF StopRecording, memory
<1>6. AsFarAs'
  BY <1>1, <1>2, <1>4, <1>5 DEF AppliedInd, AsFarAs
<1>7. AppliedAsRecorded'
  BY <1>2 DEF AppliedAsRecorded, Idle, NoJob
<1> QED  BY <1>2, <1>3, <1>6, <1>7 DEF AppliedInd

LEMMA AppliedStart == ASSUME AppliedInd, StartRecording PROVE AppliedInd'
<1> DEFINE j == job["task"]
<1>1. JobsOK' /\ job'["task"].step = "idle"
  BY Ended, TaskIsThread DEF StartRecording, AppliedInd
<1>2. /\ j.step = "start" /\ last' = j.tgt /\ UNCHANGED <<aside, books, rig, status>>
  BY DEF StartRecording, At, world
<1>3. RigOK'
  BY <1>2 DEF AppliedInd, RigOK
<1>4. AsFarAs'
  BY <1>1 DEF AsFarAs
<1>5. AppliedAsRecorded'
  BY <1>2 DEF AppliedInd, AsFarAs, AppliedAsRecorded
<1> QED  BY <1>1, <1>3, <1>4, <1>5 DEF AppliedInd

\* Commands of a route, and commands that fail or come late.
LEMMA AppliedBeside ==
    ASSUME AppliedInd, NEW th \in Threads,
           \/ th # "task" /\ (Send(th) \/ Report(th))
           \/ SendRefused(th) \/ SendTimesOut(th)
    PROVE  AppliedInd'
<1>1. aside' # "no"
  BY LeavesMarks DEF Send, Report, SendRefused, SendTimesOut
<1>2. JobsOK'
  <2>1. CASE Report(th) /\ th # "task"
    BY <2>1, Ended DEF Report, AppliedInd
  <2>2. CASE Send(th) \/ SendRefused(th) \/ SendTimesOut(th)
    <3>1. job[th].step # "idle" /\ Goto(th, After(job[th].step))
      BY <2>2 DEF Send, SendRefused, SendTimesOut, At
    <3> QED  BY <3>1, Went DEF AppliedInd
  <2> QED  BY <2>1, <2>2
<1>3. RigOK'
  <2>1. CASE rig' = rig
    BY <2>1 DEF AppliedInd, RigOK
  <2>2. CASE Send(th)
    BY <2>2, RanRig DEF Send, AppliedInd
  <2> QED  BY <2>1, <2>2 DEF Report, SendRefused, SendTimesOut
<1> QED  BY <1>1, <1>2, <1>3, MarkedKeeps

LEMMA AppliedRoutes ==
    ASSUME AppliedInd,
           \/ \E h \in Handlers : Activate(h)
           \/ \E s \in Sessions : Release(s)
    PROVE  AppliedInd'
<1>1. ASSUME NEW h \in Handlers, NEW kind, NEW tgt, Begin(h, kind, tgt)
      PROVE  JobsOK' /\ job'["task"] = job["task"]
  <2>1. h \in Threads /\ h # "task"
    BY SchedulerAssumption DEF Threads, SchedulerAssumption
  <2> QED  BY <1>1, <2>1, Begun DEF AppliedInd
<1>2. JobsOK' /\ job'["task"] = job["task"]
  <2>1. CASE job' = job
    BY <2>1 DEF AppliedInd, JobsOK
  <2>2. CASE \E h \in Handlers : \E kind, tgt : Begin(h, kind, tgt)
    BY <1>1, <2>2
  <2> QED  BY <2>1, <2>2 DEF Activate, Release
<1>3. UNCHANGED <<rig, last, status, books, aside>>
  BY DEF Activate, Release, world, memory
<1> QED  BY <1>2, <1>3, AsideKeeps

LEMMA AppliedOthers ==
    ASSUME AppliedInd,
           \/ TickHeld \/ LateRuns \/ Pass \/ RecorderEnds \/ UserTunes \/ UserStarts \/ UserStops
           \/ \E s \in Sessions : Take(s) \/ Comes(s) \/ Goes(s)
           \/ \E c \in Configs \cup {None} : Store(c)
           \/ \E b \in Bookmarks : RemoveBookmark(b)
           \/ Restart \/ UNCHANGED vars
    PROVE  AppliedInd'
<1>1. CASE Restart
  <2>1. /\ job' = [th \in Threads |-> NoJob] /\ aside' # "no" /\ rig' = rig
    BY <1>1 DEF Restart
  <2>2. JobsOK'
    <3>1. \A th \in Threads : job'[th] = NoJob
      BY <2>1
    <3>2. IsJob(NoJob) /\ NoJob.step = "idle"
      BY DEF IsJob, NoJob
    <3> QED  BY <2>1, <3>1, <3>2, TaskIsThread DEF JobsOK
  <2>3. RigOK'
    BY <2>1 DEF AppliedInd, RigOK
  <2> QED  BY <2>1, <2>2, <2>3, MarkedKeeps
<1>2. CASE LateRuns \/ UserTunes
  <2>1. job' = job /\ aside' # "no"
    BY <1>2, LeavesMarks DEF LateRuns, UserTunes
  <2>2. JobsOK'
    BY <2>1 DEF AppliedInd, JobsOK
  <2>3. RigOK'
    <3>1. CASE LateRuns
      BY <3>1, RanRig DEF LateRuns, AppliedInd
    <3>2. CASE UserTunes
      <4> DEFINE d == rig.decoders
      <4>1. rig' = [bm |-> "user", decoders |-> d]
        BY <3>2 DEF UserTunes, AppliedInd, RigOK
      <4> QED  BY <4>1 DEF RigOK
    <3> QED  BY <1>2, <3>1, <3>2
  <2> QED  BY <2>1, <2>2, <2>3, MarkedKeeps
<1>3. CASE ~(Restart \/ LateRuns \/ UserTunes)
  <2>1. /\ job' = job /\ UNCHANGED <<rig, last, status>>
        /\ books' \subseteq books
        /\ aside' = "no" => aside = "no"
    BY <1>3 DEF TickHeld, Pass, RecorderEnds, UserStarts, UserStops, Take, Comes, Goes, Store,
                RemoveBookmark, vars, world, memory
  <2>2. JobsOK'
    BY <2>1 DEF AppliedInd, JobsOK
  <2> QED  BY <2>1, <2>2, AsideKeeps
<1> QED  BY <1>1, <1>2, <1>3

LEMMA AppliedSteps == AppliedInd /\ [Next]_vars => AppliedInd'
<1> SUFFICES ASSUME AppliedInd, [Next]_vars PROVE AppliedInd'
  OBVIOUS
<1>1. ASSUME NEW th \in Threads, Work(th) \/ SendRefused(th) \/ SendTimesOut(th)
      PROVE  AppliedInd'
  <2>1. CASE th = "task"
    BY <1>1, <2>1, AppliedSend, AppliedReport, AppliedStart, AppliedBeside DEF Work
  <2>2. CASE th # "task"
    BY <1>1, <2>2, AppliedBeside DEF Work
  <2> QED  BY <2>1, <2>2
<1> QED  BY <1>1, AppliedTick, AppliedRoutes, AppliedOthers DEF Next

\* The task never records a target that it did not apply: while nobody else changes the rig
\* and every command is carried out, dial, decoders and status are those of the last target.
THEOREM ScheduleApplied == Spec => []AppliedAsRecorded
<1>1. AppliedInd => AppliedAsRecorded
  BY DEF AppliedInd
<1> QED  BY <1>1, AppliedStarts, AppliedSteps, PTL DEF Spec

(***************************************************************************)
(* What the timetable selects, and the types of the scheduler.              *)
(***************************************************************************)
LEMMA LowestIn ==
    ASSUME NEW S \in SUBSET Nat, S # {} PROVE Min(S) \in S
<1>1. \E m \in S : \A i \in S : m <= i
  BY Least
<1> QED  BY <1>1 DEF Min

LEMMA HighestIn ==
    ASSUME NEW n \in Nat, NEW S \in SUBSET (1..n), S # {} PROVE Max(S) \in S
<1> DEFINE T == {d \in 0..n : n - d \in S}
<1>1. PICK s \in S : TRUE
  OBVIOUS
<1>2. n - s \in T
  BY <1>1
<1>3. PICK d \in T : \A i \in T : d <= i
  <2>1. T \in SUBSET Nat
    OBVIOUS
  <2>2. T # {}
    BY <1>2
  <2> HIDE DEF T
  <2> QED  BY <2>1, <2>2, Least
<1>4. \A x \in S : n - d >= x
  <2> TAKE x \in S
  <2>1. n - x \in T
    <3>1. x \in 1..n
      OBVIOUS
    <3>2. n - x \in 0..n /\ n - (n - x) = x
      BY ONLY <3>1, n \in Nat
    <3> QED  BY <3>2
  <2>2. d <= n - x /\ d \in Nat /\ x \in Nat
    BY <1>3, <2>1
  <2> QED  BY ONLY <2>2, n \in Nat
<1>5. n - d \in S
  BY <1>3
<1> QED  BY <1>4, <1>5 DEF Max

\* Of finitely many numbers some is the lowest.
LEMMA LowestOf ==
    ASSUME NEW n \in Nat, NEW p, NEW A \in SUBSET (1..n), A # {}, \A k \in A : p[k] \in Int
    PROVE  \E k \in A : \A j \in A : p[k] <= p[j]
<1> DEFINE Upto(m) == {k \in A : k <= m}
           Found(m) == \E k \in Upto(m) : \A j \in Upto(m) : p[k] <= p[j]
           Bad == {m \in 0..n : Upto(m) # {} /\ ~Found(m)}
<1>1. ASSUME NEW m \in Bad, \A i \in Bad : m <= i PROVE FALSE
  <2>1. m \in 0..n /\ m # 0 /\ m - 1 \in 0..n
    <3>1. m \in 0..n /\ Upto(m) # {}
      BY <1>1
    <3>2. PICK k \in A : k <= m
      BY <3>1
    <3>3. k \in 1..n
      OBVIOUS
    <3> QED  BY ONLY <3>1, <3>2, <3>3, n \in Nat
  <2>2. m - 1 \notin Bad
    BY <1>1, <2>1
  <2>3. Upto(m - 1) = {} \/ Found(m - 1)
    BY <2>1, <2>2
  <2>4. \A k \in Upto(m) : k = m \/ k \in Upto(m - 1)
    BY <2>1
  <2>5. Upto(m - 1) \subseteq Upto(m)
    <3>1. \A k \in 1..n : k <= m - 1 => k <= m
      BY ONLY <2>1, n \in Nat
    <3> QED  BY <3>1
  <2>6. CASE m \notin A
    <3>1. Upto(m) = Upto(m - 1)
      BY <2>4, <2>5, <2>6
    <3> QED  BY <1>1, <2>3, <3>1
  <2>7. CASE m \in A /\ Upto(m - 1) = {}
    <3>1. m \in Upto(m)
      BY <2>1, <2>7
    <3>2. \A j \in Upto(m) : p[m] <= p[j]
      BY <2>4, <2>7
    <3> QED  BY <1>1, <3>1, <3>2
  <2>8. CASE m \in A /\ Found(m - 1)
    <3>1. PICK k \in Upto(m - 1) : \A j \in Upto(m - 1) : p[k] <= p[j]
      BY <2>8
    <3>2. m \in Upto(m) /\ k \in Upto(m) /\ p[m] \in Int /\ p[k] \in Int
      BY <2>1, <2>5, <2>8, <3>1
    <3>3. CASE p[k] <= p[m]
      BY <1>1, <2>4, <3>1, <3>2, <3>3
    <3>4. CASE p[m] <= p[k]
      <4>1. \A j \in Upto(m - 1) : p[j] \in Int
        OBVIOUS
      <4>2. \A j \in Upto(m) : p[m] <= p[j]
        BY <2>4, <3>1, <3>2, <3>4, <4>1
      <4> QED  BY <1>1, <3>2, <4>2
    <3> QED  BY <3>2, <3>3, <3>4
  <2> QED  BY <2>3, <2>6, <2>7, <2>8
<1>2. Bad = {}
  <2> SUFFICES ASSUME Bad # {} PROVE FALSE
    OBVIOUS
  <2>1. Bad \in SUBSET Nat
    OBVIOUS
  <2>2. PICK m \in Bad : \A i \in Bad : m <= i
    <3> HIDE DEF Bad
    <3> QED  BY <2>1, Least
  <2> QED  BY <1>1, <2>2
<1>3. Upto(n) = A
  <2>1. \A k \in 1..n : k <= n
    OBVIOUS
  <2> QED  BY <2>1
<1> QED  BY <1>2, <1>3

\* timespan_active_entry finds an entry of the schedule or none.
LEMMA ActiveIsEntry ==
    ASSUME NEW S, NEW entries \in Seq(S), NEW now, NEW default
    PROVE  LET e == ActiveEntry(entries, now, default) IN e = None \/ e \in S
<1> DEFINE n == Len(entries)
           active == ActiveEntries(entries, now)
           exclusive == {k \in active : entries[k].exclusive}
           slot == CycleSlot(entries, active, now, default)
<1>1. n \in Nat /\ active \in SUBSET (1..n) /\ \A k \in 1..n : entries[k] \in S
  BY LenProperties, ElementOfSeq DEF ActiveEntries
<1>2. active \in SUBSET Nat /\ exclusive \subseteq active
  BY <1>1
<1>3. slot # None /\ active # {} => slot \in active
  <2> DEFINE turns == Turns(entries, active, default)
             cycle == SumFunction(turns)
             elapsed == (now - OverlapStart(entries, active, now)) % cycle
             ends(k) == SumFunctionOnSet(turns, {j \in active : j <= k})
             open == {k \in active : elapsed < ends(k)}
  <2>1. slot = IF Cardinality(active) <= 1 \/ cycle = 0 THEN None
               ELSE IF open # {} THEN Min(open) ELSE Max(active)
    BY DEF CycleSlot
  <2>2. open \in SUBSET active
    OBVIOUS
  <2> HIDE DEF open, cycle, slot, active, n
  <2>3. open # {} => Min(open) \in open
    BY <1>2, <2>2, LowestIn
  <2>4. active # {} => Max(active) \in active
    BY <1>1, HighestIn
  <2> QED  BY <2>1, <2>2, <2>3, <2>4
<1>4. ActiveEntry(entries, now, default) =
        IF active = {} THEN None
        ELSE IF exclusive # {} THEN entries[Min(exclusive)]
        ELSE IF slot # None THEN entries[slot]
        ELSE entries[Min(active)]
  BY DEF ActiveEntry
<1> HIDE DEF active, exclusive, slot, n
<1>5. exclusive # {} => Min(exclusive) \in active
  BY <1>2, LowestIn
<1>6. active # {} => Min(active) \in active
  BY <1>2, LowestIn
<1> QED  BY <1>1, <1>3, <1>4, <1>5, <1>6

\* find_active_satellite_target finds an entry of the configuration or none.
LEMMA SatelliteIsEntry ==
    ASSUME NEW sats, NEW passes, NEW t, NEW pretune,
           sats # None => sats.entries \in Seq(SatelliteEntries)
    PROVE  LET e == SatelliteEntry(sats, passes, t, pretune) IN e = None \/ e \in SatelliteEntries
<1> DEFINE n == Len(sats.entries)
           p == [k \in 1..n |-> sats.entries[k].priority]
           able == Eligible(sats, passes, t, pretune)
           best == {k \in able : \A j \in able : sats.entries[k].priority <= sats.entries[j].priority}
<1> SUFFICES ASSUME sats # None, able # {} PROVE sats.entries[Min(best)] \in SatelliteEntries
  BY DEF SatelliteEntry
<1>1. n \in Nat /\ able \in SUBSET (1..n) /\ \A k \in 1..n : sats.entries[k] \in SatelliteEntries
  BY LenProperties, ElementOfSeq DEF Eligible
<1>2. \A k \in 1..n : p[k] \in Int /\ p[k] = sats.entries[k].priority
  BY <1>1 DEF SatelliteEntries
<1>3. \E k \in able : \A j \in able : p[k] <= p[j]
  <2> HIDE DEF p, able, n
  <2> QED  BY <1>1, <1>2, LowestOf
<1>4. best # {} /\ best \in SUBSET Nat /\ best \subseteq able
  <2>1. PICK k \in able : \A j \in able : p[k] <= p[j]
    BY <1>3
  <2>2. \A j \in able : p[j] = sats.entries[j].priority
    BY <1>1, <1>2
  <2> HIDE DEF p, able
  <2>3. k \in best
    BY <2>1, <2>2
  <2>4. best \subseteq able
    OBVIOUS
  <2>5. able \subseteq Nat
    BY <1>1
  <2> HIDE DEF best
  <2> QED  BY <2>3, <2>4, <2>5
<1>5. Min(best) \in best
  <2> HIDE DEF best
  <2> QED  BY <1>4, LowestIn
<1> QED  BY <1>1, <1>4, <1>5

LEMMA ConfigIsSchedule == ASSUME config \in Configs PROVE IsSchedule(config)
BY SchedulerAssumption

LEMMA TargetsOfEntries ==
    /\ \A e \in ScheduleEntry : TargetOf(e, None, e.record) \in Target
    /\ \A e \in SatelliteEntries : TargetOf(e, e.name, e.record) \in Target
BY DEF ScheduleEntry, SatelliteEntries, TargetOf, Target

\* Nothing is due but a target.
LEMMA DueIsTarget == ASSUME config \in Configs \cup {None} PROVE Due = None \/ Due \in Target
<1> SUFFICES ASSUME config \in Configs, config # None PROVE Due = None \/ Due \in Target
  BY DEF Due
<1>1. IsSchedule(config)
  BY ConfigIsSchedule
<1>2. SatelliteDue = None \/ SatelliteDue \in Target
  <2> DEFINE e == SatelliteEntry(config.sats, Passes, clock, Pretune)
  <2>1. e = None \/ e \in SatelliteEntries
    BY <1>1, SatelliteIsEntry DEF IsSchedule
  <2>2. SatelliteDue = IF e = None THEN None ELSE TargetOf(e, e.name, e.record)
    BY DEF SatelliteDue
  <2> HIDE DEF e
  <2> QED  BY <2>1, <2>2, TargetsOfEntries
<1>3. BaseDue = None \/ BaseDue \in Target
  <2>1. CASE config.mode = "disabled"
    BY <2>1 DEF BaseDue
  <2>2. CASE config.mode = "grayline"
    <3> DEFINE bm == IF config.grayline = None THEN None ELSE GraylineBookmark(config.grayline, Minute)
    <3>1. bm = None \/ bm \in Bookmarks
      <4>1. \A gl, now : GraylinePeriod(gl, now) \in Periods
        BY DEF GraylinePeriod, Periods
      <4> QED  BY <1>1, <4>1 DEF IsSchedule, GraylineBookmark
    <3>2. BaseDue = IF bm = None THEN None ELSE [bm |-> bm, extra |-> {}, sat |-> None, record |-> FALSE]
      BY <2>2 DEF BaseDue
    <3> HIDE DEF bm
    <3> QED  BY <3>1, <3>2 DEF Target
  <2>3. CASE config.mode = "timespan"
    <3> DEFINE e == ActiveEntry(config.entries, Minute, config.gap)
    <3>1. e = None \/ e \in ScheduleEntry
      BY <1>1, ActiveIsEntry DEF IsSchedule
    <3>2. BaseDue = IF e = None THEN None ELSE TargetOf(e, None, e.record)
      BY <2>3 DEF BaseDue
    <3> HIDE DEF e
    <3> QED  BY <3>1, <3>2, TargetsOfEntries
  <2> QED  BY <1>1, <2>1, <2>2, <2>3 DEF IsSchedule
<1> QED  BY <1>2, <1>3 DEF Due

(***************************************************************************)
(* The types.                                                               *)
(***************************************************************************)
Steps == {"tune", "decoders", "status", "stop", "start"}
JobsTyped == job \in [Threads -> Job \cup {NoJob}]
StatusTyped == status \in [bm : Bookmarks \cup {None}, extra : SUBSET Bookmarks, sat : STRING \cup {None}]
RigTyped == RigOK /\ rig.bm \in Bookmarks \cup {"user"} /\ rig.decoders \subseteq Bookmarks
RecordingTyped == recording \in [by : {"scheduler", "user"}, alive : BOOLEAN] \cup {None}
WorldTyped == clock \in 0..Horizon /\ config \in Configs \cup {None} /\ loaded \in BOOLEAN /\ books \subseteq Bookmarks
ControlTyped == control \in [Sessions -> {"away", "released", "holding"}]
BoundsTyped == moves \in 0..MaxMoves /\ faults \in 0..MaxFaults
FlagsTyped == seen \in BOOLEAN /\ aside \in {"no", "fresh", "noticed"} /\ forgotten \in BOOLEAN
MemoryTyped == last \in Target \cup {None} /\ late \in Command \cup {None}
TypesInd == /\ JobsTyped /\ StatusTyped /\ RigTyped /\ RecordingTyped /\ WorldTyped /\ ControlTyped
            /\ BoundsTyped /\ FlagsTyped /\ MemoryTyped

LEMMA TargetFields ==
    ASSUME NEW t \in Target
    PROVE  t.bm \in Bookmarks /\ t.extra \subseteq Bookmarks /\ t.sat \in STRING \cup {None}
BY DEF Target

LEMMA JobFields ==
    ASSUME NEW j \in Job
    PROVE  j.tgt \in Target /\ j.found \subseteq Bookmarks /\ j.step \in Steps
BY DEF Job, Steps

LEMMA NewJob ==
    ASSUME JobsTyped, NEW th \in Threads, NEW j \in Job \cup {NoJob}, job' = [job EXCEPT ![th] = j]
    PROVE  JobsTyped'
BY DEF JobsTyped

LEMMA BegunTyped ==
    ASSUME JobsTyped, NEW th \in Threads, NEW kind \in {"tick", "activate", "restore"}, NEW tgt \in Target,
           Begin(th, kind, tgt)
    PROVE  JobsTyped'
<1> DEFINE j == [kind |-> kind, tgt |-> tgt, found |-> tgt.extra \cap books, step |-> "tune"]
<1>1. tgt.extra \cap books \in SUBSET Bookmarks
  BY TargetFields
<1>2. j \in Job
  BY <1>1 DEF Job
<1>3. job' = [job EXCEPT ![th] = j]
  BY DEF Begin
<1> HIDE DEF j
<1> QED  BY <1>2, <1>3, NewJob

LEMMA WentTyped ==
    ASSUME JobsTyped, NEW th \in Threads, job[th].step # "idle", NEW step \in Steps, Goto(th, step)
    PROVE  JobsTyped' /\ job[th] \in Job
<1>1. job[th] \in Job
  BY DEF JobsTyped, NoJob
<1> DEFINE j == [job[th] EXCEPT !.step = step]
<1>2. j \in Job
  BY <1>1 DEF Job, Steps
<1>3. job' = [job EXCEPT ![th] = j]
  BY DEF Goto
<1> HIDE DEF j
<1> QED  BY <1>1, <1>2, <1>3, NewJob

LEMMA EndedTyped == ASSUME JobsTyped, NEW th \in Threads, Done(th) PROVE JobsTyped'
BY NewJob DEF Done

LEMMA TypesStart == Init => TypesInd
<1> SUFFICES ASSUME Init PROVE TypesInd
  OBVIOUS
<1>1. JobsTyped
  BY DEF Init, JobsTyped
<1>2. StatusTyped
  BY DEF Init, StatusTyped, NoStatus
<1>3. RigTyped
  BY DEF Init, RigTyped, RigOK
<1>4. RecordingTyped /\ MemoryTyped
  BY DEF Init, RecordingTyped, MemoryTyped
<1>5. WorldTyped /\ BoundsTyped
  BY SchedulerAssumption DEF Init, WorldTyped, BoundsTyped
<1>6. ControlTyped
  BY DEF Init, ControlTyped
<1>7. FlagsTyped
  BY DEF Init, FlagsTyped
<1> QED  BY <1>1, <1>2, <1>3, <1>4, <1>5, <1>6, <1>7 DEF TypesInd

\* Steps that touch neither a job, nor the rig, nor what the task remembers.
LEMMA TypedAside ==
    ASSUME TypesInd, UNCHANGED <<job, rig, status, last, late>>,
           RecordingTyped', WorldTyped', ControlTyped', BoundsTyped', FlagsTyped'
    PROVE  TypesInd'
BY DEF TypesInd, JobsTyped, RigTyped, RigOK, StatusTyped, MemoryTyped

LEMMA LeavesTyped == Leaves => aside' \in {"no", "fresh", "noticed"}
BY DEF Leaves

LEMMA TickTyped == ASSUME TypesInd, Tick PROVE TypesInd'
<1>1. UNCHANGED <<clock, config, loaded, books, control, rig, late, recording, moves, faults>>
  BY DEF Tick, world, bounds
<1>2. WorldTyped' /\ ControlTyped' /\ RigTyped' /\ RecordingTyped' /\ BoundsTyped'
  BY <1>1 DEF TypesInd, WorldTyped, ControlTyped, RigTyped, RigOK, RecordingTyped, BoundsTyped
<1>3. JobsTyped' /\ aside' \in {"no", "fresh", "noticed"}
  <2>1. CASE Due # None /\ Begin("task", "tick", Due) /\ aside' = "no"
    <3>1. Due \in Target
      BY <2>1, DueIsTarget DEF TypesInd, WorldTyped
    <3> QED  BY <2>1, <3>1, BegunTyped, TaskIsThread DEF TypesInd
  <2>2. CASE UNCHANGED <<job, aside>>
    BY <2>2 DEF TypesInd, JobsTyped, FlagsTyped
  <2> QED  BY <2>1, <2>2 DEF Tick
<1>4. MemoryTyped'
  <2>1. Cleared \in {None, last} /\ last' = Cleared /\ late' = late
    BY DEF Tick, Cleared, Fresh
  <2> QED  BY <2>1 DEF TypesInd, MemoryTyped
<1>5. StatusTyped'
  <2>1. status' = status \/ status' = [status EXCEPT !.sat = None]
    BY DEF Tick
  <2> QED  BY <2>1 DEF TypesInd, StatusTyped
<1>6. seen' \in BOOLEAN /\ forgotten' \in BOOLEAN
  <2>1. seen' = TRUE
    BY DEF Tick
  <2>2. Forget(Cleared)
    BY DEF Tick
  <2>3. forgotten' \in BOOLEAN
    BY Zenon, <2>2 DEF Forget
  <2> QED  BY <2>1, <2>3
<1> QED  BY <1>2, <1>3, <1>4, <1>5, <1>6 DEF TypesInd, FlagsTyped

LEMMA SendTyped ==
    ASSUME TypesInd, NEW th \in Threads, Send(th) \/ SendRefused(th) \/ SendTimesOut(th)
    PROVE  TypesInd'
<1> DEFINE c == CommandOf(th)
<1>1. /\ job[th].step \in {"tune", "decoders"} /\ Goto(th, After(job[th].step))
      /\ UNCHANGED <<clock, config, loaded, books, control, last, seen, status, recording, moves, forgotten>>
  BY DEF Send, SendRefused, SendTimesOut, At, world, memory, bounds
<1>2. JobsTyped' /\ job[th] \in Job
  <2>1. job[th].step # "idle" /\ After(job[th].step) \in Steps
    BY <1>1 DEF After, Steps
  <2> QED  BY <1>1, <2>1, WentTyped DEF TypesInd
<1>3. job[th].tgt.bm \in Bookmarks /\ job[th].found \subseteq Bookmarks
  BY <1>2, JobFields, TargetFields
<1>4. /\ c \in Command /\ c.bm \in Bookmarks /\ c.found \subseteq Bookmarks
  BY <1>1, <1>3 DEF CommandOf, Command
<1> HIDE DEF c
<1>5. (rig' = rig \/ rig' = Ran(c, rig)) /\ (late' = late \/ late' = c)
  BY DEF Send, SendRefused, SendTimesOut, c
<1>6. RigTyped'
  <2>1. CASE rig' = rig
    BY <2>1 DEF TypesInd, RigTyped, RigOK
  <2>2. CASE rig' = Ran(c, rig)
    <3>1. RigOK' /\ (rig'.bm = c.bm \/ rig'.bm = rig.bm)
      BY <2>2, RanRig DEF TypesInd, RigTyped
    <3>2. rig'.decoders = rig.decoders \/ rig'.decoders = {c.bm} \cup c.found
      <4>1. CASE c.what = "tune"
        BY <2>2, <4>1, RanTunes DEF TypesInd, RigTyped
      <4>2. CASE c.what # "tune"
        BY <2>2, <4>2, RanRig DEF TypesInd, RigTyped
      <4> QED  BY <4>1, <4>2
    <3> QED  BY <3>1, <3>2, <1>4 DEF TypesInd, RigTyped
  <2> QED  BY <1>5, <2>1, <2>2
<1>7. MemoryTyped'
  BY <1>1, <1>4, <1>5 DEF TypesInd, MemoryTyped
<1>8. aside' \in {"no", "fresh", "noticed"}
  BY LeavesTyped DEF Send, SendRefused, SendTimesOut, TypesInd, FlagsTyped
<1>9. faults' \in 0..MaxFaults
  <2>1. faults' = faults \/ (faults > 0 /\ faults' = faults - 1)
    BY DEF Send, SendRefused, SendTimesOut, bounds
  <2>2. faults \in 0..MaxFaults /\ MaxFaults \in Nat
    BY SchedulerAssumption DEF TypesInd, BoundsTyped
  <2> QED  BY ONLY <2>1, <2>2
<1>10. WorldTyped' /\ ControlTyped' /\ StatusTyped' /\ RecordingTyped'
  BY <1>1 DEF TypesInd, WorldTyped, ControlTyped, StatusTyped, RecordingTyped
<1>11. BoundsTyped' /\ FlagsTyped'
  BY <1>1, <1>8, <1>9 DEF TypesInd, BoundsTyped, FlagsTyped
<1> QED  BY <1>2, <1>6, <1>7, <1>10, <1>11 DEF TypesInd

LEMMA ReportTyped ==
    ASSUME TypesInd, NEW th \in Threads, Report(th) PROVE TypesInd'
<1>1. /\ job[th].step = "status" /\ (Goto(th, "stop") \/ Done(th))
      /\ UNCHANGED <<clock, config, loaded, books, control, last, seen, rig, late, recording, moves, faults,
                     forgotten>>
      /\ aside' = aside \/ Leaves
  BY DEF Report, At, world, bounds
<1>2. JobsTyped' /\ job[th] \in Job
  <2>1. job[th] \in Job
    BY <1>1 DEF TypesInd, JobsTyped, NoJob
  <2> QED  BY <1>1, <2>1, WentTyped, EndedTyped DEF TypesInd, Steps
<1>3. job[th].tgt \in Target
  BY <1>2, JobFields
<1>4. StatusTyped'
  <2>1. status' = [bm |-> job[th].tgt.bm, extra |-> job[th].tgt.extra, sat |-> job[th].tgt.sat]
    BY DEF Report
  <2> QED  BY <2>1, <1>3, TargetFields DEF StatusTyped
<1>5. aside' \in {"no", "fresh", "noticed"}
  BY <1>1, LeavesTyped DEF TypesInd, FlagsTyped
<1>6. WorldTyped' /\ ControlTyped' /\ RigTyped' /\ RecordingTyped' /\ BoundsTyped' /\ MemoryTyped'
  BY <1>1 DEF TypesInd, WorldTyped, ControlTyped, RigTyped, RigOK, RecordingTyped, BoundsTyped, MemoryTyped
<1> QED  BY <1>1, <1>2, <1>4, <1>5, <1>6 DEF TypesInd, FlagsTyped

LEMMA RecordTyped ==
    ASSUME TypesInd, StopRecording \/ StartRecording PROVE TypesInd'
<1>1. /\ job["task"].step # "idle" /\ (Goto("task", "start") \/ Done("task"))
      /\ UNCHANGED <<clock, config, loaded, books, control, seen, status, rig, late, moves, faults, aside, forgotten>>
  BY DEF StopRecording, StartRecording, At, world, memory, bounds
<1>2. JobsTyped' /\ job["task"] \in Job
  <2>1. job["task"] \in Job
    BY <1>1, TaskIsThread DEF TypesInd, JobsTyped, NoJob
  <2> QED  BY <1>1, <2>1, WentTyped, EndedTyped, TaskIsThread DEF TypesInd, Steps
<1>3. last' = last \/ last' = job["task"].tgt
  BY DEF StopRecording, StartRecording, memory
<1>4. MemoryTyped'
  BY <1>1, <1>2, <1>3, JobFields DEF TypesInd, MemoryTyped
<1>5. RecordingTyped'
  <2>1. recording' \in {recording, None, [by |-> "scheduler", alive |-> TRUE]}
    BY DEF StopRecording, StartRecording
  <2>2. [by |-> "scheduler", alive |-> TRUE] \in [by : {"scheduler", "user"}, alive : BOOLEAN]
    OBVIOUS
  <2> QED  BY <2>1, <2>2, Zenon DEF TypesInd, RecordingTyped
<1>6. WorldTyped' /\ ControlTyped' /\ StatusTyped' /\ RigTyped' /\ BoundsTyped' /\ FlagsTyped'
  BY <1>1 DEF TypesInd, WorldTyped, ControlTyped, StatusTyped, RigTyped, RigOK, BoundsTyped, FlagsTyped
<1> QED  BY <1>2, <1>4, <1>5, <1>6 DEF TypesInd

LEMMA MoveTyped == ASSUME BoundsTyped, Move PROVE BoundsTyped'
<1>1. moves \in 0..MaxMoves /\ faults \in 0..MaxFaults /\ MaxMoves \in Nat
  BY SchedulerAssumption DEF BoundsTyped
<1>2. moves > 0 /\ moves' = moves - 1 /\ faults' = faults
  BY DEF Move
<1>3. moves' \in 0..MaxMoves
  BY ONLY <1>1, <1>2
<1> QED  BY <1>1, <1>2, <1>3 DEF BoundsTyped

\* Activation and release.
LEMMA RoutesTyped ==
    ASSUME TypesInd, (\E h \in Handlers : Activate(h)) \/ (\E s \in Sessions : Release(s))
    PROVE  TypesInd'
<1>1. /\ UNCHANGED <<clock, config, books, last, seen, status, rig, late, recording, aside, forgotten>>
      /\ loaded' = loaded \/ loaded' = TRUE
      /\ Move
  BY DEF Activate, Release, world, memory
<1>2. JobsTyped'
  <2>1. CASE job' = job
    BY <2>1 DEF TypesInd, JobsTyped
  <2>2. ASSUME NEW h \in Handlers, Activate(h) PROVE JobsTyped'
    <3>1. PICK k \in DOMAIN config.entries :
             Begin(h, "activate", TargetOf(config.entries[k], None, config.entries[k].record))
      BY <2>2 DEF Activate
    <3>2. config \in Configs
      BY <2>2 DEF Activate, TypesInd, WorldTyped
    <3>3. config.entries \in Seq(ScheduleEntry)
      BY <3>2, ConfigIsSchedule DEF IsSchedule
    <3>4. config.entries[k] \in ScheduleEntry
      BY <3>1, <3>3, ElementOfSeq, LenProperties
    <3>5. TargetOf(config.entries[k], None, config.entries[k].record) \in Target
      BY <3>4, TargetsOfEntries
    <3> QED  BY <3>1, <3>5, BegunTyped DEF TypesInd, Threads
  <2>3. ASSUME NEW h \in Handlers, status.bm \in books,
               Begin(h, "restore", [bm |-> status.bm, extra |-> status.extra, sat |-> status.sat, record |-> FALSE])
        PROVE  JobsTyped'
    <3>1. status.bm \in Bookmarks /\ status.extra \in SUBSET Bookmarks /\ status.sat \in STRING \cup {None}
      BY <2>3 DEF TypesInd, WorldTyped, StatusTyped
    <3>2. [bm |-> status.bm, extra |-> status.extra, sat |-> status.sat, record |-> FALSE] \in Target
      BY <3>1 DEF Target
    <3> QED  BY <2>3, <3>2, BegunTyped DEF TypesInd, Threads
  <2> QED  BY <2>1, <2>2, <2>3 DEF Release
<1>3. ControlTyped'
  <2>1. control' = control \/ \E s \in Sessions : control' = [control EXCEPT ![s] = "released"]
    BY DEF Activate, Release
  <2> QED  BY <2>1 DEF TypesInd, ControlTyped
<1>4. BoundsTyped'
  BY <1>1, MoveTyped DEF TypesInd
<1>5. StatusTyped' /\ RigTyped' /\ RecordingTyped' /\ MemoryTyped' /\ FlagsTyped'
  BY <1>1 DEF TypesInd, StatusTyped, RigTyped, RigOK, RecordingTyped, MemoryTyped, FlagsTyped
<1>6. WorldTyped'
  BY <1>1 DEF TypesInd, WorldTyped
<1> QED  BY <1>2, <1>3, <1>4, <1>5, <1>6 DEF TypesInd

\* Sessions and users beside the schedule.
LEMMA UsersTyped ==
    ASSUME TypesInd,
           \/ TickHeld \/ Pass \/ RecorderEnds \/ UserStarts \/ UserStops
           \/ \E s \in Sessions : Take(s) \/ Comes(s) \/ Goes(s)
           \/ \E c \in Configs \cup {None} : Store(c)
           \/ \E b \in Bookmarks : RemoveBookmark(b)
           \/ UNCHANGED vars
    PROVE  TypesInd'
<1> USE DEF TickHeld, Pass, RecorderEnds, UserStarts, UserStops, Take, Comes, Goes, Store, RemoveBookmark, vars,
            world, memory, bounds
<1>1. UNCHANGED <<job, rig, status, last, late, forgotten>>
  OBVIOUS
<1>2. WorldTyped'
  <2>1. /\ clock' = clock \/ (clock < Horizon /\ clock' = clock + 1)
        /\ config' \in Configs \cup {None} \/ config' = config
        /\ loaded' = loaded \/ loaded' = TRUE
        /\ books' \subseteq books
    BY DEF Move
  <2>2. clock \in 0..Horizon /\ Horizon \in Nat
    BY SchedulerAssumption DEF TypesInd, WorldTyped
  <2>3. clock' \in 0..Horizon
    BY ONLY <2>1, <2>2
  <2> QED  BY <2>1, <2>3 DEF TypesInd, WorldTyped
<1>3. ControlTyped'
  <2>1. \/ control' = control
        \/ \E s \in Sessions : \E x \in {"away", "released", "holding"} : control' = [control EXCEPT ![s] = x]
    OBVIOUS
  <2> QED  BY <2>1 DEF TypesInd, ControlTyped
<1>4. BoundsTyped'
  <2>1. \/ UNCHANGED <<moves, faults>> \/ Move
        \/ moves' = moves /\ faults > 0 /\ faults' = faults - 1
    OBVIOUS
  <2>2. CASE Move
    BY <2>2, MoveTyped DEF TypesInd
  <2>3. moves \in 0..MaxMoves /\ faults \in 0..MaxFaults /\ MaxFaults \in Nat
    BY SchedulerAssumption DEF TypesInd, BoundsTyped
  <2>4. CASE moves' = moves /\ faults > 0 /\ faults' = faults - 1
    <3>1. moves' \in 0..MaxMoves /\ faults' \in 0..MaxFaults
      BY ONLY <2>3, <2>4
    <3> QED  BY <3>1 DEF BoundsTyped
  <2>5. CASE UNCHANGED <<moves, faults>>
    BY <2>5 DEF TypesInd, BoundsTyped
  <2> QED  BY <2>1, <2>2, <2>4, <2>5
<1>5. RecordingTyped'
  <2>1. \/ recording' = recording \/ recording' = None
        \/ recording' = [by |-> "user", alive |-> TRUE]
        \/ recording # None /\ recording' = [recording EXCEPT !.alive = FALSE]
    OBVIOUS
  <2>2. [by |-> "user", alive |-> TRUE] \in [by : {"scheduler", "user"}, alive : BOOLEAN]
    OBVIOUS
  <2>3. ASSUME NEW r \in [by : {"scheduler", "user"}, alive : BOOLEAN]
        PROVE  [r EXCEPT !.alive = FALSE] \in [by : {"scheduler", "user"}, alive : BOOLEAN]
    OBVIOUS
  <2> QED  BY <2>1, <2>2, <2>3, Zenon DEF TypesInd, RecordingTyped
<1>6. FlagsTyped'
  <2>1. (seen' = seen \/ seen' = FALSE) /\ (aside' = aside \/ aside' = "noticed")
    OBVIOUS
  <2> QED  BY <1>1, <2>1 DEF TypesInd, FlagsTyped
<1> QED  BY <1>1, <1>2, <1>3, <1>4, <1>5, <1>6, TypedAside

\* What tunes the rig beside any thread.
LEMMA TunesTyped == ASSUME TypesInd, LateRuns \/ UserTunes PROVE TypesInd'
<1>1. /\ UNCHANGED <<clock, config, loaded, books, control, last, seen, status, job, recording, faults, forgotten>>
      /\ late' \in {late, None} /\ Leaves
  BY DEF LateRuns, UserTunes, world, memory, bounds, Move
<1>2. BoundsTyped'
  <2>1. CASE Move
    BY <2>1, MoveTyped DEF TypesInd
  <2>2. CASE UNCHANGED <<moves, faults>>
    BY <2>2 DEF TypesInd, BoundsTyped
  <2> QED  BY <2>1, <2>2 DEF LateRuns, UserTunes, bounds
<1>3. RigTyped'
  <2>1. CASE LateRuns
    <3>1. rig' = Ran(late, rig) /\ late \in Command
      BY <2>1 DEF LateRuns, TypesInd, MemoryTyped
    <3>2. late.bm \in Bookmarks /\ late.found \subseteq Bookmarks
      BY <3>1 DEF Command
    <3>3. RigOK' /\ (rig'.bm = late.bm \/ rig'.bm = rig.bm)
      BY <3>1, RanRig DEF TypesInd, RigTyped
    <3>4. rig'.decoders = rig.decoders \/ rig'.decoders = {late.bm} \cup late.found
      <4>1. CASE late.what = "tune"
        BY <3>1, <4>1, RanTunes DEF TypesInd, RigTyped
      <4>2. CASE late.what # "tune"
        BY <3>1, <4>2, RanRig DEF TypesInd, RigTyped
      <4> QED  BY <4>1, <4>2
    <3> QED  BY <3>2, <3>3, <3>4 DEF TypesInd, RigTyped
  <2>2. CASE UserTunes
    <3> DEFINE d == rig.decoders
    <3>1. rig' = [bm |-> "user", decoders |-> d] /\ d \subseteq Bookmarks
      BY <2>2 DEF UserTunes, TypesInd, RigTyped, RigOK
    <3> HIDE DEF d
    <3> QED  BY <3>1 DEF RigTyped, RigOK
  <2> QED  BY <2>1, <2>2
<1>4. MemoryTyped'
  BY <1>1 DEF TypesInd, MemoryTyped
<1>5. FlagsTyped'
  BY <1>1, LeavesTyped DEF TypesInd, FlagsTyped
<1>6. WorldTyped' /\ ControlTyped' /\ StatusTyped' /\ RecordingTyped' /\ JobsTyped'
  BY <1>1 DEF TypesInd, WorldTyped, ControlTyped, StatusTyped, RecordingTyped, JobsTyped
<1> QED  BY <1>2, <1>3, <1>4, <1>5, <1>6 DEF TypesInd

LEMMA RestartTyped == ASSUME TypesInd, Restart PROVE TypesInd'
<1> USE DEF Restart
<1>1. JobsTyped'
  BY DEF JobsTyped
<1>2. StatusTyped'
  BY DEF StatusTyped, NoStatus
<1>3. RigTyped'
  BY DEF TypesInd, RigTyped, RigOK
<1>4. RecordingTyped' /\ MemoryTyped'
  BY DEF RecordingTyped, MemoryTyped
<1>5. WorldTyped'
  BY DEF TypesInd, WorldTyped
<1>6. ControlTyped'
  BY DEF ControlTyped
<1>7. FlagsTyped'
  BY DEF FlagsTyped
<1>8. BoundsTyped'
  <2>1. moves \in 0..MaxMoves /\ faults \in 0..MaxFaults /\ MaxFaults \in Nat
    BY SchedulerAssumption DEF TypesInd, BoundsTyped
  <2>2. faults > 0 /\ faults' = faults - 1 /\ moves' = moves
    OBVIOUS
  <2>3. moves' \in 0..MaxMoves /\ faults' \in 0..MaxFaults
    BY ONLY <2>1, <2>2
  <2> QED  BY <2>3 DEF BoundsTyped
<1> QED  BY <1>1, <1>2, <1>3, <1>4, <1>5, <1>6, <1>7, <1>8 DEF TypesInd

LEMMA TypesSteps == TypesInd /\ [Next]_vars => TypesInd'
<1> SUFFICES ASSUME TypesInd, [Next]_vars PROVE TypesInd'
  OBVIOUS
<1>1. ASSUME NEW th \in Threads, Work(th) \/ SendRefused(th) \/ SendTimesOut(th)
      PROVE  TypesInd'
  BY <1>1, SendTyped, ReportTyped, RecordTyped DEF Work
<1> QED  BY <1>1, TickTyped, RoutesTyped, UsersTyped, TunesTyped, RestartTyped DEF Next

\* Whatever is stored, predicted and pressed, the scheduler holds the targets of its
\* schedules and no others, and the rig, the status and the record of what was applied agree.
THEOREM ScheduleHolds == Spec => []ScheduleInv
<1>1. TypesInd => TypeOK
  BY DEF TypesInd, TypeOK, JobsTyped, StatusTyped, RigTyped, RecordingTyped, WorldTyped, ControlTyped, BoundsTyped,
         FlagsTyped, MemoryTyped
<1>2. TypeOK /\ AppliedAsRecorded => ScheduleInv
  BY DEF ScheduleInv
<1>3. Spec => []TypesInd
  BY TypesStart, TypesSteps, PTL DEF Spec
<1> QED  BY <1>1, <1>2, <1>3, ScheduleApplied, PTL

(***************************************************************************)
(* The session of a page.  A logout that finds nothing under way leaves     *)
(* nothing behind; what it does find is what may still connect. The streams *)
(* are those of the tab as long as no selection is awaited, the two small   *)
(* ones even after a selection that was refused.                            *)
(***************************************************************************)
Stream == [at : Ats, rig : Tabs \cup {Nothing}]
Source == [at : Ats, rig : Tabs \cup {Nothing}, retry : BOOLEAN]

SessionTypes ==
    /\ authRole \in {"none", "rx", "control"} /\ gate \in {"off", "form", "guest"}
    /\ asks \subseteq {"logout", "check"}
    /\ lastActiveRigId \in Tabs /\ selecting \cup fetches \subseteq Tabs
    /\ rendered \in Tabs \cup {Nothing}
    /\ es \in Stream /\ spectrumSource \in Source /\ meterSource \in Source
    /\ decodeSource \in Ats /\ decodeRetries \in Nat /\ events \in 0..MaxEvents

\* Every stream of decodes, open or to be tried again, goes back to a login.
DecodesCounted ==
    /\ decodeRetries <= events
    /\ Streaming(decodeSource) => decodeRetries + 1 <= events

\* A logout that left nothing behind left nothing under way either.
NothingUnderWay ==
    authRole = "none" /\ ~loose =>
        /\ ~Streaming(es.at) /\ ~reconnectTimer /\ ~esHeartbeat /\ ~Streaming(decodeSource)
        /\ spectrumSource = Silent /\ meterSource = Silent
        /\ selecting = {} /\ decodeRetries = 0 /\ fetches = {}

\* Spectrum and meter follow the tab through a refused selection, the states do not.
OfTheTab ==
    selecting = {} =>
        /\ Streaming(meterSource.at) => meterSource.rig = lastActiveRigId
        /\ Streaming(spectrumSource.at) => spectrumSource.rig = lastActiveRigId
        /\ ~refused /\ Streaming(es.at) =>
              /\ es.rig = lastActiveRigId
              /\ told /\ ~overtaken => rendered = lastActiveRigId

SessionInd ==
    SessionTypes /\ DecodesCounted /\ LoggedInIsWatched /\ NothingUnderWay /\ OfTheTab

LEMMA SessionBounds == Sdrs \subseteq Tabs /\ Nothing \notin Tabs /\ MaxEvents \in Nat
BY PageSessionAssumption DEF PageSessionAssumption

LEMMA SessionImplies == SessionInd => PageSessionInv
<1> SUFFICES ASSUME SessionInd PROVE PageSessionInv
  OBVIOUS
<1> USE SessionBounds DEF SessionInd
<1>1. decodeRetries \in 0..(MaxEvents + 1)
  BY DEF SessionTypes, DecodesCounted
<1>2. {es.at, spectrumSource.at, meterSource.at, decodeSource} \subseteq Ats
  BY DEF SessionTypes, Stream, Source
<1>3. PageSessionTypeOK
  BY <1>1, <1>2 DEF SessionTypes, PageSessionTypeOK
<1>4. LoggedOutIsQuiet
  BY DEF LoggedOutIsQuiet, NothingUnderWay
<1>5. StreamsFollowTab
  BY DEF StreamsFollowTab, OfTheTab, Streaming, SessionTypes
<1> QED  BY <1>3, <1>4, <1>5 DEF PageSessionInv

LEMMA SessionStarts == PageSessionInit => SessionInd
<1> SUFFICES ASSUME PageSessionInit PROVE SessionInd
  OBVIOUS
<1> USE SessionBounds DEF PageSessionInit
<1>1. SessionTypes
  BY DEF SessionTypes, Stream, Source, Off, Silent, Ats
<1> QED  BY <1>1 DEF SessionInd, DecodesCounted, LoggedInIsWatched, NothingUnderWay, OfTheTab,
                    Streaming, Off, Silent

LEMMA Sources ==
    ASSUME NEW s \in Source, SessionTypes
    PROVE  /\ Restarted \in Source /\ Silent \in Source /\ Off \in Stream
           /\ Restarted.rig = lastActiveRigId /\ Restarted.at = "trying"
           /\ ~Streaming(Silent.at) /\ ~Streaming(Off.at)
           /\ Started(s) \in Source
           /\ s.at = "none" => Started(s).at = "trying" /\ Started(s).rig = lastActiveRigId
           /\ s.at # "none" => Started(s) = s
BY DEF Source, Stream, SessionTypes, Restarted, Silent, Off, Started, Ats, Streaming

\* Steps of the stream of states.
LEMMA RenderedKeeps ==
    ASSUME SessionInd, NEW r \in Tabs \cup {Nothing}, Rendered(r)
    PROVE  /\ spectrumSource' \in Source /\ rendered' = r
           /\ spectrumSource.at = "none" \/ spectrumSource' \in {spectrumSource, Silent}
           /\ Streaming(spectrumSource'.at) => \/ spectrumSource'.rig = lastActiveRigId
                                               \/ spectrumSource' = spectrumSource
<1> spectrumSource \in Source /\ SessionTypes
  BY DEF SessionInd, SessionTypes
<1> QED  BY Sources DEF Rendered, Source

LEMMA EsKeeps ==
    ASSUME SessionInd, EsOpens \/ EsDrops \/ EsRefused \/ Heartbeat
    PROVE  SessionInd'
<1> USE SessionBounds DEF SessionInd, loginVars, decodeVars
<1>1. es \in Stream /\ lastActiveRigId \in Tabs
  BY DEF SessionTypes
<1>2. PICK at \in {"open", "trying", "closed"} :
         es' = [es EXCEPT !.at = at] /\ (at = "closed" \/ Streaming(es.at))
  BY DEF EsOpens, EsDrops, EsRefused, Heartbeat, Streaming
<1>3. es' \in Stream /\ es'.rig = es.rig /\ es'.at = at
  BY <1>1, <1>2 DEF Stream, Ats
<1>4. Streaming(es'.at) => Streaming(es.at)
  BY <1>2, <1>3 DEF Streaming
<1>5. SessionTypes'
  <2>1. /\ UNCHANGED <<guests, session, authRole, gate, asks, lastActiveRigId, selecting, rendered>>
        /\ UNCHANGED <<spectrumSource, meterSource, decodeSource, decodeRetries>>
        /\ fetches' \subseteq fetches \cup {lastActiveRigId}
    BY DEF EsOpens, EsDrops, EsRefused, Heartbeat
  <2>2. events' = events \/ Event
    BY DEF EsOpens, EsDrops, EsRefused, Heartbeat, Event
  <2>3. events' \in 0..MaxEvents
    BY <2>2 DEF SessionTypes, Event
  <2> QED  BY <1>1, <1>3, <2>1, <2>3 DEF SessionTypes
<1>6. DecodesCounted'
  BY DEF DecodesCounted, SessionTypes, EsOpens, EsDrops, EsRefused, Heartbeat, Event
<1>7. LoggedInIsWatched'
  BY DEF LoggedInIsWatched, EsOpens, EsDrops, EsRefused, Heartbeat
<1>8. NothingUnderWay'
  BY <1>3 DEF NothingUnderWay, EsOpens, EsDrops, EsRefused, Heartbeat, Streaming
<1>9. OfTheTab'
  BY <1>3, <1>4 DEF OfTheTab, EsOpens, EsDrops, EsRefused, Heartbeat
<1> QED  BY <1>5, <1>6, <1>7, <1>8, <1>9

LEMMA BringsKeeps == ASSUME SessionInd, EsBrings PROVE SessionInd'
<1> USE SessionBounds DEF SessionInd, loginVars, decodeVars, EsBrings
<1>1. es.rig \in Tabs \cup {Nothing} /\ Streaming(es.at)
  BY DEF SessionTypes, Stream, Streaming
<1>2. /\ spectrumSource' \in Source /\ rendered' = es.rig
      /\ Streaming(spectrumSource'.at) => \/ spectrumSource'.rig = lastActiveRigId
                                          \/ spectrumSource' = spectrumSource
  BY <1>1, RenderedKeeps
<1>3. SessionTypes'
  BY <1>1, <1>2 DEF SessionTypes
<1>4. DecodesCounted'  BY DEF DecodesCounted
<1>5. LoggedInIsWatched'  BY DEF LoggedInIsWatched
<1>6. NothingUnderWay'  BY <1>1 DEF NothingUnderWay
<1>7. OfTheTab'  BY <1>1, <1>2 DEF OfTheTab
<1> QED  BY <1>3, <1>4, <1>5, <1>6, <1>7

LEMMA StatusKeeps == ASSUME SessionInd, NEW r \in fetches, StatusComes(r) PROVE SessionInd'
<1> USE SessionBounds DEF SessionInd, loginVars, decodeVars, StatusComes
<1>1. r \in Tabs \cup {Nothing} /\ fetches' \subseteq Tabs
  BY DEF SessionTypes
<1>2. /\ spectrumSource' \in Source
      /\ Streaming(spectrumSource'.at) => \/ spectrumSource'.rig = lastActiveRigId
                                          \/ spectrumSource' = spectrumSource
  BY <1>1, RenderedKeeps DEF SessionTypes
<1>3. \/ UNCHANGED <<rendered, overtaken>>
      \/ rendered' = r /\ overtaken' = (overtaken \/ (told /\ r # es.rig))
  BY DEF Rendered
<1>4. SessionTypes'
  BY <1>1, <1>2, <1>3 DEF SessionTypes
<1>5. DecodesCounted'  BY DEF DecodesCounted
<1>6. LoggedInIsWatched'  BY DEF LoggedInIsWatched
<1>7. NothingUnderWay'  BY DEF NothingUnderWay
<1>8. OfTheTab'  BY <1>2, <1>3 DEF OfTheTab
<1> QED  BY <1>4, <1>5, <1>6, <1>7, <1>8

\* A stream that connects anew is one of the tab.
LEMMA ConnectsKeeps ==
    ASSUME SessionInd, Connects
    PROVE  /\ es' \in Stream /\ es'.rig = lastActiveRigId /\ es'.at = "trying"
           /\ esHeartbeat' = TRUE /\ told' = FALSE
           /\ meterSource' \in Source /\ meterSource'.rig = lastActiveRigId
           /\ fetches' \subseteq Tabs
BY Sources DEF Connects, SessionInd, SessionTypes, Stream, Ats

LEMMA ReconnectsKeeps == ASSUME SessionInd, Reconnects PROVE SessionInd'
<1> USE SessionBounds DEF SessionInd, loginVars, decodeVars, Reconnects
<1>1. /\ es' \in Stream /\ es'.rig = lastActiveRigId /\ es'.at = "trying"
      /\ esHeartbeat' = TRUE /\ told' = FALSE
      /\ meterSource' \in Source /\ meterSource'.rig = lastActiveRigId
      /\ fetches' \subseteq Tabs
  BY ConnectsKeeps
<1>2. SessionTypes'
  BY <1>1 DEF SessionTypes
<1>3. DecodesCounted'  BY DEF DecodesCounted
<1>4. LoggedInIsWatched'  BY <1>1 DEF LoggedInIsWatched
<1>5. NothingUnderWay'  BY DEF NothingUnderWay
<1>6. OfTheTab'  BY <1>1 DEF OfTheTab
<1> QED  BY <1>2, <1>3, <1>4, <1>5, <1>6

\* Spectrum and meter.
LEMMA MovesKeep ==
    ASSUME SessionInd, SpectrumMoves \/ MeterMoves
    PROVE  SessionInd'
<1> USE SessionBounds DEF SessionInd, loginVars, decodeVars
<1>1. ASSUME NEW source \in Source, NEW next, NEW other, NEW otherNext,
             StreamMoves(source, next, other, otherNext)
      PROVE  /\ next \in Source /\ source # Silent
             /\ Streaming(next.at) => \/ next.rig = lastActiveRigId
                                      \/ Streaming(source.at) /\ next.rig = source.rig
  <2>1. /\ Started(source) \in Source
        /\ source.at = "none" => Started(source).at = "trying" /\ Started(source).rig = lastActiveRigId
        /\ source.at # "none" => Started(source) = source
    BY Sources
  <2>2. CASE source.retry /\ next = [Started(source) EXCEPT !.retry = FALSE]
    <3>1. next \in Source /\ next.at = Started(source).at /\ next.rig = Started(source).rig
      BY <2>1, <2>2 DEF Source
    <3>2. source # Silent
      <4>1. Silent.retry = FALSE
        BY DEF Silent
      <4> QED  BY <4>1, <2>2
    <3>3. source.at # "none" => Streaming(source.at) \/ ~Streaming(next.at)
      BY <2>1, <3>1 DEF Streaming
    <3> QED  BY <2>1, <3>1, <3>2, <3>3
  <2>3. CASE source.at = "trying" /\ next = [source EXCEPT !.at = "open"]
    BY <2>3 DEF Source, Silent, Streaming, Ats
  <2>4. CASE /\ source.at \in {"trying", "open"}
             /\ next = [source EXCEPT !.at = "none", !.rig = Nothing, !.retry = TRUE]
    <3>1. next = [at |-> "none", rig |-> Nothing, retry |-> TRUE]
      BY <2>4 DEF Source
    <3> QED  BY <3>1, <2>4 DEF Source, Silent, Streaming, Ats
  <2> QED  BY <1>1, <2>2, <2>3, <2>4 DEF StreamMoves
<1>2. /\ UNCHANGED <<lastActiveRigId, selecting, es, esHeartbeat, reconnectTimer, fetches, told,
                    rendered, overtaken, refused, loose>>
      /\ UNCHANGED <<guests, session, authRole, gate, asks, decodeSource, decodeRetries>>
      /\ events' = events \/ Event
  BY DEF SpectrumMoves, MeterMoves, StreamMoves
<1>3. spectrumSource \in Source /\ meterSource \in Source
  BY DEF SessionTypes
<1>4. CASE SpectrumMoves
  <2>1. /\ spectrumSource' \in Source /\ spectrumSource # Silent /\ meterSource' = meterSource
        /\ Streaming(spectrumSource'.at) =>
              \/ spectrumSource'.rig = lastActiveRigId
              \/ Streaming(spectrumSource.at) /\ spectrumSource'.rig = spectrumSource.rig
    BY <1>1, <1>3, <1>4 DEF SpectrumMoves, StreamMoves
  <2>2. SessionTypes'
    BY <1>2, <2>1 DEF SessionTypes, Event
  <2>3. DecodesCounted'  BY <1>2 DEF DecodesCounted, Event, SessionTypes
  <2>4. LoggedInIsWatched'  BY <1>2 DEF LoggedInIsWatched
  <2>5. NothingUnderWay'  BY <1>2, <2>1 DEF NothingUnderWay
  <2>6. OfTheTab'  BY <1>2, <2>1 DEF OfTheTab
  <2> QED  BY <2>2, <2>3, <2>4, <2>5, <2>6
<1>5. CASE MeterMoves
  <2>1. /\ meterSource' \in Source /\ meterSource # Silent /\ spectrumSource' = spectrumSource
        /\ Streaming(meterSource'.at) =>
              \/ meterSource'.rig = lastActiveRigId
              \/ Streaming(meterSource.at) /\ meterSource'.rig = meterSource.rig
    BY <1>1, <1>3, <1>5 DEF MeterMoves, StreamMoves
  <2>2. SessionTypes'
    BY <1>2, <2>1 DEF SessionTypes, Event
  <2>3. DecodesCounted'  BY <1>2 DEF DecodesCounted, Event, SessionTypes
  <2>4. LoggedInIsWatched'  BY <1>2 DEF LoggedInIsWatched
  <2>5. NothingUnderWay'  BY <1>2, <2>1 DEF NothingUnderWay
  <2>6. OfTheTab'  BY <1>2, <2>1 DEF OfTheTab
  <2> QED  BY <2>2, <2>3, <2>4, <2>5, <2>6
<1> QED  BY <1>4, <1>5

\* The stream of decodes.
LEMMA DecodesKeep ==
    ASSUME SessionInd, DecodeOpens \/ DecodeFails \/ DecodeRetry
    PROVE  SessionInd'
<1> USE SessionBounds DEF SessionInd, loginVars, streamVars, DecodeOpens, DecodeFails, DecodeRetry
<1>1. /\ UNCHANGED <<lastActiveRigId, selecting, es, esHeartbeat, reconnectTimer, spectrumSource,
                    meterSource, fetches, told, rendered, overtaken, refused, loose>>
      /\ UNCHANGED <<guests, session, authRole, gate, asks>>
      /\ events' = events \/ Event
  BY DEF Event
<1>2. SessionTypes'
  BY <1>1 DEF SessionTypes, Event, Ats
<1>3. DecodesCounted'
  BY <1>1 DEF SessionTypes, Event, DecodesCounted, Streaming
<1>4. LoggedInIsWatched'  BY <1>1 DEF LoggedInIsWatched
<1>5. NothingUnderWay'
  BY <1>1 DEF NothingUnderWay, Streaming, SessionTypes
<1>6. OfTheTab'  BY <1>1 DEF OfTheTab
<1> QED  BY <1>2, <1>3, <1>4, <1>5, <1>6

\* The user and the session.
LEMMA LogInKeeps ==
    ASSUME SessionInd, NEW role \in {"rx", "control"}, LogIn(role)
    PROVE  SessionInd'
<1> USE SessionBounds DEF SessionInd, LogIn, Event
<1>1. /\ es' \in Stream /\ es'.rig = lastActiveRigId /\ es'.at = "trying"
      /\ esHeartbeat' = TRUE /\ told' = FALSE
      /\ meterSource' \in Source /\ meterSource'.rig = lastActiveRigId
      /\ fetches' \subseteq Tabs
  BY ConnectsKeeps
<1>2. SessionTypes'
  BY <1>1 DEF SessionTypes, Ats
<1>3. DecodesCounted'  BY DEF DecodesCounted, SessionTypes
<1>4. LoggedInIsWatched'  BY <1>1 DEF LoggedInIsWatched
<1>5. NothingUnderWay'  BY DEF NothingUnderWay
<1>6. OfTheTab'  BY <1>1 DEF OfTheTab
<1> QED  BY <1>2, <1>3, <1>4, <1>5, <1>6

LEMMA LoggedOutKeeps == ASSUME SessionInd, LoggedOut PROVE SessionInd'
<1> USE SessionBounds DEF SessionInd, LoggedOut
<1>1. es' \in Stream /\ spectrumSource' \in Source /\ meterSource' \in Source
      /\ ~Streaming(es'.at) /\ ~Streaming(spectrumSource'.at) /\ ~Streaming(meterSource'.at)
  BY Sources DEF SessionTypes
<1>2. SessionTypes'
  BY <1>1 DEF SessionTypes, Ats
<1>3. DecodesCounted'  BY DEF DecodesCounted, Streaming
<1>4. LoggedInIsWatched'  BY DEF LoggedInIsWatched
<1>5. NothingUnderWay'
  <2>1. ~loose' => selecting = {} /\ ~(decodeRetries > 0) /\ fetches = {}
    BY Zenon
  <2>2. ~(decodeRetries > 0) => decodeRetries = 0
    BY DEF SessionTypes
  <2> QED  BY <1>1, <2>1, <2>2 DEF NothingUnderWay, Streaming
<1>6. OfTheTab'  BY <1>1 DEF OfTheTab
<1> QED  BY <1>2, <1>3, <1>4, <1>5, <1>6

LEMMA FormKeeps ==
    ASSUME SessionInd, LogOut \/ Checked \/ ShowGate \/ SessionEnds
    PROVE  SessionInd'
<1> USE SessionBounds DEF SessionInd, streamVars, decodeVars, LogOut, Checked, ShowGate, SessionEnds
<1>1. /\ UNCHANGED <<lastActiveRigId, selecting, es, esHeartbeat, reconnectTimer, spectrumSource,
                    meterSource, fetches, told, rendered, overtaken, refused, loose>>
      /\ UNCHANGED <<guests, authRole, decodeSource, decodeRetries>>
      /\ events' = events \/ Event
  BY DEF Event
<1>2. SessionTypes'
  <2>1. events' \in 0..MaxEvents
    BY <1>1 DEF SessionTypes, Event
  <2>2. gate' \in {"off", "form", "guest"} /\ asks' \subseteq {"logout", "check"}
    BY DEF SessionTypes
  <2> QED  BY <1>1, <2>1, <2>2 DEF SessionTypes
<1>3. DecodesCounted'  BY <1>1 DEF DecodesCounted, Event, SessionTypes
<1>4. LoggedInIsWatched'  BY <1>1 DEF LoggedInIsWatched
<1>5. NothingUnderWay'  BY <1>1 DEF NothingUnderWay
<1>6. OfTheTab'  BY <1>1 DEF OfTheTab
<1> QED  BY <1>2, <1>3, <1>4, <1>5, <1>6

\* A refusal for want of a session closes the stream of states.
LEMMA ClosedStream ==
    ASSUME SessionInd, es' = IF es.at = "none" THEN es ELSE [es EXCEPT !.at = "closed"]
    PROVE  es' \in Stream /\ ~Streaming(es'.at)
BY DEF SessionInd, SessionTypes, Stream, Streaming, Ats

LEMMA PostKeeps == ASSUME SessionInd, PostRefused PROVE SessionInd'
<1> USE SessionBounds DEF SessionInd, decodeVars, PostRefused, Unauthorized
<1>1. es' \in Stream /\ ~Streaming(es'.at)
  BY ClosedStream
<1>2. SessionTypes'
  BY <1>1 DEF SessionTypes, Event
<1>3. DecodesCounted'  BY DEF DecodesCounted, Event, SessionTypes
<1>4. LoggedInIsWatched'  BY DEF LoggedInIsWatched
<1>5. NothingUnderWay'  BY DEF NothingUnderWay
<1>6. OfTheTab'  BY <1>1 DEF OfTheTab
<1> QED  BY <1>2, <1>3, <1>4, <1>5, <1>6

LEMMA SwitchKeeps == ASSUME SessionInd, NEW r \in Tabs, SwitchRig(r) PROVE SessionInd'
<1> USE SessionBounds DEF SessionInd, loginVars, streamVars, decodeVars, SwitchRig
<1>1. SessionTypes'
  BY DEF SessionTypes, Event
<1>2. DecodesCounted'  BY DEF DecodesCounted, Event, SessionTypes
<1>3. LoggedInIsWatched'  BY DEF LoggedInIsWatched
<1>4. NothingUnderWay'  BY DEF NothingUnderWay
<1>5. OfTheTab'  BY DEF OfTheTab
<1> QED  BY <1>1, <1>2, <1>3, <1>4, <1>5

LEMMA SelectedKeeps == ASSUME SessionInd, NEW r \in selecting, Selected(r) PROVE SessionInd'
<1> USE SessionBounds DEF SessionInd, loginVars, decodeVars, Selected
<1>1. /\ es' \in Stream /\ es'.rig = lastActiveRigId /\ es'.at = "trying"
      /\ esHeartbeat' = TRUE /\ told' = FALSE
      /\ meterSource' \in Source /\ meterSource'.rig = lastActiveRigId
      /\ fetches' \subseteq Tabs
  BY ConnectsKeeps
<1>2. spectrumSource' \in Source /\ spectrumSource'.rig = lastActiveRigId
  BY Sources DEF SessionTypes
<1>3. SessionTypes'
  BY <1>1, <1>2 DEF SessionTypes
<1>4. DecodesCounted'  BY DEF DecodesCounted
<1>5. LoggedInIsWatched'  BY <1>1 DEF LoggedInIsWatched
<1>6. NothingUnderWay'  BY DEF NothingUnderWay
<1>7. OfTheTab'  BY <1>1, <1>2 DEF OfTheTab
<1> QED  BY <1>3, <1>4, <1>5, <1>6, <1>7

LEMMA NotSelectedKeeps == ASSUME SessionInd, NEW r \in selecting, NotSelected(r) PROVE SessionInd'
<1> USE SessionBounds DEF SessionInd, decodeVars, NotSelected
<1>1. /\ spectrumSource' \in Source /\ spectrumSource'.rig = lastActiveRigId
      /\ meterSource' \in Source /\ meterSource'.rig = lastActiveRigId
  BY Sources DEF SessionTypes
<1>2. \/ authRole' = "none" /\ gate' = "form" /\ loose' = TRUE /\ es' \in Stream /\ events' = events
      \/ Event /\ UNCHANGED <<authRole, gate, loose, es>>
  BY ClosedStream
<1>3. SessionTypes'
  BY <1>1, <1>2 DEF SessionTypes, Event
<1>4. DecodesCounted'  BY <1>2 DEF DecodesCounted, Event, SessionTypes
<1>5. LoggedInIsWatched'  BY <1>2 DEF LoggedInIsWatched
<1>6. NothingUnderWay'  BY <1>2 DEF NothingUnderWay
<1>7. OfTheTab'  BY <1>1 DEF OfTheTab
<1> QED  BY <1>3, <1>4, <1>5, <1>6, <1>7

LEMMA SessionSteps == SessionInd /\ [PageSessionNext]_pageSessionVars => SessionInd'
<1> SUFFICES ASSUME SessionInd, [PageSessionNext]_pageSessionVars PROVE SessionInd'
  OBVIOUS
<1>1. CASE UNCHANGED pageSessionVars
  BY <1>1 DEF pageSessionVars, loginVars, streamVars, decodeVars, SessionInd, SessionTypes,
              DecodesCounted, LoggedInIsWatched, NothingUnderWay, OfTheTab, Streaming
<1>2. CASE PageSessionNext
  BY <1>2, EsKeeps, BringsKeeps, StatusKeeps, ReconnectsKeeps, MovesKeep, DecodesKeep, LogInKeeps,
     LoggedOutKeeps, FormKeeps, PostKeeps, SwitchKeeps, SelectedKeeps, NotSelectedKeeps
     DEF PageSessionNext
<1> QED  BY <1>1, <1>2

\* A page that somebody is logged in to watches its stream, a page that was logged out
\* properly is quiet for good, and the streams show the rig of the tab, whatever the order
\* of answers, timers, logins and selections.
THEOREM PageSessionHolds == PageSessionSpec => []PageSessionInv
<1> QED  BY SessionStarts, SessionSteps, SessionImplies, PTL DEF PageSessionSpec

(***************************************************************************)
(* The frequency on display.  A frequency is shown before the rig has it,   *)
(* so the display follows two masters: the states of the stream and the     *)
(* newest request. The invariant says which of the two it shows, and that   *)
(* the stream tells every change of which it does not say that it was lost. *)
(***************************************************************************)
TuneRequest == [seq : 1..MaxTunings, hz : Dial, prev : Int, at : {"sent", "ok", "failed"}]
Shift == [n : 0..MaxTunings, center : Int, at : {"center", "freq", "done"}, hz : Int \cup {Unset}]

TuningTypes ==
    /\ {freq, center, emitted, lastFreqHz, prevFreqHz, lastCenter} \subseteq Int
    /\ stream \in Seq(Int)
    /\ _freqOptimisticHz \in Dial \cup {Unset} /\ spectrumCenterPendingHz \in Int \cup {Unset}
    /\ tuneRequests \subseteq TuneRequest /\ shifts \subseteq Shift
    /\ \A s \in shifts : s.at # "center" => s.hz \in Int
    /\ tunings \in 0..MaxTunings /\ flops \in 0..MaxFlops /\ unsure \in BOOLEAN
    /\ _freqOptimisticSeq \in 0..tunings
    /\ \A q \in tuneRequests : q.seq <= _freqOptimisticSeq

\* The stream tells what is new, and last what has been emitted.
Telling ==
    /\ stream = <<>> => emitted = prevFreqHz
    /\ stream # <<>> => stream[1] # prevFreqHz /\ stream[Len(stream)] = emitted
    /\ \A i \in 1..Len(stream) : i + 1 \in 1..Len(stream) => stream[i + 1] # stream[i]

\* The newest request shows its own frequency until a state is shown.
OwnOrTold ==
    ~unsure => \A q \in tuneRequests : Newest(q) => lastFreqHz \in {q.hz, prevFreqHz}

\* Something is going to change the display, or it shows what the stream has told.
ToldOrComing ==
    \/ unsure \/ lastFreqHz = prevFreqHz \/ stream # <<>> \/ emitted # freq
    \/ \E q \in tuneRequests : Newest(q) /\ q.at \in {"sent", "failed"}

TuningInd == TuningTypes /\ Telling /\ OwnOrTold /\ ToldOrComing /\ GuardEnds

LEMMA TuningBounds ==
    /\ Dial \subseteq Int /\ Unset \notin Int /\ HalfView \in Nat
    /\ MaxTunings \in Nat /\ MaxFlops \in Nat
BY PageTuningAssumption DEF PageTuningAssumption

LEMMA TuningImplies == TuningInd => PageTuningInv
<1> SUFFICES ASSUME TuningInd PROVE PageTuningInv
  OBVIOUS
<1> USE TuningBounds DEF TuningInd, TuningTypes
<1>1. ToSet(stream) \subseteq Int
  BY LenProperties DEF ToSet
<1>2. \A q \in tuneRequests : q.seq \in 1.._freqOptimisticSeq /\ q.at \in {"sent", "ok", "failed"}
  BY DEF TuneRequest
<1>3. PageTuningTypeOK
  <2>1. _freqOptimisticSeq \in 0..MaxTunings
    OBVIOUS
  <2> QED  BY <1>1, <1>2, <2>1 DEF PageTuningTypeOK
<1>4. ShownIsTuned
  BY DEF ShownIsTuned, Telling, ToldOrComing
<1> QED  BY <1>3, <1>4 DEF PageTuningInv

LEMMA TuningStarts == PageTuningInit => TuningInd
<1> SUFFICES ASSUME PageTuningInit PROVE TuningInd
  OBVIOUS
<1> USE TuningBounds DEF PageTuningInit
<1>1. TuningTypes
  <2>1. <<>> \in Seq(Int) /\ freq \in Int
    BY EmptySeq
  <2>2. {freq, center, emitted, lastFreqHz, prevFreqHz, lastCenter} \subseteq Int
    BY <2>1
  <2>3. tuneRequests \subseteq TuneRequest /\ shifts \subseteq Shift /\ unsure \in BOOLEAN
    OBVIOUS
  <2> QED  BY <2>1, <2>2, <2>3 DEF TuningTypes
<1>2. Telling
  BY EmptySeq DEF Telling
<1> QED  BY <1>1, <1>2 DEF TuningInd, OwnOrTold, ToldOrComing, GuardEnds


\* The rig is tuned by somebody who does not wait for an answer.
LEMMA TunedKeeps ==
    ASSUME TuningInd, NEW f \in Int, Tuned(f),
           UNCHANGED <<stream, emitted, tuningShown, tuneRequests>>
    PROVE  Telling' /\ OwnOrTold' /\ ToldOrComing' /\ GuardEnds'
<1> USE DEF TuningInd, Tuned, tuningShown
<1>1. Telling'  BY DEF Telling
<1>2. OwnOrTold'  BY DEF OwnOrTold, Newest, TuningTypes
<1>3. ToldOrComing'
  BY DEF ToldOrComing, Newest, TuningTypes
<1>4. GuardEnds'  BY DEF GuardEnds, Newest
<1> QED  BY <1>1, <1>2, <1>3, <1>4

LEMMA ElsewhereKeeps ==
    ASSUME TuningInd, NEW f \in Dial, TunedElsewhere(f)
    PROVE  TuningInd'
<1> USE TuningBounds DEF TunedElsewhere
<1>1. f \in Int
  OBVIOUS
<1>2. TuningTypes'
  BY DEF TuningInd, TuningTypes, tuningShown, Tuned, Flop
<1> QED  BY <1>1, <1>2, TunedKeeps DEF TuningInd

LEMMA EmitKeeps == ASSUME TuningInd, Emit PROVE TuningInd'
<1> USE TuningBounds DEF TuningInd, Emit, shownTuning, tuningShown, rigState
<1>1. stream \in Seq(Int) /\ freq \in Int /\ Len(stream) \in Nat
  BY LenProperties DEF TuningTypes
<1>2. /\ stream' \in Seq(Int) /\ Len(stream') = Len(stream) + 1
      /\ stream'[Len(stream) + 1] = freq /\ \A i \in 1..Len(stream) : stream'[i] = stream[i]
  BY <1>1, AppendProperties
<1>3. TuningTypes'
  BY <1>2 DEF TuningTypes
<1>4. stream' # <<>>
  BY <1>1, <1>2, EmptySeq
<1>5. Telling'
  <2>1. stream # <<>> => Len(stream) \in 1..Len(stream)
    BY <1>1, EmptySeq
  <2>2. stream'[1] # prevFreqHz'
    <3>1. CASE stream = <<>>
      BY <3>1, <1>1, <1>2, EmptySeq DEF Telling
    <3>2. CASE stream # <<>>
      BY <3>2, <2>1, <1>1, <1>2 DEF Telling
    <3> QED  BY <3>1, <3>2
  <2>3. stream'[Len(stream')] = emitted'
    BY <1>2
  <2>4. ASSUME NEW i \in 1..Len(stream'), i + 1 \in 1..Len(stream')
        PROVE  stream'[i + 1] # stream'[i]
    <3>1. CASE i + 1 \in 1..Len(stream)
      <4>1. i \in 1..Len(stream)
        BY <3>1, <2>4, <1>1
      <4> QED  BY <4>1, <3>1, <1>2 DEF Telling
    <3>2. CASE i + 1 \notin 1..Len(stream)
      <4>1. i = Len(stream) /\ i \in 1..Len(stream)
        BY <3>2, <2>4, <1>1, <1>2
      <4>2. stream # <<>>
        BY <4>1, <1>1, EmptySeq
      <4> QED  BY <4>1, <4>2, <1>2 DEF Telling
    <3> QED  BY <3>1, <3>2
  <2> QED  BY <1>4, <2>2, <2>3, <2>4 DEF Telling
<1>6. OwnOrTold'  BY DEF OwnOrTold, Newest
<1>7. ToldOrComing'  BY <1>4 DEF ToldOrComing
<1>8. GuardEnds'  BY DEF GuardEnds, Newest
<1> QED  BY <1>3, <1>5, <1>6, <1>7, <1>8

LEMMA FrameKeeps == ASSUME TuningInd, Frame PROVE TuningInd'
<1> USE DEF TuningInd, Frame, rigState
<1>1. TuningTypes'  BY DEF TuningTypes
<1>2. Telling'  BY DEF Telling
<1>3. OwnOrTold'  BY DEF OwnOrTold, Newest
<1>4. ToldOrComing'  BY DEF ToldOrComing, Newest
<1>5. GuardEnds'  BY DEF GuardEnds, Newest
<1> QED  BY <1>1, <1>2, <1>3, <1>4, <1>5

LEMMA RenderKeeps == ASSUME TuningInd, Render PROVE TuningInd'
<1> USE TuningBounds DEF TuningInd, Render, rigState
<1> DEFINE n == Len(stream)
<1>1. /\ stream \in Seq(Int) /\ n \in Nat /\ n > 0 /\ Head(stream) = stream[1] /\ stream[1] \in Int
      /\ 1 \in 1..n
  BY LenProperties, EmptySeq, ElementOfSeq DEF TuningTypes
<1>2. /\ stream' \in Seq(Int) /\ Len(stream') = n - 1
      /\ \A i \in 1..Len(stream') : stream'[i] = stream[i + 1]
  BY <1>1, HeadTailProperties
<1>3. stream' = <<>> <=> n = 1
  <2>1. stream' = <<>> <=> Len(stream') = 0
    BY ONLY <1>2, EmptySeq
  <2> QED  BY ONLY <2>1, <1>1, <1>2
<1> DEFINE hz == stream[1]
<1>4. hz # prevFreqHz /\ prevFreqHz' = hz
  BY <1>1 DEF Telling
<1>5. \/ unsure' = TRUE /\ UNCHANGED <<lastFreqHz, _freqOptimisticHz>>
      \/ lastFreqHz' = hz /\ _freqOptimisticHz' = Unset /\ unsure' = FALSE
  BY <1>1, <1>4
<1>6. TuningTypes'
  <2>1. lastFreqHz' \in Int /\ _freqOptimisticHz' \in Dial \cup {Unset} /\ unsure' \in BOOLEAN
    BY <1>1, <1>5 DEF TuningTypes
  <2>2. {freq, center, emitted, lastFreqHz, prevFreqHz, lastCenter}' \subseteq Int
    BY <2>1, <1>1, <1>4 DEF TuningTypes
  <2> QED  BY <2>1, <2>2, <1>2 DEF TuningTypes
<1>7. Telling'
  <2>1. stream' = <<>> => emitted' = prevFreqHz'
    BY <1>1, <1>3, <1>4 DEF Telling
  <2>2. ASSUME stream' # <<>> PROVE stream'[1] # prevFreqHz' /\ stream'[Len(stream')] = emitted'
    <3>0. n > 1
      <4>1. n # 1
        BY ONLY <2>2, <1>3
      <4>2. n \in Nat /\ n > 0
        BY ONLY <1>1
      <4> HIDE DEF n
      <4> QED  BY ONLY <4>1, <4>2
    <3>1. n > 1 /\ 1 \in 1..Len(stream') /\ Len(stream') \in 1..Len(stream')
      BY ONLY <3>0, <1>1, <1>2
    <3>2. 1 + 1 \in 1..n /\ n - 1 + 1 = n
      BY <3>1, <1>1
    <3>3. stream'[1] = stream[1 + 1] /\ stream'[Len(stream')] = stream[n - 1 + 1]
      BY <3>1, <1>2
    <3>4. stream[1 + 1] # stream[1] /\ stream[n] = emitted
      BY <1>1, <3>2, <3>1 DEF Telling
    <3> QED  BY <3>2, <3>3, <3>4, <1>4
  <2>3. ASSUME NEW i \in 1..Len(stream'), i + 1 \in 1..Len(stream')
        PROVE  stream'[i + 1] # stream'[i]
    <3>1. i + 1 \in 1..n /\ (i + 1) + 1 \in 1..n
      BY <2>3, <1>1, <1>2
    <3>2. stream[(i + 1) + 1] # stream[i + 1]
      BY <3>1 DEF Telling
    <3> QED  BY <3>2, <2>3, <1>2
  <2> QED  BY <2>1, <2>2, <2>3 DEF Telling
<1>8. OwnOrTold'
  BY <1>4, <1>5 DEF OwnOrTold, Newest
<1>9. ToldOrComing'
  BY <1>4, <1>5 DEF ToldOrComing
<1>10. GuardEnds'
  BY <1>5 DEF GuardEnds, Newest
<1> QED  BY <1>6, <1>7, <1>8, <1>9, <1>10

LEMMA RequestNumbers ==
    ASSUME TuningInd, NEW p \in tuneRequests PROVE p.seq \in Nat /\ p.seq <= _freqOptimisticSeq
<1>1. p \in TuneRequest
  BY DEF TuningInd, TuningTypes
<1>2. p.seq \in Nat
  BY <1>1, TuningBounds DEF TuneRequest
<1> QED  BY <1>2 DEF TuningInd, TuningTypes

LEMMA SetKeeps == ASSUME TuningInd, NEW hz \in Dial, SetRigFrequency(hz) PROVE TuningInd'
<1> USE TuningBounds DEF TuningInd, SetRigFrequency, rigState, Tuning
<1> DEFINE q == [seq |-> _freqOptimisticSeq + 1, hz |-> hz, prev |-> lastFreqHz, at |-> "sent"]
<1>1. q \in TuneRequest
  BY DEF TuneRequest, TuningTypes
<1>2. q \in tuneRequests' /\ q.seq = _freqOptimisticSeq' /\ q.at = "sent"
  OBVIOUS
<1>3. TuningTypes'
  <2>1. tuneRequests' \subseteq TuneRequest
    BY <1>1 DEF TuningTypes
  <2>2. \A p \in tuneRequests' : p.seq <= _freqOptimisticSeq'
    <3> TAKE p \in tuneRequests'
    <3>1. _freqOptimisticSeq \in Nat /\ _freqOptimisticSeq' = _freqOptimisticSeq + 1
      BY DEF TuningTypes
    <3>2. CASE p \in tuneRequests
      <4>1. p.seq \in Nat /\ p.seq <= _freqOptimisticSeq
        BY <3>2, RequestNumbers
      <4> QED  BY <3>1, <4>1
    <3>3. CASE p = q
      BY <3>1, <3>3, <1>2
    <3> QED  BY <3>2, <3>3
  <2>3. _freqOptimisticSeq' \in 0..tunings' /\ tunings' \in 0..MaxTunings
    BY DEF TuningTypes
  <2> QED  BY <2>1, <2>2, <2>3 DEF TuningTypes
<1>4. Telling'  BY DEF Telling
<1>5. OwnOrTold'
  <2>1. \A p \in tuneRequests : p.seq # _freqOptimisticSeq'
    BY DEF TuningTypes, TuneRequest
  <2> QED  BY <2>1 DEF OwnOrTold, Newest
<1>6. ToldOrComing'  BY <1>2 DEF ToldOrComing, Newest
<1>7. GuardEnds'  BY <1>2 DEF GuardEnds, Newest
<1> QED  BY <1>3, <1>4, <1>5, <1>6, <1>7

\* A request that is answered stays the newest, if it was.
LEMMA Marked ==
    ASSUME TuningInd, NEW q \in tuneRequests, NEW x \in {"ok", "failed"},
           tuneRequests' = (tuneRequests \ {q}) \cup {[q EXCEPT !.at = x]},
           _freqOptimisticSeq' = _freqOptimisticSeq
    PROVE  /\ tuneRequests' \subseteq TuneRequest
           /\ \A p \in tuneRequests' : p.seq <= _freqOptimisticSeq'
           /\ \A p \in tuneRequests' : \E o \in tuneRequests : p.seq = o.seq /\ p.hz = o.hz
           /\ \A o \in tuneRequests : \E p \in tuneRequests' : p.seq = o.seq
           /\ \A o \in tuneRequests \ {q} : o \in tuneRequests'
           /\ \E p \in tuneRequests' : p.seq = q.seq /\ p.at = x
<1> USE DEF TuningInd, TuningTypes
<1> DEFINE r == [q EXCEPT !.at = x]
<1>1. r \in TuneRequest /\ r.seq = q.seq /\ r.hz = q.hz /\ r.at = x
  BY DEF TuneRequest
<1>2. r \in tuneRequests' /\ \A p \in tuneRequests' : p = r \/ p \in tuneRequests
  OBVIOUS
<1> HIDE DEF r
<1> QED  BY <1>1, <1>2

LEMMA ReachesKeeps == ASSUME TuningInd, NEW q \in tuneRequests, Reaches(q) PROVE TuningInd'
<1> USE TuningBounds DEF TuningInd, Reaches, tuningShown, Tuned
<1>1. PICK x \in {"ok", "failed"} : tuneRequests' = (tuneRequests \ {q}) \cup {[q EXCEPT !.at = x]}
  OBVIOUS
<1>2. /\ tuneRequests' \subseteq TuneRequest
      /\ \A p \in tuneRequests' : p.seq <= _freqOptimisticSeq'
      /\ \A p \in tuneRequests' : \E o \in tuneRequests : p.seq = o.seq /\ p.hz = o.hz
      /\ \A o \in tuneRequests : \E p \in tuneRequests' : p.seq = o.seq
      /\ \A o \in tuneRequests \ {q} : o \in tuneRequests'
  BY <1>1, Marked
<1>3. q.hz \in Int
  BY DEF TuningTypes, TuneRequest
<1>4. TuningTypes'
  <2>1. freq' \in Int /\ UNCHANGED <<center, emitted, lastFreqHz, prevFreqHz, lastCenter>>
    BY <1>3
  <2>2. UNCHANGED <<stream, _freqOptimisticHz, spectrumCenterPendingHz, shifts, tunings, _freqOptimisticSeq>>
    OBVIOUS
  <2>3. flops' \in 0..MaxFlops
    BY DEF TuningTypes, Flop
  <2>4. unsure' \in BOOLEAN
    OBVIOUS
  <2> QED
    <3> HIDE DEF Reaches, Tuned, TuningInd
    <3>1. TuningTypes
      BY DEF TuningInd
    <3> QED  BY <1>2, <2>1, <2>2, <2>3, <2>4, <3>1 DEF TuningTypes
<1>5. Telling'  BY DEF Telling
<1>6. OwnOrTold'
  <2>1. UNCHANGED <<lastFreqHz, prevFreqHz, _freqOptimisticSeq>> /\ (~unsure' => ~unsure)
    OBVIOUS
  <2> HIDE DEF Reaches, Tuned, TuningInd
  <2>2. OwnOrTold
    BY DEF TuningInd
  <2> QED  BY <1>2, <2>1, <2>2 DEF OwnOrTold, Newest
<1>7. ToldOrComing'
  <2>1. CASE unsure' \/ lastFreqHz = prevFreqHz \/ stream # <<>>
    BY <2>1 DEF ToldOrComing
  <2>2. CASE ~unsure' /\ lastFreqHz # prevFreqHz /\ stream = <<>>
    <3>1. ~unsure /\ emitted = prevFreqHz /\ (q.hz = emitted => freq = emitted)
      BY <2>2 DEF Telling, TuningTypes
    <3>2. CASE emitted # q.hz
      BY <3>2 DEF ToldOrComing
    <3>3. CASE emitted = q.hz
      <4>1. PICK o \in tuneRequests : Newest(o) /\ o.at \in {"sent", "failed"}
        BY <2>2, <3>1, <3>3 DEF ToldOrComing
      <4>2. lastFreqHz \in {o.hz, prevFreqHz}
        BY <4>1, <3>1 DEF OwnOrTold
      <4>3. o # q
        BY <4>2, <3>1, <3>3, <2>2
      <4> QED  BY <4>1, <4>3, <1>2 DEF ToldOrComing, Newest
    <3> QED  BY <3>2, <3>3
  <2> QED  BY <2>1, <2>2 DEF TuningTypes
<1>8. GuardEnds'  BY <1>2 DEF GuardEnds, Newest
<1> QED  BY <1>4, <1>5, <1>6, <1>7, <1>8

LEMMA RefusedKeeps == ASSUME TuningInd, NEW q \in tuneRequests, Refused(q) PROVE TuningInd'
<1> USE TuningBounds DEF TuningInd, Refused, tuningShown, shownTuning, rigState
<1>1. /\ tuneRequests' \subseteq TuneRequest
      /\ \A p \in tuneRequests' : p.seq <= _freqOptimisticSeq'
      /\ \A p \in tuneRequests' : \E o \in tuneRequests : p.seq = o.seq /\ p.hz = o.hz
      /\ \A o \in tuneRequests : \E p \in tuneRequests' : p.seq = o.seq
      /\ \A o \in tuneRequests \ {q} : o \in tuneRequests'
      /\ \E p \in tuneRequests' : p.seq = q.seq /\ p.at = "failed"
  BY Marked
<1>2. TuningTypes'
  <2>1. UNCHANGED <<freq, center, emitted, lastFreqHz, prevFreqHz, lastCenter, unsure>>
    OBVIOUS
  <2>2. UNCHANGED <<stream, _freqOptimisticHz, spectrumCenterPendingHz, shifts, tunings, _freqOptimisticSeq>>
    OBVIOUS
  <2>3. flops' \in 0..MaxFlops
    <3>1. flops \in 0..MaxFlops
      BY DEF TuningTypes
    <3>2. flops < MaxFlops /\ flops' = flops + 1
      BY DEF Flop
    <3> QED  BY ONLY <3>1, <3>2, TuningBounds
  <2> QED
    <3> HIDE DEF Refused, TuningInd
    <3>1. TuningTypes
      BY DEF TuningInd
    <3> QED  BY <1>1, <2>1, <2>2, <2>3, <3>1 DEF TuningTypes
<1>3. Telling'  BY DEF Telling
<1>4. OwnOrTold'
  BY <1>1 DEF OwnOrTold, Newest
<1>5. ToldOrComing'
  <2>1. CASE unsure \/ lastFreqHz = prevFreqHz \/ stream # <<>> \/ emitted # freq
    BY <2>1 DEF ToldOrComing
  <2>2. ASSUME NEW o \in tuneRequests, Newest(o), o.at \in {"sent", "failed"}
        PROVE  ToldOrComing'
    <3>1. CASE o = q
      BY <3>1, <2>2, <1>1 DEF ToldOrComing, Newest
    <3>2. CASE o # q
      BY <3>2, <2>2, <1>1 DEF ToldOrComing, Newest
    <3> QED  BY <3>1, <3>2
  <2> QED  BY <2>1, <2>2 DEF ToldOrComing
<1>6. GuardEnds'  BY <1>1 DEF GuardEnds, Newest
<1> QED  BY <1>2, <1>3, <1>4, <1>5, <1>6

LEMMA SucceedsKeeps == ASSUME TuningInd, NEW q \in tuneRequests, Succeeds(q) PROVE TuningInd'
<1> USE TuningBounds DEF TuningInd, Succeeds, rigState
<1>1. TuningTypes'  BY DEF TuningTypes
<1>2. Telling'  BY DEF Telling
<1>3. OwnOrTold'  BY DEF OwnOrTold, Newest
<1>4. ToldOrComing'
  <2>1. CASE unsure \/ lastFreqHz = prevFreqHz \/ stream # <<>> \/ emitted # freq
    BY <2>1 DEF ToldOrComing
  <2>2. ASSUME NEW o \in tuneRequests, Newest(o), o.at \in {"sent", "failed"}
        PROVE  ToldOrComing'
    <3>1. o \in tuneRequests'
      BY <2>2
    <3> QED  BY <3>1, <2>2 DEF ToldOrComing, Newest
  <2> QED  BY <2>1, <2>2 DEF ToldOrComing
<1>5. GuardEnds'  BY DEF GuardEnds, Newest
<1> QED  BY <1>1, <1>2, <1>3, <1>4, <1>5

LEMMA TuneFailsKeeps == ASSUME TuningInd, NEW q \in tuneRequests, Fails(q) PROVE TuningInd'
<1> USE TuningBounds DEF TuningInd, Fails, rigState
<1>1. q.prev \in Int
  BY DEF TuningTypes, TuneRequest
<1>2. TuningTypes'  BY <1>1 DEF TuningTypes
<1>3. Telling'  BY DEF Telling
<1>4. OwnOrTold'  BY DEF OwnOrTold, Newest
<1>5. ToldOrComing'
  <2>1. CASE Newest(q)
    BY <2>1 DEF ToldOrComing
  <2>2. CASE ~Newest(q)
    <3>1. \A o \in tuneRequests : Newest(o) => o \in tuneRequests'
      BY <2>2
    <3> QED  BY <3>1, <2>2 DEF ToldOrComing, Newest
  <2> QED  BY <2>1, <2>2
<1>6. GuardEnds'
  <2>1. CASE Newest(q)
    BY <2>1 DEF GuardEnds
  <2>2. CASE ~Newest(q)
    BY <2>2 DEF GuardEnds, Newest
  <2> QED  BY <2>1, <2>2
<1> QED  BY <1>2, <1>3, <1>4, <1>5, <1>6

\* Shifts of the centre.
LEMMA ShiftKeeps ==
    ASSUME TuningInd, UNCHANGED <<freq, stream, emitted, tuneRequests, unsure, lastFreqHz, prevFreqHz,
                                  _freqOptimisticHz, _freqOptimisticSeq>>
    PROVE  Telling' /\ OwnOrTold' /\ ToldOrComing' /\ GuardEnds'
BY Zenon DEF TuningInd, Telling, OwnOrTold, ToldOrComing, GuardEnds, Newest

LEMMA CoveredInt == ASSUME NEW c \in Int, NEW hz \in Int PROVE Covered(c, hz) \in Int
<1>1. c - HalfView \in Int /\ c + HalfView \in Int
  BY TuningBounds
<1> QED  BY <1>1 DEF Covered

LEMMA CoverKeeps ==
    ASSUME TuningInd,
           \/ \E d \in {-1, 1} : ShiftSpectrumCenter(d)
           \/ \E s \in shifts : CenterMoves(s) \/ ShiftFails(s)
    PROVE  TuningInd'
<1> USE TuningBounds
<1>1. ASSUME NEW d \in {-1, 1}, ShiftSpectrumCenter(d) PROVE TuningInd'
  <2> USE <1>1 DEF ShiftSpectrumCenter, rigState
  <2> DEFINE next == (IF spectrumCenterPendingHz = Unset THEN lastCenter ELSE spectrumCenterPendingHz) + d
  <2>1. next \in Int
    BY DEF TuningInd, TuningTypes
  <2>2. shifts' \subseteq Shift
    BY <2>1 DEF Shift, TuningInd, TuningTypes
  <2>3. TuningTypes'
    BY <2>1, <2>2 DEF TuningInd, TuningTypes, Tuning
  <2> QED  BY <2>3, ShiftKeeps DEF TuningInd
<1>2. ASSUME NEW s \in shifts, CenterMoves(s) PROVE TuningInd'
  <2> USE <1>2 DEF CenterMoves, shownTuning, tuningShown
  <2>1. s \in Shift /\ Covered(s.center, lastFreqHz) \in Int /\ s.center \in Int
    <3>1. s \in Shift /\ s.center \in Int /\ lastFreqHz \in Int
      BY DEF Shift, TuningInd, TuningTypes
    <3> QED  BY <3>1, CoveredInt
  <2>2. /\ [s EXCEPT !.at = "freq", !.hz = Covered(s.center, lastFreqHz)] \in Shift
        /\ [s EXCEPT !.at = "freq", !.hz = Covered(s.center, lastFreqHz)].hz \in Int
    BY <2>1 DEF Shift
  <2>3. TuningTypes'
    BY <2>1, <2>2 DEF TuningInd, TuningTypes
  <2> QED  BY <2>3, ShiftKeeps DEF TuningInd
<1>3. ASSUME NEW s \in shifts, ShiftFails(s) PROVE TuningInd'
  <2> USE <1>3 DEF ShiftFails, shownTuning, tuningShown, rigState, Flop
  <2>1. TuningTypes'
    BY DEF TuningInd, TuningTypes
  <2> QED  BY <2>1, ShiftKeeps DEF TuningInd
<1> QED  BY <1>1, <1>2, <1>3

LEMMA FollowsKeeps == ASSUME TuningInd, NEW s \in shifts, DialFollows(s) PROVE TuningInd'
<1> USE TuningBounds DEF DialFollows
<1>1. s \in Shift /\ s.hz \in Int
  BY DEF TuningInd, TuningTypes
<1>2. [s EXCEPT !.at = "done"] \in Shift /\ [s EXCEPT !.at = "done"].hz \in Int
  BY <1>1 DEF Shift
<1>3. TuningTypes'
  BY <1>1, <1>2 DEF TuningInd, TuningTypes, Tuned, tuningShown
<1> QED  BY <1>1, <1>3, TunedKeeps DEF TuningInd

LEMMA ShownKeeps == ASSUME TuningInd, NEW s \in shifts, DialShown(s) PROVE TuningInd'
<1> USE TuningBounds DEF TuningInd, DialShown, rigState
<1>1. s.hz \in Int
  BY DEF TuningTypes
<1>2. TuningTypes'  BY <1>1 DEF TuningTypes
<1>3. Telling'  BY DEF Telling
<1>4. OwnOrTold'  BY DEF OwnOrTold, Newest, TuningTypes
<1>5. ToldOrComing'  BY DEF ToldOrComing, TuningTypes
<1>6. GuardEnds'  BY DEF GuardEnds, Newest
<1> QED  BY <1>2, <1>3, <1>4, <1>5, <1>6

LEMMA TuningSteps == TuningInd /\ [PageTuningNext]_pageTuningVars => TuningInd'
<1> SUFFICES ASSUME TuningInd, [PageTuningNext]_pageTuningVars PROVE TuningInd'
  OBVIOUS
<1>1. CASE UNCHANGED pageTuningVars
  BY <1>1 DEF pageTuningVars, TuningInd, TuningTypes, Telling, OwnOrTold, ToldOrComing, GuardEnds, Newest
<1>2. CASE PageTuningNext
  <2>1. ASSUME NEW q \in tuneRequests, Reaches(q) \/ Refused(q) \/ Succeeds(q) \/ Fails(q)
        PROVE  TuningInd'
    BY <2>1, ReachesKeeps, RefusedKeeps, SucceedsKeeps, TuneFailsKeeps
  <2>2. ASSUME NEW s \in shifts, DialFollows(s) \/ DialShown(s) PROVE TuningInd'
    BY <2>2, FollowsKeeps, ShownKeeps
  <2>3. ASSUME NEW f \in Dial, TunedElsewhere(f) \/ SetRigFrequency(f) PROVE TuningInd'
    BY <2>3, ElsewhereKeeps, SetKeeps
  <2> QED  BY <1>2, <2>1, <2>2, <2>3, EmitKeeps, FrameKeeps, RenderKeeps, CoverKeeps DEF PageTuningNext
<1> QED  BY <1>1, <1>2

\* Whatever the order of requests, answers, states and shifts, once all have come the page
\* shows the rig's frequency, and its guard has a request to end it.
THEOREM PageTuningHolds == PageTuningSpec => []PageTuningInv
<1>1. TuningInd => PageTuningInv
  BY TuningImplies
<1> QED  BY <1>1, TuningStarts, TuningSteps, PTL DEF PageTuningSpec

(***************************************************************************)
(* The background decoder.  What the task believes in and what the servers *)
(* were asked for differ by the dropped commands only, and a round that    *)
(* nobody disturbs ends with the channels that are wanted.                 *)
(***************************************************************************)
Viewed == IF viewers THEN spectrum ELSE NoFrame
MarkCount == Cardinality(Marks)

DecoderTyped ==
    /\ pickedMarks \in [Rigs -> [enabled : BOOLEAN, marks : SUBSET Marks]]
    /\ dial \in [Marks -> Dials \cup {0}]
    /\ viewers \in BOOLEAN /\ released \in BOOLEAN /\ stirred \in BOOLEAN
    /\ covered \in [Rigs -> SUBSET Marks]
    /\ activeRig \in Rigs \cup {NoRig} /\ spectrum \in Frames
    /\ round \in [at : {"wake", "look", "decide"}, frame : Frames, rig : Rigs \cup {NoRig}]
    /\ runtime \in [rig : Rigs \cup {NoRig}, channels : SUBSET Channel]
    /\ requested \in [Rigs -> SUBSET Channel] /\ dropped \subseteq 1..MaxUids
    /\ shown \in [Rigs -> [active : BOOLEAN, on : SUBSET Marks]]
    /\ uids \in Nat /\ edits \in 0..MaxEdits

\* The channels of the task are those the servers know, but for the dropped commands.
Believed ==
    /\ \A r \in Rigs : \A c \in requested[r] :
          c.rig = r /\ (c.uid \notin dropped => c \in runtime.channels)
    /\ \A c \in runtime.channels :
          c.rig = runtime.rig /\ (c.uid \notin dropped => c \in requested[c.rig])
    /\ \A c, d \in runtime.channels : c.mark = d.mark => c = d

\* What the round under way has seen, as long as nothing has changed.
RoundKnows ==
    /\ round.at = "decide" => round.rig = runtime.rig /\ round.rig \in Rigs
    /\ round.at # "wake" /\ ~stirred => round.frame = Viewed
    /\ round.at = "decide" /\ ~stirred => round.rig = activeRig

\* Nothing is left to be done.
Settled ==
    /\ runtime.rig = activeRig
    /\ activeRig # NoRig =>
          /\ \A c \in runtime.channels : c.mark \in Wanted(activeRig, Viewed) /\ c.freq = dial[c.mark]
          /\ \A m \in Wanted(activeRig, Viewed) : \E c \in runtime.channels : c.mark = m
          /\ shown[activeRig].active /\ shown[activeRig].on = Wanted(activeRig, Viewed)

\* The rounds that may still ask for channels if nothing more changes.
RoundsDue == IF stirred /\ round.at # "wake" THEN 2 ELSE IF ~stirred /\ Settled THEN 0 ELSE 1

BackgroundInd ==
    /\ DecoderTyped /\ Believed /\ RoundKnows
    /\ \A r \in Rigs : shown[r].active => r = runtime.rig
    /\ round.at = "wake" /\ ~stirred => Settled
    /\ uids + MarkCount * RoundsDue <= MarkCount * (2 * edits + 1)

LEMMA TwoMore ==
    ASSUME NEW k \in Nat, NEW e \in Nat
    PROVE /\ k * (2 * (e + 1) + 1) = k * (2 * e + 1) + k * 2
          /\ \A d \in 0..2 : 0 <= k * d /\ k * d <= k * 2 /\ k * d \in Int
          /\ k * (2 * e + 1) \in Int
<1>1. k * (2 * (e + 1) + 1) = k * (2 * e + 1) + k * 2
  OBVIOUS
<1>2. \A d \in 0..2 : d = 0 \/ d = 1 \/ d = 2
  OBVIOUS
<1>3. k * 0 = 0 /\ k * 1 = k /\ k * 2 = k + k
  OBVIOUS
<1>4. k * (2 * e + 1) \in Int
  OBVIOUS
<1> QED
  BY <1>1, <1>2, <1>3, <1>4

LEMMA MarkCountNat == MarkCount \in Nat
  BY FS_CardinalityType, BackgroundAssumption DEF MarkCount, BackgroundAssumption

LEMMA BackgroundStarts == BackgroundInit => BackgroundInd
<1> SUFFICES ASSUME BackgroundInit PROVE BackgroundInd
  OBVIOUS
<1> USE BackgroundAssumption DEF BackgroundAssumption, BackgroundInit
<1>1. DecoderTyped
  <2>1. runtime \in [rig : Rigs \cup {NoRig}, channels : SUBSET Channel]
    OBVIOUS
  <2>2. round \in [at : {"wake", "look", "decide"}, frame : Frames, rig : Rigs \cup {NoRig}]
    BY DEF Frames
  <2>3. /\ pickedMarks \in [Rigs -> [enabled : BOOLEAN, marks : SUBSET Marks]]
        /\ covered \in [Rigs -> SUBSET Marks] /\ requested \in [Rigs -> SUBSET Channel]
        /\ shown \in [Rigs -> [active : BOOLEAN, on : SUBSET Marks]]
    OBVIOUS
  <2>4. 0 \in 0..MaxEdits /\ dial \in [Marks -> Dials \cup {0}] /\ spectrum \in Frames
    BY DEF Frames
  <2> QED
    BY <2>1, <2>2, <2>3, <2>4 DEF DecoderTyped
<1>2. Believed /\ RoundKnows
  BY DEF Believed, RoundKnows
<1>3. RoundsDue = 1
  BY DEF RoundsDue
<1>4. uids + MarkCount * RoundsDue <= MarkCount * (2 * edits + 1)
  BY <1>3, MarkCountNat
<1> QED
  BY <1>1, <1>2, <1>4 DEF BackgroundInd

\* Others change what they like; the task has two rounds to make good for it.
LEMMA StirKeeps ==
    ASSUME BackgroundInd, Stirs, DecoderTyped' PROVE BackgroundInd'
<1> USE BackgroundAssumption DEF BackgroundAssumption, BackgroundInd
<1>1. stirred' /\ UNCHANGED <<round, runtime, requested, dropped, shown, uids>> /\ edits' = edits + 1
  BY DEF Stirs
<1>2. Believed'
  BY <1>1 DEF Believed
<1>3. RoundKnows'
  BY <1>1 DEF RoundKnows
<1>4. RoundsDue' \in 1..2 /\ RoundsDue \in 0..2
  BY <1>1 DEF RoundsDue
<1>5. /\ MarkCount * RoundsDue' <= MarkCount * 2 /\ 0 <= MarkCount * RoundsDue /\ MarkCount * (2 * (edits + 1) + 1) = MarkCount * (2 * edits + 1) + MarkCount * 2
      /\ MarkCount * RoundsDue \in Int /\ MarkCount * RoundsDue' \in Int /\ MarkCount * (2 * edits + 1) \in Int /\ MarkCount * 2 \in Int
  <2>1. edits \in Nat /\ 2 \in 0..2 /\ RoundsDue \in 0..2 /\ RoundsDue' \in 0..2
    BY <1>4 DEF DecoderTyped
  <2> HIDE DEF BackgroundInd
  <2> QED
    BY <1>4, <2>1, MarkCountNat, TwoMore
<1>6. (uids + MarkCount * RoundsDue <= MarkCount * (2 * edits + 1))'
  <2>1. MarkCount' = MarkCount
    BY DEF MarkCount
  <2> QED
    BY <2>1, <1>1, <1>5 DEF DecoderTyped
<1> QED
  BY <1>1, <1>2, <1>3, <1>6

LEMMA ChangesKeep ==
    ASSUME BackgroundInd,
           \/ \E r \in Rigs : Pick(r)
           \/ \E m \in Marks : Edit(m) \/ \E r \in Rigs : Cover(r, m)
           \/ ViewerComesOrGoes \/ ReleaseChanges
           \/ \E r \in Rigs \cup {NoRig} : ActivateRig(r)
           \/ \E f \in Frames : FrameComes(f)
    PROVE BackgroundInd'
<1> USE BackgroundAssumption DEF BackgroundAssumption
<1>1. Stirs
  BY DEF Pick, Edit, Cover, ViewerComesOrGoes, ReleaseChanges, ActivateRig, FrameComes
<1>2. DecoderTyped
  BY DEF BackgroundInd
<1>3. edits' \in 0..MaxEdits /\ stirred' = TRUE /\ UNCHANGED <<round, runtime, requested, dropped, shown, uids>>
  BY <1>1, <1>2 DEF Stirs, DecoderTyped
<1>4. CASE \E r \in Rigs : Pick(r)
  <2>1. PICK r \in Rigs : Pick(r)
    BY <1>4
  <2>2. PICK enabled \in BOOLEAN, marks \in SUBSET Marks :
          pickedMarks' = [pickedMarks EXCEPT ![r] = [enabled |-> enabled, marks |-> marks]]
    BY <2>1 DEF Pick
  <2>3. pickedMarks' \in [Rigs -> [enabled : BOOLEAN, marks : SUBSET Marks]]
    BY <2>2, <1>2 DEF DecoderTyped
  <2>4. DecoderTyped'
    BY <2>1, <2>3, <1>2, <1>3 DEF Pick, DecoderTyped
  <2> QED
    BY <2>4, <1>1, StirKeeps
<1>5. CASE \E m \in Marks : Edit(m)
  <2>1. dial' \in [Marks -> Dials \cup {0}] /\ UNCHANGED <<pickedMarks, viewers, released, covered, activeRig, spectrum>>
    BY <1>5, <1>2 DEF Edit, DecoderTyped
  <2>2. DecoderTyped'
    BY <2>1, <1>2, <1>3 DEF DecoderTyped
  <2> QED
    BY <2>2, <1>1, StirKeeps
<1>6. CASE \E m \in Marks : \E r \in Rigs : Cover(r, m)
  <2>1. covered' \in [Rigs -> SUBSET Marks] /\ UNCHANGED <<pickedMarks, dial, viewers, released, activeRig, spectrum>>
    BY <1>6, <1>2 DEF Cover, DecoderTyped
  <2>2. DecoderTyped'
    BY <2>1, <1>2, <1>3 DEF DecoderTyped
  <2> QED
    BY <2>2, <1>1, StirKeeps
<1>7. CASE \/ ViewerComesOrGoes \/ ReleaseChanges
           \/ \E r \in Rigs \cup {NoRig} : ActivateRig(r)
           \/ \E f \in Frames : FrameComes(f)
  <2>1. /\ viewers' \in BOOLEAN /\ released' \in BOOLEAN /\ activeRig' \in Rigs \cup {NoRig}
        /\ spectrum' \in Frames /\ UNCHANGED <<pickedMarks, dial, covered>>
    BY <1>7, <1>2 DEF ViewerComesOrGoes, ReleaseChanges, ActivateRig, FrameComes, DecoderTyped
  <2>2. DecoderTyped'
    BY <2>1, <1>2, <1>3 DEF DecoderTyped
  <2> QED
    BY <2>2, <1>1, StirKeeps
<1> QED
  BY <1>4, <1>5, <1>6, <1>7

LEMMA WakesKeeps == ASSUME BackgroundInd, Wakes PROVE BackgroundInd'
<1> USE BackgroundAssumption DEF BackgroundAssumption, BackgroundInd
<1>1. /\ round.at = "wake" /\ stirred' = FALSE
      /\ round' = [at |-> "look", frame |-> Viewed, rig |-> NoRig]
      /\ UNCHANGED <<outside, runtime, requested, dropped, shown, uids, edits>>
  BY DEF Wakes, Viewed
<1>2. Viewed \in Frames /\ Viewed' = Viewed
  BY <1>1 DEF DecoderTyped, Frames, Viewed, outside
<1>3. DecoderTyped'
  BY <1>1, <1>2 DEF DecoderTyped, outside
<1>4. Believed'
  BY <1>1 DEF Believed, outside
<1>5. RoundKnows'
  BY <1>1, <1>2 DEF RoundKnows
<1>6. Settled' = Settled
  BY <1>1, <1>2 DEF Settled, Wanted, outside
<1>7. RoundsDue' <= RoundsDue /\ RoundsDue \in 0..2 /\ RoundsDue' \in 0..2
  BY <1>1, <1>6 DEF RoundsDue, DecoderTyped
<1>8. MarkCount * RoundsDue' <= MarkCount * RoundsDue /\ MarkCount * RoundsDue' \in Int /\ MarkCount * RoundsDue \in Int /\ MarkCount' = MarkCount
  BY <1>7, MarkCountNat DEF MarkCount
<1>9. (uids + MarkCount * RoundsDue <= MarkCount * (2 * edits + 1))'
  <2>1. MarkCount * (2 * edits + 1) \in Int
    BY MarkCountNat DEF DecoderTyped
  <2> QED
    BY <2>1, <1>8, <1>1 DEF DecoderTyped
<1> QED
  BY <1>1, <1>3, <1>4, <1>5, <1>9

\* Commands that are sent or dropped leave the servers with what the task believes in.
LEMMA ToldKeeps ==
    ASSUME BackgroundInd, NEW removed \in SUBSET runtime.channels, NEW new \in SUBSET Channel,
           Told(removed, new),
           runtime' \in [rig : Rigs \cup {NoRig}, channels : SUBSET Channel],
           runtime'.channels = (runtime.channels \ removed) \cup new,
           runtime'.rig = runtime.rig \/ runtime.channels \ removed = {},
           \A c \in new : c.rig = runtime'.rig,
           \A c, d \in runtime'.channels : c.mark = d.mark => c = d
    PROVE Believed' /\ requested' \in [Rigs -> SUBSET Channel] /\ dropped' \subseteq 1..MaxUids
<1> USE DEF BackgroundInd
<1>1. PICK lost \in SUBSET (removed \cup new) :
        /\ requested' = [r \in Rigs |-> (requested[r] \ (removed \ lost)) \cup {c \in new \ lost : c.rig = r}]
        /\ dropped' = dropped \cup {c.uid : c \in lost}
  BY DEF Told
<1>2. removed \subseteq Channel /\ lost \subseteq Channel
  BY DEF DecoderTyped
<1>3. \A c \in Channel : c.uid \in 1..MaxUids /\ c.rig \in Rigs
  BY DEF Channel
<1>4. requested' \in [Rigs -> SUBSET Channel]
  BY <1>1, <1>2 DEF DecoderTyped
<1>5. dropped' \subseteq 1..MaxUids
  <2>1. dropped \subseteq 1..MaxUids /\ \A c \in lost : c.uid \in 1..MaxUids
    BY <1>2, <1>3 DEF DecoderTyped
  <2>2. dropped' = dropped \cup {c.uid : c \in lost}
    BY <1>1
  <2>3. ASSUME NEW u \in dropped' PROVE u \in 1..MaxUids
    <3>1. u \in dropped \/ \E c \in lost : u = c.uid
      BY <2>2
    <3> QED
      BY <2>1, <3>1
  <2> QED
    BY <2>3
<1>6. \A c \in lost : c.uid \in dropped'
  BY <1>1
<1>7. \A r \in Rigs : \A c \in requested'[r] :
          c.rig = r /\ (c.uid \notin dropped' => c \in runtime'.channels)
  <2> TAKE r \in Rigs
  <2> TAKE c \in requested'[r]
  <2>1. requested'[r] = (requested[r] \ (removed \ lost)) \cup {d \in new \ lost : d.rig = r}
    BY <1>1
  <2>2. CASE c \in new \ lost /\ c.rig = r
    BY <2>2
  <2>3. CASE c \in requested[r] /\ c \notin removed \ lost
    BY <2>3, <1>1, <1>6 DEF Believed
  <2> QED
    BY <2>1, <2>2, <2>3
<1>8. \A c \in runtime'.channels :
          c.rig = runtime'.rig /\ (c.uid \notin dropped' => c \in requested'[c.rig])
  <2> TAKE c \in runtime'.channels
  <2>0. c \in Channel /\ c.rig \in Rigs
    BY <1>3
  <2>1. requested'[c.rig] = (requested[c.rig] \ (removed \ lost)) \cup {d \in new \ lost : d.rig = c.rig}
    BY <1>1, <2>0
  <2>2. CASE c \in new
    BY <2>1, <2>2, <1>6
  <2>3. CASE c \in runtime.channels \ removed
    BY <2>1, <2>3, <1>1 DEF Believed
  <2> QED
    BY <2>2, <2>3
<1> QED
  BY <1>4, <1>5, <1>7, <1>8 DEF Believed

LEMMA LookUpKeeps == ASSUME BackgroundInd, LookUp PROVE BackgroundInd'
<1> USE BackgroundAssumption DEF BackgroundAssumption
<1> DEFINE another == runtime.rig # activeRig
           removed == IF another THEN runtime.channels ELSE {}
<1>0. BackgroundInd /\ DecoderTyped /\ Believed /\ RoundKnows
  BY DEF BackgroundInd
<1>1. /\ round.at = "look"
      /\ shown' = IF another /\ runtime.rig # NoRig
                  THEN [shown EXCEPT ![runtime.rig].active = FALSE] ELSE shown
      /\ Told(removed, {})
      /\ runtime' = [rig |-> activeRig, channels |-> runtime.channels \ removed]
      /\ round' = [round EXCEPT !.at = IF activeRig = NoRig THEN "wake" ELSE "decide", !.rig = activeRig]
      /\ UNCHANGED <<outside, stirred, uids, edits>>
  BY DEF LookUp
<1>2. /\ runtime' \in [rig : Rigs \cup {NoRig}, channels : SUBSET Channel]
      /\ runtime'.rig = activeRig /\ runtime'.channels = (runtime.channels \ removed) \cup {}
  BY <1>0, <1>1 DEF DecoderTyped
<1>3. removed \in SUBSET runtime.channels /\ (runtime'.rig = runtime.rig \/ runtime.channels \ removed = {})
  BY <1>2
<1>4. Believed' /\ requested' \in [Rigs -> SUBSET Channel] /\ dropped' \subseteq 1..MaxUids
  <2>1. \A c, d \in runtime'.channels : c.mark = d.mark => c = d
    BY <1>0, <1>2 DEF Believed
  <2>2. {} \in SUBSET Channel /\ \A c \in {} : c.rig = runtime'.rig
    OBVIOUS
  <2> HIDE DEF removed
  <2> QED
    BY <1>0, <1>1, <1>2, <1>3, <2>1, <2>2, ToldKeeps
<1>5. /\ round' \in [at : {"wake", "look", "decide"}, frame : Frames, rig : Rigs \cup {NoRig}]
      /\ round'.at = (IF activeRig = NoRig THEN "wake" ELSE "decide")
      /\ round'.rig = activeRig /\ round'.frame = round.frame
  <2> DEFINE at == IF activeRig = NoRig THEN "wake" ELSE "decide"
  <2>1. /\ round \in [at : {"wake", "look", "decide"}, frame : Frames, rig : Rigs \cup {NoRig}]
        /\ round' = [round EXCEPT !.at = at, !.rig = activeRig]
        /\ at \in {"wake", "look", "decide"} /\ activeRig \in Rigs \cup {NoRig}
    BY <1>0, <1>1 DEF DecoderTyped
  <2> HIDE DEF at
  <2>2. round' \in [at : {"wake", "look", "decide"}, frame : Frames, rig : Rigs \cup {NoRig}]
        /\ round'.at = at /\ round'.rig = activeRig /\ round'.frame = round.frame
    BY <2>1
  <2> QED
    BY <2>2 DEF at
<1>6. shown' \in [Rigs -> [active : BOOLEAN, on : SUBSET Marks]]
  <2>1. shown \in [Rigs -> [active : BOOLEAN, on : SUBSET Marks]]
    BY <1>0 DEF DecoderTyped
  <2>2. \A d \in [active : BOOLEAN, on : SUBSET Marks] :
           [d EXCEPT !.active = FALSE] \in [active : BOOLEAN, on : SUBSET Marks]
    OBVIOUS
  <2>3. shown' = [shown EXCEPT ![runtime.rig] = [@ EXCEPT !.active = FALSE]] \/ shown' = shown
    BY <1>1
  <2> QED
    BY <2>1, <2>2, <2>3
<1>7. DecoderTyped'
  <2>1. /\ pickedMarks' \in [Rigs -> [enabled : BOOLEAN, marks : SUBSET Marks]]
        /\ dial' \in [Marks -> Dials \cup {0}] /\ covered' \in [Rigs -> SUBSET Marks]
        /\ activeRig' \in Rigs \cup {NoRig} /\ spectrum' \in Frames
    BY <1>0, <1>1 DEF DecoderTyped, outside
  <2>2. viewers' \in BOOLEAN /\ released' \in BOOLEAN /\ stirred' \in BOOLEAN /\ uids' \in Nat /\ edits' \in 0..MaxEdits
    BY <1>0, <1>1 DEF DecoderTyped, outside
  <2> QED
    BY <2>1, <2>2, <1>2, <1>4, <1>5, <1>6 DEF DecoderTyped
<1>8. Viewed' = Viewed
  BY <1>1 DEF Viewed, outside
<1>9. RoundKnows'
  BY <1>0, <1>1, <1>2, <1>5, <1>8 DEF RoundKnows, outside, DecoderTyped
<1>10. \A r \in Rigs : shown'[r].active => r = runtime'.rig
  <2> TAKE r \in Rigs
  <2>1. shown[r].active => r = runtime.rig
    BY DEF BackgroundInd
  <2>2. CASE another /\ runtime.rig # NoRig
    BY <2>1, <2>2, <1>0, <1>1 DEF DecoderTyped
  <2>3. CASE another /\ runtime.rig = NoRig
    BY <2>1, <2>3, <1>1
  <2>4. CASE ~another
    BY <2>1, <2>4, <1>1, <1>2
  <2> QED
    BY <2>2, <2>3, <2>4
<1>11. activeRig = NoRig => Settled'
  BY <1>1, <1>2 DEF Settled, outside
<1>12. Settled => Settled'
  <2> SUFFICES ASSUME Settled PROVE Settled'
    OBVIOUS
  <2>1. runtime'.channels = runtime.channels /\ runtime'.rig = runtime.rig /\ shown' = shown
    BY <1>1, <1>2 DEF Settled
  <2>2. UNCHANGED outside
    BY <1>1
  <2> QED
    BY <2>1, <2>2, <1>8 DEF Settled, outside, Wanted
<1>13. (round.at = "wake" /\ ~stirred => Settled)'
  BY <1>5, <1>11
<1>14. RoundsDue' <= RoundsDue /\ RoundsDue \in 0..2 /\ RoundsDue' \in 0..2
  BY <1>1, <1>5, <1>11, <1>12 DEF RoundsDue
<1>15. (uids + MarkCount * RoundsDue <= MarkCount * (2 * edits + 1))'
  <2>1. MarkCount * RoundsDue' <= MarkCount * RoundsDue /\ MarkCount * RoundsDue' \in Int /\ MarkCount * RoundsDue \in Int /\ MarkCount' = MarkCount
    BY <1>14, MarkCountNat DEF MarkCount
  <2>2. MarkCount * (2 * edits + 1) \in Int /\ uids \in Int
    BY <1>0, MarkCountNat DEF DecoderTyped
  <2>3. uids + MarkCount * RoundsDue <= MarkCount * (2 * edits + 1)
    BY DEF BackgroundInd
  <2> QED
    BY <2>1, <2>2, <2>3, <1>1
<1> QED
  BY <1>4, <1>7, <1>9, <1>10, <1>13, <1>15 DEF BackgroundInd

\* As many numbers in a row as there are elements can be given out, one to each.
LEMMA Numbering ==
    ASSUME NEW S, IsFiniteSet(S), NEW u \in Nat
    PROVE \E n \in [S -> u + 1..u + Cardinality(S)] : IsInjective(n)
<1> DEFINE k == Cardinality(S)
<1>1. k \in Nat /\ ExistsBijection(1..k, S)
  BY FS_CardinalityType
<1>2. PICK f \in [1..k -> S] : \A s \in S : \E i \in 1..k : f[i] = s
  BY <1>1 DEF ExistsBijection, Bijection, Surjection
<1> DEFINE place(s) == CHOOSE i \in 1..k : f[i] = s
           n == [s \in S |-> u + place(s)]
<1>3. \A s \in S : place(s) \in 1..k /\ f[place(s)] = s
  BY <1>2
<1>4. \A s \in S : u + place(s) \in u + 1..u + k
  <2> HIDE DEF place, k
  <2> QED
    BY <1>1, <1>3
<1>5. n \in [S -> u + 1..u + k]
  BY <1>4
<1>6. \A s, t \in S : n[s] = n[t] => s = t
  <2> TAKE s, t \in S
  <2>1. n[s] = u + place(s) /\ n[t] = u + place(t) /\ place(s) \in Int /\ place(t) \in Int
    BY <1>3, <1>1
  <2> HIDE DEF n, place, k
  <2>2. n[s] = n[t] => place(s) = place(t)
    BY <2>1
  <2> QED
    BY <2>2, <1>3
<1>7. DOMAIN n = S
  OBVIOUS
<1>8. IsInjective(n)
  BY <1>6, <1>7 DEF IsInjective
<1> QED
  BY <1>5, <1>8

\* What a decision asks for: one channel, with a number of its own, for each missing bookmark.
DecidesAs(wanted, fits, missing, new) ==
    /\ wanted = Wanted(round.rig, round.frame)
    /\ fits = {c \in runtime.channels : c.mark \in wanted /\ c.freq = dial[c.mark]}
    /\ missing = wanted \ {c.mark : c \in fits}
    /\ \E number \in [missing -> uids + 1..uids + Cardinality(missing)] :
          new = {[uid |-> number[m], rig |-> round.rig, mark |-> m, freq |-> dial[m]] : m \in missing}
    /\ Told(runtime.channels \ fits, new)
    /\ runtime' = [runtime EXCEPT !.channels = fits \cup new]
    /\ uids' = uids + Cardinality(missing)
    /\ shown' = [shown EXCEPT ![round.rig] = [active |-> TRUE, on |-> wanted]]

LEMMA DecideFacts ==
    ASSUME BackgroundInd, Decide
    PROVE \E wanted \in SUBSET Marks, fits \in SUBSET runtime.channels, missing \in SUBSET Marks :
             \E new : DecidesAs(wanted, fits, missing, new)
<1> USE BackgroundAssumption DEF BackgroundAssumption
<1> DEFINE wanted == Wanted(round.rig, round.frame)
           fits == {c \in runtime.channels : c.mark \in wanted /\ c.freq = dial[c.mark]}
           missing == wanted \ {c.mark : c \in fits}
           number == CHOOSE n \in [missing -> uids + 1..uids + Cardinality(missing)] : IsInjective(n)
           new == {[uid |-> number[m], rig |-> round.rig, mark |-> m, freq |-> dial[m]] : m \in missing}
<1>1. round.rig \in Rigs /\ uids \in Nat /\ pickedMarks \in [Rigs -> [enabled : BOOLEAN, marks : SUBSET Marks]]
  BY DEF BackgroundInd, RoundKnows, DecoderTyped, Decide
<1>2. wanted \subseteq Marks /\ fits \subseteq runtime.channels /\ missing \subseteq Marks
  BY <1>1 DEF Wanted
<1>3. IsFiniteSet(missing)
  BY <1>2, FS_Subset
<1>4. \E n \in [missing -> uids + 1..uids + Cardinality(missing)] : IsInjective(n)
  <2> HIDE DEF missing
  <2> QED
    BY <1>1, <1>3, Numbering
<1>5. number \in [missing -> uids + 1..uids + Cardinality(missing)]
  <2> HIDE DEF missing
  <2> QED
    BY <1>4
<1>6. /\ Told(runtime.channels \ fits, new)
      /\ runtime' = [runtime EXCEPT !.channels = fits \cup new]
      /\ uids' = uids + Cardinality(missing)
      /\ shown' = [shown EXCEPT ![round.rig] = [active |-> TRUE, on |-> wanted]]
  BY DEF Decide
<1>7. DecidesAs(wanted, fits, missing, new)
  <2>1. wanted = Wanted(round.rig, round.frame)
    OBVIOUS
  <2>2. fits = {c \in runtime.channels : c.mark \in wanted /\ c.freq = dial[c.mark]}
    OBVIOUS
  <2>3. missing = wanted \ {c.mark : c \in fits}
    OBVIOUS
  <2>4. new = {[uid |-> number[m], rig |-> round.rig, mark |-> m, freq |-> dial[m]] : m \in missing}
    OBVIOUS
  <2> HIDE DEF wanted, fits, missing, number, new
  <2> QED
    BY <2>1, <2>2, <2>3, <2>4, <1>5, <1>6 DEF DecidesAs
<1> HIDE DEF wanted, fits, missing, number, new
<1> QED
  BY <1>2, <1>7

LEMMA DecideKeeps == ASSUME BackgroundInd, Decide PROVE BackgroundInd'
<1> USE BackgroundAssumption DEF BackgroundAssumption
<1>0. BackgroundInd /\ DecoderTyped /\ Believed /\ RoundKnows
  BY DEF BackgroundInd
<1>1. /\ round.at = "decide" /\ round' = [round EXCEPT !.at = "wake"]
      /\ UNCHANGED <<outside, stirred, edits>>
  BY DEF Decide
<1>24. PICK wanted \in SUBSET Marks, fits \in SUBSET runtime.channels, missing \in SUBSET Marks :
          \E new : DecidesAs(wanted, fits, missing, new)
  BY DecideFacts
<1>2. PICK new : DecidesAs(wanted, fits, missing, new)
  BY <1>24
<1>3. PICK number \in [missing -> uids + 1..uids + Cardinality(missing)] :
          new = {[uid |-> number[m], rig |-> round.rig, mark |-> m, freq |-> dial[m]] : m \in missing}
  BY <1>2 DEF DecidesAs
<1>4. /\ wanted = Wanted(round.rig, round.frame)
      /\ fits = {c \in runtime.channels : c.mark \in wanted /\ c.freq = dial[c.mark]}
      /\ missing = wanted \ {c.mark : c \in fits}
      /\ Told(runtime.channels \ fits, new)
      /\ uids' = uids + Cardinality(missing)
  BY <1>2 DEF DecidesAs
<1>5. /\ runtime' = [runtime EXCEPT !.channels = fits \cup new]
      /\ shown' = [shown EXCEPT ![round.rig] = [active |-> TRUE, on |-> wanted]]
  BY <1>2 DEF DecidesAs
<1>6. round.rig \in Rigs /\ round.rig = runtime.rig
  BY <1>0, <1>1 DEF RoundKnows
<1>7. runtime'.rig = runtime.rig /\ runtime'.channels = fits \cup new
  BY <1>0, <1>5 DEF DecoderTyped
<1>8. /\ IsFiniteSet(missing) /\ Cardinality(missing) \in Nat /\ Cardinality(missing) <= MarkCount
      /\ missing = {} => Cardinality(missing) = 0
  BY FS_Subset, FS_CardinalityType, FS_EmptySet DEF MarkCount
\* A round that nobody disturbs ends with what is wanted.
<1>23. ~stirred => Settled'
  <2> SUFFICES ASSUME ~stirred PROVE Settled'
    OBVIOUS
  <2>1. round.rig = activeRig /\ round.frame = Viewed
    BY <1>0, <1>1 DEF RoundKnows
  <2>2. activeRig' = activeRig /\ Viewed' = Viewed /\ Wanted(activeRig, Viewed)' = Wanted(activeRig, Viewed)
    BY <1>1 DEF Viewed, outside, Wanted
  <2>3. wanted = Wanted(activeRig, Viewed) /\ dial' = dial
    BY <1>1, <1>4, <2>1 DEF outside
  <2>4. \A c \in fits \cup new : c.mark \in wanted /\ c.freq = dial[c.mark]
    BY <1>3, <1>4
  <2>5. \A m \in wanted : \E c \in fits \cup new : c.mark = m
    <3> TAKE m \in wanted
    <3>1. CASE m \in missing
      <4> DEFINE c == [uid |-> number[m], rig |-> round.rig, mark |-> m, freq |-> dial[m]]
      <4>1. c \in new /\ c.mark = m
        BY <3>1, <1>3
      <4> QED
        BY <4>1
    <3>2. CASE m \notin missing
      BY <3>2, <1>4
    <3> QED
      BY <3>1, <3>2
  <2>6. shown'[activeRig].active /\ shown'[activeRig].on = wanted
    BY <1>0, <1>5, <1>6, <2>1 DEF DecoderTyped
  <2> QED
    BY <2>1, <2>2, <2>3, <2>4, <2>5, <2>6, <1>6, <1>7 DEF Settled
\* The numbers do not run out.
<1>9. MarkCount * RoundsDue \in Int /\ MarkCount * RoundsDue' \in Int /\ MarkCount * RoundsDue' + Cardinality(missing) <= MarkCount * RoundsDue
  <2>1. RoundsDue' = (IF ~stirred /\ Settled' THEN 0 ELSE 1) /\ (stirred => RoundsDue = 2) /\ RoundsDue \in 0..2
    BY <1>0, <1>1 DEF RoundsDue, DecoderTyped
  <2>3. ~stirred /\ Settled => missing = {}
    <3> SUFFICES ASSUME ~stirred, Settled PROVE missing = {}
      OBVIOUS
    <3>1. round.rig = activeRig /\ round.frame = Viewed /\ activeRig # NoRig
      BY <1>0, <1>1, <1>6 DEF RoundKnows
    <3>2. \A m \in wanted : \E c \in runtime.channels : c.mark = m
      BY <3>1, <1>4 DEF Settled
    <3>3. fits = runtime.channels
      BY <3>1, <1>4 DEF Settled
    <3> QED
      BY <3>2, <3>3, <1>4
  <2>4. stirred \in BOOLEAN /\ (~stirred => RoundsDue = IF Settled THEN 0 ELSE 1)
    BY <1>0 DEF RoundsDue, DecoderTyped
  <2>5. MarkCount * 0 = 0 /\ MarkCount * 1 = MarkCount /\ MarkCount * 2 = MarkCount + MarkCount
    BY MarkCountNat
  <2>6. CASE stirred
    <3>1. RoundsDue' = 1 /\ RoundsDue = 2
      BY <2>1, <2>6
    <3> QED
      BY <3>1, <2>5, <1>8, MarkCountNat
  <2>7. CASE ~stirred /\ Settled
    <3>1. RoundsDue' = 0 /\ RoundsDue = 0 /\ Cardinality(missing) = 0
      BY <2>1, <1>23, <2>3, <2>4, <2>7, <1>8
    <3> QED
      BY <3>1, <2>5
  <2>8. CASE ~stirred /\ ~Settled
    <3>1. RoundsDue' = 0 /\ RoundsDue = 1
      BY <2>1, <1>23, <2>4, <2>8
    <3> QED
      BY <3>1, <2>5, <1>8, MarkCountNat
  <2> QED
    BY <2>4, <2>6, <2>7, <2>8
<1>10. uids' \in Nat /\ uids' + MarkCount * RoundsDue' <= MarkCount * (2 * edits + 1) /\ MarkCount * (2 * edits + 1) \in Int
  <2>1. MarkCount * (2 * edits + 1) \in Int /\ uids \in Nat
    BY <1>0, MarkCountNat DEF DecoderTyped
  <2>2. uids + MarkCount * RoundsDue <= MarkCount * (2 * edits + 1)
    BY DEF BackgroundInd
  <2> QED
    BY <2>1, <2>2, <1>4, <1>8, <1>9
<1>11. uids' <= MaxUids
  <2>1. RoundsDue' \in 0..2
    BY DEF RoundsDue
  <2>2. 0 <= MarkCount * RoundsDue'
    BY <2>1, MarkCountNat, TwoMore, 0 \in Nat
  <2>3. MarkCount * (2 * edits + 1) <= MaxUids /\ MaxUids \in Int
    <3>1. 2 * edits + 1 <= 2 * MaxEdits + 1 /\ edits \in Nat
      BY <1>0 DEF DecoderTyped
    <3>2. \A k, a, b \in Nat : a <= b => k * a <= k * b /\ k * b \in Int
      OBVIOUS
    <3>3. 2 * edits + 1 \in Nat /\ 2 * MaxEdits + 1 \in Nat
      BY <3>1
    <3> QED
      BY <3>1, <3>2, <3>3, MarkCountNat DEF MaxUids, MarkCount
  <2> QED
    BY <1>9, <1>10, <2>2, <2>3
<1>12. new \subseteq Channel /\ \A c \in new : c.rig = round.rig /\ c.mark \in missing
  <2> SUFFICES ASSUME NEW m \in missing
               PROVE [uid |-> number[m], rig |-> round.rig, mark |-> m, freq |-> dial[m]] \in Channel
    BY <1>3
  <2>1. number[m] \in uids + 1..uids + Cardinality(missing)
    BY <1>3
  <2>2. number[m] \in 1..MaxUids
    <3>1. uids \in Nat /\ uids + Cardinality(missing) <= MaxUids
      BY <1>0, <1>4, <1>11 DEF DecoderTyped
    <3>2. MaxUids \in Int
      BY MarkCountNat DEF MaxUids, MarkCount
    <3> QED
      BY <2>1, <3>1, <3>2, <1>8
  <2>3. m \in Marks /\ dial[m] # 0 /\ dial[m] \in Dials \cup {0}
    BY <1>0, <1>4 DEF Wanted, DecoderTyped
  <2> QED
    BY <2>2, <2>3, <1>6 DEF Channel
<1>13. \A c, d \in runtime'.channels : c.mark = d.mark => c = d
  <2>1. \A c, d \in fits : c.mark = d.mark => c = d
    BY <1>0 DEF Believed
  <2>2. \A c \in fits, d \in new : c.mark # d.mark
    BY <1>4, <1>12
  <2>3. \A c, d \in new : c.mark = d.mark => c = d
    BY <1>3
  <2> QED
    BY <2>1, <2>2, <2>3, <1>7
<1>14. runtime' \in [rig : Rigs \cup {NoRig}, channels : SUBSET Channel]
  BY <1>0, <1>5, <1>12 DEF DecoderTyped
<1>15. Believed' /\ requested' \in [Rigs -> SUBSET Channel] /\ dropped' \subseteq 1..MaxUids
  <2> DEFINE removed == runtime.channels \ fits
  <2>1. removed \in SUBSET runtime.channels /\ new \in SUBSET Channel /\ Told(removed, new)
    BY <1>4, <1>12
  <2>2. runtime'.channels = (runtime.channels \ removed) \cup new
    BY <1>7
  <2>3. \A c \in new : c.rig = runtime'.rig
    BY <1>6, <1>7, <1>12
  <2> HIDE DEF removed
  <2> QED
    BY <2>1, <2>2, <2>3, <1>0, <1>7, <1>13, <1>14, ToldKeeps
<1>16. shown' \in [Rigs -> [active : BOOLEAN, on : SUBSET Marks]]
  BY <1>0, <1>5 DEF DecoderTyped
<1>17. round' \in [at : {"wake", "look", "decide"}, frame : Frames, rig : Rigs \cup {NoRig}] /\ round'.at = "wake"
  BY <1>0, <1>1 DEF DecoderTyped
<1>18. DecoderTyped'
  BY <1>0, <1>1, <1>10, <1>14, <1>15, <1>16, <1>17 DEF DecoderTyped, outside
<1>19. RoundKnows'
  BY <1>17 DEF RoundKnows
<1>20. \A r \in Rigs : shown'[r].active => r = runtime'.rig
  <2> TAKE r \in Rigs
  <2>1. r # round.rig => shown'[r] = shown[r]
    BY <1>0, <1>5 DEF DecoderTyped
  <2> QED
    BY <2>1, <1>6, <1>7 DEF BackgroundInd
<1>21. (round.at = "wake" /\ ~stirred => Settled)'
  BY <1>1, <1>23
<1>22. (uids + MarkCount * RoundsDue <= MarkCount * (2 * edits + 1))'
  <2>1. MarkCount' = MarkCount
    BY DEF MarkCount
  <2> QED
    BY <2>1, <1>1, <1>10
<1> QED
  BY <1>15, <1>18, <1>19, <1>20, <1>21, <1>22 DEF BackgroundInd

LEMMA BackgroundKeeps == BackgroundInd /\ [BackgroundNext]_backgroundVars => BackgroundInd'
<1> SUFFICES ASSUME BackgroundInd, [BackgroundNext]_backgroundVars PROVE BackgroundInd'
  OBVIOUS
<1>1. CASE Wakes \/ LookUp \/ Decide
  BY <1>1, WakesKeeps, LookUpKeeps, DecideKeeps
<1>2. CASE UNCHANGED backgroundVars
  BY <1>2 DEF backgroundVars, BackgroundInd, DecoderTyped, Believed, RoundKnows, Settled, Wanted, Viewed, RoundsDue, MarkCount
<1> QED
  BY <1>1, <1>2, ChangesKeep DEF BackgroundNext

LEMMA BackgroundImplies == BackgroundInd => BackgroundInv
<1> SUFFICES ASSUME BackgroundInd PROVE BackgroundInv
  OBVIOUS
<1> USE BackgroundAssumption DEF BackgroundAssumption
<1>0. DecoderTyped /\ Believed
  BY DEF BackgroundInd
<1>1. uids \in 0..MaxUids
  <2>1. RoundsDue \in 0..2 /\ 0 \in Nat
    BY DEF RoundsDue
  <2>2. 0 <= MarkCount * RoundsDue /\ MarkCount * RoundsDue \in Int
    BY <2>1, MarkCountNat, TwoMore
  <2>3. MarkCount * (2 * edits + 1) <= MaxUids /\ MaxUids \in Int /\ MarkCount * (2 * edits + 1) \in Int
    <3>1. 2 * edits + 1 <= 2 * MaxEdits + 1 /\ 2 * edits + 1 \in Nat /\ 2 * MaxEdits + 1 \in Nat
      BY <1>0 DEF DecoderTyped
    <3>2. \A k, a, b \in Nat : a <= b => k * a <= k * b /\ k * a \in Int /\ k * b \in Int
      OBVIOUS
    <3> QED
      BY <3>1, <3>2, MarkCountNat DEF MaxUids, MarkCount
  <2>4. uids \in Nat /\ uids + MarkCount * RoundsDue <= MarkCount * (2 * edits + 1)
    BY <1>0 DEF DecoderTyped, BackgroundInd
  <2> QED
    BY <2>2, <2>3, <2>4
<1>2. BackgroundTypeOK
  BY <1>0, <1>1 DEF BackgroundTypeOK, DecoderTyped
<1>3. BackgroundAsWanted
  <2> SUFFICES ASSUME round.at = "wake", ~stirred, NEW r \in Rigs
               PROVE LET kept == {c \in requested[r] : c.uid \notin dropped}
                         wanted == IF r = activeRig THEN Wanted(r, IF viewers THEN spectrum ELSE NoFrame)
                                   ELSE {} IN
                     /\ \A c \in kept : c.mark \in wanted /\ c.freq = dial[c.mark]
                     /\ \A m \in wanted : \/ \E c \in kept : c.mark = m
                                          \/ \E c \in runtime.channels : c.mark = m /\ c.uid \in dropped
                     /\ \A c, d \in kept : c.mark = d.mark => c = d
                     /\ shown[r].active = (r = activeRig)
                     /\ r = activeRig => shown[r].on = wanted
    BY DEF BackgroundAsWanted
  <2> DEFINE kept == {c \in requested[r] : c.uid \notin dropped}
             wanted == IF r = activeRig THEN Wanted(r, IF viewers THEN spectrum ELSE NoFrame) ELSE {}
  <2>1. Settled /\ r # NoRig
    BY DEF BackgroundInd
  <2>2. \A c \in kept : c \in runtime.channels /\ c.rig = r /\ r = runtime.rig
    BY <1>0 DEF Believed
  <2>3. runtime.rig = activeRig
    BY <2>1 DEF Settled
  <2>4. r = activeRig => wanted = Wanted(activeRig, Viewed)
    BY DEF Viewed
  <2>5. \A c \in kept : c.mark \in wanted /\ c.freq = dial[c.mark]
    BY <2>1, <2>2, <2>3, <2>4 DEF Settled
  <2>6. ASSUME NEW m \in wanted
        PROVE \/ \E c \in kept : c.mark = m
              \/ \E c \in runtime.channels : c.mark = m /\ c.uid \in dropped
    <3>1. r = activeRig
      OBVIOUS
    <3>2. PICK c \in runtime.channels : c.mark = m
      BY <3>1, <2>1, <2>4 DEF Settled
    <3>3. c.uid \notin dropped => c \in kept
      BY <3>1, <3>2, <2>3, <1>0 DEF Believed
    <3> QED
      BY <3>2, <3>3
  <2>7. \A c, d \in kept : c.mark = d.mark => c = d
    BY <2>2, <1>0 DEF Believed
  <2>8. shown[r].active = (r = activeRig)
    <3>1. shown[r].active \in BOOLEAN /\ (shown[r].active => r = activeRig)
      BY <1>0, <2>3 DEF DecoderTyped, BackgroundInd
    <3>2. r = activeRig => shown[r].active
      BY <2>1 DEF Settled
    <3> QED
      BY <3>1, <3>2
  <2>9. r = activeRig => shown[r].on = wanted
    BY <2>1, <2>4 DEF Settled
  <2> HIDE DEF kept, wanted
  <2>10. /\ \A c \in kept : c.mark \in wanted /\ c.freq = dial[c.mark]
         /\ \A m \in wanted : \/ \E c \in kept : c.mark = m
                              \/ \E c \in runtime.channels : c.mark = m /\ c.uid \in dropped
         /\ \A c, d \in kept : c.mark = d.mark => c = d
         /\ shown[r].active = (r = activeRig)
         /\ r = activeRig => shown[r].on = wanted
    BY <2>5, <2>6, <2>7, <2>8, <2>9
  <2> QED
    BY <2>10 DEF kept, wanted
<1> QED
  BY <1>2, <1>3 DEF BackgroundInv

\* The background decoder keeps to its bookmarks: a round that nothing disturbs leaves the
\* servers with the channels that are wanted and no others, but for dropped commands
\* (reconcile of background_decode.rs), whatever has changed before and between its awaits.
THEOREM BackgroundHolds == BackgroundSpec => []BackgroundInv
<1>1. BackgroundSpec => []BackgroundInd
  BY BackgroundStarts, BackgroundKeeps, PTL DEF BackgroundSpec
<1> QED
  BY <1>1, BackgroundImplies, PTL

(***************************************************************************)
(* The transmitter and the microphone of a page for any rigs and any        *)
(* number of sockets, microphones and lost requests.                        *)
(***************************************************************************)
USE PageAudioAssumption DEF PageAudioAssumption

(***************************************************************************)
(* Where each part of the invariant looks.                                 *)
(***************************************************************************)
LEMMA ReleasingStays ==
    ASSUME Releasing, gone' = gone, tx'.active = tx.active,
           UNCHANGED <<unreleased, sentTo, keyed, newest, posts>>
    PROVE  Releasing'
BY DEF Releasing, ReleasedAfter, Here

LEMMA OneMicStays ==
    ASSUME OneMic, gone' = gone, tx'.active = tx.active,
           UNCHANGED <<mics, txStream, doubled, posts, ready>>
    PROVE  OneMic'
BY DEF OneMic, Here

\* The sockets a page may have after a step.
SocketsOK ==
    /\ \A k \in DOMAIN sockets : sockets[k] \in {"opening", "open", "closing", "closed"}
    /\ audioWs \in 0..MaxSockets /\ IsFiniteSet(DOMAIN sockets)
    /\ rx \in [active : BOOLEAN, info : BOOLEAN]

MicsOK ==
    /\ mics \cup {txStream, txProcessor} \cup feeding \subseteq 0..MaxPrompts /\ doubled \in BOOLEAN
    /\ prompts \in [shown : 0..MaxPrompts, asked : 0..MaxPrompts] /\ prompts.shown <= prompts.asked

TxOK == tx \in [active : BOOLEAN, timer : BOOLEAN, encoder : BOOLEAN]

PostsOK ==
    /\ sent \in Nat /\ newest \in [PageRigs -> 0..sent] /\ keyed \in [PageRigs -> BOOLEAN]
    /\ posts \subseteq Posted /\ ready \subseteq Posted
    /\ sentTo \subseteq PageRigs /\ unreleased \subseteq PageRigs

LEMMA StateParts ==
    PageState <=> SocketsOK /\ MicsOK /\ TxOK /\ PostsOK /\ tabRig \in PageRigs /\ gone \in BOOLEAN
<1>1. posts \subseteq Posted /\ ready \subseteq Posted =>
        \A p \in posts \cup ready : p.rig \in PageRigs /\ p.ptt \in BOOLEAN
  BY DEF Posted
<1> QED
  BY <1>1 DEF PageState, PageAudioTypeOK, SocketsOK, MicsOK, TxOK, PostsOK

LEMMA StateAfter ==
    SocketsOK' /\ MicsOK' /\ TxOK' /\ PostsOK' /\ tabRig' \in PageRigs /\ gone' \in BOOLEAN => PageState'
<1>1. (posts \subseteq Posted /\ ready \subseteq Posted)' =>
        \A p \in posts' \cup ready' : p.rig \in PageRigs /\ p.ptt \in BOOLEAN
  BY DEF Posted
<1> QED
  BY <1>1 DEF PageState, PageAudioTypeOK, SocketsOK, MicsOK, TxOK, PostsOK

LEMMA PartsStay ==
    /\ SocketsOK /\ UNCHANGED <<sockets, audioWs, rx>> => SocketsOK'
    /\ MicsOK /\ UNCHANGED <<mics, txStream, txProcessor, feeding, doubled, prompts>> => MicsOK'
    /\ TxOK /\ UNCHANGED tx => TxOK'
    /\ Watched /\ UNCHANGED tx => Watched'
    /\ PostsOK /\ UNCHANGED <<sent, newest, keyed, posts, ready, sentTo, unreleased>> => PostsOK'
<1>1. SocketsOK /\ UNCHANGED <<sockets, audioWs, rx>> => SocketsOK'
  BY DEF SocketsOK
<1>2. MicsOK /\ UNCHANGED <<mics, txStream, txProcessor, feeding, doubled, prompts>> => MicsOK'
  BY DEF MicsOK
<1>3. (TxOK /\ UNCHANGED tx => TxOK') /\ (Watched /\ UNCHANGED tx => Watched')
  BY DEF TxOK, Watched
<1>4. PostsOK /\ UNCHANGED <<sent, newest, keyed, posts, ready, sentTo, unreleased>> => PostsOK'
  BY DEF PostsOK, Posted
<1> QED
  BY <1>1, <1>2, <1>3, <1>4

\* Requests are numbered in the order in which they are sent.
LEMMA PostNumbers ==
    ASSUME PostsOK, tabRig \in PageRigs, NEW ptt \in BOOLEAN, NEW mic \in 0..MaxPrompts, Post(ptt, mic),
           UNCHANGED <<keyed, newest, ready>>, sentTo' \subseteq PageRigs, unreleased' \subseteq PageRigs
    PROVE  /\ PostsOK'
           /\ \E q \in posts' : /\ q.rig = tabRig /\ q.ptt = ptt /\ posts' = posts \cup {q}
                                /\ \A p \in posts : q.n > p.n
                                /\ \A r \in PageRigs : q.n > newest[r]
<1> DEFINE new == [n |-> sent + 1, ptt |-> ptt, rig |-> tabRig, mic |-> mic]
<1>1. sent' = sent + 1 /\ posts' = posts \cup {new} /\ sent \in Nat
  BY DEF Post, PostsOK
<1>2. Posted \subseteq Posted' /\ new \in Posted'
  BY <1>1 DEF Posted
<1>3. PostsOK'
  <2>1. newest' \in [PageRigs -> 0..sent']
    BY <1>1 DEF PostsOK
  <2> HIDE DEF new
  <2> QED
    BY <1>1, <1>2, <2>1 DEF PostsOK
<1>4. /\ new.rig = tabRig /\ new.ptt = ptt
      /\ \A p \in posts : new.n > p.n
      /\ \A r \in PageRigs : new.n > newest[r]
  BY <1>1 DEF PostsOK, Posted
<1> HIDE DEF new
<1> QED
  BY <1>1, <1>3, <1>4

\* stopTxAudio, whatever calls it: the release it sends is newer than all that keyed the rig.
LEMMA StopTxKeeps ==
    ASSUME PageAudioInd, Here, StopTx,
           UNCHANGED <<tabRig, mics, txStream, doubled, ready, gone, keyed, newest>>
    PROVE  TxOK' /\ PostsOK' /\ Watched' /\ Releasing' /\ OneMic'
<1> USE DEF PageAudioInd
<1>0. SocketsOK /\ MicsOK /\ TxOK /\ PostsOK /\ tabRig \in PageRigs
  BY StateParts
<1>1. CASE ~tx.active
  <2>1. UNCHANGED <<tx, posts, sent, sentTo, unreleased>>
    BY <1>1 DEF StopTx, postState
  <2>2. TxOK' /\ PostsOK' /\ Watched'
    BY <1>0, <2>1 DEF TxOK, PostsOK, Watched, Posted
  <2>3. Releasing' /\ OneMic'
    BY <2>1, ReleasingStays, OneMicStays
  <2> QED
    BY <2>2, <2>3
<1>2. CASE tx.active
  <2>1. /\ tx' = [tx EXCEPT !.active = FALSE, !.timer = FALSE] /\ Post(FALSE, 0)
        /\ unreleased' = unreleased \cup (sentTo \ {tabRig}) /\ sentTo' = {}
    BY <1>2 DEF StopTx
  <2>2. TxOK' /\ Watched' /\ ~tx'.active
    BY <1>0, <2>1 DEF TxOK, Watched
  <2>3. PostsOK' /\ \E q \in posts' : /\ q.rig = tabRig /\ ~q.ptt /\ posts' = posts \cup {q}
                                      /\ \A p \in posts : q.n > p.n
                                      /\ \A r \in PageRigs : q.n > newest[r]
    <3>1. sentTo' \subseteq PageRigs /\ unreleased' \subseteq PageRigs
      BY <1>0, <2>1 DEF PostsOK
    <3>2. 0 \in 0..MaxPrompts
      OBVIOUS
    <3> QED
      BY <1>0, <2>1, <3>1, <3>2, PostNumbers
  <2>4. PICK q \in posts' : /\ q.rig = tabRig /\ ~q.ptt /\ posts' = posts \cup {q}
                            /\ \A p \in posts : q.n > p.n
                            /\ \A r \in PageRigs : q.n > newest[r]
    BY <2>3
  <2>5. Releasing'
    <3> SUFFICES ASSUME NEW r \in PageRigs \ unreleased'
                 PROVE  /\ keyed[r] => ReleasedAfter(r, newest[r])'
                        /\ \A p \in posts' : p.ptt /\ p.rig = r => newest[r] > p.n \/ ReleasedAfter(r, p.n)'
      BY <2>1, <2>2 DEF Releasing
    <3>1. \A n : ReleasedAfter(r, n) => ReleasedAfter(r, n)'
      BY <2>4 DEF ReleasedAfter
    <3>2. r = tabRig => /\ ReleasedAfter(r, newest[r])'
                        /\ \A p \in posts : ReleasedAfter(r, p.n)'
      BY <2>4 DEF ReleasedAfter
    <3>3. r # tabRig => r \notin sentTo
      BY <2>1
    <3>4. r \notin unreleased
      BY <2>1
    <3>5. /\ keyed[r] => r \in sentTo \/ ReleasedAfter(r, newest[r])
          /\ \A p \in posts : p.ptt /\ p.rig = r =>
                  r \in sentTo \/ newest[r] > p.n \/ ReleasedAfter(r, p.n)
      BY <3>4 DEF Releasing
    <3> QED
      BY <2>4, <3>1, <3>2, <3>3, <3>5
  <2>6. OneMic'
    BY <2>4 DEF OneMic, Here
  <2> QED
    BY <2>2, <2>3, <2>5, <2>6
<1> QED
  BY <1>1, <1>2

(***************************************************************************)
(* The steps.                                                              *)
(***************************************************************************)
LEMMA PageStarts == PageAudioInit => PageAudioInd
<1> SUFFICES ASSUME PageAudioInit PROVE PageAudioInd
  OBVIOUS
<1>1. SocketsOK /\ MicsOK /\ TxOK /\ PostsOK
  <2>1. DOMAIN sockets = {}
    BY DEF PageAudioInit
  <2>2. SocketsOK
    BY <2>1, FS_EmptySet DEF PageAudioInit, SocketsOK
  <2>3. MicsOK
    <3>1. MaxPrompts \in Nat
      OBVIOUS
    <3>2. prompts \in [shown : 0..MaxPrompts, asked : 0..MaxPrompts] /\ prompts.shown <= prompts.asked
      BY <3>1 DEF PageAudioInit
    <3>3. mics = {} /\ feeding = {} /\ txStream = 0 /\ txProcessor = 0
      BY DEF PageAudioInit
    <3>4. mics \cup {txStream, txProcessor} \cup feeding \subseteq 0..MaxPrompts
      BY <3>1, <3>3
    <3>5. doubled \in BOOLEAN
      BY DEF PageAudioInit
    <3> QED
      BY <3>2, <3>4, <3>5 DEF MicsOK
  <2>4. TxOK /\ PostsOK
    BY DEF PageAudioInit, TxOK, PostsOK
  <2> QED
    BY <2>2, <2>3, <2>4
<1>2. PageState
  BY <1>1, StateParts DEF PageAudioInit
<1>3. Watched /\ Releasing /\ OneMic
  BY DEF PageAudioInit, Watched, Releasing, OneMic, Here
<1> QED
  BY <1>2, <1>3 DEF PageAudioInd

\* A request arrives: a key after the release of its rig is one that was overtaken.
LEMMA ArrivesKeeps == ASSUME PageAudioInd, NEW p \in posts, Arrives(p) PROVE PageAudioInd'
<1> USE DEF PageAudioInd
<1>0. SocketsOK /\ MicsOK /\ TxOK /\ PostsOK /\ tabRig \in PageRigs /\ gone \in BOOLEAN
  BY StateParts
<1>1. /\ posts' = posts \ {p} /\ ready' = IF gone THEN ready ELSE ready \cup {p}
      /\ keyed' = [keyed EXCEPT ![p.rig] = p.ptt]
      /\ newest' = [newest EXCEPT ![p.rig] = IF p.n > @ THEN p.n ELSE @]
      /\ unreleased' = IF p.n < newest[p.rig] THEN unreleased \cup {p.rig} ELSE unreleased
      /\ UNCHANGED <<tabRig, sockets, audioWs, rx, tx, mics, txStream, doubled, feeding, txProcessor,
                     prompts, selection, gone, sent, sentTo, upsets>>
  BY DEF Arrives, socketState, micState
<1>2. p.n \in 0..sent /\ p.ptt \in BOOLEAN /\ p.rig \in PageRigs /\ p \in Posted
  BY <1>0 DEF PostsOK, Posted
<1>3. PostsOK'
  <2>1. keyed' \in [PageRigs -> BOOLEAN]
    BY <1>0, <1>1, <1>2 DEF PostsOK
  <2>2. newest' \in [PageRigs -> 0..sent]
    BY <1>0, <1>1, <1>2 DEF PostsOK
  <2>3. Posted' = Posted
    BY <1>1 DEF Posted
  <2> QED
    BY <1>0, <1>1, <1>2, <2>1, <2>2, <2>3 DEF PostsOK
<1>4. SocketsOK' /\ MicsOK' /\ TxOK' /\ Watched'
  BY <1>0, <1>1, PartsStay
<1>5. PageState'
  BY <1>0, <1>1, <1>3, <1>4, StateAfter
<1>6. OneMic'
  BY <1>1 DEF OneMic, Here
<1>7. Releasing'
  <2> SUFFICES ASSUME Here, NEW r \in PageRigs \ unreleased'
               PROVE  /\ keyed'[r] => r \in sentTo \/ ReleasedAfter(r, newest[r])'
                      /\ \A k \in posts' : k.ptt /\ k.rig = r =>
                            r \in sentTo \/ newest'[r] > k.n \/ ReleasedAfter(r, k.n)'
    BY <1>1 DEF Releasing, Here
  <2>1. /\ keyed[r] => r \in sentTo \/ ReleasedAfter(r, newest[r])
        /\ \A k \in posts : k.ptt /\ k.rig = r =>
                  r \in sentTo \/ newest[r] > k.n \/ ReleasedAfter(r, k.n)
    BY <1>1 DEF Releasing
  <2>2. CASE r # p.rig
    <3>1. keyed'[r] = keyed[r] /\ newest'[r] = newest[r]
      BY <1>0, <1>1, <2>2 DEF PostsOK
    <3>2. \A n : ReleasedAfter(r, n) => ReleasedAfter(r, n)'
      BY <1>1, <2>2 DEF ReleasedAfter
    <3> QED
      BY <1>1, <2>1, <3>1, <3>2
  <2>3. CASE r = p.rig
    <3>1. keyed'[r] = p.ptt /\ newest'[r] = p.n
      <4>1. ~(p.n < newest[r]) /\ newest[r] \in Nat /\ p.n \in Nat
        BY <1>0, <1>1, <1>2, <2>3 DEF PostsOK
      <4>2. newest'[r] = IF p.n > newest[r] THEN p.n ELSE newest[r]
        BY <1>0, <1>1, <2>3 DEF PostsOK
      <4> QED
        BY <1>0, <1>1, <2>3, <4>1, <4>2 DEF PostsOK
    <3>2. p.n >= newest[r] /\ newest[r] \in Nat /\ p.n \in Nat
      BY <1>0, <1>1, <1>2, <2>3 DEF PostsOK
    <3>3. ASSUME p.ptt PROVE r \in sentTo \/ ReleasedAfter(r, p.n)'
      <4>1. r \in sentTo \/ newest[r] > p.n \/ ReleasedAfter(r, p.n)
        BY <2>1, <2>3, <3>3
      <4>2. ReleasedAfter(r, p.n) => ReleasedAfter(r, p.n)'
        BY <1>1, <3>3 DEF ReleasedAfter
      <4> QED
        BY <3>2, <4>1, <4>2
    <3>4. ASSUME NEW k \in posts', k.ptt, k.rig = r
          PROVE  r \in sentTo \/ p.n > k.n \/ ReleasedAfter(r, k.n)'
      <4>1. r \in sentTo \/ newest[r] > k.n \/ ReleasedAfter(r, k.n)
        BY <1>1, <2>1, <3>4
      <4>2. k.n \in Nat
        BY <1>0, <1>1 DEF PostsOK, Posted
      <4>3. ReleasedAfter(r, k.n) => p.n > k.n \/ ReleasedAfter(r, k.n)'
        BY <1>1 DEF ReleasedAfter
      <4> QED
        BY <3>2, <4>1, <4>2, <4>3
    <3> QED
      BY <3>1, <3>3, <3>4
  <2> QED
    BY <2>2, <2>3
<1> QED
  BY <1>4, <1>5, <1>6, <1>7

LEMMA FailsKeeps == ASSUME PageAudioInd, NEW p \in posts, PostFails(p) PROVE PageAudioInd'
<1> USE DEF PageAudioInd
<1>0. SocketsOK /\ MicsOK /\ TxOK /\ PostsOK /\ tabRig \in PageRigs /\ gone \in BOOLEAN
  BY StateParts
<1>1. /\ posts' = posts \ {p} /\ ready' = IF gone THEN ready ELSE ready \cup {p}
      /\ unreleased' = IF p.ptt THEN unreleased ELSE unreleased \cup {p.rig}
      /\ UNCHANGED <<tabRig, sockets, audioWs, rx, tx, mics, txStream, doubled, feeding, txProcessor,
                     prompts, selection, gone, keyed, newest, sent, sentTo>>
  BY DEF PostFails, socketState, micState
<1>2. p.rig \in PageRigs /\ p \in Posted /\ Posted' = Posted
  BY <1>0, <1>1 DEF PostsOK, Posted
<1>3. PostsOK'
  BY <1>0, <1>1, <1>2 DEF PostsOK
<1>4. SocketsOK' /\ MicsOK' /\ TxOK' /\ Watched'
  BY <1>0, <1>1, PartsStay
<1>5. PageState'
  BY <1>0, <1>1, <1>3, <1>4, StateAfter
<1>6. OneMic'
  BY <1>1 DEF OneMic, Here
<1>7. Releasing'
  <2> SUFFICES ASSUME Here, NEW r \in PageRigs \ unreleased'
               PROVE  /\ keyed[r] => r \in sentTo \/ ReleasedAfter(r, newest[r])'
                      /\ \A k \in posts' : k.ptt /\ k.rig = r =>
                            r \in sentTo \/ newest[r] > k.n \/ ReleasedAfter(r, k.n)'
    BY <1>1 DEF Releasing, Here
  <2>1. \A n : ReleasedAfter(r, n) => ReleasedAfter(r, n)'
    BY <1>1 DEF ReleasedAfter
  <2> QED
    BY <1>1, <2>1 DEF Releasing
<1> QED
  BY <1>4, <1>5, <1>6, <1>7

LEMMA GrantedKeeps == PageAudioInd /\ MicGranted => PageAudioInd'
<1> SUFFICES ASSUME PageAudioInd, MicGranted PROVE PageAudioInd'
  OBVIOUS
<1> USE DEF PageAudioInd
<1> DEFINE mic == prompts.asked - prompts.shown + 1
<1>0. SocketsOK /\ MicsOK /\ TxOK /\ PostsOK /\ tabRig \in PageRigs /\ gone \in BOOLEAN
  BY StateParts
<1>1. /\ Here /\ prompts.shown > 0
      /\ mics' = mics \cup {mic} /\ txStream' = mic /\ Post(TRUE, mic)
      /\ doubled' = (doubled \/ txStream # 0)
      /\ prompts' = [prompts EXCEPT !.shown = @ - 1]
      /\ tx' = [tx EXCEPT !.active = TRUE, !.timer = TRUE]
      /\ sentTo' = sentTo \cup {tabRig}
      /\ UNCHANGED <<tabRig, sockets, audioWs, rx, feeding, txProcessor, ready, selection, gone,
                     unreleased, keyed, newest, upsets>>
  BY DEF MicGranted, socketState, radioState
<1>2. mic \in 1..MaxPrompts /\ mic \in 0..MaxPrompts
  BY <1>0, <1>1 DEF MicsOK
<1> HIDE DEF mic
<1>3. /\ PostsOK'
      /\ \E q \in posts' : /\ q.rig = tabRig /\ q.ptt /\ posts' = posts \cup {q}
                           /\ \A p \in posts : q.n > p.n
                           /\ \A r \in PageRigs : q.n > newest[r]
  <2>1. sentTo' \subseteq PageRigs /\ unreleased' \subseteq PageRigs
    BY <1>0, <1>1 DEF PostsOK
  <2> QED
    BY <1>0, <1>1, <1>2, <2>1, PostNumbers
<1>4. SocketsOK' /\ MicsOK' /\ TxOK' /\ Watched' /\ tx'.active
  <2>1. MicsOK'
    BY <1>0, <1>1, <1>2 DEF MicsOK
  <2>2. TxOK' /\ Watched' /\ tx'.active
    BY <1>0, <1>1 DEF TxOK, Watched
  <2> QED
    BY <1>0, <1>1, <2>1, <2>2, PartsStay
<1>5. PageState'
  BY <1>0, <1>1, <1>3, <1>4, StateAfter
<1>6. OneMic'
  <2>1. ~doubled' => txStream = 0 /\ ~doubled
    BY <1>1
  <2>2. mic # 0
    BY <1>2
  <2>3. ~doubled' => mics = {}
    BY <1>1, <2>1 DEF OneMic, Here
  <2>4. ~doubled' => mics' = {txStream'}
    BY <1>1, <2>3
  <2> QED
    BY <1>1, <1>4, <2>2, <2>4 DEF OneMic
<1>7. Releasing'
  <2>1. PICK q \in posts' : q.rig = tabRig /\ q.ptt /\ posts' = posts \cup {q}
    BY <1>3
  <2> SUFFICES ASSUME NEW r \in PageRigs \ unreleased
               PROVE  /\ keyed[r] => r \in sentTo' \/ ReleasedAfter(r, newest[r])'
                      /\ \A k \in posts' : k.ptt /\ k.rig = r =>
                            r \in sentTo' \/ newest[r] > k.n \/ ReleasedAfter(r, k.n)'
    BY <1>1, <1>4 DEF Releasing, Here
  <2>2. \A n : ReleasedAfter(r, n) => ReleasedAfter(r, n)'
    BY <2>1 DEF ReleasedAfter
  <2> QED
    BY <1>1, <2>1, <2>2 DEF Releasing
<1> QED
  BY <1>4, <1>5, <1>6, <1>7

\* The handlers that go on after their request was answered.
LEMMA GoesOnKeeps ==
    ASSUME PageAudioInd, NEW p \in ready, StartGoesOn(p) \/ StopGoesOn(p)
    PROVE  PageAudioInd'
<1> USE DEF PageAudioInd
<1>0. SocketsOK /\ MicsOK /\ TxOK /\ PostsOK /\ tabRig \in PageRigs /\ gone \in BOOLEAN
  BY StateParts
<1>1. /\ Here /\ ready' = ready \ {p} /\ tx'.active = tx.active /\ tx'.timer = tx.timer
      /\ tx' = tx \/ tx' = [tx EXCEPT !.encoder = TRUE] \/ tx' = [tx EXCEPT !.encoder = FALSE]
      /\ UNCHANGED <<tabRig, sockets, audioWs, rx, doubled, prompts, posts, sent, sentTo, unreleased,
                     selection, gone, keyed, newest, upsets>>
  <2>1. CASE StartGoesOn(p)
    BY <1>0, <2>1 DEF StartGoesOn, socketState, postState, radioState, TxOK
  <2>2. CASE StopGoesOn(p)
    BY <1>0, <2>2 DEF StopGoesOn, socketState, postState, radioState, TxOK
  <2> QED
    BY <2>1, <2>2
<1>2. MicsOK'
  <2>1. p.mic \in 0..MaxPrompts
    BY <1>0 DEF PostsOK, Posted
  <2>2. CASE StartGoesOn(p)
    BY <1>0, <2>1, <2>2 DEF StartGoesOn, MicsOK
  <2>3. CASE StopGoesOn(p)
    BY <1>0, <2>3 DEF StopGoesOn, MicsOK
  <2> QED
    BY <2>2, <2>3
<1>3. SocketsOK' /\ PostsOK' /\ Watched'
  <2>1. ready' \subseteq Posted'
    BY <1>0, <1>1 DEF PostsOK, Posted
  <2>2. PostsOK'
    BY <1>0, <1>1, <2>1 DEF PostsOK, Posted
  <2> QED
    BY <1>0, <1>1, <2>2, PartsStay DEF Watched
<1>4. TxOK'
  BY <1>0, <1>1 DEF TxOK
<1>5. PageState'
  BY <1>0, <1>1, <1>2, <1>3, <1>4, StateAfter
<1>6. Releasing'
  BY <1>1, ReleasingStays
<1>7. OneMic'
  <2>1. CASE StartGoesOn(p)
    BY <1>1, <2>1 DEF StartGoesOn, OneMic, Here
  <2>2. CASE StopGoesOn(p)
    BY <1>1, <2>2 DEF StopGoesOn, OneMic, Here
  <2> QED
    BY <2>1, <2>2
<1> QED
  BY <1>3, <1>5, <1>6, <1>7

LEMMA StopsKeep ==
    ASSUME PageAudioInd,
           ClickTx \/ SafetyTimeout \/ \E k \in DOMAIN sockets : WsCloses(k)
    PROVE  PageAudioInd'
<1> USE DEF PageAudioInd
<1>0. SocketsOK /\ MicsOK /\ TxOK /\ PostsOK /\ tabRig \in PageRigs /\ gone \in BOOLEAN
  BY StateParts
<1>1. CASE StopTx /\ Here /\ UNCHANGED <<tabRig, micState, prompts, ready, selection, gone, radioState>>
           /\ (UNCHANGED socketState \/ \E k \in DOMAIN sockets :
                  /\ sockets' = [sockets EXCEPT ![k] = "closed"] /\ rx' = Quieted /\ UNCHANGED audioWs)
  <2>1. TxOK' /\ PostsOK' /\ Watched' /\ Releasing' /\ OneMic'
    BY <1>1, StopTxKeeps DEF micState, radioState
  <2>2. MicsOK' /\ tabRig' \in PageRigs /\ gone' \in BOOLEAN
    BY <1>0, <1>1, PartsStay DEF micState
  <2>3. SocketsOK'
    <3>1. CASE UNCHANGED socketState
      BY <1>0, <3>1, PartsStay DEF socketState
    <3>2. CASE \E k \in DOMAIN sockets : /\ sockets' = [sockets EXCEPT ![k] = "closed"]
                                         /\ rx' = Quieted /\ UNCHANGED audioWs
      <4>1. DOMAIN sockets' = DOMAIN sockets /\ rx' \in [active : BOOLEAN, info : BOOLEAN]
        BY <3>2 DEF Quieted
      <4>2. \A k \in DOMAIN sockets : sockets'[k] \in {sockets[k], "closed"}
        BY <3>2
      <4> QED
        BY <1>0, <3>2, <4>1, <4>2 DEF SocketsOK
    <3> QED
      BY <1>1, <3>1, <3>2
  <2> QED
    BY <1>0, <2>1, <2>2, <2>3, StateAfter
<1>2. CASE ClickTx /\ ~tx.active
  <2>1. /\ Here /\ prompts.asked < MaxPrompts
        /\ prompts' = [shown |-> prompts.shown + 1, asked |-> prompts.asked + 1]
        /\ UNCHANGED <<tabRig, socketState, micState, ready, selection, gone, radioState, tx, postState>>
    BY <1>2 DEF ClickTx
  <2>2. UNCHANGED <<tabRig, sockets, audioWs, rx, mics, txStream, doubled, feeding, txProcessor, ready,
                    gone, keyed, newest, tx, posts, sent, sentTo, unreleased>>
    BY <2>1 DEF socketState, micState, radioState, postState
  <2>3. MicsOK'
    BY <1>0, <2>1, <2>2 DEF MicsOK
  <2>4. SocketsOK' /\ TxOK' /\ PostsOK' /\ Watched' /\ Releasing' /\ OneMic'
    BY <1>0, <2>2, PartsStay, ReleasingStays, OneMicStays
  <2> QED
    BY <1>0, <2>2, <2>3, <2>4, StateAfter
<1>3. CASE ClickTx /\ tx.active
  BY <1>1, <1>3 DEF ClickTx
<1>4. CASE SafetyTimeout
  BY <1>1, <1>4 DEF SafetyTimeout
<1>5. CASE \E k \in DOMAIN sockets : WsCloses(k)
  BY <1>1, <1>5 DEF WsCloses
<1> QED
  BY <1>2, <1>3, <1>4, <1>5

\* A page opens at most so many sockets, and closes the last one.
LEMMA OpenWsOK ==
    ASSUME SocketsOK, NEW s, OpenWs(s), IsFiniteSet(DOMAIN s),
           \A k \in DOMAIN s : s[k] \in {"opening", "open", "closing", "closed"}
    PROVE  /\ \A k \in DOMAIN sockets' : sockets'[k] \in {"opening", "open", "closing", "closed"}
           /\ audioWs' \in 0..MaxSockets /\ IsFiniteSet(DOMAIN sockets')
<1>1. Cardinality(DOMAIN s) \in Nat /\ Cardinality(DOMAIN s) < MaxSockets
  BY FS_CardinalityType DEF OpenWs
<1>2. DOMAIN sockets' = DOMAIN s \cup {Cardinality(DOMAIN s) + 1}
  BY DEF OpenWs
<1>3. \A k \in DOMAIN sockets' : sockets'[k] = IF k \in DOMAIN s THEN s[k] ELSE "opening"
  BY <1>2 DEF OpenWs
<1> QED
  BY <1>1, <1>2, <1>3, FS_AddElement DEF OpenWs

LEMMA CloseWsOK ==
    ASSUME SocketsOK
    PROVE  /\ DOMAIN CloseWs = DOMAIN sockets
           /\ \A k \in DOMAIN CloseWs : CloseWs[k] \in {"opening", "open", "closing", "closed"}
BY DEF SocketsOK, CloseWs

LEMMA SocketsKeep ==
    ASSUME PageAudioInd,
           ClickRx \/ SwitchGoesOn \/ \E k \in DOMAIN sockets : WsOpens(k)
    PROVE  PageAudioInd'
<1> USE DEF PageAudioInd
<1>0. SocketsOK /\ MicsOK /\ TxOK /\ PostsOK /\ tabRig \in PageRigs /\ gone \in BOOLEAN
  BY StateParts
<1>1. /\ UNCHANGED <<tabRig, tx, mics, txStream, doubled, txProcessor, prompts, posts, sent, sentTo,
                     unreleased, ready, gone, keyed, newest, upsets>>
      /\ feeding' \in {feeding, {}}
  BY DEF ClickRx, SwitchGoesOn, WsOpens, postState, radioState, micState
<1>2. SocketsOK'
  <2>1. CASE ClickRx
    <3>1. CASE rx.active
      <4>1. sockets' = CloseWs /\ audioWs' = 0 /\ rx' \in [active : BOOLEAN, info : BOOLEAN]
        <5>1. sockets' = CloseWs /\ audioWs' = 0 /\ rx' = Quieted
          BY <2>1, <3>1 DEF ClickRx
        <5> QED
          BY <5>1 DEF Quieted
      <4> QED
        BY <1>0, <4>1, CloseWsOK DEF SocketsOK
    <3>2. CASE ~rx.active
      <4>1. OpenWs(sockets) /\ UNCHANGED rx
        BY <2>1, <3>2 DEF ClickRx
      <4> QED
        BY <1>0, <4>1, OpenWsOK DEF SocketsOK
    <3> QED
      BY <3>1, <3>2
  <2>2. CASE SwitchGoesOn
    <3>1. CASE rx.active
      <4>1. OpenWs(CloseWs) /\ rx' = Quieted
        BY <2>2, <3>1 DEF SwitchGoesOn
      <4>2. IsFiniteSet(DOMAIN CloseWs)
        BY <1>0, CloseWsOK DEF SocketsOK
      <4> QED
        BY <1>0, <4>1, <4>2, CloseWsOK, OpenWsOK DEF SocketsOK, Quieted
    <3>2. CASE ~rx.active
      BY <1>0, <2>2, <3>2 DEF SwitchGoesOn, SocketsOK, socketState
    <3> QED
      BY <3>1, <3>2
  <2>3. CASE \E k \in DOMAIN sockets : WsOpens(k)
    BY <1>0, <2>3 DEF WsOpens, SocketsOK
  <2> QED
    BY <2>1, <2>2, <2>3
<1>3. MicsOK' /\ TxOK' /\ PostsOK' /\ Watched'
  <2>1. MicsOK'
    BY <1>0, <1>1 DEF MicsOK
  <2> QED
    BY <1>0, <1>1, <2>1, PartsStay
<1>4. PageState'
  BY <1>0, <1>1, <1>2, <1>3, StateAfter
<1>5. Releasing' /\ OneMic'
  BY <1>1, ReleasingStays, OneMicStays
<1> QED
  BY <1>3, <1>4, <1>5

LEMMA OthersKeep ==
    ASSUME PageAudioInd,
           MicDenied \/ (\E r \in PageRigs : SwitchTab(r)) \/ UNCHANGED pageAudioVars
    PROVE  PageAudioInd'
<1> USE DEF PageAudioInd
<1>0. SocketsOK /\ MicsOK /\ TxOK /\ PostsOK /\ tabRig \in PageRigs /\ gone \in BOOLEAN
  BY StateParts
<1>1. /\ UNCHANGED <<sockets, audioWs, rx, tx, mics, txStream, doubled, feeding, txProcessor, posts,
                     sent, sentTo, unreleased, ready, gone, keyed, newest>>
      /\ tabRig' \in PageRigs
      /\ prompts' = prompts \/ (prompts.shown > 0 /\ prompts' = [prompts EXCEPT !.shown = @ - 1])
  BY <1>0 DEF MicDenied, SwitchTab, pageAudioVars, socketState, micState, postState, radioState
<1>2. MicsOK'
  BY <1>0, <1>1 DEF MicsOK
<1>3. SocketsOK' /\ TxOK' /\ PostsOK' /\ Watched'
  BY <1>0, <1>1, PartsStay
<1>4. PageState'
  BY <1>0, <1>1, <1>2, <1>3, StateAfter
<1>5. Releasing' /\ OneMic'
  BY <1>1, ReleasingStays, OneMicStays
<1> QED
  BY <1>3, <1>4, <1>5

LEMMA LeaveKeeps == PageAudioInd /\ Leave => PageAudioInd'
<1> SUFFICES ASSUME PageAudioInd, Leave PROVE PageAudioInd'
  OBVIOUS
<1> USE DEF PageAudioInd
<1>0. SocketsOK /\ MicsOK /\ TxOK /\ PostsOK /\ tabRig \in PageRigs /\ gone \in BOOLEAN
  BY StateParts
<1>1. /\ gone' = TRUE
      /\ sockets' = [k \in DOMAIN sockets |-> "closed"] /\ audioWs' = 0 /\ rx' = Quieted
      /\ tx' = [active |-> FALSE, timer |-> FALSE, encoder |-> FALSE]
      /\ mics' = {} /\ txStream' = 0 /\ feeding' = {} /\ txProcessor' = 0
      /\ prompts' = [prompts EXCEPT !.shown = 0] /\ ready' = {}
      /\ UNCHANGED <<tabRig, doubled, sentTo, unreleased, keyed, newest>>
  BY DEF Leave, radioState
<1>2. PostsOK'
  <2>1. CASE tx.active
    <3> DEFINE new == [n |-> sent + 1, ptt |-> FALSE, rig |-> ActiveRig, mic |-> 0]
    <3>1. sent' = sent + 1 /\ posts' = posts \cup {new} /\ sent \in Nat
      BY <1>0, <2>1 DEF Leave, PostsOK
    <3>2. Posted \subseteq Posted' /\ new \in Posted'
      BY <3>1 DEF Posted
    <3>3. newest' \in [PageRigs -> 0..sent']
      BY <1>0, <1>1, <3>1 DEF PostsOK
    <3> HIDE DEF new
    <3> QED
      BY <1>0, <1>1, <3>1, <3>2, <3>3 DEF PostsOK
  <2>2. CASE ~tx.active
    BY <1>0, <1>1, <2>2 DEF Leave, PostsOK, Posted
  <2> QED
    BY <2>1, <2>2
<1>3. SocketsOK' /\ TxOK' /\ Watched'
  BY <1>0, <1>1 DEF SocketsOK, TxOK, Watched, Quieted
<1>4. MicsOK'
  BY <1>0, <1>1 DEF MicsOK
<1>5. PageState'
  BY <1>0, <1>1, <1>2, <1>3, <1>4, StateAfter
<1>6. Releasing' /\ OneMic'
  BY <1>1 DEF Releasing, OneMic, Here
<1> QED
  BY <1>3, <1>5, <1>6

LEMMA PageKeeps == PageAudioInd /\ [PageAudioNext]_pageAudioVars => PageAudioInd'
BY ArrivesKeeps, FailsKeeps, GrantedKeeps, GoesOnKeeps, StopsKeep, SocketsKeep, OthersKeep, LeaveKeeps
   DEF PageAudioNext

\* A page that does not transmit holds no transmitter and no microphone once its requests have
\* arrived, and one that does is watched, for any rigs it switches between.
THEOREM PageAudioHolds == PageAudioSpec => []PageAudioInv
<1>1. PageAudioInd => PageAudioInv
  <2> SUFFICES ASSUME PageAudioInd PROVE PageAudioInv
    OBVIOUS
  <2> USE DEF PageAudioInd
  <2>1. StoppedIsReleased
    <3>1. keyed \in [PageRigs -> BOOLEAN]
      BY DEF PageState, PageAudioTypeOK
    <3> QED
      BY <3>1 DEF StoppedIsReleased, Releasing, ReleasedAfter
  <2>2. MicsAreClosed
    BY DEF MicsAreClosed, OneMic
  <2> QED
    BY <2>1, <2>2 DEF PageAudioInv, PageState
<1> QED
  BY <1>1, PageStarts, PageKeeps, PTL DEF PageAudioSpec
=============================================================================

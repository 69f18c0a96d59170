------------------------------- MODULE RigTask -------------------------------
(***************************************************************************)
(* The rig task of trx-server (rig_task.rs): the only owner of the radio.  *)
(* It keeps a private RigState, a state machine that validates commands,   *)
(* and a watch channel through which every other task sees the rig.  A     *)
(* command or a poll may fail at any call to the radio, and tokio's        *)
(* timeout drops it at any await, with whatever it has changed so far.     *)
(* The queue in front of the task is module CommandQueue.                  *)
(***************************************************************************)
EXTENDS Naturals

CONSTANTS Tunings,  \* a frequency with a mode, as one value
          Initial,  \* initial_freq_hz and initial_mode of the configuration
          VfoPrime, \* the values vfo_prime may have in the configuration
          Offered   \* the operations clients ask for, out of CatOps and EarlyOps

ASSUME TuningAssumption == Initial \in Tunings
ASSUME PrimeAssumption  == VfoPrime \subseteq BOOLEAN /\ VfoPrime # {}

VARIABLES st,      \* RigState as the task keeps it
          machine, \* RigStateMachine, against which commands are validated
          pub,     \* RigState in the watch channel
          radio,   \* the radio itself
          pc,      \* where the task stands
          stage,   \* attempt of the refresh after power on, or step of the VFO priming
          heard,   \* initial_status_read
          op,      \* the command in progress, or NoCmd
          answer,  \* the answer to the last command, "none" while one is in progress
          paused,  \* poll_pause_until lies ahead
          recent,  \* last_power_on is less than 5 s ago
          calm,    \* from now on the radio answers and nobody touches anything
          torn,    \* history: a refresh stopped half-way since the last full publication
          doubt,   \* history: the radio was keyed at the start, or the last command about PTT
                   \* or power off was answered with an error, and none with ok since
          off      \* history: powered off by command, and not read by command since

task    == <<st, machine, pub, pc, stage, heard, op, answer, paused, recent>>
history == <<torn, doubt, off>>
vars    == <<task, radio, calm, history>>

-----------------------------------------------------------------------------
(* State and commands.                                                     *)

RigState == [init : BOOLEAN, enabled : BOOLEAN, tx : BOOLEAN, lock : BOOLEAN,
             tuning : Tunings]
Machine  == [kind : {"Disconnected", "Initializing", "PoweredOff", "Ready", "Transmitting"},
             locked : BOOLEAN]
Vfos     == {"A", "B"}
Radio    == [on : BOOLEAN, tx : BOOLEAN, vfo : Vfos, dial : [Vfos -> Tunings]]

\* Commands for the CAT side.  "tune" is SetFreq and SetMode, "limit" is
\* SetTxLimit and GetTxLimit.
CatOps    == {"tune", "ptt", "power", "lock", "toggle", "limit", "snapshot"}
\* Commands process_command answers before it looks at the rig's state:
\* "decoder" stands for the decoder, CW and recorder settings and resets,
\* "filter" for the SDR settings, "center" for SetCenterFreq.
EarlyOps  == {"decoder", "filter", "center", "spectrum"}

Cmd(o, b, t) == [op |-> o, on |-> b, to |-> t]
Commands ==
    {c \in [op : CatOps \cup EarlyOps, on : BOOLEAN, to : Tunings] :
        /\ c.op # "tune" => c.to = Initial
        /\ c.op \notin {"ptt", "power", "lock"} => ~c.on}
NoCmd == Cmd("none", FALSE, Initial)

Refreshes(c) == c.op \in {"toggle", "snapshot"} \/ (c.op = "power" /\ c.on)
AboutPtt(c)  == c.op = "ptt" \/ (c.op = "power" /\ ~c.on)

Desired(s) ==
    [kind   |-> IF ~s.init THEN "Initializing"
                ELSE IF ~s.enabled THEN "PoweredOff"
                ELSE IF s.tx THEN "Transmitting" ELSE "Ready",
     locked |-> s.init /\ s.enabled /\ s.lock]

IsInitialized(m) == m.kind \in {"Ready", "Transmitting", "PoweredOff"}

\* can_execute of the command's handler.
CanExecute(c, m) ==
    /\ c.op \in {"tune", "toggle"} => IsInitialized(m) /\ ~m.locked
    /\ c.op \in {"ptt", "limit"} => IsInitialized(m)
    /\ c.op = "lock" /\ c.on => IsInitialized(m)
    /\ c.op = "power" /\ ~c.on => m.kind # "Transmitting"

\* What the radio does with a command it receives.
Effect(r, c) ==
    IF c.op = "power" /\ c.on THEN [r EXCEPT !.on = TRUE]
    ELSE IF ~r.on THEN r
    ELSE IF c.op = "tune" THEN [r EXCEPT !.dial[r.vfo] = c.to]
    ELSE IF c.op = "ptt" THEN [r EXCEPT !.tx = c.on]
    ELSE IF c.op = "power" THEN [r EXCEPT !.on = FALSE, !.tx = FALSE]
    ELSE IF c.op = "toggle" THEN [r EXCEPT !.vfo = IF @ = "A" THEN "B" ELSE "A"]
    ELSE r

\* The CommandResult of a handler, applied to the state.
Apply(s, c) ==
    IF c.op = "tune" THEN [s EXCEPT !.tuning = c.to]
    ELSE IF c.op = "ptt" THEN [s EXCEPT !.tx = c.on]
    ELSE IF c.op = "power"
         THEN [s EXCEPT !.enabled = c.on, !.tx = IF c.on THEN @ ELSE FALSE]
    ELSE IF c.op = "lock" THEN [s EXCEPT !.lock = c.on]
    ELSE s

\* Mutant: a refresh takes the rig to be receiving.
Refreshed_ClearsTx(s, r) ==
    [s EXCEPT !.enabled = TRUE, !.tuning = r.dial[r.vfo], !.tx = FALSE]

\* refresh_state_from_cat, from get_status on: PTT is not read.
Refreshed(s, r) == [s EXCEPT !.enabled = TRUE, !.tuning = r.dial[r.vfo]]

PowerOn == Cmd("power", TRUE, Initial)
Toggle  == Cmd("toggle", FALSE, Initial)

\* The radio is as an earlier run or its operator left it, transmitting included.
Init ==
    /\ st = [init |-> FALSE, enabled |-> FALSE, tx |-> FALSE, lock |-> FALSE,
             tuning |-> Initial]
    /\ pub = st
    /\ machine = [kind |-> "Disconnected", locked |-> FALSE]
    /\ radio \in {r \in Radio : r.on \/ ~r.tx}
    /\ pc = "open" /\ stage = 0 /\ heard = FALSE
    /\ op = NoCmd /\ answer = "none"
    /\ paused = FALSE /\ recent = FALSE /\ calm = FALSE
    /\ torn = FALSE /\ doubt = radio.tx /\ off = FALSE

\* sync_machine_state and the send on the watch channel, with the state new.
Publish(new) == st' = new /\ machine' = Desired(new) /\ pub' = new

\* The radio did or did not get the frame of a call that failed or was dropped.
MaybeEffect(c) == radio' \in {radio, Effect(radio, c)}

\* A call may fail as long as the world is not calm, and a read whenever the
\* radio is off.
MayFail == ~calm
ReadMayFail == ~calm \/ ~radio.on

-----------------------------------------------------------------------------
(* Start-up: no timeout covers these calls.                                *)

booting == <<op, answer, paused, recent, calm, history>>

Open ==
    /\ pc = "open" /\ pc' = "wake"
    /\ Publish(st)
    /\ UNCHANGED <<radio, stage, heard, booting>>

\* build_rig fails: the supervisor in main.rs publishes an uninitialized state.
OpenFails ==
    /\ pc = "open" /\ MayFail /\ pc' = "dead"
    /\ pub' = [pub EXCEPT !.init = FALSE]
    /\ UNCHANGED <<st, machine, radio, stage, heard, booting>>

Wake ==
    /\ pc = "wake"
    /\ \/ /\ radio' = Effect(radio, PowerOn)
          /\ st' = [st EXCEPT !.enabled = TRUE]
          /\ pc' = "wakeread" /\ stage' = 1
       \/ /\ MayFail /\ MaybeEffect(PowerOn)
          /\ pc' = "prime" /\ stage' = 1 /\ UNCHANGED st
    /\ UNCHANGED <<machine, pub, heard, booting>>

WakeRead ==
    /\ pc = "wakeread" /\ radio.on
    /\ st' = Refreshed(st, radio) /\ heard' = TRUE
    /\ pc' = "prime" /\ stage' = 1
    /\ UNCHANGED <<machine, pub, radio, booting>>

\* refresh_after_power_on: two more pulses, then it gives up.
WakeReadFails ==
    /\ pc = "wakeread" /\ ReadMayFail
    /\ IF stage < 3
       THEN MaybeEffect(PowerOn) /\ stage' = stage + 1 /\ pc' = pc
       ELSE UNCHANGED radio /\ stage' = 1 /\ pc' = "prime"
    /\ UNCHANGED <<st, machine, pub, heard, booting>>

\* prime_vfo_state, if it is configured: read, toggle, read, toggle, read.
PrimeSkip ==
    /\ pc = "prime" /\ FALSE \in VfoPrime /\ stage = 1
    /\ pc' = "tune"
    /\ UNCHANGED <<st, machine, pub, radio, stage, heard, booting>>

PrimeRead ==
    /\ pc = "prime" /\ TRUE \in VfoPrime /\ stage \in {1, 3, 5} /\ radio.on
    /\ st' = Refreshed(st, radio)
    /\ IF stage = 5 THEN heard' = TRUE /\ pc' = "tune" /\ UNCHANGED stage
                    ELSE stage' = stage + 1 /\ UNCHANGED <<heard, pc>>
    /\ UNCHANGED <<machine, pub, radio, booting>>

PrimeToggle ==
    /\ pc = "prime" /\ TRUE \in VfoPrime /\ stage \in {2, 4}
    /\ radio' = Effect(radio, Toggle) /\ stage' = stage + 1
    /\ UNCHANGED <<st, machine, pub, pc, heard, booting>>

\* Mutant: the status between the toggles is waited for as long as it takes.
PrimeFails_Waits ==
    /\ pc = "prime" /\ TRUE \in VfoPrime
    /\ \/ stage \in {1, 5} /\ ReadMayFail /\ UNCHANGED radio
       \/ stage \in {2, 4} /\ MayFail /\ MaybeEffect(Toggle)
    /\ pc' = "tune"
    /\ UNCHANGED <<st, machine, pub, stage, heard, booting>>

PrimeFails ==
    /\ pc = "prime" /\ TRUE \in VfoPrime
    /\ \/ stage \in {1, 3, 5} /\ ReadMayFail /\ UNCHANGED radio
       \/ stage \in {2, 4} /\ MayFail /\ MaybeEffect(Toggle)
    /\ pc' = "tune"
    /\ UNCHANGED <<st, machine, pub, stage, heard, booting>>

\* apply_initial_tune, only after a status was read.
Tune ==
    /\ pc = "tune" /\ pc' = "start"
    /\ \/ /\ ~heard \/ st.tuning = Initial
          /\ UNCHANGED <<st, radio>>
       \/ /\ heard /\ st.tuning # Initial
          /\ \/ /\ radio.on
                /\ radio' = Effect(radio, Cmd("tune", FALSE, Initial))
                /\ st' = Refreshed(st, radio')
             \/ /\ ReadMayFail
                /\ MaybeEffect(Cmd("tune", FALSE, Initial)) /\ UNCHANGED st
    /\ UNCHANGED <<machine, pub, stage, heard, booting>>

Start ==
    /\ pc = "start" /\ pc' = "idle"
    /\ Publish([st EXCEPT !.init = TRUE])
    /\ stage' = 0 /\ heard' = FALSE
    /\ UNCHANGED <<radio, booting>>

-----------------------------------------------------------------------------
(* Commands, from the main loop.                                           *)

\* The answer goes out and the task is back in its loop.
Answer(x) == answer' = x /\ pc' = "idle" /\ op' = NoCmd /\ stage' = 0

\* Decoder settings and resets publish at once; GetSpectrum embeds the
\* spectrum in its answer and takes it out of the state again.
CommandEarly(c) ==
    /\ pc = "idle" /\ ~calm /\ c.op \in {"decoder", "spectrum"}
    /\ Answer("ok")
    /\ pub' = IF c.op = "decoder" THEN st ELSE pub
    /\ UNCHANGED <<st, machine, radio, heard, paused, recent, calm, history>>

\* The SDR commands await the backend first, without looking at the state.
CommandSdr(c) ==
    /\ pc = "idle" /\ ~calm /\ c.op \in {"filter", "center"}
    /\ op' = c /\ answer' = "none" /\ pc' = "sdr"
    /\ UNCHANGED <<st, machine, pub, radio, stage, heard, paused, recent, calm, history>>

SdrDone ==
    /\ pc = "sdr" /\ Answer("ok")
    /\ pub' = IF op.op = "filter" THEN st ELSE pub
    /\ paused' = (paused \/ op.op = "center")
    /\ UNCHANGED <<st, machine, radio, heard, recent, calm, history>>

\* Not an SDR, an error of the backend, or the timeout.
SdrFails ==
    /\ pc = "sdr" /\ Answer("err")
    /\ UNCHANGED <<st, machine, pub, radio, heard, paused, recent, calm, history>>

\* A command for the radio: the machine is brought up to date, then the
\* handler's preconditions are checked against it.
Ready(c) == (st.init \/ c.op = "snapshot" \/ c = PowerOn) /\ CanExecute(c, Desired(st))

CommandRefused(c) ==
    /\ pc = "idle" /\ ~calm /\ c.op \in CatOps /\ ~Ready(c)
    /\ machine' = Desired(st) /\ Answer("err")
    /\ UNCHANGED <<st, pub, radio, heard, paused, recent, calm, torn, doubt, off>>

CommandAccepted(c) ==
    /\ pc = "idle" /\ ~calm /\ c.op \in CatOps /\ Ready(c)
    /\ machine' = Desired(st) /\ op' = c /\ answer' = "none" /\ pc' = "exec"
    /\ off' = (off /\ ~Refreshes(c))
    /\ UNCHANGED <<st, pub, radio, stage, heard, paused, recent, calm, torn, doubt>>

\* The handler returns Ok and its result needs no reading of the radio.
Executed ==
    /\ pc = "exec" /\ ~Refreshes(op)
    /\ radio' = Effect(radio, op)
    /\ Publish(Apply(st, op)) /\ Answer("ok")
    /\ paused' = (paused \/ op.op = "tune")
    /\ torn' = FALSE
    /\ doubt' = (doubt /\ ~AboutPtt(op))
    /\ off' = (off \/ (op.op = "power" /\ ~op.on))
    /\ UNCHANGED <<heard, recent, calm>>

\* PowerOn, ToggleVfo and GetSnapshot go on to read the radio.  For ToggleVfo the
\* step includes the settling sleep and the pause set after it: a timeout within
\* the sleep is ExecuteFails with the effect, and sets no pause.
ExecutedRefresh ==
    /\ pc = "exec" /\ Refreshes(op)
    /\ radio' = Effect(radio, op)
    /\ st' = Apply(st, op)
    /\ pc' = "read" /\ stage' = 1
    /\ paused' = (paused \/ op.op = "toggle")
    /\ UNCHANGED <<machine, pub, heard, op, answer, recent, calm, history>>

\* The call fails, or command_exec_timeout drops it.
ExecuteFails ==
    /\ pc = "exec" /\ MayFail
    /\ MaybeEffect(op) /\ Answer("err")
    /\ doubt' = (doubt \/ AboutPtt(op))
    /\ UNCHANGED <<st, machine, pub, heard, paused, recent, calm, torn, off>>

\* get_status succeeds: the state changes, then the meters are read.
CommandRead ==
    /\ pc = "read" /\ radio.on
    /\ st' = Refreshed(st, radio) /\ pc' = "meters"
    /\ UNCHANGED <<machine, pub, radio, stage, heard, op, answer, paused, recent, calm, history>>

\* refresh_after_power_on sends another pulse and reads again.
CommandReadAgain ==
    /\ pc = "read" /\ ReadMayFail /\ op.op = "power" /\ stage < 3
    /\ MaybeEffect(PowerOn) /\ stage' = stage + 1
    /\ UNCHANGED <<st, machine, pub, heard, pc, op, answer, paused, recent, calm, history>>

\* The refresh fails: an error, and neither machine nor watch channel follow.
CommandReadFails ==
    /\ pc = "read" /\ ReadMayFail /\ (op.op = "power" => stage = 3)
    /\ Answer("err") /\ torn' = (torn \/ op.op = "power")
    /\ UNCHANGED <<st, machine, pub, radio, heard, paused, recent, calm, doubt, off>>

\* command_exec_timeout drops the refresh at one of its awaits.
CommandCut ==
    /\ pc \in {"read", "meters"} /\ ReadMayFail
    /\ Answer("err") /\ torn' = (torn \/ op.op = "power" \/ pc = "meters")
    /\ UNCHANGED <<st, machine, pub, radio, heard, paused, recent, calm, doubt, off>>

\* Mutant: the result is published, the state machine is not told.
CommandDone_NoSync ==
    /\ pc = "meters"
    /\ pub' = st /\ Answer("ok")
    /\ paused' = (paused \/ op.op = "power") /\ recent' = (recent \/ op.op = "power")
    /\ torn' = FALSE
    /\ UNCHANGED <<st, machine, radio, heard, calm, doubt, off>>

CommandDone ==
    /\ pc = "meters"
    /\ Publish(st) /\ Answer("ok")
    /\ paused' = (paused \/ op.op = "power") /\ recent' = (recent \/ op.op = "power")
    /\ torn' = FALSE
    /\ UNCHANGED <<radio, heard, calm, doubt, off>>

-----------------------------------------------------------------------------
(* Polling.                                                                *)

idling == <<radio, stage, heard, op, answer, recent, calm, doubt, off>>

\* Mutant: a rig that is switched off is polled like any other.
PollStart_WhenOff ==
    /\ pc = "idle" /\ ~paused
    /\ pc' = "poll"
    /\ UNCHANGED <<st, machine, pub, paused, torn, idling>>

\* Mutant: like the meter tick, no poll while transmitting.
PollStart_NotWhileTx ==
    /\ pc = "idle" /\ ~paused /\ st.enabled /\ ~st.tx
    /\ pc' = "poll"
    /\ UNCHANGED <<st, machine, pub, paused, torn, idling>>

PollStart ==
    /\ pc = "idle" /\ ~paused /\ st.enabled
    /\ pc' = "poll"
    /\ UNCHANGED <<st, machine, pub, paused, torn, idling>>

PollRead ==
    /\ pc = "poll" /\ radio.on
    /\ st' = Refreshed(st, radio) /\ pc' = "pollmeters"
    /\ UNCHANGED <<machine, pub, paused, torn, idling>>

\* Out of retries: shortly after a power on the next polls wait a little.
PollFails ==
    /\ pc = "poll" /\ ReadMayFail
    /\ pc' = "idle" /\ paused' = recent
    /\ UNCHANGED <<st, machine, pub, torn, idling>>

\* poll_refresh_timeout drops the refresh at one of its awaits.
PollCut ==
    /\ pc \in {"poll", "pollmeters"} /\ ReadMayFail
    /\ pc' = "idle" /\ torn' = (torn \/ pc = "pollmeters")
    /\ UNCHANGED <<st, machine, pub, paused, idling>>

PollDone ==
    /\ pc = "pollmeters" /\ pc' = "idle"
    /\ Publish(st) /\ torn' = FALSE
    /\ UNCHANGED <<paused, idling>>

\* The fast S-meter: a reading that moved publishes the state as it is.
MeterTick ==
    /\ pc = "idle" /\ st.enabled /\ ~st.tx /\ ~paused
    /\ pub' = st
    /\ UNCHANGED <<st, machine, pc, paused, torn, idling>>

-----------------------------------------------------------------------------
(* The world: timers, the operator at the radio, a panic in the task.      *)

PauseExpires ==
    /\ paused /\ paused' = FALSE
    /\ UNCHANGED <<st, machine, pub, pc, torn, idling>>

RecentExpires ==
    /\ recent /\ recent' = FALSE
    /\ UNCHANGED <<st, machine, pub, pc, stage, heard, op, answer, paused, radio, calm, history>>

Dial(t) ==
    /\ ~calm /\ radio.on
    /\ radio' = [radio EXCEPT !.dial[radio.vfo] = t]
    /\ UNCHANGED <<task, calm, history>>

PowerButton ==
    /\ ~calm
    /\ radio' = [radio EXCEPT !.on = ~@, !.tx = FALSE]
    /\ UNCHANGED <<task, calm, history>>

Settle ==
    /\ ~calm /\ calm' = TRUE
    /\ UNCHANGED <<task, radio, history>>

\* The supervisor awaits the task inside its own future: a panic unwinds both
\* and nobody writes to the watch channel any more.  What the task kept is gone.
Panic ==
    /\ ~calm /\ pc # "dead" /\ pc' = "dead"
    /\ stage' = 0 /\ heard' = FALSE /\ op' = NoCmd /\ answer' = "none"
    /\ paused' = FALSE /\ recent' = FALSE
    /\ UNCHANGED <<st, machine, pub, radio, calm, history>>

-----------------------------------------------------------------------------
Boot == \/ Open \/ OpenFails \/ Wake \/ WakeRead \/ WakeReadFails
        \/ PrimeSkip \/ PrimeRead \/ PrimeToggle \/ PrimeFails \/ Tune \/ Start

CommandArrives == \E c \in {d \in Commands : d.op \in Offered} :
    CommandEarly(c) \/ CommandSdr(c) \/ CommandRefused(c) \/ CommandAccepted(c)

CommandStep == \/ SdrDone \/ SdrFails
               \/ Executed \/ ExecutedRefresh \/ ExecuteFails
               \/ CommandRead \/ CommandReadAgain \/ CommandReadFails
               \/ CommandCut \/ CommandDone

PollStep == PollRead \/ PollFails \/ PollCut \/ PollDone

World == \/ PauseExpires \/ RecentExpires \/ PowerButton \/ Settle \/ Panic
         \/ \E t \in Tunings : Dial(t)

Next == Boot \/ CommandArrives \/ CommandStep \/ PollStart \/ PollStep \/ MeterTick \/ World

\* Every call to a backend returns or is dropped by its timeout, and the timers
\* of the select keep firing.
Fairness ==
    /\ WF_vars(Boot \/ CommandStep \/ PollStep)
    /\ WF_vars(PollStart) /\ WF_vars(PauseExpires)

Spec == Init /\ [][Next]_vars /\ Fairness

-----------------------------------------------------------------------------
(* Properties.                                                             *)

RecordsOK == st \in RigState /\ pub \in RigState /\ machine \in Machine /\ radio \in Radio

ControlOK ==
    /\ pc \in {"open", "wake", "wakeread", "prime", "tune", "start", "idle", "sdr",
               "exec", "read", "meters", "poll", "pollmeters", "dead"}
    /\ stage \in 0..5 /\ op \in Commands \cup {NoCmd}
    /\ answer \in {"none", "ok", "err"}

FlagsOK == /\ heard \in BOOLEAN /\ paused \in BOOLEAN /\ recent \in BOOLEAN
           /\ calm \in BOOLEAN
           /\ torn \in BOOLEAN /\ doubt \in BOOLEAN /\ off \in BOOLEAN

TypeOK == RecordsOK /\ ControlOK /\ FlagsOK

\* Between two operations the state machine and the watch channel agree with the
\* task's own state, whatever failed or timed out before, unless a refresh was
\* stopped after it had changed the state (the early return of PowerOn, and
\* tokio's timeout between get_status and the publication).
MirrorUnlessTorn == pc = "idle" /\ ~torn => machine = Desired(st) /\ pub = st

\* The radio transmits while every client is told it receives in two cases only:
\* the last command about PTT (or power off) was answered with an error, or none
\* was answered with ok since the server started over a radio that an earlier run
\* left keyed (no read of the code asks the radio about PTT, so only a command
\* brings that to light).  No timeout, failed poll or published half-refreshed
\* state hides a transmitter keyed by this run.
NeverSilentlyKeyed == radio.tx /\ ~pub.tx => doubt

\* Once a PowerOff is answered with ok, clients see the rig off until a command
\* reads it again: no poll or meter reading in between brings it back.
OffUntilAsked == off => ~st.enabled /\ ~pub.enabled

\* What clients see of PTT changes only in the step that answers ok to SetPtt or
\* PowerOff, never by a poll, a meter reading, a refresh or an error.
PttSeenByCommandOnly ==
    [][pub'.tx # pub.tx => answer' = "ok" /\ pc = "exec" /\ AboutPtt(op)]_vars

\* A radio that answers, and that nobody touches any more, is eventually shown as
\* it is, unless the task believes it to be off: torn states heal, a grace pause
\* after a failed poll ends, and no poll or command is stuck for good.
ShownAsItIs ==
    calm /\ pc # "dead" ~>
        \/ ~st.enabled \/ ~radio.on
        \/ pub = st /\ machine = Desired(st) /\ pub.tuning = radio.dial[radio.vfo]

\* The task comes back to its select after every command, poll and start-up, with
\* the command answered.
BackToSelect == pc \notin {"idle", "dead"} ~> pc \in {"idle", "dead"}

-----------------------------------------------------------------------------
(* The inductive invariant behind the safety properties (RigTaskProofs).   *)

Mirror == machine = Desired(st) /\ pub = st

\* A radio without power does not transmit.
RadioOffSilent == ~radio.on => ~radio.tx

\* Nobody changes tx_en without publishing it in the same step.
PttMirror == pub.tx = st.tx

\* A refresh under way may have changed the state only where torn would tell.
MirrorInFlight ==
    ~torn =>
        /\ pc \in {"idle", "sdr", "exec", "poll"} => Mirror
        /\ pc = "read" /\ op.op # "power" => Mirror

\* A command in progress is a command, and one that reads is one that may.
InFlight ==
    /\ pc \in {"sdr", "exec", "read", "meters"} => op \in Commands
    /\ pc \in {"read", "meters"} => Refreshes(op)

\* Nothing is reading a radio that was powered off by command.
OffNotRead ==
    off => /\ pc \notin {"open", "wake", "wakeread", "prime", "tune",
                         "read", "meters", "poll", "pollmeters"}
           /\ pc = "exec" => ~Refreshes(op)

IndInv == /\ TypeOK /\ RadioOffSilent /\ PttMirror /\ MirrorInFlight
          /\ InFlight /\ OffNotRead /\ NeverSilentlyKeyed /\ OffUntilAsked

=============================================================================

---------------------------- MODULE RigTaskProofs ----------------------------
(***************************************************************************)
(* The safety properties of RigTask for every set of tunings, with and     *)
(* without VFO priming, whatever commands clients use.                     *)
(***************************************************************************)
EXTENDS RigTask, TLAPS

USE TuningAssumption DEF TuningAssumption

(***************************************************************************)
(* The helpers stay within their types.                                    *)
(***************************************************************************)
\* The fields of a command that decide what it does.
LEMMA CommandFields ==
    ASSUME NEW c \in Commands \cup {NoCmd}
    PROVE  c.on \in BOOLEAN /\ c.to \in Tunings
<1>1. CASE c \in Commands
  <2>1. c \in [op : CatOps \cup EarlyOps, on : BOOLEAN, to : Tunings]
    BY <1>1, Zenon DEF Commands
  <2> QED
    BY <2>1
<1>2. CASE c = NoCmd
  BY <1>2 DEF NoCmd, Cmd
<1> QED
  BY <1>1, <1>2

\* The commands the task sends by itself are commands.
LEMMA NamedCommands ==
    PowerOn \in Commands /\ Toggle \in Commands /\ Cmd("tune", FALSE, Initial) \in Commands
BY DEF PowerOn, Toggle, Commands, Cmd, CatOps

\* The machine that follows a state is a machine.
LEMMA DesiredType == ASSUME NEW s \in RigState PROVE Desired(s) \in Machine
BY DEF RigState, Machine, Desired

\* A radio stays a radio.
LEMMA EffectType ==
    ASSUME NEW r \in Radio, NEW c \in Commands
    PROVE  Effect(r, c) \in Radio
BY CommandFields DEF Radio, Vfos, Effect

\* A state stays a state.
LEMMA ApplyType ==
    ASSUME NEW s \in RigState, NEW c \in Commands
    PROVE  Apply(s, c) \in RigState
BY CommandFields DEF RigState, Apply

\* A refresh does not read PTT.
LEMMA RefreshedType ==
    ASSUME NEW s \in RigState, NEW r \in Radio
    PROVE  /\ Refreshed(s, r) \in RigState
           /\ Refreshed(s, r).tx = s.tx /\ Refreshed(s, r).init = s.init
BY DEF RigState, Radio, Vfos, Refreshed

\* Enabling or initializing a state leaves PTT alone.
LEMMA SwitchedOn ==
    ASSUME NEW s \in RigState
    PROVE  /\ [s EXCEPT !.enabled = TRUE] \in RigState /\ [s EXCEPT !.init = TRUE] \in RigState
           /\ [s EXCEPT !.enabled = TRUE].tx = s.tx /\ [s EXCEPT !.init = TRUE].tx = s.tx
BY DEF RigState

\* A command keys the radio only if it is SetPtt(true), unkeys it if it is
\* SetPtt(false) or PowerOff, and leaves no radio without power transmitting.
LEMMA EffectPtt ==
    ASSUME NEW r \in Radio, NEW c \in Commands, ~r.on => ~r.tx
    PROVE  /\ ~Effect(r, c).on => ~Effect(r, c).tx
           /\ Effect(r, c).tx => r.tx \/ (c.op = "ptt" /\ c.on)
           /\ AboutPtt(c) /\ ~c.on => ~Effect(r, c).tx
BY CommandFields DEF Radio, Vfos, Effect, AboutPtt

\* What a handler's result does to the fields the invariant is about.
LEMMA ApplyFields ==
    ASSUME NEW s \in RigState, NEW c \in Commands
    PROVE  /\ Apply(s, c).tx = IF c.op = "ptt" THEN c.on
                               ELSE s.tx /\ ~(c.op = "power" /\ ~c.on)
           /\ ~Refreshes(c) /\ ~s.enabled => ~Apply(s, c).enabled
           /\ c.op = "power" /\ ~c.on => ~Apply(s, c).enabled
           /\ Refreshes(c) /\ c.op # "power" => Apply(s, c) = s
           /\ Refreshes(c) => Apply(s, c).tx = s.tx
<1> c.on \in BOOLEAN /\ c.to \in Tunings
  BY CommandFields
<1>1. Apply(s, c).tx = IF c.op = "ptt" THEN c.on ELSE s.tx /\ ~(c.op = "power" /\ ~c.on)
  BY DEF RigState, Apply
<1>2. ~Refreshes(c) /\ ~s.enabled => ~Apply(s, c).enabled
  BY DEF RigState, Apply, Refreshes
<1>3. c.op = "power" /\ ~c.on => ~Apply(s, c).enabled
  BY DEF RigState, Apply
<1>4. Refreshes(c) /\ c.op # "power" => Apply(s, c) = s
  BY DEF Apply, Refreshes
<1>5. Refreshes(c) => Apply(s, c).tx = s.tx
  BY DEF RigState, Apply, Refreshes
<1> QED
  BY <1>1, <1>2, <1>3, <1>4, <1>5

\* A call that failed or was dropped leaves the radio as it was, or as after it.
LEMMA MaybeEffectType ==
    ASSUME NEW c \in Commands, radio \in Radio, RadioOffSilent, MaybeEffect(c)
    PROVE  /\ radio' \in Radio /\ RadioOffSilent'
           /\ radio'.tx => radio.tx \/ (c.op = "ptt" /\ c.on)
<1>1. CASE radio' = radio
  BY <1>1 DEF RadioOffSilent
<1>2. CASE radio' = Effect(radio, c)
  BY <1>2, EffectType, EffectPtt DEF RadioOffSilent
<1> QED
  BY <1>1, <1>2 DEF MaybeEffect

\* The start of the task, whatever the radio is tuned to: off, on, or keyed.
LEMMA InitInv == Init => IndInv
<1> SUFFICES ASSUME Init PROVE IndInv
  OBVIOUS
<1>1. radio \in Radio /\ (radio.on \/ ~radio.tx)
  BY Zenon DEF Init
<1>2. RecordsOK
  BY <1>1 DEF Init, RecordsOK, RigState, Machine
<1>3. ControlOK
  BY DEF Init, ControlOK
<1>4. FlagsOK
  <2>1. radio.tx \in BOOLEAN
    BY <1>1 DEF Radio
  <2> QED
    BY <2>1, Zenon DEF Init, FlagsOK
<1>5. RadioOffSilent /\ PttMirror /\ MirrorInFlight /\ InFlight /\ OffNotRead
  BY <1>1 DEF Init, RadioOffSilent, PttMirror, MirrorInFlight, InFlight, OffNotRead
<1>6. NeverSilentlyKeyed /\ OffUntilAsked
  BY <1>1 DEF Init, NeverSilentlyKeyed, OffUntilAsked
<1> QED
  BY <1>2, <1>3, <1>4, <1>5, <1>6 DEF IndInv, TypeOK

(***************************************************************************)
(* Every step preserves the invariant, one part of it after the other.     *)
(***************************************************************************)
\* The flags stay flags (Zenon: Boolean variables and no arithmetic).
LEMMA FlagsStep == TypeOK /\ [Next]_vars => FlagsOK'
<1> SUFFICES ASSUME TypeOK, [Next]_vars PROVE FlagsOK'
  OBVIOUS
<1> USE DEF TypeOK, FlagsOK, task, history
<1>1. CASE Boot
  BY <1>1, Zenon
     DEF Boot, Open, OpenFails, Wake, WakeRead, WakeReadFails, PrimeSkip, PrimeRead, PrimeToggle,
         PrimeFails, Tune, Start, booting
<1>2. ASSUME NEW c \in Commands,
             CommandEarly(c) \/ CommandSdr(c) \/ CommandRefused(c) \/ CommandAccepted(c)
      PROVE  FlagsOK'
  BY <1>2, Zenon DEF CommandEarly, CommandSdr, CommandRefused, CommandAccepted
<1>3. CASE CommandStep
  BY <1>3, Zenon
     DEF CommandStep, SdrDone, SdrFails, Executed, ExecutedRefresh, ExecuteFails, CommandRead,
         CommandReadAgain, CommandReadFails, CommandCut, CommandDone
<1>4. CASE PollStart \/ PollStep \/ MeterTick
  BY <1>4, Zenon DEF PollStart, PollStep, PollRead, PollFails, PollCut, PollDone, MeterTick, idling
<1>5. CASE World
  BY <1>5, Zenon
     DEF World, PauseExpires, RecentExpires, Dial, PowerButton, Settle, Panic, idling
<1>6. CASE UNCHANGED vars
  BY <1>6, Zenon DEF vars
<1> QED
  BY <1>1, <1>2, <1>3, <1>4, <1>5, <1>6 DEF Next, CommandArrives

\* The records, the program counter and the counters keep their types.
LEMMA TypesStep == IndInv /\ [Next]_vars => (RecordsOK /\ ControlOK)'
<1> SUFFICES ASSUME IndInv, [Next]_vars PROVE (RecordsOK /\ ControlOK)'
  OBVIOUS
<1> USE DEF IndInv, TypeOK, RecordsOK, ControlOK, FlagsOK, InFlight
<1>1. CASE Open
  BY <1>1, DesiredType DEF Open, Publish, booting, history
<1>2. CASE OpenFails
  BY <1>2 DEF OpenFails, booting, history, RigState
<1>3. CASE Wake
  <2>1. CASE radio' = Effect(radio, PowerOn) /\ st' = [st EXCEPT !.enabled = TRUE]
    <3>1. radio' \in Radio /\ st' \in RigState
      BY <2>1, SwitchedOn, NamedCommands, EffectType
    <3> QED
      BY <1>3, <3>1 DEF Wake, booting
  <2>2. CASE MaybeEffect(PowerOn) /\ st' = st
    BY <1>3, <2>2, NamedCommands, MaybeEffectType DEF Wake, booting, PowerOn, Cmd
  <2> QED
    BY <1>3, <2>1, <2>2 DEF Wake
<1>4. CASE WakeRead
  BY <1>4, RefreshedType DEF WakeRead, booting, history
<1>5. CASE WakeReadFails
  <2>1. stage' \in 0..5 /\ pc' \in {"wakeread", "prime"} /\ UNCHANGED <<st, machine, pub, op, answer>>
    BY <1>5 DEF WakeReadFails, booting
  <2>2. radio' \in Radio
    BY <1>5, NamedCommands, MaybeEffectType DEF WakeReadFails
  <2> QED
    BY <2>1, <2>2
<1>6. CASE PrimeSkip
  BY <1>6 DEF PrimeSkip, booting, history
<1>7. CASE PrimeRead
  <2>1. st' \in RigState
    BY <1>7, RefreshedType DEF PrimeRead
  <2>2. stage' \in 0..5 /\ pc' \in {"prime", "tune"} /\ UNCHANGED <<machine, pub, radio, op, answer>>
    BY <1>7 DEF PrimeRead, booting
  <2> QED
    BY <2>1, <2>2
<1>8. CASE PrimeToggle
  BY <1>8, NamedCommands, EffectType DEF PrimeToggle, booting, history
<1>9. CASE PrimeFails
  BY <1>9, NamedCommands, EffectType, MaybeEffectType
     DEF PrimeFails, booting, history, PowerOn, Toggle, Cmd
<1>10. CASE Tune
  BY <1>10, NamedCommands, EffectType, RefreshedType, MaybeEffectType
     DEF Tune, booting, history, PowerOn, Toggle, Cmd
<1>11. CASE Start
  <2>1. st' \in RigState /\ Desired(st') \in Machine
    BY <1>11, SwitchedOn, DesiredType DEF Start, Publish
  <2> QED
    BY <1>11, <2>1 DEF Start, Publish, booting
<1>12. CASE SdrDone
  BY <1>12 DEF SdrDone, Answer, history
<1>13. CASE SdrFails
  BY <1>13 DEF SdrFails, Answer, history
<1>14. CASE Executed
  BY <1>14, EffectType, ApplyType, DesiredType DEF Executed, Publish, Answer
<1>15. CASE ExecutedRefresh
  BY <1>15, EffectType, ApplyType DEF ExecutedRefresh, history
<1>16. CASE ExecuteFails
  BY <1>16, EffectType, MaybeEffectType DEF ExecuteFails, Answer, PowerOn, Toggle, Cmd
<1>17. CASE CommandRead
  BY <1>17, RefreshedType DEF CommandRead, history
<1>18. CASE CommandReadAgain
  BY <1>18, NamedCommands, EffectType, MaybeEffectType
     DEF CommandReadAgain, history, PowerOn, Toggle, Cmd
<1>19. CASE CommandReadFails
  BY <1>19 DEF CommandReadFails, Answer
<1>20. CASE CommandCut
  BY <1>20 DEF CommandCut, Answer
<1>21. CASE CommandDone
  BY <1>21, DesiredType DEF CommandDone, Publish, Answer
<1>22. CASE PollStart
  BY <1>22 DEF PollStart, idling
<1>23. CASE PollRead
  BY <1>23, RefreshedType DEF PollRead, idling
<1>24. CASE PollFails
  BY <1>24 DEF PollFails, idling
<1>25. CASE PollCut
  BY <1>25 DEF PollCut, idling
<1>26. CASE PollDone
  BY <1>26, DesiredType DEF PollDone, Publish, idling
<1>27. CASE MeterTick
  BY <1>27 DEF MeterTick, idling
<1>28. CASE PauseExpires
  BY <1>28 DEF PauseExpires, idling
<1>29. CASE RecentExpires
  BY <1>29 DEF RecentExpires, history
<1>30. CASE PowerButton
  BY <1>30 DEF PowerButton, history, task, Radio, Vfos
<1>31. CASE Settle
  BY <1>31 DEF Settle, history, task
<1>32. CASE Panic
  BY <1>32 DEF Panic, history
<1>33. ASSUME NEW c \in Commands, CommandEarly(c) PROVE (RecordsOK /\ ControlOK)'
  BY <1>33 DEF CommandEarly, Answer, history
<1>34. ASSUME NEW c \in Commands, CommandSdr(c) PROVE (RecordsOK /\ ControlOK)'
  BY <1>34 DEF CommandSdr, history
<1>35. ASSUME NEW c \in Commands, CommandRefused(c) PROVE (RecordsOK /\ ControlOK)'
  BY <1>35, DesiredType DEF CommandRefused, Answer
<1>36. ASSUME NEW c \in Commands, CommandAccepted(c) PROVE (RecordsOK /\ ControlOK)'
  BY <1>36, DesiredType DEF CommandAccepted
<1>37. ASSUME NEW t \in Tunings, Dial(t) PROVE (RecordsOK /\ ControlOK)'
  BY <1>37 DEF Dial, task, history, Radio, Vfos
<1>38. CASE UNCHANGED vars
  BY <1>38 DEF vars, task, history
<1> QED
  BY <1>1, <1>2, <1>3, <1>4, <1>5, <1>6, <1>7, <1>8, <1>9, <1>10, <1>11, <1>12, <1>13, <1>14, <1>15,
     <1>16, <1>17, <1>18, <1>19, <1>20, <1>21, <1>22, <1>23, <1>24, <1>25, <1>26, <1>27, <1>28,
     <1>29, <1>30, <1>31, <1>32, <1>33, <1>34, <1>35, <1>36, <1>37, <1>38
     DEF Next, Boot, CommandArrives, CommandStep, PollStep, World

\* No power, no PTT; PTT is published at once; what is in progress is a command.
LEMMA SafetyStep == IndInv /\ [Next]_vars => (RadioOffSilent /\ PttMirror /\ InFlight)'
<1> SUFFICES ASSUME IndInv, [Next]_vars PROVE (RadioOffSilent /\ PttMirror /\ InFlight)'
  OBVIOUS
<1> USE DEF IndInv, TypeOK, RecordsOK, ControlOK, FlagsOK, RadioOffSilent, PttMirror, InFlight
<1>1. CASE Open
  BY <1>1, DesiredType DEF Open, Publish, booting, history
<1>2. CASE OpenFails
  BY <1>2 DEF OpenFails, booting, history
<1>3. CASE Wake
  <2>1. CASE radio' = Effect(radio, PowerOn) /\ st' = [st EXCEPT !.enabled = TRUE]
    BY <1>3, <2>1, SwitchedOn, NamedCommands, EffectType, EffectPtt DEF Wake, booting, PowerOn, Cmd
  <2>2. CASE MaybeEffect(PowerOn) /\ st' = st
    BY <1>3, <2>2, NamedCommands, MaybeEffectType DEF Wake, booting, PowerOn, Cmd
  <2> QED
    BY <1>3, <2>1, <2>2 DEF Wake
<1>4. CASE WakeRead
  BY <1>4, RefreshedType DEF WakeRead, booting, history
<1>5. CASE WakeReadFails
  BY <1>5, NamedCommands, EffectType, EffectPtt, MaybeEffectType
     DEF WakeReadFails, booting, history, PowerOn, Toggle, Cmd
<1>6. CASE PrimeSkip
  BY <1>6 DEF PrimeSkip, booting, history
<1>7. CASE PrimeRead
  BY <1>7, RefreshedType DEF PrimeRead, booting, history
<1>8. CASE PrimeToggle
  BY <1>8, NamedCommands, EffectType, EffectPtt DEF PrimeToggle, booting, history
<1>9. CASE PrimeFails
  <2>1. radio' = radio \/ MaybeEffect(Toggle)
    BY <1>9 DEF PrimeFails
  <2>2. RadioOffSilent'
    BY <2>1, NamedCommands, MaybeEffectType DEF RadioOffSilent
  <2> QED
    BY <1>9, <2>2 DEF PrimeFails, booting
<1>10. CASE Tune
  <2> DEFINE tune == Cmd("tune", FALSE, Initial)
  <2>1. tune \in Commands
    BY NamedCommands
  <2>2. radio' = radio \/ MaybeEffect(tune)
    BY <1>10 DEF Tune, MaybeEffect
  <2>3. RadioOffSilent' /\ radio' \in Radio
    BY <2>1, <2>2, MaybeEffectType DEF RadioOffSilent
  <2>4. st'.tx = st.tx
    BY <1>10, <2>3, RefreshedType DEF Tune
  <2> QED
    BY <1>10, <2>3, <2>4 DEF Tune, booting
<1>11. CASE Start
  BY <1>11, DesiredType DEF Start, Publish, booting, history
<1>12. CASE SdrDone
  BY <1>12 DEF SdrDone, Answer, history
<1>13. CASE SdrFails
  BY <1>13 DEF SdrFails, Answer, history
<1>14. CASE Executed
  BY <1>14, EffectType, ApplyType, DesiredType, EffectPtt, ApplyFields DEF Executed, Publish, Answer
<1>15. CASE ExecutedRefresh
  BY <1>15, EffectType, ApplyType, EffectPtt, ApplyFields DEF ExecutedRefresh, history
<1>16. CASE ExecuteFails
  BY <1>16, EffectType, EffectPtt, MaybeEffectType DEF ExecuteFails, Answer, PowerOn, Toggle, Cmd
<1>17. CASE CommandRead
  BY <1>17, RefreshedType DEF CommandRead, history
<1>18. CASE CommandReadAgain
  BY <1>18, NamedCommands, EffectType, EffectPtt, MaybeEffectType
     DEF CommandReadAgain, history, PowerOn, Toggle, Cmd
<1>19. CASE CommandReadFails
  BY <1>19 DEF CommandReadFails, Answer
<1>20. CASE CommandCut
  BY <1>20 DEF CommandCut, Answer
<1>21. CASE CommandDone
  BY <1>21, DesiredType DEF CommandDone, Publish, Answer
<1>22. CASE PollStart
  BY <1>22 DEF PollStart, idling
<1>23. CASE PollRead
  BY <1>23, RefreshedType DEF PollRead, idling
<1>24. CASE PollFails
  BY <1>24 DEF PollFails, idling
<1>25. CASE PollCut
  BY <1>25 DEF PollCut, idling
<1>26. CASE PollDone
  BY <1>26, DesiredType DEF PollDone, Publish, idling
<1>27. CASE MeterTick
  BY <1>27 DEF MeterTick, idling
<1>28. CASE PauseExpires
  BY <1>28 DEF PauseExpires, idling
<1>29. CASE RecentExpires
  BY <1>29 DEF RecentExpires, history
<1>30. CASE PowerButton
  BY <1>30 DEF PowerButton, history, task, Radio, Vfos
<1>31. CASE Settle
  BY <1>31 DEF Settle, history, task
<1>32. CASE Panic
  BY <1>32 DEF Panic, history
<1>33. ASSUME NEW c \in Commands, CommandEarly(c) PROVE (RadioOffSilent /\ PttMirror /\ InFlight)'
  BY <1>33 DEF CommandEarly, Answer, history
<1>34. ASSUME NEW c \in Commands, CommandSdr(c) PROVE (RadioOffSilent /\ PttMirror /\ InFlight)'
  BY <1>34 DEF CommandSdr, history
<1>35. ASSUME NEW c \in Commands, CommandRefused(c) PROVE (RadioOffSilent /\ PttMirror /\ InFlight)'
  BY <1>35, DesiredType DEF CommandRefused, Answer
<1>36. ASSUME NEW c \in Commands, CommandAccepted(c) PROVE (RadioOffSilent /\ PttMirror /\ InFlight)'
  BY <1>36, DesiredType DEF CommandAccepted
<1>37. ASSUME NEW t \in Tunings, Dial(t) PROVE (RadioOffSilent /\ PttMirror /\ InFlight)'
  BY <1>37 DEF Dial, task, history, Radio, Vfos
<1>38. CASE UNCHANGED vars
  BY <1>38 DEF vars, task, history
<1> QED
  BY <1>1, <1>2, <1>3, <1>4, <1>5, <1>6, <1>7, <1>8, <1>9, <1>10, <1>11, <1>12, <1>13, <1>14, <1>15,
     <1>16, <1>17, <1>18, <1>19, <1>20, <1>21, <1>22, <1>23, <1>24, <1>25, <1>26, <1>27, <1>28,
     <1>29, <1>30, <1>31, <1>32, <1>33, <1>34, <1>35, <1>36, <1>37, <1>38
     DEF Next, Boot, CommandArrives, CommandStep, PollStep, World

\* Machine and watch channel follow the state wherever nothing was torn.
LEMMA MirrorStep == IndInv /\ [Next]_vars => MirrorInFlight'
<1> SUFFICES ASSUME IndInv, [Next]_vars PROVE MirrorInFlight'
  OBVIOUS
<1> USE DEF IndInv, TypeOK, RecordsOK, ControlOK, FlagsOK, InFlight, MirrorInFlight, Mirror
<1>1. CASE Open
  BY <1>1 DEF Open, Publish, booting, history
<1>2. CASE OpenFails
  BY <1>2 DEF OpenFails, booting, history
<1>3. CASE Wake
  BY <1>3 DEF Wake, MaybeEffect, booting, history
<1>4. CASE WakeRead
  BY <1>4 DEF WakeRead, booting, history
<1>5. CASE WakeReadFails
  BY <1>5 DEF WakeReadFails, MaybeEffect, booting, history
<1>6. CASE PrimeSkip
  BY <1>6 DEF PrimeSkip, booting, history
<1>7. CASE PrimeRead
  BY <1>7 DEF PrimeRead, booting, history
<1>8. CASE PrimeToggle
  BY <1>8 DEF PrimeToggle, booting, history
<1>9. CASE PrimeFails
  BY <1>9 DEF PrimeFails, MaybeEffect, booting, history
<1>10. CASE Tune
  BY <1>10 DEF Tune, MaybeEffect, booting, history
<1>11. CASE Start
  BY <1>11 DEF Start, Publish, booting, history
<1>12. CASE SdrDone
  BY <1>12 DEF SdrDone, Answer, history
<1>13. CASE SdrFails
  BY <1>13 DEF SdrFails, Answer, history
<1>14. CASE Executed
  BY <1>14, ApplyFields DEF Executed, Publish, Answer
<1>15. CASE ExecutedRefresh
  BY <1>15, ApplyFields DEF ExecutedRefresh, history
<1>16. CASE ExecuteFails
  BY <1>16 DEF ExecuteFails, Answer, MaybeEffect
<1>17. CASE CommandRead
  BY <1>17 DEF CommandRead, history
<1>18. CASE CommandReadAgain
  BY <1>18 DEF CommandReadAgain, MaybeEffect, history
<1>19. CASE CommandReadFails
  BY <1>19 DEF CommandReadFails, Answer
<1>20. CASE CommandCut
  BY <1>20 DEF CommandCut, Answer
<1>21. CASE CommandDone
  BY <1>21 DEF CommandDone, Publish, Answer
<1>22. CASE PollStart
  BY <1>22 DEF PollStart, idling
<1>23. CASE PollRead
  BY <1>23 DEF PollRead, idling
<1>24. CASE PollFails
  BY <1>24 DEF PollFails, idling
<1>25. CASE PollCut
  BY <1>25 DEF PollCut, idling
<1>26. CASE PollDone
  BY <1>26 DEF PollDone, Publish, idling
<1>27. CASE MeterTick
  BY <1>27 DEF MeterTick, idling
<1>28. CASE PauseExpires
  BY <1>28 DEF PauseExpires, idling
<1>29. CASE RecentExpires
  BY <1>29 DEF RecentExpires, history
<1>30. CASE PowerButton
  BY <1>30 DEF PowerButton, history, task
<1>31. CASE Settle
  BY <1>31 DEF Settle, history, task
<1>32. CASE Panic
  BY <1>32 DEF Panic, history
<1>33. ASSUME NEW c \in Commands, CommandEarly(c) PROVE MirrorInFlight'
  BY <1>33 DEF CommandEarly, Answer, history
<1>34. ASSUME NEW c \in Commands, CommandSdr(c) PROVE MirrorInFlight'
  BY <1>34 DEF CommandSdr, history
<1>35. ASSUME NEW c \in Commands, CommandRefused(c) PROVE MirrorInFlight'
  BY <1>35 DEF CommandRefused, Answer
<1>36. ASSUME NEW c \in Commands, CommandAccepted(c) PROVE MirrorInFlight'
  BY <1>36 DEF CommandAccepted
<1>37. ASSUME NEW t \in Tunings, Dial(t) PROVE MirrorInFlight'
  BY <1>37 DEF Dial, task, history
<1>38. CASE UNCHANGED vars
  BY <1>38 DEF vars, task, history
<1> QED
  BY <1>1, <1>2, <1>3, <1>4, <1>5, <1>6, <1>7, <1>8, <1>9, <1>10, <1>11, <1>12, <1>13, <1>14, <1>15,
     <1>16, <1>17, <1>18, <1>19, <1>20, <1>21, <1>22, <1>23, <1>24, <1>25, <1>26, <1>27, <1>28,
     <1>29, <1>30, <1>31, <1>32, <1>33, <1>34, <1>35, <1>36, <1>37, <1>38
     DEF Next, Boot, CommandArrives, CommandStep, PollStep, World

\* After a PowerOff nothing reads the radio, and nobody enables the rig.
LEMMA OffStep == IndInv /\ [Next]_vars => (OffNotRead /\ OffUntilAsked)'
<1> SUFFICES ASSUME IndInv, [Next]_vars PROVE (OffNotRead /\ OffUntilAsked)'
  OBVIOUS
<1> USE DEF IndInv, TypeOK, RecordsOK, ControlOK, FlagsOK, InFlight, OffNotRead, OffUntilAsked
<1>1. CASE Open
  BY <1>1 DEF Open, Publish, booting, history
<1>2. CASE OpenFails
  BY <1>2 DEF OpenFails, booting, history
<1>3. CASE Wake
  BY <1>3 DEF Wake, MaybeEffect, booting, history
<1>4. CASE WakeRead
  BY <1>4 DEF WakeRead, booting, history
<1>5. CASE WakeReadFails
  BY <1>5 DEF WakeReadFails, MaybeEffect, booting, history
<1>6. CASE PrimeSkip
  BY <1>6 DEF PrimeSkip, booting, history
<1>7. CASE PrimeRead
  BY <1>7 DEF PrimeRead, booting, history
<1>8. CASE PrimeToggle
  BY <1>8 DEF PrimeToggle, booting, history
<1>9. CASE PrimeFails
  BY <1>9 DEF PrimeFails, MaybeEffect, booting, history
<1>10. CASE Tune
  BY <1>10 DEF Tune, MaybeEffect, booting, history
<1>11. CASE Start
  BY <1>11 DEF Start, Publish, booting, history
<1>12. CASE SdrDone
  BY <1>12 DEF SdrDone, Answer, history
<1>13. CASE SdrFails
  BY <1>13 DEF SdrFails, Answer, history
<1>14. CASE Executed
  BY <1>14, ApplyFields DEF Executed, Publish, Answer
<1>15. CASE ExecutedRefresh
  BY <1>15, ApplyFields DEF ExecutedRefresh, history
<1>16. CASE ExecuteFails
  BY <1>16 DEF ExecuteFails, Answer, MaybeEffect
<1>17. CASE CommandRead
  BY <1>17 DEF CommandRead, history
<1>18. CASE CommandReadAgain
  BY <1>18 DEF CommandReadAgain, MaybeEffect, history
<1>19. CASE CommandReadFails
  BY <1>19 DEF CommandReadFails, Answer
<1>20. CASE CommandCut
  BY <1>20 DEF CommandCut, Answer
<1>21. CASE CommandDone
  BY <1>21 DEF CommandDone, Publish, Answer
<1>22. CASE PollStart
  BY <1>22 DEF PollStart, idling
<1>23. CASE PollRead
  BY <1>23 DEF PollRead, idling
<1>24. CASE PollFails
  BY <1>24 DEF PollFails, idling
<1>25. CASE PollCut
  BY <1>25 DEF PollCut, idling
<1>26. CASE PollDone
  BY <1>26 DEF PollDone, Publish, idling
<1>27. CASE MeterTick
  BY <1>27 DEF MeterTick, idling
<1>28. CASE PauseExpires
  BY <1>28 DEF PauseExpires, idling
<1>29. CASE RecentExpires
  BY <1>29 DEF RecentExpires, history
<1>30. CASE PowerButton
  BY <1>30 DEF PowerButton, history, task
<1>31. CASE Settle
  BY <1>31 DEF Settle, history, task
<1>32. CASE Panic
  BY <1>32 DEF Panic, history
<1>33. ASSUME NEW c \in Commands, CommandEarly(c) PROVE (OffNotRead /\ OffUntilAsked)'
  BY <1>33 DEF CommandEarly, Answer, history
<1>34. ASSUME NEW c \in Commands, CommandSdr(c) PROVE (OffNotRead /\ OffUntilAsked)'
  BY <1>34 DEF CommandSdr, history
<1>35. ASSUME NEW c \in Commands, CommandRefused(c) PROVE (OffNotRead /\ OffUntilAsked)'
  BY <1>35 DEF CommandRefused, Answer
<1>36. ASSUME NEW c \in Commands, CommandAccepted(c) PROVE (OffNotRead /\ OffUntilAsked)'
  BY <1>36 DEF CommandAccepted
<1>37. ASSUME NEW t \in Tunings, Dial(t) PROVE (OffNotRead /\ OffUntilAsked)'
  BY <1>37 DEF Dial, task, history
<1>38. CASE UNCHANGED vars
  BY <1>38 DEF vars, task, history
<1> QED
  BY <1>1, <1>2, <1>3, <1>4, <1>5, <1>6, <1>7, <1>8, <1>9, <1>10, <1>11, <1>12, <1>13, <1>14, <1>15,
     <1>16, <1>17, <1>18, <1>19, <1>20, <1>21, <1>22, <1>23, <1>24, <1>25, <1>26, <1>27, <1>28,
     <1>29, <1>30, <1>31, <1>32, <1>33, <1>34, <1>35, <1>36, <1>37, <1>38
     DEF Next, Boot, CommandArrives, CommandStep, PollStep, World

\* A radio that transmits unseen was keyed by a command answered with an error.
LEMMA KeyedStep == IndInv /\ [Next]_vars => NeverSilentlyKeyed'
<1> SUFFICES ASSUME IndInv, [Next]_vars PROVE NeverSilentlyKeyed'
  OBVIOUS
<1> USE DEF IndInv, TypeOK, RecordsOK, ControlOK, FlagsOK, RadioOffSilent, PttMirror, InFlight, NeverSilentlyKeyed
<1>1. CASE Open
  BY <1>1 DEF Open, Publish, booting, history
<1>2. CASE OpenFails
  BY <1>2 DEF OpenFails, booting, history
<1>3. CASE Wake
  BY <1>3, NamedCommands, EffectPtt, MaybeEffectType
     DEF Wake, booting, history, PowerOn, Toggle, Cmd, RigState
<1>4. CASE WakeRead
  BY <1>4, RefreshedType DEF WakeRead, booting, history
<1>5. CASE WakeReadFails
  BY <1>5, NamedCommands, EffectPtt, MaybeEffectType
     DEF WakeReadFails, booting, history, PowerOn, Toggle, Cmd
<1>6. CASE PrimeSkip
  BY <1>6 DEF PrimeSkip, booting, history
<1>7. CASE PrimeRead
  BY <1>7, RefreshedType DEF PrimeRead, booting, history
<1>8. CASE PrimeToggle
  BY <1>8, NamedCommands, EffectPtt DEF PrimeToggle, booting, history, PowerOn, Toggle, Cmd
<1>9. CASE PrimeFails
  BY <1>9, NamedCommands, EffectPtt, MaybeEffectType
     DEF PrimeFails, booting, history, PowerOn, Toggle, Cmd
<1>10. CASE Tune
  BY <1>10, NamedCommands, EffectPtt, RefreshedType, MaybeEffectType
     DEF Tune, booting, history, PowerOn, Toggle, Cmd
<1>11. CASE Start
  BY <1>11 DEF Start, Publish, booting, history
<1>12. CASE SdrDone
  BY <1>12 DEF SdrDone, Answer, history
<1>13. CASE SdrFails
  BY <1>13 DEF SdrFails, Answer, history
<1>14. CASE Executed
  <2>1. op \in Commands /\ radio' = Effect(radio, op) /\ pub' = Apply(st, op)
    BY <1>14 DEF Executed, Publish
  <2>2. op.on \in BOOLEAN
    BY CommandFields
  <2>3. CASE AboutPtt(op)
    <3>1. ~op.on => ~radio'.tx
      BY <2>1, <2>3, EffectPtt
    <3>2. op.on => pub'.tx
      BY <2>1, <2>3, ApplyFields DEF AboutPtt
    <3> QED
      BY <2>2, <3>1, <3>2
  <2>4. CASE ~AboutPtt(op)
    <3>1. radio'.tx => radio.tx
      BY <2>1, <2>4, EffectPtt DEF AboutPtt
    <3>2. pub.tx => pub'.tx
      BY <2>1, <2>2, <2>4, ApplyFields DEF AboutPtt
    <3>3. doubt' = doubt
      BY <1>14, <2>4 DEF Executed
    <3> QED
      BY <3>1, <3>2, <3>3
  <2> QED
    BY <2>3, <2>4
<1>15. CASE ExecutedRefresh
  BY <1>15, ApplyFields, EffectPtt DEF ExecutedRefresh, history
<1>16. CASE ExecuteFails
  <2>1. op \in Commands /\ pub' = pub /\ MaybeEffect(op)
    BY <1>16 DEF ExecuteFails
  <2>2. radio'.tx => radio.tx \/ AboutPtt(op)
    BY <2>1, MaybeEffectType DEF AboutPtt, RadioOffSilent
  <2>3. doubt' = (doubt \/ AboutPtt(op))
    BY <1>16 DEF ExecuteFails
  <2> QED
    BY <2>1, <2>2, <2>3
<1>17. CASE CommandRead
  BY <1>17, RefreshedType DEF CommandRead, history
<1>18. CASE CommandReadAgain
  BY <1>18, NamedCommands, EffectPtt, MaybeEffectType
     DEF CommandReadAgain, history, PowerOn, Toggle, Cmd
<1>19. CASE CommandReadFails
  BY <1>19 DEF CommandReadFails, Answer
<1>20. CASE CommandCut
  BY <1>20 DEF CommandCut, Answer
<1>21. CASE CommandDone
  BY <1>21 DEF CommandDone, Publish, Answer
<1>22. CASE PollStart
  BY <1>22 DEF PollStart, idling
<1>23. CASE PollRead
  BY <1>23, RefreshedType DEF PollRead, idling
<1>24. CASE PollFails
  BY <1>24 DEF PollFails, idling
<1>25. CASE PollCut
  BY <1>25 DEF PollCut, idling
<1>26. CASE PollDone
  BY <1>26 DEF PollDone, Publish, idling
<1>27. CASE MeterTick
  BY <1>27 DEF MeterTick, idling
<1>28. CASE PauseExpires
  BY <1>28 DEF PauseExpires, idling
<1>29. CASE RecentExpires
  BY <1>29 DEF RecentExpires, history
<1>30. CASE PowerButton
  BY <1>30 DEF PowerButton, history, task
<1>31. CASE Settle
  BY <1>31 DEF Settle, history, task
<1>32. CASE Panic
  BY <1>32 DEF Panic, history
<1>33. ASSUME NEW c \in Commands, CommandEarly(c) PROVE NeverSilentlyKeyed'
  BY <1>33 DEF CommandEarly, Answer, history
<1>34. ASSUME NEW c \in Commands, CommandSdr(c) PROVE NeverSilentlyKeyed'
  BY <1>34 DEF CommandSdr, history
<1>35. ASSUME NEW c \in Commands, CommandRefused(c) PROVE NeverSilentlyKeyed'
  BY <1>35 DEF CommandRefused, Answer
<1>36. ASSUME NEW c \in Commands, CommandAccepted(c) PROVE NeverSilentlyKeyed'
  BY <1>36 DEF CommandAccepted
<1>37. ASSUME NEW t \in Tunings, Dial(t) PROVE NeverSilentlyKeyed'
  BY <1>37 DEF Dial, task, history
<1>38. CASE UNCHANGED vars
  BY <1>38 DEF vars, task, history
<1> QED
  BY <1>1, <1>2, <1>3, <1>4, <1>5, <1>6, <1>7, <1>8, <1>9, <1>10, <1>11, <1>12, <1>13, <1>14, <1>15,
     <1>16, <1>17, <1>18, <1>19, <1>20, <1>21, <1>22, <1>23, <1>24, <1>25, <1>26, <1>27, <1>28,
     <1>29, <1>30, <1>31, <1>32, <1>33, <1>34, <1>35, <1>36, <1>37, <1>38
     DEF Next, Boot, CommandArrives, CommandStep, PollStep, World

(***************************************************************************)
(* The theorems.                                                           *)
(***************************************************************************)
\* All parts together.
LEMMA InductiveStep == IndInv /\ [Next]_vars => IndInv'
BY FlagsStep, TypesStep, SafetyStep, MirrorStep, OffStep, KeyedStep DEF IndInv, TypeOK

\* Every part of the inductive invariant holds in every reachable state.
THEOREM Inductive == Spec => []IndInv
<1>1. Init => IndInv
  BY InitInv
<1>2. IndInv /\ [Next]_vars => IndInv'
  BY InductiveStep
<1> QED
  BY <1>1, <1>2, PTL DEF Spec

\* The variables keep their types: in particular the attempts of a refresh and
\* the steps of the priming are bounded, and a command is never half there.
THEOREM TypeCorrect == Spec => []TypeOK
<1>1. IndInv => TypeOK
  BY DEF IndInv
<1> QED
  BY <1>1, Inductive, PTL

\* The radio never transmits behind the clients' backs, except after an error answered to a
\* command about PTT, or after a start over a keyed radio until the next command about PTT is
\* answered with ok.
THEOREM KeyedIsSeen == Spec => []NeverSilentlyKeyed
<1>1. IndInv => NeverSilentlyKeyed
  BY DEF IndInv
<1> QED
  BY <1>1, Inductive, PTL

\* A rig powered off by command is not shown on again by a poll.
THEOREM PoweredOffStays == Spec => []OffUntilAsked
<1>1. IndInv => OffUntilAsked
  BY DEF IndInv
<1> QED
  BY <1>1, Inductive, PTL

\* State machine and watch channel follow the task's own state, unless a refresh
\* was stopped half-way.
THEOREM MirrorsAgree == Spec => []MirrorUnlessTorn
<1>1. IndInv => MirrorUnlessTorn
  BY DEF IndInv, MirrorInFlight, Mirror, MirrorUnlessTorn
<1> QED
  BY <1>1, Inductive, PTL

\* Clients see PTT change only when a command about it is answered with ok.
THEOREM PttOnlyByCommand == Spec => PttSeenByCommandOnly
<1> DEFINE Seen == pub'.tx # pub.tx => answer' = "ok" /\ pc = "exec" /\ AboutPtt(op)
<1>1. IndInv /\ [Next]_vars => [Seen]_vars
  <2> SUFFICES ASSUME IndInv, IndInv', Next PROVE Seen
    BY InductiveStep
  <2> USE DEF IndInv, PttMirror
  <2>1. CASE Executed
    <3>1. op \in Commands /\ pub' = Apply(st, op) /\ answer' = "ok" /\ pc = "exec"
      BY <2>1 DEF Executed, Publish, Answer, TypeOK, ControlOK, InFlight
    <3>2. op.on \in BOOLEAN /\ st \in RigState
      BY <3>1, CommandFields DEF TypeOK, RecordsOK
    <3>3. CASE ~AboutPtt(op)
      <4>1. Apply(st, op).tx = st.tx
        BY <3>1, <3>2, <3>3 DEF Apply, AboutPtt, RigState
      <4> QED
        BY <3>1, <4>1
    <3> QED
      BY <3>1, <3>3
  <2>2. CASE pub' = pub
    BY <2>2
  <2>3. CASE pub' = st
    BY <2>3
  <2>4. CASE pub' = [st EXCEPT !.init = TRUE]
    BY <2>4, SwitchedOn DEF TypeOK, RecordsOK
  <2>5. CASE pub' = [pub EXCEPT !.init = FALSE]
    BY <2>5 DEF TypeOK, RecordsOK, RigState
  <2>6. CASE Boot \/ CommandArrives
    BY <2>2, <2>3, <2>4, <2>5, <2>6
       DEF Boot, Open, OpenFails, Wake, WakeRead, WakeReadFails, PrimeSkip, PrimeRead, PrimeToggle,
           PrimeFails, Tune, Start, Publish,
           CommandArrives, CommandEarly, CommandSdr, CommandRefused, CommandAccepted
  <2>7. CASE CommandStep
    BY <2>1, <2>2, <2>3, <2>7
       DEF CommandStep, SdrDone, SdrFails, ExecutedRefresh, ExecuteFails, CommandRead, CommandReadAgain,
           CommandReadFails, CommandCut, CommandDone, Publish
  <2>8. CASE PollStart \/ PollStep \/ MeterTick \/ World
    BY <2>2, <2>3, <2>8
       DEF PollStart, PollStep, PollRead, PollFails, PollCut, PollDone, MeterTick, Publish, idling,
           World, PauseExpires, RecentExpires, Dial, PowerButton, Settle, Panic, task
  <2> QED
    BY <2>6, <2>7, <2>8 DEF Next
<1> QED
  BY <1>1, Inductive, PTL DEF Spec, PttSeenByCommandOnly
=============================================================================

---------------------------- MODULE WefaxReception ----------------------------
(* The reception of weather charts (trx-wefax): a state machine that starts *)
(* at an APT tone or at a signal that looks like a chart, waits for phasing *)
(* lines, assembles lines, and ends at the stop tone or when the lines no   *)
(* longer resemble each other.                                              *)
(*                                                                          *)
(* Audio comes in blocks. A block may end a half-second window of the tone  *)
(* detector, a half-second window of the signal detector, and a line; the   *)
(* blocks of the server are much shorter than any of these.                 *)
EXTENDS Integers, Sequences, FiniteSets

CONSTANTS Sustained,    \* windows with one tone until it counts (2)
          ActiveNeeded, \* active windows that start a reception (6)
          PulsesNeeded, \* phasing lines in a row that lock (10)
          PhasingLines, \* lines after which phasing is given up (60)
          NoiseLines,   \* unlike lines that end a reception (30)
          MaxAudio    \* bound: blocks of audio

ASSUME WefaxAssumption ==
    {Sustained, ActiveNeeded, PulsesNeeded, PhasingLines, NoiseLines, MaxAudio} \subseteq Nat \ {0}

VARIABLES
    phase,      \* State: Idle, StartDetected, Phasing, Receiving
    tone,       \* the tone detector: [now, windows]
    active,     \* signal_detect_count
    pulses,     \* phasing lines in a row
    waited,     \* lines since Phasing began
    image,      \* lines of the chart; -1: there is no image
    unlike,     \* low_corr_lines
    startedAt,  \* reception_start_ms, -1: none
    blocks,     \* bounded counter, the time
    charts,     \* history: the charts sent, [lines, start]
    aired,      \* history: lines that came while Receiving, since it began
    began       \* history: when the reception under way began

wefaxVars == <<phase, tone, active, pulses, waited, image, unlike, startedAt, blocks, charts,
               aired, began>>

Tones == {"start", "stop"}
NoTone == [now |-> "none", windows |-> 0]

\* What a block brings: a tone window that ends in it, a signal window, a line.
Blocks == [window : {"open", "none"} \cup Tones, signal : {"open", "active", "flat"},
           line : {"open", "pulse", "white", "alike", "flat", "unlike"}]

WefaxTypeOK ==
    /\ phase \in {"Idle", "StartDetected", "Phasing", "Receiving"}
    /\ tone.now \in Tones \cup {"none"} /\ tone.windows \in 0..MaxAudio
    /\ active \in 0..ActiveNeeded /\ pulses \in 0..PulsesNeeded
    /\ waited \in 0..PhasingLines - 1 /\ unlike \in 0..NoiseLines - 1
    /\ image \in -1..MaxAudio /\ startedAt \in -1..MaxAudio /\ blocks \in 0..MaxAudio

WefaxInit ==
    /\ phase = "Idle" /\ tone = NoTone /\ active = 0 /\ pulses = 0 /\ waited = 0
    /\ image = -1 /\ unlike = 0 /\ startedAt = -1 /\ blocks = 0
    /\ charts = {} /\ aired = 0 /\ began = -1

\* analyze_window: a tone counts from its second window in a row.
Heard(b) ==
    IF b.window = "open" THEN tone
    ELSE [now |-> b.window,
          windows |-> IF b.window = "none" THEN 0
                      ELSE IF b.window = tone.now THEN tone.windows + 1 ELSE 1]
Confirms(b, t) ==
    b.window # "open" /\ Heard(b).now = t /\ Heard(b).windows >= Sustained

Block == blocks < MaxAudio /\ blocks' = blocks + 1

\* transition_to_idle; the image is left to finalize_image.
ToIdle ==
    /\ phase' = "Idle" /\ tone' = NoTone /\ active' = 0 /\ unlike' = 0 /\ waited' = 0
    /\ pulses' = 0

\* finalize_image: a chart without lines is neither sent nor put away.
Finalize(lines) ==
    IF lines > 0
    THEN /\ charts' = charts \cup {[lines |-> lines, start |-> startedAt, aired |-> aired',
                                    began |-> began]}
         /\ image' = -1 /\ startedAt' = -1
    ELSE image' = lines /\ UNCHANGED <<charts, startedAt>>

ToReceiving ==
    /\ phase' = "Receiving" /\ image' = 0 /\ tone' = NoTone /\ unlike' = 0 /\ aired' = 0
    /\ UNCHANGED charts

\* Idle: a start tone, or enough windows of an active signal in a row.
Listens(b) ==
    /\ Block /\ phase = "Idle" /\ b.line = "open"
    /\ \/ /\ Confirms(b, "start")
          /\ phase' = "StartDetected" /\ tone' = Heard(b) /\ startedAt' = blocks
          /\ began' = blocks /\ UNCHANGED <<active, image, unlike, charts, aired>>
       \/ /\ ~Confirms(b, "start") /\ b.signal = "active" /\ active + 1 = ActiveNeeded
          /\ ToReceiving /\ active' = ActiveNeeded /\ startedAt' = blocks /\ began' = blocks
       \/ /\ ~Confirms(b, "start") /\ ~(b.signal = "active" /\ active + 1 = ActiveNeeded)
          /\ active' = CASE b.signal = "active" -> active + 1
                         [] b.signal = "flat" -> 0
                         [] OTHER -> active
          /\ tone' = Heard(b)
          /\ UNCHANGED <<phase, image, unlike, startedAt, charts, aired, began>>
    /\ UNCHANGED <<pulses, waited>>

\* StartDetected: the first block that does not end a window with the tone begins Phasing.
StartPasses(b) ==
    /\ Block /\ phase = "StartDetected" /\ b.line = "open" /\ b.signal = "open"
    /\ IF Confirms(b, "start") THEN tone' = Heard(b) /\ UNCHANGED <<phase, pulses, waited>>
       ELSE phase' = "Phasing" /\ tone' = NoTone /\ pulses' = 0 /\ waited' = 0
    /\ UNCHANGED <<active, image, unlike, startedAt, charts, aired, began>>

Pulses(b) ==
    CASE b.line = "pulse" -> IF pulses < PulsesNeeded THEN pulses + 1 ELSE pulses
      [] b.line \in {"open", "white"} -> pulses
      [] OTHER -> 0

\* Enough pulses, and whether they lie close to each other is up to the signal.
MayLock(b) == b.line = "pulse" /\ Pulses(b) = PulsesNeeded

\* Mutant: phasing is waited for without an end.
Phases_Forever(b) ==
    /\ Block /\ phase = "Phasing" /\ b.signal = "open" /\ UNCHANGED <<began, active>>
    /\ \/ /\ Confirms(b, "stop") /\ ToIdle /\ UNCHANGED <<image, startedAt, charts, aired>>
       \/ /\ ~Confirms(b, "stop") /\ MayLock(b)
          /\ ToReceiving /\ UNCHANGED <<pulses, waited, startedAt>>
       \/ /\ ~Confirms(b, "stop")
          /\ pulses' = Pulses(b) /\ tone' = Heard(b)
          /\ waited' = waited + (IF b.line = "open" THEN 0 ELSE 1)
          /\ UNCHANGED <<phase, image, unlike, startedAt, charts, aired>>

\* Phasing: the stop tone aborts, enough pulses lock, and past the limit the chart is
\* taken without alignment.
Phases(b) ==
    LET now == waited + (IF b.line = "open" THEN 0 ELSE 1) IN
    /\ Block /\ phase = "Phasing" /\ b.signal = "open" /\ UNCHANGED began
    /\ \/ /\ Confirms(b, "stop") /\ ToIdle /\ UNCHANGED <<image, startedAt, charts, aired>>
       \/ /\ ~Confirms(b, "stop") /\ (MayLock(b) \/ now = PhasingLines)
          /\ ToReceiving /\ UNCHANGED <<pulses, waited, startedAt, active>>
       \/ /\ ~Confirms(b, "stop") /\ now < PhasingLines
          /\ pulses' = Pulses(b) /\ waited' = now /\ tone' = Heard(b)
          /\ UNCHANGED <<phase, image, unlike, startedAt, charts, aired, active>>

Unlike(b) ==
    CASE b.line = "unlike" /\ image > 0 -> unlike + 1
      [] b.line \in {"alike", "pulse"} /\ image > 0 -> 0
      [] OTHER -> unlike

\* Receiving: the block of the stop tone ends the chart without its own line; unlike lines
\* end it with theirs.
Receives(b) ==
    LET lines == image + (IF b.line = "open" THEN 0 ELSE 1) IN
    /\ Block /\ phase = "Receiving" /\ b.signal = "open" /\ UNCHANGED began
    /\ \/ /\ Confirms(b, "stop") /\ UNCHANGED aired
          /\ Finalize(image) /\ ToIdle
       \/ /\ ~Confirms(b, "stop") /\ aired' = aired + (lines - image)
          /\ IF Unlike(b) = NoiseLines THEN Finalize(lines) /\ ToIdle
             ELSE /\ image' = lines /\ unlike' = Unlike(b) /\ tone' = Heard(b)
                  /\ UNCHANGED <<phase, active, pulses, waited, startedAt, charts>>

\* reset: a chart under way is sent, everything else starts anew.
ResetWefax ==
    /\ Block /\ aired' = aired
    /\ IF phase \in {"Receiving", "Phasing"} /\ image > 0
       THEN charts' = charts \cup {[lines |-> image, start |-> startedAt, aired |-> aired,
                                    began |-> began]}
       ELSE UNCHANGED charts
    /\ image' = -1 /\ startedAt' = -1 /\ began' = -1 /\ ToIdle

WefaxNext ==
    \/ \E b \in Blocks : Listens(b) \/ StartPasses(b) \/ Phases(b) \/ Receives(b)
    \/ ResetWefax

WefaxSpec == WefaxInit /\ [][WefaxNext]_wefaxVars
------------------------------------------------------------------------------
\* A chart is sent with all the lines that came while it was received, and with the time
\* its own reception began, whatever was aborted before.
ChartsWhole == \A c \in charts : c.lines = c.aired /\ c.start = c.began

\* Lines are held only while they are received: no reception throws away another's.
NoChartThrownAway == phase # "Receiving" => image <= 0

\* Phasing ends after its limit and a reception after its unlike lines (the type), the
\* charts are whole, none is thrown away.
WefaxInv == WefaxTypeOK /\ ChartsWhole /\ NoChartThrownAway
=============================================================================

SPECIFICATION Spec
CONSTANTS
  Senders = {s1, s2}
  Backlogged = 2
  FlushEvery = 1
  Stale = 0
  Introduced = 1
  TemplatesEvery = 2
  LoginLines = 2
  MaxBackoff = 2
  MaxMessages = 3
  MaxNow = 2
  Handlers = {h1, h2}
  Addresses = {a1, a2}
  Slots = 1
  PassesKept = 1
  Patience = 1
  NoPasses = NoPasses
  MaxTicks = 3
  MaxAccepts = 3
  MaxPanics = 1
  Peers = {p1}
  Ttl = 1
  MaxAttempts = 2
  Window = 1
  RxOpen = FALSE
  MaxLogins = 2
  MaxFailures = 4
  MaxHour = 3
  Callers = {k1, k2}
  Keys = {"r", "v"}
  MaxTasks = 2
  MaxSeconds = 1
  MaxPackets = 1
  Stations = {"a", "b"}
  Keeps <- MCKeeps
  Ships = {v1}
  WefaxKept = 1
  Anyone = Anyone
  MaxDecodes = 2
  MaxAge = 1
  MaxLinks = 1
  Sockets = {q1, q2}
  Sources = {"chan", "rig"}
  Channels = {"chan"}
  Radios = {"r1", "r2"}
  Everything = Everything
  Waits = 1
  MicRoom = 1
  MaxMoves = 6
  Programs = {g1, g2}
  Dialled = {3}
  Grid = 2
  MaxLines = 3
  MaxTrouble = 1
  Sustained = 2
  ActiveNeeded = 2
  PulsesNeeded = 2
  PhasingLines = 3
  NoiseLines = 2
  MaxAudio = 8
  Rigs = {r1, r2}
  Marks = {m1}
  Dials = {1, 3}
  HalfWidth = 1
  NoRig = NoRig
  NoFrame = NoFrame
  MaxEdits = 5
  PageRigs = {"x", "y"}
  ActiveRig = "x"
  MaxSockets = 2
  MaxPrompts = 2
  MaxUpsets = 1
  Tabs = {"sdr", "hf"}
  Sdrs = {"sdr"}
  Nothing = Nothing
  MaxEvents = 3
  Dial = {1, 2, 3}
  HalfView = 1
  Unset = Unset
  MaxTunings = 2
  MaxFlops = 1
INVARIANTS
  UplinkInv
  ListenerInv
  AuthInv
  RecorderInv
  ClientHistoryInv
  SocketInv
  RigctlInv
  WefaxInv
  BackgroundInv
  PageAudioInv
  PageSessionInv
  PageTuningInv
CHECK_DEADLOCK FALSE

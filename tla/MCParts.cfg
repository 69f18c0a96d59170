SPECIFICATION Spec
CONSTANTS
  Conns = {c1, c2}
  Ids = {"u", "h"}
  HiddenIds = {"h"}
  Freqs <- MCFreqs
  HalfSpan = 3
  Offset = 1
  NoCenter = NoCenter
  Spacing = 2
  MaxTotal = 2
  MaxAdds = 2
  MaxTunes = 1
  Backlog = 2
  MaxBlocks = 3
  MaxChanges = 2
  MaxSlots = 1
  Replayed <- MCReplayed
  Saved <- MCSaved
  Retention = 0
  Room = 1
  MaxEntries = 2
  MaxClock = 1
  MaxClears = 1
  MaxRestarts = 1
  Tunings = {"lo", "hi"}
  Modulations = {"u", "l"}
  Unread = Unread
  Odd = Odd
  MaxCalls = 3
  MaxMishaps = 1
  Layouts <- MCLayouts
  MaxStationFaults = 1
  FrameSamples = 2
  InputRoom = 2
  PacketRoom = 2
  MaxSamples = 5
  MaxPackets = 4
  MaxCardFaults = 2
  Payloads <- MCPayloads
  Noises <- MCNoises
  Shortest <- MCShortest
  ByteBits = 3
  MaxFrames = 2
  MaxSlips = 1
  PageKinds <- MCKinds
  Cleared = {"ais"}
  Late = {"ais"}
  MaxConnections = 2
  MaxLive = 1
  MaxTroubles = 1
  Answered <- MCAnswered
  Fleets <- MCFleets
  Remotes <- MCRemotes
  Absent = Absent
  MaxEdits = 1
  MaxWrites = 2
SYMMETRY Symmetry
INVARIANTS
  SdrInv
  DecodingInv
  CatInv
  StationInv
  CardInv
  
  ConfigInv
CHECK_DEADLOCK FALSE

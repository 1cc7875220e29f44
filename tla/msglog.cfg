SPECIFICATION FairSpec
CONSTANTS
  RingCap = 3
  PollMax = 2
  ChunkMax = 2
  TotalMax = 2
  MaxAppends = 5
  MaxFaults = 2
  FaultKinds = {"power", "empty", "nofile", "full", "net", "reload"}
INVARIANTS IdsAhead NoSkip DiskBounded
PROPERTY CaughtUp

SPECIFICATION Spec
CONSTANTS
  Files = {0, 1, 5}
  Numbers = {0, 1, 2, 4, 5, 6}
  Piece = 2
  Packets <- MCPackets
  BufLen = 12
  Spare = 3
  HeaderLen = 2
  AnswerLen = 3
  MaxPackets = 2
  Slots = 3
  Interval = 3
  Wrap = 8
  MaxLoop = 2
  Pressures = {10140, 10150, 10160}
  Air <- MCAir
  MaxReadings = 7
  Libraries <- MCLibraries
  WantedSpace <- MCWanted
  Capital <- MCCapital
  Queries <- MCQueries
  ScanCap = 3
  PerFile = 2
  Letters = {"x"}
  MaxText = 4
  Caps = {7, 9, 14}
INVARIANTS RightBytes OwnQuestion TrendSpansAnHour ReadingsOnTime ListsRight TextKept
CHECK_DEADLOCK FALSE

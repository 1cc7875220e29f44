SPECIFICATION FairSpec
CONSTANTS
  Workers = {"w1", "w2"}
  Clusters = {"a", "b", "m", "xl"}
  Size <- Sizes
  SlotCount = 2
  Budget = 5
  MaxCluster = 5
  Start = 3
  MaxReads = 4
  MaxFaults = 1
INVARIANTS Accounted OneOwner RightBlob
PROPERTY EveryReadEnds
CHECK_DEADLOCK FALSE

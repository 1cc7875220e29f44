SPECIFICATION FairSpec
CONSTANTS
  Workers = {"w1", "w2"}
  Archive <- Books
  KeyLen = 3
  Hash <- SmallTable
  Targets <- Asked
  MaxFinds = 3
  MaxFaults = 1
INVARIANT FindsRight
PROPERTY FindEnds
CHECK_DEADLOCK FALSE

SPECIFICATION FairSpec
CONSTANTS
  a = a
  b = b
  c = c
  d = d
  Nodes = {a, b, c}
  Links <- ShortLine
  Boxes <- ToAnyone
  Ttl = 1
  SeenMax = 2
  MaxMsgs = 3
  MaxRestarts = 1
INVARIANT AtMostOnce
PROPERTY FloodEnds
CHECK_DEADLOCK FALSE

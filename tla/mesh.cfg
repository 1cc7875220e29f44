SPECIFICATION Spec
CONSTANTS
  a = a
  b = b
  c = c
  d = d
  Nodes = {a, b, c, d}
  Links <- Line
  Boxes <- ToBoxes
  Ttl = 1
  SeenMax = 2
  MaxMsgs = 2
  MaxRestarts = 1
INVARIANTS RightBoards FloodBounded
CHECK_DEADLOCK FALSE

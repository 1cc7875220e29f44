SPECIFICATION FairSpec
CONSTANTS
  Texts = {"echo"}
  FaultKinds = {}
  InboxMax = 5
  HubLine = 5
  MaxPackets = 0
  MaxSends = 1
  MaxFaults = 0
  MaxSplits = 0
  ChanCap = 2
PROPERTY EchoAnswered

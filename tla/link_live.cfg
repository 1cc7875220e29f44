SPECIFICATION FairSpec
CONSTANTS
  Texts = {"echo", "ack"}
  FaultKinds = {"lose", "garble", "restart"}
  InboxMax = 5
  HubLine = 5
  MaxPackets = 0
  MaxSends = 1
  MaxFaults = 2
  MaxSplits = 1
  ChanCap = 1
INVARIANT FlagTracksFile
PROPERTIES Drains BadgeOn SendsTransmitted

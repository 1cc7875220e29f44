SPECIFICATION Spec
CONSTANTS
  Texts = {"echo", "long"}
  FaultKinds = {"lose", "restart", "fs", "tx", "noradio"}
  InboxMax = 2
  HubLine = 2
  MaxPackets = 1
  MaxSends = 2
  MaxFaults = 1
  MaxSplits = 1
  ChanCap = 1
INVARIANTS TypeOK AckCoversItsDump SendsInOrder
PROPERTY FirstDeliveriesInOrder

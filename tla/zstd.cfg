SPECIFICATION StreamSpec
CONSTANTS
  Frames <- MCFrames
  Blobs <- MCBlobs
  InCap = 4
  OutCap = 2
  ClusterCap = 8
  BlobCap = 6
  HeaderSize = 2
  BlockHeader = 2
  Checksum = 2
  Window = 2
  BlockMax = 2
  WildCopy = 0
  MaxStalls = 2
INVARIANTS Unpacked WindowKept NeverStalls
CHECK_DEADLOCK FALSE

SPECIFICATION Spec
CONSTANTS
  FifoSize = 1
  MinBlocks = 2
  BlockSize = 2
  ImageSize = 7
  WriteCounts <- MCWriteCounts
  ReadCounts <- MCReadCounts
INVARIANTS
  NoLostWakeup
  StreamInOrder
  EofMeansComplete
PROPERTIES
  CallsEnd
  ImplementsChannel

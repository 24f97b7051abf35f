SPECIFICATION Spec
CONSTANTS
  NumSources = 2
  Options <- MCOptions
  MinBlocks = 1
  SystemArea = 0
  VolDescs = 1
  PartVolDescs = 1
  PartOffset = 2
  ImageBlocks = 2
  FixedSizes <- MCTrueSize
INVARIANTS
  NoUseAfterFree
  LifeCycleSound
PROPERTIES
  CallsReturn
CHECK_DEADLOCK FALSE

SPECIFICATION Spec
CONSTANTS
  root = root
  dir = dir
  fileA = fileA
  fileB = fileB
  i1 = i1
  i2 = i2
  NULL = NULL
  Root = root
  Nodes <- MCNodes
  Dirs <- MCDirs
  MTime <- MCMTime
  Names <- MCNames
  Iters <- MCIters
  MaxHeld = 1
SYMMETRY MCSymmetry
CONSTRAINT MCBound
INVARIANTS
  SkipsAreReported
CHECK_DEADLOCK FALSE

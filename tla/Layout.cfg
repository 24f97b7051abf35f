SPECIFICATION TreeSpec
CONSTANTS
  ApmMax = 63
  GptMax = 248
  SunCyl = 160
  LayoutOptions <- MCOptions
  MaxImages = 3
  MaxSets = 2
  Files <- MCFiles
  LoadSegs = {8}
  LoadSizes = {4}
  Block = 4
  SourceLen = 11
  ZeroKinds <- MCZeroKinds
  Mbr = {2, 3}
  Gpt = {4, 5}
  Apm = {3, 4, 5}
  rootDir = rootDir
  dirD = dirD
  dirE = dirE
  dirC = dirC
  fileA = fileA
  fileB = fileB
  Root = rootDir
  Dirs <- MCDirs
  Leaves <- MCLeaves
  Shapes <- MCShapes
  DirKinds <- MCDirKinds
  LeafKinds <- MCLeafKinds
  Options <- MCTreeOptions
  BlockSize = 2048
  Start = 20
INVARIANTS
  LayoutAsComputed
  TablesSound
  CatalogSound
  IntervalCopied
  PassesAgree
  DirectoriesReachable
  RecordReadBack
CHECK_DEADLOCK FALSE

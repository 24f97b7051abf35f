SPECIFICATION ImportSpec
CONSTANTS
  Images <- MCImages
  MaxSrc = 3
  Bs = 2
  DirBs = 4
  Counts = {1, 4}
  Offsets = {0, 3}
  Paths <- MCPaths
  IsoImages <- MCIsoImages
  ReadOpts <- MCReadOpts
  MaxFiles = 4
  MaxBootImgs = 2
  MaxImports = 2
INVARIANTS
  FailedImportRestores
CHECK_DEADLOCK FALSE

SPECIFICATION MCSpec
CONSTANTS
  NumFiles = 4
  Old <- MCOld
  Content <- MCContent
  Checked <- MCChecked
  Options <- MCOptions
  MaxRuns = 3
  FieldMax = 9
  RecMax = 4
  Chunk = 22
  NameLen = 6
  MaxExpansion = 2
  NsText <- MCNsText
  MemLimit = 260
  AttrCalls <- MCAttrCalls
  Imported <- MCImported
  Images <- MCImages
  MaxSrc = 3
  Bs = 2
  DirBs = 4
  Counts = {1, 4}
  Offsets = {0, 3}
  Paths <- MCPaths
  IsoImages <- MCIsoImages
  ReadOpts <- MCReadOpts
  MaxFiles = 4
  MaxBootImgs = 2
  MaxImports = 2
INVARIANTS
  Md5Sound
  AttributesReadBack
  SourceAccounting
  ReadExact
  DirectoryReadBack
  ImportAllOrNothing
  ImportReferences
PROPERTIES
  Md5Kept
CHECK_DEADLOCK FALSE

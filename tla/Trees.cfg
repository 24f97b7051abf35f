SPECIFICATION Spec
CONSTANTS
  Base = 2
  MaxDigits = 3
  Ext = 1
  Stem1 = 2
  Len2 = 5
  Len37 = 6
  LenJ = 4
  LenJLong = 6
  Len1999 = 6
  MaxDepth = 3
  MaxPath = 22
  MaxPathJ = 14
  InoLimit = 11
  InoRange = 4
  LtInputs <- MCLtInputs
  HfsNameMax = 5
  CommonSize = 12
  ForkSize = 8
  NodeRoom = 56
  BlockFac = 4
  MaxLink = 3
  HfInputs <- MCHfInputs
  MaxNodes = 7
  MaxOps = 3
  MaxFails = 1
  Files <- MCFiles
  TopDir = 1
  NewNames <- MCNewNames
  NewTypes = {"dir"}
  Singles = {2}
  NoClone = {5}
  Settings <- MCSettings
  Conds <- MCConds
  Ring = 3
  Filler = 2
  MinIncr = 2
  MaxSuffix = 2
  IncrLen = 4
  TruncLen = 6
INVARIANTS
  NamesWellFormed
  InodeFamilies
  RelocationSound
  HfsTreeSound
  TreeLookup
  AddDirExact
  CloneFaithful

CONSTANTS
    Ids <- MCIds
    Files <- MCFiles
    Contents <- MCContents
    FirstContent <- Text
    ReadSizes = {65536}
    V1Limit = 70001
    MaxTotal = 7
    MaxFile = 5
    ParamSets <- MCParamSets
    Stackings <- MCStackings
    SrcChanges = 1
    InLen = 4
    PipeCap = 1
    Wants = {1, 3}
    Hoards = {0, 3}
    Pool <- MCPool
SPECIFICATION MCSpec
INVARIANTS
    StreamAccounting
    FilteredContent
    CmpTotalOrder
PROPERTIES
    FilterReadReturns
CHECK_DEADLOCK FALSE

SPECIFICATION Spec
CONSTANTS
    f1 = f1
    f2 = f2
    Sources <- MCSources
    NoSource = NoSource
    Sizes <- MCSizes
    Weight <- MCWeight
    Boots = {"no", "patch", "efi"}
    Checksums = {0, 3}
    BlockSize = 2
    ExtentSize = 4
    MaxSection <- MCMaxSection
    Word = 1024
    Start = 7
INVARIANTS
    SectionsSound
    BlocksAsPredicted
    Md5WrongOnlyIfReported
CHECK_DEADLOCK FALSE

SPECIFICATION Spec
CONSTANTS
    BlockSize = 2
    Phys <- MCPhys
    MaxBlocks = 4
    MaxReq = 6
    MaxWriteBack = 1
    Vals = {v1}
    Zero = Zero
    Stale = Stale
    MayFail = FALSE
    Origins <- AllOrigins
    Sparse = FALSE
INVARIANTS
    TypeOK
    BlocksAccounted
    SizeMatchesMap
PROPERTIES
    OnlyOwnBlocksWritten
    FileSpec

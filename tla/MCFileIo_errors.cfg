SPECIFICATION FairSpec
CONSTANTS
    BlockSize = 2
    Phys <- MCPhys2
    MaxBlocks = 3
    MaxReq = 5
    MaxWriteBack = 2
    Vals = {v1}
    Zero = Zero
    Stale = Stale
    MayFail = TRUE
    Origins <- FromEnds
    Sparse = FALSE
INVARIANTS
    BlocksAccounted
PROPERTIES
    FileSpec
    CallsReturn

SPECIFICATION Spec
CONSTANTS
    BlockSize = 2
    Phys <- MCPhys2
    MaxBlocks = 3
    MaxReq = 5
    MaxWriteBack = 1
    Vals = {v1}
    Zero = Zero
    Stale = Stale
    MayFail = FALSE
    Origins <- AllOrigins
    Sparse = FALSE
INVARIANTS
    WriteBackBalanced

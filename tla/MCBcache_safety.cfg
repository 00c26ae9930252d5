\* Devices and memory that may fail; three blocks, the last one of the journal.
SPECIFICATION Spec
CONSTANTS
    Lba = {1, 2, 3}
    LogLba = {3}
    Vals = {v1, v2}
    Junk = junk
    Descriptors = {d1, d2}
    Cnt = 1
    MaxWriteBack = 1
    MayFail = TRUE
    ReportsErrors = TRUE
SYMMETRY Symmetry
INVARIANTS
    TypeOK
    LruIffUnreferenced
    RefctrCountsHolders
    DirtyListFlushable
    RefBlocksExact
    UptodateIsValid
PROPERTIES
    NoSilentLoss
    GrowsOnlyWhenReferenced
    HeldStaysCached

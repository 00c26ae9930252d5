\* A device that does not fail: the promises to the file system, and that calls return.
SPECIFICATION FairSpec
CONSTANTS
    Lba = {1, 2}
    LogLba = {2}
    Vals = {v1, v2}
    Junk = junk
    Descriptors = {d1, d2}
    Cnt = 1
    MaxWriteBack = 2
    MayFail = FALSE
    ReportsErrors = TRUE
INVARIANTS
    WriteThrough
    FlushedAll
PROPERTIES
    StoreSpec
    CallsReturn

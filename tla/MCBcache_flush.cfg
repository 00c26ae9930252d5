\* What ext4_block_cache_flush is documented to do, on a device whose writes may fail.
SPECIFICATION Spec
CONSTANTS
    Lba = {1, 2}
    LogLba = {}
    Vals = {v1, v2}
    Junk = junk
    Descriptors = {d1, d2}
    Cnt = 2
    MaxWriteBack = 1
    MayFail = TRUE
    ReportsErrors = TRUE
INVARIANTS
    FlushedAll

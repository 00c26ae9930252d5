\* What BC_UPTODATE is documented to mean, over the UEFI device, which reports no error.
SPECIFICATION Spec
CONSTANTS
    Lba = {1, 2}
    LogLba = {}
    Vals = {v1, v2}
    Junk = junk
    Descriptors = {d1, d2}
    Cnt = 2
    MaxWriteBack = 1
    MayFail = TRUE
    ReportsErrors = FALSE
INVARIANTS
    UptodateIsValid

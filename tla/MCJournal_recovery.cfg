SPECIFICATION Spec
CONSTANTS
    bitmap = bitmap
    a = a
    Blocks <- MCBlocks
    Bitmap = bitmap
    None = None
    LogSize = 12
    MaxTxn = 3
    MaxSequence = 3
    Triggers <- NoTriggers
INVARIANTS
    TypeOK
    JournalCopyIntact
    FlushIsNoticed
    NoStaleRecords
PROPERTIES
    AtomicUpdates
    MarkedForRecovery
    CallsReturn
CHECK_DEADLOCK FALSE

SPECIFICATION Spec
CONSTANTS
    bitmap = bitmap
    a = a
    Blocks <- MCBlocks
    Bitmap = bitmap
    None = None
    LogSize = 11
    MaxTxn = 3
    MaxSequence = 3
    Triggers <- OnlyRestart
INVARIANTS
    NoStaleRecords
CHECK_DEADLOCK FALSE

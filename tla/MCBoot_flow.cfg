SPECIFICATION FairSpec
CONSTANTS
    Dirs <- MCDirs
    NoDir = NoDir
    Nothing = Nothing
    Uninit = Uninit
    MaxBoots = 3
INVARIANTS
    TypeOK
    MkfsComplete
    OpenDeviceHasCache
    LoadsTheClickedEntry
PROPERTIES
    NeverReformats
    MenuReached
CHECK_DEADLOCK FALSE

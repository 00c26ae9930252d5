SPECIFICATION Spec
CONSTANTS
    Dirs <- MCDirs
    NoDir = NoDir
    Nothing = Nothing
    Uninit = Uninit
    MaxBoots = 1
INVARIANTS
    MountedIsReady
CHECK_DEADLOCK FALSE

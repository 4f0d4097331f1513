SPECIFICATION Spec
CONSTANTS
    Luns = {0}
    Dirs = {0, 1}
    MaxFiles = 8
    MaxChunks = 2
    MaxHost = 2
    MaxBeeb = 3
INVARIANTS KeptUnlessCopied NoHostWriteUnderLun LockHasHolder UploadAtomic
CHECK_DEADLOCK FALSE

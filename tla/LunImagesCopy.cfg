SPECIFICATION Spec
CONSTANTS
    Luns = {0}
    Dirs = {0, 1}
    MaxFiles = 8
    MaxChunks = 2
    MaxHost = 2
    MaxBeeb = 2
INVARIANT StartedImageKept
CHECK_DEADLOCK FALSE

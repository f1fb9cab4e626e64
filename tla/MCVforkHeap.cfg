CONSTANTS
    Sizes = {2, 10}
    MaxBlocks = 3
    STDERR_BUFSIZ = 2
    ALIGN = 2
    LONG = 1
    HDR = 2
    MSET = 2
    PGSIZE = 16
    MAP_END = 64
    MSETLEN_MIN = 16
    MSETLEN_MAX = 32
SPECIFICATION Spec
INVARIANTS
    SoundWhileShared
    ParentBlocksKept
    ResumedCounts
CHECK_DEADLOCK FALSE

CONSTANTS
    Sizes = {6, 12, 28}
    Alignments = {2, 4}
    Kernels <- AbleOrFixed
    MaxBlocks = 2
    ALIGN = 2
    LONG = 1
    HDR = 2
    MSET = 2
    LARGE_HDR = 4
    PGSIZE = 16
    MAP_END = 80
    WORD = 256
    MSETLEN_MIN = 16
    MSETLEN_MAX = 32
    MSETMAX_MIN = 8
    MSETMAX_CAP = 16
    LARGE_PER_CLASS = 2
    RETIRED_FIT_MIN = 6
    LARGE_CACHE_SLOTS = 2
    LARGE_CACHE_MAX_BYTES = 48
SPECIFICATION Spec
INVARIANTS
    PagesOwned
    BlocksFit

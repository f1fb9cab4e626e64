CONSTANTS
    Sizes = {2, 10}
    Alignments = {2}
    Kernels <- AbleOrFixed
    MaxBlocks = 3
    ALIGN = 2
    LONG = 1
    HDR = 2
    MSET = 2
    LARGE_HDR = 4
    PGSIZE = 16
    MAP_END = 64
    WORD = 256
    MSETLEN_MIN = 16
    MSETLEN_MAX = 32
    MSETMAX_MIN = 16
    MSETMAX_CAP = 16
    LARGE_PER_CLASS = 2
    RETIRED_FIT_MIN = 6
    LARGE_CACHE_SLOTS = 2
    LARGE_CACHE_MAX_BYTES = 0
SPECIFICATION Spec
INVARIANT AllAligned

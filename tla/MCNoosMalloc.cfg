CONSTANTS
    Threads = {t1, t2}
    Sizes = {0, 4, 7, 41}
    Alignments = {2, 4}
    ForeignMoves = {7}
    MALLOC_ALIGN = 2
    HEADER = 2
    MIN_CHUNK = 4
    SIZE_MAX = 80
    HEAP_START = 3
    HEAP_END = 26
SPECIFICATION Spec
SYMMETRY Symmetry
INVARIANTS
    TypeOK
    ChunksApart
    Coalesced
    OneOwner
    BlocksFit
    Tiled
    MovesPinned
PROPERTY ImplementsHeapSpec
CHECK_DEADLOCK FALSE

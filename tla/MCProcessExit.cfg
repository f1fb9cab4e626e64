CONSTANTS
    Handlers = {h1, h2, h3}
    ATEXIT_MAX = 2
    MaxFini = 2
    MaxPrints = 2
    MaxSystem = 2
SPECIFICATION Spec
INVARIANTS
    TypeOK
    CalledOnce
    NothingLeft
PROPERTY ExitEnds

CONSTANTS
    Bytes = {0, 10}
    NEWLINE = 10
    BUFSIZ = 2
    SmallBuf = 1
    LINE = 2
    MaxFile = 3
    MaxCall = 3
    OpenModes = {"w+", "a+", "r+"}
SPECIFICATION Spec
INVARIANTS
    TypeOK
    ReadAheadFresh
    EofMeansEnd
    SeeksLand
PROPERTY ImplementsByteStream
CHECK_DEADLOCK FALSE

CONSTANTS
    Pids = {1, 2}
    Names = 3
    Token <- XorToken
    TMP_ATTEMPTS = 2
    TMP_MAX = 3
    Batch = 2
    Places = 3
    MaxCount = 5
SPECIFICATION SceneSpec
INVARIANTS
    TemporaryNames
    ListsAll
CHECK_DEADLOCK FALSE

CONSTANTS
    Characters <- AllCharacters
    Items <- AllItems
    Lower <- LowerCase
    MaxPattern = 4
    MaxString = 3
    LBits = 3
    LLBits = 4
    MaxText = 4
    MaxArray = 5
SPECIFICATION RegexSpec
INVARIANT SearchesAllPaths
CHECK_DEADLOCK FALSE

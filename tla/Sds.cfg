SPECIFICATION SdsSpec
CONSTANTS
    MaxLen <- MCMaxLen
    SDS_MAX_PREALLOC = 3
    Char = {"a", "b", "NUL"}
    NUL = "NUL"
    Junk = "junk"
    Texts <- MCTexts
    Sizes <- MCSizes
    Indexes <- MCIndexes
    MaxText = 4
INVARIANTS
    HeaderOK
    GrantHolds
    Terminated
PROPERTY
    CallsDo
\* A string that is freed stays freed.
CHECK_DEADLOCK FALSE

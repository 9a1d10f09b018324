SPECIFICATION Spec
CONSTANTS
    Type = {"T"}
    Key = {"k", "l"}
    Word = {"a", "b", "c", "d"}
    Text <- MCText
    MaxNodes = 2
    MaxAttrs = 2
    MaxObjects = 4
INVARIANTS
    DestroyFrees
\* The caller stops when a call has aborted or no room is left.
CHECK_DEADLOCK FALSE

SPECIFICATION Spec
CONSTANTS
    Type = {"T"}
    Key = {"k", "l"}
    Word = {"a", "b", "c", "d"}
    Text <- MCText
    MaxNodes = 3
    MaxAttrs = 3
    MaxObjects = 4
INVARIANTS
    TypeOK
    OneOwner
PROPERTIES
    ImplementsTree
    AnswersStable
    IntegersShared
\* The caller stops when a call has aborted or no room is left.
CHECK_DEADLOCK FALSE

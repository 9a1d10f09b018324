SPECIFICATION CompilerSpec
CONSTANTS
    NULL = NULL
    MaxDimension = 2
    Identifier <- MCIdentifier
    DimensionName <- MCDimensionName
    Programs <- MCPrograms
INVARIANTS
    GenTypeOK
    DereferenceMatchesHead
    ResultMatches
    DeclarationsMatch
    BracketsExactly
    ConstantsKept
    CallMatchesPrototype
    PrototypesFirst
    MainWithoutSubprograms
    TableComplete
PROPERTIES
    CompilerExits
\* The compiler is a process that exits.
CHECK_DEADLOCK FALSE

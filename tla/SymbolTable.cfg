SPECIFICATION Spec
CONSTANTS
    NULL = NULL
    MaxDimension = 2
    Identifier <- MCIdentifier
    DimensionName <- MCDimensionName
    Programs <- MCPrograms
INVARIANTS
    TypeOK
    ScopeDiscipline
    TableExact
    LookupExact
    FirstGroupAnswers
PROPERTIES
    StableLookup
    ImplementsEnvironment
    Termination
\* The compiler stops when it has destroyed its table.
CHECK_DEADLOCK FALSE

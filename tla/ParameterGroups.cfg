SPECIFICATION Spec
CONSTANTS
    NULL = NULL
    MaxDimension = 2
    Identifier <- MCIdentifier
    DimensionName <- MCDimensionName
    Programs <- MCPrograms
INVARIANT ArgumentIsPosition
CHECK_DEADLOCK FALSE

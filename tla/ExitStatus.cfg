SPECIFICATION CompilerSpec
CONSTANTS
    NULL = NULL
    MaxDimension = 2
    Identifier <- MCIdentifier
    DimensionName <- MCDimensionName
    Programs <- MCPrograms
INVARIANT FailureReported
CHECK_DEADLOCK FALSE

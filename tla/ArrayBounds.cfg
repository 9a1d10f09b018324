SPECIFICATION CompilerSpec
CONSTANTS
    NULL = NULL
    MaxDimension = 2
    Identifier <- MCIdentifier
    DimensionName <- MCDimensionName
    Programs <- MCPrograms
INVARIANT ArrayHoldsItsRange
CHECK_DEADLOCK FALSE

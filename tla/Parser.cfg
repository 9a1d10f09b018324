SPECIFICATION ParserSpec
CONSTANTS
    Type <- MCType
    Key <- MCKey
    Word <- MCWord
    Inputs <- MCInputs
    Identifier <- MCIdentifier
    MaxDimension = 2
    DimensionName <- MCDimensionName
    Number <- MCNumber
INVARIANTS
    StackReads
    RootIsWhole
    EveryObjectOnce
    AbortsOnEmptyElement
    DumpIsJson
    BuildsAst
\* The parser stops at the end of its input.
CHECK_DEADLOCK FALSE

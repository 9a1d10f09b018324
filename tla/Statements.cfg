SPECIFICATION StatementsSpec
CONSTANTS
    Type <- MCType
    Key <- MCKey
    Word <- MCWord
    Inputs <- MCInputs
    Form <- MCForm
    ByRef <- MCByRef
    LongName <- MCLongName
INVARIANTS
    ControlKept
    ExpressionsKept
    CrashesExactly
\* The compiler stops at the end of its input.
CHECK_DEADLOCK FALSE

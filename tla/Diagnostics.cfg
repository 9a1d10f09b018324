CONSTANTS
    MaxLexemes = 4
    MaxExpected = 5
SPECIFICATION DiagnosticsSpec
CHECK_DEADLOCK FALSE
INVARIANTS
    ReportPoints
    SpanCovers
PROPERTY
    ReportsExactly

\* Scripts whose every line ends with a newline: the report is the line.
CONSTANTS
    Buffers <- MCTerminated
    Nums <- MCNums
SPECIFICATION Spec
CHECK_DEADLOCK FALSE
INVARIANT TypeOK
INVARIANT ReportsLiteralLine

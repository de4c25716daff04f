\* Any script: the failing command may sit on a last line with no newline.
CONSTANTS
    Buffers <- MCBuffers
    Nums <- MCNums
SPECIFICATION Spec
CHECK_DEADLOCK FALSE
INVARIANT ReportsLiteralLine

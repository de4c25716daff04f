\* The USB host creates and deletes entries and readdir() may fail while
\* the browser lists the card.
SPECIFICATION Spec
CONSTANTS
    Entries <- MCEntries
    InitDirs <- MCSmallDirs
    Ext <- MCExt
    MaxCreates = 1
    MaxDeletes = 1
    MaxFails = 1
    NULL = NULL
    Garbage = Garbage
INVARIANT
    ArrayMatchesCount
CHECK_DEADLOCK FALSE

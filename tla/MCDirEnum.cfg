\* A directory nobody else changes: both listings against the reference.
SPECIFICATION StableSpec
CONSTANTS
    Entries <- MCEntries
    InitDirs <- MCInitDirs
    Ext <- MCExt
    MaxCreates = 0
    MaxDeletes = 0
    MaxFails = 0
    NULL = NULL
    Garbage = Garbage
INVARIANTS
    TypeOK
    EnumeratesMatches
CHECK_DEADLOCK FALSE

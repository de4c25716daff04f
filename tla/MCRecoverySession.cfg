\* Every command of the main system survives crashes and reboots.
CONSTANTS
    Commands <- MCCommands
    ArgLen <- MCArgLen
    RecCap <- MCRecCap
    MaxArgs = 3
    BcbReadMayFail = FALSE
    FormatMayFail = FALSE
    MaxCrashes = 2
SPECIFICATION Spec
INVARIANT TypeOK
INVARIANT ResumeAnchor
INVARIANT CacheSane
PROPERTY NoBootLoop
PROPERTY ImplementsCommandSlot

\* A crash between the two halves of finish_recovery().
CONSTANTS
    Commands <- MCCommands
    ArgLen <- MCArgLen
    RecCap <- MCRecCap
    MaxArgs = 3
    BcbReadMayFail = FALSE
    FormatMayFail = FALSE
    MaxCrashes = 2
SPECIFICATION Spec
INVARIANT StaleCommandNeverRead

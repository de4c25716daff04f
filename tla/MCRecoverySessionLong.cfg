\* A package path longer than boot.recovery is cut when get_args() persists it.
CONSTANTS
    Commands <- MCCommands
    ArgLen <- MCArgLen
    RecCap <- MCShortRecCap
    MaxArgs = 3
    BcbReadMayFail = FALSE
    FormatMayFail = FALSE
    MaxCrashes = 2
SPECIFICATION Spec
INVARIANT ResumeAnchor

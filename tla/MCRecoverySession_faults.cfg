\* Failed cache formats: commands still resume and recovery does not loop.
CONSTANTS
    Commands <- MCCommands
    ArgLen <- MCArgLen
    RecCap <- MCRecCap
    MaxArgs = 3
    BcbReadMayFail = FALSE
    FormatMayFail = TRUE
    MaxCrashes = 2
SPECIFICATION Spec
INVARIANT ResumeAnchor
PROPERTY NoBootLoop

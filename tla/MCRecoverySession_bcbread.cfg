\* get_bootloader_message() fails at the boot after a crash.
CONSTANTS
    Commands <- MCCommands
    ArgLen <- MCArgLen
    RecCap <- MCRecCap
    MaxArgs = 3
    BcbReadMayFail = TRUE
    FormatMayFail = FALSE
    MaxCrashes = 2
SPECIFICATION Spec
INVARIANT ResumeAnchor

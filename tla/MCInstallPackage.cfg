\* Well-formed and malformed update binaries, fork() succeeding;
\* install_package() and the update binary stop, so a final state is not a deadlock.
CONSTANTS
    FwTypes = {"radio", "hboot"}
    ChildScripts <- MCFaultyScripts
    PipeCap = 2
    ForkMayFail = FALSE
SPECIFICATION Spec
CHECK_DEADLOCK FALSE
INVARIANT TypeOK
INVARIANT SuccessMeansInstalled
INVARIANT FirstFirmwareWins
PROPERTY InstallReturns

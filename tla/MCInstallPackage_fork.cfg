\* fork() fails: waitpid() leaves status unwritten.
CONSTANTS
    FwTypes = {"radio", "hboot"}
    ChildScripts <- MCScripts
    PipeCap = 2
    ForkMayFail = TRUE
SPECIFICATION Spec
CHECK_DEADLOCK FALSE
INVARIANT SuccessMeansInstalled

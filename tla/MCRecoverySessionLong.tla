----------------------- MODULE MCRecoverySessionLong -----------------------
(* RecoverySession with a package path that does not fit boot.recovery.    *)
EXTENDS RecoverySession

\* The commands of MCRecoverySession.
MCCommands == {<<"update_package">>, <<"wipe_data">>, <<"wipe_cache">>}

\* --update_package=... is the longest argument.
MCArgLen == [o \in Opts |-> IF o = "update_package" THEN 3 ELSE 2]

\* Room that cuts --update_package=... short, as a package path longer
\* than the 1024 bytes of boot.recovery does.
MCShortRecCap == 2

=============================================================================

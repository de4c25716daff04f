------------------------- MODULE MCRecoverySession -------------------------
(* Small instances of RecoverySession for TLC.                             *)
EXTENDS RecoverySession

\* The commands the main system writes: an OTA install, a factory reset,
\* a cache wipe.
MCCommands == {<<"update_package">>, <<"wipe_data">>, <<"wipe_cache">>}

\* Option string lengths, scaled down: the package path makes
\* --update_package=... the longest argument.
MCArgLen == [o \in Opts |-> IF o = "update_package" THEN 3 ELSE 2]

\* Room enough for every single command with its newline.
MCRecCap == 4

\* The hypothesis of the proofs holds of this instance.
ASSUME MCCommandsFit == CommandsFit

=============================================================================

---------------------------- MODULE CommandSlot -----------------------------
(***************************************************************************)
(* What the recovery command resolution promises, in the terms of its     *)
(* specification (4.8): a command slot that goes from NO_COMMAND to       *)
(* COMMAND_PENDING (persisted) to EXECUTING to COMMAND_CLEARED, where a   *)
(* hard reboot while executing puts the slot back to pending, so that the *)
(* identical command runs again.  RecoverySession implements it.         *)
(***************************************************************************)
EXTENDS Sequences

CONSTANTS
    Cmds    \* the commands the main system can hand over

VARIABLES
    slot,     \* "NO_COMMAND", "PENDING", "EXECUTING" or "CLEARED"
    cmd,      \* the command in the slot
    running   \* the command being executed, <<>> when none is

avars == <<slot, cmd, running>>

TypeOK ==
    /\ slot \in {"NO_COMMAND", "PENDING", "EXECUTING", "CLEARED"}
    /\ cmd \in Cmds \cup {<<>>}
    /\ running \in Cmds \cup {<<>>}

Init ==
    /\ slot = "NO_COMMAND"
    /\ cmd = <<>>
    /\ running = <<>>

(* The main system hands over a command.  A command not started yet is    *)
(* replaced; one being executed never is.                                  *)
Issue(c) ==
    /\ slot # "EXECUTING"
    /\ slot' = "PENDING"
    /\ cmd' = c
    /\ running' = <<>>

(* Recovery starts the persisted command: exactly that command runs.       *)
Execute ==
    /\ slot = "PENDING"
    /\ slot' = "EXECUTING"
    /\ running' = cmd
    /\ UNCHANGED cmd

(* A hard reboot while the command runs: the slot is still persisted.      *)
Interrupt ==
    /\ slot = "EXECUTING"
    /\ slot' = "PENDING"
    /\ running' = <<>>
    /\ UNCHANGED cmd

(* The command has been carried out.                                       *)
Complete ==
    /\ slot = "EXECUTING"
    /\ slot' = "CLEARED"
    /\ running' = <<>>
    /\ UNCHANGED cmd

Next == (\E c \in Cmds : Issue(c)) \/ Execute \/ Interrupt \/ Complete

Spec == Init /\ [][Next]_avars

=============================================================================

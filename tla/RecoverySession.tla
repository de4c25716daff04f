-------------------------- MODULE RecoverySession --------------------------
(***************************************************************************)
(* The recovery command state machine of src/recovery.c, across power     *)
(* loss and reboots.  The persistent state is the bootloader control      *)
(* block (BCB: its command and recovery fields), the command file         *)
(* CACHE:recovery/command, and the cache partition itself, which the     *)
(* firmware hand-off overwrites with a raw image.  The volatile state is  *)
(* the recovery process: where main() is, the argument list get_args()    *)
(* resolved, the install status and the pending firmware request.  The   *)
(* environment is the main system (writes a command file and reboots into *)
(* recovery), the user (menu choices, booting recovery by hand) and the   *)
(* bootloader (boots recovery or the system according to BCB.command and  *)
(* flashes a firmware image).  A Crash may hit at any step.               *)
(***************************************************************************)
EXTENDS Naturals, Sequences, FiniteSets

CONSTANTS
    Commands,        \* the argument lists the main system writes to COMMAND_FILE
    ArgLen,          \* characters of each option string, newline excluded
    RecCap,          \* characters of boot.recovery left after "recovery\n" and the NUL
    MaxArgs,         \* MAX_ARGS of get_args()
    BcbReadMayFail,  \* whether get_bootloader_message() may fail at a boot
    FormatMayFail,   \* whether format_root_device() may fail
    MaxCrashes       \* bound on power losses in one behaviour

\* The long options of recovery.c OPTIONS[] whose effect is modelled.
Opts == {"update_package", "wipe_data", "wipe_cache"}

ASSUME ConstantsAssumption ==
    /\ Commands \subseteq Seq(Opts)
    /\ ArgLen \in [Opts -> Nat \ {0}]
    /\ RecCap \in Nat
    /\ MaxArgs \in Nat \ {0, 1}
    /\ BcbReadMayFail \in BOOLEAN
    /\ FormatMayFail \in BOOLEAN
    /\ MaxCrashes \in Nat

\* An argument string: its option, and whether strlcat() cut it short.
ArgVal == [opt : Opts, whole : BOOLEAN]
Whole(o) == [opt |-> o, whole |-> TRUE]
AsArgs(c) == [i \in 1..Len(c) |-> Whole(c[i])]

\* A bootloader_message: command field, whether the recovery field starts
\* with the "recovery" line, and the argument lines after it.
Bcb == [cmd : {"none", "boot-recovery", "update-firmware"},
        marked : BOOLEAN, args : Seq(ArgVal)]
ZeroBcb == [cmd |-> "none", marked |-> FALSE, args |-> <<>>]

NoFile == [present |-> FALSE, lines |-> <<>>]
CmdFile == [present : BOOLEAN, lines : Seq(ArgVal)]

Results == {"SUCCESS", "ERROR", "CORRUPT"}

\* The outcomes of one format_root_device() call.
FormatOutcomes == IF FormatMayFail THEN BOOLEAN ELSE {TRUE}

Pcs == {"system", "boot", "get_args", "dispatch", "install", "wipe_data",
        "wipe_data_cache", "wipe_cache", "after_cmd", "fin_bcb",
        "fin_unlink", "menu", "menu_install", "fw_check", "fw_write",
        "fw_writing", "fw_commit", "reboot"}

\* The places where main() is carrying out the command it resolved.
MainCmdPcs == {"dispatch", "install", "wipe_data", "wipe_data_cache", "wipe_cache"}

VARIABLES
    pc,          \* where the device is: the system, the bootloader, or a point of recovery
    argv,        \* the argument list get_args() resolved
    status,      \* main()'s status
    fwPending,   \* firmware.c's remembered update (lost at reboot)
    finishNext,  \* where finish_recovery() returns to: the menu loop or the final reboot
    bcb,         \* the bootloader control block (persistent)
    cmdFile,     \* CACHE:recovery/command (persistent)
    cache,       \* "fs" when the cache partition holds a filesystem, "raw" during a firmware hand-off
    issued,      \* history: the last command the main system wrote
    pending,     \* history: that command has not been carried out yet
    fileDone,    \* history: the command file holds a command already finished
    crashes      \* power losses so far

vars == <<pc, argv, status, fwPending, finishNext, bcb, cmdFile, cache,
          issued, pending, fileDone, crashes>>

TypeOK ==
    /\ pc \in Pcs
    /\ argv \in Seq(ArgVal)
    /\ status \in Results
    /\ fwPending \in BOOLEAN
    /\ finishNext \in {"menu", "reboot"}
    /\ bcb \in Bcb
    /\ cmdFile \in CmdFile
    /\ cache \in {"fs", "raw"}
    /\ issued \in Seq(ArgVal)
    /\ pending \in BOOLEAN
    /\ fileDone \in BOOLEAN
    /\ crashes \in 0..MaxCrashes

-----------------------------------------------------------------------------
(* get_args() and the strings it writes back into boot.recovery.          *)

\* The first MAX_ARGS - 1 arguments: the loops of get_args() stop there.
Take(x) == IF Len(x) < MaxArgs THEN x ELSE SubSeq(x, 1, MaxArgs - 1)

\* Characters the first k (whole) arguments take in boot.recovery, each
\* followed by its newline.
Used(x, k) ==
    LET n(o) == Cardinality({i \in 1..k : x[i].opt = o})
    IN  (ArgLen["update_package"] + 1) * n("update_package")
      + (ArgLen["wipe_data"] + 1) * n("wipe_data")
      + (ArgLen["wipe_cache"] + 1) * n("wipe_cache")

\* How many leading arguments strlcat() copies in full with their newline.
Kept(x) == Cardinality({k \in 1..Len(x) :
                          (\A j \in 1..k : x[j].whole) /\ Used(x, k) <= RecCap})

Room(x) == RecCap - Used(x, Kept(x))

\* What the next strlcat() leaves of the first argument that does not fit
\* with its newline: the whole argument when only the newline is lost, a
\* cut prefix when some room is left, nothing otherwise.  A cut argument
\* read back is written back at the same place, where it fills the room.
LastKept(x) ==
    IF Kept(x) >= Len(x) THEN <<>>
    ELSE LET a == x[Kept(x) + 1]
         IN  IF ~a.whole \/ ArgLen[a.opt] <= Room(x) THEN <<a>>
             ELSE IF Room(x) > 0 THEN <<[a EXCEPT !.whole = FALSE]>>
             ELSE <<>>

\* The argument lines get_args() stores after "recovery\n".
Persist(x) == SubSeq(x, 1, Kept(x)) \o LastKept(x)

\* Arguments found in boot.recovery: the lines after a first "recovery" line.
FromBcb(b) == IF b.marked THEN Take(b.args) ELSE <<>>

\* The argument list get_args() resolves: the control block first, then
\* the command file.
Resolve(b, f) ==
    IF FromBcb(b) # <<>> THEN FromBcb(b)
    ELSE IF f.present THEN Take(f.lines)
    ELSE <<>>

\* Options getopt_long() recognises in argv; a cut string is rejected.
Chosen(x) == {x[i].opt : i \in {j \in DOMAIN x : x[j].whole}}

-----------------------------------------------------------------------------
(* Shared effects.                                                         *)

\* Volatile state at the start of a recovery process.
ResetProcess ==
    /\ argv' = <<>>
    /\ status' = "SUCCESS"
    /\ fwPending' = FALSE
    /\ finishNext' = "menu"

\* erase_root("CACHE:") succeeding: a fresh filesystem, no command file.
FormatCache ==
    /\ cache' = "fs"
    /\ cmdFile' = NoFile
    /\ fileDone' = FALSE

\* The command main() resolved is carried out.
CommandDone == pending' = (pending /\ argv # issued)

\* install_package() returns r; a successful binary may have asked for a
\* firmware update, which remember_firmware_update() refuses when one is
\* already pending, turning the result into INSTALL_ERROR.
InstallPackage(r, wantFw) ==
    /\ status' = IF r = "SUCCESS" /\ wantFw /\ fwPending THEN "ERROR" ELSE r
    /\ fwPending' = (fwPending \/ (r = "SUCCESS" /\ wantFw))

-----------------------------------------------------------------------------
(* Environment: the main system, the bootloader, power loss.               *)

\* The main system writes a command file on the mounted cache and reboots
\* into recovery.
SystemIssue(c) ==
    /\ pc = "system"
    /\ cache = "fs"
    /\ cmdFile' = [present |-> TRUE, lines |-> AsArgs(c)]
    /\ issued' = AsArgs(c)
    /\ pending' = TRUE
    /\ fileDone' = FALSE
    /\ pc' = "get_args"
    /\ UNCHANGED <<argv, status, fwPending, finishNext, bcb, cache, crashes>>

\* The user reboots the running system into recovery by hand (the key
\* combination, or a reboot to recovery without a command).
ManualRecovery ==
    /\ pc = "system"
    /\ pc' = "get_args"
    /\ UNCHANGED <<argv, status, fwPending, finishNext, bcb, cmdFile, cache,
                   issued, pending, fileDone, crashes>>

\* Power loss or a battery pull anywhere but in the bootloader.
Crash ==
    /\ pc # "boot"
    /\ crashes < MaxCrashes
    /\ pc' = "boot"
    /\ crashes' = crashes + 1
    /\ ResetProcess
    /\ UNCHANGED <<bcb, cmdFile, cache, issued, pending, fileDone>>

\* The bootloader: "boot-recovery" starts recovery; "update-firmware"
\* flashes the image and rewrites the command to "boot-recovery", keeping
\* the recovery field; otherwise the main system boots.
Boot ==
    /\ pc = "boot"
    /\ \/ /\ bcb.cmd = "boot-recovery"
          /\ pc' = "get_args"
          /\ UNCHANGED bcb
       \/ /\ bcb.cmd = "update-firmware"
          /\ bcb' = [bcb EXCEPT !.cmd = "boot-recovery"]
          /\ pc' = "get_args"
       \/ /\ bcb.cmd = "none"
          /\ pc' = "system"
          /\ UNCHANGED bcb
    /\ UNCHANGED <<argv, status, fwPending, finishNext, cmdFile, cache,
                   issued, pending, fileDone, crashes>>

-----------------------------------------------------------------------------
(* The recovery process: main(), get_args(), finish_recovery().            *)

\* Variant: get_args() without the write-back to the control block.
GetArgsNoWriteBack ==
    /\ pc = "get_args"
    /\ \E readOk \in (IF BcbReadMayFail THEN BOOLEAN ELSE {TRUE}) :
          argv' = Resolve(IF readOk THEN bcb ELSE ZeroBcb, cmdFile)
    /\ pc' = "dispatch"
    /\ UNCHANGED <<bcb, status, fwPending, finishNext, cmdFile, cache, issued,
                   pending, fileDone, crashes>>

\* get_args(): read the control block (a failed read leaves it zeroed),
\* take the arguments from it or from the command file, and write them
\* back with "boot-recovery" so that a reboot restarts the command.
GetArgs ==
    /\ pc = "get_args"
    /\ \E readOk \in (IF BcbReadMayFail THEN BOOLEAN ELSE {TRUE}) :
          LET args == Resolve(IF readOk THEN bcb ELSE ZeroBcb, cmdFile)
          IN  /\ argv' = args
              /\ bcb' = [cmd |-> "boot-recovery", marked |-> TRUE,
                         args |-> Persist(args)]
    /\ pc' = "dispatch"
    /\ UNCHANGED <<status, fwPending, finishNext, cmdFile, cache, issued,
                   pending, fileDone, crashes>>

\* main(): parse the options and start the command they name.
Dispatch ==
    /\ pc = "dispatch"
    /\ \/ /\ "update_package" \in Chosen(argv)
          /\ pc' = "install"
          /\ UNCHANGED status
       \/ /\ "update_package" \notin Chosen(argv)
          /\ "wipe_data" \in Chosen(argv)
          /\ pc' = "wipe_data"
          /\ UNCHANGED status
       \/ /\ Chosen(argv) \cap {"update_package", "wipe_data"} = {}
          /\ "wipe_cache" \in Chosen(argv)
          /\ pc' = "wipe_cache"
          /\ UNCHANGED status
       \/ /\ Chosen(argv) = {}
          /\ status' = "ERROR"
          /\ pc' = "after_cmd"
    /\ UNCHANGED <<argv, fwPending, finishNext, bcb, cmdFile, cache, issued,
                   pending, fileDone, crashes>>

\* main(): install_package(update_package).
Install ==
    /\ pc = "install"
    /\ \E r \in Results, wantFw \in BOOLEAN : InstallPackage(r, wantFw)
    /\ pc' = "after_cmd"
    /\ UNCHANGED <<argv, finishNext, bcb, cmdFile, cache, issued, pending,
                   fileDone, crashes>>

\* main(): device_wipe_data(), then erase_root("DATA:"), which may fail.
WipeData ==
    /\ pc = "wipe_data"
    /\ \E ok \in BOOLEAN : status' = IF ok THEN status ELSE "ERROR"
    /\ pc' = "wipe_data_cache"
    /\ UNCHANGED <<argv, fwPending, finishNext, bcb, cmdFile, cache, issued,
                   pending, fileDone, crashes>>

\* main(): erase_root("CACHE:") for --wipe_data or --wipe_cache; a failed
\* format leaves the partition as it was.
EraseCacheStep ==
    /\ \E ok \in FormatOutcomes :
          \/ /\ ok
             /\ FormatCache
             /\ UNCHANGED status
          \/ /\ ~ok
             /\ status' = "ERROR"
             /\ UNCHANGED <<cache, cmdFile, fileDone>>
    /\ pc' = "after_cmd"
    /\ UNCHANGED <<argv, fwPending, finishNext, bcb, issued, pending, crashes>>

WipeDataCache == pc = "wipe_data_cache" /\ EraseCacheStep
WipeCache == pc = "wipe_cache" /\ EraseCacheStep

\* main() is past its command: on failure, or when the log is on screen,
\* prompt_and_wait(); otherwise on to the firmware hand-off.
AfterCmd ==
    /\ pc = "after_cmd"
    /\ CommandDone
    /\ \E visible \in BOOLEAN :
          pc' = IF status # "SUCCESS" \/ visible THEN "fin_bcb" ELSE "fw_check"
    /\ finishNext' = "menu"
    /\ UNCHANGED <<argv, status, fwPending, bcb, cmdFile, cache, issued,
                   fileDone, crashes>>

\* Variant: finish_recovery() leaves the control block as it is.
FinishKeepBcb ==
    /\ pc = "fin_bcb"
    /\ fileDone' = (cmdFile.present /\ ~pending)
    /\ pc' = "fin_unlink"
    /\ UNCHANGED <<argv, status, fwPending, finishNext, bcb, cmdFile, cache,
                   issued, pending, crashes>>

\* finish_recovery(), first part: write the intent and the log, then reset
\* the control block to zeroes.
FinishClearBcb ==
    /\ pc = "fin_bcb"
    /\ bcb' = ZeroBcb
    /\ fileDone' = (cmdFile.present /\ ~pending)
    /\ pc' = "fin_unlink"
    /\ UNCHANGED <<argv, status, fwPending, finishNext, cmdFile, cache,
                   issued, pending, crashes>>

\* finish_recovery(), second part: unlink the command file (a cache that
\* does not mount leaves it) and sync().
FinishUnlink ==
    /\ pc = "fin_unlink"
    /\ IF cache = "fs"
          THEN cmdFile' = NoFile /\ fileDone' = FALSE
          ELSE UNCHANGED <<cmdFile, fileDone>>
    /\ pc' = IF finishNext = "menu" THEN "menu" ELSE "reboot"
    /\ UNCHANGED <<argv, status, fwPending, finishNext, bcb, cache, issued,
                   pending, crashes>>

\* main() after the firmware step: reboot(RB_AUTOBOOT).
Reboot ==
    /\ pc = "reboot"
    /\ pc' = "boot"
    /\ ResetProcess
    /\ UNCHANGED <<bcb, cmdFile, cache, issued, pending, fileDone, crashes>>

-----------------------------------------------------------------------------
(* prompt_and_wait(): finish_recovery(NULL) at the top of every round,     *)
(* then one menu choice of the user.                                       *)

\* "Reboot system now": prompt_and_wait() returns to main().
MenuReboot ==
    /\ pc = "menu"
    /\ pc' = "fw_check"
    /\ UNCHANGED <<argv, status, fwPending, finishNext, bcb, cmdFile, cache,
                   issued, pending, fileDone, crashes>>

\* "Wipe data": wipe_data() asks for a confirmation when the text is
\* visible, erases DATA: and CACHE: ignoring failures; prompt_and_wait()
\* returns when the text is not visible any more.
MenuWipeData ==
    /\ pc = "menu"
    /\ \E confirmed, visible \in BOOLEAN, formatted \in FormatOutcomes :
          /\ IF confirmed /\ formatted THEN FormatCache
             ELSE UNCHANGED <<cache, cmdFile, fileDone>>
          /\ pc' = IF visible THEN "fin_bcb" ELSE "fw_check"
    /\ UNCHANGED <<argv, status, fwPending, finishNext, bcb, issued, pending,
                   crashes>>

\* "Wipe cache": erase_root("CACHE:"), then the same visibility test.
MenuWipeCache ==
    /\ pc = "menu"
    /\ \E visible \in BOOLEAN, formatted \in FormatOutcomes :
          /\ IF formatted THEN FormatCache
             ELSE UNCHANGED <<cache, cmdFile, fileDone>>
          /\ pc' = IF visible THEN "fin_bcb" ELSE "fw_check"
    /\ UNCHANGED <<argv, status, fwPending, finishNext, bcb, issued, pending,
                   crashes>>

\* Variant: the command string misspelt as "recovery".
MenuInstallMisspelt ==
    /\ pc = "menu"
    /\ bcb' = [cmd |-> "recovery", marked |-> TRUE, args |-> <<>>]
    /\ pc' = "menu_install"
    /\ UNCHANGED <<argv, status, fwPending, finishNext, cmdFile, cache,
                   issued, pending, fileDone, crashes>>

\* "Apply sdcard:update.zip" or a package picked by the file browser:
\* install_zip_file() first writes "boot-recovery" with no arguments.
MenuInstall ==
    /\ pc = "menu"
    /\ bcb' = [cmd |-> "boot-recovery", marked |-> TRUE, args |-> <<>>]
    /\ pc' = "menu_install"
    /\ UNCHANGED <<argv, status, fwPending, finishNext, cmdFile, cache,
                   issued, pending, fileDone, crashes>>

\* install_zip_file(): install_package(file), then back to the menu loop.
MenuInstallDone ==
    /\ pc = "menu_install"
    /\ \E r \in Results, wantFw \in BOOLEAN : InstallPackage(r, wantFw)
    /\ pc' = "fin_bcb"
    /\ UNCHANGED <<argv, finishNext, bcb, cmdFile, cache, issued, pending,
                   fileDone, crashes>>

\* Back, the USB storage toggle, the splash and partition tools, or a file
\* browser left without a choice: the loop starts again.
MenuOther ==
    /\ pc = "menu"
    /\ pc' = "fin_bcb"
    /\ UNCHANGED <<argv, status, fwPending, finishNext, bcb, cmdFile, cache,
                   issued, pending, fileDone, crashes>>

-----------------------------------------------------------------------------
(* maybe_install_firmware_update() (firmware.c), as the OTA comment of     *)
(* recovery.c describes it: arm "boot-recovery --wipe_cache", write the    *)
(* image over the cache partition, then hand it to the bootloader.         *)

\* Variant: the image is written without arming the control block first.
FwCheckUnarmed ==
    /\ pc = "fw_check"
    /\ \/ /\ ~fwPending
          /\ pc' = "fin_bcb"
          /\ finishNext' = "reboot"
       \/ /\ fwPending
          /\ pc' = "fw_write"
          /\ UNCHANGED finishNext
    /\ UNCHANGED <<argv, status, fwPending, bcb, cmdFile, cache, issued,
                   pending, fileDone, crashes>>

\* maybe_install_firmware_update(): with a firmware update pending, arm
\* "boot-recovery --wipe_cache" before anything else.
FwCheck ==
    /\ pc = "fw_check"
    /\ \/ /\ ~fwPending
          /\ pc' = "fin_bcb"
          /\ finishNext' = "reboot"
          /\ UNCHANGED bcb
       \/ /\ fwPending
          /\ bcb' = [cmd |-> "boot-recovery", marked |-> TRUE,
                     args |-> <<Whole("wipe_cache")>>]
          /\ pc' = "fw_write"
          /\ UNCHANGED finishNext
    /\ UNCHANGED <<argv, status, fwPending, cmdFile, cache, issued, pending,
                   fileDone, crashes>>

\* The image write starts: from here on the cache holds no filesystem.
FwWriteStart ==
    /\ pc = "fw_write"
    /\ cache' = "raw"
    /\ cmdFile' = NoFile
    /\ fileDone' = FALSE
    /\ pc' = "fw_writing"
    /\ UNCHANGED <<argv, status, fwPending, finishNext, bcb, issued, pending,
                   crashes>>

\* The write ends; on failure the cache is formatted and main() goes on to
\* finish_recovery() and the reboot.
FwWriteEnd ==
    /\ pc = "fw_writing"
    /\ \/ /\ pc' = "fw_commit"
          /\ UNCHANGED <<cache, cmdFile, fileDone, finishNext>>
       \/ /\ FormatCache
          /\ pc' = "fin_bcb"
          /\ finishNext' = "reboot"
    /\ UNCHANGED <<argv, status, fwPending, bcb, issued, pending, crashes>>

\* The image is complete: set the bootloader command and reboot.
FwCommit ==
    /\ pc = "fw_commit"
    /\ bcb' = [bcb EXCEPT !.cmd = "update-firmware"]
    /\ pc' = "boot"
    /\ ResetProcess
    /\ UNCHANGED <<cmdFile, cache, issued, pending, fileDone, crashes>>

-----------------------------------------------------------------------------

Init ==
    /\ pc = "system"
    /\ argv = <<>>
    /\ status = "SUCCESS"
    /\ fwPending = FALSE
    /\ finishNext = "menu"
    /\ bcb = ZeroBcb
    /\ cmdFile = NoFile
    /\ cache = "fs"
    /\ issued = <<>>
    /\ pending = FALSE
    /\ fileDone = FALSE
    /\ crashes = 0

\* Steps the device takes by itself: the bootloader and the recovery program.
DeviceStep ==
    \/ Boot \/ GetArgs \/ Dispatch \/ Install \/ WipeData \/ WipeDataCache
    \/ WipeCache \/ AfterCmd \/ FinishClearBcb \/ FinishUnlink \/ Reboot
    \/ MenuInstallDone \/ FwCheck \/ FwWriteStart \/ FwWriteEnd \/ FwCommit

\* Steps of the user and of the main system.
User ==
    \/ \E c \in Commands : SystemIssue(c)
    \/ ManualRecovery
    \/ MenuReboot \/ MenuWipeData \/ MenuWipeCache \/ MenuInstall \/ MenuOther

Next == DeviceStep \/ User \/ Crash

\* The recovery program and the bootloader run to their next step unless
\* the power fails; the user and the main system owe nothing.
Spec == Init /\ [][Next]_vars /\ WF_vars(DeviceStep)

-----------------------------------------------------------------------------
(* Properties.                                                             *)

\* The resumability anchor of the "restartable at any point" comment of
\* recovery.c: until the command the main system wrote has been carried
\* out, the arguments get_args() would resolve from the control block and
\* the command file are exactly that command, so a reboot restarts it.
ResumeAnchor == pending => Resolve(bcb, cmdFile) = issued

\* The firmware hand-off overwrites the cache partition; the bootloader
\* control block must bring every boot back to recovery until the cache is
\* formatted again, so the main system never runs on a raw cache.
CacheSane == pc = "system" => cache = "fs"

\* finish_recovery() removes the command file "so recovery won't repeat":
\* a recovery start never takes its arguments from the command file of a
\* command that has already finished.
StaleCommandNeverRead ==
    ~(pc = "get_args" /\ fileDone /\ FromBcb(bcb) = <<>>)

\* No boot loop: the device is infinitely often in the main system or
\* waiting for the user at the recovery menu.
NoBootLoop == []<>(pc \in {"system", "menu"})

(* The refinement mapping to CommandSlot.  The slot is pending from the    *)
(* main system's write until main() has resolved the command, executing   *)
(* while main() carries it out, cleared once CommandDone; what runs is    *)
(* the argument list get_args() resolved.                                  *)
SlotOf ==
    IF pending
       THEN IF pc \in MainCmdPcs \cup {"after_cmd"} THEN "EXECUTING" ELSE "PENDING"
       ELSE IF issued = <<>> THEN "NO_COMMAND" ELSE "CLEARED"

RunningOf == IF SlotOf = "EXECUTING" THEN argv ELSE <<>>

Slot == INSTANCE CommandSlot
            WITH Cmds <- {AsArgs(c) : c \in Commands},
                 slot <- SlotOf, cmd <- issued, running <- RunningOf

\* The recovery state machine implements the command slot of the spec
\* (4.8): main() only ever executes the command the main system wrote,
\* through any power loss, reboot and get_args() re-resolution, and a
\* command being executed is never replaced.
ImplementsCommandSlot == Slot!Spec


-----------------------------------------------------------------------------
(* What the proofs of RecoverySession_proofs rest on.                      *)

\* Every command of the main system is non-empty, within MAX_ARGS, and
\* fits boot.recovery whole.
CommandsFit ==
    \A c \in Commands :
        /\ c # <<>>
        /\ Len(c) < MaxArgs
        /\ Persist(AsArgs(c)) = AsArgs(c)

\* The control block get_args() writes for the pending command.
IssuedBcb == [cmd |-> "boot-recovery", marked |-> TRUE, args |-> issued]

\* An inductive strengthening of TypeOK /\ ResumeAnchor: while a command
\* is pending the device is in the system, the bootloader or main() before
\* its command is done; the control block is either zero (and then the
\* command file holds the command) or the one get_args() wrote for it.
ResumeInv ==
    /\ TypeOK
    /\ bcb.cmd = "none" => bcb = ZeroBcb
    /\ pc = "system" => bcb = ZeroBcb
    /\ pending =>
          /\ issued \in {AsArgs(c) : c \in Commands}
          /\ pc \in {"system", "boot", "get_args", "after_cmd"} \cup MainCmdPcs
          /\ bcb \in {ZeroBcb, IssuedBcb}
          /\ bcb = ZeroBcb => /\ cmdFile = [present |-> TRUE, lines |-> issued]
                              /\ pc \in {"system", "boot", "get_args"}
          /\ pc \in MainCmdPcs \cup {"after_cmd"} => argv = issued


\* The control block maybe_install_firmware_update() arms before it writes
\* the image: boot recovery again and wipe the cache.
FwBcb == [cmd |-> "boot-recovery", marked |-> TRUE,
          args |-> <<Whole("wipe_cache")>>]

\* Where the device can be while the cache holds a raw image.
RawPcs == {"fw_writing", "fw_commit", "boot", "get_args", "dispatch", "wipe_cache"}

\* An inductive strengthening of CacheSane: from the arming of the control
\* block until the cache is formatted again, the device only moves through
\* the image write, the bootloader and a recovery run of --wipe_cache, and
\* the control block holds that command (as "update-firmware" only while
\* the bootloader has it).
CacheInv ==
    /\ TypeOK
    /\ pc \in {"fw_write", "fw_writing", "fw_commit"} => bcb = FwBcb
    /\ cache = "raw" =>
          /\ pc \in RawPcs
          /\ \/ bcb = FwBcb
             \/ pc = "boot" /\ bcb = [FwBcb EXCEPT !.cmd = "update-firmware"]
          /\ pc \in {"dispatch", "wipe_cache"} => argv = <<Whole("wipe_cache")>>

=============================================================================

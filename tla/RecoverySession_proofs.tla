----------------------- MODULE RecoverySession_proofs -----------------------
(***************************************************************************)
(* Proofs about RecoverySession for every value of its constants: the     *)
(* type of every variable, and that a pending command of the main system  *)
(* can always be resolved again from the persistent state.                *)
(***************************************************************************)
EXTENDS RecoverySession, TLAPS, FiniteSetTheorems, SequenceTheorems

USE ConstantsAssumption

\* AsArgs turns an option list into argument strings of the same length.
LEMMA AsArgsType ==
    ASSUME NEW c \in Seq(Opts)
    PROVE  /\ AsArgs(c) \in Seq(ArgVal)
           /\ Len(AsArgs(c)) = Len(c)
BY DEF AsArgs, Whole, ArgVal

\* The MAX_ARGS cut of get_args() keeps argument strings.
LEMMA TakeType ==
    ASSUME NEW x \in Seq(ArgVal)
    PROVE  Take(x) \in Seq(ArgVal)
<1>1. CASE Len(x) >= MaxArgs
      <2>1. \A i \in 1..MaxArgs - 1 : x[i] \in ArgVal
            BY <1>1
      <2>2. SubSeq(x, 1, MaxArgs - 1) \in Seq(ArgVal)
            BY <2>1, SubSeqProperties
      <2>. QED  BY <1>1, <2>2 DEF Take
<1>. QED  BY <1>1 DEF Take

\* strlcat() keeps at most every argument whole.
LEMMA KeptRange ==
    ASSUME NEW x \in Seq(ArgVal)
    PROVE  Kept(x) \in 0..Len(x)
<1>. DEFINE K == {k \in 1..Len(x) :
                    (\A j \in 1..k : x[j].whole) /\ Used(x, k) <= RecCap}
<1>0. Len(x) \in Nat
      BY LenProperties
<1>1. IsFiniteSet(1..Len(x)) /\ Cardinality(1..Len(x)) = Len(x)
      <2>0. 1 \in Int /\ Len(x) \in Int
            BY <1>0
      <2>1. IsFiniteSet(1..Len(x)) /\ Cardinality(1..Len(x)) = IF 1 > Len(x) THEN 0 ELSE Len(x) - 1 + 1
            BY <2>0, FS_Interval, Zenon
      <2>2. (IF 1 > Len(x) THEN 0 ELSE Len(x) - 1 + 1) = Len(x)
            BY <1>0
      <2>. QED  BY <2>1, <2>2
<1>2. K \subseteq 1..Len(x)
      OBVIOUS
<1>3. IsFiniteSet(K) /\ Cardinality(K) <= Len(x)
      BY <1>1, <1>2, FS_Subset
<1>4. Cardinality(K) \in Nat
      BY <1>3, FS_CardinalityType
<1>. QED  BY <1>3, <1>4 DEF Kept

\* What get_args() writes back into boot.recovery is argument strings.
LEMMA PersistType ==
    ASSUME NEW x \in Seq(ArgVal)
    PROVE  Persist(x) \in Seq(ArgVal)
<1>1. Kept(x) \in 0..Len(x)
      BY KeptRange
<1>2. SubSeq(x, 1, Kept(x)) \in Seq(ArgVal)
      BY <1>1, SubSeqProperties
<1>3. LastKept(x) \in Seq(ArgVal)
      <2>1. CASE Kept(x) < Len(x)
            <3>1. x[Kept(x) + 1] \in ArgVal
                  BY <1>1, <2>1
            <3>2. [x[Kept(x) + 1] EXCEPT !.whole = FALSE] \in ArgVal
                  BY <3>1 DEF ArgVal
            <3>. QED  BY <3>1, <3>2 DEF LastKept
      <2>. QED  BY <1>1, <2>1 DEF LastKept
<1>. QED  BY <1>2, <1>3, ConcatProperties DEF Persist

\* get_args() resolves argument strings from any control block and file.
LEMMA ResolveType ==
    ASSUME NEW b \in Bcb, NEW f \in CmdFile
    PROVE  Resolve(b, f) \in Seq(ArgVal)
<1>1. FromBcb(b) \in Seq(ArgVal)
      BY TakeType DEF FromBcb, Bcb
<1>2. Take(f.lines) \in Seq(ArgVal)
      BY TakeType DEF CmdFile
<1>. QED  BY <1>1, <1>2 DEF Resolve

-----------------------------------------------------------------------------
(* Type correctness.                                                       *)

\* The zero control block and the "boot-recovery --wipe_cache" block that
\* maybe_install_firmware_update() arms are control blocks.
LEMMA BcbConstants ==
    /\ ZeroBcb \in Bcb
    /\ [cmd |-> "boot-recovery", marked |-> TRUE,
        args |-> <<Whole("wipe_cache")>>] \in Bcb
    /\ NoFile \in CmdFile
    /\ <<>> \in Seq(ArgVal)
BY DEF ZeroBcb, Bcb, Whole, ArgVal, Opts, NoFile, CmdFile

\* Every step keeps every variable of the recovery state machine in its
\* type: what get_args() resolves and writes back, what install_package()
\* returns, and the bounded count of power losses.
LEMMA TypeStep == TypeOK /\ [Next]_vars => TypeOK'
<1> SUFFICES ASSUME TypeOK, [Next]_vars PROVE TypeOK'
    OBVIOUS
<1>. USE BcbConstants DEF TypeOK, ResetProcess, FormatCache, CommandDone,
         InstallPackage, Pcs, Results, Bcb, CmdFile
<1>1. ASSUME NEW c \in Commands, SystemIssue(c) PROVE TypeOK'
      <2>1. AsArgs(c) \in Seq(ArgVal)
            BY AsArgsType
      <2>. QED  BY <1>1, <2>1 DEF SystemIssue
<1>2. CASE ManualRecovery
      BY <1>2 DEF ManualRecovery
<1>3. CASE Crash
      <2>1. crashes' \in 0..MaxCrashes
            BY <1>3 DEF Crash
      <2>. QED  BY <1>3, <2>1 DEF Crash
<1>4. CASE Boot
      BY <1>4 DEF Boot
<1>5. CASE GetArgs
      <2>1. PICK readOk \in (IF BcbReadMayFail THEN BOOLEAN ELSE {TRUE}) :
                LET args == Resolve(IF readOk THEN bcb ELSE ZeroBcb, cmdFile)
                IN  /\ argv' = args
                    /\ bcb' = [cmd |-> "boot-recovery", marked |-> TRUE,
                               args |-> Persist(args)]
            BY <1>5 DEF GetArgs
      <2>2. Resolve(IF readOk THEN bcb ELSE ZeroBcb, cmdFile) \in Seq(ArgVal)
            BY ResolveType
      <2>3. Persist(Resolve(IF readOk THEN bcb ELSE ZeroBcb, cmdFile))
              \in Seq(ArgVal)
            BY <2>2, PersistType
      <2>. QED  BY <1>5, <2>1, <2>2, <2>3 DEF GetArgs
<1>6. CASE Dispatch
      BY <1>6 DEF Dispatch
<1>7. CASE Install
      BY <1>7 DEF Install
<1>8. CASE WipeData
      BY <1>8 DEF WipeData
<1>9. CASE WipeDataCache \/ WipeCache
      BY <1>9 DEF WipeDataCache, WipeCache, EraseCacheStep, FormatOutcomes
<1>10. CASE AfterCmd
       BY <1>10 DEF AfterCmd
<1>11. CASE FinishClearBcb \/ FinishUnlink \/ Reboot
       BY <1>11 DEF FinishClearBcb, FinishUnlink, Reboot
<1>12. CASE MenuReboot \/ MenuOther
       BY <1>12 DEF MenuReboot, MenuOther
<1>15. CASE MenuWipeData
       <2>1. PICK confirmed \in BOOLEAN, formatted \in FormatOutcomes :
                 IF confirmed /\ formatted THEN FormatCache
                 ELSE UNCHANGED <<cache, cmdFile, fileDone>>
             BY <1>15 DEF MenuWipeData
       <2>2. pc' \in Pcs
             BY <1>15 DEF MenuWipeData
       <2>3. CASE confirmed /\ formatted
             BY <1>15, <2>1, <2>2, <2>3 DEF MenuWipeData
       <2>4. CASE ~(confirmed /\ formatted)
             BY <1>15, <2>1, <2>2, <2>4 DEF MenuWipeData
       <2>. QED  BY <2>3, <2>4
<1>18. CASE MenuWipeCache
       <2>1. PICK formatted \in FormatOutcomes :
                 IF formatted THEN FormatCache
                 ELSE UNCHANGED <<cache, cmdFile, fileDone>>
             BY <1>18 DEF MenuWipeCache
       <2>2. pc' \in Pcs
             BY <1>18 DEF MenuWipeCache
       <2>3. CASE formatted
             BY <1>18, <2>1, <2>2, <2>3 DEF MenuWipeCache
       <2>4. CASE ~formatted
             BY <1>18, <2>1, <2>2, <2>4 DEF MenuWipeCache
       <2>. QED  BY <2>3, <2>4
<1>16. CASE MenuInstall
       BY <1>16 DEF MenuInstall
<1>17. CASE MenuInstallDone
       BY <1>17 DEF MenuInstallDone
<1>13. CASE FwCheck \/ FwWriteStart \/ FwWriteEnd \/ FwCommit
       BY <1>13 DEF FwCheck, FwWriteStart, FwWriteEnd, FwCommit
<1>14. CASE UNCHANGED vars
       <2>1. UNCHANGED <<pc, argv, status, fwPending, finishNext, bcb,
                        cmdFile, cache, issued, pending, fileDone, crashes>>
            BY <1>14 DEF vars
       <2>. QED  BY <2>1
<1>. QED  BY <1>1, <1>2, <1>3, <1>4, <1>5, <1>6, <1>7, <1>8, <1>9, <1>10,
             <1>11, <1>12, <1>13, <1>14, <1>15, <1>16, <1>17, <1>18
          DEF Next, DeviceStep, User

\* The initial state is well typed.
LEMMA InitType == Init => TypeOK
<1>1. 0 \in 0..MaxCrashes
      OBVIOUS
<1>. QED  BY <1>1, BcbConstants DEF Init, TypeOK, Pcs, Results

\* Type correctness of the recovery state machine, for every value of the
\* constants.
THEOREM TypeCorrect == Spec => []TypeOK
<1>1. Init => TypeOK
      BY InitType
<1>. QED  BY <1>1, TypeStep, PTL DEF Spec

-----------------------------------------------------------------------------
(* The resumability anchor.                                                *)

\* A command that fits is taken whole by get_args() and written back whole.
LEMMA IssuedFacts ==
    ASSUME CommandsFit, NEW c \in Commands
    PROVE  /\ AsArgs(c) \in Seq(ArgVal)
           /\ AsArgs(c) # <<>>
           /\ Take(AsArgs(c)) = AsArgs(c)
           /\ Persist(AsArgs(c)) = AsArgs(c)
<1>1. c \in Seq(Opts) /\ c # <<>> /\ Len(c) < MaxArgs
      BY DEF CommandsFit
<1>2. AsArgs(c) \in Seq(ArgVal) /\ Len(AsArgs(c)) = Len(c)
      BY <1>1, AsArgsType
<1>3. Len(c) # 0
      BY <1>1, EmptySeq
<1>4. AsArgs(c) # <<>>
      BY <1>2, <1>3
<1>5. Take(AsArgs(c)) = AsArgs(c)
      BY <1>1, <1>2 DEF Take
<1>. QED  BY <1>2, <1>4, <1>5 DEF CommandsFit

\* get_args() resolves a fitting command from its command file behind a
\* zero control block, and from the control block it wrote for it.
LEMMA ResolveIssued ==
    ASSUME CommandsFit, NEW c \in Commands, NEW f
    PROVE  /\ Resolve(ZeroBcb, [present |-> TRUE, lines |-> AsArgs(c)])
                = AsArgs(c)
           /\ Resolve([cmd |-> "boot-recovery", marked |-> TRUE,
                       args |-> AsArgs(c)], f) = AsArgs(c)
<1>1. FromBcb(ZeroBcb) = <<>>
      BY DEF FromBcb, ZeroBcb
<1>. QED  BY <1>1, IssuedFacts DEF Resolve, FromBcb

\* The strengthening implies the anchor.
LEMMA InvAnchor ==
    ASSUME CommandsFit, ResumeInv
    PROVE  ResumeAnchor
<1> SUFFICES ASSUME pending PROVE Resolve(bcb, cmdFile) = issued
    BY DEF ResumeAnchor
<1>1. PICK c \in Commands : issued = AsArgs(c)
      BY DEF ResumeInv
<1>2. CASE bcb = ZeroBcb
      BY <1>1, <1>2, ResolveIssued DEF ResumeInv
<1>3. CASE bcb = IssuedBcb
      BY <1>1, <1>3, ResolveIssued DEF IssuedBcb
<1>. QED  BY <1>2, <1>3 DEF ResumeInv


\* Every step keeps the strengthening, provided every command fits and the
\* control block always reads back.
LEMMA ResumeStep ==
    ASSUME CommandsFit, ~BcbReadMayFail
    PROVE  ResumeInv /\ [Next]_vars => ResumeInv'
<1> SUFFICES ASSUME ResumeInv, [Next]_vars PROVE ResumeInv'
    OBVIOUS
<1>0. TypeOK'
      BY TypeStep DEF ResumeInv
<1>. DEFINE Busy == {"system", "boot", "get_args", "after_cmd"} \cup MainCmdPcs
<1>. USE <1>0 DEF ResumeInv, IssuedBcb, MainCmdPcs, ZeroBcb
<1>1. ASSUME NEW c \in Commands, SystemIssue(c) PROVE ResumeInv'
      BY <1>1 DEF SystemIssue
<1>2. CASE ManualRecovery
      BY <1>2 DEF ManualRecovery
<1>3. CASE Crash
      BY <1>3 DEF Crash, ResetProcess
<1>4. CASE Boot
      <2>1. bcb \in Bcb
            BY DEF TypeOK
      <2>2. CASE bcb.cmd = "update-firmware"
            <3>1. ~pending
                  BY <2>2
            <3>2. bcb'.cmd = "boot-recovery" /\ pc' = "get_args"
                  /\ pending' = pending
                  BY <1>4, <2>1, <2>2 DEF Boot, Bcb
            <3>. QED  BY <3>1, <3>2
      <2>3. CASE bcb.cmd # "update-firmware"
            BY <1>4, <2>3 DEF Boot
      <2>. QED  BY <2>2, <2>3
<1>5. CASE GetArgs
      <2>1. argv' = Resolve(bcb, cmdFile)
            /\ bcb' = [cmd |-> "boot-recovery", marked |-> TRUE,
                       args |-> Persist(Resolve(bcb, cmdFile))]
            BY <1>5 DEF GetArgs
      <2>2. CASE pending
            <3>1. PICK c \in Commands : issued = AsArgs(c)
                  BY <2>2
            <3>2. Resolve(bcb, cmdFile) = issued
                  BY <2>2, <3>1, ResolveIssued
            <3>3. Persist(issued) = issued
                  BY <3>1, IssuedFacts
            <3>. QED  BY <1>5, <2>1, <2>2, <3>2, <3>3 DEF GetArgs
      <2>. QED  BY <1>5, <2>1, <2>2 DEF GetArgs
<1>6. CASE Dispatch
      BY <1>6 DEF Dispatch
<1>7. CASE Install
      BY <1>7 DEF Install, InstallPackage
<1>8. CASE WipeData
      BY <1>8 DEF WipeData
<1>9. CASE WipeDataCache \/ WipeCache
      BY <1>9 DEF WipeDataCache, WipeCache, EraseCacheStep, FormatCache
<1>10. CASE AfterCmd
       BY <1>10 DEF AfterCmd, CommandDone
<1>11. CASE FinishClearBcb \/ FinishUnlink \/ Reboot
       BY <1>11 DEF FinishClearBcb, FinishUnlink, Reboot, ResetProcess
<1>12. CASE MenuReboot \/ MenuOther \/ MenuInstall \/ MenuInstallDone
       BY <1>12 DEF MenuReboot, MenuOther, MenuInstall, MenuInstallDone,
          InstallPackage
<1>13. CASE MenuWipeData \/ MenuWipeCache
       BY <1>13 DEF MenuWipeData, MenuWipeCache, FormatCache
<1>14. CASE FwCheck \/ FwWriteStart \/ FwWriteEnd
       BY <1>14 DEF FwCheck, FwWriteStart, FwWriteEnd, FormatCache
<1>16. CASE FwCommit
       <2>1. bcb'.cmd = "update-firmware" /\ pc' = "boot" /\ ~pending
             /\ pending' = pending
             BY <1>16 DEF FwCommit, TypeOK, Bcb
       <2>. QED  BY <1>16, <2>1 DEF FwCommit
<1>15. CASE UNCHANGED vars
       <2>1. UNCHANGED <<pc, argv, status, fwPending, finishNext, bcb,
                         cmdFile, cache, issued, pending, fileDone, crashes>>
             BY <1>15 DEF vars
       <2>. QED  BY <2>1
<1>. QED  BY <1>1, <1>2, <1>3, <1>4, <1>5, <1>6, <1>7, <1>8, <1>9, <1>10,
             <1>11, <1>12, <1>13, <1>14, <1>15, <1>16 DEF Next, DeviceStep, User

\* The resumability anchor of recovery.c ("restartable at any point"): for
\* every bound on arguments and crashes, while the command the main system
\* wrote is not yet carried out, get_args() would resolve exactly that
\* command again from the control block and the command file -- when every
\* command fits boot.recovery and the control block reads back.
THEOREM ResumeAnchorHolds ==
    ASSUME CommandsFit, ~BcbReadMayFail
    PROVE  Spec => []ResumeAnchor
<1>1. Init => ResumeInv
      <2>1. Init => TypeOK
            BY InitType
      <2>. QED  BY <2>1 DEF Init, ResumeInv, ZeroBcb
<1>2. ResumeInv => ResumeAnchor
      BY InvAnchor
<1>. QED  BY <1>1, <1>2, ResumeStep, PTL DEF Spec

-----------------------------------------------------------------------------
(* Refinement of the command slot of the spec.                             *)

\* The places of main() where the command is being carried out.
Exec == MainCmdPcs \cup {"after_cmd"}

\* The strengthening holds in every reachable state.
LEMMA ResumeInvHolds ==
    ASSUME CommandsFit, ~BcbReadMayFail
    PROVE  Spec => []ResumeInv
<1>1. Init => ResumeInv
      BY InitType DEF Init, ResumeInv, ZeroBcb
<1>. QED  BY <1>1, ResumeStep, PTL DEF Spec

\* A step that keeps the pending flag and the issued command, and while a
\* command is pending neither enters nor leaves main()'s command branches
\* nor changes argv inside them, is a stutter of the command slot.
LEMMA SlotStutter ==
    ASSUME /\ pending' = pending /\ issued' = issued
           /\ pending => /\ (pc \in Exec) = (pc' \in Exec)
                         /\ pc' \in Exec => argv' = argv
    PROVE  UNCHANGED <<SlotOf, issued, RunningOf>>
BY DEF SlotOf, RunningOf, Exec

\* Every step of the recovery state machine is a step of the command slot
\* or leaves it unchanged.
LEMMA SlotStep ==
    ASSUME CommandsFit, ResumeInv, ResumeInv', [Next]_vars
    PROVE  [Slot!Next]_(Slot!avars)
<1>. USE DEF Slot!avars
<1>0. pc \notin {"system", "boot", "get_args"} \cup Exec => ~pending
      BY DEF ResumeInv, Exec
<1>1. ASSUME NEW c \in Commands, SystemIssue(c) PROVE [Slot!Next]_(Slot!avars)
      <2>1. pc = "system" /\ pc' = "get_args" /\ pending'
            /\ issued' = AsArgs(c)
            BY <1>1 DEF SystemIssue
      <2>2. SlotOf # "EXECUTING" /\ SlotOf' = "PENDING" /\ RunningOf' = <<>>
            BY <2>1 DEF SlotOf, RunningOf, MainCmdPcs
      <2>3. Slot!Issue(AsArgs(c))
            BY <2>1, <2>2 DEF Slot!Issue
      <2>. QED  BY <2>3 DEF Slot!Next
<1>2. CASE ManualRecovery \/ Boot
      <2>1. pc \in {"system", "boot"} /\ pc' \in {"system", "get_args"}
            /\ UNCHANGED <<pending, issued>>
            BY <1>2 DEF ManualRecovery, Boot
      <2>. QED  BY <2>1, SlotStutter DEF Exec, MainCmdPcs
<1>3. CASE Crash
      <2>1. pc' = "boot" /\ argv' = <<>> /\ UNCHANGED <<pending, issued>>
            BY <1>3 DEF Crash, ResetProcess
      <2>2. CASE pending /\ pc \in Exec
            <3>1. SlotOf = "EXECUTING" /\ SlotOf' = "PENDING" /\ RunningOf' = <<>>
                  BY <2>1, <2>2 DEF SlotOf, RunningOf, Exec, MainCmdPcs
            <3>. QED  BY <2>1, <3>1 DEF Slot!Next, Slot!Interrupt
      <2>3. CASE ~(pending /\ pc \in Exec)
            BY <2>1, <2>3, SlotStutter DEF Exec, MainCmdPcs
      <2>. QED  BY <2>2, <2>3
<1>4. CASE GetArgs
      <2>1. pc = "get_args" /\ pc' = "dispatch" /\ UNCHANGED <<pending, issued>>
            BY <1>4 DEF GetArgs
      <2>2. CASE pending
            <3>1. argv' = issued
                  BY <2>1, <2>2 DEF ResumeInv, MainCmdPcs
            <3>2. SlotOf = "PENDING" /\ SlotOf' = "EXECUTING" /\ RunningOf' = issued
                  BY <2>1, <2>2, <3>1 DEF SlotOf, RunningOf, MainCmdPcs
            <3>. QED  BY <2>1, <3>2 DEF Slot!Next, Slot!Execute
      <2>3. CASE ~pending
            BY <2>1, <2>3, SlotStutter
      <2>. QED  BY <2>2, <2>3
<1>5. CASE Dispatch \/ Install \/ WipeData \/ WipeDataCache \/ WipeCache
      <2>1. pc \in Exec /\ pc' \in Exec /\ UNCHANGED <<argv, pending, issued>>
            BY <1>5 DEF Dispatch, Install, WipeData, WipeDataCache, WipeCache,
                        EraseCacheStep, InstallPackage, Exec, MainCmdPcs
      <2>. QED  BY <2>1, SlotStutter
<1>6. CASE AfterCmd
      <2>1. pc = "after_cmd" /\ pc' \in {"fin_bcb", "fw_check"}
            /\ pending' = (pending /\ argv # issued) /\ UNCHANGED <<argv, issued>>
            BY <1>6 DEF AfterCmd, CommandDone
      <2>2. CASE pending
            <3>1. argv = issued /\ issued # <<>>
                  <4>1. PICK c \in Commands : issued = AsArgs(c)
                        BY <2>2 DEF ResumeInv
                  <4>. QED  BY <2>1, <2>2, <4>1, IssuedFacts DEF ResumeInv
            <3>2. SlotOf = "EXECUTING" /\ SlotOf' = "CLEARED" /\ RunningOf' = <<>>
                  BY <2>1, <2>2, <3>1 DEF SlotOf, RunningOf, MainCmdPcs
            <3>. QED  BY <2>1, <3>2 DEF Slot!Next, Slot!Complete
      <2>3. CASE ~pending
            <3>1. pending \in BOOLEAN
                  BY DEF ResumeInv, TypeOK
            <3>2. pending' = pending
                  BY <2>1, <2>3, <3>1
            <3>. QED  BY <2>1, <2>3, <3>2, SlotStutter
      <2>. QED  BY <2>2, <2>3
<1>7. CASE \/ FinishClearBcb \/ FinishUnlink \/ Reboot
           \/ MenuReboot \/ MenuOther \/ MenuInstall \/ MenuInstallDone
           \/ MenuWipeData \/ MenuWipeCache
           \/ FwCheck \/ FwWriteStart \/ FwWriteEnd \/ FwCommit
      <2>1. pc \notin {"system", "boot", "get_args"} \cup Exec
            /\ UNCHANGED <<pending, issued>>
            BY <1>7 DEF FinishClearBcb, FinishUnlink, Reboot, MenuReboot,
                        MenuOther, MenuInstall, MenuInstallDone, MenuWipeData,
                        MenuWipeCache, FwCheck, FwWriteStart, FwWriteEnd,
                        FwCommit, Exec, MainCmdPcs
      <2>. QED  BY <2>1, <1>0, SlotStutter
<1>8. CASE UNCHANGED vars
      BY <1>8, SlotStutter DEF vars
<1>. QED  BY <1>1, <1>2, <1>3, <1>4, <1>5, <1>6, <1>7, <1>8 DEF Next, DeviceStep, User

\* RecoverySession implements the command slot of the spec (4.8): the
\* initial state is NO_COMMAND, and every step of recovery.c's state
\* machine, power losses included, is an Issue, Execute, Interrupt or
\* Complete of the slot or leaves it unchanged -- in particular main()
\* only ever executes the command the main system wrote -- when every
\* command fits boot.recovery and the control block reads back.
THEOREM RefinesCommandSlot ==
    ASSUME CommandsFit, ~BcbReadMayFail
    PROVE  Spec => ImplementsCommandSlot
<1>1. Init => Slot!Init
      BY DEF Init, Slot!Init, SlotOf, RunningOf
<1>2. ResumeInv /\ ResumeInv' /\ [Next]_vars => [Slot!Next]_(Slot!avars)
      BY SlotStep
<1>3. Spec => []ResumeInv
      BY ResumeInvHolds
<1>. QED  BY <1>1, <1>2, <1>3, PTL DEF Spec, ImplementsCommandSlot, Slot!Spec

-----------------------------------------------------------------------------
(* The firmware hand-off never lets the system boot on a raw cache.        *)

\* The arguments maybe_install_firmware_update() arms: --wipe_cache.
FwArgs == <<Whole("wipe_cache")>>

\* --wipe_cache fits boot.recovery, so get_args() writes it back whole.
LEMMA FwArgsKept ==
    ASSUME ArgLen["wipe_cache"] < RecCap
    PROVE  Persist(FwArgs) = FwArgs
<1>. DEFINE x == FwArgs
<1>1. Len(x) = 1 /\ x[1] = Whole("wipe_cache")
      BY DEF FwArgs
<1>2. /\ {i \in 1..1 : x[i].opt = "wipe_cache"} = {1}
      /\ {i \in 1..1 : x[i].opt = "update_package"} = {}
      /\ {i \in 1..1 : x[i].opt = "wipe_data"} = {}
      BY <1>1 DEF Whole
<1>3. Cardinality({1}) = 1 /\ Cardinality({}) = 0
      BY FS_EmptySet, FS_Singleton
<1>4. ArgLen["wipe_cache"] \in Nat /\ ArgLen["wipe_data"] \in Nat
      /\ ArgLen["update_package"] \in Nat /\ RecCap \in Nat
      BY ConstantsAssumption DEF Opts
<1>5. Used(x, 1) = ArgLen["wipe_cache"] + 1
      <2>1. Used(x, 1) =
              (ArgLen["update_package"] + 1)
                * Cardinality({i \in 1..1 : x[i].opt = "update_package"})
            + (ArgLen["wipe_data"] + 1)
                * Cardinality({i \in 1..1 : x[i].opt = "wipe_data"})
            + (ArgLen["wipe_cache"] + 1)
                * Cardinality({i \in 1..1 : x[i].opt = "wipe_cache"})
            BY DEF Used
      <2>2. Used(x, 1) =
              (ArgLen["update_package"] + 1) * Cardinality({})
            + (ArgLen["wipe_data"] + 1) * Cardinality({})
            + (ArgLen["wipe_cache"] + 1) * Cardinality({1})
            BY <1>2, <2>1
      <2>. QED  BY <1>3, <1>4, <2>2
<1>5a. Used(x, 1) <= RecCap /\ x[1].whole
       BY <1>1, <1>4, <1>5 DEF Whole
<1>5b. {k \in 1..Len(x) : (\A j \in 1..k : x[j].whole) /\ Used(x, k) <= RecCap} = {1}
       BY <1>1, <1>5a
<1>6. Kept(x) = 1
      BY <1>3, <1>5b DEF Kept
<1>7. LastKept(x) = <<>>
      BY <1>1, <1>6 DEF LastKept
<1>8. x \in Seq(ArgVal)
      BY DEF FwArgs, Whole, ArgVal, Opts
<1>9. SubSeq(x, 1, 1) = x
      BY <1>1, <1>8
<1>10. x \o <<>> = x
       BY <1>8
<1>. QED  BY <1>6, <1>7, <1>9, <1>10 DEF Persist

\* get_args() resolves --wipe_cache from the armed control block, whatever
\* the command file holds, and main() takes the cache wipe branch for it.
LEMMA FwResolve ==
    ASSUME NEW f
    PROVE  /\ Resolve(FwBcb, f) = FwArgs
           /\ Chosen(FwArgs) = {"wipe_cache"}
<1>1. Take(FwArgs) = FwArgs
      BY ConstantsAssumption DEF Take, FwArgs
<1>2. FromBcb(FwBcb) = FwArgs /\ FwArgs # <<>>
      BY <1>1 DEF FromBcb, FwBcb, FwArgs
<1>3. Chosen(FwArgs) = {"wipe_cache"}
      BY DEF Chosen, FwArgs, Whole
<1>. QED  BY <1>2, <1>3 DEF Resolve

\* Every step keeps the strengthening of CacheSane, provided the control
\* block reads back, cache formats succeed and --wipe_cache fits
\* boot.recovery.
LEMMA CacheStep ==
    ASSUME ~BcbReadMayFail, ~FormatMayFail, ArgLen["wipe_cache"] < RecCap
    PROVE  CacheInv /\ [Next]_vars => CacheInv'
<1> SUFFICES ASSUME CacheInv, [Next]_vars PROVE CacheInv'
    OBVIOUS
<1>0. TypeOK'
      BY TypeStep DEF CacheInv
<1>. DEFINE FwSet == {"fw_write", "fw_writing", "fw_commit"}
            UfBcb == [FwBcb EXCEPT !.cmd = "update-firmware"]
<1>. USE <1>0 DEF CacheInv, RawPcs
\* Outside the hand-off the cache holds a filesystem.
<1>a. pc \notin RawPcs => cache = "fs"
      BY DEF TypeOK, RawPcs
<1>1. ASSUME NEW c \in Commands, SystemIssue(c) PROVE CacheInv'
      BY <1>1, <1>a DEF SystemIssue
<1>2. CASE ManualRecovery
      BY <1>2, <1>a DEF ManualRecovery
<1>3. CASE Crash
      <2>1. pc' = "boot" /\ pc # "boot" /\ UNCHANGED <<bcb, cache>>
            BY <1>3 DEF Crash
      <2>. QED  BY <2>1
<1>4. CASE Boot
      <2>1. pc = "boot" /\ pc' \in {"get_args", "system"} /\ UNCHANGED cache
            BY <1>4 DEF Boot
      <2>2. CASE cache = "raw"
            <3>1. bcb = FwBcb \/ bcb = UfBcb
                  BY <2>2
            <3>2. bcb' = FwBcb /\ pc' = "get_args"
                  BY <1>4, <3>1 DEF Boot, FwBcb
            <3>. QED  BY <2>1, <3>2
      <2>3. CASE cache = "fs"
            BY <2>1, <2>3
      <2>. QED  BY <2>2, <2>3 DEF TypeOK
<1>5. CASE GetArgs
      <2>1. argv' = Resolve(bcb, cmdFile)
            /\ bcb' = [cmd |-> "boot-recovery", marked |-> TRUE,
                       args |-> Persist(Resolve(bcb, cmdFile))]
            /\ pc = "get_args" /\ pc' = "dispatch" /\ UNCHANGED cache
            BY <1>5 DEF GetArgs
      <2>2. CASE cache = "raw"
            <3>1. bcb = FwBcb
                  BY <2>1, <2>2
            <3>2. argv' = FwArgs /\ bcb' = FwBcb
                  BY <2>1, <3>1, FwResolve, FwArgsKept DEF FwBcb, FwArgs
            <3>. QED  BY <2>1, <2>2, <3>2 DEF FwArgs
      <2>. QED  BY <2>1, <2>2 DEF TypeOK
<1>6. CASE Dispatch
      <2>1. pc = "dispatch" /\ UNCHANGED <<argv, bcb, cache>>
            BY <1>6 DEF Dispatch
      <2>2. CASE cache = "raw"
            <3>1. argv = FwArgs
                  BY <2>1, <2>2 DEF FwArgs
            <3>2. pc' = "wipe_cache"
                  BY <1>6, <3>1, FwResolve DEF Dispatch
            <3>. QED  BY <2>1, <2>2, <3>1, <3>2 DEF FwArgs
      <2>3. CASE cache = "fs"
            BY <1>6, <2>1, <2>3 DEF Dispatch
      <2>. QED  BY <2>2, <2>3 DEF TypeOK
<1>7. CASE Install \/ WipeData \/ AfterCmd
      BY <1>7, <1>a DEF Install, WipeData, AfterCmd
<1>8. CASE WipeDataCache \/ WipeCache
      <2>1. cache' = "fs" /\ pc' = "after_cmd"
            BY <1>8 DEF WipeDataCache, WipeCache, EraseCacheStep,
                        FormatOutcomes, FormatCache
      <2>. QED  BY <2>1
<1>9. CASE FinishClearBcb \/ FinishUnlink \/ Reboot
      BY <1>9, <1>a DEF FinishClearBcb, FinishUnlink, Reboot
<1>10. CASE MenuReboot \/ MenuOther \/ MenuInstall \/ MenuInstallDone
       BY <1>10, <1>a DEF MenuReboot, MenuOther, MenuInstall, MenuInstallDone
<1>11. CASE MenuWipeData \/ MenuWipeCache
       <2>1. cache' = "fs" /\ pc' \in {"fin_bcb", "fw_check"}
             BY <1>11, <1>a DEF MenuWipeData, MenuWipeCache, FormatOutcomes,
                               FormatCache
       <2>. QED  BY <2>1
<1>12. CASE FwCheck
       BY <1>12, <1>a DEF FwCheck, FwBcb
<1>13. CASE FwWriteStart
       <2>1. pc = "fw_write" /\ pc' = "fw_writing" /\ UNCHANGED bcb
             BY <1>13 DEF FwWriteStart
       <2>. QED  BY <2>1
<1>14. CASE FwWriteEnd
       <2>1. pc = "fw_writing" /\ UNCHANGED bcb
             /\ \/ pc' = "fw_commit" /\ UNCHANGED cache
                \/ pc' = "fin_bcb" /\ cache' = "fs"
             BY <1>14 DEF FwWriteEnd, FormatCache
       <2>. QED  BY <2>1
<1>15. CASE FwCommit
       <2>1. pc = "fw_commit" /\ pc' = "boot" /\ UNCHANGED cache
             /\ bcb' = [bcb EXCEPT !.cmd = "update-firmware"]
             BY <1>15 DEF FwCommit
       <2>. QED  BY <2>1
<1>16. CASE UNCHANGED vars
       BY <1>16 DEF vars
<1>. QED  BY <1>1, <1>2, <1>3, <1>4, <1>5, <1>6, <1>7, <1>8, <1>9, <1>10,
             <1>11, <1>12, <1>13, <1>14, <1>15, <1>16 DEF Next, DeviceStep, User

\* The firmware hand-off of recovery.c's OTA comment is safe: for every
\* bound on arguments and crashes, the main system never runs while the
\* cache partition holds a raw firmware image -- when the control block
\* reads back, cache formats succeed and --wipe_cache fits boot.recovery.
THEOREM CacheSaneHolds ==
    ASSUME ~BcbReadMayFail, ~FormatMayFail, ArgLen["wipe_cache"] < RecCap
    PROVE  Spec => []CacheSane
<1>1. Init => CacheInv
      BY InitType DEF Init, CacheInv, RawPcs
<1>2. CacheInv => CacheSane
      BY DEF CacheInv, CacheSane, RawPcs, TypeOK
<1>. QED  BY <1>1, <1>2, CacheStep, PTL DEF Spec

=============================================================================

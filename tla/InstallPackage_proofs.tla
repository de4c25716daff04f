----------------------- MODULE InstallPackage_proofs ------------------------
(***************************************************************************)
(* Proofs about InstallPackage: type correctness, that the firmware        *)
(* request recorded is the first one the parent has read however the two  *)
(* processes interleave over the pipe, and that SUCCESS means installed.   *)
(***************************************************************************)
EXTENDS InstallPackage, TLAPS, SequenceTheorems

\* Index of the next line fgets() returns: the child has written cpos
\* lines and the pipe holds the last Len(pipe) of them.
ReadPos == cpos - Len(pipe)

\* The indices among the first n lines of s that carry a firmware request.
FwIdx(s, n) == {i \in 1..n : s[i].verb = "firmware" /\ s[i].arg \in FwTypes}

\* i is the least element of S.
IsFirst(i, S) == i \in S /\ \A j \in S : i <= j

\* The pipe holds exactly the lines the child wrote and the parent has not
\* read, in order.
PipeInv ==
    /\ Len(pipe) <= cpos
    /\ \A k \in 1..Len(pipe) : pipe[k] = script[ReadPos + k]

\* The recorded request names the first firmware line read so far, and
\* there is one exactly when a request is recorded.
FwSeen ==
    IF fwReq = "none" THEN FwIdx(script, ReadPos) = {}
    ELSE \E i \in FwIdx(script, ReadPos) :
            IsFirst(i, FwIdx(script, ReadPos)) /\ script[i].arg = fwReq

\* The inductive invariant behind TypeOK and FirstFirmwareWins.
IInv ==
    /\ TypeOK
    /\ ipc \in {"start", "open", "verify", "binary", "fork"} => child = "none"
    /\ child = "none" => cpos = 0 /\ pipe = <<>> /\ fwReq = "none"
    /\ ipc # "done" => closes = 0
    /\ PipeInv
    /\ FwSeen

\* The inductive invariant behind SuccessMeansInstalled, when fork()
\* cannot fail.
SInv ==
    /\ IInv
    /\ child # "absent"
    /\ ipc \in {"read", "wait", "firmware"} => child # "none"
    /\ ipc \in {"wait", "firmware"} => pipe = <<>> /\ child # "running"
    /\ child = "exited" /\ exitCode = 0 => cpos = Len(script)
    /\ ipc = "firmware" => child = "exited" /\ exitCode = 0
    /\ ipc \in {"start", "open", "verify", "binary", "fork", "read", "wait",
                "firmware"} => fwSaved = "none"
    /\ ipc \in {"close", "done"} /\ result = "SUCCESS" =>
          \/ scriptRan
          \/ child = "exited" /\ exitCode = 0 /\ pipe = <<>> /\ fwSaved = fwReq

-----------------------------------------------------------------------------
(* Lemmas about the first firmware request.                                *)

\* FirstFw picks the least firmware index: when i is that index, FirstFw
\* is the type i names (the CHOOSE has exactly one candidate).
LEMMA FirstFwIsWitness ==
    ASSUME NEW s, NEW n, NEW i, IsFirst(i, FwIdx(s, n))
    PROVE  FirstFw(s, n) = s[i].arg
<1> DEFINE fw == FwIdx(s, n)
<1>1. \E x \in fw : \A j \in fw : x <= j
  BY DEF IsFirst
<1>2. fw \subseteq Nat
  BY DEF FwIdx
<1>3. ASSUME NEW x \in fw, \A j \in fw : x <= j
      PROVE  x = i
  BY <1>2, <1>3 DEF IsFirst
<1>4. (CHOOSE x \in fw : \A j \in fw : x <= j) = i
  BY <1>1, <1>3, Zenon
<1> QED
  BY <1>4 DEF FirstFw, FwIdx, IsFirst

\* No firmware line among the first n: FirstFw is "none".
LEMMA FirstFwNone ==
    ASSUME NEW s, NEW n, FwIdx(s, n) = {}
    PROVE  FirstFw(s, n) = "none"
BY DEF FirstFw, FwIdx

\* Reading one more line adds its index when it is a firmware request.
LEMMA FwIdxStep ==
    ASSUME NEW s, NEW n \in Nat
    PROVE  FwIdx(s, n + 1) =
              FwIdx(s, n) \cup
              (IF s[n + 1].verb = "firmware" /\ s[n + 1].arg \in FwTypes
               THEN {n + 1} ELSE {})
BY DEF FwIdx

\* FwSeen pins the recorded request to FirstFw.
LEMMA FwSeenFirst ==
    ASSUME FwSeen
    PROVE  FirstFirmwareWins
<1>1. CASE fwReq = "none"
  BY <1>1, FirstFwNone DEF FwSeen, FirstFirmwareWins, ReadPos
<1>2. CASE fwReq # "none"
  <2>1. PICK i \in FwIdx(script, ReadPos) :
           IsFirst(i, FwIdx(script, ReadPos)) /\ script[i].arg = fwReq
    BY <1>2 DEF FwSeen
  <2> QED
    BY <2>1, FirstFwIsWitness DEF FirstFirmwareWins, ReadPos
<1> QED
  BY <1>1, <1>2

-----------------------------------------------------------------------------
(* Type correctness and the first firmware request.                        *)

LEMMA InitIInv == Init => IInv
<1> SUFFICES ASSUME Init PROVE IInv
  OBVIOUS
<1>0. script \in Seq(Line) /\ pipe \in Seq(Line) /\ Len(script) = 0 /\ Len(pipe) = 0
  BY DEF Init
<1>a. cpos \in 0..Len(script) /\ Len(pipe) <= PipeCap
  <2>1. cpos = 0
    BY DEF Init
  <2> QED
    BY <1>0, <2>1, InstallAssumption
<1>b. ipc \in {"start", "open", "verify", "binary", "fork", "read", "wait",
               "firmware", "script", "close", "done", "crashed", "off"}
  BY DEF Init
<1>c. result \in Results /\ zip \in {"none", "open", "closed"}
      /\ closes \in 0..1 /\ child \in {"none", "running", "exited", "absent"}
  BY DEF Init, Results
<1>d. exitCode \in {0, 1} /\ fwReq \in FwTypes \cup {"none"}
      /\ fwSaved \in FwTypes \cup {"none"} /\ scriptRan \in BOOLEAN
  BY DEF Init
<1>1. TypeOK
  BY <1>0, <1>a, <1>b, <1>c, <1>d DEF TypeOK
<1>2. ReadPos = 0
  <2>1. ReadPos = cpos
    BY <1>0, <1>1 DEF ReadPos, TypeOK
  <2> QED
    BY <2>1 DEF Init
<1>3. FwIdx(script, 0) = {}
  BY DEF FwIdx
<1> QED
  BY <1>1, <1>2, <1>3 DEF Init, IInv, PipeInv, FwSeen

\* A step that leaves the child's output, the pipe and the recorded
\* request alone keeps PipeInv and FwSeen.
LEMMA ChannelKept ==
    ASSUME PipeInv, FwSeen, UNCHANGED <<script, cpos, pipe, fwReq>>
    PROVE  PipeInv' /\ FwSeen'
BY DEF PipeInv, FwSeen, ReadPos

\* The child writes its next line into the pipe.
LEMMA ChildWriteIInv ==
    ASSUME IInv, ChildWrite
    PROVE  IInv'
<1> USE DEF IInv
<1>1. script \in Seq(Line) /\ cpos \in 0..Len(script) /\ pipe \in Seq(Line)
  BY DEF TypeOK
<1>2. TypeOK'
  BY <1>1, InstallAssumption DEF TypeOK, ChildWrite
<1>3. ReadPos' = ReadPos
  BY <1>1 DEF ChildWrite, ReadPos
<1>4. PipeInv'
  <2>1. Len(pipe') = Len(pipe) + 1 /\ Len(pipe') <= cpos'
    BY <1>1 DEF ChildWrite, PipeInv
  <2>2. ASSUME NEW k \in 1..Len(pipe')
        PROVE  pipe'[k] = script'[ReadPos' + k]
    <3>1. CASE k <= Len(pipe)
      BY <1>1, <1>3, <3>1 DEF ChildWrite, PipeInv
    <3>2. CASE k = Len(pipe) + 1
      BY <1>1, <1>3, <3>2 DEF ChildWrite, ReadPos
    <3> QED
      BY <1>1, <2>1, <3>1, <3>2
  <2> QED
    BY <2>1, <2>2 DEF PipeInv
<1>5. FwSeen'
  BY <1>3 DEF ChildWrite, FwSeen
<1> QED
  BY <1>2, <1>4, <1>5 DEF ChildWrite

\* The parent reads the line at the head of the pipe.
LEMMA ReadLineIInv ==
    ASSUME IInv, ReadLine
    PROVE  IInv'
<1> USE DEF IInv
<1>1. script \in Seq(Line) /\ cpos \in 0..Len(script) /\ pipe \in Seq(Line)
      /\ fwReq \in FwTypes \cup {"none"}
  BY DEF TypeOK
<1> DEFINE r == ReadPos
           l == Head(pipe)
<1>2. r \in Nat /\ r + 1 <= Len(script) /\ Len(pipe) >= 1
  BY <1>1 DEF ReadLine, PipeInv, ReadPos
<1>3. l = script[r + 1]
  BY <1>1, <1>2 DEF PipeInv, ReadPos
<1>4. ReadPos' = r + 1
  BY <1>1, <1>2 DEF ReadLine, ReadPos
<1>5. TypeOK'
  <2>0. Len(pipe) <= PipeCap /\ pipe' = Tail(pipe)
    BY DEF TypeOK, ReadLine
  <2>a. pipe # <<>>
    BY DEF ReadLine
  <2>b. Tail(pipe) \in Seq(Line) /\ Len(Tail(pipe)) = Len(pipe) - 1
    BY <1>1, <2>a, HeadTailProperties
  <2>c. pipe' \in Seq(Line)
    BY <2>0, <2>b, Zenon
  <2>d. Len(pipe') <= PipeCap
    <3>1. Len(pipe') = Len(pipe) - 1
      BY <2>0, <2>b
    <3>2. Len(pipe) \in Nat /\ PipeCap \in Nat
      BY <1>1, InstallAssumption
    <3> QED
      BY <3>1, <3>2, <2>0
  <2>1. pipe' \in Seq(Line) /\ Len(pipe') <= PipeCap
    BY <2>c, <2>d
  <2>2. fwReq' \in FwTypes \cup {"none"}
    BY <1>1, <1>2 DEF ReadLine, Records
  <2>3. ipc' \in {"read", "crashed"}
    BY DEF ReadLine
  <2>4. UNCHANGED <<result, zip, closes, child, script, cpos, exitCode,
                    fwSaved, scriptRan>>
    BY DEF ReadLine
  <2> QED
    BY <2>1, <2>2, <2>3, <2>4 DEF TypeOK
<1>6. PipeInv'
  BY <1>1, <1>2, <1>4 DEF ReadLine, PipeInv, ReadPos
<1>7. FwSeen'
  <2> DEFINE isFw == l.verb = "firmware" /\ l.arg \in FwTypes
  <2>1. FwIdx(script, r + 1) = FwIdx(script, r) \cup (IF isFw THEN {r + 1} ELSE {})
    BY <1>2, <1>3, FwIdxStep
  <2>2. \A j \in FwIdx(script, r) : j <= r
    BY <1>2 DEF FwIdx
  <2>3. CASE fwReq = "none" /\ isFw
    <3>1. fwReq' = l.arg /\ fwReq' # "none"
      BY <2>3, InstallAssumption DEF ReadLine, Records
    <3>2. FwIdx(script, r + 1) = {r + 1}
      BY <2>1, <2>3 DEF FwSeen
    <3>3. IsFirst(r + 1, FwIdx(script, r + 1))
      BY <1>2, <3>2 DEF IsFirst
    <3> QED
      BY <1>3, <1>4, <3>1, <3>2, <3>3 DEF ReadLine, FwSeen
  <2>4. CASE fwReq = "none" /\ ~isFw
    BY <1>4, <2>1, <2>4 DEF ReadLine, Records, FwSeen
  <2>5. CASE fwReq # "none"
    <3>1. fwReq' = fwReq
      BY <2>5 DEF ReadLine, Records
    <3>2. PICK i \in FwIdx(script, r) :
             IsFirst(i, FwIdx(script, r)) /\ script[i].arg = fwReq
      BY <2>5 DEF FwSeen
    <3>3. IsFirst(i, FwIdx(script, r + 1))
      BY <1>2, <2>1, <2>2, <3>2 DEF IsFirst, FwIdx
    <3> QED
      BY <1>4, <2>1, <2>5, <3>1, <3>2, <3>3 DEF ReadLine, FwSeen
  <2> QED
    BY <2>3, <2>4, <2>5
<1> QED
  BY <1>5, <1>6, <1>7 DEF ReadLine

\* Every step keeps IInv.
LEMMA IInvStep == IInv /\ [Next]_vars => IInv'
<1> SUFFICES ASSUME IInv, [Next]_vars PROVE IInv'
  OBVIOUS
<1> USE DEF IInv
<1>a. TypeOK
  OBVIOUS
<1>1. CASE PreChecks
  BY <1>1, ChannelKept DEF PreChecks, Return, TypeOK, Results
<1>2. CASE OpenArchive
  BY <1>2, ChannelKept DEF OpenArchive, Return, TypeOK, Results
<1>3. CASE Verify
  BY <1>3, ChannelKept DEF Verify, Return, TypeOK, Results
<1>4. CASE FindBinary
  BY <1>4, ChannelKept DEF FindBinary, TypeOK, Results
<1>5. CASE Fork
  <2>1. cpos = 0 /\ pipe = <<>> /\ fwReq = "none"
    BY <1>5 DEF Fork
  <2>2. CASE child' = "running" /\ \E s \in ChildScripts : script' = s
    <3>1. script' \in Seq(Line)
      BY <2>2, InstallAssumption
    <3>0. cpos' = 0 /\ Len(pipe') = 0
      BY <1>5, <2>1 DEF Fork
    <3>2. ReadPos' = 0
      BY <3>0 DEF ReadPos
    <3>3. FwIdx(script', 0) = {}
      BY DEF FwIdx
    <3>4. TypeOK'
      BY <1>5, <2>1, <2>2, <3>1 DEF Fork, TypeOK
    <3> QED
      BY <1>5, <2>1, <2>2, <3>2, <3>3, <3>4 DEF Fork, PipeInv, FwSeen
  <2>3. CASE ForkMayFail /\ child' = "absent" /\ UNCHANGED script
    BY <1>5, <2>3, ChannelKept DEF Fork, TypeOK, Results
  <2> QED
    BY <1>5, <2>2, <2>3 DEF Fork
<1>6. CASE ReadLine
  BY <1>6, ReadLineIInv
<1>7. CASE ReadEOF
  BY <1>7, ChannelKept DEF ReadEOF, TypeOK, Results
<1>8. CASE WaitChild
  BY <1>8, ChannelKept DEF WaitChild, TypeOK, Results
<1>9. CASE FirmwareUpdate
  BY <1>9, ChannelKept DEF FirmwareUpdate, TypeOK, Results
<1>10. CASE UpdateScript
  BY <1>10, ChannelKept DEF UpdateScript, TypeOK, Results
<1>11. CASE CloseArchive
  BY <1>11, ChannelKept DEF CloseArchive, TypeOK, Results
<1>12. CASE ChildWrite
  BY <1>12, ChildWriteIInv
<1>13. CASE ChildExit
  BY <1>13, ChannelKept DEF ChildExit, TypeOK, Results
<1>14. CASE PowerCycle
  BY <1>14, ChannelKept DEF PowerCycle, TypeOK, Results
<1>15. CASE UNCHANGED vars
  BY <1>15, ChannelKept DEF vars, TypeOK, Results
<1> QED
  BY <1>1, <1>2, <1>3, <1>4, <1>5, <1>6, <1>7, <1>8, <1>9, <1>10, <1>11,
     <1>12, <1>13, <1>14, <1>15 DEF Next, Parent, Child

\* install_package() and its update binary only reach well-typed states.
THEOREM TypeCorrect == Spec => []TypeOK
<1>1. IInv => TypeOK
  BY DEF IInv
<1> QED
  BY <1>1, InitIInv, IInvStep, PTL DEF Spec

\* FirstFirmwareWins holds in every reachable state, for every pipe
\* capacity and every set of update binaries: the firmware type
\* try_update_binary() records is that of the first "firmware" line the
\* parent has read, whatever the interleaving of writes and reads.
THEOREM FirstFirmwareWinsHolds == Spec => []FirstFirmwareWins
<1>1. IInv => FirstFirmwareWins
  BY FwSeenFirst DEF IInv
<1> QED
  BY <1>1, InitIInv, IInvStep, PTL DEF Spec

-----------------------------------------------------------------------------
(* SUCCESS means installed.                                                *)

\* The conjuncts SInv adds to IInv.
SExtra ==
    /\ child # "absent"
    /\ ipc \in {"read", "wait", "firmware"} => child # "none"
    /\ ipc \in {"wait", "firmware"} => pipe = <<>> /\ child # "running"
    /\ child = "exited" /\ exitCode = 0 => cpos = Len(script)
    /\ ipc = "firmware" => child = "exited" /\ exitCode = 0
    /\ ipc \in {"start", "open", "verify", "binary", "fork", "read", "wait",
                "firmware"} => fwSaved = "none"
    /\ ipc \in {"close", "done"} /\ result = "SUCCESS" =>
          \/ scriptRan
          \/ child = "exited" /\ exitCode = 0 /\ pipe = <<>> /\ fwSaved = fwReq

LEMMA SInvSplit == SInv <=> IInv /\ SExtra
BY DEF SInv, SExtra

LEMMA InitSInv == ASSUME ~ForkMayFail PROVE Init => SInv
<1> SUFFICES ASSUME Init PROVE SInv
  OBVIOUS
<1>1. SExtra
  BY DEF Init, SExtra
<1> QED
  BY <1>1, InitIInv, SInvSplit

\* When fork() cannot fail, every step keeps SInv.
LEMMA SInvStep ==
    ASSUME ~ForkMayFail
    PROVE  SInv /\ [Next]_vars => SInv'
<1> SUFFICES ASSUME SInv, [Next]_vars PROVE SExtra'
  BY IInvStep DEF SInv, SExtra
<1>0. IInv /\ SExtra /\ TypeOK
  BY SInvSplit DEF IInv
<1> USE <1>0
<1>1. CASE PreChecks
  BY <1>1 DEF PreChecks, Return, SExtra
<1>2. CASE OpenArchive
  BY <1>2 DEF OpenArchive, Return, SExtra
<1>3. CASE Verify
  BY <1>3 DEF Verify, Return, SExtra
<1>4. CASE FindBinary
  BY <1>4 DEF FindBinary, SExtra
<1>5. CASE Fork
  BY <1>5 DEF Fork, SExtra
<1>6. CASE ReadLine
  BY <1>6 DEF ReadLine, SExtra
<1>7. CASE ReadEOF
  BY <1>7 DEF ReadEOF, SExtra
<1>8. CASE WaitChild
  <2>1. child = "exited"
    BY <1>8 DEF WaitChild, SExtra, TypeOK
  <2> QED
    BY <1>8, <2>1 DEF WaitChild, SExtra
<1>9. CASE FirmwareUpdate
  BY <1>9 DEF FirmwareUpdate, SExtra
<1>10. CASE UpdateScript
  BY <1>10 DEF UpdateScript, SExtra
<1>11. CASE CloseArchive
  BY <1>11 DEF CloseArchive, SExtra
<1>12. CASE ChildWrite
  BY <1>12 DEF ChildWrite, SExtra
<1>13. CASE ChildExit
  BY <1>13 DEF ChildExit, SExtra
<1>14. CASE PowerCycle
  BY <1>14 DEF PowerCycle, SExtra
<1>15. CASE UNCHANGED vars
  BY <1>15 DEF vars, SExtra
<1> QED
  BY <1>1, <1>2, <1>3, <1>4, <1>5, <1>6, <1>7, <1>8, <1>9, <1>10, <1>11,
     <1>12, <1>13, <1>14, <1>15 DEF Next, Parent, Child

\* When fork() cannot fail, install_package() returns INSTALL_SUCCESS only
\* after the update script ran, or after the update binary exited with
\* status 0 and the first firmware request among all its lines was handed
\* to remember_firmware_update() (the parent drained the pipe first).
THEOREM SuccessMeansInstalledHolds ==
    ASSUME ~ForkMayFail
    PROVE  Spec => []SuccessMeansInstalled
<1>1. SInv => SuccessMeansInstalled
  <2> SUFFICES ASSUME SInv, ipc = "done", result = "SUCCESS", ~scriptRan
               PROVE  child = "exited" /\ exitCode = 0
                      /\ fwSaved = FirstFw(script, Len(script))
    BY DEF SuccessMeansInstalled
  <2>1. child = "exited" /\ exitCode = 0 /\ Len(pipe) = 0 /\ fwSaved = fwReq
    BY SInvSplit DEF SExtra
  <2>2. cpos = Len(script) /\ cpos \in Nat
    BY <2>1, SInvSplit DEF SExtra, IInv, TypeOK
  <2>3. ReadPos = Len(script)
    BY <2>1, <2>2 DEF ReadPos
  <2>4. FirstFirmwareWins
    BY SInvSplit, FwSeenFirst DEF IInv
  <2> QED
    BY <2>1, <2>3, <2>4 DEF FirstFirmwareWins, ReadPos
<1> QED
  BY <1>1, InitSInv, SInvStep, PTL DEF Spec

=============================================================================

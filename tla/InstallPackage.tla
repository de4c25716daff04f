--------------------------- MODULE InstallPackage ---------------------------
(***************************************************************************)
(* One call of install_package() (src/install.c): the checks before the    *)
(* archive is opened, signature verification, the update binary run as a   *)
(* child process that talks to recovery over a pipe, the firmware request  *)
(* it may make, the fall-back to the update script, and the archive close. *)
(* The parent (recovery) and the child (update-binary) are two processes;  *)
(* the pipe between them holds at most PipeCap lines, so a child that has  *)
(* more to say blocks until the parent reads.                              *)
(***************************************************************************)
EXTENDS Naturals, Sequences

CONSTANTS
    FwTypes,       \* partitions a "firmware" line may name ("radio", "hboot")
    ChildScripts,  \* the line sequences an update binary may write
    PipeCap,       \* lines the pipe buffer holds before write() blocks
    ForkMayFail    \* whether fork() may return -1

\* The verbs of the protocol of try_update_binary(); "blank" is a line
\* strtok() finds no token in, "other" one it does not know.
Verbs == {"progress", "set_progress", "firmware", "ui_print", "blank", "other"}

\* A protocol line: its verb and its first argument ("none" when the line
\* ends after the verb).
Line == [verb : Verbs, arg : FwTypes \cup {"given", "none"}]

ASSUME InstallAssumption ==
    /\ ChildScripts \subseteq Seq(Line)
    /\ PipeCap \in Nat \ {0}
    /\ ForkMayFail \in BOOLEAN
    /\ "none" \notin FwTypes /\ "given" \notin FwTypes

Results == {"SUCCESS", "ERROR", "CORRUPT"}

VARIABLES
    ipc,       \* where install_package() is
    result,    \* the result it will return
    zip,       \* the ZipArchive: "none", "open" or "closed"
    closes,    \* calls of mzCloseZipArchive()
    child,     \* the update binary: "none", "running", "exited", or "absent" when fork() failed
    script,    \* the lines this update binary writes
    cpos,      \* how many of them it has written
    pipe,      \* lines written and not yet read by fgets()
    exitCode,  \* the child's exit status, 0 or 1
    fwReq,     \* firmware_type recorded from the pipe, or "none"
    fwSaved,   \* what remember_firmware_update() stored, or "none"
    scriptRan  \* the update script was executed without error

vars == <<ipc, result, zip, closes, child, script, cpos, pipe, exitCode,
          fwReq, fwSaved, scriptRan>>

TypeOK ==
    /\ ipc \in {"start", "open", "verify", "binary", "fork", "read", "wait",
                "firmware", "script", "close", "done", "crashed", "off"}
    /\ result \in Results
    /\ zip \in {"none", "open", "closed"}
    /\ closes \in 0..1
    /\ child \in {"none", "running", "exited", "absent"}
    /\ script \in Seq(Line)
    /\ cpos \in 0..Len(script)
    /\ pipe \in Seq(Line) /\ Len(pipe) <= PipeCap
    /\ exitCode \in {0, 1}
    /\ fwReq \in FwTypes \cup {"none"}
    /\ fwSaved \in FwTypes \cup {"none"}
    /\ scriptRan \in BOOLEAN

\* install_package() returns r at once.
Return(r) == result' = r /\ ipc' = "done"

-----------------------------------------------------------------------------
(* install_package() and try_update_binary() before the child runs.        *)

\* Mount the root, translate the path, load /res/keys: any failure is
\* INSTALL_CORRUPT before the archive is opened.
PreChecks ==
    /\ ipc = "start"
    /\ \/ ipc' = "open" /\ UNCHANGED result
       \/ Return("CORRUPT")
    /\ UNCHANGED <<zip, closes, child, script, cpos, pipe, exitCode, fwReq,
                   fwSaved, scriptRan>>

\* mzOpenZipArchive().
OpenArchive ==
    /\ ipc = "open"
    /\ \/ zip' = "open" /\ ipc' = "verify" /\ UNCHANGED result
       \/ Return("CORRUPT") /\ UNCHANGED zip
    /\ UNCHANGED <<closes, child, script, cpos, pipe, exitCode, fwReq,
                   fwSaved, scriptRan>>

\* verify_jar_signature(): on failure install_package() returns without
\* closing the archive.
Verify ==
    /\ ipc = "verify"
    /\ \/ ipc' = "binary" /\ UNCHANGED result
       \/ Return("CORRUPT")
    /\ UNCHANGED <<zip, closes, child, script, cpos, pipe, exitCode, fwReq,
                   fwSaved, scriptRan>>

\* try_update_binary(): no update-binary entry is INSTALL_CORRUPT, which
\* handle_update_package() answers with the update script; a failed
\* creat() or extraction returns 1 (INSTALL_ERROR).
FindBinary ==
    /\ ipc = "binary"
    /\ \/ result' = "CORRUPT" /\ ipc' = "script"
       \/ result' = "ERROR" /\ ipc' = "close"
       \/ ipc' = "fork" /\ UNCHANGED result
    /\ UNCHANGED <<zip, closes, child, script, cpos, pipe, exitCode, fwReq,
                   fwSaved, scriptRan>>

\* pipe(); fork(); the parent closes the write end and starts reading.  A
\* failed fork() leaves no process holding the write end.
Fork ==
    /\ ipc = "fork"
    /\ \/ /\ child' = "running"
          /\ \E s \in ChildScripts : script' = s
       \/ /\ ForkMayFail
          /\ child' = "absent"
          /\ UNCHANGED script
    /\ ipc' = "read"
    /\ UNCHANGED <<result, zip, closes, cpos, pipe, exitCode, fwReq, fwSaved,
                   scriptRan>>

-----------------------------------------------------------------------------
(* The update binary.                                                      *)

\* It writes its next line; write() blocks while the pipe is full.
ChildWrite ==
    /\ child = "running"
    /\ cpos < Len(script)
    /\ Len(pipe) < PipeCap
    /\ pipe' = Append(pipe, script[cpos + 1])
    /\ cpos' = cpos + 1
    /\ UNCHANGED <<ipc, result, zip, closes, child, script, exitCode, fwReq,
                   fwSaved, scriptRan>>

\* It exits, closing its end of the pipe: with 0 after its last line, or
\* with a failure whenever it is not blocked in write() (execv() failing
\* is _exit(-1)).
ChildExit ==
    /\ child = "running"
    /\ cpos = Len(script) \/ Len(pipe) < PipeCap
    /\ \E code \in {0, 1} :
          /\ code = 0 => cpos = Len(script)
          /\ exitCode' = code
    /\ child' = "exited"
    /\ UNCHANGED <<ipc, result, zip, closes, script, cpos, pipe, fwReq,
                   fwSaved, scriptRan>>

-----------------------------------------------------------------------------
(* The parent's read loop and what follows it.                             *)

\* A "progress" or "set_progress" line without its numbers hands NULL to
\* strtof(), which kills the recovery process.
Fatal(l) == l.verb \in {"progress", "set_progress"} /\ l.arg = "none"

\* Variant: every "firmware" line replaces the recorded one.
RecordsEvery(l) == l.verb = "firmware" /\ l.arg \in FwTypes

\* A "firmware" line with a type and a file name, while none is recorded.
Records(l) == l.verb = "firmware" /\ l.arg \in FwTypes /\ fwReq = "none"

\* One fgets() and the command it holds.
ReadLine ==
    /\ ipc = "read"
    /\ pipe # <<>>
    /\ pipe' = Tail(pipe)
    /\ ipc' = IF Fatal(Head(pipe)) THEN "crashed" ELSE "read"
    /\ fwReq' = IF Records(Head(pipe)) THEN Head(pipe).arg ELSE fwReq
    /\ UNCHANGED <<result, zip, closes, child, script, cpos, exitCode,
                   fwSaved, scriptRan>>

\* Variant: waitpid() called before the pipe is drained.
ReadEOFBeforeDrain ==
    /\ ipc = "read"
    /\ ipc' = "wait"
    /\ UNCHANGED <<result, zip, closes, child, script, cpos, pipe, exitCode,
                   fwReq, fwSaved, scriptRan>>

\* fgets() returns NULL: the pipe is empty and no process holds its write
\* end any more.
ReadEOF ==
    /\ ipc = "read"
    /\ pipe = <<>>
    /\ child # "running"
    /\ ipc' = "wait"
    /\ UNCHANGED <<result, zip, closes, child, script, cpos, pipe, exitCode,
                   fwReq, fwSaved, scriptRan>>

\* Variant: the exit status is not tested.
WaitChildNoStatus ==
    /\ ipc = "wait"
    /\ child # "running"
    /\ \/ fwReq = "none" /\ result' = "SUCCESS" /\ ipc' = "close"
       \/ fwReq # "none" /\ ipc' = "firmware" /\ UNCHANGED result
    /\ UNCHANGED <<zip, closes, child, script, cpos, pipe, exitCode, fwReq,
                   fwSaved, scriptRan>>

\* waitpid() blocks until the child has exited, then the status is tested.
\* After a failed fork() waitpid(-1) has no child of its own to wait for:
\* status is never written (or is another child's), so either branch.
WaitChild ==
    /\ ipc = "wait"
    /\ child # "running"
    /\ \E ok \in (IF child = "exited" THEN {exitCode = 0} ELSE BOOLEAN) :
          \/ ok /\ fwReq = "none" /\ result' = "SUCCESS" /\ ipc' = "close"
          \/ ok /\ fwReq # "none" /\ ipc' = "firmware" /\ UNCHANGED result
          \/ ~ok /\ result' = "ERROR" /\ ipc' = "close"
    /\ UNCHANGED <<zip, closes, child, script, cpos, pipe, exitCode, fwReq,
                   fwSaved, scriptRan>>

\* handle_firmware_update(): find the entry or stat() the file, read it,
\* and remember_firmware_update(); any failure is INSTALL_ERROR.
FirmwareUpdate ==
    /\ ipc = "firmware"
    /\ \/ fwSaved' = fwReq /\ result' = "SUCCESS"
       \/ result' = "ERROR" /\ UNCHANGED fwSaved
    /\ ipc' = "close"
    /\ UNCHANGED <<zip, closes, child, script, cpos, pipe, exitCode, fwReq,
                   scriptRan>>

\* handle_update_package() after INSTALL_CORRUPT: no update-script entry is
\* INSTALL_CORRUPT; register_package_root(), reading, parsing or running
\* the script failing is INSTALL_ERROR.
UpdateScript ==
    /\ ipc = "script"
    /\ \/ result' = "CORRUPT" /\ UNCHANGED scriptRan
       \/ result' = "ERROR" /\ UNCHANGED scriptRan
       \/ result' = "SUCCESS" /\ scriptRan' = TRUE
    /\ ipc' = "close"
    /\ UNCHANGED <<zip, closes, child, script, cpos, pipe, exitCode, fwReq,
                   fwSaved>>

\* Variant: the archive is closed by handle_update_package() as well.
CloseArchiveTwice ==
    /\ ipc = "close"
    /\ zip' = "closed"
    /\ closes' = closes + 2
    /\ ipc' = "done"
    /\ UNCHANGED <<result, child, script, cpos, pipe, exitCode, fwReq,
                   fwSaved, scriptRan>>

\* install_package(): mzCloseZipArchive(), return the status.
CloseArchive ==
    /\ ipc = "close"
    /\ zip' = "closed"
    /\ closes' = closes + 1
    /\ ipc' = "done"
    /\ UNCHANGED <<result, child, script, cpos, pipe, exitCode, fwReq,
                   fwSaved, scriptRan>>

\* The operator power-cycles the device (a hung update binary is not timed
\* out); recovery then starts again from the control block.
PowerCycle ==
    /\ ipc \notin {"done", "crashed", "off"}
    /\ ipc' = "off"
    /\ UNCHANGED <<result, zip, closes, child, script, cpos, pipe, exitCode,
                   fwReq, fwSaved, scriptRan>>

Init ==
    /\ ipc = "start"
    /\ result = "SUCCESS"
    /\ zip = "none"
    /\ closes = 0
    /\ child = "none"
    /\ script = <<>>
    /\ cpos = 0
    /\ pipe = <<>>
    /\ exitCode = 0
    /\ fwReq = "none"
    /\ fwSaved = "none"
    /\ scriptRan = FALSE

\* The steps of recovery's install thread.
Parent ==
    \/ PreChecks \/ OpenArchive \/ Verify \/ FindBinary \/ Fork \/ ReadLine
    \/ ReadEOF \/ WaitChild \/ FirmwareUpdate \/ UpdateScript \/ CloseArchive

\* The steps of the update binary.
Child == ChildWrite \/ ChildExit

Next == Parent \/ Child \/ PowerCycle

\* Both processes run while they can (the scheduler is fair to each, and
\* an update binary terminates); nobody owes a power cycle.
Spec == Init /\ [][Next]_vars /\ WF_vars(Parent) /\ WF_vars(Child)

-----------------------------------------------------------------------------
(* Properties.                                                             *)

\* The type of the first "firmware" line with a type and a file name among
\* the first n lines of s, or "none".
FirstFw(s, n) ==
    LET fw == {i \in 1..n : s[i].verb = "firmware" /\ s[i].arg \in FwTypes}
    IN  IF fw = {} THEN "none"
        ELSE s[CHOOSE i \in fw : \A j \in fw : i <= j].arg

\* First request wins (the "忽略重复固件更新" branch of try_update_binary()):
\* the firmware recorded is always the first one among the lines the parent
\* has read so far, however the child's writes and the parent's reads
\* interleave through the bounded pipe.
FirstFirmwareWins == fwReq = FirstFw(script, cpos - Len(pipe))

\* install_package() reports SUCCESS only when the update script ran, or
\* the update binary exited with status 0 and the firmware it asked for
\* first, if any, was handed to remember_firmware_update().
SuccessMeansInstalled ==
    (ipc = "done" /\ result = "SUCCESS") =>
        \/ scriptRan
        \/ /\ child = "exited"
           /\ exitCode = 0
           /\ fwSaved = FirstFw(script, Len(script))

\* The install returns (or the process dies, or the operator power-cycles):
\* the parent drains the pipe before waitpid(), so a child blocked on a
\* full pipe cannot leave both waiting on each other.
InstallReturns == <>(ipc \in {"done", "crashed", "off"})

=============================================================================

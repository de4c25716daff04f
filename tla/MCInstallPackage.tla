-------------------------- MODULE MCInstallPackage --------------------------
(* Small instances of InstallPackage for TLC.                              *)
EXTENDS InstallPackage

\* Protocol lines.
L(v, a) == [verb |-> v, arg |-> a]

\* Well-formed update binaries: one asks for two firmware images (the
\* second is to be ignored) among progress lines, one only prints.
MCScripts ==
    { << L("progress", "given"), L("firmware", "radio"),
         L("firmware", "hboot"), L("set_progress", "given") >>,
      << L("ui_print", "none"), L("blank", "none"), L("other", "none") >> }

\* The same, and a binary that writes "progress" with no numbers and a
\* "firmware" line with no file.
MCFaultyScripts ==
    MCScripts \cup
    { << L("firmware", "none"), L("firmware", "hboot"), L("progress", "none") >> }

=============================================================================

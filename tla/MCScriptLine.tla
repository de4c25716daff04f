---------------------------- MODULE MCScriptLine ----------------------------
(* Small instances of ScriptLine for TLC.                                  *)
EXTENDS ScriptLine, SequencesExt

\* Every script of at most four characters.
MCBuffers == BoundedSeq(Chars, 4) \ {<<>>}

\* Scripts whose last line ends with a newline, as an editor saves them.
MCTerminated == {b \in MCBuffers : b[Len(b)] = "\n"}

\* Command numbers from the first line to past the last.
MCNums == 1..4

=============================================================================

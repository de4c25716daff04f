----------------------------- MODULE MCDirEnum -----------------------------
(* Small instances of DirEnum: names over ".", "a" and "z", the browser    *)
(* asking for ".z".                                                        *)
EXTENDS DirEnum

MCExt == <<".", "z">>

(* ".", "..", and names that are hidden, too short, of another ending or   *)
(* with the extension.                                                     *)
Dot == [name |-> <<".">>, isdir |-> TRUE]
DotDot == [name |-> <<".", ".">>, isdir |-> TRUE]
MCNames == {<<"a", ".", "z">>, <<"z">>, <<".", "z">>, <<"a">>, <<"z", ".", "z">>}
MCEntries == {Dot, DotDot} \cup [name : MCNames, isdir : BOOLEAN]

Distinct(s) == \A j, k \in 1..Len(s) : j # k => s[j].name # s[k].name

(* Every directory of up to three entries besides "." and "..".           *)
MCInitDirs ==
    {<<Dot, DotDot>> \o s :
        s \in {s \in BoundedSeq([name : MCNames, isdir : BOOLEAN], 3) : Distinct(s)}}

(* Directories of up to two entries, for the runs where the host writes.   *)
MCSmallDirs ==
    {<<Dot, DotDot>> \o s :
        s \in {s \in BoundedSeq([name : MCNames, isdir : BOOLEAN], 2) : Distinct(s)}}

(* The reference listing MatchingOf agrees with SelectSeq, the filter of   *)
(* the Sequences library, on every directory of the runs and both modes.   *)
ASSUME \A d \in MCInitDirs, m \in {"files", "dirs"} :
           MatchingOf(d, m) = SelectSeq(d, LAMBDA e : WantedIn(m, e))
=============================================================================

------------------------------ MODULE DirEnum ------------------------------
(***************************************************************************)
(* enumerate_files_in_directory() of extra.c: the listing behind the       *)
(* sdcard file browser.  It opens one directory and reads it twice: the    *)
(* first readdir() pass counts the entries that pass the filter, the array *)
(* is then malloc'd for that many names plus a NULL terminator, and the    *)
(* second pass, after rewinddir(), fills it.  Between and during the two   *)
(* passes the card is not the program's alone: the host writes it through  *)
(* USB mass storage (umstgl.sh exports it while recovery keeps it mounted) *)
(* and a card pulled out makes readdir() fail.  The storage actions model  *)
(* that; StableSpec is the same function on a directory nobody touches.    *)
(*                                                                         *)
(* A name is a sequence of characters; the array holds the names only (the *)
(* code stores directory ++ name, with a "/" for directories).             *)
(***************************************************************************)
EXTENDS Integers, Sequences, SequencesExt, Ranks

CONSTANTS
    Entries,     \* the directory entries that can exist: [name, isdir]
    InitDirs,    \* the directory contents at opendir(), in readdir() order
    Ext,         \* the extension the file browser asks for (".zip", ".bmp")
    MaxCreates,  \* bound on the entries the host creates during one call
    MaxDeletes,  \* bound on the entries the host deletes during one call
    MaxFails,    \* bound on readdir() calls that fail (card removed, EIO)
    NULL,        \* the terminator files[total] = NULL
    Garbage      \* a slot of the malloc'd array never written

\* Every directory holds "." and "..", so some entry exists.
ASSUME DirEnumAssumption ==
    /\ Entries # {}
    /\ \A e \in Entries : e.name \in Seq(STRING) /\ e.name # <<>> /\ e.isdir \in BOOLEAN
    /\ InitDirs \subseteq Seq(Entries)
    /\ Ext \in Seq(STRING) /\ Ext # <<>>
    /\ {MaxCreates, MaxDeletes, MaxFails} \subseteq Nat

Slots == {e.name : e \in Entries} \cup {NULL, Garbage}
NoArray == [k \in {} |-> NULL]   \* files == NULL before the malloc

VARIABLES
    dir,        \* the directory on the card, in readdir() order
    mode,       \* "files": extension given; "dirs": extension == NULL
    pc,         \* "open", "read", "stat" or "done"
    pos,        \* the directory stream: index of the next readdir() entry
    pass,       \* the for (pass = 0; pass < 2; ...) counter
    total,      \* matching entries counted by the first pass
    i,          \* next array index the second pass writes
    numFiles,   \* *numFiles
    files,      \* the array: its slots 0..total
    cur,        \* de: the entry whose stat() is pending
    creates, deletes, fails

vars == <<dir, mode, pc, pos, pass, total, i, numFiles, files, cur,
          creates, deletes, fails>>
storage == <<dir, creates, deletes, fails>>

TypeOK ==
    /\ dir \in Seq(Entries)
    /\ mode \in {"files", "dirs"}
    /\ pc \in {"open", "read", "stat", "done"}
    /\ pos \in 1..Len(dir) + 1
    /\ pass \in {0, 1}
    /\ total \in Nat /\ i \in Nat /\ numFiles \in Nat
    /\ files \in {NoArray} \cup [0..total -> Slots]
    /\ cur \in Entries
    /\ creates \in 0..MaxCreates /\ deletes \in 0..MaxDeletes /\ fails \in 0..MaxFails

(* de->d_name[0] == '.': hidden entries, "." and ".." among them.          *)
Visible(e) == Head(e.name) # "."

(* strlen(d_name) >= extLen and the last extLen characters equal Ext.      *)
HasExt(e) ==
    /\ Len(e.name) >= Len(Ext)
    /\ SubSeq(e.name, Len(e.name) - Len(Ext) + 1, Len(e.name)) = Ext

Init ==
    /\ dir \in InitDirs
    /\ mode \in {"files", "dirs"}
    /\ pc = "open"
    /\ pos = 1 /\ pass = 0 /\ total = 0 /\ i = 0 /\ numFiles = 0
    /\ files = NoArray
    /\ cur = CHOOSE e \in Entries : TRUE
    /\ creates = 0 /\ deletes = 0 /\ fails = 0

(* opendir() succeeds.                                                     *)
Open ==
    /\ pc = "open"
    /\ pc' = "read"
    /\ UNCHANGED <<dir, mode, pos, pass, total, i, numFiles, files, cur, creates, deletes, fails>>

(* An entry that passed the filter: counted in pass 0; in pass 1 malloc'd, *)
(* copied to files[i] and i++ (a write at or past total lands on the       *)
(* terminator or beyond the array; only the slots 0..total are kept).      *)
Take(n) ==
    /\ pc' = "read"
    /\ IF pass = 0
          THEN /\ total' = total + 1
               /\ UNCHANGED <<i, files>>
          ELSE /\ files' = IF i <= total THEN [files EXCEPT ![i] = n] ELSE files
               /\ i' = i + 1
               /\ UNCHANGED total

(* readdir() returns an entry that is skipped: hidden, or in the file      *)
(* browser too short for the extension or with another ending.             *)
ReadSkip ==
    /\ pc = "read" /\ pos <= Len(dir)
    /\ \/ ~Visible(dir[pos])
       \/ mode = "files" /\ ~HasExt(dir[pos])
    /\ pos' = pos + 1
    /\ UNCHANGED <<dir, mode, pc, pass, total, i, numFiles, files, cur, creates, deletes, fails>>

(* readdir() returns a file with the extension.                            *)
ReadFile ==
    /\ pc = "read" /\ pos <= Len(dir)
    /\ mode = "files" /\ Visible(dir[pos]) /\ HasExt(dir[pos])
    /\ pos' = pos + 1
    /\ Take(dir[pos].name)
    /\ UNCHANGED <<dir, mode, pass, numFiles, cur, creates, deletes, fails>>

(* readdir() returns a visible entry while gathering directories: stat()  *)
(* comes next, as a step of its own.                                       *)
ReadForStat ==
    /\ pc = "read" /\ pos <= Len(dir)
    /\ mode = "dirs" /\ Visible(dir[pos])
    /\ pos' = pos + 1
    /\ cur' = dir[pos]
    /\ pc' = "stat"
    /\ UNCHANGED <<dir, mode, pass, total, i, numFiles, files, creates, deletes, fails>>

(* S_ISDIR(info.st_mode) after stat(fullFileName, &info), whose result is  *)
(* not checked: when the entry is gone the call fails and info is the      *)
(* uninitialised stack block (in practice what the last stat() left).      *)
StatIsDir ==
    LET now == {e \in ToSet(dir) : e.name = cur.name}
    IN  IF now = {} THEN BOOLEAN ELSE {e.isdir : e \in now}

Stat ==
    /\ pc = "stat"
    /\ \E isdir \in StatIsDir :
          IF isdir THEN Take(cur.name)
                   ELSE pc' = "read" /\ UNCHANGED <<total, i, files>>
    /\ UNCHANGED <<dir, mode, pos, pass, numFiles, cur, creates, deletes, fails>>

(* readdir() returned NULL: after pass 1, or after a pass 0 that counted   *)
(* nothing, leave the loop (closedir, return NULL when total == 0);       *)
(* otherwise rewinddir(), *numFiles = total and malloc total + 1 slots     *)
(* with files[total] = NULL.                                               *)
EndOfPassNoRewind ==
    \/ /\ pass = 1 \/ total = 0
       /\ pc' = "done"
       /\ UNCHANGED <<pos, pass, numFiles, files>>
    \/ /\ pass = 0 /\ total > 0
       /\ pass' = 1 /\ numFiles' = total
       /\ files' = [k \in 0..total |-> IF k = total THEN NULL ELSE Garbage]
       /\ UNCHANGED <<pc, pos>>

EndOfPassShort ==
    \/ /\ pass = 1 \/ total = 0
       /\ pc' = "done"
       /\ UNCHANGED <<pos, pass, numFiles, files>>
    \/ /\ pass = 0 /\ total > 0
       /\ pos' = 1 /\ pass' = 1 /\ numFiles' = total
       /\ files' = [k \in 0..total - 1 |-> Garbage]
       /\ UNCHANGED pc

EndOfPass ==
    \/ /\ pass = 1 \/ total = 0
       /\ pc' = "done"
       /\ UNCHANGED <<pos, pass, numFiles, files>>
    \/ /\ pass = 0 /\ total > 0
       /\ pos' = 1 /\ pass' = 1 /\ numFiles' = total
       /\ files' = [k \in 0..total |-> IF k = total THEN NULL ELSE Garbage]
       /\ UNCHANGED pc

ReadEnd ==
    /\ pc = "read" /\ pos > Len(dir)
    /\ EndOfPass
    /\ UNCHANGED <<dir, mode, total, i, cur, creates, deletes, fails>>

Enumerate == Open \/ ReadSkip \/ ReadFile \/ ReadForStat \/ Stat \/ ReadEnd

(* readdir() fails before the end of the directory: it returns NULL, which *)
(* the loop takes for the end of the pass.                                 *)
ReadFail ==
    /\ pc = "read" /\ pos <= Len(dir) /\ fails < MaxFails
    /\ fails' = fails + 1
    /\ EndOfPass
    /\ UNCHANGED <<dir, mode, total, i, cur, creates, deletes>>

(* The host creates an entry with a new name; it is appended to the        *)
(* directory, so a stream that has not reached the end will return it.     *)
Create ==
    /\ pc # "done" /\ creates < MaxCreates
    /\ \E e \in Entries :
          /\ \A k \in 1..Len(dir) : dir[k].name # e.name
          /\ dir' = Append(dir, e)
    /\ creates' = creates + 1
    /\ UNCHANGED <<mode, pc, pos, pass, total, i, numFiles, files, cur, deletes, fails>>

(* The host deletes a visible entry; the stream keeps its place.           *)
Delete ==
    /\ pc # "done" /\ deletes < MaxDeletes
    /\ \E k \in 1..Len(dir) :
          /\ Visible(dir[k])
          /\ dir' = RemoveAt(dir, k)
          /\ pos' = IF k < pos THEN pos - 1 ELSE pos
    /\ deletes' = deletes + 1
    /\ UNCHANGED <<mode, pc, pass, total, i, numFiles, files, cur, creates, fails>>

(* opendir() fails (no card): "无法打开文件夹" and return NULL, *numFiles 0. *)
OpenFail ==
    /\ pc = "open" /\ fails < MaxFails
    /\ fails' = fails + 1
    /\ pc' = "done"
    /\ UNCHANGED <<dir, mode, pos, pass, total, i, numFiles, files, cur, creates, deletes>>

Storage == OpenFail \/ ReadFail \/ Create \/ Delete

Next == Enumerate \/ Storage

(* The function on a card nobody else writes and that does not fail.       *)
StableSpec == Init /\ [][Enumerate]_vars
Spec == Init /\ [][Next]_vars

-----------------------------------------------------------------------------
(* The entries the caller asked for, in readdir() order: the reference the *)
(* two passes are checked against.  It is SelectSeq(d, Wanted) written     *)
(* without recursion, the j-th element being the entry at the wanted      *)
(* index of rank j; MCDirEnum checks that the two agree.                   *)
WantedIn(m, e) == Visible(e) /\ IF m = "files" THEN HasExt(e) ELSE e.isdir
WantedIdx(d, m) == {k \in 1..Len(d) : WantedIn(m, d[k])}
MatchingOf(d, m) ==
    [j \in 1..Cardinality(WantedIdx(d, m)) |-> d[NthOf(WantedIdx(d, m), j)]]
Wanted(e) == WantedIn(mode, e)
Matching == MatchingOf(dir, mode)

(* On a directory nobody changes, the returned array lists exactly the     *)
(* matching entries in readdir() order, NULL-terminated, and *numFiles is  *)
(* their number; with none, NULL and 0.  Both passes, the rewinddir() and  *)
(* the stat() filter have to agree for this.                               *)
EnumeratesMatches ==
    pc = "done" =>
        /\ numFiles = Len(Matching)
        /\ Len(Matching) > 0 =>
              files = [k \in 0..total |-> IF k < total THEN Matching[k + 1].name ELSE NULL]

(* What choose_file_menu() relies on: while the second pass runs it never *)
(* writes past the total - 1 slots the first pass counted (files[total]    *)
(* stays NULL and nothing lands past the malloc'd array), and when the     *)
(* function returns an array every one of the *numFiles slots the caller   *)
(* strdup()s and free_string_array() frees was written.                    *)
ArrayMatchesCount ==
    /\ i <= total
    /\ (pc = "done" /\ total > 0) => \A k \in 0..numFiles - 1 : files[k] # Garbage

=============================================================================

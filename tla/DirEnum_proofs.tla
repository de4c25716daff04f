--------------------------- MODULE DirEnum_proofs ---------------------------
(***************************************************************************)
(* Type correctness of enumerate_files_in_directory() while the USB host   *)
(* creates and deletes entries and readdir() fails: the stream position    *)
(* stays inside the directory, and the array is absent during the counting *)
(* pass and has exactly the counted slots plus the terminator during the   *)
(* filling pass.                                                           *)
(***************************************************************************)
EXTENDS DirEnum, Ranks_proofs, TLAPS, SequenceTheorems

\* The inductive invariant behind TypeOK: the array does not exist while
\* the first pass counts, and spans 0..total while the second pass fills it.
IInv ==
    /\ TypeOK
    /\ pass = 0 => files = NoArray
    /\ pass = 1 => files \in [0..total -> Slots]

\* Removing one element of a sequence leaves a sequence one shorter.
LEMMA RemoveAtType ==
    ASSUME NEW S, NEW s \in Seq(S), NEW k \in 1..Len(s)
    PROVE  RemoveAt(s, k) \in Seq(S) /\ Len(RemoveAt(s, k)) = Len(s) - 1
<1>1. SubSeq(s, 1, k - 1) \in Seq(S) /\ Len(SubSeq(s, 1, k - 1)) = k - 1
  BY SubSeqProperties
<1>2. SubSeq(s, k + 1, Len(s)) \in Seq(S) /\ Len(SubSeq(s, k + 1, Len(s))) = Len(s) - k
  BY SubSeqProperties
<1>3. SubSeq(s, 1, k - 1) \o SubSeq(s, k + 1, Len(s)) \in Seq(S)
  BY <1>1, <1>2, ConcatProperties
<1>4. Len(SubSeq(s, 1, k - 1) \o SubSeq(s, k + 1, Len(s)))
      = Len(SubSeq(s, 1, k - 1)) + Len(SubSeq(s, k + 1, Len(s)))
  BY <1>1, <1>2, ConcatProperties
<1>5. Len(SubSeq(s, 1, k - 1) \o SubSeq(s, k + 1, Len(s))) = Len(s) - 1
  <2> DEFINE la == Len(SubSeq(s, 1, k - 1))
             lb == Len(SubSeq(s, k + 1, Len(s)))
             lc == Len(SubSeq(s, 1, k - 1) \o SubSeq(s, k + 1, Len(s)))
             n == Len(s)
  <2>1. lc = la + lb /\ la = k - 1 /\ lb = n - k /\ n \in Nat /\ la \in Nat /\ lb \in Nat
    BY <1>1, <1>2, <1>4
  <2> HIDE DEF la, lb, lc, n
  <2>2. lc = n - 1
    BY <2>1
  <2> QED
    BY <2>2, Zenon DEF lc, n
<1> QED
  BY <1>3, <1>5 DEF RemoveAt

\* The bounds are natural numbers.
LEMMA BoundsNat == MaxCreates \in Nat /\ MaxDeletes \in Nat /\ MaxFails \in Nat
BY DirEnumAssumption

LEMMA InitIInv == Init => IInv
BY DirEnumAssumption DEF Init, IInv, TypeOK

\* What a Take step leaves well typed, for a name of some entry.
LEMMA TakeIInv ==
    ASSUME IInv, NEW n \in Slots, Take(n), pos' \in 1..Len(dir) + 1,
           UNCHANGED <<dir, mode, pass, numFiles, cur, creates, deletes, fails>>
    PROVE  IInv'
<1> USE DEF IInv, TypeOK
<1>1. CASE pass = 0
  BY <1>1 DEF Take
<1>2. CASE pass = 1
  <2>1. files \in [0..total -> Slots] /\ total' = total
    BY <1>2 DEF Take
  <2>2. files' \in [0..total -> Slots]
    BY <1>2, <2>1 DEF Take
  <2> QED
    BY <1>2, <2>1, <2>2 DEF Take
<1> QED
  BY <1>1, <1>2

\* The end of a pass (readdir() returning NULL, at the end or on failure).
LEMMA EndOfPassIInv ==
    ASSUME IInv, EndOfPass, pc \in {"read"},
           UNCHANGED <<dir, mode, total, i, cur, creates, deletes>>,
           fails' \in 0..MaxFails
    PROVE  IInv'
<1> USE DEF IInv, TypeOK
<1>1. CASE pass = 1 \/ total = 0
  BY <1>1 DEF EndOfPass
<1>2. CASE pass = 0 /\ total > 0
  <2>1. files' \in [0..total -> Slots]
    BY <1>2 DEF EndOfPass, Slots
  <2> QED
    BY <1>2, <2>1 DEF EndOfPass
<1> QED
  BY <1>1, <1>2 DEF EndOfPass

\* The host deletes entry k: the stream keeps its place among the rest.
LEMMA DeleteIInv ==
    ASSUME IInv, Delete
    PROVE  IInv'
<1> USE DEF IInv, TypeOK
<1>1. PICK k \in 1..Len(dir) :
         /\ dir' = RemoveAt(dir, k)
         /\ pos' = IF k < pos THEN pos - 1 ELSE pos
  BY DEF Delete
<1>2. dir' \in Seq(Entries) /\ Len(dir') = Len(dir) - 1
  BY <1>1, RemoveAtType
<1>3. pos' \in 1..Len(dir') + 1
  BY <1>1, <1>2
<1>4. deletes' \in 0..MaxDeletes
  BY BoundsNat DEF Delete
<1>5. UNCHANGED <<mode, pc, pass, total, i, numFiles, files, cur, creates, fails>>
  BY DEF Delete
<1> QED
  BY <1>2, <1>3, <1>4, <1>5

LEMMA IInvStep == IInv /\ [Next]_vars => IInv'
<1> SUFFICES ASSUME IInv, [Next]_vars PROVE IInv'
  OBVIOUS
<1> USE DEF IInv, TypeOK
<1>1. CASE Open
  BY <1>1 DEF Open
<1>2. CASE ReadSkip
  BY <1>2 DEF ReadSkip
<1>3. CASE ReadFile
  <2>a. pos \in 1..Len(dir) /\ dir \in Seq(Entries)
    BY <1>3 DEF ReadFile
  <2>0. dir[pos] \in Entries /\ pos + 1 \in 1..Len(dir) + 1
    BY <2>a
  <2>1. dir[pos].name \in Slots
    BY <2>0 DEF Slots
  <2> QED
    BY <1>3, <2>0, <2>1, TakeIInv DEF ReadFile
<1>4. CASE ReadForStat
  BY <1>4 DEF ReadForStat
<1>5. CASE Stat
  <2>1. PICK isdir \in StatIsDir :
           IF isdir THEN Take(cur.name)
                    ELSE pc' = "read" /\ UNCHANGED <<total, i, files>>
    BY <1>5 DEF Stat
  <2>2. cur.name \in Slots
    BY DEF Slots
  <2>3. CASE isdir
    BY <1>5, <2>1, <2>2, <2>3, TakeIInv DEF Stat
  <2>4. CASE ~isdir
    BY <1>5, <2>1, <2>4 DEF Stat
  <2> QED
    BY <2>3, <2>4
<1>6. CASE ReadEnd
  BY <1>6, EndOfPassIInv DEF ReadEnd
<1>7. CASE ReadFail
  <2>1. fails' \in 0..MaxFails
    BY <1>7, BoundsNat DEF ReadFail
  <2>2. EndOfPass /\ pc \in {"read"}
    BY <1>7 DEF ReadFail
  <2>3. UNCHANGED <<dir, mode, total, i, cur, creates, deletes>>
    BY <1>7 DEF ReadFail
  <2> QED
    BY <2>1, <2>2, <2>3, EndOfPassIInv
<1>8. CASE Create
  <2>1. dir' \in Seq(Entries)
    BY <1>8 DEF Create
  <2>2. creates' \in 0..MaxCreates
    BY <1>8, BoundsNat DEF Create
  <2>3. UNCHANGED <<mode, pc, pos, pass, total, i, numFiles, files, cur, deletes, fails>>
    BY <1>8 DEF Create
  <2>4. pos \in 1..Len(dir') + 1
    BY <1>8 DEF Create
  <2> QED
    BY <2>1, <2>2, <2>3, <2>4
<1>9. CASE Delete
  BY <1>9, DeleteIInv
<1>10. CASE OpenFail
  BY <1>10, BoundsNat DEF OpenFail
<1>11. CASE UNCHANGED vars
  BY <1>11 DEF vars
<1> QED
  BY <1>1, <1>2, <1>3, <1>4, <1>5, <1>6, <1>7, <1>8, <1>9, <1>10, <1>11
     DEF Next, Enumerate, Storage

\* Every variable of the enumeration keeps its type, for every directory,
\* extension and bound, however the host writes the card and readdir()
\* fails meanwhile.
THEOREM TypeCorrect == Spec => []TypeOK
<1>1. IInv => TypeOK
  BY DEF IInv
<1> QED
  BY <1>1, InitIInv, IInvStep, PTL DEF Spec

\* The same on a directory nobody else touches (the spec the direnum run
\* checks TypeOK under).
THEOREM StableTypeCorrect == StableSpec => []TypeOK
<1>1. IInv /\ [Enumerate]_vars => IInv'
  BY IInvStep DEF Next
<1> QED
  BY <1>1, InitIInv, IInvStep, PTL DEF StableSpec, IInv

-----------------------------------------------------------------------------
(***************************************************************************)
(* The listing on a directory nobody else touches.  The argument is the    *)
(* loop invariant of the two readdir() passes: Done entries of the stream  *)
(* have been dealt with (a visible entry whose stat() is pending is not    *)
(* yet), the first pass has counted the wanted ones among them, and the    *)
(* second pass has written the names of exactly those into the first      *)
(* slots of the array, in order, while the rest of it is still the         *)
(* malloc'd garbage and the terminator.                                    *)
(***************************************************************************)

\* Names in a directory are unique.
DistinctNames(d) == \A j, k \in 1..Len(d) : j # k => d[j].name # d[k].name

W == WantedIdx(dir, mode)
Done == IF pc = "stat" THEN pos - 2 ELSE pos - 1

\* The array slots the second pass has written so far.
Filled(k) == dir[NthOf(W, k + 1)].name

\* A visible entry read while gathering directories waits for its stat().
StatPending ==
    pc = "stat" => /\ pos \in 2..Len(dir) + 1
                   /\ cur = dir[pos - 1]
                   /\ Visible(cur) /\ mode = "dirs"

\* The loop is left at the end of the stream, and in the first pass only
\* when it counted nothing.
AtEnd == pc = "done" => pos = Len(dir) + 1 /\ (pass = 0 => total = 0)

\* What the two passes have done with the first Done entries.
Progress ==
    /\ pass = 0 => total = Rank(W, Done) /\ numFiles = 0 /\ i = 0
    /\ pass = 1 => /\ numFiles = total
                   /\ total = Cardinality(W)
                   /\ i = Rank(W, Done)
                   /\ files = [k \in 0..total |->
                                 IF k < i THEN Filled(k)
                                 ELSE IF k = total THEN NULL ELSE Garbage]

EInv == IInv /\ DistinctNames(dir) /\ StatPending /\ AtEnd /\ Progress

\* The wanted entries are indices into the directory.
LEMMA WType ==
    ASSUME TypeOK
    PROVE  Len(dir) \in Nat /\ W \in SUBSET (1..Len(dir))
BY DEF TypeOK, W, WantedIdx

\* A step of the enumeration changes neither the directory nor the mode,
\* hence neither the wanted entries nor the names the array should hold.
LEMMA WUnchanged ==
    ASSUME UNCHANGED <<dir, mode>>
    PROVE  W' = W /\ \A k : Filled(k)' = Filled(k)
<1>1. W' = W
  BY Zenon DEF W, WantedIdx, WantedIn, Visible, HasExt
<1> QED
  BY <1>1, Zenon DEF Filled

\* An entry read and not wanted leaves the counts as they were.
LEMMA ProgressSkip ==
    ASSUME TypeOK, Progress, NEW p \in 1..Len(dir), p \notin W,
           Done = p - 1, Done' = p,
           UNCHANGED <<dir, mode, pass, total, i, numFiles, files>>
    PROVE  Progress'
<1>1. W' = W /\ \A k : Filled(k)' = Filled(k)
  BY WUnchanged
<1>2. Rank(W, p) = Rank(W, p - 1)
  BY WType, RankStep, Zenon
<1> QED
  BY <1>1, <1>2 DEF Progress

\* A wanted entry is counted in the first pass and written to the next
\* slot in the second, which is inside the counted ones.
LEMMA ProgressTake ==
    ASSUME TypeOK, Progress, NEW p \in 1..Len(dir), p \in W,
           Done = p - 1, Done' = p, Take(dir[p].name),
           UNCHANGED <<dir, mode, pass, numFiles>>
    PROVE  Progress'
<1>1. W' = W /\ \A k : Filled(k)' = Filled(k)
  BY WUnchanged
<1>2. Rank(W, p) = Rank(W, p - 1) + 1
  BY WType, RankStep, Zenon
<1>3. Rank(W, p) \in 1..Cardinality(W) /\ Cardinality(W) \in Nat
  <2>1. Len(dir) \in Nat /\ W \in SUBSET (1..Len(dir))
    BY WType
  <2>2. Rank(W, p) \in 1..Cardinality(W)
    BY <2>1, RankOfMember, Zenon
  <2>3. Cardinality(W) \in Nat
    BY <2>1, IndexSetFinite, Zenon
  <2> QED
    BY <2>2, <2>3
<1>4. CASE pass = 0
  <2>1. total' = total + 1 /\ i' = i /\ files' = files
    BY <1>4 DEF Take
  <2>2. total = Rank(W, p - 1) /\ numFiles = 0 /\ i = 0
    BY <1>4 DEF Progress
  <2> QED
    BY <1>1, <1>2, <1>4, <2>1, <2>2 DEF Progress
<1>5. CASE pass = 1
  <2>1. /\ numFiles = total
        /\ total = Cardinality(W)
        /\ i = Rank(W, p - 1)
        /\ files = [k \in 0..total |->
                      IF k < i THEN Filled(k)
                      ELSE IF k = total THEN NULL ELSE Garbage]
    BY <1>5 DEF Progress
  <2>2. i \in Nat /\ i < total /\ i + 1 = Rank(W, p)
    BY <1>2, <1>3, <2>1
  <2>a. i <= total /\ pass # 0
    <3>1. total \in Nat
      BY DEF TypeOK
    <3> QED
      BY <1>5, <2>2, <3>1
  <2>3. /\ i' = i + 1
        /\ files' = [files EXCEPT ![i] = dir[p].name]
        /\ total' = total
    BY <2>a, Zenon DEF Take
  <2>4. NthOf(W, i + 1) = p
    BY <2>2, WType, NthOfIs, Zenon
  <2>5. Filled(i) = dir[p].name
    BY <2>4 DEF Filled
  <2>6. files' = [k \in 0..total |->
                    IF k < i + 1 THEN Filled(k)
                    ELSE IF k = total THEN NULL ELSE Garbage]
    <3>1. \A k \in 0..total :
             files'[k] = IF k < i + 1 THEN Filled(k)
                         ELSE IF k = total THEN NULL ELSE Garbage
      BY <2>1, <2>2, <2>3, <2>5
    <3>2. files' = [k \in 0..total |-> files'[k]]
      BY <2>1, <2>3, Zenon
    <3> QED
      BY <3>1, <3>2, Zenon
  <2>7. /\ pass' = 1 /\ pass' # 0
        /\ numFiles' = total'
        /\ total' = Cardinality(W')
        /\ i' = Rank(W', Done')
    BY <1>1, <1>5, <2>1, <2>2, <2>3
  <2>8. files' = [k \in 0..total' |->
                    IF k < i' THEN Filled(k)'
                    ELSE IF k = total' THEN NULL ELSE Garbage]
    BY <1>1, <2>3, <2>6, Zenon
  <2> QED
    BY <2>7, <2>8, Zenon DEF Progress
<1> QED
  BY <1>4, <1>5 DEF TypeOK

\* A step that moves nothing the counts depend on keeps them.
LEMMA ProgressKeep ==
    ASSUME Progress, Done' = Done,
           UNCHANGED <<dir, mode, pass, total, i, numFiles, files>>
    PROVE  Progress'
<1>1. W' = W /\ \A k : Filled(k)' = Filled(k)
  BY WUnchanged
<1> QED
  BY <1>1, Zenon DEF Progress

\* rewinddir() after a first pass that counted every wanted entry: the
\* second pass starts with nothing written and the terminator in place.
LEMMA ProgressRewind ==
    ASSUME TypeOK, Progress, pass = 0, total > 0,
           Done = Len(dir), Done' = 0,
           pass' = 1, numFiles' = total,
           files' = [k \in 0..total |-> IF k = total THEN NULL ELSE Garbage],
           UNCHANGED <<dir, mode, total, i>>
    PROVE  Progress'
<1>1. W' = W /\ \A k : Filled(k)' = Filled(k)
  BY WUnchanged
<1>2. Len(dir) \in Nat /\ W \in SUBSET (1..Len(dir))
  BY WType
<1>3. Rank(W, Len(dir)) = Cardinality(W) /\ Rank(W, 0) = 0
  <2>1. Len(dir) \in Int /\ Len(dir) >= Len(dir) /\ 0 \in Int /\ 0 < 1
    BY <1>2
  <2>2. Rank(W, Len(dir)) = Cardinality(W)
    BY <1>2, <2>1, RankAbove, Zenon
  <2>3. Rank(W, 0) = 0
    BY <1>2, <2>1, RankBelow, Zenon
  <2> QED
    BY <2>2, <2>3
<1>4. total = Cardinality(W) /\ i = 0 /\ total \in Nat
  BY <1>3 DEF Progress, TypeOK
<1>5. files' = [k \in 0..total' |->
                  IF k < i' THEN Filled(k)'
                  ELSE IF k = total' THEN NULL ELSE Garbage]
  <2>1. \A k \in 0..total : ~(k < 0)
    OBVIOUS
  <2> QED
    BY <1>4, <2>1, Zenon
<1>6. /\ pass' = 1 /\ pass' # 0
      /\ numFiles' = total'
      /\ total' = Cardinality(W')
      /\ i' = Rank(W', Done')
  BY <1>1, <1>3, <1>4
<1> QED
  BY <1>5, <1>6, Zenon DEF Progress

\* With unique names the entry stat() looks up is the one readdir()
\* returned, so S_ISDIR tells what that entry is.
LEMMA StatExact ==
    ASSUME TypeOK, DistinctNames(dir), StatPending, pc = "stat"
    PROVE  StatIsDir = {cur.isdir}
<1>1. pos - 1 \in 1..Len(dir) /\ cur = dir[pos - 1]
  BY DEF StatPending, TypeOK
<1>2. {e \in ToSet(dir) : e.name = cur.name} = {cur}
  <2>1. cur \in ToSet(dir)
    BY <1>1 DEF ToSet
  <2>2. ASSUME NEW e \in ToSet(dir), e.name = cur.name PROVE e = cur
    <3>1. PICK j \in 1..Len(dir) : e = dir[j]
      BY DEF ToSet, TypeOK
    <3>2. j = pos - 1
      BY <1>1, <2>2, <3>1 DEF DistinctNames
    <3> QED
      BY <1>1, <3>1, <3>2
  <2> QED
    BY <2>1, <2>2
<1> QED
  BY <1>2 DEF StatIsDir

\* An index of the directory is wanted exactly when its entry passes the
\* filter.
LEMMA InW ==
    ASSUME TypeOK, NEW p \in 1..Len(dir)
    PROVE  p \in W <=> WantedIn(mode, dir[p])
BY DEF W, WantedIdx

\* Every step of the enumeration on a directory nobody touches keeps the
\* loop invariant.
LEMMA EInvStep == EInv /\ [Enumerate]_vars => EInv'
<1> SUFFICES ASSUME EInv, [Enumerate]_vars PROVE EInv'
  OBVIOUS
<1>1. TypeOK /\ DistinctNames(dir) /\ StatPending /\ AtEnd /\ Progress
  BY DEF EInv, IInv
<1>2. IInv'
  BY IInvStep DEF EInv, Next
<1>3. UNCHANGED dir => DistinctNames(dir)'
  BY <1>1, Zenon DEF DistinctNames
<1> SUFFICES /\ UNCHANGED dir
             /\ StatPending' /\ AtEnd' /\ Progress'
  BY <1>2, <1>3 DEF EInv
<1>a. CASE Open
  <2>1. Done' = Done
    BY <1>a DEF Open, Done
  <2> QED
    BY <1>a, <1>1, <2>1, ProgressKeep DEF Open, StatPending, AtEnd
<1>b. CASE ReadSkip
  <2>1. pos \in 1..Len(dir) /\ Done = pos - 1 /\ Done' = pos
    BY <1>1, <1>b DEF ReadSkip, Done, TypeOK
  <2>2. pos \notin W
    BY <1>1, <1>b, <2>1, InW DEF ReadSkip, WantedIn
  <2> QED
    BY <1>b, <1>1, <2>1, <2>2, ProgressSkip DEF ReadSkip, StatPending, AtEnd
<1>c. CASE ReadFile
  <2>1. pos \in 1..Len(dir) /\ Done = pos - 1 /\ Done' = pos
    BY <1>1, <1>c DEF ReadFile, Take, Done, TypeOK
  <2>2. pos \in W
    BY <1>1, <1>c, <2>1, InW DEF ReadFile, WantedIn
  <2>3. Take(dir[pos].name) /\ UNCHANGED <<dir, mode, pass, numFiles>>
    BY <1>c DEF ReadFile
  <2>4. pc' = "read"
    BY <1>c DEF ReadFile, Take
  <2> QED
    BY <1>1, <2>1, <2>2, <2>3, <2>4, ProgressSkip, ProgressTake
       DEF StatPending, AtEnd
<1>d. CASE ReadForStat
  <2>1. pos \in 1..Len(dir) /\ Done' = Done
    BY <1>1, <1>d DEF ReadForStat, Done, TypeOK
  <2>2. StatPending'
    BY <1>d, <2>1 DEF ReadForStat, StatPending
  <2> QED
    BY <1>d, <1>1, <2>1, <2>2, ProgressKeep DEF ReadForStat, AtEnd
<1>e. CASE Stat
  <2> DEFINE p == pos - 1
  <2>1. p \in 1..Len(dir) /\ cur = dir[p] /\ Visible(cur) /\ mode = "dirs"
    BY <1>1, <1>e DEF Stat, StatPending
  <2>2. StatIsDir = {cur.isdir}
    BY <1>1, <1>e, StatExact DEF Stat
  <2>3. p \in W <=> cur.isdir
    BY <1>1, <2>1, InW DEF WantedIn
  <2>4. Done = p - 1
    <3>1. pc = "stat" /\ pos \in Int
      BY <1>1, <1>e DEF Stat, TypeOK
    <3> QED
      BY <3>1 DEF Done, p
  <2>5. UNCHANGED <<dir, mode, pos, pass, numFiles>>
    BY <1>e DEF Stat
  <2>6. CASE cur.isdir
    <3>1. Take(dir[p].name)
      BY <1>e, <2>1, <2>2, <2>6 DEF Stat
    <3>2. pc' = "read" /\ Done' = p
      BY <2>5, <3>1 DEF Take, Done
    <3> QED
      BY <1>1, <2>1, <2>3, <2>4, <2>5, <2>6, <3>1, <3>2, ProgressTake
         DEF StatPending, AtEnd
  <2>7. CASE ~cur.isdir
    <3>1. pc' = "read" /\ UNCHANGED <<total, i, files>>
      BY <1>e, <2>2, <2>7 DEF Stat
    <3>2. Done' = p
      BY <2>5, <3>1 DEF Done
    <3> QED
      BY <1>1, <2>1, <2>3, <2>4, <2>5, <2>7, <3>1, <3>2, ProgressSkip
         DEF StatPending, AtEnd
  <2> QED
    BY <2>6, <2>7
<1>f. CASE ReadEnd
  <2>1. pos = Len(dir) + 1 /\ Done = Len(dir) /\ pass \in {0, 1}
    BY <1>1, <1>f DEF ReadEnd, Done, TypeOK
  <2>2. UNCHANGED <<dir, mode, total, i>>
    BY <1>f DEF ReadEnd
  <2>3. CASE pass = 1 \/ total = 0
    <3>1. pc' = "done" /\ UNCHANGED <<pos, pass, numFiles, files>>
      BY <1>f, <2>3 DEF ReadEnd, EndOfPass
    <3>2. Done' = Done
      BY <1>f, <3>1 DEF ReadEnd, Done
    <3>3. AtEnd'
      BY <2>1, <2>2, <2>3, <3>1 DEF AtEnd
    <3> QED
      BY <1>1, <2>2, <3>1, <3>2, <3>3, ProgressKeep DEF StatPending
  <2>4. CASE pass = 0 /\ total > 0
    <3>1. /\ pos' = 1 /\ pass' = 1 /\ numFiles' = total
          /\ files' = [k \in 0..total |-> IF k = total THEN NULL ELSE Garbage]
          /\ pc' = "read"
      BY <1>f, <2>4 DEF ReadEnd, EndOfPass
    <3>2. Done' = 0
      BY <3>1 DEF Done
    <3> QED
      BY <1>1, <2>1, <2>2, <2>4, <3>1, <3>2, ProgressRewind
         DEF StatPending, AtEnd
  <2>5. total \in Nat
    BY <1>1 DEF TypeOK
  <2> QED
    BY <2>1, <2>3, <2>4, <2>5
<1>g. CASE UNCHANGED vars
  <2>1. Done' = Done
    BY <1>g DEF vars, Done
  <2> QED
    BY <1>1, <1>g, <2>1, ProgressKeep DEF vars, StatPending, AtEnd
<1> QED
  BY <1>a, <1>b, <1>c, <1>d, <1>e, <1>f, <1>g DEF Enumerate

\* opendir() on a directory with unique names: nothing is read yet.
LEMMA InitEInv ==
    ASSUME \A d \in InitDirs : DistinctNames(d)
    PROVE  Init => EInv
<1> SUFFICES ASSUME Init PROVE EInv
  OBVIOUS
<1>1. IInv /\ TypeOK
  BY InitIInv DEF IInv
<1>2. DistinctNames(dir)
  BY DEF Init
<1>3. pc = "open" /\ pass = 0 /\ total = 0 /\ numFiles = 0 /\ i = 0 /\ Done = 0
  BY DEF Init, Done
<1>4. Rank(W, 0) = 0
  <2>1. Len(dir) \in Nat /\ W \in SUBSET (1..Len(dir)) /\ 0 \in Int /\ 0 < 1
    BY <1>1, WType
  <2> QED
    BY <2>1, RankBelow, Zenon
<1> QED
  BY <1>1, <1>2, <1>3, <1>4 DEF EInv, StatPending, AtEnd, Progress

\* The reference listing has one element per wanted entry, the j-th being
\* the entry at the wanted index of rank j.
LEMMA MatchingIs ==
    ASSUME TypeOK
    PROVE  /\ Len(Matching) = Cardinality(W)
           /\ \A j \in 1..Cardinality(W) : Matching[j] = dir[NthOf(W, j)]
<1>1. Cardinality(W) \in Nat
  BY WType, IndexSetFinite, Zenon
<1>2. Matching = [j \in 1..Cardinality(W) |-> dir[NthOf(W, j)]]
  BY DEF Matching, MatchingOf, W
<1> QED
  BY <1>1, <1>2

\* When the loop is left, the invariant says the array is the reference.
LEMMA EInvMatches == EInv => EnumeratesMatches
<1> SUFFICES ASSUME EInv, pc = "done"
             PROVE  /\ numFiles = Len(Matching)
                    /\ Len(Matching) > 0 =>
                          files = [k \in 0..total |->
                                     IF k < total THEN Matching[k + 1].name ELSE NULL]
  BY DEF EnumeratesMatches
<1>1. TypeOK /\ AtEnd /\ Progress
  BY DEF EInv, IInv
<1>2. Done = Len(dir) /\ pass \in {0, 1}
  BY <1>1 DEF AtEnd, Done, TypeOK
<1>3. Rank(W, Len(dir)) = Cardinality(W) /\ Cardinality(W) \in Nat
  <2>1. Len(dir) \in Nat /\ W \in SUBSET (1..Len(dir))
    BY <1>1, WType
  <2>2. Len(dir) \in Int /\ Len(dir) >= Len(dir)
    BY <2>1
  <2> QED
    BY <2>1, <2>2, RankAbove, IndexSetFinite, Zenon
<1>4. Len(Matching) = Cardinality(W)
      /\ \A j \in 1..Cardinality(W) : Matching[j] = dir[NthOf(W, j)]
  BY <1>1, MatchingIs
<1>5. CASE pass = 0
  BY <1>1, <1>2, <1>3, <1>4, <1>5 DEF AtEnd, Progress
<1>6. CASE pass = 1
  <2>1. /\ numFiles = total
        /\ total = Cardinality(W)
        /\ i = total
        /\ files = [k \in 0..total |->
                      IF k < i THEN Filled(k)
                      ELSE IF k = total THEN NULL ELSE Garbage]
    BY <1>1, <1>2, <1>3, <1>6 DEF Progress
  <2>2. \A k \in 0..total : k < total => Filled(k) = Matching[k + 1].name
    BY <1>3, <1>4, <2>1 DEF Filled
  <2>3. files = [k \in 0..total |->
                   IF k < total THEN Matching[k + 1].name ELSE NULL]
    BY <1>3, <2>1, <2>2
  <2> QED
    BY <1>4, <2>1, <2>3
<1> QED
  BY <1>2, <1>5, <1>6

\* On a directory nobody else writes, where names are unique as the
\* filesystem makes them, the array enumerate_files_in_directory() returns
\* lists exactly the entries the caller asked for, in readdir() order and
\* NULL-terminated, with *numFiles their number (and NULL, 0 for none):
\* for every directory, extension and listing mode.
THEOREM EnumeratesMatchesHolds ==
    ASSUME \A d \in InitDirs : DistinctNames(d)
    PROVE  StableSpec => []EnumeratesMatches
<1>1. Init => EInv
  BY InitEInv
<1>2. EInv /\ [Enumerate]_vars => EInv'
  BY EInvStep
<1>3. EInv => EnumeratesMatches
  BY EInvMatches
<1> QED
  BY <1>1, <1>2, <1>3, PTL DEF StableSpec


=============================================================================

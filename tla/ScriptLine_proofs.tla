-------------------------- MODULE ScriptLine_proofs --------------------------
(***************************************************************************)
(* Proofs about the newline scan of handle_update_script(): the pointers   *)
(* stay inside the buffer, and when the script ends with a newline and the *)
(* interpreter reports a 1-based line number, the diagnostic is that       *)
(* literal source line or "(未找到)" past the last line.                   *)
(*                                                                         *)
(* The scan is related to the reference through Cnt(i), the number of     *)
(* newlines at or before index i: after k rounds next - 1 is the newline   *)
(* counted k, line - 1 the one counted k - 1.                              *)
(***************************************************************************)
EXTENDS ScriptLine, TLAPS, FiniteSetTheorems, SequenceTheorems,
        WellFoundedInduction

\* How many newlines of b lie at or before index i.
Cnt(b, i) == Cardinality({j \in NewlinesOf(b) : j <= i})

\* The newlines memchr() searches when it starts at index f.
NLFrom(f) == {i \in f..Len(buf) : buf[i] = "\n"}

\* m is the least element of S.
IsLeast(m, S) == m \in S /\ \A y \in S : m <= y

-----------------------------------------------------------------------------
(* Lemmas.                                                                 *)

\* The least-number principle, from the well-foundedness of < on Nat.
LEMMA NatHasLeast ==
    ASSUME NEW T \in SUBSET Nat, T # {}
    PROVE  \E m \in T : \A y \in T : m <= y
<1>1. \E x \in T : \A y \in T : ~(<<y, x>> \in OpToRel(<, Nat))
  BY NatLessThanWellFounded, WFMin
<1>2. PICK x \in T : \A y \in T : ~(<<y, x>> \in OpToRel(<, Nat))
  BY <1>1
<1>3. \A y \in T : ~(y < x)
  BY <1>2 DEF OpToRel
<1> QED
  BY <1>3

\* memchr() either finds no newline from f on and gives NULL, or gives the
\* index after the first one.
LEMMA AfterNewlineValue ==
    ASSUME buf \in Seq(Chars), NEW f \in Nat
    PROVE  \/ NLFrom(f) = {} /\ AfterNewline(f) = 0
           \/ \E m \in NLFrom(f) : IsLeast(m, NLFrom(f)) /\ AfterNewline(f) = m + 1
<1>1. CASE NLFrom(f) = {}
  BY <1>1 DEF AfterNewline, NLFrom
<1>2. CASE NLFrom(f) # {}
  <2>1. NLFrom(f) \subseteq Nat
    BY DEF NLFrom
  <2>2. \E m \in NLFrom(f) : \A y \in NLFrom(f) : m <= y
    BY <1>2, <2>1, NatHasLeast
  <2> DEFINE c == CHOOSE i \in NLFrom(f) : \A j \in NLFrom(f) : i <= j
  <2>3. c \in NLFrom(f) /\ \A j \in NLFrom(f) : c <= j
    BY <2>2
  <2>4. AfterNewline(f) = c + 1
    BY <1>2 DEF AfterNewline, NLFrom
  <2> QED
    BY <2>3, <2>4 DEF IsLeast
<1> QED
  BY <1>1, <1>2

\* The newlines form a finite set, and so do those before any index.
LEMMA NLFinite ==
    ASSUME NEW b \in Seq(Chars), NEW i \in Int
    PROVE  /\ IsFiniteSet(NewlinesOf(b))
           /\ IsFiniteSet({j \in NewlinesOf(b) : j <= i})
           /\ Cnt(b, i) <= Cardinality(NewlinesOf(b))
<1>1. NewlinesOf(b) \in SUBSET Nat /\ \A x \in NewlinesOf(b) : x <= Len(b)
  BY DEF NewlinesOf
<1>2. IsFiniteSet(NewlinesOf(b))
  <2>1. Len(b) \in Nat
    OBVIOUS
  <2> QED
    BY <1>1, <2>1, FS_BoundedSetOfNaturals
<1> QED
  BY <1>2, FS_Subset DEF Cnt

\* The number of newlines is a natural number.
LEMMA NLCard ==
    ASSUME NEW b \in Seq(Chars)
    PROVE  IsFiniteSet(NewlinesOf(b)) /\ Cardinality(NewlinesOf(b)) \in Nat
BY NLFinite, FS_CardinalityType, 0 \in Int

\* No newline lies before the first character.
LEMMA CntZero ==
    ASSUME NEW b \in Seq(Chars), NEW i \in Int, i < 1
    PROVE  Cnt(b, i) = 0
<1>1. {j \in NewlinesOf(b) : j <= i} = {}
  BY DEF NewlinesOf
<1> QED
  BY <1>1, FS_EmptySet DEF Cnt

\* Cnt grows strictly from one newline to a later one.
LEMMA CntStrict ==
    ASSUME NEW b \in Seq(Chars), NEW i \in Int, NEW j \in NewlinesOf(b), i < j
    PROVE  Cnt(b, i) < Cnt(b, j)
<1> DEFINE A == {x \in NewlinesOf(b) : x <= i}
           B == {x \in NewlinesOf(b) : x <= j}
<1>1. NewlinesOf(b) \subseteq Int
  BY DEF NewlinesOf
<1>2. A \in SUBSET B /\ j \in B /\ j \notin A
  <2>1. \A x \in A : x \in B
    BY <1>1
  <2>2. j \in B /\ j \notin A
    BY <1>1
  <2> QED
    BY <2>1, <2>2
<1>3. IsFiniteSet(B)
  BY <1>1, NLFinite
<1>4. Cardinality(A) <= Cardinality(B) /\ (Cardinality(A) = Cardinality(B) => A = B)
  BY <1>2, <1>3, FS_Subset
<1>5. Cardinality(A) \in Nat /\ Cardinality(B) \in Nat
  BY <1>2, <1>3, FS_Subset, FS_CardinalityType
<1> QED
  BY <1>2, <1>4, <1>5 DEF Cnt

\* Each newline is counted once: Cnt is one-to-one on the newlines.
LEMMA CntInjective ==
    ASSUME NEW b \in Seq(Chars), NEW i \in NewlinesOf(b), NEW j \in NewlinesOf(b), Cnt(b, i) = Cnt(b, j)
    PROVE  i = j
<1>1. NewlinesOf(b) \subseteq Int
  BY DEF NewlinesOf
<1>2. Cnt(b, i) \in Nat /\ Cnt(b, j) \in Nat
  BY <1>1, NLFinite, FS_Subset, FS_CardinalityType DEF Cnt
<1>3. ~(i < j) /\ ~(j < i)
  BY <1>1, <1>2, CntStrict
<1> QED
  BY <1>1, <1>3

\* A newline counted k is the reference's k-th newline.
LEMMA NthNewlineIs ==
    ASSUME NEW b \in Seq(Chars), NEW i \in NewlinesOf(b), NEW k, Cnt(b, i) = k
    PROVE  NthNewline(b, k) = i
<1> DEFINE c == NthNewline(b, k)
<1>1. c \in NewlinesOf(b) /\ Cnt(b, c) = k
  BY DEF NthNewline, Cnt
<1> QED
  BY <1>1, CntInjective

\* A newline is counted between 1 and the number of newlines.
LEMMA CntRange ==
    ASSUME NEW b \in Seq(Chars), NEW i \in NewlinesOf(b)
    PROVE  Cnt(b, i) \in 1..Cardinality(NewlinesOf(b))
<1>1. NewlinesOf(b) \subseteq Int
  BY DEF NewlinesOf
<1>2. Cnt(b, i - 1) < Cnt(b, i)
  BY <1>1, CntStrict
<1>3. Cnt(b, i - 1) \in Nat /\ Cnt(b, i) <= Cardinality(NewlinesOf(b))
  BY <1>1, NLFinite, FS_Subset, FS_CardinalityType DEF Cnt
<1>4. Cnt(b, i) \in Nat /\ Cardinality(NewlinesOf(b)) \in Nat
  BY <1>1, NLFinite, FS_Subset, FS_CardinalityType DEF Cnt
<1> QED
  BY <1>2, <1>3, <1>4

\* The first newline memchr() finds from f is counted one more than the
\* newlines before f.
LEMMA CntStep ==
    ASSUME buf \in Seq(Chars), NEW f \in 1..Len(buf) + 1, NEW m,
           IsLeast(m, NLFrom(f))
    PROVE  m \in NewlinesOf(buf) /\ Cnt(buf, m) = Cnt(buf, f - 1) + 1
<1> DEFINE A == {x \in NewlinesOf(buf) : x <= f - 1}
<1>1. m \in NewlinesOf(buf) /\ m \in f..Len(buf)
  BY DEF IsLeast, NLFrom, NewlinesOf
<1>2. {x \in NewlinesOf(buf) : x <= m} = A \cup {m}
  <2>1. NewlinesOf(buf) \subseteq Int
    BY DEF NewlinesOf
  <2>2. \A x \in NewlinesOf(buf) : x <= m /\ ~(x <= f - 1) => x \in NLFrom(f)
    BY <2>1, <1>1 DEF NewlinesOf, NLFrom
  <2>3. \A x \in NewlinesOf(buf) : x <= m => x \in A \/ x = m
    BY <2>1, <2>2, <1>1 DEF IsLeast
  <2>4. \A x \in A \cup {m} : x \in NewlinesOf(buf) /\ x <= m
    BY <2>1, <1>1
  <2> QED
    BY <2>3, <2>4
<1>3. m \notin A
  BY <1>1
<1>4. IsFiniteSet(A)
  BY NLFinite
<1>5. Cardinality(A \cup {m}) = Cardinality(A) + 1
  BY <1>3, <1>4, FS_AddElement
<1> QED
  BY <1>1, <1>2, <1>5 DEF Cnt

\* When memchr() finds no newline from f on, every newline lies before f.
LEMMA CntAll ==
    ASSUME buf \in Seq(Chars), NEW f \in 1..Len(buf) + 1, NLFrom(f) = {}
    PROVE  Cnt(buf, f - 1) = Cardinality(NewlinesOf(buf))
<1>1. {x \in NewlinesOf(buf) : x <= f - 1} = NewlinesOf(buf)
  BY DEF NLFrom, NewlinesOf
<1> QED
  BY <1>1 DEF Cnt

-----------------------------------------------------------------------------
(* The pointers stay inside the buffer.                                    *)

\* Each round of the loop leaves line and next inside the buffer.
LEMMA ScanType ==
    ASSUME TypeOK, Scan
    PROVE  TypeOK'
<1>1. next \in Nat /\ buf \in Seq(Chars)
  BY DEF TypeOK
<1>2. next' \in 0..Len(buf) + 1
  BY <1>1, AfterNewlineValue DEF Scan, NLFrom, IsLeast
<1> QED
  BY <1>2 DEF TypeOK, Scan

\* The line printed is a piece of the buffer.
LEMMA ReportType ==
    ASSUME TypeOK, Report
    PROVE  TypeOK'
<1>1. CASE next # 0 /\ line # 0
  <2>1. \A i \in line..(next - 2) : buf[i] \in Chars
    BY <1>1 DEF TypeOK
  <2>2. SubSeq(buf, line, next - 2) \in Seq(Chars)
    BY <2>1, <1>1, SubSeqProperties DEF TypeOK
  <2> QED
    BY <1>1, <2>2 DEF TypeOK, Report, Reports
<1>2. CASE next = 0 \/ line = 0
  BY <1>2 DEF TypeOK, Report, Reports
<1> QED
  BY <1>1, <1>2

\* The scan starts with typed pointers.
LEMMA InitType ==
    ASSUME Init
    PROVE  TypeOK
<1>1. buf \in Seq(Chars) /\ num \in Nums /\ ret \in Int
  BY ScriptLineAssumption DEF Init
<1>2. line \in 0..Len(buf) + 1 /\ next \in 0..Len(buf) + 1
  BY <1>1 DEF Init
<1>3. report \in Reports
  BY DEF Init, Reports
<1> QED
  BY <1>1, <1>2, <1>3 DEF TypeOK

\* The scan keeps its pointers inside the script buffer, or NULL.
THEOREM TypeCorrect == Spec => []TypeOK
<1>1. Init => TypeOK
  BY InitType
<1>2. TypeOK /\ [Next]_vars => TypeOK'
  BY ScanType, ReportType DEF Next, vars, TypeOK
<1> QED
  BY <1>1, <1>2, PTL DEF Spec

-----------------------------------------------------------------------------
(* The report names the literal line.                                      *)

\* Rounds of the loop done so far.
Scanned == num - ret

\* After k rounds, next - 1 is the k-th newline (next = 1 when k = 0) or
\* NULL once the rounds outnumber the newlines, and line - 1 is the
\* (k-1)-th newline (line = 1 when k = 1).
LInv ==
    /\ TypeOK
    /\ buf \in Buffers
    /\ ret \in 0..num
    /\ next # 0 => /\ Cnt(buf, next - 1) = Scanned
                   /\ next = 1 \/ next - 1 \in NewlinesOf(buf)
    /\ next = 0 => Scanned = Cardinality(NewlinesOf(buf)) + 1
    /\ Scanned >= 1 => /\ line \in 1..Len(buf) + 1
                       /\ Cnt(buf, line - 1) = Scanned - 1
                       /\ line = 1 \/ line - 1 \in NewlinesOf(buf)
    /\ report.kind # "none" => report = Expected(buf, num)

LEMMA InitLInv ==
    ASSUME Nums \subseteq Nat \ {0}, Init
    PROVE  LInv
<1>0. TypeOK
  BY InitType
<1>1. TypeOK /\ buf \in Buffers /\ next = 1
  BY <1>0 DEF Init
<1>3. num \in Nat /\ ret = num
  BY DEF Init
<1>4. Scanned = 0
  BY <1>3 DEF Scanned
<1>2. Cnt(buf, next - 1) = 0
  BY <1>1, CntZero DEF TypeOK
<1> QED
  BY <1>1, <1>2, <1>3, <1>4 DEF Init, LInv

LEMMA ScanLInv ==
    ASSUME Nums \subseteq Nat \ {0}, LInv, Scan
    PROVE  LInv'
<1>1. /\ TypeOK' /\ buf \in Seq(Chars) /\ buf \in Buffers
      /\ num \in Nat /\ ret \in 1..num /\ next \in 1..Len(buf) + 1
  BY ScanType DEF LInv, TypeOK, Scan
<1>2. /\ buf' = buf /\ num' = num /\ ret' = ret - 1 /\ line' = next
      /\ report' = report /\ report.kind = "none"
      /\ next' = AfterNewline(next)
  BY DEF Scan
<1>3. Scanned' = Scanned + 1 /\ Scanned \in Nat
  BY <1>1, <1>2 DEF Scanned
<1>4. /\ Cnt(buf, next - 1) = Scanned
      /\ next = 1 \/ next - 1 \in NewlinesOf(buf)
  BY <1>1 DEF LInv
<1>5. (Scanned >= 1 => /\ line \in 1..Len(buf) + 1
                       /\ Cnt(buf, line - 1) = Scanned - 1
                       /\ line = 1 \/ line - 1 \in NewlinesOf(buf))'
  BY <1>1, <1>2, <1>3, <1>4
<1>6. /\ next' # 0 => /\ Cnt(buf, next' - 1) = Scanned'
                      /\ next' = 1 \/ next' - 1 \in NewlinesOf(buf)
      /\ next' = 0 => Scanned' = Cardinality(NewlinesOf(buf)) + 1
  <2>1. CASE NLFrom(next) = {} /\ AfterNewline(next) = 0
    <3>2. Cnt(buf, next - 1) = Cardinality(NewlinesOf(buf))
      BY <2>1, <1>1, CntAll
    <3> QED
      BY <2>1, <3>2, <1>2, <1>3, <1>4
  <2>3. CASE \E m \in NLFrom(next) : IsLeast(m, NLFrom(next)) /\ AfterNewline(next) = m + 1
    <3>4. PICK m \in NLFrom(next) : IsLeast(m, NLFrom(next)) /\ AfterNewline(next) = m + 1
      BY <2>3
    <3>5. m \in NewlinesOf(buf) /\ Cnt(buf, m) = Cnt(buf, next - 1) + 1
      BY <3>4, <1>1, CntStep
    <3>6. m \in 1..Len(buf)
      BY <3>5 DEF NewlinesOf
    <3> QED
      BY <3>4, <3>5, <3>6, <1>2, <1>3, <1>4
  <2> QED
    BY <2>1, <2>3, <1>1, AfterNewlineValue
<1> QED
  BY <1>1, <1>2, <1>3, <1>5, <1>6 DEF LInv

\* A buffer that ends with a newline has one line per newline.
LEMMA TerminatedLineCount ==
    ASSUME NEW b \in Seq(Chars), b # <<>>, b[Len(b)] = "\n"
    PROVE  LineCount(b) = Cardinality(NewlinesOf(b))
BY NLCard DEF LineCount

LEMMA ReportLInv ==
    ASSUME Nums \subseteq Nat \ {0}, \A b \in Buffers : b[Len(b)] = "\n",
           LInv, Report
    PROVE  LInv'
<1>1. /\ TypeOK' /\ buf \in Seq(Chars) /\ buf \in Buffers
      /\ num \in Nat \ {0} /\ ret \in 0..num /\ next \in 0..Len(buf) + 1
  BY ReportType, ScriptLineAssumption DEF LInv, TypeOK, Report
<1>2. UNCHANGED <<buf, num, ret, line, next>>
  BY DEF Report
<1>3. LineCount(buf) = Cardinality(NewlinesOf(buf))
  BY <1>1, TerminatedLineCount, ScriptLineAssumption
<1>4. Cardinality(NewlinesOf(buf)) \in Nat
  BY <1>1, NLCard
<1>5. report' = Expected(buf, num)
  <2>1. CASE next = 0
    <3>2. num >= Cardinality(NewlinesOf(buf)) + 1
      BY <2>1, <1>1, <1>4 DEF LInv, Scanned
    <3>3. report' = [kind |-> "notfound", text |-> <<>>]
      BY <2>1 DEF Report
    <3> QED
      BY <3>2, <3>3, <1>3, <1>4 DEF Expected
  <2>4. CASE next # 0
    <3>5. ret = 0 /\ Scanned = num
      BY <2>4, <1>1 DEF Report, Scanned
    <3>6. /\ Cnt(buf, next - 1) = num
          /\ next = 1 \/ next - 1 \in NewlinesOf(buf)
          /\ line \in 1..Len(buf) + 1
          /\ Cnt(buf, line - 1) = num - 1
          /\ line = 1 \/ line - 1 \in NewlinesOf(buf)
      BY <2>4, <3>5, <1>1 DEF LInv
    <3>7. next - 1 \in NewlinesOf(buf)
      BY <3>6, <1>1, CntZero
    <3>8. num \in 1..Cardinality(NewlinesOf(buf))
      BY <3>6, <3>7, <1>1, CntRange
    <3>9. NthNewline(buf, num) = next - 1
      BY <3>6, <3>7, <1>1, NthNewlineIs
    <3>10. (IF num = 1 THEN 1 ELSE NthNewline(buf, num - 1) + 1) = line
      <4>1. CASE num = 1
        <5>1. ~(line - 1 \in NewlinesOf(buf))
          BY <4>1, <3>6, <1>1, CntRange
        <5> QED
          BY <4>1, <5>1, <3>6
      <4>2. CASE num # 1
        <5>1. line - 1 \in NewlinesOf(buf)
          BY <4>2, <3>6, <1>1, CntZero
        <5>2. NthNewline(buf, num - 1) = line - 1
          BY <5>1, <3>6, <1>1, NthNewlineIs
        <5> QED
          BY <4>2, <5>2, <3>6
      <4> QED
        BY <4>1, <4>2
    <3>11. report' = [kind |-> "line", text |-> SubSeq(buf, line, next - 2)]
      BY <2>4, <3>6 DEF Report
    <3>12. LineText(buf, num) = SubSeq(buf, line, next - 2)
      <4>1. NthNewline(buf, num) - 1 = next - 2
        BY <3>9, <1>1
      <4>2. num <= Cardinality(NewlinesOf(buf))
        BY <3>8
      <4>3. LineText(buf, num) = SubSeq(buf, line, NthNewline(buf, num) - 1)
        BY <3>10, <4>2, Zenon DEF LineText
      <4> QED
        BY <4>1, <4>3
    <3>13. num \in 1..LineCount(buf)
      BY <3>8, <1>3
    <3> QED
      BY <3>11, <3>12, <3>13 DEF Expected
  <2> QED
    BY <2>1, <2>4
<1> QED
  BY <1>1, <1>2, <1>5 DEF LInv, Scanned

\* When every script line ends with a newline and the interpreter returns
\* a 1-based command number, the report of handle_update_script() is the
\* literal line with that number, or "(未找到)" when the script is shorter.
THEOREM ReportsLiteralLineHolds ==
    ASSUME Nums \subseteq Nat \ {0}, \A b \in Buffers : b[Len(b)] = "\n"
    PROVE  Spec => []ReportsLiteralLine
<1>1. Init => LInv
  BY InitLInv
<1>2. LInv /\ [Next]_vars => LInv'
  <2> SUFFICES ASSUME LInv, [Next]_vars PROVE LInv'
    OBVIOUS
  <2>1. CASE Scan
    BY <2>1, ScanLInv
  <2>2. CASE Report
    BY <2>2, ReportLInv
  <2>3. CASE UNCHANGED vars
    BY <2>3 DEF vars, LInv, Scanned, TypeOK
  <2> QED
    BY <2>1, <2>2, <2>3 DEF Next
<1>3. LInv => ReportsLiteralLine
  BY DEF LInv, ReportsLiteralLine
<1> QED
  BY <1>1, <1>2, <1>3, PTL DEF Spec

=============================================================================

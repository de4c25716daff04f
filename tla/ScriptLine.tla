----------------------------- MODULE ScriptLine -----------------------------
(***************************************************************************)
(* The failure report of handle_update_script() (src/install.c): when the *)
(* amend interpreter stops at command num, recovery scans the script       *)
(* buffer newline by newline, cutting each line with a NUL, to print the   *)
(* source line.  Pointers into the buffer are indices: next = 0 is NULL,   *)
(* Len(buf) + 1 is script_data + script_len.                              *)
(***************************************************************************)
EXTENDS Integers, Sequences, FiniteSets

CONSTANTS
    Buffers,  \* the script buffers (read_data() refuses an empty one)
    Nums      \* the values execCommandList() may return, 0 excluded

\* "x" and "y" stand for any other character.
Chars == {"x", "y", "\n"}

ASSUME ScriptLineAssumption ==
    /\ Buffers \subseteq Seq(Chars) \ {<<>>}
    /\ Nums \subseteq Int \ {0}

\* What LOGE() prints after "行%d错误": a line of the buffer, "(未找到)",
\* or a NULL line pointer.
Reports == [kind : {"line", "notfound", "null", "none"}, text : Seq(Chars)]

VARIABLES
    buf,     \* script_data
    num,     \* num: the value execCommandList() returned
    ret,     \* ret, counted down by the loop
    line,    \* line (0 is NULL)
    next,    \* next (0 is NULL)
    report   \* what is printed, "none" while the loop runs

vars == <<buf, num, ret, line, next, report>>

TypeOK ==
    /\ buf \in Seq(Chars)
    /\ num \in Nums
    /\ ret \in Int
    /\ line \in 0..Len(buf) + 1
    /\ next \in 0..Len(buf) + 1
    /\ report \in Reports

\* Variant: next stepped past the NUL and the character after it.
AfterNewlineSkip(from) ==
    LET nl == {i \in from..Len(buf) : buf[i] = "\n"}
    IN  IF nl = {} THEN 0 ELSE (CHOOSE i \in nl : \A j \in nl : i <= j) + 2

\* memchr(from, '\n', script_data + script_len - from), and the NUL it
\* writes: the index after the newline found, or NULL.
AfterNewline(from) ==
    LET nl == {i \in from..Len(buf) : buf[i] = "\n"}
    IN  IF nl = {} THEN 0 ELSE (CHOOSE i \in nl : \A j \in nl : i <= j) + 1

Init ==
    /\ buf \in Buffers
    /\ num \in Nums
    /\ ret = num
    /\ line = 0
    /\ next = 1
    /\ report = [kind |-> "none", text |-> <<>>]

\* Variant: the loop test "ret-- >= 0".
ScanOneMore ==
    /\ report.kind = "none"
    /\ next # 0 /\ ret >= 0
    /\ line' = next
    /\ next' = AfterNewline(next)
    /\ ret' = ret - 1
    /\ UNCHANGED <<buf, num, report>>

\* One round of "while (next != NULL && ret-- > 0)".
Scan ==
    /\ report.kind = "none"
    /\ next # 0 /\ ret > 0
    /\ line' = next
    /\ next' = AfterNewline(next)
    /\ ret' = ret - 1
    /\ UNCHANGED <<buf, num, report>>

\* The loop ends; LOGE() prints line when next is not NULL, "(未找到)"
\* otherwise.  line is the text up to the NUL written over its newline.
Report ==
    /\ report.kind = "none"
    /\ next = 0 \/ ret <= 0
    /\ report' = IF next = 0 THEN [kind |-> "notfound", text |-> <<>>]
                 ELSE IF line = 0 THEN [kind |-> "null", text |-> <<>>]
                 ELSE [kind |-> "line", text |-> SubSeq(buf, line, next - 2)]
    /\ UNCHANGED <<buf, num, ret, line, next>>

Next == Scan \/ Report

Spec == Init /\ [][Next]_vars

-----------------------------------------------------------------------------
(* The reference: the lines of the buffer.                                *)

NewlinesOf(b) == {i \in 1..Len(b) : b[i] = "\n"}

\* The index of the k-th newline of b.
NthNewline(b, k) ==
    CHOOSE i \in NewlinesOf(b) :
        Cardinality({j \in NewlinesOf(b) : j <= i}) = k

\* Lines of b: one per newline, and one more for text after the last.
LineCount(b) ==
    Cardinality(NewlinesOf(b)) + (IF b[Len(b)] = "\n" THEN 0 ELSE 1)

\* The k-th line of b without its newline.
LineText(b, k) ==
    LET first == IF k = 1 THEN 1 ELSE NthNewline(b, k - 1) + 1
        last  == IF k <= Cardinality(NewlinesOf(b)) THEN NthNewline(b, k) - 1
                 ELSE Len(b)
    IN  SubSeq(b, first, last)

\* The report the spec asks for: the literal num-th source line, or a
\* "not found" when the script has no such line.
Expected(b, k) ==
    IF k \in 1..LineCount(b) THEN [kind |-> "line", text |-> LineText(b, k)]
    ELSE [kind |-> "notfound", text |-> <<>>]

\* The diagnostic of a failed update script names the literal source line
\* at which execCommandList() stopped (spec: "a diagnostic naming the
\* literal 3rd source line of the script").
ReportsLiteralLine == report.kind # "none" => report = Expected(buf, num)

=============================================================================

------------------------------- MODULE Ranks -------------------------------
(***************************************************************************)
(* Ranks in a finite set of indices.  Rank(S, p) counts the elements of S  *)
(* at or before index p, and NthOf(S, j) is the element of rank j: the     *)
(* j-th selected index.  A loop that walks a buffer or a directory entry   *)
(* by entry and keeps a counter of what it selected is related through     *)
(* these to the subsequence of the selected entries, without induction:   *)
(* one step of the count per entry read (Ranks_proofs).                    *)
(***************************************************************************)
EXTENDS Integers, FiniteSets

Rank(S, p) == Cardinality({k \in S : k <= p})

NthOf(S, j) == CHOOSE k \in S : Rank(S, k) = j

=============================================================================

---------------------------- MODULE MCV2bLedger -----------------------------
(***************************************************************************)
(* Instances of V2bLedger for TLC: sessions k1 and k2 fall in one month,   *)
(* k3 in the next.                                                         *)
(***************************************************************************)
EXTENDS V2bLedgerRefinement, TLC

CONSTANTS k1, k2, k3, jul, aug

Sessions == [k \in Key |-> IF k = k3 THEN aug ELSE jul]

Symmetric == Permutations(Worker)
=============================================================================

--------------------------- MODULE OrderSettlement --------------------------
(***************************************************************************)
(* What the order and fill ledgers promise of a strategy's orders: the     *)
(* fills of a commit enter the portfolio together, each order's at most    *)
(* once, and an order that was given up never enters it.                   *)
(***************************************************************************)
EXTENDS Naturals

CONSTANT Order

VARIABLES outcome,  \* what became of each order
          times     \* how often its fill is in the portfolio

Init ==
    /\ outcome = [o \in Order |-> "open"]
    /\ times = [o \in Order |-> 0]

Open == {o \in Order : outcome[o] = "open"}

Fill(S) ==
    /\ outcome' = [o \in Order |-> IF o \in S THEN "filled" ELSE outcome[o]]
    /\ times' = [o \in Order |-> IF o \in S THEN 1 ELSE times[o]]

Reject(o) ==
    /\ outcome' = [outcome EXCEPT ![o] = "rejected"]
    /\ UNCHANGED times

Next ==
    \/ \E S \in (SUBSET Open) \ {{}} : Fill(S)
    \/ \E o \in Open : Reject(o)

Spec == Init /\ [][Next]_<<outcome, times>>
=============================================================================

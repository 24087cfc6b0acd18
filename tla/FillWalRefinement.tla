------------------------- MODULE FillWalRefinement --------------------------
(***************************************************************************)
(* FillWal implements OrderSettlement.  An order is rejected once it is    *)
(* expired, cancelled, or given up unfilled for manual review; it is       *)
(* filled from the moment the portfolio file that contains it replaces the *)
(* previous one.  Everything else is bookkeeping the outside cannot see.   *)
(***************************************************************************)
EXTENDS FillWalInvariant

OutcomeOf(o) ==
    CASE status[o] \in {"expired", "cancelled"} -> "rejected"
      [] book.applied[o] > 0 /\ status[o] \notin {"expired", "cancelled"} ->
            "filled"
      [] book.applied[o] = 0 /\ status[o] = "failed_reconciliation" ->
            "rejected"
      [] OTHER -> "open"

Settlement == INSTANCE OrderSettlement
              WITH outcome <- [o \in Order |-> OutcomeOf(o)],
                   times <- book.applied

(* Through every crash and recovery the execution of a strategy behaves as *)
(* the atomic settlement: fills land in whole batches and once, rejected   *)
(* orders never land (run_strategy_execution, reconcile_settling_orders).  *)
ImplementsSettlement == Settlement!Spec
=============================================================================

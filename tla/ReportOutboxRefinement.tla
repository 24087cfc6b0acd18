----------------------- MODULE ReportOutboxRefinement -----------------------
(***************************************************************************)
(* ReportOutbox implements SendSlot: a claim holds the slot from its line  *)
(* to the line that confirms it or records it as ambiguous.                *)
(***************************************************************************)
EXTENDS ReportOutboxInvariant

Held == {c \in Claims : Confirmed(c) \notin events /\ Ambiguous(c) \notin events}
GivenUp == {c \in 1..issued : Ambiguous(c) \in events}
Winners == {c \in 1..issued : Confirmed(c) \in events}

Slot == INSTANCE SendSlot
        WITH held <- Held, givenUp <- GivenUp, confirmed <- Winners,
             sent <- delivered

(* Runs that overlap, stop and outlive their leases share one send slot,   *)
(* taken and given back atomically (_claim_send_slot, _confirm_send,       *)
(* _mark_send_ambiguous).                                                  *)
ImplementsSlot == Slot!Spec
=============================================================================

--------------------------- MODULE MCReportOutbox ---------------------------
(***************************************************************************)
(* Instances of ReportOutbox for TLC.                                      *)
(***************************************************************************)
EXTENDS ReportOutboxRefinement, TLC

(* Any behaviour of a send function, the one run_shadow_report asks for    *)
(* (it raises when the outcome is uncertain), and reporting.send_telegram, *)
(* which prints its errors.                                                *)
AnyOutcome == Outcome
RaisingOutcome == {o \in Outcome : o.delivered \/ o.raises}
SendTelegramOutcome == {o \in Outcome : ~o.raises}
=============================================================================

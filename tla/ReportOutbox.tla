---------------------------- MODULE ReportOutbox ----------------------------
(***************************************************************************)
(* The Telegram outbox of modules/v2b_report.py for one report: the events *)
(* of the monthly JSONL ledger, and the runs of run_shadow_report that     *)
(* create the report, claim the send slot under a lease, send, and confirm *)
(* or give up, each locked section at a time.                              *)
(*                                                                         *)
(* Any number of runs may overlap; a run may stop anywhere, outlive its    *)
(* lease, see a write or a send fail, and be started again.                *)
(***************************************************************************)
EXTENDS Integers, FiniteSets

CONSTANTS
    Worker,         \* processes that run run_shadow_report for the session
    SendOutcome,    \* what a call of send_telegram_fn may do
    WriteFault,     \* ways an append may fail
    MaxFaults       \* bound: crashes, failed writes and sends, slow runs

Outcome == [delivered : BOOLEAN, raises : BOOLEAN]
Good == [delivered |-> TRUE, raises |-> FALSE]

ASSUME OutboxAssumption ==
    /\ SendOutcome \subseteq Outcome
    /\ Good \in SendOutcome
    /\ WriteFault \subseteq {"lost", "late", "partial", "whole"}
    /\ MaxFaults \in Nat

VARIABLES
    \* the monthly ledger
    events,     \* the events a reader sees
    unended,    \* the last one, when its line has no newline
    tail,       \* "ended": the file ends with a readable line; "torn": with a
                \* partial line; "junk": with an unreadable line; "corrupt":
                \* an unreadable line is followed by another
    \* the world
    issued,     \* claim ids drawn; later claims have larger ids
    expired,    \* claims whose lease has run out
    delivered,  \* claims whose message reached Telegram
    \* the runs
    pc, claim, result,
    faults

ledger == <<events, unended, tail>>
world == <<issued, expired, delivered>>
runs == <<pc, claim, result>>
vars == <<ledger, world, runs, faults>>

Created == [type |-> "created", claim |-> 0]
Claimed(c) == [type |-> "claimed", claim |-> c]
Confirmed(c) == [type |-> "confirmed", claim |-> c]
Ambiguous(c) == [type |-> "ambiguous", claim |-> c]

Stage == {"idle", "create", "claim", "closing", "send", "confirm", "mark",
          "reconcile"}
Result == [status : {"none", "confirmed", "ambiguous", "skipped", "failed",
                     "raised"},
           sent : BOOLEAN]
Answer(status, sent) == [status |-> status, sent |-> sent]

-----------------------------------------------------------------------------
(* Appending a line.  A line that follows one without a newline joins it:  *)
(* neither is readable.  "lost" and "late" raise before and after a        *)
(* complete write, "partial" stops within the line, "whole" just before    *)
(* its newline.                                                            *)
Joins == tail = "torn" \/ unended # {}

WriteLine(e, how) ==
    /\ how # "ok" => faults < MaxFaults
    /\ faults' = IF how = "ok" THEN faults ELSE faults + 1
    /\ IF how = "lost"
         THEN UNCHANGED ledger
         ELSE /\ events' = (events \ unended)
                     \union (IF Joins \/ how = "partial" THEN {} ELSE {e})
              /\ unended' = IF how = "whole" /\ ~Joins /\ tail = "ended"
                              THEN {e} ELSE {}
              /\ tail' = CASE tail \in {"junk", "corrupt"} -> "corrupt"
                           [] tail \in {"ended", "torn"} ->
                                IF how = "partial" \/ (how = "whole" /\ Joins)
                                  THEN "torn"
                                ELSE IF Joins THEN "junk" ELSE "ended"

Writes == {"ok"} \union WriteFault

-----------------------------------------------------------------------------
(* Reading: _read_report_events_raw forgives an unreadable last line only, *)
(* _reduce_send_state refuses unknown claims and contradictory terminals.  *)
Readable == tail # "corrupt"

Claims == {c \in 1..issued : Claimed(c) \in events}

Reducible ==
    \A c \in 1..issued :
        /\ Confirmed(c) \in events \/ Ambiguous(c) \in events => c \in Claims
        /\ ~(Confirmed(c) \in events /\ Ambiguous(c) \in events)

Loads == Readable /\ Reducible

IsActive(c) == c \in Claims /\ \A d \in Claims : d <= c
ActiveClaimed(c) == IsActive(c) /\ Confirmed(c) \notin events
                                /\ Ambiguous(c) \notin events
ActiveConfirmed(c) == IsActive(c) /\ Confirmed(c) \in events
ActiveAmbiguous(c) == IsActive(c) /\ Ambiguous(c) \in events

IsConfirmed == \E c \in 1..issued : Confirmed(c) \in events

(* The monthly lock is taken and released within one action, except by a   *)
(* run that closes an expired claim before it writes its own.              *)
Locked == \E w \in Worker : pc[w] = "closing"

-----------------------------------------------------------------------------
Init ==
    /\ events = {} /\ unended = {} /\ tail = "ended"
    /\ issued = 0 /\ expired = {} /\ delivered = {}
    /\ pc = [w \in Worker |-> "idle"]
    /\ claim = [w \in Worker |-> 0]
    /\ result = [w \in Worker |-> Answer("none", FALSE)]
    /\ faults = 0

Goto(w, stage) ==
    /\ pc' = [pc EXCEPT ![w] = stage]
    /\ UNCHANGED <<claim, result>>

Finish(w, answer) ==
    /\ pc' = [pc EXCEPT ![w] = "idle"]
    /\ claim' = [claim EXCEPT ![w] = 0]
    /\ result' = [result EXCEPT ![w] = answer]

(* An exception nothing catches ends the run.                              *)
Raise(w) == Finish(w, Answer("raised", FALSE))

Start(w) ==
    /\ pc[w] = "idle"
    /\ pc' = [pc EXCEPT ![w] = "create"]
    /\ result' = [result EXCEPT ![w] = Answer("none", FALSE)]
    /\ UNCHANGED <<ledger, world, claim, faults>>

(* create_report: idempotent; a ledger that cannot be read raises.         *)
CreateReport(w) ==
    /\ pc[w] = "create" /\ ~Locked
    /\ UNCHANGED world
    /\ \/ ~Readable /\ Raise(w) /\ UNCHANGED <<ledger, faults>>
       \/ Readable /\ Created \in events /\ Goto(w, "claim")
            /\ UNCHANGED <<ledger, faults>>
       \/ /\ Readable /\ Created \notin events
          /\ \E how \in Writes :
                /\ WriteLine(Created, how)
                /\ IF how = "ok" THEN Goto(w, "claim") ELSE Raise(w)

(* _claim_send_slot.                                                       *)
TakeClaim(w) ==
    /\ issued' = issued + 1
    /\ UNCHANGED <<expired, delivered>>
    /\ \E how \in Writes :
          /\ WriteLine(Claimed(issued'), how)
          /\ IF how = "ok"
               THEN /\ pc' = [pc EXCEPT ![w] = "send"]
                    /\ claim' = [claim EXCEPT ![w] = issued']
                    /\ UNCHANGED result
               ELSE Raise(w)

\* Mutants of SlotFree: an expired claim is taken over without closing it; a
\* confirmed report may be claimed.
SlotFreeExpired == \A c \in Claims : IsActive(c) =>
                       ActiveAmbiguous(c) \/ c \in expired
SlotFreeConfirmed == \A c \in Claims : IsActive(c) => ~ActiveClaimed(c)
SlotFree == \A c \in Claims : IsActive(c) => ActiveAmbiguous(c)

ClaimFreeSlot(w) ==
    /\ pc[w] = "claim" /\ ~Locked
    /\ Loads /\ SlotFree
    /\ TakeClaim(w)

\* Mutant of Closable: an expired lease still counts as live.
ClosableNever(c) == FALSE
Closable(c) == ActiveClaimed(c) /\ c \in expired

CloseExpired(w) ==
    /\ pc[w] = "claim" /\ ~Locked
    /\ Loads
    /\ UNCHANGED world
    /\ \E c \in Claims, how \in Writes :
          /\ Closable(c)
          /\ WriteLine(Ambiguous(c), how)
          /\ IF how = "ok" THEN Goto(w, "closing") ELSE Raise(w)

ReReads == Readable

ClaimClosedSlot(w) ==
    /\ pc[w] = "closing"
    /\ ReReads
    /\ TakeClaim(w)

(* A confirmed report and a live lease are left alone.                     *)
SkipSend(w) ==
    /\ pc[w] = "claim" /\ ~Locked
    /\ Loads
    /\ \E c \in Claims : \/ ActiveConfirmed(c)
                         \/ ActiveClaimed(c) /\ ~Closable(c)
    /\ Finish(w, Answer("skipped", FALSE))
    /\ UNCHANGED <<ledger, world, faults>>

BlockSend(w) ==
    /\ \/ pc[w] = "claim" /\ ~Locked /\ ~Loads
       \/ pc[w] = "closing" /\ ~ReReads
    /\ Finish(w, Answer("failed", FALSE))
    /\ UNCHANGED <<ledger, world, faults>>

(* The message cannot be formatted: the claim stays open.                  *)
FailBuild(w) ==
    /\ pc[w] = "send" /\ faults < MaxFaults
    /\ faults' = faults + 1
    /\ Finish(w, Answer("failed", FALSE))
    /\ UNCHANGED <<ledger, world>>

\* Mutant of AfterSend: an exception of the send is swallowed.
AfterSendSwallowed(out) == "confirm"
AfterSend(out) == IF out.raises THEN "mark" ELSE "confirm"

Send(w) ==
    /\ pc[w] = "send"
    /\ \E out \in SendOutcome :
          /\ out # Good => faults < MaxFaults
          /\ faults' = IF out = Good THEN faults ELSE faults + 1
          /\ delivered' = IF out.delivered THEN delivered \union {claim[w]}
                                           ELSE delivered
          /\ Goto(w, AfterSend(out))
    /\ UNCHANGED <<ledger, issued, expired>>

(* _confirm_send; every exception leads to _reconcile_after_confirm_failure.*)
\* Mutant of Confirmable: the claim only has to be the active one.
ConfirmableActive(c) == IsActive(c)
Confirmable(c) == ActiveClaimed(c)

ConfirmSend(w) ==
    /\ pc[w] = "confirm" /\ ~Locked
    /\ UNCHANGED world
    /\ \/ /\ Loads /\ ActiveConfirmed(claim[w])
          /\ Finish(w, Answer("confirmed", TRUE))
          /\ UNCHANGED <<ledger, faults>>
       \/ /\ Loads /\ Confirmable(claim[w])
          /\ \E how \in Writes :
                /\ WriteLine(Confirmed(claim[w]), how)
                /\ IF how = "ok" THEN Finish(w, Answer("confirmed", TRUE))
                                 ELSE Goto(w, "reconcile")
       \/ /\ ~Loads \/ ~IsActive(claim[w]) \/ ActiveAmbiguous(claim[w])
          /\ Goto(w, "reconcile")
          /\ UNCHANGED <<ledger, faults>>

\* Mutant of ReconciledAs: a closed claim counts as a confirmed one.
ReconciledAsClosed(c) == IF ActiveClaimed(c) THEN "ambiguous" ELSE "confirmed"
ReconciledAs(c) == IF ActiveConfirmed(c) THEN "confirmed" ELSE "ambiguous"

Reconcile(w) ==
    /\ pc[w] = "reconcile" /\ ~Locked
    /\ UNCHANGED world
    /\ \/ /\ ~(Loads /\ ActiveClaimed(claim[w]))
          /\ Finish(w, Answer(IF Loads THEN ReconciledAs(claim[w])
                                       ELSE "ambiguous", TRUE))
          /\ UNCHANGED <<ledger, faults>>
       \/ /\ Loads /\ ActiveClaimed(claim[w])
          /\ \E how \in Writes : WriteLine(Ambiguous(claim[w]), how)
          /\ Finish(w, Answer("ambiguous", TRUE))

(* _mark_send_ambiguous; its exceptions are reported, not raised.          *)
MarkAmbiguous(w) ==
    /\ pc[w] = "mark" /\ ~Locked
    /\ UNCHANGED world
    /\ \/ ~(Loads /\ ActiveClaimed(claim[w])) /\ UNCHANGED <<ledger, faults>>
       \/ /\ Loads /\ ActiveClaimed(claim[w])
          /\ \E how \in Writes : WriteLine(Ambiguous(claim[w]), how)
    /\ Finish(w, Answer("ambiguous", FALSE))

-----------------------------------------------------------------------------
Crash(w) ==
    /\ pc[w] # "idle" /\ faults < MaxFaults
    /\ faults' = faults + 1
    /\ Finish(w, Answer("none", FALSE))
    /\ UNCHANGED <<ledger, world>>

(* SEND_CLAIM_TTL_SECONDS pass.  That the claimant is still at work counts *)
(* as a fault: it should have been done long before.                       *)
LeaseExpires(c) ==
    /\ ActiveClaimed(c) /\ c \notin expired
    /\ expired' = expired \union {c}
    /\ IF \E w \in Worker : claim[w] = c
         THEN faults < MaxFaults /\ faults' = faults + 1
         ELSE UNCHANGED faults
    /\ UNCHANGED <<ledger, issued, delivered, runs>>

RunStep(w) ==
    \/ CreateReport(w)
    \/ ClaimFreeSlot(w)
    \/ CloseExpired(w)
    \/ ClaimClosedSlot(w)
    \/ SkipSend(w)
    \/ BlockSend(w)
    \/ FailBuild(w)
    \/ Send(w)
    \/ ConfirmSend(w)
    \/ Reconcile(w)
    \/ MarkAmbiguous(w)

Next ==
    \/ \E w \in Worker : Start(w) \/ RunStep(w) \/ Crash(w)
    \/ \E c \in Claims : LeaseExpires(c)

Spec == Init /\ [][Next]_vars

(* A run that is not killed goes on, and time passes.  Nothing obliges     *)
(* anyone to start a run.                                                  *)
Fairness ==
    /\ \A w \in Worker : WF_vars(RunStep(w))
    /\ WF_vars(\E c \in Claims : LeaseExpires(c))

FairSpec == Spec /\ Fairness

-----------------------------------------------------------------------------
(* Values of every variable.                                               *)
TypeOK ==
    /\ events \subseteq [type : {"created", "claimed", "confirmed", "ambiguous"},
                         claim : 0..issued]
    /\ unended \subseteq events
    /\ tail \in {"ended", "torn", "junk", "corrupt"}
    /\ issued \in Nat
    /\ expired \subseteq 1..issued /\ delivered \subseteq 1..issued
    /\ pc \in [Worker -> Stage]
    /\ claim \in [Worker -> 0..issued]
    /\ result \in [Worker -> Result]
    /\ faults \in 0..MaxFaults

(* However runs overlap, overtake their leases and fail, the history they  *)
(* write is one _reduce_send_state accepts: no claim is both confirmed and *)
(* ambiguous, and no event answers a claim that is not there.              *)
HistoryReduces == Reducible

(* Bounded duplicates: every message that reached Telegram is accounted    *)
(* for, by the active claim or by a SEND_AMBIGUOUS.                        *)
DuplicatesAreRecorded ==
    \A c \in delivered : Ambiguous(c) \in events \/ IsActive(c)

(* A run answers CONFIRMED only for a report the ledger has confirmed, and *)
(* the ledger confirms it once ("no further send needed").                 *)
AnswersAreTrue ==
    /\ \A w \in Worker : result[w].status = "confirmed" => IsConfirmed
    /\ \A c, d \in 1..issued :
          Confirmed(c) \in events /\ Confirmed(d) \in events => c = d

(* What is confirmed was delivered.                                        *)
ConfirmedIsDelivered ==
    \A c \in 1..issued : Confirmed(c) \in events => c \in delivered

(* Once the report is confirmed, only a superseded run, whose claim the    *)
(* ledger records as ambiguous, can still send it.                         *)
ConfirmedStopsSending ==
    [][\A c \in delivered' \ delivered :
          IsConfirmed => Ambiguous(c) \in events]_vars

(* At least once: as long as somebody runs the reporter again and again,   *)
(* the report is confirmed, whatever finite number of runs crash, outlive  *)
(* their lease or fail to send or to write, unless the ledger of the month *)
(* has become unreadable.                                                  *)
RepeatedRunsConfirm ==
    ([]<>(\E w \in Worker : pc[w] = "create")) => <>(IsConfirmed \/ ~Readable)
=============================================================================

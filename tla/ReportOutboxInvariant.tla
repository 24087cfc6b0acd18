------------------------ MODULE ReportOutboxInvariant -----------------------
(***************************************************************************)
(* The inductive invariants of ReportOutbox: OutboxInv on a file system    *)
(* that completes an append or does not start it, HistoryInv on any.       *)
(***************************************************************************)
EXTENDS ReportOutbox

TearFree == WriteFault \subseteq {"lost", "late"}

Closed(c) == Ambiguous(c) \in events

(* A new claim is written only when all earlier ones are ambiguous; the    *)
(* history of the report is a list of ambiguous claims and at most one     *)
(* more.                                                                   *)
ClaimsSound ==
    /\ \A c \in Claims : Closed(c) \/ \A d \in Claims : d <= c
    /\ \A c \in 1..issued : Confirmed(c) \in events => \A d \in Claims : d <= c
    /\ delivered \subseteq Claims

(* A run at work owns a claim of its own, which only it may confirm.       *)
OwnersSound ==
    /\ \A w \in Worker :
          IF pc[w] \in {"send", "confirm", "mark", "reconcile"}
            THEN claim[w] \in Claims
            ELSE claim[w] = 0
    /\ \A v, w \in Worker : claim[v] = claim[w] => v = w \/ claim[w] = 0
    /\ \A w \in Worker : pc[w] = "send" => Confirmed(claim[w]) \notin events

(* The run that closes an expired claim keeps the lock, and every claim is *)
(* ambiguous until it has written its own.                                 *)
LockSound ==
    /\ \A v, w \in Worker : pc[v] = "closing" /\ pc[w] = "closing" => v = w
    /\ Locked => \A c \in Claims : Closed(c)

OutboxInv ==
    /\ TypeOK
    /\ tail = "ended" /\ unended = {}
    /\ Reducible
    /\ ClaimsSound
    /\ OwnersSound
    /\ LockSound

-----------------------------------------------------------------------------
(* An append that joins the last line loses it: the events must make sense *)
(* without the one that has no newline, too.                               *)
ReducibleIn(S) ==
    \A c \in 1..issued :
        /\ Confirmed(c) \in S \/ Ambiguous(c) \in S => Claimed(c) \in S
        /\ ~(Confirmed(c) \in S /\ Ambiguous(c) \in S)

(* With a send function that raises unless the message was delivered, a    *)
(* run that goes on to confirm has delivered its message.                  *)
Raising == \A out \in SendOutcome : out.delivered \/ out.raises

DeliverySound ==
    /\ \A w \in Worker : pc[w] \in {"confirm", "reconcile"} =>
          claim[w] \in delivered
    /\ ConfirmedIsDelivered

(* What torn appends leave true: events may be lost, but those left are a  *)
(* history, and a run sends under a claim it drew.                         *)
HistoryInv ==
    /\ TypeOK
    /\ \A w \in Worker : pc[w] = "send" => claim[w] \in 1..issued
    /\ ReducibleIn(events) /\ ReducibleIn(events \ unended)
    /\ Raising => DeliverySound
=============================================================================

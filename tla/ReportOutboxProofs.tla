------------------------- MODULE ReportOutboxProofs -------------------------
(***************************************************************************)
(* The safety of ReportOutbox for any number of overlapping runs, faults   *)
(* and any send function.  Where an append is completed or not started     *)
(* (TearFree): one run at a time holds the send slot, and ReportOutbox     *)
(* implements SendSlot.  However appends fail: the history reduces, and    *)
(* what is confirmed was delivered.                                        *)
(***************************************************************************)
EXTENDS ReportOutboxRefinement, TLAPS

USE OutboxAssumption

(* Without torn writes an append adds its event or nothing.                *)
LEMMA WriteFacts ==
    ASSUME TearFree, OutboxInv, NEW e, NEW how \in Writes, WriteLine(e, how)
    PROVE  /\ tail' = "ended" /\ unended' = {}
           /\ how # "lost" => events' = events \union {e}
           /\ how = "lost" => events' = events
           /\ faults' \in 0..MaxFaults
<1>1. ~Joins
  BY DEF OutboxInv, Joins
<1>2. how \in {"ok", "lost", "late"}
  BY DEF TearFree, Writes
<1>3. faults' \in 0..MaxFaults
  BY DEF WriteLine, OutboxInv, TypeOK
<1>4. CASE how = "lost"
  BY <1>3, <1>4 DEF WriteLine, OutboxInv, ledger
<1>5. CASE how # "lost"
  <2>1. tail = "ended" /\ unended = {} /\ how # "partial" /\ how # "whole"
    BY <1>2, <1>5 DEF OutboxInv
  <2>2. tail' = "ended" /\ unended' = {} /\ events' = events \union {e}
    BY <1>1, <1>5, <2>1 DEF WriteLine
  <2> QED  BY <1>3, <1>5, <2>2
<1> QED  BY <1>4, <1>5

(* What the two ways to go on leave of a run's local state.                *)
LEMMA FinishFacts ==
    ASSUME OutboxInv, NEW w \in Worker, NEW answer \in Result, Finish(w, answer)
    PROVE  /\ pc' \in [Worker -> Stage] /\ claim' \in [Worker -> 0..issued]
           /\ result' \in [Worker -> Result]
           /\ pc'[w] = "idle" /\ claim'[w] = 0
           /\ \A v \in Worker \ {w} : pc'[v] = pc[v] /\ claim'[v] = claim[v]
<1>1. 0 \in 0..issued /\ "idle" \in Stage
  BY DEF OutboxInv, TypeOK, Stage
<1> QED  BY <1>1 DEF Finish, OutboxInv, TypeOK

LEMMA GotoFacts ==
    ASSUME OutboxInv, NEW w \in Worker, NEW s \in Stage, Goto(w, s)
    PROVE  /\ pc' \in [Worker -> Stage] /\ claim' \in [Worker -> 0..issued]
           /\ result' \in [Worker -> Result]
           /\ pc'[w] = s /\ claim'[w] = claim[w]
           /\ \A v \in Worker \ {w} : pc'[v] = pc[v] /\ claim'[v] = claim[v]
BY DEF Goto, OutboxInv, TypeOK

(* Ending a run, with any answer, gives up its claim only.                 *)
LEMMA FinishInv ==
    ASSUME OutboxInv, NEW w \in Worker, NEW answer \in Result,
           Finish(w, answer), UNCHANGED <<ledger, world>>,
           faults' \in 0..MaxFaults
    PROVE  OutboxInv'
<1>1. pc' = [pc EXCEPT ![w] = "idle"] /\ claim' = [claim EXCEPT ![w] = 0]
      /\ result' = [result EXCEPT ![w] = answer]
  BY DEF Finish
<1>2. /\ UNCHANGED <<events, unended, tail, issued, expired, delivered>>
      /\ Claims' = Claims
  BY DEF ledger, world, Claims, Claimed
<1>3. TypeOK'
  BY <1>1, <1>2 DEF OutboxInv, TypeOK, Stage
<1>4. Reducible' /\ ClaimsSound'
  BY <1>2 DEF OutboxInv, Reducible, ClaimsSound, Closed, Claims, Claimed,
              Confirmed, Ambiguous
<1>5. OwnersSound' /\ LockSound'
  BY <1>1, <1>2 DEF OutboxInv, TypeOK, OwnersSound, LockSound, Locked, Closed,
                    Confirmed, Ambiguous
<1> QED  BY <1>2, <1>3, <1>4, <1>5 DEF OutboxInv

(* Going on within a run that keeps its claim, if any, and the ledger.     *)
LEMMA GotoInv ==
    ASSUME OutboxInv, NEW w \in Worker, NEW s \in Stage \ {"closing", "send"},
           Goto(w, s), UNCHANGED <<ledger, issued, expired>>,
           pc[w] \in {"send", "confirm", "mark", "reconcile"}
               <=> s \in {"confirm", "mark", "reconcile"},
           delivered' \subseteq Claims,
           faults' \in 0..MaxFaults
    PROVE  OutboxInv'
<1>1. pc' = [pc EXCEPT ![w] = s] /\ UNCHANGED <<claim, result>>
  BY DEF Goto
<1>2. /\ UNCHANGED <<events, unended, tail, issued, expired>>
      /\ Claims' = Claims
  BY DEF ledger, Claims, Claimed
<1>3. TypeOK'
  BY <1>1, <1>2 DEF OutboxInv, TypeOK, Claims
<1>4. Reducible' /\ ClaimsSound'
  BY <1>2 DEF OutboxInv, Reducible, ClaimsSound, Closed, Claims, Claimed,
              Confirmed, Ambiguous
<1>5. OwnersSound' /\ LockSound'
  BY <1>1, <1>2 DEF OutboxInv, TypeOK, OwnersSound, LockSound, Locked, Closed,
                    Confirmed, Ambiguous
<1> QED  BY <1>2, <1>3, <1>4, <1>5 DEF OutboxInv

(* An event that answers the claim the run owns, or closes the active one. *)
LEMMA AnswerClaimInv ==
    ASSUME TearFree, OutboxInv, NEW w \in Worker, NEW c \in Claims,
           ActiveClaimed(c), ~Locked,
           NEW e \in {Confirmed(c), Ambiguous(c)},
           events' = events \/ events' = events \union {e},
           tail' = "ended", unended' = {}, UNCHANGED world,
           faults' \in 0..MaxFaults,
           pc' \in [Worker -> Stage], claim' \in [Worker -> 0..issued],
           result' \in [Worker -> Result],
           \A v \in Worker \ {w} : pc'[v] = pc[v] /\ claim'[v] = claim[v],
           \/ pc'[w] = "idle" /\ claim'[w] = 0
           \/ /\ pc'[w] = "closing" /\ claim'[w] = 0
              /\ events' = events \union {Ambiguous(c)}
           \/ /\ pc'[w] = "reconcile" /\ claim'[w] = claim[w]
              /\ pc[w] = "confirm",
           e = Confirmed(c) => claim[w] = c /\ pc[w] = "confirm"
    PROVE  OutboxInv'
<1>1. UNCHANGED <<issued, expired, delivered>>
  BY DEF world
<1>2. c \in 1..issued
  BY DEF Claims
<1>3. Claims' = Claims
  BY <1>1 DEF Claims, Claimed, Confirmed, Ambiguous
<1>4. TypeOK'
  <2>1. e \in [type : {"created", "claimed", "confirmed", "ambiguous"},
               claim : 0..issued]
    BY <1>2 DEF Confirmed, Ambiguous, OutboxInv, TypeOK
  <2> QED  BY <1>1, <2>1 DEF OutboxInv, TypeOK
<1>5. Reducible'
  <2> SUFFICES ASSUME NEW a \in 1..issued
               PROVE  /\ (Confirmed(a) \in events)' \/ (Ambiguous(a) \in events)'
                             => a \in Claims'
                      /\ ~((Confirmed(a) \in events)' /\ (Ambiguous(a) \in events)')
    BY <1>1 DEF Reducible
  <2>1. /\ Confirmed(a) \in events \/ Ambiguous(a) \in events => a \in Claims
        /\ ~(Confirmed(a) \in events /\ Ambiguous(a) \in events)
    BY DEF OutboxInv, Reducible
  <2>2. CASE a = c
    BY <1>3, <2>1, <2>2 DEF ActiveClaimed, Confirmed, Ambiguous
  <2>3. CASE a # c
    BY <1>3, <2>1, <2>3 DEF Confirmed, Ambiguous
  <2> QED  BY <2>2, <2>3
<1>6. \A d \in 1..issued :
         /\ Closed(d) => Closed(d)'
         /\ (Confirmed(d) \in events)' => Confirmed(d) \in events \/ d = c
  BY <1>1 DEF Closed, Confirmed, Ambiguous
<1>7. ClaimsSound'
  <2>1. \A d \in Claims : d <= c
    BY DEF ActiveClaimed, IsActive
  <2>2. \A a \in Claims' : Closed(a)' \/ \A d \in Claims' : d <= a
    BY <1>3, <1>6 DEF OutboxInv, ClaimsSound, Claims
  <2>3. \A a \in 1..issued' :
           (Confirmed(a) \in events)' => \A d \in Claims' : d <= a
    BY <1>1, <1>3, <1>6, <2>1 DEF OutboxInv, ClaimsSound
  <2>4. delivered' \subseteq Claims'
    BY <1>1, <1>3 DEF OutboxInv, ClaimsSound
  <2> QED  BY <2>2, <2>3, <2>4 DEF ClaimsSound
<1>8. OwnersSound'
  <2>1. \A v \in Worker :
          IF pc'[v] \in {"send", "confirm", "mark", "reconcile"}
            THEN claim'[v] \in Claims' ELSE claim'[v] = 0
    BY <1>3 DEF OutboxInv, OwnersSound
  <2>2. \A u, v \in Worker : claim'[u] = claim'[v] => u = v \/ claim'[v] = 0
    BY DEF OutboxInv, OwnersSound
  <2>3. \A v \in Worker : pc'[v] = "send" => (Confirmed(claim[v]) \notin events)'
    <3> SUFFICES ASSUME NEW v \in Worker, pc'[v] = "send"
                 PROVE  Confirmed(claim'[v]) \notin events'
      BY DEF Confirmed
    <3>1. v # w /\ claim'[v] = claim[v] /\ pc[v] = "send"
      OBVIOUS
    <3>2. claim[v] \in Claims /\ Confirmed(claim[v]) \notin events
      BY <3>1 DEF OutboxInv, OwnersSound
    <3>3. e = Confirmed(c) => claim[v] # c
      BY <3>1, <1>2 DEF OutboxInv, OwnersSound
    <3> QED  BY <3>1, <3>2, <3>3 DEF Confirmed, Ambiguous
  <2> QED  BY <2>1, <2>2, <2>3 DEF OwnersSound
<1>9. LockSound'
  <2>1. \A v \in Worker : pc'[v] = "closing" => v = w
    BY DEF Locked
  <2>2. Locked' => \A d \in Claims' : Closed(d)'
    <3> SUFFICES ASSUME Locked', NEW d \in Claims PROVE Closed(d)'
      BY <1>3
    <3>1. events' = events \union {Ambiguous(c)}
      BY <2>1 DEF Locked
    <3>2. Closed(d) \/ d = c
      <4>1. d \in 1..issued /\ d <= c
        BY DEF ActiveClaimed, IsActive, Claims
      <4>2. ~Closed(d) => c <= d
        BY DEF OutboxInv, ClaimsSound
      <4> QED  BY <1>2, <4>1, <4>2 DEF OutboxInv, TypeOK
    <3> QED  BY <3>1, <3>2 DEF Closed, Ambiguous
  <2> QED  BY <2>1, <2>2 DEF LockSound
<1> QED  BY <1>4, <1>5, <1>7, <1>8, <1>9 DEF OutboxInv

(* A new claim: all earlier ones are ambiguous.                            *)
LEMMA TakeClaimInv ==
    ASSUME TearFree, OutboxInv, NEW w \in Worker, TakeClaim(w),
           \A c \in Claims : Closed(c),
           pc[w] \in {"claim", "closing"},
           \A v \in Worker : pc[v] = "closing" => v = w
    PROVE  OutboxInv'
<1> DEFINE n == issued + 1
<1>1. PICK how \in Writes :
        /\ WriteLine(Claimed(n), how)
        /\ IF how = "ok"
             THEN /\ pc' = [pc EXCEPT ![w] = "send"]
                  /\ claim' = [claim EXCEPT ![w] = n]
                  /\ UNCHANGED result
             ELSE Raise(w)
  BY DEF TakeClaim
<1>2. issued' = n /\ UNCHANGED <<expired, delivered>>
  BY DEF TakeClaim
<1>3. /\ tail' = "ended" /\ unended' = {} /\ faults' \in 0..MaxFaults
      /\ how # "lost" => events' = events \union {Claimed(n)}
      /\ how = "lost" => events' = events
  BY <1>1, WriteFacts
<1>4. issued \in Nat /\ n \in Nat /\ n > issued /\ 1..n = 1..issued \union {n}
  BY DEF OutboxInv, TypeOK
<1>5. \A c : /\ (Confirmed(c) \in events)' <=> Confirmed(c) \in events
             /\ Closed(c)' <=> Closed(c)
  BY <1>3 DEF Confirmed, Ambiguous, Claimed, Closed
<1>6. /\ Confirmed(n) \notin events /\ ~Closed(n) /\ Claimed(n) \notin events
  BY <1>4 DEF OutboxInv, TypeOK, Confirmed, Ambiguous, Claimed, Closed
<1>7. Claims' = IF how = "lost" THEN Claims ELSE Claims \union {n}
  BY <1>2, <1>3, <1>4, <1>6 DEF Claims, Claimed
<1>8. \A c \in 1..issued : Confirmed(c) \notin events
  BY DEF OutboxInv, Reducible, Closed, Claims
<1>9. TypeOK'
  <2>1. events' \subseteq [type : {"created", "claimed", "confirmed", "ambiguous"},
                           claim : 0..issued']
    <3>1. Claimed(n) \in [type : {"created", "claimed", "confirmed", "ambiguous"},
                          claim : 0..issued']
      BY <1>2, <1>4 DEF Claimed
    <3>2. 0..issued \subseteq 0..issued'
      BY <1>2, <1>4
    <3> QED  BY <1>3, <3>1, <3>2 DEF OutboxInv, TypeOK
  <2>2. expired' \subseteq 1..issued' /\ delivered' \subseteq 1..issued'
    BY <1>2, <1>4 DEF OutboxInv, TypeOK
  <2>3. /\ pc' \in [Worker -> Stage] /\ claim' \in [Worker -> 0..issued']
        /\ result' \in [Worker -> Result]
    <3>1. /\ pc' \in [Worker -> Stage] /\ claim' \in [Worker -> 0..issued]
          /\ result' \in [Worker -> Result]
          \/ /\ pc' = [pc EXCEPT ![w] = "send"] /\ UNCHANGED result
             /\ claim' = [claim EXCEPT ![w] = n]
      <4>1. CASE how = "ok"
        BY <1>1, <4>1
      <4>2. CASE how # "ok"
        <5>1. Answer("raised", FALSE) \in Result
          BY DEF Answer, Result
        <5>2. Finish(w, Answer("raised", FALSE))
          BY <1>1, <4>2 DEF Raise
        <5> QED  BY <5>1, <5>2, FinishFacts
      <4> QED  BY <4>1, <4>2
    <3>2. 0..issued \subseteq 0..issued' /\ n \in 0..issued'
      BY <1>2, <1>4
    <3> QED  BY <3>1, <3>2 DEF OutboxInv, TypeOK, Stage
  <2> QED  BY <1>2, <1>3, <1>4, <2>1, <2>2, <2>3 DEF TypeOK
<1>10. Reducible'
  BY <1>2, <1>4, <1>5, <1>6, <1>8, <1>7 DEF OutboxInv, Reducible, Closed
<1>11. ClaimsSound'
  <2>1. \A c \in Claims' : Closed(c)' \/ \A d \in Claims' : d <= c
    BY <1>4, <1>5, <1>7 DEF Claims
  <2>2. \A c \in 1..issued' : (Confirmed(c) \in events)' => FALSE
    BY <1>2, <1>4, <1>5, <1>6, <1>8
  <2>3. delivered' \subseteq Claims'
    BY <1>2, <1>7 DEF OutboxInv, ClaimsSound
  <2> QED  BY <2>1, <2>2, <2>3 DEF ClaimsSound
<1>12. claim[w] = 0
  BY DEF OutboxInv, OwnersSound
<1>13. OwnersSound'
  <2>1. CASE how = "ok"
    <3>1. n \in Claims' /\ \A v \in Worker : claim[v] # n
      BY <1>4, <1>7, <2>1 DEF OutboxInv, TypeOK
    <3>2. pc' = [pc EXCEPT ![w] = "send"] /\ claim' = [claim EXCEPT ![w] = n]
      BY <1>1, <2>1
    <3>3. \A v \in Worker : pc'[v] = "send" => (Confirmed(claim[v]) \notin events)'
      <4> SUFFICES ASSUME NEW v \in Worker, pc'[v] = "send"
                   PROVE  Confirmed(claim'[v]) \notin events
        BY <1>5 DEF Confirmed
      <4>1. CASE v = w
        BY <1>6, <3>2, <4>1 DEF OutboxInv, TypeOK
      <4>2. CASE v # w
        BY <3>2, <4>2 DEF OutboxInv, TypeOK, OwnersSound
      <4> QED  BY <4>1, <4>2
    <3>4. \A v \in Worker :
            IF pc'[v] \in {"send", "confirm", "mark", "reconcile"}
              THEN claim'[v] \in Claims' ELSE claim'[v] = 0
      BY <3>1, <3>2, <1>7 DEF OutboxInv, TypeOK, OwnersSound
    <3>5. \A u, v \in Worker : claim'[u] = claim'[v] => u = v \/ claim'[v] = 0
      BY <3>1, <3>2 DEF OutboxInv, TypeOK, OwnersSound
    <3> QED  BY <3>3, <3>4, <3>5 DEF OwnersSound
  <2>2. CASE how # "ok"
    <3>1. pc' = [pc EXCEPT ![w] = "idle"] /\ claim' = [claim EXCEPT ![w] = 0]
      BY <1>1, <2>2 DEF Raise, Finish
    <3>2. \A v \in Worker : pc'[v] = "send" => (Confirmed(claim[v]) \notin events)'
      <4> SUFFICES ASSUME NEW v \in Worker, pc'[v] = "send"
                   PROVE  Confirmed(claim'[v]) \notin events
        BY <1>5 DEF Confirmed
      <4> QED  BY <3>1 DEF OutboxInv, TypeOK, OwnersSound
    <3> QED  BY <3>1, <3>2, <1>7 DEF OutboxInv, TypeOK, OwnersSound
  <2> QED  BY <2>1, <2>2
<1>14. LockSound'
  <2>1. \A v \in Worker : pc'[v] # "closing"
    BY <1>1 DEF OutboxInv, TypeOK, Raise, Finish
  <2> QED  BY <2>1 DEF LockSound, Locked
<1> QED  BY <1>3, <1>9, <1>10, <1>11, <1>13, <1>14 DEF OutboxInv

(* The section of a run that owns a claim, after the send.                 *)
LEMMA ConfirmInv ==
    ASSUME TearFree, OutboxInv, NEW w \in Worker, ConfirmSend(w)
    PROVE  OutboxInv'
<1>1. pc[w] = "confirm" /\ ~Locked /\ UNCHANGED world
  BY DEF ConfirmSend
<1>2. claim[w] \in Claims
  BY <1>1 DEF OutboxInv, OwnersSound
<1>3. Answer("confirmed", TRUE) \in Result
  BY DEF Answer, Result
<1>4. ASSUME Finish(w, Answer("confirmed", TRUE)), UNCHANGED <<ledger, faults>>
      PROVE  OutboxInv'
  BY <1>1, <1>3, <1>4, FinishInv DEF OutboxInv, TypeOK
<1>5. ASSUME Goto(w, "reconcile"), UNCHANGED <<ledger, faults>>
      PROVE  OutboxInv'
  <2>1. delivered' \subseteq Claims /\ faults' \in 0..MaxFaults
        /\ UNCHANGED <<ledger, issued, expired>>
    BY <1>1, <1>5 DEF world, OutboxInv, TypeOK, ClaimsSound
  <2>2. "reconcile" \in Stage \ {"closing", "send"}
    BY DEF Stage
  <2> QED  BY <1>1, <1>5, <2>1, <2>2, GotoInv
<1>6. ASSUME ActiveClaimed(claim[w]), NEW how \in Writes,
             WriteLine(Confirmed(claim[w]), how),
             IF how = "ok" THEN Finish(w, Answer("confirmed", TRUE))
                           ELSE Goto(w, "reconcile")
      PROVE  OutboxInv'
  <2>1. /\ tail' = "ended" /\ unended' = {} /\ faults' \in 0..MaxFaults
        /\ events' = events \/ events' = events \union {Confirmed(claim[w])}
    BY <1>6, WriteFacts
  <2>2. /\ pc' \in [Worker -> Stage] /\ claim' \in [Worker -> 0..issued]
        /\ result' \in [Worker -> Result]
        /\ \A v \in Worker \ {w} : pc'[v] = pc[v] /\ claim'[v] = claim[v]
        /\ \/ pc'[w] = "idle" /\ claim'[w] = 0
           \/ pc'[w] = "reconcile" /\ claim'[w] = claim[w]
    BY <1>3, <1>6, FinishFacts, GotoFacts DEF Stage
  <2> QED  BY <1>1, <1>2, <1>6, <2>1, <2>2, AnswerClaimInv
<1> QED  BY <1>4, <1>5, <1>6 DEF ConfirmSend, Confirmable

(* A run that gives up its claim, with or without closing it.              *)
LEMMA GiveUpInv ==
    ASSUME TearFree, OutboxInv, NEW w \in Worker,
           pc[w] \in {"mark", "reconcile"}, ~Locked, UNCHANGED world,
           NEW answer \in Result, Finish(w, answer),
           \/ UNCHANGED <<ledger, faults>>
           \/ /\ ActiveClaimed(claim[w])
              /\ \E how \in Writes : WriteLine(Ambiguous(claim[w]), how)
    PROVE  OutboxInv'
<1>1. claim[w] \in Claims
  BY DEF OutboxInv, OwnersSound
<1>2. CASE UNCHANGED <<ledger, faults>>
  BY <1>2, FinishInv DEF OutboxInv, TypeOK
<1>3. ASSUME ActiveClaimed(claim[w]), NEW how \in Writes,
             WriteLine(Ambiguous(claim[w]), how)
      PROVE  OutboxInv'
  <2>1. /\ tail' = "ended" /\ unended' = {} /\ faults' \in 0..MaxFaults
        /\ events' = events \/ events' = events \union {Ambiguous(claim[w])}
    BY <1>3, WriteFacts
  <2>2. /\ pc' \in [Worker -> Stage] /\ claim' \in [Worker -> 0..issued]
        /\ result' \in [Worker -> Result]
        /\ \A v \in Worker \ {w} : pc'[v] = pc[v] /\ claim'[v] = claim[v]
        /\ pc'[w] = "idle" /\ claim'[w] = 0
    BY FinishFacts
  <2>3. Ambiguous(claim[w]) # Confirmed(claim[w])
    BY DEF Ambiguous, Confirmed
  <2> QED  BY <1>1, <1>3, <2>1, <2>2, <2>3, AnswerClaimInv
<1> QED  BY <1>2, <1>3

LEMMA CloseInv ==
    ASSUME TearFree, OutboxInv, NEW w \in Worker, CloseExpired(w)
    PROVE  OutboxInv'
<1>1. pc[w] = "claim" /\ ~Locked /\ UNCHANGED world
  BY DEF CloseExpired
<1>2. PICK c \in Claims, how \in Writes :
        /\ ActiveClaimed(c) /\ WriteLine(Ambiguous(c), how)
        /\ IF how = "ok" THEN Goto(w, "closing") ELSE Raise(w)
  BY DEF CloseExpired, Closable
<1>3. /\ tail' = "ended" /\ unended' = {} /\ faults' \in 0..MaxFaults
      /\ events' = events \/ events' = events \union {Ambiguous(c)}
      /\ how = "ok" => events' = events \union {Ambiguous(c)}
  BY <1>2, WriteFacts
<1>4. claim[w] = 0 /\ Answer("raised", FALSE) \in Result
  BY <1>1 DEF OutboxInv, OwnersSound, Answer, Result
<1>5. /\ pc' \in [Worker -> Stage] /\ claim' \in [Worker -> 0..issued]
      /\ result' \in [Worker -> Result]
      /\ \A v \in Worker \ {w} : pc'[v] = pc[v] /\ claim'[v] = claim[v]
      /\ claim'[w] = 0
      /\ IF how = "ok" THEN pc'[w] = "closing" ELSE pc'[w] = "idle"
  BY <1>2, <1>4, FinishFacts, GotoFacts DEF Raise, Stage
<1>6. Ambiguous(c) # Confirmed(c)
  BY DEF Ambiguous, Confirmed
<1> QED  BY <1>1, <1>2, <1>3, <1>5, <1>6, AnswerClaimInv

(* REPORT_CREATED says nothing of claims.                                  *)
LEMMA CreateInv ==
    ASSUME TearFree, OutboxInv, NEW w \in Worker, CreateReport(w)
    PROVE  OutboxInv'
<1>1. pc[w] = "create" /\ UNCHANGED world
  BY DEF CreateReport
<1>2. Answer("raised", FALSE) \in Result /\ "claim" \in Stage \ {"closing", "send"}
  BY DEF Answer, Result, Stage
<1>3. ASSUME Raise(w), UNCHANGED <<ledger, faults>> PROVE OutboxInv'
  BY <1>1, <1>2, <1>3, FinishInv DEF Raise, OutboxInv, TypeOK
<1>4. ASSUME Goto(w, "claim"), UNCHANGED <<ledger, faults>> PROVE OutboxInv'
  <2>1. delivered' \subseteq Claims /\ faults' \in 0..MaxFaults
        /\ UNCHANGED <<ledger, issued, expired>>
    BY <1>1, <1>4 DEF world, OutboxInv, TypeOK, ClaimsSound
  <2> QED  BY <1>1, <1>2, <1>4, <2>1, GotoInv
<1>5. ASSUME NEW how \in Writes, WriteLine(Created, how),
             IF how = "ok" THEN Goto(w, "claim") ELSE Raise(w)
      PROVE  OutboxInv'
  <2>1. /\ tail' = "ended" /\ unended' = {} /\ faults' \in 0..MaxFaults
        /\ events' = events \/ events' = events \union {Created}
    BY <1>5, WriteFacts
  <2>2. UNCHANGED <<issued, expired, delivered>>
    BY <1>1 DEF world
  <2>3. \A c : /\ (Confirmed(c) \in events)' <=> Confirmed(c) \in events
               /\ (Ambiguous(c) \in events)' <=> Ambiguous(c) \in events
               /\ (Claimed(c) \in events)' <=> Claimed(c) \in events
    BY <2>1 DEF Confirmed, Ambiguous, Claimed, Created
  <2>4. Claims' = Claims
    BY <2>2, <2>3 DEF Claims
  <2>5. claim[w] = 0
    BY <1>1 DEF OutboxInv, OwnersSound
  <2>6. /\ pc' \in [Worker -> Stage] /\ claim' = claim
        /\ result' \in [Worker -> Result]
        /\ \A v \in Worker \ {w} : pc'[v] = pc[v]
        /\ pc'[w] \in {"claim", "idle"}
    BY <1>2, <1>5, <2>5 DEF Raise, Finish, Goto, OutboxInv, TypeOK, Stage
  <2>7. TypeOK'
    <3>1. Created \in [type : {"created", "claimed", "confirmed", "ambiguous"},
                       claim : 0..issued]
      BY DEF Created, OutboxInv, TypeOK
    <3> QED  BY <2>1, <2>2, <2>6, <3>1 DEF OutboxInv, TypeOK
  <2>8. Reducible' /\ ClaimsSound'
    BY <2>2, <2>3, <2>4 DEF OutboxInv, Reducible, ClaimsSound, Closed
  <2>9. OwnersSound'
    <3>1. \A v \in Worker : pc'[v] = "send" => (Confirmed(claim[v]) \notin events)'
      BY <2>3, <2>6 DEF OutboxInv, OwnersSound, Confirmed
    <3> QED  BY <1>1, <2>4, <2>5, <2>6, <3>1 DEF OutboxInv, OwnersSound
  <2>10. LockSound'
    BY <2>3, <2>4, <2>6 DEF OutboxInv, LockSound, Locked, Closed
  <2> QED  BY <2>1, <2>7, <2>8, <2>9, <2>10 DEF OutboxInv
<1> QED  BY <1>3, <1>4, <1>5 DEF CreateReport

LEMMA SendInv ==
    ASSUME OutboxInv, NEW w \in Worker, Send(w)
    PROVE  OutboxInv'
<1>1. PICK out \in SendOutcome :
        /\ out # Good => faults < MaxFaults
        /\ faults' = IF out = Good THEN faults ELSE faults + 1
        /\ delivered' = IF out.delivered THEN delivered \union {claim[w]}
                                         ELSE delivered
        /\ Goto(w, AfterSend(out))
  BY DEF Send
<1>2. pc[w] = "send" /\ UNCHANGED <<ledger, issued, expired>>
  BY DEF Send
<1>3. AfterSend(out) \in {"mark", "confirm"}
  BY DEF AfterSend
<1>4. claim[w] \in Claims /\ delivered' \subseteq Claims
  BY <1>1, <1>2 DEF OutboxInv, OwnersSound, ClaimsSound
<1>5. faults' \in 0..MaxFaults
  BY <1>1 DEF OutboxInv, TypeOK
<1> QED  BY <1>1, <1>2, <1>3, <1>4, <1>5, GotoInv DEF Stage

LEMMA StartInv ==
    ASSUME OutboxInv, NEW w \in Worker, Start(w)
    PROVE  OutboxInv'
<1>1. /\ pc[w] = "idle" /\ pc' = [pc EXCEPT ![w] = "create"]
      /\ result' = [result EXCEPT ![w] = Answer("none", FALSE)]
      /\ UNCHANGED <<events, unended, tail, issued, expired, delivered, claim,
                     faults>>
  BY DEF Start, ledger, world
<1>2. Claims' = Claims
  BY <1>1 DEF Claims, Claimed
<1>3. Answer("none", FALSE) \in Result
  BY DEF Answer, Result
<1>4. TypeOK'
  BY <1>1, <1>3 DEF OutboxInv, TypeOK, Stage
<1>5. Reducible' /\ ClaimsSound'
  BY <1>1, <1>2 DEF OutboxInv, Reducible, ClaimsSound, Closed, Confirmed, Ambiguous
<1>6. OwnersSound' /\ LockSound'
  BY <1>1, <1>2 DEF OutboxInv, TypeOK, OwnersSound, LockSound, Locked, Closed,
                    Confirmed, Ambiguous
<1> QED  BY <1>1, <1>4, <1>5, <1>6 DEF OutboxInv

LEMMA ExpiresInv ==
    ASSUME OutboxInv, NEW c \in Claims, LeaseExpires(c)
    PROVE  OutboxInv'
<1>1. /\ expired' = expired \union {c}
      /\ UNCHANGED <<events, unended, tail, issued, delivered, pc, claim, result>>
      /\ c \in 1..issued
  BY DEF LeaseExpires, ledger, runs, Claims
<1>2. faults' \in 0..MaxFaults
  BY DEF LeaseExpires, OutboxInv, TypeOK
<1>3. Claims' = Claims
  BY <1>1 DEF Claims, Claimed
<1>4. TypeOK'
  BY <1>1, <1>2 DEF OutboxInv, TypeOK
<1> QED  BY <1>1, <1>3, <1>4 DEF OutboxInv, Reducible, ClaimsSound, OwnersSound,
           LockSound, Locked, Closed, Confirmed, Ambiguous

-----------------------------------------------------------------------------
LEMMA OutboxInit == Init => OutboxInv
<1> SUFFICES ASSUME Init PROVE OutboxInv
  OBVIOUS
<1>1. Claims = {} /\ \A c : c \notin 1..issued
  BY DEF Init, Claims
<1>2. TypeOK
  BY DEF Init, TypeOK, Stage, Result, Answer
<1> QED  BY <1>1, <1>2 DEF Init, OutboxInv, Reducible, ClaimsSound, OwnersSound,
           LockSound, Locked

LEMMA OutboxStep ==
    ASSUME TearFree, OutboxInv, [Next]_vars
    PROVE  OutboxInv'
<1>1. CASE UNCHANGED vars
  BY <1>1 DEF vars, ledger, world, runs, OutboxInv, TypeOK, Reducible,
     ClaimsSound, OwnersSound, LockSound, Locked, Closed, Claims, Claimed,
     Confirmed, Ambiguous
<1>2. \A s \in {"skipped", "failed", "none", "raised", "confirmed", "ambiguous"},
         b \in BOOLEAN : Answer(s, b) \in Result
  BY DEF Answer, Result
<1>3. ASSUME NEW w \in Worker, RunStep(w) PROVE OutboxInv'
  <2>1. CASE CreateReport(w)  BY <2>1, CreateInv
  <2>2. CASE ClaimFreeSlot(w)
    <3>1. \A c \in Claims : Closed(c)
      BY <2>2 DEF ClaimFreeSlot, SlotFree, ActiveAmbiguous, IsActive, Closed,
                  OutboxInv, ClaimsSound
    <3>2. pc[w] = "claim" /\ TakeClaim(w) /\ \A v \in Worker : pc[v] # "closing"
      BY <2>2 DEF ClaimFreeSlot, Locked
    <3> QED  BY <3>1, <3>2, TakeClaimInv
  <2>3. CASE CloseExpired(w)  BY <2>3, CloseInv
  <2>4. CASE ClaimClosedSlot(w)
    <3>1. pc[w] = "closing" /\ TakeClaim(w)
      BY <2>4 DEF ClaimClosedSlot
    <3>2. /\ \A c \in Claims : Closed(c)
          /\ \A v \in Worker : pc[v] = "closing" => v = w
      BY <3>1 DEF OutboxInv, LockSound, Locked
    <3> QED  BY <3>1, <3>2, TakeClaimInv
  <2>5. CASE SkipSend(w) \/ BlockSend(w)
    BY <1>2, <2>5, FinishInv DEF SkipSend, BlockSend, OutboxInv, TypeOK
  <2>6. CASE FailBuild(w)
    <3>1. faults' \in 0..MaxFaults
      BY <2>6 DEF FailBuild, OutboxInv, TypeOK
    <3> QED  BY <1>2, <2>6, <3>1, FinishInv DEF FailBuild
  <2>7. CASE Send(w)  BY <2>7, SendInv
  <2>8. CASE ConfirmSend(w)  BY <2>8, ConfirmInv
  <2>9. CASE Reconcile(w)
    <3>1. PICK answer \in Result : Finish(w, answer)
      BY <1>2, <2>9 DEF Reconcile, ReconciledAs
    <3>2. /\ pc[w] = "reconcile" /\ ~Locked /\ UNCHANGED world
          /\ \/ UNCHANGED <<ledger, faults>>
             \/ /\ ActiveClaimed(claim[w])
                /\ \E how \in Writes : WriteLine(Ambiguous(claim[w]), how)
      BY <2>9 DEF Reconcile
    <3> QED  BY <3>1, <3>2, GiveUpInv
  <2>10. CASE MarkAmbiguous(w)
    <3>1. /\ pc[w] = "mark" /\ ~Locked /\ UNCHANGED world
          /\ Finish(w, Answer("ambiguous", FALSE))
          /\ \/ UNCHANGED <<ledger, faults>>
             \/ /\ ActiveClaimed(claim[w])
                /\ \E how \in Writes : WriteLine(Ambiguous(claim[w]), how)
      BY <2>10 DEF MarkAmbiguous
    <3> QED  BY <1>2, <3>1, GiveUpInv
  <2> QED  BY <1>3, <2>1, <2>2, <2>3, <2>4, <2>5, <2>6, <2>7, <2>8, <2>9, <2>10
           DEF RunStep
<1>4. ASSUME NEW w \in Worker, Crash(w) PROVE OutboxInv'
  <2>1. faults' \in 0..MaxFaults
    BY <1>4 DEF Crash, OutboxInv, TypeOK
  <2> QED  BY <1>2, <1>4, <2>1, FinishInv DEF Crash, Raise
<1> QED  BY <1>1, <1>3, <1>4, StartInv, ExpiresInv DEF Next

(* On a file system that does not tear lines the history of claims, the    *)
(* runs that own them and the lock always fit together.                    *)
THEOREM OutboxInvariance == TearFree /\ Spec => []OutboxInv
<1>1. CASE TearFree
  <2>1. OutboxInv /\ [Next]_vars => OutboxInv'
    BY <1>1, OutboxStep
  <2> QED  BY <2>1, OutboxInit, PTL DEF Spec
<1> QED  BY <1>1

(* Every message that reached Telegram is accounted for by the active      *)
(* claim or by a SEND_AMBIGUOUS.                                           *)
THEOREM DuplicatesRecorded == TearFree /\ Spec => []DuplicatesAreRecorded
<1>1. OutboxInv => DuplicatesAreRecorded
  BY DEF OutboxInv, DuplicatesAreRecorded, ClaimsSound, Closed, IsActive
<1> QED  BY <1>1, OutboxInvariance, PTL

(* Once the report is confirmed, only a superseded run still sends it.     *)
THEOREM ConfirmedStops == TearFree /\ Spec => ConfirmedStopsSending
<1> DEFINE Step == \A c \in delivered' \ delivered :
                      IsConfirmed => Ambiguous(c) \in events
<1>1. OutboxInv /\ [Next]_vars => [Step]_vars
  <2> SUFFICES ASSUME OutboxInv, Next, NEW c \in delivered' \ delivered,
                      IsConfirmed
               PROVE  Ambiguous(c) \in events
    OBVIOUS
  <2>1. PICK w \in Worker : Send(w)
    BY DEF Next, RunStep, Start, CreateReport, ClaimFreeSlot, CloseExpired,
       ClaimClosedSlot, TakeClaim, SkipSend, BlockSend, FailBuild, ConfirmSend,
       Reconcile, MarkAmbiguous, Crash, LeaseExpires, world
  <2>2. c = claim[w] /\ pc[w] = "send"
    BY <2>1 DEF Send
  <2>3. c \in Claims /\ Confirmed(c) \notin events
    BY <2>2 DEF OutboxInv, OwnersSound
  <2>4. PICK d \in 1..issued : Confirmed(d) \in events
    BY DEF IsConfirmed
  <2>5. d \in Claims /\ d # c /\ c <= d
    BY <2>3, <2>4 DEF OutboxInv, Reducible, ClaimsSound
  <2>6. ~(\A e \in Claims : e <= c)
    BY <2>3, <2>5 DEF Claims, OutboxInv, TypeOK
  <2> QED  BY <2>3, <2>6 DEF OutboxInv, ClaimsSound, Closed
<1> QED  BY <1>1, OutboxInvariance, PTL DEF Spec, ConfirmedStopsSending

-----------------------------------------------------------------------------
(* What every step leaves alone: events and ids only grow, and a new       *)
(* SEND_CONFIRMED is that of a run in _confirm_send.                       *)
LEMMA LedgerGrows ==
    ASSUME TearFree, OutboxInv, Next
    PROVE  /\ events \subseteq events' /\ issued <= issued'
           /\ \A c : Confirmed(c) \in events' =>
                 \/ Confirmed(c) \in events
                 \/ \E w \in Worker : c = claim[w] /\ ConfirmSend(w)
<1> DEFINE Quiet == /\ events \subseteq events' /\ issued <= issued'
                    /\ \A c : Confirmed(c) \in events' => Confirmed(c) \in events
<1>1. ASSUME NEW e, NEW how \in Writes, WriteLine(e, how)
      PROVE  events' = events \/ events' = events \union {e}
  BY <1>1, WriteFacts
<1>2. ASSUME UNCHANGED <<events, issued>> PROVE Quiet
  BY <1>2 DEF OutboxInv, TypeOK
<1>3. ASSUME NEW w \in Worker, TakeClaim(w)
      PROVE  Quiet
  <2>1. PICK how \in Writes : WriteLine(Claimed(issued + 1), how)
    BY <1>3 DEF TakeClaim
  <2>2. events' = events \/ events' = events \union {Claimed(issued + 1)}
    BY <2>1, <1>1
  <2>3. issued' = issued + 1
    BY <1>3 DEF TakeClaim
  <2> QED  BY <2>2, <2>3 DEF Confirmed, Claimed, OutboxInv, TypeOK
<1>4. ASSUME NEW c0, NEW how \in Writes, UNCHANGED issued,
             WriteLine(Created, how) \/ WriteLine(Ambiguous(c0), how)
      PROVE  Quiet
  <2>1. \/ events' = events \/ events' = events \union {Created}
        \/ events' = events \union {Ambiguous(c0)}
    BY <1>1, <1>4
  <2> QED  BY <1>4, <2>1 DEF Confirmed, Created, Ambiguous, OutboxInv, TypeOK
<1>5. ASSUME NEW w \in Worker, ConfirmSend(w)
      PROVE  /\ events \subseteq events' /\ issued <= issued'
             /\ \A c : Confirmed(c) \in events' =>
                   Confirmed(c) \in events \/ c = claim[w]
  <2>1. events' = events \/ events' = events \union {Confirmed(claim[w])}
    BY <1>5, <1>1 DEF ConfirmSend, ledger
  <2>2. issued' = issued
    BY <1>5 DEF ConfirmSend, world
  <2> QED  BY <2>1, <2>2 DEF Confirmed, OutboxInv, TypeOK
<1>6. ASSUME NEW w \in Worker, RunStep(w) PROVE Quiet \/ ConfirmSend(w)
  <2>1. CASE CreateReport(w)
    BY <1>2, <1>4, <2>1 DEF CreateReport, ledger, world
  <2>2. CASE ClaimFreeSlot(w) \/ ClaimClosedSlot(w)
    BY <1>3, <2>2 DEF ClaimFreeSlot, ClaimClosedSlot
  <2>3. CASE CloseExpired(w)
    BY <1>4, <2>3 DEF CloseExpired, world
  <2>4. CASE SkipSend(w) \/ BlockSend(w) \/ FailBuild(w) \/ Send(w)
    BY <1>2, <2>4 DEF SkipSend, BlockSend, FailBuild, Send, ledger, world
  <2>5. CASE ConfirmSend(w)
    BY <2>5
  <2>6. CASE Reconcile(w) \/ MarkAmbiguous(w)
    <3>1. UNCHANGED issued
      BY <2>6 DEF Reconcile, MarkAmbiguous, world
    <3>2. CASE UNCHANGED ledger
      BY <1>2, <3>1, <3>2 DEF ledger
    <3>3. CASE \E how \in Writes : WriteLine(Ambiguous(claim[w]), how)
      BY <1>4, <3>1, <3>3
    <3> QED  BY <2>6, <3>2, <3>3 DEF Reconcile, MarkAmbiguous
  <2> QED  BY <1>6, <2>1, <2>2, <2>3, <2>4, <2>5, <2>6 DEF RunStep
<1>7. ASSUME NEW w \in Worker, Start(w) \/ Crash(w) PROVE Quiet
  BY <1>2, <1>7 DEF Start, Crash, ledger, world
<1>8. ASSUME NEW c \in Claims, LeaseExpires(c) PROVE Quiet
  BY <1>2, <1>8 DEF LeaseExpires, ledger
<1> QED  BY <1>5, <1>6, <1>7, <1>8 DEF Next

-----------------------------------------------------------------------------
(* Whatever an append leaves of its line.                                  *)
LEMMA AnyWrite ==
    ASSUME TypeOK, NEW e, NEW how \in Writes, WriteLine(e, how)
    PROVE  /\ events' \subseteq events \union {e} /\ unended' \subseteq events'
           /\ tail' \in {"ended", "torn", "junk", "corrupt"}
           /\ faults' \in 0..MaxFaults
<1>1. faults' \in 0..MaxFaults
  BY DEF WriteLine, TypeOK
<1>2. CASE how = "lost"
  BY <1>1, <1>2 DEF WriteLine, TypeOK, ledger
<1>3. CASE how # "lost"
  <2>1. tail' \in {"ended", "torn", "junk", "corrupt"}
    BY <1>3 DEF WriteLine, TypeOK
  <2>2. /\ events' = (events \ unended)
                        \union (IF Joins \/ how = "partial" THEN {} ELSE {e})
        /\ unended' = IF how = "whole" /\ ~Joins /\ tail = "ended" THEN {e} ELSE {}
    BY <1>3 DEF WriteLine
  <2> QED  BY <1>1, <2>1, <2>2
<1> QED  BY <1>2, <1>3

(* A new event that answers an open claim, or none, leaves a history.      *)
LEMMA WriteKeeps ==
    ASSUME TypeOK, ReducibleIn(events), ReducibleIn(events \ unended),
           NEW e, e \notin events, NEW how \in Writes, WriteLine(e, how),
           issued' \in Nat, issued <= issued',
           \A c : e \in {Confirmed(c), Ambiguous(c)} => ActiveClaimed(c)
    PROVE  ReducibleIn(events)' /\ ReducibleIn(events \ unended)'
<1> DEFINE Sound(S) ==
              \A c \in 1..issued' :
                 /\ Confirmed(c) \in S \/ Ambiguous(c) \in S => Claimed(c) \in S
                 /\ ~(Confirmed(c) \in S /\ Ambiguous(c) \in S)
<1>1. \A c : Confirmed(c) \in events \/ Ambiguous(c) \in events => c \in 0..issued
  BY DEF TypeOK, Confirmed, Ambiguous
<1>2. Sound(events) /\ Sound(events \ unended)
  <2>1. \A c \in 1..issued' : c \in 0..issued => c \in 1..issued
    BY DEF TypeOK
  <2> QED  BY <1>1, <2>1 DEF ReducibleIn
<1>3. Sound(events \union {e})
  <2> SUFFICES ASSUME NEW c \in 1..issued'
               PROVE  LET T == events \union {e} IN
                      /\ Confirmed(c) \in T \/ Ambiguous(c) \in T => Claimed(c) \in T
                      /\ ~(Confirmed(c) \in T /\ Ambiguous(c) \in T)
    OBVIOUS
  <2>1. Confirmed(c) # Ambiguous(c)
    BY DEF Confirmed, Ambiguous
  <2>2. CASE e \in {Confirmed(c), Ambiguous(c)}
    BY <2>1, <2>2 DEF ActiveClaimed, IsActive, Claims
  <2>3. CASE e \notin {Confirmed(c), Ambiguous(c)}
    BY <1>2, <2>3
  <2> QED  BY <2>2, <2>3
<1>4. \/ events' = events /\ unended' = unended
      \/ events' = events \ unended /\ unended' = {}
      \/ unended = {} /\ events' = events \union {e} /\ unended' \subseteq {e}
  BY DEF WriteLine, Joins, ledger
<1>5. Sound(events') /\ Sound(events' \ unended')
  <2>1. CASE events' = events /\ unended' = unended
    BY <1>2, <2>1
  <2>2. CASE events' = events \ unended /\ unended' = {}
    <3>1. events' \ unended' = events'
      BY <2>2
    <3> QED  BY <1>2, <2>2, <3>1
  <2>3. CASE unended = {} /\ events' = events \union {e} /\ unended' \subseteq {e}
    <3>1. \/ events' \ unended' = events \union {e}
          \/ events' \ unended' = events
      BY <2>3
    <3> QED  BY <1>2, <1>3, <2>3, <3>1
  <2> QED  BY <1>4, <2>1, <2>2, <2>3
<1> QED  BY <1>5 DEF ReducibleIn, Confirmed, Ambiguous, Claimed

(* What a step does to the ledger: nothing, or the append of one event.    *)
Records(e) ==
    /\ \E how \in Writes : WriteLine(e, how)
    /\ e \notin events
    /\ e \in [type : {"created", "claimed", "confirmed", "ambiguous"},
              claim : 0..issued]
    /\ \A c : e \in {Confirmed(c), Ambiguous(c)} => ActiveClaimed(c)
    /\ Raising /\ DeliverySound => \A c : e = Confirmed(c) => c \in delivered

Quietly == UNCHANGED <<events, unended, tail>> /\ faults' \in 0..MaxFaults

(* Where a step leaves its run: at rest, or at work on the claim it had.   *)
Rests(w) ==
    /\ \E s \in Stage \ {"send", "confirm", "reconcile"} :
          pc' = [pc EXCEPT ![w] = s]
    /\ \/ claim' = claim
       \/ claim' = [claim EXCEPT ![w] = 0]
    /\ \E a \in Result : result' = [result EXCEPT ![w] = a]

LEMMA HistoryKept ==
    ASSUME HistoryInv, NEW w \in Worker,
           UNCHANGED <<issued, expired>>,
           Quietly \/ \E e : Records(e),
           \/ Rests(w) /\ delivered' = delivered
           \/ /\ \E s \in {"confirm", "mark", "reconcile"} : Goto(w, s)
              /\ delivered \subseteq delivered' /\ delivered' \subseteq 1..issued
              /\ Raising /\ DeliverySound /\ pc'[w] \in {"confirm", "reconcile"} =>
                    claim[w] \in delivered'
    PROVE  HistoryInv'
<1>1. TypeOK /\ ReducibleIn(events) /\ ReducibleIn(events \ unended)
  BY DEF HistoryInv
<1>2. /\ pc' \in [Worker -> Stage] /\ claim' \in [Worker -> 0..issued]
      /\ result' \in [Worker -> Result]
      /\ pc'[w] # "send"
      /\ \A v \in Worker \ {w} : pc'[v] = pc[v] /\ claim'[v] = claim[v]
      /\ delivered \subseteq delivered' /\ delivered' \subseteq 1..issued
      /\ Raising /\ DeliverySound /\ pc'[w] \in {"confirm", "reconcile"} =>
            claim'[w] \in delivered'
  <2>1. CASE Rests(w) /\ delivered' = delivered
    <3>1. 0 \in 0..issued
      BY <1>1 DEF TypeOK
    <3> QED  BY <1>1, <2>1, <3>1 DEF Rests, TypeOK
  <2>2. CASE /\ \E s \in {"confirm", "mark", "reconcile"} : Goto(w, s)
             /\ delivered \subseteq delivered' /\ delivered' \subseteq 1..issued
             /\ Raising /\ DeliverySound /\ pc'[w] \in {"confirm", "reconcile"} =>
                   claim[w] \in delivered'
    <3>1. {"confirm", "mark", "reconcile"} \subseteq Stage
      BY DEF Stage
    <3> QED  BY <1>1, <2>2, <3>1 DEF Goto, TypeOK
  <2> QED  BY <2>1, <2>2
<1>3. /\ events' \subseteq [type : {"created", "claimed", "confirmed", "ambiguous"},
                            claim : 0..issued]
      /\ unended' \subseteq events' /\ tail' \in {"ended", "torn", "junk", "corrupt"}
      /\ faults' \in 0..MaxFaults
      /\ Raising /\ DeliverySound => \A c \in 1..issued : Confirmed(c) \in events' =>
            Confirmed(c) \in events \/ c \in delivered
  <2>1. CASE Quietly
    BY <1>1, <2>1 DEF Quietly, TypeOK
  <2>2. ASSUME NEW e, Records(e)
        PROVE  /\ events' \subseteq events \union {e} /\ unended' \subseteq events'
               /\ tail' \in {"ended", "torn", "junk", "corrupt"}
               /\ faults' \in 0..MaxFaults
    BY <1>1, <2>2, AnyWrite DEF Records
  <2> QED  BY <1>1, <2>1, <2>2 DEF Records, TypeOK
<1>4. TypeOK'
  BY <1>1, <1>2, <1>3 DEF TypeOK
<1>5. ReducibleIn(events)' /\ ReducibleIn(events \ unended)'
  <2>1. CASE Quietly
    BY <1>1, <2>1 DEF Quietly, ReducibleIn, Confirmed, Ambiguous, Claimed
  <2>2. ASSUME NEW e, Records(e) PROVE ReducibleIn(events)' /\ ReducibleIn(events \ unended)'
    <3>1. issued' \in Nat /\ issued <= issued'
      BY <1>1 DEF TypeOK
    <3> QED  BY <1>1, <2>2, <3>1, WriteKeeps DEF Records
  <2> QED  BY <2>1, <2>2
<1>6. Raising => DeliverySound'
  <2> SUFFICES ASSUME Raising PROVE DeliverySound'
    OBVIOUS
  <2>1. DeliverySound
    BY DEF HistoryInv
  <2>2. \A v \in Worker : pc'[v] \in {"confirm", "reconcile"} =>
           claim'[v] \in delivered'
    BY <1>2, <2>1 DEF DeliverySound
  <2>3. \A c \in 1..issued : Confirmed(c) \in events' => c \in delivered'
    BY <1>2, <1>3, <2>1 DEF DeliverySound, ConfirmedIsDelivered
  <2> QED  BY <2>2, <2>3 DEF DeliverySound, ConfirmedIsDelivered, Confirmed
<1>7. \A v \in Worker : pc'[v] = "send" => claim'[v] \in 1..issued
  BY <1>2 DEF HistoryInv
<1> QED  BY <1>4, <1>5, <1>6, <1>7 DEF HistoryInv, Raising

(* A new claim is in no event and that of nobody's message.                *)
LEMMA TakeClaimKeeps ==
    ASSUME HistoryInv, NEW w \in Worker, TakeClaim(w)
    PROVE  HistoryInv'
<1>1. TypeOK /\ ReducibleIn(events) /\ ReducibleIn(events \ unended)
  BY DEF HistoryInv
<1>2. PICK how \in Writes :
         /\ WriteLine(Claimed(issued'), how)
         /\ IF how = "ok"
              THEN /\ pc' = [pc EXCEPT ![w] = "send"]
                   /\ claim' = [claim EXCEPT ![w] = issued']
                   /\ UNCHANGED result
              ELSE Raise(w)
  BY DEF TakeClaim
<1>3. /\ issued' = issued + 1 /\ issued' \in Nat /\ 0..issued \subseteq 0..issued'
      /\ 1..issued \subseteq 1..issued' /\ issued' \in 1..issued' /\ 0 \in 0..issued'
      /\ expired' = expired /\ delivered' = delivered
  BY <1>1 DEF TakeClaim, TypeOK
<1>4. /\ events' \subseteq events \union {Claimed(issued')}
      /\ unended' \subseteq events' /\ tail' \in {"ended", "torn", "junk", "corrupt"}
      /\ faults' \in 0..MaxFaults
  BY <1>1, <1>2, AnyWrite
<1>5. events' \subseteq [type : {"created", "claimed", "confirmed", "ambiguous"},
                         claim : 0..issued']
  <2>1. Claimed(issued') \in [type : {"created", "claimed", "confirmed", "ambiguous"},
                              claim : 0..issued']
    BY <1>3 DEF Claimed
  <2>2. \A e \in events : e \in [type : {"created", "claimed", "confirmed", "ambiguous"},
                                claim : 0..issued']
    BY <1>1, <1>3 DEF TypeOK
  <2> QED  BY <1>4, <2>1, <2>2
<1>6. /\ pc' \in [Worker -> Stage] /\ claim' \in [Worker -> 0..issued']
      /\ result' \in [Worker -> Result]
      /\ pc'[w] \in {"idle", "send"} /\ (pc'[w] = "send" => claim'[w] = issued')
      /\ \A v \in Worker \ {w} : pc'[v] = pc[v] /\ claim'[v] = claim[v]
  <2>1. CASE how = "ok"
    BY <1>1, <1>2, <1>3, <2>1 DEF TypeOK, Stage
  <2>2. CASE Finish(w, Answer("raised", FALSE))
    <3>1. Answer("raised", FALSE) \in Result
      BY DEF Answer, Result
    <3> QED  BY <1>1, <1>3, <2>2, <3>1 DEF Finish, TypeOK, Stage
  <2> QED  BY <1>2, <2>1, <2>2 DEF Raise
<1>7. TypeOK'
  BY <1>1, <1>3, <1>4, <1>5, <1>6 DEF TypeOK
<1>8. \A v \in Worker : pc'[v] = "send" => claim'[v] \in 1..issued'
  BY <1>3, <1>6 DEF HistoryInv
<1>9. ReducibleIn(events)' /\ ReducibleIn(events \ unended)'
  <2>1. Claimed(issued') \notin events
    BY <1>1, <1>3 DEF TypeOK, Claimed
  <2>2. \A c : Claimed(issued') \notin {Confirmed(c), Ambiguous(c)}
    BY DEF Claimed, Confirmed, Ambiguous
  <2>3. issued <= issued'
    BY <1>1, <1>3 DEF TypeOK
  <2> QED  BY <1>1, <1>2, <1>3, <2>1, <2>2, <2>3, WriteKeeps
<1>10. ASSUME Raising PROVE DeliverySound'
  <2>1. DeliverySound
    BY <1>10 DEF HistoryInv
  <2>2. \A v \in Worker : pc'[v] \in {"confirm", "reconcile"} =>
           claim'[v] \in delivered'
    BY <1>3, <1>6, <2>1 DEF DeliverySound
  <2>3. \A c \in 1..issued' : Confirmed(c) \in events' => c \in delivered'
    <3> SUFFICES ASSUME NEW c \in 1..issued', Confirmed(c) \in events'
                 PROVE  c \in delivered'
      OBVIOUS
    <3>1. Confirmed(c) \in events
      BY <1>4 DEF Confirmed, Claimed
    <3>2. c \in 1..issued
      BY <1>1, <3>1 DEF TypeOK, Confirmed
    <3> QED  BY <1>3, <2>1, <3>1, <3>2 DEF DeliverySound, ConfirmedIsDelivered
  <2> QED  BY <2>2, <2>3 DEF DeliverySound, ConfirmedIsDelivered, Confirmed
<1> QED  BY <1>7, <1>8, <1>9, <1>10 DEF HistoryInv, Raising

LEMMA HistoryStep ==
    ASSUME HistoryInv, [Next]_vars
    PROVE  HistoryInv'
<1>1. TypeOK
  BY DEF HistoryInv
<1>2. CASE UNCHANGED vars
  BY <1>2 DEF vars, ledger, world, runs, HistoryInv, TypeOK, DeliverySound,
              ConfirmedIsDelivered, ReducibleIn, Raising, Confirmed, Ambiguous,
              Claimed
<1>3. \A s \in {"skipped", "failed", "none", "raised", "confirmed", "ambiguous"},
         b \in BOOLEAN : Answer(s, b) \in Result
  BY DEF Answer, Result
<1>4. ASSUME NEW w \in Worker, NEW a \in Result, Finish(w, a)
      PROVE  Rests(w)
  BY <1>4 DEF Finish, Rests, Stage
<1>5. ASSUME NEW w \in Worker, NEW s \in Stage \ {"send", "confirm", "reconcile"},
             Goto(w, s)
      PROVE  Rests(w)
  <2>1. result[w] \in Result /\ result' = [result EXCEPT ![w] = result[w]]
    BY <1>1, <1>5 DEF Goto, TypeOK
  <2> QED  BY <1>5, <2>1 DEF Goto, Rests
<1>6. ASSUME NEW c \in 0..issued
      PROVE  /\ Ambiguous(c) \in [type : {"created", "claimed", "confirmed", "ambiguous"},
                                  claim : 0..issued]
             /\ Confirmed(c) \in [type : {"created", "claimed", "confirmed", "ambiguous"},
                                  claim : 0..issued]
             /\ \A d : Ambiguous(c) # Confirmed(d) /\ Confirmed(c) # Ambiguous(d)
             /\ \A d : Confirmed(c) = Confirmed(d) => c = d
             /\ \A d : Ambiguous(c) = Ambiguous(d) => c = d
  BY DEF Ambiguous, Confirmed
<1>7. /\ Created \in [type : {"created", "claimed", "confirmed", "ambiguous"},
                      claim : 0..issued]
      /\ \A c : Created \notin {Confirmed(c), Ambiguous(c)}
  BY <1>1 DEF Created, Confirmed, Ambiguous, TypeOK
<1>8. ASSUME NEW c, ActiveClaimed(c), NEW how \in Writes
      PROVE  /\ c \in 0..issued
             /\ WriteLine(Ambiguous(c), how) => Records(Ambiguous(c))
             /\ (DeliverySound => c \in delivered) =>
                   (WriteLine(Confirmed(c), how) => Records(Confirmed(c)))
  <2>1. c \in 0..issued /\ Confirmed(c) \notin events /\ Ambiguous(c) \notin events
    BY <1>1, <1>8 DEF ActiveClaimed, IsActive, Claims, TypeOK
  <2>2. WriteLine(Ambiguous(c), how) => Records(Ambiguous(c))
    BY <1>6, <1>8, <2>1 DEF Records
  <2>3. ASSUME DeliverySound => c \in delivered, WriteLine(Confirmed(c), how)
        PROVE  Records(Confirmed(c))
    BY <1>6, <1>8, <2>1, <2>3 DEF Records
  <2> QED  BY <2>1, <2>2, <2>3
<1>10. UNCHANGED <<ledger, faults>> => Quietly
  BY <1>1 DEF Quietly, ledger, TypeOK
<1>11. ASSUME NEW w \in Worker, CreateReport(w) PROVE HistoryInv'
  <2>1. Rests(w)
    BY <1>3, <1>4, <1>5, <1>11 DEF CreateReport, Raise, Stage
  <2>2. Quietly \/ Records(Created)
    BY <1>7, <1>10, <1>11 DEF CreateReport, Records
  <2> QED  BY <1>11, <2>1, <2>2, HistoryKept DEF CreateReport, world
<1>12. ASSUME NEW w \in Worker, ClaimFreeSlot(w) \/ ClaimClosedSlot(w)
       PROVE  HistoryInv'
  BY <1>12, TakeClaimKeeps DEF ClaimFreeSlot, ClaimClosedSlot
<1>13. ASSUME NEW w \in Worker, CloseExpired(w) PROVE HistoryInv'
  <2>1. Rests(w)
    BY <1>3, <1>4, <1>5, <1>13 DEF CloseExpired, Raise, Stage
  <2>2. PICK c \in Claims, how \in Writes :
           Closable(c) /\ WriteLine(Ambiguous(c), how)
    BY <1>13 DEF CloseExpired
  <2>3. Records(Ambiguous(c))
    BY <1>8, <2>2 DEF Closable
  <2> QED  BY <1>13, <2>1, <2>3, HistoryKept DEF CloseExpired, world
<1>14. ASSUME NEW w \in Worker, SkipSend(w) \/ BlockSend(w) PROVE HistoryInv'
  <2>1. Rests(w) /\ Quietly
    BY <1>3, <1>4, <1>10, <1>14 DEF SkipSend, BlockSend, world
  <2> QED  BY <1>14, <2>1, HistoryKept DEF SkipSend, BlockSend, world
<1>15. ASSUME NEW w \in Worker, FailBuild(w) \/ Crash(w) PROVE HistoryInv'
  <2>1. Rests(w)
    BY <1>3, <1>4, <1>15 DEF FailBuild, Crash
  <2>2. Quietly
    <3>1. faults' = faults + 1 /\ faults < MaxFaults /\ faults \in 0..MaxFaults
      BY <1>1, <1>15 DEF FailBuild, Crash, TypeOK
    <3>2. UNCHANGED <<events, unended, tail>>
      BY <1>15 DEF FailBuild, Crash, ledger, world
    <3> QED  BY <3>1, <3>2 DEF Quietly
  <2>3. UNCHANGED <<issued, expired, delivered>>
    BY <1>15 DEF FailBuild, Crash, world
  <2> QED  BY <2>1, <2>2, <2>3, HistoryKept
<1>16. ASSUME NEW w \in Worker, Send(w) PROVE HistoryInv'
  <2>1. PICK out \in SendOutcome :
           /\ out # Good => faults < MaxFaults
           /\ faults' = IF out = Good THEN faults ELSE faults + 1
           /\ delivered' = IF out.delivered THEN delivered \union {claim[w]}
                                            ELSE delivered
           /\ Goto(w, AfterSend(out))
    BY <1>16 DEF Send
  <2>2. claim[w] \in 1..issued
    BY <1>16 DEF Send, HistoryInv
  <2>3. /\ AfterSend(out) \in {"confirm", "mark"}
        /\ Raising /\ AfterSend(out) = "confirm" => claim[w] \in delivered'
    BY <2>1 DEF AfterSend, Raising
  <2>4. pc'[w] = AfterSend(out)
    BY <1>1, <2>1 DEF Goto, TypeOK
  <2>5. delivered \subseteq delivered' /\ delivered' \subseteq 1..issued
    BY <1>1, <2>1, <2>2 DEF TypeOK
  <2>6. faults' \in 0..MaxFaults
    BY <1>1, <2>1 DEF TypeOK
  <2>7. Quietly
    BY <1>16, <2>6 DEF Send, Quietly, ledger
  <2> QED  BY <1>16, <2>1, <2>3, <2>4, <2>5, <2>7, HistoryKept DEF Send
<1>17. ASSUME NEW w \in Worker, ConfirmSend(w) PROVE HistoryInv'
  <2>1. /\ DeliverySound => claim[w] \in delivered
        /\ UNCHANGED <<issued, expired, delivered>>
    BY <1>17 DEF ConfirmSend, DeliverySound, world
  <2>2. Quietly \/ Records(Confirmed(claim[w]))
    BY <1>8, <1>10, <1>17, <2>1 DEF ConfirmSend, Confirmable
  <2>3. Rests(w) \/ Goto(w, "reconcile")
    BY <1>3, <1>4, <1>17 DEF ConfirmSend
  <2>4. delivered \subseteq 1..issued
    BY <1>1 DEF TypeOK
  <2> QED  BY <2>1, <2>2, <2>3, <2>4, HistoryKept
<1>18. ASSUME NEW w \in Worker, Reconcile(w) \/ MarkAmbiguous(w)
       PROVE  HistoryInv'
  <2>1. Rests(w)
    BY <1>3, <1>4, <1>18 DEF Reconcile, ReconciledAs, MarkAmbiguous
  <2>2. Quietly \/ Records(Ambiguous(claim[w]))
    BY <1>8, <1>10, <1>18 DEF Reconcile, MarkAmbiguous
  <2> QED  BY <1>18, <2>1, <2>2, HistoryKept DEF Reconcile, MarkAmbiguous, world
<1>19. ASSUME NEW w \in Worker, Start(w) PROVE HistoryInv'
  <2>1. Rests(w)
    BY <1>3, <1>19 DEF Start, Rests, Stage
  <2>2. Quietly
    BY <1>10, <1>19 DEF Start, world
  <2> QED  BY <1>19, <2>1, <2>2, HistoryKept DEF Start, world
<1>20. ASSUME NEW c \in Claims, LeaseExpires(c) PROVE HistoryInv'
  <2>1. expired' \subseteq 1..issued /\ faults' \in 0..MaxFaults
    BY <1>1, <1>20 DEF LeaseExpires, Claims, TypeOK
  <2>2. UNCHANGED <<events, unended, tail, issued, delivered, pc, claim, result>>
    BY <1>20 DEF LeaseExpires, ledger, runs
  <2> QED
    BY <1>1, <2>1, <2>2
       DEF HistoryInv, TypeOK, DeliverySound, ConfirmedIsDelivered, ReducibleIn,
           Raising, Confirmed, Ambiguous, Claimed
<1> QED
  BY <1>2, <1>11, <1>12, <1>13, <1>14, <1>15, <1>16, <1>17, <1>18, <1>19, <1>20
     DEF Next, RunStep

(* What appends leave of their lines, torn ones too, is a history: no      *)
(* event ever answers a claim that is not there, or contradicts another.   *)
THEOREM HistoryInvariance == Spec => []HistoryInv
<1>1. Init => HistoryInv
  <2> SUFFICES ASSUME Init PROVE HistoryInv
    OBVIOUS
  <2>1. TypeOK /\ events = {} /\ \A w \in Worker : pc[w] = "idle"
    BY OutboxInit DEF Init, OutboxInv
  <2> QED
    BY <2>1 DEF HistoryInv, ReducibleIn, DeliverySound, ConfirmedIsDelivered
<1>2. HistoryInv /\ [Next]_vars => HistoryInv'
  BY HistoryStep
<1> QED  BY <1>1, <1>2, PTL DEF Spec

(* The history overlapping runs write of a report is always one that       *)
(* _reduce_send_state accepts.                                             *)
THEOREM HistoriesReduce == Spec => []HistoryReduces
<1>1. HistoryInv => HistoryReduces
  BY DEF HistoryInv, ReducibleIn, HistoryReduces, Reducible, Claims
<1> QED  BY <1>1, HistoryInvariance, PTL

(* With a send function that raises unless the message was delivered, what *)
(* the ledger confirms was delivered, whatever appends leave of their line.*)
THEOREM ConfirmedDelivered == Raising /\ Spec => []ConfirmedIsDelivered
<1>1. CASE Raising
  <2>1. HistoryInv => ConfirmedIsDelivered
    BY <1>1 DEF HistoryInv, DeliverySound
  <2> QED  BY <2>1, HistoryInvariance, PTL
<1> QED  BY <1>1

-----------------------------------------------------------------------------
LEMMA ConfirmedStays ==
    ASSUME TearFree, OutboxInv, Next, IsConfirmed
    PROVE  IsConfirmed'
<1>1. PICK c \in 1..issued : Confirmed(c) \in events
  BY DEF IsConfirmed
<1>2. events \subseteq events' /\ issued <= issued' /\ issued \in Int
  BY LedgerGrows DEF OutboxInv, TypeOK
<1>3. issued' \in Int
  BY OutboxStep DEF OutboxInv, TypeOK
<1>4. c \in 1..issued' /\ Confirmed(c) \in events'
  BY <1>1, <1>2, <1>3
<1> QED  BY <1>4 DEF IsConfirmed, Confirmed

(* A run answers CONFIRMED when it has just written the confirmation or    *)
(* has found it in the ledger.                                             *)
LEMMA NewAnswer ==
    ASSUME TearFree, OutboxInv, Next,
           NEW v \in Worker, result'[v].status = "confirmed"
    PROVE  result[v].status = "confirmed" \/ IsConfirmed \/ IsConfirmed'
<1> DEFINE Same == result' = result
           Told(w) == \E a \in Result :
                         a.status # "confirmed" /\ result' = [result EXCEPT ![w] = a]
<1>1. \A s \in {"skipped", "failed", "none", "raised", "confirmed", "ambiguous"},
         b \in BOOLEAN : Answer(s, b) \in Result /\ Answer(s, b).status = s
  BY DEF Answer, Result
<1>2. result \in [Worker -> Result]
  BY DEF OutboxInv, TypeOK
<1>3. ASSUME NEW w \in Worker, Told(w)
      PROVE  result[v].status = "confirmed"
  BY <1>2, <1>3
<1>4. ASSUME NEW w \in Worker, ActiveConfirmed(claim[w]) PROVE IsConfirmed
  BY <1>4 DEF ActiveConfirmed, IsActive, Claims, IsConfirmed
<1>5. ASSUME NEW w \in Worker, RunStep(w)
      PROVE  Same \/ Told(w) \/ ConfirmSend(w) \/ Reconcile(w)
  <2>1. CASE CreateReport(w) \/ CloseExpired(w)
    BY <1>1, <2>1 DEF CreateReport, CloseExpired, Goto, Raise, Finish
  <2>2. CASE ClaimFreeSlot(w) \/ ClaimClosedSlot(w)
    BY <1>1, <2>2 DEF ClaimFreeSlot, ClaimClosedSlot, TakeClaim, Raise, Finish
  <2>3. CASE SkipSend(w) \/ BlockSend(w) \/ FailBuild(w)
    BY <1>1, <2>3 DEF SkipSend, BlockSend, FailBuild, Finish
  <2>4. CASE Send(w)
    BY <2>4 DEF Send, Goto
  <2>5. CASE MarkAmbiguous(w)
    BY <1>1, <2>5 DEF MarkAmbiguous, Finish
  <2> QED  BY <1>5, <2>1, <2>2, <2>3, <2>4, <2>5 DEF RunStep
<1>6. ASSUME NEW w \in Worker, ConfirmSend(w)
      PROVE  Same \/ IsConfirmed \/ IsConfirmed'
  <2>1. CASE Goto(w, "reconcile")
    BY <2>1 DEF Goto
  <2>2. CASE ActiveConfirmed(claim[w])
    BY <1>4, <2>2
  <2>3. ASSUME Confirmable(claim[w]), WriteLine(Confirmed(claim[w]), "ok")
        PROVE  IsConfirmed'
    <3>1. Confirmed(claim[w]) \in events'
      BY <2>3, WriteFacts DEF Writes
    <3>2. claim[w] \in 1..issued'
      BY <1>6, <2>3 DEF Confirmable, ActiveClaimed, IsActive, Claims, ConfirmSend,
                        world
    <3> QED  BY <3>1, <3>2 DEF IsConfirmed, Confirmed
  <2> QED  BY <1>6, <2>1, <2>2, <2>3 DEF ConfirmSend
<1>7. ASSUME NEW w \in Worker, Reconcile(w)
      PROVE  Told(w) \/ IsConfirmed
  <2>1. CASE ActiveConfirmed(claim[w])
    BY <1>4, <2>1
  <2>2. CASE ~ActiveConfirmed(claim[w])
    BY <1>1, <1>7, <2>2 DEF Reconcile, ReconciledAs, Finish
  <2> QED  BY <2>1, <2>2
<1>8. ASSUME NEW w \in Worker, Start(w) \/ Crash(w)
      PROVE  Told(w)
  BY <1>1, <1>8 DEF Start, Crash, Finish
<1>9. ASSUME NEW c \in Claims, LeaseExpires(c)
      PROVE  Same
  BY <1>9 DEF LeaseExpires, runs
<1>10. Same => result[v].status = "confirmed"
  OBVIOUS
<1> HIDE DEF Same, Told
<1> QED  BY <1>3, <1>5, <1>6, <1>7, <1>8, <1>9, <1>10 DEF Next

(* A run answers CONFIRMED only for a report the ledger has confirmed, and *)
(* the ledger confirms it once.                                            *)
THEOREM AnswersTrue == TearFree /\ Spec => []AnswersAreTrue
<1> DEFINE Truthful == \A w \in Worker :
                          result[w].status = "confirmed" => IsConfirmed
<1>1. CASE TearFree
  <2>1. Init => Truthful
    BY DEF Init, Answer
  <2>2. OutboxInv /\ Truthful /\ [Next]_vars => Truthful'
    <3> SUFFICES ASSUME OutboxInv, Truthful, [Next]_vars
                 PROVE  Truthful'
      OBVIOUS
    <3>1. CASE UNCHANGED vars
      BY <3>1 DEF vars, ledger, world, runs, IsConfirmed, Confirmed
    <3>2. ASSUME Next, NEW v \in Worker, result'[v].status = "confirmed"
          PROVE  IsConfirmed'
      BY <1>1, <3>2, NewAnswer, ConfirmedStays
    <3> QED  BY <3>1, <3>2
  <2>3. OutboxInv /\ Truthful => AnswersAreTrue
    <3> SUFFICES ASSUME OutboxInv, NEW c \in 1..issued, NEW d \in 1..issued,
                        Confirmed(c) \in events, Confirmed(d) \in events
                 PROVE  c = d
      BY DEF AnswersAreTrue
    <3>1. c \in Claims /\ d \in Claims
      BY DEF OutboxInv, Reducible
    <3>2. c <= d /\ d <= c
      BY <3>1 DEF OutboxInv, ClaimsSound
    <3> QED  BY <3>2 DEF OutboxInv, TypeOK
  <2>4. Spec => []OutboxInv
    BY <1>1, OutboxInvariance
  <2> HIDE DEF Truthful
  <2> QED  BY <2>1, <2>2, <2>3, <2>4, PTL DEF Spec
<1> QED  BY <1>1

-----------------------------------------------------------------------------
(* What the slot is seen to be when the ledger keeps its send events.      *)
LEMMA SlotKept ==
    ASSUME OutboxInv, events' = events \/ events' = events \union {Created},
           issued' \in {issued, issued + 1}
    PROVE  Held' = Held /\ GivenUp' = GivenUp /\ Winners' = Winners
<1>1. issued \in Nat /\ 1..(issued + 1) = 1..issued \union {issued + 1}
  BY DEF OutboxInv, TypeOK
<1>2. \A c : /\ (Claimed(c) \in events)' <=> Claimed(c) \in events
             /\ (Confirmed(c) \in events)' <=> Confirmed(c) \in events
             /\ (Ambiguous(c) \in events)' <=> Ambiguous(c) \in events
  BY DEF Claimed, Confirmed, Ambiguous, Created
<1>3. /\ Claimed(issued + 1) \notin events
      /\ Confirmed(issued + 1) \notin events
      /\ Ambiguous(issued + 1) \notin events
  BY <1>1 DEF OutboxInv, TypeOK, Claimed, Confirmed, Ambiguous
<1>4. Claims' = Claims
  BY <1>1, <1>2, <1>3 DEF Claims
<1> QED  BY <1>1, <1>2, <1>3, <1>4 DEF Held, GivenUp, Winners

(* A claim that has no answer yet is the only one that holds the slot.     *)
LEMMA ActiveHolds ==
    ASSUME OutboxInv, NEW c \in Claims, ActiveClaimed(c)
    PROVE  Held = {c} /\ Winners = {}
<1>1. c \in 1..issued /\ issued \in Nat /\ \A d \in Claims : d <= c
  BY DEF OutboxInv, TypeOK, ActiveClaimed, IsActive, Claims
<1>2. ASSUME NEW d \in Claims, ~Closed(d) PROVE d = c
  BY <1>1, <1>2 DEF OutboxInv, ClaimsSound, Claims
<1>3. ASSUME NEW d \in 1..issued, Confirmed(d) \in events PROVE FALSE
  <2>1. d \in Claims /\ ~Closed(d)
    BY <1>3 DEF OutboxInv, Reducible, Closed
  <2> QED  BY <1>2, <1>3, <2>1 DEF ActiveClaimed
<1> QED  BY <1>2, <1>3 DEF Held, Winners, ActiveClaimed, Closed, Claims

LEMMA TakeRefines ==
    ASSUME TearFree, OutboxInv, NEW w \in Worker, TakeClaim(w),
           \A c \in Claims : Closed(c)
    PROVE  Slot!Take \/ UNCHANGED <<Held, GivenUp, Winners, delivered>>
<1> DEFINE n == issued + 1
<1>1. PICK how \in Writes : WriteLine(Claimed(n), how)
  BY DEF TakeClaim
<1>2. issued' = n /\ delivered' = delivered
  BY DEF TakeClaim
<1>3. CASE how = "lost"
  BY <1>1, <1>2, <1>3, WriteFacts, SlotKept
<1>4. CASE how # "lost"
  <2>1. events' = events \union {Claimed(n)}
    BY <1>1, <1>4, WriteFacts
  <2>2. issued \in Nat /\ 1..n = 1..issued \union {n} /\ n \notin 1..issued
    BY DEF OutboxInv, TypeOK
  <2>3. \A c : /\ (Claimed(c) \in events)' <=> Claimed(c) \in events \/ c = n
               /\ (Confirmed(c) \in events)' <=> Confirmed(c) \in events
               /\ (Ambiguous(c) \in events)' <=> Ambiguous(c) \in events
    BY <2>1 DEF Claimed, Confirmed, Ambiguous
  <2>4. Confirmed(n) \notin events /\ Ambiguous(n) \notin events
    BY <2>2 DEF OutboxInv, TypeOK, Confirmed, Ambiguous
  <2>5. Held = {} /\ Winners = {}
    BY DEF Held, Winners, Closed, OutboxInv, Reducible
  <2>6. Claims' = Claims \union {n}
    BY <1>2, <2>2, <2>3 DEF Claims
  <2>7. Held' = {n} /\ GivenUp' = GivenUp /\ Winners' = Winners
    <3>1. Held' = {n}
      BY <2>3, <2>4, <2>6 DEF Held, Closed
    <3>2. GivenUp' = GivenUp
      BY <1>2, <2>2, <2>3, <2>4 DEF GivenUp
    <3>3. Winners' = Winners
      BY <1>2, <2>2, <2>3, <2>4 DEF Winners
    <3> QED  BY <3>1, <3>2, <3>3
  <2>8. n \notin GivenUp /\ n \notin delivered
    BY <2>2 DEF GivenUp, OutboxInv, TypeOK
  <2> QED  BY <1>2, <2>5, <2>7, <2>8 DEF Slot!Take
<1> QED  BY <1>3, <1>4

(* The line that answers the claim in the slot gives the slot back.        *)
LEMMA AnswerRefines ==
    ASSUME TearFree, OutboxInv, NEW c \in Claims, ActiveClaimed(c),
           NEW e \in {Confirmed(c), Ambiguous(c)}, NEW how \in Writes,
           WriteLine(e, how), UNCHANGED world
    PROVE  \/ Slot!GiveUp \/ Slot!Confirm
           \/ UNCHANGED <<Held, GivenUp, Winners, delivered>>
<1>1. issued' = issued /\ delivered' = delivered
  BY DEF world
<1>2. CASE how = "lost"
  BY <1>1, <1>2, WriteFacts, SlotKept
<1>3. CASE how # "lost"
  <2>1. events' = events \union {e}
    BY <1>3, WriteFacts
  <2>2. Held = {c} /\ Winners = {} /\ c \in 1..issued
    BY ActiveHolds DEF Claims
  <2>3. Claims' = Claims
    BY <1>1, <2>1 DEF Claims, Claimed, Confirmed, Ambiguous
  <2>4. Held' = {}
    <3>1. \A d \in Claims : d # c => Ambiguous(d) \in events \/ Confirmed(d) \in events
      BY <2>2 DEF Held
    <3>2. Ambiguous(c) \in events' \/ Confirmed(c) \in events'
      BY <2>1
    <3>3. \A d \in Claims : Ambiguous(d) \in events' \/ Confirmed(d) \in events'
      BY <2>1, <3>1, <3>2
    <3> QED  BY <2>3, <3>3 DEF Held, Ambiguous, Confirmed
  <2>5. CASE e = Ambiguous(c)
    <3>1. \A d : /\ (Confirmed(d) \in events)' <=> Confirmed(d) \in events
                 /\ (Ambiguous(d) \in events)' <=> Ambiguous(d) \in events \/ d = c
      BY <2>1, <2>5 DEF Confirmed, Ambiguous
    <3>2. GivenUp' = GivenUp \union {c} /\ Winners' = Winners
      BY <1>1, <2>2, <3>1 DEF GivenUp, Winners
    <3> QED  BY <1>1, <2>2, <2>4, <3>2 DEF Slot!GiveUp
  <2>6. CASE e = Confirmed(c)
    <3>1. \A d : /\ (Ambiguous(d) \in events)' <=> Ambiguous(d) \in events
                 /\ (Confirmed(d) \in events)' <=> Confirmed(d) \in events \/ d = c
      BY <2>1, <2>6 DEF Confirmed, Ambiguous
    <3>2. GivenUp' = GivenUp
      BY <1>1, <3>1 DEF GivenUp
    <3>3. Winners' = {c}
      BY <1>1, <2>2, <3>1 DEF Winners
    <3> QED  BY <1>1, <2>2, <2>4, <3>2, <3>3 DEF Slot!Confirm
  <2> QED  BY <2>5, <2>6
<1> QED  BY <1>2, <1>3

LEMMA SendRefines ==
    ASSUME OutboxInv, NEW w \in Worker, Send(w)
    PROVE  Slot!Deliver \/ UNCHANGED <<Held, GivenUp, Winners, delivered>>
<1>1. /\ events' = events /\ issued' = issued
      /\ delivered' = delivered \/ delivered' = delivered \union {claim[w]}
  BY DEF Send, ledger
<1>2. Held' = Held /\ GivenUp' = GivenUp /\ Winners' = Winners
  BY <1>1, SlotKept
<1>3. claim[w] \in Claims /\ Confirmed(claim[w]) \notin events
  BY DEF OutboxInv, OwnersSound, Send
<1>4. claim[w] \in Held \union GivenUp
  BY <1>3 DEF Held, GivenUp, Claims
<1> QED  BY <1>1, <1>2, <1>4 DEF Slot!Deliver

LEMMA SlotStep ==
    ASSUME TearFree, OutboxInv, [Next]_vars
    PROVE  Slot!Next \/ UNCHANGED <<Held, GivenUp, Winners, delivered>>
<1> DEFINE Seen == UNCHANGED <<Held, GivenUp, Winners, delivered>>
<1>1. ASSUME UNCHANGED <<ledger, issued, delivered>> PROVE Seen
  BY <1>1, SlotKept DEF ledger
<1>2. UNCHANGED <<ledger, world>> => UNCHANGED <<ledger, issued, delivered>>
  BY DEF world
<1>3. CASE UNCHANGED vars
  BY <1>1, <1>2, <1>3 DEF vars
<1>4. ASSUME NEW w \in Worker, CreateReport(w) PROVE Seen
  <2>1. UNCHANGED ledger \/ \E how \in Writes : WriteLine(Created, how)
    BY <1>4 DEF CreateReport
  <2>2. UNCHANGED world
    BY <1>4 DEF CreateReport
  <2>3. events' = events \/ events' = events \union {Created}
    BY <2>1, WriteFacts DEF ledger
  <2> QED  BY <2>2, <2>3, SlotKept DEF world
<1>5. ASSUME NEW w \in Worker, ClaimFreeSlot(w) \/ ClaimClosedSlot(w)
      PROVE  Slot!Take \/ Seen
  <2>1. TakeClaim(w)
    BY <1>5 DEF ClaimFreeSlot, ClaimClosedSlot
  <2>2. ASSUME NEW c \in Claims PROVE Closed(c)
    <3>1. CASE ClaimFreeSlot(w)
      <4>1. Closed(c) \/ IsActive(c)
        BY DEF OutboxInv, ClaimsSound, IsActive
      <4> QED  BY <3>1, <4>1 DEF ClaimFreeSlot, SlotFree, ActiveAmbiguous, Closed
    <3>2. CASE ClaimClosedSlot(w)
      BY <3>2 DEF OutboxInv, LockSound, Locked, ClaimClosedSlot
    <3> QED  BY <1>5, <3>1, <3>2
  <2> QED  BY <2>1, <2>2, TakeRefines
<1>6. ASSUME NEW w \in Worker, CloseExpired(w)
      PROVE  Slot!GiveUp \/ Slot!Confirm \/ Seen
  <2>1. PICK c \in Claims, how \in Writes :
           Closable(c) /\ WriteLine(Ambiguous(c), how)
    BY <1>6 DEF CloseExpired
  <2> QED  BY <1>6, <2>1, AnswerRefines DEF Closable, CloseExpired
<1>7. ASSUME NEW w \in Worker, Send(w) PROVE Slot!Deliver \/ Seen
  BY <1>7, SendRefines
<1>8. ASSUME NEW w \in Worker, ConfirmSend(w) \/ Reconcile(w) \/ MarkAmbiguous(w)
      PROVE  Slot!GiveUp \/ Slot!Confirm \/ Seen
  <2>1. UNCHANGED world
    BY <1>8 DEF ConfirmSend, Reconcile, MarkAmbiguous
  <2>2. CASE UNCHANGED ledger
    BY <1>1, <1>2, <2>1, <2>2
  <2>3. ASSUME ActiveClaimed(claim[w]), NEW how \in Writes,
               NEW e \in {Confirmed(claim[w]), Ambiguous(claim[w])},
               WriteLine(e, how)
        PROVE  Slot!GiveUp \/ Slot!Confirm \/ Seen
    <3>1. claim[w] \in Claims
      BY <2>3 DEF ActiveClaimed, IsActive
    <3> QED  BY <2>1, <2>3, <3>1, AnswerRefines
  <2>4. \/ UNCHANGED ledger
        \/ /\ ActiveClaimed(claim[w])
           /\ \E how \in Writes, e \in {Confirmed(claim[w]), Ambiguous(claim[w])} :
                 WriteLine(e, how)
    BY <1>8 DEF ConfirmSend, Confirmable, Reconcile, MarkAmbiguous
  <2> QED  BY <2>2, <2>3, <2>4
<1>9. ASSUME NEW w \in Worker,
             \/ Start(w) \/ Crash(w) \/ SkipSend(w) \/ BlockSend(w)
             \/ FailBuild(w)
      PROVE  Seen
  BY <1>1, <1>2, <1>9 DEF Start, Crash, SkipSend, BlockSend, FailBuild
<1>10. ASSUME NEW c \in Claims, LeaseExpires(c) PROVE Seen
  BY <1>1, <1>10 DEF LeaseExpires
<1> QED
  BY <1>3, <1>4, <1>5, <1>6, <1>7, <1>8, <1>9, <1>10
     DEF Next, RunStep, Slot!Next

(* Runs that overlap, stop and outlive their leases share one send slot:   *)
(* one claim at a time holds it, a claim is confirmed or given up and      *)
(* never both, and nobody claims a confirmed report.                       *)
THEOREM Refinement == TearFree /\ Spec => ImplementsSlot
<1>1. Init => Slot!Init
  BY DEF Init, Slot!Init, Held, GivenUp, Winners, Claims
<1>2. TearFree /\ OutboxInv /\ [Next]_vars =>
        [Slot!Next]_<<Held, GivenUp, Winners, delivered>>
  BY SlotStep
<1>3. CASE TearFree
  <2>1. OutboxInv /\ [Next]_vars =>
          [Slot!Next]_<<Held, GivenUp, Winners, delivered>>
    BY <1>2, <1>3
  <2>2. Spec => []OutboxInv
    BY <1>3, OutboxInvariance
  <2> QED
    BY <1>1, <2>1, <2>2, PTL DEF Spec, ImplementsSlot, Slot!Spec
<1> QED  BY <1>3
=============================================================================

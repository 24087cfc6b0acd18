---------------------------- MODULE FillWalProofs ---------------------------
(***************************************************************************)
(* The safety of FillWal for every set of orders, tickers and prices and   *)
(* any number of sessions and crashes: IInv is inductive, and the type     *)
(* invariant and the safety properties follow from it.                     *)
(***************************************************************************)
EXTENDS FillWalInvariant, TLAPS

USE ConstantAssumption

(* Filling an order keeps a portfolio well formed, adds one to the order's *)
(* count and to no other, and sells only into the cooldown.                *)
LEMMA AppliedFacts ==
    ASSUME NEW p \in Portfolio, NEW o \in Order, clock.session \in Int
    PROVE  /\ Applied(p, o) \in Portfolio
           /\ Applied(p, o).applied[o] > 0
           /\ \A q \in Order \ {o} : Applied(p, o).applied[q] = p.applied[q]
           /\ \A t \in Ticker :
                 /\ t \in p.held => \/ t \in Applied(p, o).held
                                    \/ Applied(p, o).cooldowns[t] = clock.session
                 /\ p.cooldowns[t] = clock.session =>
                        Applied(p, o).cooldowns[t] = clock.session
           /\ ActionOf[o] = "BUY" => TickerOf[o] \in Applied(p, o).held
<1> DEFINE t == TickerOf[o]
           R == Applied(p, o)
<1>1. t \in Ticker
  OBVIOUS
<1>2. R \in Portfolio
  BY <1>1 DEF Applied, Portfolio
<1>3. R.applied[o] > 0 /\ \A q \in Order \ {o} : R.applied[q] = p.applied[q]
  BY DEF Applied, Portfolio
<1>4. ASSUME NEW u \in Ticker
      PROVE  /\ u \in p.held => u \in R.held \/ R.cooldowns[u] = clock.session
             /\ p.cooldowns[u] = clock.session => R.cooldowns[u] = clock.session
  BY <1>1 DEF Applied, Portfolio
<1>5. ActionOf[o] = "BUY" => t \in R.held
  BY DEF Applied
<1> QED
  BY <1>2, <1>3, <1>4, <1>5

(* The hash of a portfolio shows its fills.                                *)
LEMMA HashFacts ==
    ASSUME NEW p \in Portfolio
    PROVE  Hash(p) \in Fingerprint /\ Hash(p).applied = p.applied
  BY DEF Hash, Portfolio, Fingerprint

LEMMA InitBookType == InitBook \in Portfolio /\ InitBook.mark \in Mark
<1>1. (CHOOSE m \in Mark : TRUE) \in Mark
  OBVIOUS
<1> QED
  BY <1>1 DEF InitBook, Portfolio

(* The values of the variables after a stop.                               *)
LEMMA ForgetType == ASSUME TypeOK, Forget PROVE
    /\ mem' \in Portfolio /\ preHash' \in Fingerprint
    /\ pc' \in Phase /\ stage' \in Stage /\ cur' \in Order \union {NoOrder}
    /\ settlingFills' \subseteq FillRef
    /\ plan' \in [Order -> Decision] /\ failed' \in BOOLEAN
    /\ priced' \subseteq Ticker /\ runMark' \in Mark
<1>1. Hash(InitBook) \in Fingerprint
  BY InitBookType, HashFacts
<1> QED
  BY <1>1, InitBookType
  DEF Forget, NothingPlanned, Phase, Stage, Decision

(* What TypeOK says of one commit intent.                                  *)
LEMMA IntentFacts ==
    ASSUME TypeOK, NEW c \in DOMAIN intents
    PROVE  /\ c \in Nat /\ c \in 1..Len(intents)
           /\ intents[c].refs \subseteq FillRef
           /\ intents[c].pre \in Fingerprint /\ intents[c].post \in Fingerprint
<1> DEFINE T == [pre : Fingerprint, post : Fingerprint, refs : SUBSET FillRef]
<1>1. intents \in Seq(T)
  BY DEF TypeOK
<1> HIDE DEF T
<1>2. c \in 1..Len(intents) /\ Len(intents) \in Nat /\ intents[c] \in T
  BY <1>1
<1> QED
  BY <1>2 DEF T

(* The decisions of reconciliation are well typed.                         *)
LEMMA ReconciledType == \A o \in Order : Reconciled(o) \in Decision
  BY DEF Reconciled, Decision

LEMMA MarkedFacts ==
    ASSUME NEW p \in Portfolio, NEW m \in Mark
    PROVE  /\ Marked(p, m) \in Portfolio
           /\ Marked(p, m).applied = p.applied
  BY DEF Marked, Portfolio

(* The steps before trading.                                               *)
LEMMA TypeOfRecovery ==
    ASSUME TypeOK,
           \/ Begin \/ BeginReconcile \/ AbortRun \/ BeginTrading
           \/ \E o \in Order : ExpireOrder(o)
           \/ \E o \in Order : ReconstructMarker(o)
           \/ \E o \in Order : WriteDecision(o)
    PROVE  TypeOK'
<1>1. CASE Begin
  <2>1. PICK m \in Mark, avail \in SUBSET Ticker : StartRun(m, avail)
    BY <1>1 DEF Begin
  <2> QED
    BY <2>1 DEF StartRun, TypeOK, durable, environment, Phase
<1>2. CASE BeginReconcile
  <2>1. plan' \in [Order -> Decision]
    BY <1>2, ReconciledType DEF BeginReconcile
  <2> QED
    BY <1>2, <2>1 DEF BeginReconcile, TypeOK, durable, environment, Phase
<1>3. CASE AbortRun
  BY <1>3, ForgetType DEF AbortRun, Forget, TypeOK, durable, environment
<1>4. CASE BeginTrading
  <2>1. mem' \in Portfolio /\ preHash' \in Fingerprint
    BY <1>4, MarkedFacts, HashFacts DEF BeginTrading, TypeOK
  <2>2. plan' \in [Order -> Decision]
    BY <1>4 DEF BeginTrading, TypeOK, Decision
  <2> QED
    BY <1>4, <2>1, <2>2 DEF BeginTrading, TypeOK, durable, environment, Phase
<1>5. ASSUME NEW o \in Order, ExpireOrder(o)
      PROVE  TypeOK'
  BY <1>5 DEF ExpireOrder, TypeOK, process, environment, Status, Terminal
<1>6. ASSUME NEW o \in Order, ReconstructMarker(o)
      PROVE  TypeOK'
  <2>1. PICK c \in IntentsOf(o) : \E r \in intents[c].refs :
          persisted' = persisted \union
             {[order |-> o, attempt |-> r.attempt, commit |-> c]}
    BY <1>6 DEF ReconstructMarker
  <2>2. c \in Nat /\ intents[c].refs \subseteq FillRef
    BY IntentFacts DEF IntentsOf
  <2>3. persisted' \subseteq [order : Order, attempt : Nat, commit : Nat]
    BY <2>1, <2>2 DEF TypeOK, FillRef
  <2>4. plan' \in [Order -> Decision] /\ stage' \in Stage
    BY <1>6 DEF ReconstructMarker, TypeOK, Decision, Stage
  <2> QED
    BY <1>6, <2>3, <2>4 DEF ReconstructMarker, TypeOK, environment
<1>7. ASSUME NEW o \in Order, WriteDecision(o)
      PROVE  TypeOK'
  <2>1. status' \in [Order -> Status]
    BY <1>7 DEF WriteDecision, Written, TypeOK, Status, Terminal
  <2>2. plan' \in [Order -> Decision] /\ stage' \in Stage
    BY <1>7 DEF WriteDecision, TypeOK, Decision, Stage
  <2>3. failed' \in BOOLEAN
    BY <1>7 DEF WriteDecision, TypeOK
  <2> QED
    BY <1>7, <2>1, <2>2, <2>3 DEF WriteDecision, TypeOK, environment
<1> QED
  BY <1>1, <1>2, <1>3, <1>4, <1>5, <1>6, <1>7

(* The steps of trading.                                                   *)
LEMMA TypeOfTrading ==
    ASSUME TypeOK,
           \/ AnnotateTrade \/ NextLoop
           \/ \E o \in Order : CreateOrder(o)
           \/ \E o \in Order : FillOrder(o)
           \/ \E o \in Order : NoFill(o)
           \/ \E o \in Order : CancelBuy(o),
           StageSound
    PROVE  TypeOK'
<1>1. CASE AnnotateTrade
  <2>1. cur \in Order
    BY <1>1 DEF AnnotateTrade, StageSound
  <2>2. settlingFills' \subseteq FillRef
    BY <1>1, <2>1 DEF AnnotateTrade, TypeOK, FillRef
  <2>3. status' \in [Order -> Status]
    BY <1>1 DEF AnnotateTrade, TypeOK, Status
  <2> QED
    BY <1>1, <2>2, <2>3 DEF AnnotateTrade, TypeOK, environment, Stage
<1>2. CASE NextLoop
  BY <1>2 DEF NextLoop, AfterBuys, TypeOK, durable, environment, Phase
<1>3. ASSUME NEW o \in Order, CreateOrder(o)
      PROVE  TypeOK'
  BY <1>3 DEF CreateOrder, TypeOK, environment, Stage, Status
<1>4. ASSUME NEW o \in Order, FillOrder(o)
      PROVE  TypeOK'
  <2>1. clock.session \in Int
    BY DEF TypeOK
  <2>2. mem' \in Portfolio
    BY <1>4, <2>1, AppliedFacts DEF FillOrder, TypeOK
  <2>3. fillings' \in [Order -> Nat]
    BY <1>4 DEF FillOrder, TypeOK
  <2> QED
    BY <1>4, <2>2, <2>3 DEF FillOrder, TypeOK, environment, Stage
<1>5. ASSUME NEW o \in Order, NoFill(o)
      PROVE  TypeOK'
  <2>1. mem' \in Portfolio
    <3>1. [mem EXCEPT !.partial = @ \ {TickerOf[o]}] \in Portfolio
      BY DEF TypeOK, Portfolio
    <3> QED
      BY <1>5, <3>1 DEF NoFill, TypeOK
  <2>2. status' \in [Order -> Status]
    BY <1>5 DEF NoFill, TypeOK, Status
  <2> QED
    BY <1>5, <2>1, <2>2 DEF NoFill, TypeOK, environment, Stage
<1>6. ASSUME NEW o \in Order, CancelBuy(o)
      PROVE  TypeOK'
  BY <1>6 DEF CancelBuy, TypeOK, environment, Stage, Status, Terminal
<1> QED
  BY <1>1, <1>2, <1>3, <1>4, <1>5, <1>6

(* The commit, the end of a run, and what happens around it.               *)
LEMMA TypeOfCommit ==
    ASSUME TypeOK, StageSound,
           \/ WriteCommitIntent \/ SavePortfolio \/ MarkExecuted \/ EndRun
           \/ Crash \/ Tick \/ UNCHANGED vars
           \/ \E r \in settlingFills : MarkFillPersisted(r)
    PROVE  TypeOK'
<1>1. CASE WriteCommitIntent
  <2>1. [pre |-> preHash, post |-> Hash(mem), refs |-> settlingFills]
          \in [pre : Fingerprint, post : Fingerprint, refs : SUBSET FillRef]
    BY HashFacts DEF TypeOK
  <2>2. intents' \in Seq([pre : Fingerprint, post : Fingerprint,
                          refs : SUBSET FillRef])
    BY <1>1, <2>1 DEF WriteCommitIntent, TypeOK
  <2> QED
    BY <1>1, <2>2 DEF WriteCommitIntent, TypeOK, environment, Phase
<1>2. CASE SavePortfolio
  BY <1>2 DEF SavePortfolio, TypeOK, environment, Phase
<1>3. CASE MarkExecuted
  BY <1>3 DEF MarkExecuted, TypeOK, environment, Stage, Status, Terminal
<1>4. CASE EndRun
  BY <1>4, ForgetType DEF EndRun, Forget, TypeOK, durable, environment
<1>5. CASE Crash
  <2>1. crashes' \in 0..MaxCrash
    BY <1>5 DEF Crash, TypeOK
  <2> QED
    BY <1>5, <2>1, ForgetType DEF Crash, Forget, TypeOK, durable
<1>6. CASE Tick
  <2>1. clock' \in [session : 1..MaxSession, closed : BOOLEAN]
    <3>1. CASE clock' = [clock EXCEPT !.closed = TRUE]
      BY <3>1 DEF TypeOK
    <3>2. CASE /\ clock.session < MaxSession
               /\ clock' = [session |-> clock.session + 1, closed |-> FALSE]
      <4>1. clock.session + 1 \in 1..MaxSession
        BY <3>2 DEF TypeOK
      <4> QED
        BY <3>2, <4>1
    <3> QED
      BY <1>6, <3>1, <3>2 DEF Tick
  <2> QED
    BY <1>6, <2>1 DEF Tick, TypeOK, durable, process
<1>7. CASE UNCHANGED vars
  BY <1>7 DEF vars, TypeOK, durable, process, environment
<1>8. ASSUME NEW r \in settlingFills, MarkFillPersisted(r)
      PROVE  TypeOK'
  <2>1. r.order \in Order /\ r.attempt \in Nat /\ Len(intents) \in Nat
    BY DEF TypeOK, FillRef
  <2> QED
    BY <1>8, <2>1 DEF MarkFillPersisted, TypeOK, environment, Stage
<1> QED
  BY <1>1, <1>2, <1>3, <1>4, <1>5, <1>6, <1>7, <1>8

-----------------------------------------------------------------------------
(* The intents and the portfolio file are untouched by most steps.         *)
LEMMA LedgerFrame ==
    ASSUME IInv, UNCHANGED <<intents, book>>
    PROVE  IntentsSound' /\ AppliedHasIntent'
  BY DEF IInv, IntentsSound, AppliedHasIntent, IntentsOf, OrdersOf

(* A stop forgets the process and leaves the disk as it was.               *)
LEMMA ForgetInv ==
    ASSUME IInv, Forget, TypeOK'
    PROVE  IInv'
<1>1. AppliedIsAccounted' /\ ExecutedIsApplied' /\ PersistedIsApplied'
  BY DEF IInv, Forget, durable, AppliedIsAccounted, ExecutedIsApplied,
         PersistedIsApplied
<1>2. IntentsSound' /\ AppliedHasIntent'
  BY LedgerFrame DEF Forget, durable
<1>3. PlanSound' /\ StageSound'
  BY DEF Forget, PlanSound, StageSound, NothingPlanned
<1>4. MemorySound' /\ GatesSound' /\ CommitSound'
  BY DEF Forget, MemorySound, GatesSound, CommitSound, Trading, Unsaved,
         Executing
<1> QED
  BY <1>1, <1>2, <1>3, <1>4 DEF IInv

(* What happens around a run.                                              *)
LEMMA QuietInv ==
    ASSUME IInv, Begin \/ Tick \/ UNCHANGED vars
    PROVE  IInv'
<1>1. TypeOK'
  BY TypeOfRecovery, TypeOfCommit DEF IInv
<1>2. UNCHANGED <<durable, cur, stage, mem, preHash, settlingFills, plan>>
  BY DEF Begin, StartRun, Tick, vars, process
<1>3. AppliedIsAccounted' /\ ExecutedIsApplied' /\ PersistedIsApplied'
  BY <1>2 DEF IInv, durable, AppliedIsAccounted, ExecutedIsApplied,
              PersistedIsApplied
<1>4. IntentsSound' /\ AppliedHasIntent'
  BY <1>2, LedgerFrame DEF durable
<1>5. CASE UNCHANGED vars
  BY <1>1, <1>3, <1>4, <1>5
  DEF IInv, vars, durable, process, environment, PlanSound, StageSound,
      MemorySound, GatesSound, CommitSound, FilledNow, InFills
<1>6. CASE Begin \/ Tick
  <2>1. pc = "idle" /\ pc' \in {"idle", "expire"}
    BY <1>6 DEF Begin, StartRun, Tick, process
  <2>2. PlanSound' /\ StageSound'
    BY <1>2, <2>1 DEF IInv, PlanSound, StageSound, durable, NothingPlanned,
                      Trading
  <2>3. MemorySound' /\ GatesSound' /\ CommitSound'
    BY <1>2, <2>1 DEF IInv, MemorySound, GatesSound, CommitSound, Trading,
                      Unsaved, Executing
  <2> QED
    BY <1>1, <1>3, <1>4, <2>2, <2>3 DEF IInv
<1> QED
  BY <1>5, <1>6

LEMMA ExpireInv ==
    ASSUME IInv, NEW o \in Order, ExpireOrder(o)
    PROVE  IInv'
<1>1. TypeOK'
  BY TypeOfRecovery DEF IInv
<1>2. /\ pc = "expire" /\ status[o] = "pending_price"
      /\ status' = [status EXCEPT ![o] = "expired"]
      /\ UNCHANGED <<fillings, intents, persisted, book, process, environment>>
  BY DEF ExpireOrder, Stale
<1>3. AppliedIsAccounted' /\ ExecutedIsApplied' /\ PersistedIsApplied'
  BY <1>2 DEF IInv, TypeOK, AppliedIsAccounted, ExecutedIsApplied,
              PersistedIsApplied
<1>4. IntentsSound' /\ AppliedHasIntent'
  BY <1>2, LedgerFrame
<1>5. PlanSound' /\ StageSound'
  BY <1>2 DEF IInv, PlanSound, StageSound, process, NothingPlanned, Trading
<1>6. MemorySound' /\ GatesSound' /\ CommitSound'
  BY <1>2 DEF IInv, MemorySound, GatesSound, CommitSound, Trading, Unsaved,
              Executing, process
<1> QED
  BY <1>1, <1>3, <1>4, <1>5, <1>6 DEF IInv

LEMMA BookCounts == ASSUME IInv PROVE \A o \in Order : book.applied[o] \in Nat
<1>1. book.applied \in [Order -> Nat]
  BY DEF IInv, TypeOK, Portfolio
<1> QED
  BY <1>1

(* The verdicts of reconciliation agree with the portfolio file.           *)
LEMMA ReconciledSound ==
    ASSUME IInv, NEW o \in Order
    PROVE  /\ Reconciled(o) = "none" <=> status[o] # "settling"
           /\ Reconciled(o) \in {"reconstruct", "execute"} => book.applied[o] > 0
           /\ Reconciled(o) = "retry" => book.applied[o] = 0
<1>1. Hash(book).applied = book.applied
  BY HashFacts DEF IInv, TypeOK
<1>2. ASSUME NEW c \in IntentsOf(o)
      PROVE  intents[c].pre.applied[o] = 0 /\ intents[c].post.applied[o] > 0
  BY <1>2 DEF IInv, IntentsSound, IntentsOf, OrdersOf
<1>3. ASSUME NEW c \in IntentsOf(o), SavedAs(c)
      PROVE  book.applied[o] > 0
  BY <1>1, <1>2, <1>3 DEF SavedAs
<1>4. ASSUME NEW c \in IntentsOf(o), NotSaved(c)
      PROVE  book.applied[o] = 0
  BY <1>1, <1>2, <1>4 DEF NotSaved
<1>5. IntentsOf(o) = {} => book.applied[o] = 0
  BY BookCounts DEF IInv, AppliedHasIntent
<1> QED
  BY <1>3, <1>4, <1>5 DEF Reconciled

LEMMA BeginReconcileInv ==
    ASSUME IInv, BeginReconcile
    PROVE  IInv'
<1>1. TypeOK'
  BY TypeOfRecovery DEF IInv
<1>2. /\ pc = "expire" /\ pc' = "reconcile" /\ mem' = book
      /\ plan' = [q \in Order |-> Reconciled(q)]
      /\ UNCHANGED <<durable, cur, stage, settlingFills>>
  BY DEF BeginReconcile
<1>3. AppliedIsAccounted' /\ ExecutedIsApplied' /\ PersistedIsApplied'
  BY <1>2 DEF IInv, durable, AppliedIsAccounted, ExecutedIsApplied,
              PersistedIsApplied
<1>4. IntentsSound' /\ AppliedHasIntent'
  BY <1>2, LedgerFrame DEF durable
<1>5. PlanSound'
  <2>1. ASSUME NEW q \in Order
        PROVE  plan'[q] = Reconciled(q) /\ Reconciled(q) \in Decision
    BY <1>2, ReconciledType
  <2>2. status' = status /\ book' = book
    BY <1>2 DEF durable
  <2> QED
    BY <1>2, <2>1, <2>2, ReconciledSound DEF PlanSound
<1>6. StageSound'
  BY <1>2 DEF IInv, StageSound, Trading
<1>7. MemorySound' /\ GatesSound' /\ CommitSound'
  BY <1>2 DEF IInv, MemorySound, GatesSound, CommitSound, Trading, Unsaved,
              Executing, durable
<1> QED
  BY <1>1, <1>3, <1>4, <1>5, <1>6, <1>7 DEF IInv

LEMMA ReconstructInv ==
    ASSUME IInv, NEW o \in Order, ReconstructMarker(o)
    PROVE  IInv'
<1>1. TypeOK'
  BY TypeOfRecovery DEF IInv
<1>2. /\ pc = "reconcile" /\ stage = "none" /\ plan[o] = "reconstruct"
      /\ plan' = [plan EXCEPT ![o] = "execute"]
      /\ cur' = o /\ stage' = "reconciled"
      /\ UNCHANGED <<status, intents, book, pc, mem, preHash, settlingFills>>
  BY DEF ReconstructMarker
<1>3. status[o] = "settling" /\ book.applied[o] > 0
  BY <1>2 DEF IInv, PlanSound
<1>4. AppliedIsAccounted' /\ ExecutedIsApplied'
  BY <1>2 DEF IInv, AppliedIsAccounted, ExecutedIsApplied
<1>5. PersistedIsApplied'
  <2>1. \A m \in persisted' : m \in persisted \/ m.order = o
    BY DEF ReconstructMarker
  <2> QED
    BY <1>2, <1>3, <2>1 DEF IInv, PersistedIsApplied
<1>6. IntentsSound' /\ AppliedHasIntent'
  BY <1>2, LedgerFrame
<1>7. PlanSound' /\ StageSound'
  BY <1>2, <1>3 DEF IInv, TypeOK, PlanSound, StageSound
<1>8. MemorySound' /\ GatesSound' /\ CommitSound'
  BY <1>2 DEF IInv, MemorySound, GatesSound, CommitSound, Trading, Unsaved,
              Executing
<1> QED
  BY <1>1, <1>4, <1>5, <1>6, <1>7, <1>8 DEF IInv

LEMMA WriteDecisionInv ==
    ASSUME IInv, NEW o \in Order, WriteDecision(o)
    PROVE  IInv'
<1>1. TypeOK'
  BY TypeOfRecovery DEF IInv
<1>2. /\ pc = "reconcile" /\ (stage = "reconciled" => cur = o)
      /\ plan[o] \in {"execute", "retry", "fail"}
      /\ plan' = [plan EXCEPT ![o] = "none"]
      /\ cur' = NoOrder /\ stage' = "none"
      /\ UNCHANGED <<intents, persisted, book, pc, mem, preHash, settlingFills>>
  BY DEF WriteDecision
<1>3. /\ \A q \in Order \ {o} : status'[q] = status[q]
      /\ plan[o] = "execute" => status'[o] = "executed"
      /\ plan[o] = "retry" => status'[o] = "pending_price"
      /\ plan[o] = "fail" => status'[o] = "failed_reconciliation"
  BY <1>2 DEF WriteDecision, Written, IInv, TypeOK
<1>4. /\ plan[o] = "execute" => book.applied[o] > 0
      /\ plan[o] = "retry" => book.applied[o] = 0
  BY <1>2 DEF IInv, PlanSound
<1>5. AppliedIsAccounted' /\ ExecutedIsApplied' /\ PersistedIsApplied'
  BY <1>2, <1>3, <1>4 DEF IInv, AppliedIsAccounted, ExecutedIsApplied,
                          PersistedIsApplied
<1>6. IntentsSound' /\ AppliedHasIntent'
  BY <1>2, LedgerFrame
<1>7. PlanSound' /\ StageSound'
  BY <1>2, <1>3 DEF IInv, TypeOK, PlanSound, StageSound
<1>8. MemorySound' /\ GatesSound' /\ CommitSound'
  BY <1>2 DEF IInv, MemorySound, GatesSound, CommitSound, Trading, Unsaved,
              Executing
<1> QED
  BY <1>1, <1>5, <1>6, <1>7, <1>8 DEF IInv

LEMMA BeginTradingInv ==
    ASSUME IInv, BeginTrading
    PROVE  IInv'
<1>1. TypeOK'
  BY TypeOfRecovery DEF IInv
<1>2. /\ pc = "reconcile" /\ plan = NothingPlanned
      /\ mem' = Marked(mem, runMark) /\ preHash' = Hash(mem')
      /\ UNCHANGED <<status, intents, persisted, book, cur, stage, settlingFills>>
  BY DEF BeginTrading, durable
<1>3. mem'.applied = book.applied /\ preHash'.applied = book.applied
  <2>1. mem \in Portfolio /\ runMark \in Mark /\ mem.applied = book.applied
    BY <1>2 DEF IInv, TypeOK, MemorySound
  <2> QED
    BY <1>2, <2>1, MarkedFacts, HashFacts
<1>4. stage = "none" /\ settlingFills = {} /\ \A q \in Order : status[q] # "settling"
  BY <1>2 DEF IInv, TypeOK, Stage, StageSound, MemorySound, PlanSound,
              NothingPlanned, Trading
<1>5. \A q \in Order : ~FilledNow(q)'
  BY <1>2, <1>4 DEF FilledNow, InFills
<1>6. AppliedIsAccounted' /\ ExecutedIsApplied' /\ PersistedIsApplied'
  BY <1>2 DEF IInv, AppliedIsAccounted, ExecutedIsApplied, PersistedIsApplied
<1>7. IntentsSound' /\ AppliedHasIntent'
  BY <1>2, LedgerFrame
<1>8. StageSound' /\ GatesSound' /\ CommitSound'
  BY <1>2, <1>4, <1>5 DEF BeginTrading, StageSound, GatesSound, CommitSound
<1>9. PlanSound' /\ MemorySound'
  <2>1. CASE GuardBlocked = {}
    <3>1. pc' = "retry" /\ plan' = NothingPlanned
      BY <1>2, <2>1 DEF BeginTrading
    <3> QED
      BY <1>2, <1>3, <1>4, <1>5, <3>1
      DEF PlanSound, MemorySound, NothingPlanned, Trading, Unsaved, Executing
  <2>2. CASE GuardBlocked # {}
    <3>1. PICK b \in GuardBlocked :
             pc' = "reconcile" /\ plan' = [plan EXCEPT ![b] = "fail"]
      BY <1>2, <2>2 DEF BeginTrading
    <3>2. b \in Order /\ status[b] = "pending_price"
      BY DEF GuardBlocked
    <3> QED
      BY <1>2, <1>3, <1>4, <3>1, <3>2
      DEF PlanSound, MemorySound, NothingPlanned, Trading, Unsaved, Executing
  <2> QED
    BY <2>1, <2>2
<1> QED
  BY <1>1, <1>6, <1>7, <1>8, <1>9 DEF IInv

-----------------------------------------------------------------------------
(* An order a loop works on is pending, or one of the fills of this run.   *)
LEMMA AttemptedOrder ==
    ASSUME IInv, NEW o \in Order, Attempting(o)
    PROVE  /\ pc \in Trading /\ stage \in {"none", "attempt"}
           /\ status[o] \in {"pending_price", "settling"}
           /\ status[o] = "pending_price" => ~FilledNow(o)
           /\ status[o] = "settling" => FilledNow(o) /\ Tradable(o)
           /\ book.applied[o] = 0
<1>1. /\ pc \in Trading /\ stage \in {"none", "attempt"}
      /\ status[o] \in {"pending_price", "settling"}
      /\ status[o] = "settling" => Tradable(o)
  <2>1. CASE stage = "attempt" /\ cur = o
    BY <2>1 DEF IInv, StageSound
  <2>2. CASE stage = "none" /\ Tradable(o) /\ status[o] # "none"
    <3>1. status[o] \in Status
      BY DEF IInv, TypeOK
    <3> QED
      BY <2>2, <3>1 DEF Tradable, Finished, Status, Terminal, Trading
  <2> QED
    BY <2>1, <2>2 DEF Attempting
<1>2. InFills(o) <=> status[o] = "settling"
  BY <1>1 DEF IInv, MemorySound, InFills, Unsaved, Executing
<1>3. FilledNow(o) <=> InFills(o)
  BY <1>1 DEF FilledNow
<1>4. book.applied[o] = 0
  <2>1. CASE status[o] = "settling"
    BY <1>1, <1>2, <1>3, <2>1 DEF IInv, MemorySound, Unsaved
  <2>2. CASE status[o] = "pending_price"
    BY <2>2, BookCounts DEF IInv, AppliedIsAccounted
  <2> QED
    BY <1>1, <2>1, <2>2
<1> QED
  BY <1>1, <1>2, <1>3, <1>4

LEMMA CreateOrderInv ==
    ASSUME IInv, NEW o \in Order, CreateOrder(o)
    PROVE  IInv'
<1>1. TypeOK'
  BY TypeOfTrading DEF IInv
<1>2. /\ pc \in Trading /\ stage = "none" /\ status[o] = "none"
      /\ status' = [status EXCEPT ![o] = "pending_price"]
      /\ cur' = o /\ stage' = "attempt"
      /\ UNCHANGED <<intents, persisted, book, pc, mem, preHash,
                      settlingFills, plan, priced, clock>>
  BY DEF CreateOrder, Tradable, Trading, environment
<1>3. /\ status'[o] = "pending_price"
      /\ \A q \in Order \ {o} : status'[q] = status[q]
  BY <1>2 DEF IInv, TypeOK
<1>4. \A q \in Order : FilledNow(q)' <=> FilledNow(q)
  BY <1>2 DEF FilledNow, InFills
<1>5. AppliedIsAccounted' /\ ExecutedIsApplied' /\ PersistedIsApplied'
  BY <1>2, <1>3 DEF IInv, AppliedIsAccounted, ExecutedIsApplied,
                    PersistedIsApplied
<1>6. IntentsSound' /\ AppliedHasIntent'
  BY <1>2, LedgerFrame
<1>7. PlanSound' /\ StageSound'
  BY <1>2, <1>3 DEF IInv, PlanSound, StageSound, NothingPlanned, Trading
<1>8. MemorySound'
  <2>1. \A r \in settlingFills : r.order \in Order /\ r.order # o
    BY <1>2 DEF IInv, TypeOK, FillRef, MemorySound, Unsaved
  <2>2. \A q \in Order : InFills(q)' <=> InFills(q)
    BY <1>2 DEF InFills
  <2> QED
    BY <1>2, <1>3, <1>4, <2>1, <2>2
    DEF IInv, MemorySound, Trading, Unsaved, Executing
<1>9. GatesSound' /\ CommitSound'
  BY <1>2, <1>4 DEF IInv, GatesSound, CommitSound, Trading
<1> QED
  BY <1>1, <1>5, <1>6, <1>7, <1>8, <1>9 DEF IInv

LEMMA FillOrderInv ==
    ASSUME IInv, NEW o \in Order, FillOrder(o)
    PROVE  IInv'
<1>1. TypeOK'
  BY TypeOfTrading DEF IInv
<1>2. /\ Attempting(o) /\ TickerOf[o] \in priced
      /\ mem' = Applied(mem, o)
      /\ cur' = o /\ stage' = "filled"
      /\ UNCHANGED <<status, intents, persisted, book, pc, preHash,
                      settlingFills, plan, priced, clock>>
  BY DEF FillOrder, environment
<1>3. /\ pc \in Trading /\ stage \in {"none", "attempt"}
      /\ status[o] \in {"pending_price", "settling"}
      /\ book.applied[o] = 0
  BY <1>2, AttemptedOrder
<1>4. /\ mem'.applied[o] > 0
      /\ \A q \in Order \ {o} : mem'.applied[q] = mem.applied[q]
      /\ \A t \in Ticker :
            /\ t \in mem.held => \/ t \in mem'.held
                                 \/ mem'.cooldowns[t] = clock.session
            /\ mem.cooldowns[t] = clock.session =>
                   mem'.cooldowns[t] = clock.session
      /\ ActionOf[o] = "BUY" => TickerOf[o] \in mem'.held
  <2>1. mem \in Portfolio /\ clock.session \in Int
    BY DEF IInv, TypeOK
  <2> QED  BY <1>2, <2>1, AppliedFacts
<1>5. \A q \in Order : FilledNow(q)' <=> (FilledNow(q) \/ q = o)
  BY <1>2, <1>3 DEF FilledNow, InFills
<1>6. AppliedIsAccounted' /\ ExecutedIsApplied' /\ PersistedIsApplied'
  BY <1>2 DEF IInv, AppliedIsAccounted, ExecutedIsApplied, PersistedIsApplied
<1>7. IntentsSound' /\ AppliedHasIntent'
  BY <1>2, LedgerFrame
<1>8. PlanSound' /\ StageSound'
  BY <1>2, <1>3 DEF IInv, PlanSound, StageSound, NothingPlanned, Trading
<1>9. MemorySound'
  <2>1. \A q \in Order : InFills(q)' <=> InFills(q)
    BY <1>2 DEF InFills
  <2> QED
    BY <1>2, <1>3, <1>4, <1>5, <2>1
    DEF IInv, MemorySound, Trading, Unsaved, Executing
<1>10. GatesSound' /\ CommitSound'
  BY <1>2, <1>3, <1>4, <1>5 DEF IInv, GatesSound, CommitSound, Trading
<1> QED
  BY <1>1, <1>6, <1>7, <1>8, <1>9, <1>10 DEF IInv

LEMMA AnnotateTradeInv ==
    ASSUME IInv, AnnotateTrade
    PROVE  IInv'
<1>1. TypeOK'
  BY TypeOfTrading DEF IInv
<1>2. /\ stage = "filled" /\ stage' = "none"
      /\ status' = [status EXCEPT ![cur] = "settling"]
      /\ settlingFills' = settlingFills \union
            {[order |-> cur, attempt |-> fillings[cur]]}
      /\ UNCHANGED <<intents, persisted, book, pc, mem, preHash, plan, priced,
                      clock>>
  BY DEF AnnotateTrade, environment
<1>3. /\ cur \in Order /\ pc \in Trading
      /\ status[cur] \in {"pending_price", "settling"} /\ book.applied[cur] = 0
  BY <1>2 DEF IInv, StageSound
<1>4. /\ status'[cur] = "settling"
      /\ \A q \in Order \ {cur} : status'[q] = status[q]
  BY <1>2, <1>3 DEF IInv, TypeOK
<1>5. \A q \in Order : InFills(q)' <=> (InFills(q) \/ q = cur)
  <2> DEFINE f == [order |-> cur, attempt |-> fillings[cur]]
  <2>1. f.order = cur /\ settlingFills' = settlingFills \union {f}
    BY <1>2
  <2> HIDE DEF f
  <2> QED
    BY <2>1 DEF InFills
<1>6. \A q \in Order : FilledNow(q)' <=> FilledNow(q)
  BY <1>2, <1>5 DEF FilledNow
<1>7. AppliedIsAccounted' /\ ExecutedIsApplied' /\ PersistedIsApplied'
  BY <1>2, <1>3, <1>4 DEF IInv, AppliedIsAccounted, ExecutedIsApplied,
                          PersistedIsApplied
<1>8. IntentsSound' /\ AppliedHasIntent'
  BY <1>2, LedgerFrame
<1>9. PlanSound' /\ StageSound'
  BY <1>2, <1>3 DEF IInv, PlanSound, StageSound, NothingPlanned, Trading
<1>10. MemorySound'
  <2>1. \A r \in settlingFills' : status'[r.order] = "settling"
    BY <1>2, <1>3, <1>4 DEF IInv, TypeOK, FillRef, MemorySound, Unsaved
  <2> QED
    BY <1>2, <1>3, <1>4, <1>5, <1>6, <2>1
    DEF IInv, MemorySound, Trading, Unsaved, Executing
<1>11. GatesSound' /\ CommitSound'
  BY <1>2, <1>3, <1>6 DEF IInv, GatesSound, CommitSound, Trading
<1> QED
  BY <1>1, <1>7, <1>8, <1>9, <1>10, <1>11 DEF IInv

(* Neither refusal can hit an order this run has already filled.           *)
LEMMA RefusedOrder ==
    ASSUME IInv, NEW o \in Order, NoFill(o) \/ CancelBuy(o)
    PROVE  status[o] = "pending_price" /\ ~FilledNow(o)
<1>1. Attempting(o)
  BY DEF NoFill, CancelBuy
<1>2. /\ pc \in Trading
      /\ status[o] \in {"pending_price", "settling"}
      /\ status[o] = "pending_price" => ~FilledNow(o)
      /\ status[o] = "settling" => FilledNow(o) /\ Tradable(o)
  BY <1>1, AttemptedOrder
<1>3. ASSUME status[o] = "settling"
      PROVE  FALSE
  <2>1. TickerOf[o] \in priced
    BY <1>2, <1>3 DEF IInv, MemorySound
  <2>2. CASE CancelBuy(o)
    <3>1. pc = "buy" /\ CooledDown(TickerOf[o]) /\ TickerOf[o] \notin mem.held
      BY <1>2, <1>3, <2>2 DEF CancelBuy, Tradable
    <3>2. mem.cooldowns[TickerOf[o]] = clock.session
      BY <1>2, <1>3, <2>2, <3>1 DEF CancelBuy, IInv, GatesSound
    <3> QED
      BY <3>1, <3>2 DEF CooledDown, IInv, TypeOK
  <2>3. CASE NoFill(o)
    BY <1>2, <1>3, <2>1, <2>3 DEF NoFill, Tradable
  <2> QED
    BY <2>2, <2>3
<1> QED
  BY <1>2, <1>3

LEMMA RefuseInv ==
    ASSUME IInv, NEW o \in Order, NoFill(o) \/ CancelBuy(o)
    PROVE  IInv'
<1>1. TypeOK'
  BY TypeOfTrading DEF IInv
<1>2. /\ Attempting(o)
      /\ status' = [status EXCEPT ![o] = status'[o]]
      /\ status'[o] \in {"pending_price", "cancelled"}
      /\ stage' = "none" /\ cur' = NoOrder
      /\ UNCHANGED <<intents, persisted, book, pc, preHash, settlingFills,
                      plan, priced, clock>>
  BY DEF NoFill, CancelBuy, environment, IInv, TypeOK
<1>3. /\ mem'.applied = mem.applied /\ mem'.held = mem.held
      /\ mem'.cooldowns = mem.cooldowns
  BY DEF NoFill, CancelBuy, IInv, TypeOK, Portfolio
<1>4. \A q \in Order \ {o} : status'[q] = status[q]
  BY <1>2 DEF IInv, TypeOK
<1>5. /\ pc \in Trading /\ stage \in {"none", "attempt"}
      /\ status[o] = "pending_price" /\ ~FilledNow(o) /\ book.applied[o] = 0
  BY <1>2, AttemptedOrder, RefusedOrder
<1>6. \A q \in Order : FilledNow(q)' <=> FilledNow(q)
  BY <1>2, <1>5 DEF FilledNow, InFills
<1>7. AppliedIsAccounted' /\ ExecutedIsApplied' /\ PersistedIsApplied'
  BY <1>2, <1>4, <1>5 DEF IInv, AppliedIsAccounted, ExecutedIsApplied,
                          PersistedIsApplied
<1>8. IntentsSound' /\ AppliedHasIntent'
  BY <1>2, LedgerFrame
<1>9. PlanSound' /\ StageSound'
  BY <1>2, <1>5 DEF IInv, PlanSound, StageSound, NothingPlanned, Trading
<1>10. MemorySound'
  <2>1. \A r \in settlingFills : r.order \in Order /\ r.order # o
    BY <1>5 DEF FilledNow, InFills, IInv, TypeOK, FillRef
  <2>2. \A q \in Order : InFills(q)' <=> InFills(q)
    BY <1>2 DEF InFills
  <2> QED
    BY <1>2, <1>3, <1>4, <1>5, <1>6, <2>1, <2>2
    DEF IInv, MemorySound, Trading, Unsaved, Executing
<1>11. GatesSound' /\ CommitSound'
  BY <1>2, <1>3, <1>5, <1>6 DEF IInv, GatesSound, CommitSound, Trading
<1> QED
  BY <1>1, <1>7, <1>8, <1>9, <1>10, <1>11 DEF IInv

LEMMA NextLoopInv ==
    ASSUME IInv, NextLoop
    PROVE  IInv'
<1>1. TypeOK'
  BY TypeOfTrading DEF IInv
<1>2. /\ pc \in Trading /\ stage = "none"
      /\ pc' \in Trading \union {"intent", "save"}
      /\ pc' = "save" => settlingFills = {}
      /\ UNCHANGED <<status, intents, persisted, book, cur, stage, mem, preHash,
                      settlingFills, plan, priced, clock>>
  BY DEF NextLoop, AfterBuys, durable, environment, Trading
<1>3. \A q \in Order : /\ FilledNow(q)' <=> FilledNow(q)
                       /\ InFills(q)' <=> InFills(q)
  BY <1>2 DEF FilledNow, InFills
<1>4. AppliedIsAccounted' /\ ExecutedIsApplied' /\ PersistedIsApplied'
  BY <1>2 DEF IInv, AppliedIsAccounted, ExecutedIsApplied, PersistedIsApplied
<1>5. IntentsSound' /\ AppliedHasIntent'
  BY <1>2, LedgerFrame
<1>6. PlanSound' /\ StageSound'
  BY <1>2 DEF IInv, PlanSound, StageSound, NothingPlanned, Trading
<1>7. MemorySound'
  BY <1>2, <1>3 DEF IInv, MemorySound, Trading, Unsaved, Executing
<1>8. GatesSound' /\ CommitSound'
  BY <1>2, <1>3 DEF IInv, GatesSound, CommitSound, Trading
<1> QED
  BY <1>1, <1>4, <1>5, <1>6, <1>7, <1>8 DEF IInv

-----------------------------------------------------------------------------
LEMMA WriteCommitIntentInv ==
    ASSUME IInv, WriteCommitIntent
    PROVE  IInv'
<1>1. TypeOK'
  BY TypeOfCommit DEF IInv
<1> DEFINE new == [pre |-> preHash, post |-> Hash(mem), refs |-> settlingFills]
<1>2. /\ pc = "intent" /\ pc' = "save"
      /\ intents' = Append(intents, new)
      /\ UNCHANGED <<status, persisted, book, cur, stage, mem, preHash,
                      settlingFills, plan, priced, clock>>
  BY DEF WriteCommitIntent, environment
<1>3. /\ DOMAIN intents' = 1..(Len(intents) + 1) /\ Len(intents) \in Nat
      /\ DOMAIN intents = 1..Len(intents)
      /\ Len(intents') = Len(intents) + 1
      /\ intents'[Len(intents) + 1] = new
      /\ \A c \in DOMAIN intents : intents'[c] = intents[c]
  BY <1>2 DEF IInv, TypeOK
<1>4. stage = "none"
  BY <1>2 DEF IInv, TypeOK, Stage, StageSound, Trading
<1>5. \A q \in Order : /\ FilledNow(q)' <=> FilledNow(q)
                       /\ InFills(q)' <=> InFills(q)
                       /\ FilledNow(q) <=> InFills(q)
  BY <1>2, <1>4 DEF FilledNow, InFills
<1>6. AppliedIsAccounted' /\ ExecutedIsApplied' /\ PersistedIsApplied'
  BY <1>2 DEF IInv, AppliedIsAccounted, ExecutedIsApplied, PersistedIsApplied
<1>7. IntentsSound'
  <2>1. ASSUME NEW r \in settlingFills
        PROVE  new.pre.applied[r.order] = 0 /\ new.post.applied[r.order] > 0
    <3>1. r.order \in Order /\ InFills(r.order)
      BY DEF IInv, TypeOK, FillRef, InFills
    <3>2. mem.applied[r.order] > 0 /\ book.applied[r.order] = 0
      BY <1>2, <1>5, <3>1 DEF IInv, MemorySound, Unsaved
    <3>3. preHash.applied = book.applied /\ Hash(mem).applied = mem.applied
      BY <1>2, HashFacts DEF IInv, TypeOK, MemorySound
    <3> QED
      BY <3>2, <3>3
  <2> HIDE DEF new
  <2>2. ASSUME NEW c \in DOMAIN intents', NEW r \in intents'[c].refs
        PROVE  /\ intents'[c].pre.applied[r.order] = 0
               /\ intents'[c].post.applied[r.order] > 0
    <3>1. CASE c \in DOMAIN intents
      BY <1>3, <2>2, <3>1 DEF IInv, IntentsSound
    <3>2. CASE c = Len(intents) + 1
      BY <1>3, <2>1, <2>2, <3>2 DEF new
    <3> QED
      BY <1>3, <3>1, <3>2
  <2> QED
    BY <2>2 DEF IntentsSound
<1>8. AppliedHasIntent'
  <2>1. ASSUME NEW q \in Order, NEW c \in IntentsOf(q)
        PROVE  c \in IntentsOf(q)'
    BY <1>3, <2>1 DEF IntentsOf, OrdersOf
  <2> QED
    BY <1>2, <2>1 DEF IInv, AppliedHasIntent
<1>9. PlanSound' /\ StageSound'
  BY <1>2, <1>4 DEF IInv, PlanSound, StageSound, NothingPlanned, Trading
<1>10. MemorySound' /\ GatesSound'
  BY <1>2, <1>5 DEF IInv, MemorySound, GatesSound, Trading, Unsaved, Executing
<1>11. CommitSound'
  BY <1>2, <1>3 DEF CommitSound, Hash
<1> QED
  BY <1>1, <1>6, <1>7, <1>8, <1>9, <1>10, <1>11 DEF IInv

LEMMA SavePortfolioInv ==
    ASSUME IInv, SavePortfolio
    PROVE  IInv'
<1>1. TypeOK'
  BY TypeOfCommit DEF IInv
<1>2. /\ pc = "save" /\ pc' = "finalize" /\ book' = mem
      /\ UNCHANGED <<status, intents, persisted, cur, stage, mem, preHash,
                      settlingFills, plan>>
  BY DEF SavePortfolio
<1>3. stage = "none"
  BY <1>2 DEF IInv, TypeOK, Stage, StageSound, Trading
<1>4. ASSUME NEW q \in Order
      PROVE  /\ InFills(q) => mem.applied[q] > 0 /\ status[q] = "settling"
             /\ ~InFills(q) => mem.applied[q] = book.applied[q]
  BY <1>2, <1>3 DEF IInv, MemorySound, FilledNow, InFills, Unsaved
<1>5. AppliedIsAccounted' /\ ExecutedIsApplied' /\ PersistedIsApplied'
  <2>1. \A m \in persisted : m.order \in Order
    BY DEF IInv, TypeOK
  <2> QED
    BY <1>2, <1>4, <2>1 DEF IInv, AppliedIsAccounted, ExecutedIsApplied,
                            PersistedIsApplied
<1>6. IntentsSound'
  BY <1>2 DEF IInv, IntentsSound
<1>7. AppliedHasIntent'
  <2>1. ASSUME NEW q \in Order, InFills(q)
        PROVE  Len(intents) \in IntentsOf(q)
    <3>1. Len(intents) > 0 /\ intents[Len(intents)].refs = settlingFills
      BY <1>2, <2>1 DEF IInv, CommitSound, InFills
    <3>2. Len(intents) \in DOMAIN intents
      BY <3>1 DEF IInv, TypeOK
    <3> QED
      BY <2>1, <3>1, <3>2 DEF IntentsOf, OrdersOf, InFills
  <2>2. \A q \in Order : IntentsOf(q)' = IntentsOf(q)
    BY <1>2 DEF IntentsOf, OrdersOf
  <2> QED
    BY <1>2, <1>4, <2>1, <2>2 DEF IInv, AppliedHasIntent
<1>8. PlanSound' /\ StageSound'
  BY <1>2, <1>3 DEF IInv, PlanSound, StageSound, NothingPlanned
<1>9. MemorySound' /\ GatesSound'
  BY <1>2 DEF IInv, MemorySound, GatesSound, InFills, Trading, Unsaved,
              Executing
<1>10. CommitSound'
  <2>1. \A r \in settlingFills : r.order \in Order /\ InFills(r.order)
    BY DEF IInv, TypeOK, FillRef, InFills
  <2> QED
    BY <1>2, <1>4, <2>1 DEF CommitSound
<1> QED
  BY <1>1, <1>5, <1>6, <1>7, <1>8, <1>9, <1>10 DEF IInv

LEMMA MarkFillPersistedInv ==
    ASSUME IInv, NEW r \in settlingFills, MarkFillPersisted(r)
    PROVE  IInv'
<1>1. TypeOK'
  BY TypeOfCommit DEF IInv
<1>2. /\ pc = "finalize" /\ status[r.order] = "settling"
      /\ cur' = r.order /\ stage' = "persisted"
      /\ UNCHANGED <<status, intents, book, pc, mem, preHash, settlingFills,
                      plan>>
  BY DEF MarkFillPersisted, Committed
<1>3. r.order \in Order /\ book.applied[r.order] > 0
  BY <1>2 DEF IInv, TypeOK, FillRef, CommitSound
<1>4. AppliedIsAccounted' /\ ExecutedIsApplied'
  BY <1>2 DEF IInv, AppliedIsAccounted, ExecutedIsApplied
<1>5. PersistedIsApplied'
  <2>1. \A m \in persisted' : m \in persisted \/ m.order = r.order
    BY DEF MarkFillPersisted
  <2> QED
    BY <1>2, <1>3, <2>1 DEF IInv, PersistedIsApplied
<1>6. IntentsSound' /\ AppliedHasIntent'
  BY <1>2, LedgerFrame
<1>7. PlanSound' /\ StageSound'
  BY <1>2, <1>3 DEF IInv, PlanSound, StageSound, NothingPlanned
<1>8. MemorySound' /\ GatesSound' /\ CommitSound'
  BY <1>2 DEF IInv, MemorySound, GatesSound, CommitSound, InFills, Trading,
              Unsaved, Executing
<1> QED
  BY <1>1, <1>4, <1>5, <1>6, <1>7, <1>8 DEF IInv

LEMMA MarkExecutedInv ==
    ASSUME IInv, MarkExecuted
    PROVE  IInv'
<1>1. TypeOK'
  BY TypeOfCommit DEF IInv
<1>2. /\ stage = "persisted" /\ stage' = "none"
      /\ status' = [status EXCEPT ![cur] = "executed"]
      /\ UNCHANGED <<intents, persisted, book, pc, mem, preHash, settlingFills,
                      plan>>
  BY DEF MarkExecuted
<1>3. /\ cur \in Order /\ pc = "finalize" /\ status[cur] = "settling"
      /\ book.applied[cur] > 0
  BY <1>2 DEF IInv, StageSound
<1>4. /\ status'[cur] = "executed"
      /\ \A q \in Order \ {cur} : status'[q] = status[q]
  BY <1>2, <1>3 DEF IInv, TypeOK
<1>5. AppliedIsAccounted' /\ ExecutedIsApplied' /\ PersistedIsApplied'
  BY <1>2, <1>3, <1>4 DEF IInv, AppliedIsAccounted, ExecutedIsApplied,
                          PersistedIsApplied
<1>6. IntentsSound' /\ AppliedHasIntent'
  BY <1>2, LedgerFrame
<1>7. PlanSound' /\ StageSound'
  BY <1>2, <1>3 DEF IInv, PlanSound, StageSound, NothingPlanned
<1>8. MemorySound' /\ GatesSound' /\ CommitSound'
  BY <1>2, <1>3, <1>4 DEF IInv, MemorySound, GatesSound, CommitSound, InFills,
                          Trading, Unsaved, Executing
<1> QED
  BY <1>1, <1>5, <1>6, <1>7, <1>8 DEF IInv

(* A run that ends, aborts or is killed.                                   *)
LEMMA StopInv ==
    ASSUME IInv, EndRun \/ AbortRun \/ Crash
    PROVE  IInv'
<1>1. TypeOK'
  BY TypeOfRecovery, TypeOfCommit DEF IInv
<1> QED
  BY <1>1, ForgetInv DEF EndRun, AbortRun, Crash

-----------------------------------------------------------------------------
(* Nothing has been traded when the ledgers are empty.                     *)
LEMMA InitInv == Init => IInv
<1> SUFFICES ASSUME Init PROVE IInv
  OBVIOUS
<1>1. Hash(InitBook) \in Fingerprint
  BY InitBookType, HashFacts
<1>2. intents \in Seq([pre : Fingerprint, post : Fingerprint,
                       refs : SUBSET FillRef]) /\ DOMAIN intents = {}
  BY DEF Init
<1>3. clock \in [session : 1..MaxSession, closed : BOOLEAN] /\ crashes \in 0..MaxCrash
  BY DEF Init
<1>4. TypeOK
  BY <1>1, <1>2, <1>3, InitBookType
  DEF Init, TypeOK, Status, Phase, Stage, Decision, NothingPlanned
<1>5. \A o \in Order : status[o] = "none" /\ book.applied[o] = 0
  BY DEF Init, InitBook
<1>6. AppliedIsAccounted /\ ExecutedIsApplied /\ PersistedIsApplied
  BY <1>5 DEF Init, AppliedIsAccounted, ExecutedIsApplied, PersistedIsApplied
<1>7. IntentsSound /\ AppliedHasIntent
  BY <1>2, <1>5 DEF IntentsSound, AppliedHasIntent
<1>8. PlanSound /\ StageSound /\ MemorySound /\ GatesSound /\ CommitSound
  BY DEF Init, PlanSound, StageSound, MemorySound, GatesSound, CommitSound,
         NothingPlanned, Trading, Unsaved, Executing
<1> QED
  BY <1>4, <1>6, <1>7, <1>8 DEF IInv

LEMMA NextInv == IInv /\ [Next]_vars => IInv'
<1> SUFFICES ASSUME IInv, [Next]_vars PROVE IInv'
  OBVIOUS
<1>1. CASE Begin \/ Tick \/ UNCHANGED vars
  BY <1>1, QuietInv
<1>2. CASE Crash
  BY <1>2, StopInv
<1>3. CASE RunStep
  BY <1>3, ExpireInv, BeginReconcileInv, ReconstructInv, WriteDecisionInv,
     BeginTradingInv, CreateOrderInv, FillOrderInv, AnnotateTradeInv, RefuseInv,
     NextLoopInv, WriteCommitIntentInv, SavePortfolioInv, MarkFillPersistedInv,
     MarkExecutedInv, StopInv
  DEF RunStep
<1> QED
  BY <1>1, <1>2, <1>3 DEF Next

(* In every reachable state the write-ahead log, the order ledger, the     *)
(* portfolio file and the run in progress agree in the sense of IInv.      *)
THEOREM Invariance == Spec => []IInv
  BY InitInv, NextInv, PTL DEF Spec

(* Every variable keeps its type: in particular no step of any recovery    *)
(* writes an order status outside the documented ones.                     *)
THEOREM TypeCorrect == Spec => []TypeOK
<1>1. IInv => TypeOK
  BY DEF IInv
<1> QED
  BY <1>1, Invariance, PTL

(* A fill in the saved portfolio belongs to an order that is SETTLING,     *)
(* EXECUTED or under manual review: nothing expires, cancels or retries it *)
(* (run_strategy_execution, reconcile_settling_orders).                    *)
THEOREM FillsAreAccounted == Spec => []AppliedIsAccounted
<1>1. IInv => AppliedIsAccounted
  BY DEF IInv
<1> QED
  BY <1>1, Invariance, PTL

(* An order is EXECUTED only after its fill is in the portfolio file.      *)
THEOREM ExecutedOnlyApplied == Spec => []ExecutedIsApplied
<1>1. IInv => ExecutedIsApplied
  BY DEF IInv
<1> QED
  BY <1>1, Invariance, PTL

(* A persisted marker exists only for a fill that is in the portfolio file *)
(* (mark_fill_persisted after the save, and when recovery reconstructs it).*)
THEOREM PersistedOnlyApplied == Spec => []PersistedIsApplied
<1>1. IInv => PersistedIsApplied
  BY DEF IInv
<1> QED
  BY <1>1, Invariance, PTL

(* The steps that write the order ledger.                                  *)
LEMMA StatusSteps ==
    ASSUME [Next]_vars
    PROVE  \/ UNCHANGED status
           \/ \E o \in Order : ExpireOrder(o) \/ CreateOrder(o)
           \/ \E o \in Order : NoFill(o) \/ CancelBuy(o)
           \/ \E o \in Order : WriteDecision(o)
           \/ AnnotateTrade \/ MarkExecuted
  BY DEF Next, vars, durable, Begin, StartRun, RunStep, BeginReconcile,
         ReconstructMarker, AbortRun, Forget, BeginTrading, FillOrder, NextLoop,
         WriteCommitIntent, SavePortfolio, MarkFillPersisted, EndRun, Crash, Tick

LEMMA TerminalStep ==
    ASSUME IInv, [Next]_vars, NEW o \in Order, status[o] \in Terminal
    PROVE  status'[o] = status[o]
<1>1. status \in [Order -> Status]
  BY DEF IInv, TypeOK
<1>2. status[o] \notin {"none", "pending_price", "settling"}
  BY DEF Terminal
<1>3. CASE UNCHANGED status
  BY <1>3
<1>4. CASE \E q \in Order : ExpireOrder(q) \/ CreateOrder(q)
  BY <1>1, <1>2, <1>4 DEF ExpireOrder, Stale, CreateOrder
<1>5. CASE \E q \in Order : NoFill(q) \/ CancelBuy(q)
  <2>1. PICK q \in Order : NoFill(q) \/ CancelBuy(q)
    BY <1>5
  <2>2. status[q] = "pending_price"
    BY <2>1, RefusedOrder
  <2> QED
    BY <1>1, <1>2, <2>1, <2>2 DEF NoFill, CancelBuy
<1>6. CASE \E q \in Order : WriteDecision(q)
  <2>1. PICK q \in Order : WriteDecision(q)
    BY <1>6
  <2>2. status[q] \in {"settling", "pending_price"}
    BY <2>1 DEF WriteDecision, IInv, PlanSound
  <2> QED
    BY <1>1, <1>2, <2>1, <2>2 DEF WriteDecision
<1>7. CASE AnnotateTrade \/ MarkExecuted
  <2>1. cur \in Order /\ status[cur] \in {"settling", "pending_price"}
    BY <1>7 DEF AnnotateTrade, MarkExecuted, IInv, StageSound
  <2> QED
    BY <1>1, <1>2, <1>7, <2>1 DEF AnnotateTrade, MarkExecuted
<1> QED
  BY <1>3, <1>4, <1>5, <1>6, <1>7, StatusSteps

(* A terminal order status is final: no loop, retry or recovery touches an *)
(* order once it is EXECUTED, EXPIRED, CANCELLED or FAILED_RECONCILIATION. *)
THEOREM TerminalStays == Spec => TerminalIsFinal
<1>1. IInv /\ [Next]_vars =>
        [\A o \in Order : status[o] \in Terminal => status'[o] = status[o]]_vars
  BY TerminalStep
<1> QED
  BY <1>1, Invariance, PTL DEF Spec, TerminalIsFinal

(* Only a save replaces the portfolio file.                                *)
LEMMA BookSteps == ASSUME [Next]_vars PROVE SavePortfolio \/ UNCHANGED book
  BY DEF Next, vars, durable, Begin, StartRun, RunStep, ExpireOrder,
         BeginReconcile, ReconstructMarker, WriteDecision, AbortRun, Forget,
         BeginTrading, CreateOrder, FillOrder, AnnotateTrade, NoFill, CancelBuy,
         NextLoop, WriteCommitIntent, MarkFillPersisted, MarkExecuted, EndRun,
         Crash, Tick

(* The fills of the portfolio file change only in a save, only to what the *)
(* last commit intent announced and only by the orders it lists.           *)
THEOREM SavesAreAnnounced == Spec => SaveIsAnnounced
<1>1. ASSUME IInv, [Next]_vars, book'.applied # book.applied
      PROVE  LET c == Len(intents) IN
             /\ c > 0
             /\ Hash(book') = intents[c].post
             /\ {o \in Order : book'.applied[o] # book.applied[o]} = OrdersOf(c)
  <2>1. SavePortfolio
    BY <1>1, BookSteps
  <2>2. pc = "save" /\ book' = mem
    BY <2>1 DEF SavePortfolio
  <2>3. stage = "none"
    BY <1>1, <2>2 DEF IInv, TypeOK, Stage, StageSound, Trading
  <2>4. ASSUME NEW q \in Order
        PROVE  /\ InFills(q) => mem.applied[q] > 0 /\ book.applied[q] = 0
               /\ ~InFills(q) => mem.applied[q] = book.applied[q]
    BY <1>1, <2>2, <2>3 DEF IInv, MemorySound, FilledNow, InFills, Unsaved
  <2>5. \E q \in Order : InFills(q)
    <3>1. mem.applied \in [Order -> Nat] /\ book.applied \in [Order -> Nat]
      BY <1>1 DEF IInv, TypeOK, Portfolio
    <3> QED
      BY <1>1, <2>2, <2>4, <3>1
  <2>6. /\ Len(intents) > 0
        /\ intents[Len(intents)].refs = settlingFills
        /\ intents[Len(intents)].post = Hash(mem)
    BY <1>1, <2>2, <2>5 DEF IInv, CommitSound, InFills
  <2>7. {o \in Order : mem.applied[o] # book.applied[o]} = {o \in Order : InFills(o)}
    BY <2>4
  <2>8. {o \in Order : InFills(o)} = OrdersOf(Len(intents))
    BY <1>1, <2>6 DEF OrdersOf, InFills, IInv, TypeOK, FillRef
  <2> QED
    BY <2>2, <2>6, <2>7, <2>8
<1>2. IInv /\ [Next]_vars =>
        [book'.applied # book.applied =>
           LET c == Len(intents) IN
           /\ c > 0
           /\ Hash(book') = intents[c].post
           /\ {o \in Order : book'.applied[o] # book.applied[o]} = OrdersOf(c)]_vars
  BY <1>1
<1> QED
  BY <1>2, Invariance, PTL DEF Spec, SaveIsAnnounced
=============================================================================

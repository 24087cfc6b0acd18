----------------------- MODULE FillWalSettlementProofs ----------------------
(***************************************************************************)
(* What FillWal promises to the outside, for every set of orders, tickers  *)
(* and prices and any number of sessions and crashes: the fill log always  *)
(* loads, no fill is applied twice, and the execution of a strategy        *)
(* implements OrderSettlement.  LogSound and OnceSound are inductive       *)
(* relative to IInv.                                                       *)
(***************************************************************************)
EXTENDS FillWalRefinement, FillWalProofs

USE ConstantAssumption

-----------------------------------------------------------------------------
(* Steps that write neither log nor refer to new events.                   *)
LEMMA LogFrame ==
    ASSUME LogSound, UNCHANGED <<fillings, intents, persisted>>,
           settlingFills' \subseteq settlingFills,
           stage' = "filled" => stage = "filled" /\ cur' = cur,
           \A o \in Order : plan'[o] = "reconstruct" => plan[o] = "reconstruct",
           pc' = "finalize" =>
               pc = "finalize" /\ UNCHANGED <<status, stage, cur, settlingFills>>
    PROVE  LogSound'
  BY DEF LogSound, LedgerLoads, MarkersOf

LEMMA LogForget ==
    ASSUME LogSound, Forget
    PROVE  LogSound'
<1>1. \A o \in Order : plan'[o] # "reconstruct"
  BY DEF Forget, NothingPlanned
<1> QED
  BY <1>1, LogFrame DEF Forget, durable

(* An order whose marker is to be reconstructed has none.                  *)
LEMMA LogBeginReconcile ==
    ASSUME IInv, LogSound, BeginReconcile
    PROVE  LogSound'
<1>1. \A o \in Order : Reconciled(o) = "reconstruct" => MarkersOf(o) = {}
  BY DEF Reconciled
<1>2. \A o \in Order : plan'[o] = "reconstruct" => MarkersOf(o)' = {}
  BY <1>1 DEF BeginReconcile, durable, MarkersOf
<1>3. /\ UNCHANGED <<fillings, intents, persisted, settlingFills, cur, stage>>
      /\ pc' = "reconcile"
  BY DEF BeginReconcile, durable
<1> QED
  BY <1>2, <1>3 DEF LogSound, LedgerLoads

(* The first marker of an order keeps the file loadable.                   *)
LEMMA NewMarker ==
    ASSUME LedgerLoads, NEW new, MarkersOf(new.order) = {},
           persisted' = persisted \union {new},
           UNCHANGED <<fillings, intents>>
    PROVE  /\ LedgerLoads'
           /\ \A o \in Order : o # new.order => MarkersOf(o)' = MarkersOf(o)
<1>1. \A m \in persisted : m.order # new.order
  BY DEF MarkersOf
<1>2. ASSUME NEW m \in persisted', NEW n \in persisted', m.order = n.order
      PROVE  m = n
  BY <1>1, <1>2 DEF LedgerLoads
<1> QED
  BY <1>2 DEF LedgerLoads, MarkersOf

LEMMA LogReconstruct ==
    ASSUME IInv, LogSound, NEW o \in Order, ReconstructMarker(o)
    PROVE  LogSound'
<1>1. PICK c \in IntentsOf(o) : \E r \in intents[c].refs :
         persisted' = persisted \union
            {[order |-> o, attempt |-> r.attempt, commit |-> c]}
  BY DEF ReconstructMarker
<1>2. PICK r \in intents[c].refs :
         persisted' = persisted \union
            {[order |-> o, attempt |-> r.attempt, commit |-> c]}
  BY <1>1
<1> DEFINE new == [order |-> o, attempt |-> r.attempt, commit |-> c]
<1>3. /\ plan[o] = "reconstruct" /\ plan' = [plan EXCEPT ![o] = "execute"]
      /\ pc' = "reconcile" /\ stage' = "reconciled"
      /\ UNCHANGED <<fillings, intents, settlingFills>>
  BY DEF ReconstructMarker
<1>4. MarkersOf(o) = {}
  BY <1>3 DEF LogSound
<1>5. new.order = o
  OBVIOUS
<1> HIDE DEF new
<1>6. /\ LedgerLoads'
      /\ \A q \in Order : q # o => MarkersOf(q)' = MarkersOf(q)
  BY <1>2, <1>3, <1>4, <1>5, NewMarker DEF LogSound, new
<1>7. \A q \in Order : plan'[q] = "reconstruct" => q # o /\ plan[q] = "reconstruct"
  BY <1>3 DEF IInv, TypeOK
<1> QED
  BY <1>3, <1>6, <1>7 DEF LogSound

LEMMA LogFillOrder ==
    ASSUME IInv, LogSound, NEW o \in Order, FillOrder(o)
    PROVE  LogSound'
<1>1. /\ fillings' = [fillings EXCEPT ![o] = @ + 1]
      /\ cur' = o /\ stage' = "filled"
      /\ UNCHANGED <<status, intents, persisted, pc, settlingFills, plan>>
  BY DEF FillOrder
<1>2. pc' # "finalize"
  BY <1>1, AttemptedOrder DEF FillOrder, Trading
<1>3. /\ fillings'[o] > 0
      /\ \A q \in Order, a \in Nat : a \in 1..fillings[q] => a \in 1..fillings'[q]
  BY <1>1 DEF IInv, TypeOK
<1>4. \A r \in settlingFills' : r.attempt \in 1..fillings'[r.order]
  BY <1>1, <1>3 DEF LogSound, IInv, TypeOK, FillRef
<1>5. LedgerLoads'
  <2>1. ASSUME NEW c \in DOMAIN intents, NEW r \in intents[c].refs
        PROVE  r.attempt \in 1..fillings'[r.order]
    <3>1. r \in FillRef
      BY IntentFacts DEF IInv
    <3>2. r.attempt \in 1..fillings[r.order]
      BY DEF LogSound, LedgerLoads
    <3> QED
      BY <1>3, <3>1, <3>2 DEF FillRef
  <2> QED
    BY <1>1, <2>1 DEF LogSound, LedgerLoads
<1> QED
  BY <1>1, <1>2, <1>3, <1>4, <1>5 DEF LogSound, MarkersOf

LEMMA LogAnnotateTrade ==
    ASSUME IInv, LogSound, AnnotateTrade
    PROVE  LogSound'
<1>1. /\ stage = "filled" /\ stage' = "none"
      /\ settlingFills' = settlingFills \union
            {[order |-> cur, attempt |-> fillings[cur]]}
      /\ UNCHANGED <<fillings, intents, persisted, pc, plan>>
  BY DEF AnnotateTrade
<1>2. cur \in Order /\ pc # "finalize" /\ fillings[cur] \in Nat
  BY <1>1 DEF IInv, TypeOK, StageSound, Trading
<1>3. fillings[cur] \in 1..fillings[cur]
  BY <1>1, <1>2 DEF LogSound
<1>4. \A r \in settlingFills' : r.attempt \in 1..fillings'[r.order]
  BY <1>1, <1>3 DEF LogSound
<1> QED
  BY <1>1, <1>2, <1>4 DEF LogSound, LedgerLoads, MarkersOf

LEMMA LogWriteCommitIntent ==
    ASSUME IInv, LogSound, WriteCommitIntent
    PROVE  LogSound'
<1> DEFINE new == [pre |-> preHash, post |-> Hash(mem), refs |-> settlingFills]
<1>1. /\ pc' = "save" /\ intents' = Append(intents, new)
      /\ UNCHANGED <<fillings, persisted, cur, stage, settlingFills, plan>>
  BY DEF WriteCommitIntent
<1>2. /\ DOMAIN intents' = DOMAIN intents \union {Len(intents) + 1}
      /\ intents'[Len(intents) + 1].refs = settlingFills
      /\ \A c \in DOMAIN intents : intents'[c] = intents[c]
  BY <1>1 DEF IInv, TypeOK
<1>3. LedgerLoads'
  BY <1>1, <1>2 DEF LogSound, LedgerLoads
<1> QED
  BY <1>1, <1>3 DEF LogSound, MarkersOf

(* The fills of this run are new to the portfolio, so nothing marks them.  *)
LEMMA LogSavePortfolio ==
    ASSUME IInv, LogSound, SavePortfolio
    PROVE  LogSound'
<1>1. /\ pc = "save" /\ pc' = "finalize"
      /\ UNCHANGED <<status, fillings, intents, persisted, cur, stage,
                      settlingFills, plan>>
  BY DEF SavePortfolio
<1>2. ASSUME NEW r \in settlingFills
      PROVE  MarkersOf(r.order) = {}
  <2>1. r.order \in Order /\ FilledNow(r.order)
    BY DEF IInv, TypeOK, FillRef, FilledNow, InFills
  <2>2. book.applied[r.order] = 0
    BY <1>1, <2>1 DEF IInv, MemorySound, Unsaved
  <2> QED
    BY <2>2 DEF IInv, PersistedIsApplied, MarkersOf
<1> QED
  BY <1>1, <1>2 DEF LogSound, LedgerLoads, MarkersOf

LEMMA LogMarkFillPersisted ==
    ASSUME IInv, LogSound, NEW r \in settlingFills, MarkFillPersisted(r)
    PROVE  LogSound'
<1> DEFINE new == [order |-> r.order, attempt |-> r.attempt,
                   commit |-> Len(intents)]
<1>1. /\ pc = "finalize" /\ pc' = "finalize" /\ stage = "none"
      /\ status[r.order] = "settling"
      /\ persisted' = persisted \union {new}
      /\ cur' = r.order /\ stage' = "persisted"
      /\ UNCHANGED <<status, fillings, intents, settlingFills, plan>>
  BY DEF MarkFillPersisted, Committed
<1>2. MarkersOf(r.order) = {} /\ r.order \in Order
  BY <1>1 DEF LogSound, IInv, TypeOK, FillRef
<1>3. new.order = r.order
  OBVIOUS
<1> HIDE DEF new
<1>4. /\ LedgerLoads'
      /\ \A q \in Order : q # r.order => MarkersOf(q)' = MarkersOf(q)
  BY <1>1, <1>2, <1>3, NewMarker DEF LogSound
<1>5. plan = NothingPlanned
  BY <1>1 DEF IInv, PlanSound
<1>6. \A s \in settlingFills : s.order \in Order
  BY DEF IInv, TypeOK, FillRef
<1> QED
  BY <1>1, <1>4, <1>5, <1>6 DEF LogSound, NothingPlanned

LEMMA LogMarkExecuted ==
    ASSUME IInv, LogSound, MarkExecuted
    PROVE  LogSound'
<1>1. /\ stage = "persisted" /\ stage' = "none"
      /\ status' = [status EXCEPT ![cur] = "executed"]
      /\ UNCHANGED <<fillings, intents, persisted, pc, settlingFills, plan>>
  BY DEF MarkExecuted
<1>2. /\ cur \in Order /\ status'[cur] = "executed"
      /\ \A q \in Order \ {cur} : status'[q] = status[q]
  BY <1>1 DEF IInv, TypeOK, StageSound
<1>3. \A r \in settlingFills : r.order \in Order
  BY DEF IInv, TypeOK, FillRef
<1> QED
  BY <1>1, <1>2, <1>3 DEF LogSound, LedgerLoads, MarkersOf

(* Every other step of a run leaves the log alone.                         *)
LEMMA LogQuiet ==
    ASSUME IInv, LogSound,
           \/ Begin \/ Tick \/ BeginTrading \/ NextLoop \/ UNCHANGED vars
           \/ \E o \in Order : ExpireOrder(o) \/ WriteDecision(o)
           \/ \E o \in Order : CreateOrder(o) \/ NoFill(o) \/ CancelBuy(o)
    PROVE  LogSound'
<1>1. CASE Begin \/ Tick \/ UNCHANGED vars
  BY <1>1, LogFrame DEF Begin, StartRun, Tick, vars, durable, process, environment
<1>2. CASE BeginTrading
  <2>1. /\ \A o \in Order : plan'[o] # "reconstruct"
        /\ pc' # "finalize"
    BY <1>2 DEF BeginTrading, NothingPlanned
  <2> QED
    BY <1>2, <2>1, LogFrame DEF BeginTrading, durable
<1>3. CASE NextLoop
  BY <1>3, LogFrame DEF NextLoop, AfterBuys, durable
<1>4. ASSUME NEW o \in Order, ExpireOrder(o)
      PROVE  LogSound'
  BY <1>4, LogFrame DEF ExpireOrder, process
<1>5. ASSUME NEW o \in Order, WriteDecision(o)
      PROVE  LogSound'
  <2>1. \A q \in Order : plan'[q] = "reconstruct" => plan[q] = "reconstruct"
    BY <1>5 DEF WriteDecision, IInv, TypeOK
  <2> QED
    BY <1>5, <2>1, LogFrame DEF WriteDecision
<1>6. ASSUME NEW o \in Order, CreateOrder(o) \/ NoFill(o) \/ CancelBuy(o)
      PROVE  LogSound'
  <2>1. pc # "finalize"
    BY <1>6, AttemptedOrder
    DEF CreateOrder, Tradable, NoFill, CancelBuy, Trading
  <2> QED
    BY <1>6, <2>1, LogFrame DEF CreateOrder, NoFill, CancelBuy
<1> QED
  BY <1>1, <1>2, <1>3, <1>4, <1>5, <1>6

LEMMA LogInit == Init => LogSound
  BY DEF Init, LogSound, LedgerLoads, NothingPlanned

LEMMA LogNext == IInv /\ LogSound /\ [Next]_vars => LogSound'
<1> SUFFICES ASSUME IInv, LogSound, [Next]_vars PROVE LogSound'
  OBVIOUS
<1>1. CASE Begin \/ Tick \/ UNCHANGED vars
  BY <1>1, LogQuiet
<1>2. CASE Crash
  BY <1>2, LogForget DEF Crash
<1>3. CASE RunStep
  BY <1>3, LogQuiet, LogBeginReconcile, LogReconstruct, LogForget,
     LogFillOrder, LogAnnotateTrade, LogWriteCommitIntent, LogSavePortfolio,
     LogMarkFillPersisted, LogMarkExecuted
  DEF RunStep, AbortRun, EndRun
<1> QED
  BY <1>1, <1>2, <1>3 DEF Next

(* fills.jsonl is never a file that load_fill_events refuses: every order  *)
(* has at most one persisted marker, and every fill a commit intent refers *)
(* to has its filling event.                                               *)
THEOREM LogAlwaysLoads == Spec => []LedgerAlwaysLoads
<1>1. LogSound => LedgerAlwaysLoads
  BY DEF LogSound, LedgerAlwaysLoads
<1>2. Spec => []LogSound
  BY Invariance, LogInit, LogNext, PTL DEF Spec
<1> QED
  BY <1>1, <1>2, PTL

-----------------------------------------------------------------------------
(* Steps outside trading: the portfolios and the session stay as they are. *)
LEMMA OnceFrame ==
    ASSUME IInv, OnceSound, UNCHANGED <<book, mem, clock>>,
           \A o \in Order : status[o] = "none" => status'[o] = "none",
           pc' \notin Unsaved, stage' # "attempt",
           pc' = "reconcile" => pc = "reconcile"
    PROVE  OnceSound'
<1>1. pc' \notin Trading /\ pc' \notin {"retry", "sell"}
  BY DEF Unsaved, Trading
<1> QED
  BY <1>1
  DEF OnceSound, NotYetDue, PartialIsHeld, NotBought, BuyOfToday,
      AppliedAtMostOnce

(* Steps of trading that fill and create nothing.                          *)
LEMMA OnceTradingFrame ==
    ASSUME IInv, OnceSound, UNCHANGED <<book, clock>>,
           /\ mem'.held = mem.held /\ mem'.applied = mem.applied
           /\ mem'.cooldowns = mem.cooldowns
           /\ mem'.partial \subseteq mem.partial,
           \A o \in Order : status[o] = "none" => status'[o] = "none",
           \A o \in Order :
               status'[o] = "pending_price" => status[o] = "pending_price",
           \A o \in Order : FilledNow(o)' <=> FilledNow(o),
           pc \in Unsaved, pc' \in Unsaved, stage' # "attempt",
           pc' \in Trading => pc \in Trading,
           pc' \in {"retry", "sell"} => pc \in {"retry", "sell"}
    PROVE  OnceSound'
<1>1. NotYetDue' /\ PartialIsHeld' /\ NotBought(book)' /\ AppliedAtMostOnce'
  BY DEF OnceSound, NotYetDue, PartialIsHeld, NotBought, BuyOfToday,
         AppliedAtMostOnce
<1>2. NotBought(mem)' /\ \A o \in Order : mem'.applied[o] <= 1
  BY DEF OnceSound, NotBought, BuyOfToday
<1>3. pc' \in Trading => SoldIntoCooldown'
  BY DEF OnceSound, SoldIntoCooldown
<1>4. pc' \in {"retry", "sell"} => SoldStaysSold'
  BY DEF OnceSound, SoldStaysSold, BuyOfToday
<1> QED
  BY <1>1, <1>2, <1>3, <1>4 DEF OnceSound, Unsaved, Trading

LEMMA OnceForget ==
    ASSUME OnceSound, Forget, UNCHANGED clock
    PROVE  OnceSound'
<1>1. UNCHANGED <<status, book, clock>> /\ mem' = InitBook
      /\ pc' = "idle" /\ stage' = "none"
  BY DEF Forget, durable
<1> QED
  BY <1>1
  DEF OnceSound, NotYetDue, PartialIsHeld, NotBought, BuyOfToday,
      AppliedAtMostOnce, InitBook, Unsaved, Trading

(* The steps of recovery and of the commit that write only the ledgers.    *)
LEMMA OnceLedgers ==
    ASSUME IInv, OnceSound,
           \/ Begin \/ MarkExecuted
           \/ \E o \in Order : ExpireOrder(o) \/ ReconstructMarker(o)
           \/ \E o \in Order : WriteDecision(o)
           \/ \E r \in settlingFills : MarkFillPersisted(r)
    PROVE  OnceSound'
<1>1. CASE Begin
  <2>1. pc = "idle" /\ pc' = "expire" /\ UNCHANGED <<status, book, mem, clock, stage>>
    BY <1>1 DEF Begin, StartRun, durable, environment
  <2>2. stage # "attempt"
    BY <2>1 DEF IInv, StageSound, Trading
  <2> QED
    BY <2>1, <2>2, OnceFrame DEF Unsaved, Trading
<1>2. CASE MarkExecuted
  <2>1. /\ cur \in Order /\ pc = "finalize" /\ status[cur] = "settling"
        /\ status' = [status EXCEPT ![cur] = "executed"]
        /\ stage' = "none" /\ UNCHANGED <<pc, book, mem, clock>>
    BY <1>2 DEF MarkExecuted, IInv, StageSound, environment
  <2>2. \A o \in Order : status[o] = "none" => status'[o] = "none"
    BY <2>1 DEF IInv, TypeOK
  <2> QED
    BY <2>1, <2>2, OnceFrame DEF Unsaved, Trading
<1>3. ASSUME NEW o \in Order, ExpireOrder(o)
      PROVE  OnceSound'
  <2>1. /\ pc = "expire" /\ status[o] = "pending_price"
        /\ status' = [status EXCEPT ![o] = "expired"]
        /\ UNCHANGED <<pc, stage, book, mem, clock>>
    BY <1>3 DEF ExpireOrder, Stale, process, environment
  <2>2. stage # "attempt"
    BY <2>1 DEF IInv, StageSound, Trading
  <2>3. \A q \in Order : status[q] = "none" => status'[q] = "none"
    BY <2>1 DEF IInv, TypeOK
  <2> QED
    BY <2>1, <2>2, <2>3, OnceFrame DEF Unsaved, Trading
<1>4. ASSUME NEW o \in Order, ReconstructMarker(o)
      PROVE  OnceSound'
  BY <1>4, OnceFrame DEF ReconstructMarker, environment, Unsaved, Trading
<1>5. ASSUME NEW o \in Order, WriteDecision(o)
      PROVE  OnceSound'
  <2>1. /\ pc = "reconcile" /\ plan[o] # "none" /\ stage' = "none"
        /\ status' = [status EXCEPT ![o] = Written(plan[o])]
        /\ UNCHANGED <<pc, book, mem, clock>>
    BY <1>5 DEF WriteDecision, environment
  <2>2. status[o] # "none"
    BY <1>5 DEF WriteDecision, IInv, PlanSound
  <2>3. \A q \in Order : status[q] = "none" => status'[q] = "none"
    BY <2>1, <2>2 DEF IInv, TypeOK
  <2> QED
    BY <2>1, <2>3, OnceFrame DEF Unsaved, Trading
<1>6. ASSUME NEW r \in settlingFills, MarkFillPersisted(r)
      PROVE  OnceSound'
  BY <1>6, OnceFrame
  DEF MarkFillPersisted, Committed, environment, Unsaved, Trading
<1> QED
  BY <1>1, <1>2, <1>3, <1>4, <1>5, <1>6

LEMMA OnceBeginReconcile ==
    ASSUME IInv, OnceSound, BeginReconcile
    PROVE  OnceSound'
<1>1. /\ pc = "expire" /\ pc' = "reconcile" /\ mem' = book
      /\ UNCHANGED <<status, book, stage, clock>>
  BY DEF BeginReconcile, durable, environment
<1>2. stage' # "attempt"
  BY <1>1 DEF IInv, StageSound, Trading
<1> QED
  BY <1>1, <1>2
  DEF OnceSound, NotYetDue, PartialIsHeld, NotBought, BuyOfToday,
      AppliedAtMostOnce, Unsaved, Trading

(* Trading begins with the portfolio file in memory and nothing filled.    *)
LEMMA OnceBeginTrading ==
    ASSUME IInv, OnceSound, BeginTrading
    PROVE  OnceSound'
<1>1. /\ pc = "reconcile" /\ pc' \in {"reconcile", "retry"}
      /\ mem' = Marked(mem, runMark)
      /\ UNCHANGED <<status, book, cur, stage, settlingFills, clock>>
  BY DEF BeginTrading, durable, environment
<1>2. /\ mem'.held = book.held /\ mem'.applied = book.applied
      /\ mem'.partial = mem.partial
  BY <1>1 DEF Marked, OnceSound, IInv, TypeOK, MemorySound, Portfolio
<1>3. mem.partial \subseteq book.held
  BY <1>1 DEF OnceSound, PartialIsHeld
<1>4. stage' \notin {"attempt", "filled"} /\ settlingFills' = {}
  BY <1>1 DEF IInv, StageSound, MemorySound, Trading
<1>5. \A o \in Order : ~FilledNow(o)'
  BY <1>4 DEF FilledNow, InFills
<1> QED
  BY <1>1, <1>2, <1>3, <1>4, <1>5
  DEF OnceSound, NotYetDue, PartialIsHeld, NotBought, BuyOfToday,
      AppliedAtMostOnce, SoldIntoCooldown, SoldStaysSold

-----------------------------------------------------------------------------
LEMMA AttemptIsTradable ==
    ASSUME OnceSound, NEW o \in Order, Attempting(o)
    PROVE  Tradable(o)
  BY DEF Attempting, OnceSound

(* A pending order that is not being filled is in neither portfolio.       *)
LEMMA PendingIsOutside ==
    ASSUME IInv, NEW o \in Order, pc \in Trading, status[o] = "pending_price",
           ~(stage = "filled" /\ cur = o)
    PROVE  ~FilledNow(o) /\ book.applied[o] = 0 /\ mem.applied[o] = 0
<1>1. ~InFills(o)
  BY DEF IInv, MemorySound, InFills, Unsaved
<1>2. book.applied[o] = 0
  BY BookCounts DEF IInv, AppliedIsAccounted
<1> QED
  BY <1>1, <1>2 DEF IInv, MemorySound, FilledNow, Unsaved

(* The order a loop is about to fill is pending: SETTLING orders, which no *)
(* test of their status stops, are stopped by the position and cooldown    *)
(* gates of the loops.                                                     *)
LEMMA FreshFill ==
    ASSUME IInv, OnceSound, NEW o \in Order, Attempting(o)
    PROVE  status[o] = "pending_price" /\ ~FilledNow(o) /\ mem.applied[o] = 0
<1>1. Tradable(o)
  BY AttemptIsTradable
<1>2. /\ pc \in Trading /\ stage \in {"none", "attempt"}
      /\ status[o] \in {"pending_price", "settling"}
      /\ status[o] = "settling" => FilledNow(o)
  BY AttemptedOrder
<1>3. ASSUME status[o] = "settling"
      PROVE  FALSE
  <2>1. CASE pc = "sell"
    BY <1>1, <1>2, <1>3, <2>1 DEF Tradable, OnceSound, SoldStaysSold
  <2>2. CASE pc = "buy"
    <3>1. /\ ActionOf[o] = "BUY" /\ TickerOf[o] \notin mem.held
          /\ CooledDown(TickerOf[o])
      BY <1>1, <2>2 DEF Tradable
    <3>2. mem.cooldowns[TickerOf[o]] = clock.session
      BY <1>2, <1>3, <3>1 DEF IInv, GatesSound
    <3> QED
      BY <3>1, <3>2 DEF CooledDown, IInv, TypeOK
  <2> QED
    BY <1>1, <1>2, <1>3, <2>1, <2>2 DEF Tradable, Trading
<1> QED
  BY <1>2, <1>3, PendingIsOutside

LEMMA OnceCreateOrder ==
    ASSUME IInv, OnceSound, NEW o \in Order, CreateOrder(o)
    PROVE  OnceSound'
<1>1. /\ Tradable(o) /\ status[o] = "none" /\ stage = "none"
      /\ cur' = o /\ stage' = "attempt"
      /\ UNCHANGED <<book, pc, mem, settlingFills, clock>>
  BY DEF CreateOrder, environment
<1>2. /\ status'[o] = "pending_price"
      /\ \A q \in Order \ {o} : status'[q] = status[q]
  BY DEF CreateOrder, IInv, TypeOK
<1>3. /\ pc \in Trading /\ pc # "retry" /\ SessionOf[o] = clock.session
      /\ ActionOf[o] = "BUY" => /\ pc = "buy" /\ TickerOf[o] \notin mem.held
                                /\ CooledDown(TickerOf[o])
  BY <1>1 DEF Tradable, Trading
<1>4. NotYetDue' /\ PartialIsHeld' /\ AppliedAtMostOnce'
  BY <1>1, <1>2, <1>3
  DEF OnceSound, NotYetDue, PartialIsHeld, AppliedAtMostOnce, IInv, TypeOK
<1>5. ActionOf[o] = "BUY" => TickerOf[o] \notin book.held
  <2> SUFFICES ASSUME ActionOf[o] = "BUY", TickerOf[o] \in book.held
               PROVE  FALSE
    OBVIOUS
  <2>1. mem.cooldowns[TickerOf[o]] = clock.session
    BY <1>3 DEF OnceSound, SoldIntoCooldown
  <2> QED
    BY <1>3, <2>1 DEF CooledDown, IInv, TypeOK
<1>6. NotBought(book)' /\ NotBought(mem)'
  <2>1. NotBought(book) /\ NotBought(mem)
    BY <1>3 DEF OnceSound, Unsaved
  <2> QED
    BY <1>1, <1>2, <1>3, <1>5, <2>1 DEF NotBought, BuyOfToday
<1>7. SoldIntoCooldown' /\ \A q \in Order : mem'.applied[q] <= 1
  BY <1>1, <1>3 DEF OnceSound, SoldIntoCooldown, Unsaved
<1>8. Tradable(o)'
  BY <1>1, <1>2
  DEF Tradable, CooledDown, Finished, Terminal
<1>9. pc' \in {"retry", "sell"} => SoldStaysSold'
  <2> SUFFICES ASSUME pc' \in {"retry", "sell"}
               PROVE  SoldStaysSold'
    OBVIOUS
  <2>1. ActionOf[o] # "BUY"
    BY <1>1, <1>3
  <2>2. SoldStaysSold
    BY <1>1 DEF OnceSound
  <2>3. \A q \in Order : FilledNow(q)' <=> FilledNow(q)
    BY <1>1 DEF FilledNow, InFills
  <2>4. \A b \in Order : BuyOfToday(b)' => BuyOfToday(b) /\ status'[b] = status[b]
    BY <1>1, <1>2, <2>1 DEF BuyOfToday
  <2> QED
    BY <1>1, <2>2, <2>3, <2>4 DEF SoldStaysSold
<1> QED
  BY <1>1, <1>3, <1>4, <1>6, <1>7, <1>8, <1>9 DEF OnceSound, Trading

(* What a fill does to the portfolio, action by action.                    *)
LEMMA FilledPortfolio ==
    ASSUME NEW p \in Portfolio, NEW o \in Order
    PROVE  LET q == Applied(p, o) IN
           /\ q.applied = [p.applied EXCEPT ![o] = @ + 1]
           /\ ActionOf[o] = "BUY" =>
                 /\ q.held = p.held \union {TickerOf[o]}
                 /\ q.partial = p.partial \union {TickerOf[o]}
           /\ ActionOf[o] = "SELL" =>
                 /\ q.held = p.held \ {TickerOf[o]}
                 /\ q.partial = p.partial \ {TickerOf[o]}
           /\ ActionOf[o] = "PYRAMID_FILL" =>
                 /\ q.held = p.held \union {TickerOf[o]}
                 /\ q.partial = p.partial \ {TickerOf[o]}
  BY DEF Applied, Portfolio

LEMMA OnceFillOrder ==
    ASSUME IInv, OnceSound, NEW o \in Order, FillOrder(o)
    PROVE  OnceSound'
<1> DEFINE t == TickerOf[o]
<1>1. /\ Attempting(o) /\ Tradable(o) /\ SessionOf[o] = clock.session
      /\ mem' = Applied(mem, o)
      /\ cur' = o /\ stage' = "filled"
      /\ UNCHANGED <<status, book, pc, settlingFills, clock>>
  BY AttemptIsTradable DEF FillOrder, Tradable, environment
<1>2. pc \in Trading /\ stage \in {"none", "attempt"}
  BY <1>1, AttemptedOrder
<1>3. status[o] = "pending_price" /\ ~FilledNow(o) /\ mem.applied[o] = 0
  BY <1>1, FreshFill
<1>4. mem \in Portfolio /\ clock.session \in Int /\ t \in Ticker
  BY DEF IInv, TypeOK
<1>5. /\ mem'.applied = [mem.applied EXCEPT ![o] = @ + 1]
      /\ ActionOf[o] = "BUY" =>
            /\ mem'.held = mem.held \union {t}
            /\ mem'.partial = mem.partial \union {t}
      /\ ActionOf[o] = "SELL" =>
            /\ mem'.held = mem.held \ {t}
            /\ mem'.partial = mem.partial \ {t}
      /\ ActionOf[o] = "PYRAMID_FILL" =>
            /\ mem'.held = mem.held \union {t}
            /\ mem'.partial = mem.partial \ {t}
  BY <1>1, <1>4, FilledPortfolio
<1>6. /\ mem'.applied[o] = 1
      /\ \A q \in Order \ {o} : mem'.applied[q] = mem.applied[q]
  <2>1. mem.applied \in [Order -> Nat]
    BY <1>4 DEF Portfolio
  <2> QED
    BY <1>3, <1>5, <2>1
<1>7. /\ mem'.held \subseteq mem.held \union {t}
      /\ ActionOf[o] = "SELL" =>
            t \in mem.held /\ mem'.held = mem.held \ {t}
      /\ ActionOf[o] = "PYRAMID_FILL" => mem'.held = mem.held
      /\ ActionOf[o] \in {"BUY", "SELL", "PYRAMID_FILL"}
      /\ mem'.partial \subseteq mem'.held
  <2>1. ActionOf[o] \in {"BUY", "SELL", "PYRAMID_FILL"}
    BY DEF Action
  <2>2. mem.partial \subseteq mem.held
    BY DEF OnceSound, PartialIsHeld
  <2>3. /\ ActionOf[o] = "SELL" => t \in mem.held
        /\ ActionOf[o] = "PYRAMID_FILL" => t \in mem.held
    BY <1>1, <2>2 DEF Tradable
  <2> QED
    BY <1>5, <2>1, <2>2, <2>3
<1>8. NotYetDue' /\ PartialIsHeld' /\ NotBought(book)' /\ AppliedAtMostOnce'
  BY <1>1, <1>7
  DEF OnceSound, NotYetDue, PartialIsHeld, NotBought, BuyOfToday,
      AppliedAtMostOnce
<1>9. NotBought(mem)'
  <2> SUFFICES ASSUME NEW b \in Order, BuyOfToday(b), status[b] # "none",
                      mem'.applied[b] = 0
               PROVE  TickerOf[b] \notin mem'.held
    BY <1>1 DEF NotBought, BuyOfToday
  <2>1. b # o /\ mem.applied[b] = 0
    BY <1>6
  <2>2. TickerOf[b] \notin mem.held
    BY <1>2, <2>1 DEF OnceSound, NotBought, Unsaved
  <2>3. ActionOf[o] = "BUY" => TickerOf[b] # t
    BY <1>1, <2>1, OneBuyAssumption DEF BuyOfToday
  <2> QED
    BY <1>7, <2>2, <2>3
<1>10. SoldIntoCooldown'
  <2>1. SoldIntoCooldown
    BY <1>2 DEF OnceSound
  <2>2. \A u \in Ticker :
          /\ u \in mem.held => \/ u \in mem'.held
                               \/ mem'.cooldowns[u] = clock.session
          /\ mem.cooldowns[u] = clock.session =>
                 mem'.cooldowns[u] = clock.session
    BY <1>1, <1>4, AppliedFacts
  <2> QED
    BY <1>1, <2>1, <2>2 DEF SoldIntoCooldown
<1>11. ASSUME pc \in {"retry", "sell"}
       PROVE  SoldStaysSold'
  <2>1. SoldStaysSold
    BY <1>11 DEF OnceSound
  <2>2. \A q \in Order : FilledNow(q)' <=> (FilledNow(q) \/ q = o)
    BY <1>1, <1>2 DEF FilledNow, InFills
  <2>3. ASSUME NEW b \in Order, BuyOfToday(b), status[b] = "pending_price"
        PROVE  TickerOf[b] \notin mem.held
    <3>1. mem.applied[b] = 0
      BY <1>2, <2>3, PendingIsOutside
    <3> QED
      BY <1>2, <2>3, <3>1 DEF OnceSound, NotBought, Unsaved
  <2>4. ASSUME NEW s \in Order, ActionOf[s] = "SELL", FilledNow(s)
        PROVE  TickerOf[s] \notin mem'.held
    <3>1. TickerOf[s] \notin mem.held
      BY <2>1, <2>4 DEF SoldStaysSold
    <3>2. ActionOf[o] = "BUY" => TickerOf[s] # t
      BY <1>1, <1>3, <2>1, <2>4 DEF SoldStaysSold, BuyOfToday
    <3> QED
      BY <1>7, <3>1, <3>2
  <2>5. ASSUME NEW s \in Order, ActionOf[s] = "SELL", FilledNow(s)'
        PROVE  /\ TickerOf[s] \notin mem'.held
               /\ \A b \in Order : BuyOfToday(b) /\ TickerOf[b] = TickerOf[s] =>
                      status[b] # "pending_price"
    <3>1. CASE FilledNow(s)
      BY <2>1, <2>4, <2>5, <3>1 DEF SoldStaysSold
    <3>2. CASE s = o
      BY <1>7, <2>3, <2>5, <3>2
    <3> QED
      BY <2>2, <2>5, <3>1, <3>2
  <2> QED
    BY <1>1, <2>5 DEF SoldStaysSold, BuyOfToday
<1>12. \A q \in Order : mem'.applied[q] <= 1
  BY <1>2, <1>6 DEF OnceSound, Unsaved
<1> QED
  BY <1>1, <1>2, <1>8, <1>9, <1>10, <1>11, <1>12 DEF OnceSound, Trading

(* The other steps of an unsaved run.                                      *)
LEMMA OnceTrading ==
    ASSUME IInv, OnceSound,
           \/ AnnotateTrade \/ NextLoop \/ WriteCommitIntent
           \/ \E o \in Order : NoFill(o) \/ CancelBuy(o)
    PROVE  OnceSound'
<1>1. CASE AnnotateTrade
  <2>1. /\ cur \in Order /\ pc \in Trading /\ stage = "filled"
        /\ status[cur] # "none" /\ stage' = "none"
        /\ status' = [status EXCEPT ![cur] = "settling"]
        /\ settlingFills' = settlingFills \union
              {[order |-> cur, attempt |-> fillings[cur]]}
        /\ UNCHANGED <<book, mem, pc, clock>>
    BY <1>1 DEF AnnotateTrade, IInv, StageSound, environment
  <2>2. \A q \in Order : /\ status[q] = "none" => status'[q] = "none"
                         /\ status'[q] = "pending_price" => status[q] = "pending_price"
    BY <2>1 DEF IInv, TypeOK
  <2>3. \A q \in Order : FilledNow(q)' <=> FilledNow(q)
    <3> DEFINE f == [order |-> cur, attempt |-> fillings[cur]]
    <3>1. f.order = cur /\ settlingFills' = settlingFills \union {f}
      BY <2>1
    <3> HIDE DEF f
    <3> QED
      BY <2>1, <3>1 DEF FilledNow, InFills
  <2> QED
    BY <2>1, <2>2, <2>3, OnceTradingFrame DEF Unsaved
<1>2. CASE NextLoop
  <2>1. \A q \in Order : FilledNow(q)' <=> FilledNow(q)
    BY <1>2 DEF NextLoop, FilledNow, InFills
  <2>2. /\ pc \in Trading /\ pc' \in Unsaved /\ stage' # "attempt"
        /\ pc' \in {"retry", "sell"} => pc \in {"retry", "sell"}
        /\ UNCHANGED <<status, book, mem, clock>>
    BY <1>2 DEF NextLoop, AfterBuys, durable, environment, Unsaved, Trading
  <2> QED
    BY <2>1, <2>2, OnceTradingFrame DEF Unsaved
<1>3. CASE WriteCommitIntent
  <2>1. \A q \in Order : FilledNow(q)' <=> FilledNow(q)
    BY <1>3 DEF WriteCommitIntent, FilledNow, InFills
  <2>2. /\ pc = "intent" /\ pc' = "save" /\ stage # "attempt"
        /\ UNCHANGED <<status, book, mem, stage, clock>>
    BY <1>3 DEF WriteCommitIntent, environment, IInv, StageSound, Trading
  <2> QED
    BY <2>1, <2>2, OnceTradingFrame DEF Unsaved, Trading
<1>4. ASSUME NEW o \in Order, NoFill(o) \/ CancelBuy(o)
      PROVE  OnceSound'
  <2>1. /\ mem'.applied = mem.applied /\ mem'.held = mem.held
        /\ mem'.cooldowns = mem.cooldowns /\ mem'.partial \subseteq mem.partial
    <3> DEFINE less == [mem EXCEPT !.partial = @ \ {TickerOf[o]}]
    <3>1. mem' = mem \/ mem' = less
      BY <1>4 DEF NoFill, CancelBuy
    <3>2. /\ less.applied = mem.applied /\ less.held = mem.held
          /\ less.cooldowns = mem.cooldowns /\ less.partial \subseteq mem.partial
      BY DEF IInv, TypeOK, Portfolio
    <3> QED
      BY <3>1, <3>2
  <2>2. /\ pc \in Trading /\ stage \in {"none", "attempt"}
        /\ status[o] = "pending_price" /\ ~FilledNow(o)
    BY <1>4, AttemptedOrder, RefusedOrder DEF NoFill, CancelBuy
  <2>3. /\ status' = [status EXCEPT ![o] = status'[o]]
        /\ status'[o] \in {"pending_price", "cancelled"}
        /\ stage' = "none"
        /\ UNCHANGED <<book, pc, settlingFills, clock>>
    BY <1>4 DEF NoFill, CancelBuy, IInv, TypeOK, environment
  <2>4. \A q \in Order : /\ status[q] = "none" => status'[q] = "none"
                         /\ status'[q] = "pending_price" => status[q] = "pending_price"
                         /\ FilledNow(q)' <=> FilledNow(q)
    BY <2>2, <2>3 DEF IInv, TypeOK, FilledNow, InFills
  <2> QED
    BY <2>1, <2>2, <2>3, <2>4, OnceTradingFrame DEF Unsaved
<1> QED
  BY <1>1, <1>2, <1>3, <1>4

LEMMA OnceSavePortfolio ==
    ASSUME IInv, OnceSound, SavePortfolio
    PROVE  OnceSound'
<1>1. /\ pc = "save" /\ pc' = "finalize" /\ book' = mem
      /\ UNCHANGED <<status, stage, mem, clock>>
  BY DEF SavePortfolio, environment
<1>2. stage' # "attempt"
  BY <1>1 DEF IInv, StageSound, Trading
<1> QED
  BY <1>1, <1>2
  DEF OnceSound, NotYetDue, PartialIsHeld, NotBought, BuyOfToday,
      AppliedAtMostOnce, Unsaved, Trading

(* A new session brings only orders the ledger does not know.              *)
LEMMA OnceTick ==
    ASSUME IInv, OnceSound, Tick
    PROVE  OnceSound'
<1>1. /\ pc = "idle" /\ UNCHANGED <<status, book, pc, stage, mem>>
  BY DEF Tick, durable, process
<1>2. stage # "attempt"
  BY <1>1 DEF IInv, StageSound, Trading
<1>3. clock'.session \in {clock.session, clock.session + 1}
  BY DEF Tick, IInv, TypeOK
<1>4. clock.session \in Int /\ \A o \in Order : SessionOf[o] \in Int
  BY DEF IInv, TypeOK
<1>5. NotYetDue'
  BY <1>1, <1>3, <1>4 DEF OnceSound, NotYetDue
<1>6. NotBought(book)'
  <2>1. \A o \in Order : SessionOf[o] = clock.session + 1 => status[o] = "none"
    BY <1>4 DEF OnceSound, NotYetDue
  <2> QED
    BY <1>1, <1>3, <2>1 DEF OnceSound, NotBought, BuyOfToday
<1> QED
  BY <1>1, <1>2, <1>5, <1>6
  DEF OnceSound, PartialIsHeld, AppliedAtMostOnce, Unsaved, Trading

LEMMA OnceInit == Init => OnceSound
<1> SUFFICES ASSUME Init PROVE OnceSound
  OBVIOUS
<1>1. book = InitBook /\ mem = InitBook /\ pc = "idle" /\ stage = "none"
      /\ \A o \in Order : status[o] = "none"
  BY DEF Init
<1>2. AppliedAtMostOnce
  BY <1>1 DEF InitBook, AppliedAtMostOnce
<1> QED
  BY <1>1, <1>2
  DEF OnceSound, NotYetDue, PartialIsHeld, NotBought, InitBook, Unsaved, Trading

LEMMA OnceNext == IInv /\ OnceSound /\ [Next]_vars => OnceSound'
<1> SUFFICES ASSUME IInv, OnceSound, [Next]_vars PROVE OnceSound'
  OBVIOUS
<1>1. CASE UNCHANGED vars
  BY <1>1
  DEF vars, durable, process, environment, OnceSound, NotYetDue, PartialIsHeld,
      NotBought, BuyOfToday, SoldIntoCooldown, SoldStaysSold, FilledNow, InFills,
      Tradable, CooledDown, Finished, AppliedAtMostOnce
<1>2. CASE Begin \/ Tick
  BY <1>2, OnceLedgers, OnceTick
<1>3. CASE Crash
  BY <1>3, OnceForget DEF Crash
<1>4. CASE RunStep
  BY <1>4, OnceLedgers, OnceBeginReconcile, OnceBeginTrading, OnceForget,
     OnceCreateOrder, OnceFillOrder, OnceTrading, OnceSavePortfolio
  DEF RunStep, AbortRun, EndRun, environment
<1> QED
  BY <1>1, <1>2, <1>3, <1>4 DEF Next

(* The write-ahead log, the ledgers, the portfolio file and the run agree  *)
(* in the sense of SettlementInv, which adds to IInv what keeps the log    *)
(* loadable and every fill single.                                         *)
THEOREM SettlementInvariance == Spec => []SettlementInv
<1>1. Spec => []LogSound
  BY Invariance, LogInit, LogNext, PTL DEF Spec
<1>2. Spec => []OnceSound
  BY Invariance, OnceInit, OnceNext, PTL DEF Spec
<1>3. IInv /\ LogSound /\ OnceSound => SettlementInv
  BY DEF SettlementInv
<1> QED
  BY <1>1, <1>2, <1>3, Invariance, PTL

(* No crash, retry or reconciliation puts the fill of one order into the   *)
(* portfolio twice.                                                        *)
THEOREM FilledOnce == Spec => []AppliedAtMostOnce
<1>1. SettlementInv => AppliedAtMostOnce
  BY DEF SettlementInv, OnceSound
<1> QED
  BY <1>1, SettlementInvariance, PTL

-----------------------------------------------------------------------------
(* FillWal implements OrderSettlement.                                     *)

GivenUp == {"expired", "cancelled", "failed_reconciliation"}

LEMMA OutcomeFacts ==
    ASSUME IInv, NEW o \in Order
    PROVE  OutcomeOf(o) = IF book.applied[o] > 0 THEN "filled"
                          ELSE IF status[o] \in GivenUp THEN "rejected"
                          ELSE "open"
<1>1. book.applied[o] \in Nat
  BY BookCounts
<1>2. book.applied[o] > 0 =>
        status[o] \in {"settling", "executed", "failed_reconciliation"}
  BY DEF IInv, AppliedIsAccounted
<1>3. status[o] \in Status
  BY DEF IInv, TypeOK
<1> QED
  BY <1>1, <1>2, <1>3 DEF OutcomeOf, GivenUp, Status, Terminal

LEMMA OutcomeNext ==
    ASSUME IInv', NEW o \in Order
    PROVE  OutcomeOf(o)' = IF book'.applied[o] > 0 THEN "filled"
                           ELSE IF status'[o] \in GivenUp THEN "rejected"
                           ELSE "open"
<1>1. book'.applied[o] \in Nat
  <2>1. book'.applied \in [Order -> Nat]
    BY DEF IInv, TypeOK, Portfolio
  <2> QED
    BY <2>1
<1>2. book'.applied[o] > 0 =>
        status'[o] \in {"settling", "executed", "failed_reconciliation"}
  BY DEF IInv, AppliedIsAccounted
<1>3. status'[o] \in Status
  BY DEF IInv, TypeOK
<1> QED
  BY <1>1, <1>2, <1>3 DEF OutcomeOf, GivenUp, Status, Terminal

LEMMA InitRefines == Init => Settlement!Init
<1> SUFFICES ASSUME Init PROVE Settlement!Init
  OBVIOUS
<1>1. book.applied = [o \in Order |-> 0] /\ \A o \in Order : status[o] = "none"
  BY DEF Init, InitBook
<1>2. \A o \in Order : OutcomeOf(o) = "open"
  BY <1>1, InitInv, OutcomeFacts DEF GivenUp
<1> QED
  BY <1>1, <1>2 DEF Settlement!Init

(* At most one order changes its status in a step.                         *)
LEMMA OneStatus ==
    ASSUME IInv, [Next]_vars
    PROVE  \/ UNCHANGED status
           \/ \E o \in Order : \A q \in Order \ {o} : status'[q] = status[q]
<1>1. status \in [Order -> Status]
  BY DEF IInv, TypeOK
<1>2. CASE AnnotateTrade \/ MarkExecuted
  <2>1. cur \in Order
    BY <1>2 DEF AnnotateTrade, MarkExecuted, IInv, StageSound
  <2> QED
    BY <1>1, <1>2, <2>1 DEF AnnotateTrade, MarkExecuted
<1> QED
  BY <1>1, <1>2, StatusSteps
  DEF ExpireOrder, CreateOrder, NoFill, CancelBuy, WriteDecision

(* An order given up without a fill is rejected; any other change of a     *)
(* status cannot be seen.                                                  *)
LEMMA StatusRefines ==
    ASSUME IInv, IInv', [Next]_vars, UNCHANGED book
    PROVE  \/ \E o \in Settlement!Open : Settlement!Reject(o)
           \/ UNCHANGED <<[o \in Order |-> OutcomeOf(o)], book.applied>>
<1>1. ASSUME \A q \in Order : OutcomeOf(q)' = OutcomeOf(q)
      PROVE  UNCHANGED <<[o \in Order |-> OutcomeOf(o)], book.applied>>
  BY <1>1
<1>2. ASSUME NEW o \in Order, OutcomeOf(o)' # OutcomeOf(o)
      PROVE  /\ OutcomeOf(o) = "open" /\ OutcomeOf(o)' = "rejected"
             /\ \A q \in Order \ {o} : OutcomeOf(q)' = OutcomeOf(q)
  <2>1. status'[o] # status[o]
    BY <1>2, OutcomeFacts, OutcomeNext
  <2>2. \A q \in Order \ {o} : status'[q] = status[q]
    BY <2>1, OneStatus
  <2>3. status[o] \notin GivenUp
    BY <2>1, TerminalStep DEF GivenUp, Terminal
  <2> QED
    BY <1>2, <2>2, <2>3, OutcomeFacts, OutcomeNext
<1>3. ASSUME NEW o \in Order, OutcomeOf(o)' # OutcomeOf(o)
      PROVE  o \in Settlement!Open /\ Settlement!Reject(o)
  <2>1. /\ OutcomeOf(o) = "open" /\ OutcomeOf(o)' = "rejected"
        /\ \A q \in Order \ {o} : OutcomeOf(q)' = OutcomeOf(q)
    BY <1>2, <1>3
  <2> QED
    BY <2>1 DEF Settlement!Open, Settlement!Reject
<1> QED
  BY <1>1, <1>3

(* A save fills the whole batch of the run, which was open, and once.      *)
LEMMA SaveRefines ==
    ASSUME SettlementInv, IInv', SavePortfolio
    PROVE  \/ \E S \in (SUBSET Settlement!Open) \ {{}} : Settlement!Fill(S)
           \/ UNCHANGED <<[o \in Order |-> OutcomeOf(o)], book.applied>>
<1> DEFINE S == {o \in Order : InFills(o)}
<1>1. IInv /\ OnceSound
  BY DEF SettlementInv
<1>2. pc = "save" /\ book' = mem /\ status' = status
  BY DEF SavePortfolio
<1>3. stage = "none"
  BY <1>1, <1>2 DEF IInv, TypeOK, Stage, StageSound, Trading
<1>4. book.applied \in [Order -> Nat] /\ mem.applied \in [Order -> Nat]
  BY <1>1 DEF IInv, TypeOK, Portfolio
<1>5. ASSUME NEW o \in Order
      PROVE  /\ InFills(o) => /\ mem.applied[o] = 1 /\ book.applied[o] = 0
                              /\ status[o] = "settling"
             /\ ~InFills(o) => mem.applied[o] = book.applied[o]
  <2>1. /\ InFills(o) => mem.applied[o] > 0 /\ book.applied[o] = 0
        /\ ~InFills(o) => mem.applied[o] = book.applied[o]
    BY <1>1, <1>2, <1>3 DEF IInv, MemorySound, FilledNow, InFills, Unsaved
  <2>2. mem.applied[o] <= 1 /\ mem.applied[o] \in Nat
    BY <1>1, <1>2, <1>4 DEF OnceSound, Unsaved
  <2>3. InFills(o) => status[o] = "settling"
    BY <1>1, <1>2 DEF IInv, MemorySound, InFills, Unsaved
  <2> QED
    BY <2>1, <2>2, <2>3
<1>6. ASSUME NEW o \in Order
      PROVE  /\ InFills(o) => OutcomeOf(o) = "open" /\ OutcomeOf(o)' = "filled"
             /\ ~InFills(o) => OutcomeOf(o)' = OutcomeOf(o)
  BY <1>1, <1>2, <1>5, OutcomeFacts, OutcomeNext DEF GivenUp
<1>7. book'.applied = [o \in Order |-> IF o \in S THEN 1 ELSE book.applied[o]]
  BY <1>2, <1>4, <1>5
<1>8. [o \in Order |-> OutcomeOf(o)]' =
        [o \in Order |-> IF o \in S THEN "filled"
                        ELSE [q \in Order |-> OutcomeOf(q)][o]]
  BY <1>6
<1>9. S \subseteq Settlement!Open
  BY <1>6 DEF Settlement!Open
<1>10. CASE S = {}
  <2>1. \A o \in Order : OutcomeOf(o)' = OutcomeOf(o)
    BY <1>6, <1>10
  <2>2. book'.applied = book.applied
    BY <1>4, <1>7, <1>10
  <2> QED
    BY <2>1, <2>2
<1>11. CASE S # {}
  <2>1. Settlement!Fill(S)
    BY <1>7, <1>8 DEF Settlement!Fill
  <2>2. S \in (SUBSET Settlement!Open) \ {{}}
    BY <1>9, <1>11
  <2> QED
    BY <2>1, <2>2
<1> QED
  BY <1>10, <1>11

(* Through every crash and recovery the execution of a strategy behaves as *)
(* the atomic settlement of its orders: fills land in whole batches and    *)
(* once, and a rejected order never lands.                                 *)
THEOREM Refinement == Spec => ImplementsSettlement
<1>1. SettlementInv /\ SettlementInv' /\ [Next]_vars =>
        [Settlement!Next]_<<[o \in Order |-> OutcomeOf(o)], book.applied>>
  <2> SUFFICES ASSUME SettlementInv, SettlementInv', [Next]_vars
               PROVE  \/ Settlement!Next
                      \/ UNCHANGED <<[o \in Order |-> OutcomeOf(o)], book.applied>>
    OBVIOUS
  <2>1. IInv /\ IInv'
    BY DEF SettlementInv
  <2>2. CASE SavePortfolio
    BY <2>1, <2>2, SaveRefines DEF Settlement!Next
  <2>3. CASE UNCHANGED book
    BY <2>1, <2>3, StatusRefines DEF Settlement!Next
  <2> QED
    BY <2>2, <2>3, BookSteps
<1> QED
  BY <1>1, InitRefines, SettlementInvariance, PTL
  DEF Spec, ImplementsSettlement, Settlement!Spec
=============================================================================

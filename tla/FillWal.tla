------------------------------ MODULE FillWal ------------------------------
(***************************************************************************)
(* The execution of one strategy by stock_bot.py: orders.jsonl (the order  *)
(* ledger), fills.jsonl (the write-ahead log of fills) and the strategy's  *)
(* portfolio file, through the steps of run_strategy_execution and the     *)
(* recovery of reconcile_settling_orders.                                  *)
(*                                                                         *)
(* Every durable write (an fsync'ed append or the atomic replacement of    *)
(* the portfolio file) is an action of its own, and the process may stop   *)
(* between any two of them.  Prices, values and identifiers are abstract:  *)
(* a portfolio is the tickers it holds plus the fills it contains (which   *)
(* determine cash and share counts) and the price mark its positions were  *)
(* last valued at.                                                         *)
(***************************************************************************)
EXTENDS Integers, Sequences, FiniteSets

CONSTANTS
    Order,          \* the orders the signals may give rise to (deterministic ids)
    NoOrder,        \* "no order in progress"
    Ticker,
    TickerOf,       \* [Order -> Ticker]
    ActionOf,       \* [Order -> {"BUY", "SELL", "PYRAMID_FILL"}]
    SessionOf,      \* [Order -> 1..MaxSession], intended_execution_session
    InitHeld,       \* tickers held before the first modelled session
    InitPartial,    \* those whose position is a partial (60%) one
    Mark,           \* price snapshots a run may value the positions at
    NoMark,
    CooldownDays,   \* buyback_cooldown_days
    MaxSession,     \* bound: number of sessions
    MaxCrash        \* bound: number of crashes

Action == {"BUY", "SELL", "PYRAMID_FILL"}

ASSUME ConstantAssumption ==
    /\ NoOrder \notin Order
    /\ NoMark \notin Mark
    /\ Mark # {}
    /\ TickerOf \in [Order -> Ticker]
    /\ ActionOf \in [Order -> Action]
    /\ MaxSession \in Nat \ {0}
    /\ SessionOf \in [Order -> 1..MaxSession]
    /\ InitHeld \subseteq Ticker
    /\ InitPartial \subseteq InitHeld
    /\ CooldownDays \in Nat \ {0}
    /\ MaxCrash \in Nat

VARIABLES
    \* durable
    status,         \* orders.jsonl: status of the last snapshot of each order
    fillings,       \* fills.jsonl: number of "filling" events of each order
    intents,        \* fills.jsonl: the commit_intents; a commit_id is an index
    persisted,      \* fills.jsonl: the "persisted" markers
    book,           \* the portfolio file
    \* the running process
    pc,             \* phase of the run
    cur,            \* the order being worked on, and how far it got
    stage,
    mem,            \* state: the portfolio in memory
    preHash,        \* _pre_fill_hash
    settlingFills,  \* settling_fills
    plan,           \* what reconciliation decided and has not yet written
    failed,         \* _failed_recs is non-empty
    priced,         \* tickers in execution_price_cache
    runMark,        \* the prices of valuation_price_cache
    \* the environment
    clock,          \* [session, closed]
    crashes

durable == <<status, fillings, intents, persisted, book>>
process == <<pc, cur, stage, mem, preHash, settlingFills, plan, failed,
             priced, runMark>>
environment == <<clock, crashes>>
vars == <<durable, process, environment>>

(* Order statuses.                                                         *)
Terminal == {"executed", "expired", "failed_reconciliation", "cancelled"}
Status == {"none", "pending_price", "settling"} \union Terminal

Phase == {"idle", "expire", "reconcile", "retry", "sell", "pyramid", "buy",
          "intent", "save", "finalize"}
Stage == {"none", "attempt", "filled", "persisted", "reconciled"}
Decision == {"none", "reconstruct", "execute", "retry", "fail"}

Portfolio == [held : SUBSET Ticker, partial : SUBSET Ticker,
              cooldowns : [Ticker -> Int], applied : [Order -> Nat],
              mark : Mark]
Fingerprint == [held : SUBSET Ticker, partial : SUBSET Ticker,
                applied : [Order -> Nat], mark : Mark \union {NoMark}]
FillRef == [order : Order, attempt : Nat]

(* compute_portfolio_state_hash covers cash and every position with its    *)
(* last and highest price; cooldowns are not part of it, and the mark only *)
(* shows through held positions.                                           *)
Hash(p) == [held |-> p.held, partial |-> p.partial, applied |-> p.applied,
            mark |-> IF p.held = {} THEN NoMark ELSE p.mark]

(* current_portfolio_value re-marks every position in memory.              *)
Marked(p, m) == [p EXCEPT !.mark = m]

(* execute_buy, execute_sell and execute_pyramid_fill on the portfolio.    *)
Applied(p, o) ==
    LET t == TickerOf[o] IN
    [held |-> IF ActionOf[o] = "SELL" THEN p.held \ {t}
              ELSE p.held \union {t},
     partial |-> IF ActionOf[o] = "BUY" THEN p.partial \union {t}
                 ELSE p.partial \ {t},
     cooldowns |-> IF ActionOf[o] = "SELL"
                     THEN [p.cooldowns EXCEPT ![t] = clock.session]
                   ELSE p.cooldowns,
     applied |-> [p.applied EXCEPT ![o] = @ + 1],
     mark |-> p.mark]

-----------------------------------------------------------------------------
(* Reconciliation, phase 1: what the ledgers say about a SETTLING order.   *)

OrdersOf(c) == {r.order : r \in intents[c].refs}
IntentsOf(o) == {c \in DOMAIN intents : o \in OrdersOf(c)}

(* order_to_intent: the last commit intent that lists an order wins.       *)
IsLastIntent(c, o) ==
    /\ c \in IntentsOf(o)
    /\ \A d \in IntentsOf(o) : d <= c

(* batch_by_cid: the intents some SETTLING order is grouped under.         *)
ActiveIntents ==
    {c \in DOMAIN intents :
        \E o \in Order : status[o] = "settling" /\ IsLastIntent(c, o)}

MarkersOf(o) == {m \in persisted : m.order = o}

(* What load_fill_events demands of the whole file before anything runs:   *)
(* one identity per persisted marker of an order, and a filling event      *)
(* behind every fill_ref.                                                  *)
LedgerLoads ==
    /\ \A m, n \in persisted : m.order = n.order => m = n
    /\ \A c \in DOMAIN intents : \A r \in intents[c].refs :
          r.attempt \in 1..fillings[r.order]

(* resolve_fill(strict, expected_commit_id = c)                            *)
ChainResolves(o, c) ==
    \E m \in MarkersOf(o) :
        /\ m.commit = c
        /\ [order |-> o, attempt |-> m.attempt] \in intents[c].refs

(* Two active intents that share an order are both refused; the transitive *)
(* closure of the code adds nothing, since every member of a component     *)
(* with two intents has a neighbour.                                       *)
Overlapping(c) ==
    \E d \in ActiveIntents : d # c /\ OrdersOf(c) \intersect OrdersOf(d) # {}

RefValid(c, r) ==
    LET o == r.order IN
    /\ {q \in intents[c].refs : q.order = o} = {r}
    /\ \/ /\ status[o] = "settling"
          /\ IsLastIntent(c, o)
          /\ MarkersOf(o) # {} => ChainResolves(o, c)
       \/ /\ status[o] = "executed"
          /\ ChainResolves(o, c)

BatchValid(c) ==
    /\ ~Overlapping(c)
    /\ \A r \in intents[c].refs : RefValid(c, r)

(* The hash is compared with post first; pre is a safe retry only when no  *)
(* order of the batch claims that the portfolio was saved.                 *)
\* Mutant of SavedAs: the portfolio file is not compared with the intent.
SavedUnchecked(c) == BatchValid(c)
SavedAs(c) == BatchValid(c) /\ Hash(book) = intents[c].post
NotSaved(c) ==
    /\ BatchValid(c)
    /\ Hash(book) # intents[c].post
    /\ Hash(book) = intents[c].pre
    /\ \A r \in intents[c].refs : MarkersOf(r.order) = {}

\* Mutant of Reconciled: an order without a marker counts as not saved.
ReconciledByMarker(o) ==
    CASE status[o] # "settling" -> "none"
      [] status[o] = "settling" /\ MarkersOf(o) = {} -> "retry"
      [] OTHER -> "execute"

Reconciled(o) ==
    CASE status[o] # "settling" -> "none"
      [] status[o] = "settling" /\ IntentsOf(o) = {} ->
            IF MarkersOf(o) = {} THEN "retry" ELSE "fail"
      [] OTHER ->
            IF \E c \in IntentsOf(o) : IsLastIntent(c, o) /\ SavedAs(c)
              THEN IF MarkersOf(o) = {} THEN "reconstruct" ELSE "execute"
            ELSE IF \E c \in IntentsOf(o) : IsLastIntent(c, o) /\ NotSaved(c)
              THEN "retry"
            ELSE "fail"

-----------------------------------------------------------------------------
NothingPlanned == [o \in Order |-> "none"]

InitBook == [held |-> InitHeld, partial |-> InitPartial,
             cooldowns |-> [t \in Ticker |-> -CooldownDays],
             applied |-> [o \in Order |-> 0],
             mark |-> CHOOSE m \in Mark : TRUE]

Init ==
    /\ status = [o \in Order |-> "none"]
    /\ fillings = [o \in Order |-> 0]
    /\ intents = <<>>
    /\ persisted = {}
    /\ book = InitBook
    /\ pc = "idle" /\ cur = NoOrder /\ stage = "none"
    /\ mem = InitBook /\ preHash = Hash(InitBook)
    /\ settlingFills = {}
    /\ plan = NothingPlanned /\ failed = FALSE
    /\ priced = {} /\ runMark = InitBook.mark
    /\ clock = [session |-> 1, closed |-> FALSE]
    /\ crashes = 0

(* The process stops: everything that is not on disk is forgotten.         *)
Forget ==
    /\ pc' = "idle" /\ cur' = NoOrder /\ stage' = "none"
    /\ mem' = InitBook /\ preHash' = Hash(InitBook)
    /\ settlingFills' = {}
    /\ plan' = NothingPlanned /\ failed' = FALSE
    /\ priced' = {} /\ runMark' = InitBook.mark
    /\ UNCHANGED durable

StartRun(m, avail) ==
    /\ pc = "idle"
    /\ pc' = "expire"
    /\ priced' = avail
    /\ runMark' = m
    /\ UNCHANGED <<durable, cur, stage, mem, preHash, settlingFills, plan,
                   failed, environment>>

-----------------------------------------------------------------------------
(* expire_stale_orders: one snapshot per stale PENDING_PRICE order.        *)
\* Mutants of Stale: SETTLING orders expire too; past sessions are forgotten.
StaleSettling(o) ==
    /\ status[o] \in {"pending_price", "settling"}
    /\ SessionOf[o] < clock.session \/ clock.closed
StaleToday(o) ==
    /\ status[o] = "pending_price"
    /\ SessionOf[o] = clock.session /\ clock.closed

Stale(o) ==
    /\ status[o] = "pending_price"
    /\ \/ SessionOf[o] < clock.session
       \/ SessionOf[o] = clock.session /\ clock.closed

ExpireOrder(o) ==
    /\ pc = "expire"
    /\ Stale(o)
    /\ status' = [status EXCEPT ![o] = "expired"]
    /\ UNCHANGED <<fillings, intents, persisted, book, process, environment>>

(* Load the portfolio and decide every SETTLING order before any write.    *)
BeginReconcile ==
    /\ pc = "expire"
    /\ \A o \in Order : ~Stale(o)
    /\ LedgerLoads
    /\ pc' = "reconcile"
    /\ mem' = book
    /\ plan' = [o \in Order |-> Reconciled(o)]
    /\ UNCHANGED <<durable, cur, stage, preHash, settlingFills, failed,
                   priced, runMark, environment>>

(* Phase 2: the writes, order by order.                                    *)
ReconstructMarker(o) ==
    /\ pc = "reconcile" /\ stage = "none"
    /\ plan[o] = "reconstruct"
    /\ \E c \in IntentsOf(o) : \E r \in intents[c].refs :
          /\ IsLastIntent(c, o)
          /\ r.order = o
          /\ persisted' = persisted \union
               {[order |-> o, attempt |-> r.attempt, commit |-> c]}
    /\ plan' = [plan EXCEPT ![o] = "execute"]
    /\ cur' = o /\ stage' = "reconciled"
    /\ UNCHANGED <<status, fillings, intents, book, pc, mem, preHash,
                   settlingFills, failed, priced, runMark, environment>>

Written(d) ==
    CASE d = "execute" -> "executed"
      [] d = "retry" -> "pending_price"
      [] OTHER -> "failed_reconciliation"

WriteDecision(o) ==
    /\ pc = "reconcile"
    /\ stage = "reconciled" => cur = o
    /\ plan[o] \in {"execute", "retry", "fail"}
    /\ status' = [status EXCEPT ![o] = Written(plan[o])]
    /\ failed' = (failed \/ plan[o] = "fail")
    /\ plan' = [plan EXCEPT ![o] = "none"]
    /\ cur' = NoOrder /\ stage' = "none"
    /\ UNCHANGED <<fillings, intents, persisted, book, pc, mem, preHash,
                   settlingFills, priced, runMark, environment>>

(* Any failed reconciliation raises: the run trades nothing.               *)
AbortRun ==
    /\ pc = "reconcile"
    /\ plan = NothingPlanned
    /\ failed
    /\ Forget
    /\ UNCHANGED environment

(* check_pending_price_guard: pending orders of this session whose fill    *)
(* carries a persisted marker.                                             *)
GuardBlocked ==
    {o \in Order : /\ status[o] = "pending_price"
                   /\ SessionOf[o] = clock.session
                   /\ MarkersOf(o) # {}}

(* The portfolio is re-marked before _pre_fill_hash is taken.  A blocked   *)
(* order is written FAILED_RECONCILIATION and ends the run.                *)
BeginTrading ==
    /\ pc = "reconcile"
    /\ plan = NothingPlanned
    /\ ~failed
    /\ mem' = Marked(mem, runMark)
    /\ preHash' = Hash(mem')
    /\ IF GuardBlocked = {}
         THEN pc' = "retry" /\ UNCHANGED plan
         ELSE /\ plan' = [plan EXCEPT
                            ![CHOOSE o \in GuardBlocked : TRUE] = "fail"]
              /\ UNCHANGED pc
    /\ UNCHANGED <<durable, cur, stage, settlingFills, failed, priced,
                   runMark, environment>>

-----------------------------------------------------------------------------
(* Trading: the retry loop over pending orders, then sells, pyramid fills  *)
(* and new buys.  Which orders a loop reaches depends on signals, prices   *)
(* and risk gates that are left open here; what it may do to an order it   *)
(* reaches is not.  SETTLING is not a terminal status: apart from the      *)
(* pyramid loop only the position and cooldown gates keep an order of this *)
(* very run from being filled again.                                       *)
\* Mutant of CooledDown: a sale opens no cooldown.
CooledDownAlways(t) == t \in Ticker
CooledDown(t) == clock.session - mem.cooldowns[t] >= CooldownDays

\* Mutant of Finished: only EXECUTED ends an order.
FinishedByFill(o) == status[o] = "executed"
Finished(o) == status[o] \in Terminal

Tradable(o) ==
    LET t == TickerOf[o] IN
    /\ SessionOf[o] = clock.session
    /\ \/ /\ pc = "retry" /\ status[o] = "pending_price"
          /\ \/ ActionOf[o] = "SELL" /\ t \in mem.held
             \/ ActionOf[o] = "BUY" /\ t \notin mem.held
       \/ /\ pc = "sell" /\ ActionOf[o] = "SELL"
          /\ t \in mem.held
          /\ ~Finished(o)
       \/ /\ pc = "pyramid" /\ ActionOf[o] = "PYRAMID_FILL"
          /\ t \in mem.partial
          /\ ~Finished(o) /\ status[o] # "settling"
       \/ /\ pc = "buy" /\ ActionOf[o] = "BUY"
          /\ t \notin mem.held
          /\ CooledDown(t)
          /\ ~Finished(o)

(* The order is persisted as PENDING_PRICE before its first fill attempt.  *)
CreateOrder(o) ==
    /\ stage = "none"
    /\ Tradable(o)
    /\ status[o] = "none"
    /\ status' = [status EXCEPT ![o] = "pending_price"]
    /\ cur' = o /\ stage' = "attempt"
    /\ UNCHANGED <<fillings, intents, persisted, book, pc, mem, preHash,
                   settlingFills, plan, failed, priced, runMark, environment>>

Attempting(o) ==
    \/ stage = "attempt" /\ cur = o
    \/ stage = "none" /\ Tradable(o) /\ status[o] # "none"

(* The portfolio changes in memory and the filling event is appended.      *)
FillOrder(o) ==
    /\ Attempting(o)
    /\ TickerOf[o] \in priced
    /\ mem' = Applied(mem, o)
    /\ fillings' = [fillings EXCEPT ![o] = @ + 1]
    /\ cur' = o /\ stage' = "filled"
    /\ UNCHANGED <<status, intents, persisted, book, pc, preHash,
                   settlingFills, plan, failed, priced, runMark, environment>>

(* _annotate_trade: the order becomes SETTLING.                            *)
\* Mutant of AnnotateTrade: attempts are counted from the next one.
AnnotateNextAttempt ==
    /\ stage = "filled"
    /\ status' = [status EXCEPT ![cur] = "settling"]
    /\ settlingFills' = settlingFills \union
         {[order |-> cur, attempt |-> fillings[cur] + 1]}
    /\ cur' = NoOrder /\ stage' = "none"
    /\ UNCHANGED <<fillings, intents, persisted, book, pc, mem, preHash,
                   plan, failed, priced, runMark, environment>>

AnnotateTrade ==
    /\ stage = "filled"
    /\ status' = [status EXCEPT ![cur] = "settling"]
    /\ settlingFills' = settlingFills \union
         {[order |-> cur, attempt |-> fillings[cur]]}
    /\ cur' = NoOrder /\ stage' = "none"
    /\ UNCHANGED <<fillings, intents, persisted, book, pc, mem, preHash,
                   plan, failed, priced, runMark, environment>>

(* No execution price for the session (a pyramid fill may also be refused  *)
(* by its own conditions, or drop the partial flag of a position whose     *)
(* remainder is too small): PENDING_PRICE.                                 *)
NoFill(o) ==
    /\ Attempting(o)
    /\ TickerOf[o] \notin priced \/ ActionOf[o] = "PYRAMID_FILL"
    /\ status' = [status EXCEPT ![o] = "pending_price"]
    /\ mem' \in {mem} \union
         (IF ActionOf[o] = "PYRAMID_FILL"
            THEN {[mem EXCEPT !.partial = @ \ {TickerOf[o]}]} ELSE {})
    /\ cur' = NoOrder /\ stage' = "none"
    /\ UNCHANGED <<fillings, intents, persisted, book, pc, preHash,
                   settlingFills, plan, failed, priced, runMark, environment>>

(* _buy_skip_outcome: an opening gap or a too small order is a rejection.  *)
CancelBuy(o) ==
    /\ Attempting(o)
    /\ ActionOf[o] = "BUY" /\ TickerOf[o] \in priced
    /\ status' = [status EXCEPT ![o] = "cancelled"]
    /\ cur' = NoOrder /\ stage' = "none"
    /\ UNCHANGED <<fillings, intents, persisted, book, pc, mem, preHash,
                   settlingFills, plan, failed, priced, runMark, environment>>

\* Mutant of AfterBuys: the portfolio is saved without an intent.
AfterBuysUnannounced == "save"
AfterBuys == IF settlingFills = {} THEN "save" ELSE "intent"

NextLoop ==
    /\ stage = "none"
    /\ \/ pc = "retry" /\ pc' = "sell"
       \/ pc = "sell" /\ pc' = "pyramid"
       \/ pc = "pyramid" /\ pc' = "buy"
       \/ pc = "buy" /\ pc' = AfterBuys
    /\ UNCHANGED <<durable, cur, stage, mem, preHash, settlingFills, plan,
                   failed, priced, runMark, environment>>

-----------------------------------------------------------------------------
(* The commit: intent, portfolio, then marker and EXECUTED per fill.       *)
WriteCommitIntent ==
    /\ pc = "intent"
    /\ intents' = Append(intents, [pre |-> preHash, post |-> Hash(mem),
                                   refs |-> settlingFills])
    /\ pc' = "save"
    /\ UNCHANGED <<status, fillings, persisted, book, cur, stage, mem, preHash,
                   settlingFills, plan, failed, priced, runMark, environment>>

SavePortfolio ==
    /\ pc = "save"
    /\ book' = mem
    /\ pc' = "finalize"
    /\ UNCHANGED <<status, fillings, intents, persisted, cur, stage, mem,
                   preHash, settlingFills, plan, failed, priced, runMark,
                   environment>>

\* Mutant of Committed: the markers are written before the portfolio.
CommittedEarly == pc \in {"save", "finalize"}
Committed == pc = "finalize"

MarkFillPersisted(r) ==
    /\ Committed /\ stage = "none"
    /\ r \in settlingFills
    /\ status[r.order] = "settling"
    /\ persisted' = persisted \union
         {[order |-> r.order, attempt |-> r.attempt, commit |-> Len(intents)]}
    /\ cur' = r.order /\ stage' = "persisted"
    /\ UNCHANGED <<status, fillings, intents, book, pc, mem, preHash,
                   settlingFills, plan, failed, priced, runMark, environment>>

MarkExecuted ==
    /\ stage = "persisted"
    /\ status' = [status EXCEPT ![cur] = "executed"]
    /\ cur' = NoOrder /\ stage' = "none"
    /\ UNCHANGED <<fillings, intents, persisted, book, pc, mem, preHash,
                   settlingFills, plan, failed, priced, runMark, environment>>

EndRun ==
    /\ pc = "finalize" /\ stage = "none"
    /\ \A r \in settlingFills : status[r.order] # "settling"
    /\ Forget
    /\ UNCHANGED environment

-----------------------------------------------------------------------------
Crash ==
    /\ pc # "idle"
    /\ crashes < MaxCrash
    /\ crashes' = crashes + 1
    /\ Forget
    /\ UNCHANGED clock

(* Sessions close and follow one another between runs.                     *)
Tick ==
    /\ pc = "idle"
    /\ \/ ~clock.closed /\ clock' = [clock EXCEPT !.closed = TRUE]
       \/ /\ clock.closed /\ clock.session < MaxSession
          /\ clock' = [session |-> clock.session + 1, closed |-> FALSE]
    /\ UNCHANGED <<durable, process, crashes>>

Begin == \E m \in Mark, avail \in SUBSET Ticker : StartRun(m, avail)

RunStep ==
    \/ \E o \in Order : ExpireOrder(o)
    \/ BeginReconcile
    \/ \E o \in Order : ReconstructMarker(o)
    \/ \E o \in Order : WriteDecision(o)
    \/ AbortRun
    \/ BeginTrading
    \/ \E o \in Order : CreateOrder(o)
    \/ \E o \in Order : FillOrder(o)
    \/ AnnotateTrade
    \/ \E o \in Order : NoFill(o)
    \/ \E o \in Order : CancelBuy(o)
    \/ NextLoop
    \/ WriteCommitIntent
    \/ SavePortfolio
    \/ \E r \in settlingFills : MarkFillPersisted(r)
    \/ MarkExecuted
    \/ EndRun

Next == Begin \/ RunStep \/ Crash \/ Tick

Spec == Init /\ [][Next]_vars

(* The workflow's cron starts a run every weekday and a run that is not    *)
(* killed goes on.  Sessions pass whether or not runs are started between  *)
(* them, and Tick waits for a moment when none is under way: strong.       *)
Fairness == WF_vars(Begin) /\ WF_vars(RunStep) /\ SF_vars(Tick)

FairSpec == Spec /\ Fairness

-----------------------------------------------------------------------------
(* Values of every variable.                                               *)
TypeOK ==
    /\ status \in [Order -> Status]
    /\ fillings \in [Order -> Nat]
    /\ intents \in Seq([pre : Fingerprint, post : Fingerprint,
                        refs : SUBSET FillRef])
    /\ persisted \subseteq [order : Order, attempt : Nat, commit : Nat]
    /\ book \in Portfolio /\ mem \in Portfolio
    /\ preHash \in Fingerprint
    /\ pc \in Phase /\ stage \in Stage /\ cur \in Order \union {NoOrder}
    /\ settlingFills \subseteq FillRef
    /\ plan \in [Order -> Decision] /\ failed \in BOOLEAN
    /\ priced \subseteq Ticker /\ runMark \in Mark
    /\ clock \in [session : 1..MaxSession, closed : BOOLEAN]
    /\ crashes \in 0..MaxCrash

(* No crash, retry or reconciliation ever puts the fill of one order into  *)
(* the portfolio twice.                                                    *)
AppliedAtMostOnce == \A o \in Order : book.applied[o] <= 1

(* A fill that is in the saved portfolio belongs to an order that nothing  *)
(* will try again, expire or cancel: it is still SETTLING, or finished as  *)
(* EXECUTED or as a case for manual review.                                *)
AppliedIsAccounted ==
    \A o \in Order : book.applied[o] > 0 =>
        status[o] \in {"settling", "executed", "failed_reconciliation"}

(* EXECUTED is never ahead of the portfolio file ("EXECUTED only after     *)
(* portfolio is on disk", _annotate_trade), also when recovery writes it.  *)
ExecutedIsApplied ==
    \A o \in Order : status[o] = "executed" => book.applied[o] > 0

(* The marker in fills.jsonl that authorises EXECUTED, and the projection  *)
(* of the fill into trades.csv, exists only for fills the portfolio file   *)
(* contains.                                                               *)
PersistedIsApplied == \A m \in persisted : book.applied[m.order] > 0

(* The fill ledger is never one that load_fill_events refuses to load,     *)
(* which would stop every later run.                                       *)
LedgerAlwaysLoads == LedgerLoads

(* A terminal order status is final.                                       *)
TerminalIsFinal ==
    [][\A o \in Order : status[o] \in Terminal => status'[o] = status[o]]_vars

(* The portfolio file only ever changes its fills to what the last commit  *)
(* intent announced, and by exactly the orders that intent lists.          *)
SaveIsAnnounced ==
    [][book'.applied # book.applied =>
         LET c == Len(intents) IN
         /\ c > 0
         /\ Hash(book') = intents[c].post
         /\ {o \in Order : book'.applied[o] # book.applied[o]} = OrdersOf(c)]_vars

(* Whatever happens, an order the ledger knows ends in a terminal status   *)
(* once crashes cease; in particular no order is SETTLING forever.         *)
OrdersEnd ==
    \A o \in Order : status[o] # "none" ~> status[o] \in Terminal

(* fills.jsonl's protocol: "portfolio hash does NOT match -> PENDING_PRICE *)
(* (crash before save)".  An order is given up for manual review only if   *)
(* its fill did reach the portfolio.                                       *)
UnsavedIsRetried ==
    \A o \in Order : status[o] = "failed_reconciliation" => book.applied[o] > 0
=============================================================================

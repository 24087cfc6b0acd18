-------------------------- MODULE FillWalInvariant --------------------------
(***************************************************************************)
(* The inductive invariant behind the safety properties of FillWal: what   *)
(* the write-ahead log, the order ledger, the portfolio file and the       *)
(* running process know of one another between any two durable writes.     *)
(***************************************************************************)
EXTENDS FillWal

Trading == {"retry", "sell", "pyramid", "buy"}
Unsaved == Trading \union {"intent", "save"}
Executing == Unsaved \union {"finalize"}

InFills(o) == \E r \in settlingFills : r.order = o
FilledNow(o) == InFills(o) \/ (stage = "filled" /\ cur = o)

(* A commit intent announces fills that were not in the portfolio before.  *)
IntentsSound ==
    \A c \in DOMAIN intents : \A r \in intents[c].refs :
        intents[c].pre.applied[r.order] = 0 /\ intents[c].post.applied[r.order] > 0

(* No fill reaches the portfolio file without an intent that lists it.     *)
AppliedHasIntent == \A o \in Order : book.applied[o] > 0 => IntentsOf(o) # {}

(* A decision of reconciliation is true of the portfolio file until it is  *)
(* written, and every SETTLING order has one.                              *)
PlanSound ==
    /\ pc # "reconcile" => plan = NothingPlanned
    /\ \A o \in Order :
         /\ pc = "reconcile" /\ status[o] = "settling" => plan[o] # "none"
         /\ plan[o] \in {"reconstruct", "execute"} =>
                status[o] = "settling" /\ book.applied[o] > 0
         /\ plan[o] = "retry" => status[o] = "settling" /\ book.applied[o] = 0
         /\ plan[o] = "fail" => status[o] \in {"settling", "pending_price"}

(* The order in progress.                                                  *)
StageSound ==
    /\ stage # "none" => cur \in Order
    /\ stage = "attempt" =>
         pc \in Trading /\ status[cur] = "pending_price"
    /\ stage = "filled" =>
         /\ pc \in Trading
         /\ status[cur] \in {"pending_price", "settling"}
         /\ book.applied[cur] = 0
    /\ stage = "persisted" =>
         pc = "finalize" /\ status[cur] = "settling" /\ book.applied[cur] > 0
    /\ stage = "reconciled" => pc = "reconcile" /\ plan[cur] = "execute"

(* Until the portfolio is saved, memory is ahead of it by the fills of     *)
(* this run, which are SETTLING, priced and not in the portfolio file.     *)
MemorySound ==
    /\ pc \in {"idle", "expire", "reconcile"} => settlingFills = {}
    /\ pc = "reconcile" => mem.applied = book.applied
    /\ pc \in Trading \union {"intent"} => preHash.applied = book.applied
    /\ pc \in Unsaved =>
         \A o \in Order :
             /\ FilledNow(o) => mem.applied[o] > 0 /\ book.applied[o] = 0
             /\ ~FilledNow(o) => mem.applied[o] = book.applied[o]
    /\ pc \in Unsaved =>
         \A r \in settlingFills : status[r.order] = "settling"
    /\ pc \in Executing =>
         \A o \in Order : status[o] = "settling" => InFills(o)
    /\ pc \in Trading =>
         \A o \in Order : FilledNow(o) => TickerOf[o] \in priced

(* What keeps a buy from being filled twice by one run although SETTLING   *)
(* is not terminal: its position is held, or was sold into its cooldown.   *)
GatesSound ==
    pc \in Trading =>
        \A o \in Order : ActionOf[o] = "BUY" /\ FilledNow(o) =>
            \/ TickerOf[o] \in mem.held
            \/ mem.cooldowns[TickerOf[o]] = clock.session

(* The save is preceded by the intent for exactly its fills; after it they *)
(* are in the portfolio.                                                   *)
CommitSound ==
    /\ pc = "save" /\ settlingFills # {} =>
         /\ Len(intents) > 0
         /\ intents[Len(intents)].refs = settlingFills
         /\ intents[Len(intents)].post = Hash(mem)
    /\ pc = "finalize" => \A r \in settlingFills : book.applied[r.order] > 0

IInv ==
    /\ TypeOK
    /\ AppliedIsAccounted
    /\ ExecutedIsApplied
    /\ PersistedIsApplied
    /\ IntentsSound
    /\ AppliedHasIntent
    /\ PlanSound
    /\ StageSound
    /\ MemorySound
    /\ GatesSound
    /\ CommitSound
-----------------------------------------------------------------------------
(* Why fills.jsonl always loads: an event of the log counts as the attempt *)
(* of a fill before anything refers to it, and a marker is written only    *)
(* for an order that has none.                                             *)
LogSound ==
    /\ LedgerLoads
    /\ stage = "filled" => fillings[cur] > 0
    /\ \A r \in settlingFills : r.attempt \in 1..fillings[r.order]
    /\ \A o \in Order : plan[o] = "reconstruct" => MarkersOf(o) = {}
    /\ pc = "finalize" =>
         \A r \in settlingFills :
             \/ status[r.order] # "settling"
             \/ stage = "persisted" /\ cur = r.order
             \/ MarkersOf(r.order) = {}

-----------------------------------------------------------------------------
(* Why no fill is applied twice.                                           *)

(* A signal has one candidate per ticker, and order ids contain the id of  *)
(* their candidate: as long as the signal of a session is not replaced     *)
(* between two execute runs, no two buys of a session share a ticker.      *)
ASSUME OneBuyAssumption ==
    \A o, p \in Order :
        /\ ActionOf[o] = "BUY" /\ ActionOf[p] = "BUY"
        /\ TickerOf[o] = TickerOf[p]
        /\ SessionOf[o] = SessionOf[p]
        => o = p

BuyOfToday(o) == ActionOf[o] = "BUY" /\ SessionOf[o] = clock.session

NotYetDue ==
    \A o \in Order : SessionOf[o] > clock.session => status[o] = "none"

PartialIsHeld ==
    book.partial \subseteq book.held /\ mem.partial \subseteq mem.held

(* A buy of this session that portfolio p does not contain is for a ticker *)
(* p does not hold.                                                        *)
NotBought(p) ==
    \A o \in Order :
        BuyOfToday(o) /\ status[o] # "none" /\ p.applied[o] = 0 =>
            TickerOf[o] \notin p.held

(* What has left the portfolio since it was loaded was sold this session.  *)
SoldIntoCooldown ==
    \A t \in Ticker :
        t \in book.held /\ t \notin mem.held =>
            mem.cooldowns[t] = clock.session

(* SETTLING does not stop the sell loop: what does is that a ticker this   *)
(* run has sold is not bought back before the loop is over.                *)
SoldStaysSold ==
    \A o \in Order : ActionOf[o] = "SELL" /\ FilledNow(o) =>
        /\ TickerOf[o] \notin mem.held
        /\ \A b \in Order : BuyOfToday(b) /\ TickerOf[b] = TickerOf[o] =>
               status[b] # "pending_price"

OnceSound ==
    /\ NotYetDue
    /\ PartialIsHeld
    /\ NotBought(book)
    /\ pc = "reconcile" => mem.held = book.held
    /\ pc \in Unsaved => NotBought(mem)
    /\ pc \in Trading => SoldIntoCooldown
    /\ stage = "attempt" => Tradable(cur)
    /\ pc \in {"retry", "sell"} => SoldStaysSold
    /\ AppliedAtMostOnce
    /\ pc \in Unsaved => \A o \in Order : mem.applied[o] <= 1

SettlementInv == IInv /\ LogSound /\ OnceSound
=============================================================================

----------------------------- MODULE ExecuteRun -----------------------------
(***************************************************************************)
(* The execute workflow (.github/workflows/execute.yml): run_execute of    *)
(* stock_bot.py over all strategies, with the fill log, the portfolio      *)
(* files and trades.csv.  A run works on a fresh checkout; whatever        *)
(* becomes of it, what it left in data_v4 is committed and pushed, unless  *)
(* the push fails or the runner is lost.                                   *)
(*                                                                         *)
(* There is one ticker.  A strategy has at most one batch of fills in a    *)
(* session: it buys the ticker or sells it.  FillWal has the steps of one  *)
(* strategy in detail; here are their effects on the other files.          *)
(***************************************************************************)
EXTENDS Integers, FiniteSets, SequencesExt

CONSTANTS
    Strategies,     \* STRATEGIES, in the order of the dictionary
    InitHeld,       \* strategies that hold the ticker at first
    Ratio,          \* of a split
    NoSignal,
    MaxSession,     \* bound: sessions
    MaxFaults       \* bound: runs cut short, failed pushes, lost runners

Strategy == ToSet(Strategies)
Session == 1..MaxSession

ASSUME ExecuteAssumption ==
    /\ Strategies \in Seq(Strategy) /\ Strategies # <<>>
    /\ InitHeld \subseteq Strategy
    /\ Ratio \in Nat \ {0, 1}
    /\ MaxSession \in Nat \ {0} /\ MaxFaults \in Nat

VARIABLES
    \* the files under data_v4
    remote, disk,   \* as pushed, and in the workspace of the run
    \* the run
    pc,
    todo,           \* strategies that are still to come in the current phase
    rows,           \* trades_df
    mem,            \* state of the strategy at hand
    recovered,      \* fills whose marker recovery wrote in this run
    alert,          \* strategies the last reconciliation reported
    \* the world
    clock,          \* the session of today
    signal,         \* the last published signal
    faults

files == <<remote, disk>>
run == <<pc, todo, rows, mem, recovered, alert>>
world == <<clock, signal, faults>>
vars == <<files, run, world>>

-----------------------------------------------------------------------------
(* A portfolio file: the shares, the sessions whose fills it contains, the *)
(* session it was created in (0: an earlier one) and, as a history, how    *)
(* often it was adjusted for the split of each session.                    *)
NoFile == -1

FirstPortfolio(s) ==
    [shares |-> IF s \in InitHeld THEN 1 ELSE 0, fills |-> {},
     created |-> IF s \in InitHeld THEN 0 ELSE NoFile,
     splits |-> [n \in Session |-> 0]]

(* load_strategy_state: without a file it is a new portfolio.              *)
Loaded(p) == [p EXCEPT !.created = IF @ = NoFile THEN clock ELSE @]

(* compute_portfolio_state_hash.  The intent's pre-hash is taken after the *)
(* positions were valued at the prices of the run (marked).                *)
Hash(p, marked) == [shares |-> p.shares, fills |-> p.fills, marked |-> marked]
Matches(p, hash) == hash = Hash(p, FALSE)

(* The fill of a strategy in a session, in orders.jsonl and fills.jsonl:   *)
(* not attempted or free to retry; SETTLING, without a commit intent, with *)
(* one, with its marker; EXECUTED; FAILED_RECONCILIATION, without a marker *)
(* or with it.  pre and post are the hashes of its last commit intent,     *)
(* which a retry leaves in the log; NoHash stands for none.                *)
Marked == {"marked", "executed", "failedMarked"}
Failed == {"failed", "failedMarked"}
Stage == {"none", "settling", "intended"} \union Marked \union Failed
NoHash == [shares |-> 0, fills |-> {}, marked |-> FALSE]
NoFill == [stage |-> "none", buy |-> FALSE, pre |-> NoHash, post |-> NoHash]

(* trades.csv, a sequence per strategy and session in the order of         *)
(* timestamp_utc.                                                          *)
Row(kind, n, shares, recovered_) ==
    [kind |-> kind, session |-> n, shares |-> shares, recovered |-> recovered_]

EmptyTree ==
    [port |-> [s \in Strategy |-> FirstPortfolio(s)],
     wal |-> [s \in Strategy |-> [n \in Session |-> NoFill]],
     csv |-> [s \in Strategy |-> [n \in Session |-> <<>>]]]

\* Mutant of FillRow: a sale is recorded with negative shares.
FillRowSigned(buy, n, recovered_) ==
    Row(IF buy THEN "BUY" ELSE "SELL", n, IF buy THEN 1 ELSE -1, recovered_)

FillRow(buy, n, recovered_) == Row(IF buy THEN "BUY" ELSE "SELL", n, 1, recovered_)

HasFill(day) == \E i \in DOMAIN day : day[i].kind # "SPLIT"
HasSplit(day) == \E i \in DOMAIN day : day[i].kind = "SPLIT"

(* project_fills_to_trades: fills with a marker, whatever the order's      *)
(* status, whose trade_id no row has.  A recovered row is stamped with the *)
(* opening of its session.                                                 *)
\* Mutant of Missing: only the fills of today are looked for.
MissingToday(days, wal, n) ==
    n = clock /\ wal[n].stage \in Marked /\ ~HasFill(days[n])

Missing(days, wal, n) == wal[n].stage \in Marked /\ ~HasFill(days[n])

\* Mutant of Projected: rows are not recognised by trade_id.
ProjectedTwice(days, wal) ==
    [n \in Session |->
        IF wal[n].stage = "executed"
          THEN <<FillRow(wal[n].buy, n, TRUE)>> \o days[n] ELSE days[n]]

Projected(days, wal) ==
    [n \in Session |->
        IF Missing(days, wal, n)
          THEN <<FillRow(wal[n].buy, n, TRUE)>> \o days[n] ELSE days[n]]

(* reconcile_strategy: replay the rows since the portfolio was created and *)
(* compare.                                                                *)
Since(days, created) ==
    FlattenSeq([n \in Session |->
        IF n = created THEN SelectSeq(days[n], LAMBDA r : ~r.recovered) ELSE days[n]])

\* Mutant of Replayed: SPLIT rows do not count.
ReplayedUnsplit(s, tree) ==
    FoldLeft(LAMBDA p, r :
                CASE r.kind = "SPLIT" -> p
                  [] r.kind = "BUY" -> [p EXCEPT !.shares = @ + r.shares,
                                                 !.fills = @ \union {r.session}]
                  [] r.kind = "SELL" -> [p EXCEPT !.shares = 0,
                                                  !.fills = @ \union {r.session}],
             FirstPortfolio(s), Since(tree.csv[s], tree.port[s].created))

Replayed(s, tree) ==
    FoldLeft(LAMBDA p, r :
                CASE r.kind = "SPLIT" -> [p EXCEPT !.shares = @ + r.shares]
                  [] r.kind = "BUY" -> [p EXCEPT !.shares = @ + r.shares,
                                                 !.fills = @ \union {r.session}]
                  [] r.kind = "SELL" -> [p EXCEPT !.shares = 0,
                                                  !.fills = @ \union {r.session}],
             FirstPortfolio(s), Since(tree.csv[s], tree.port[s].created))

Deviates(s, tree) ==
    Hash(Replayed(s, tree), FALSE) # Hash(tree.port[s], FALSE)

-----------------------------------------------------------------------------
Init ==
    /\ remote = EmptyTree /\ disk = EmptyTree
    /\ pc = "idle" /\ todo = <<>> /\ rows = EmptyTree.csv
    /\ mem = FirstPortfolio(Head(Strategies))
    /\ recovered = {} /\ alert = {}
    /\ clock = 1 /\ faults = 0
    /\ signal \in {NoSignal} \union [session : {1}, split : BOOLEAN]

Fault == faults < MaxFaults /\ faults' = faults + 1

(* actions/checkout, load_trades and project_fills_to_trades, which raises *)
(* only when the log is corrupt.                                           *)
Start ==
    /\ pc = "idle"
    /\ rows' = [s \in Strategy |-> Projected(disk.csv[s], disk.wal[s])]
    /\ pc' = "split" /\ todo' = Strategies
    /\ UNCHANGED <<files, mem, recovered, alert, world>>

(* The splits of the signal, stale or not, of which the session of today   *)
(* is part of the id.                                                      *)
\* Mutant of SplitDue: the position alone decides.
SplitDueUnrecorded(s) ==
    signal # NoSignal /\ signal.split /\ disk.port[s].shares > 0

SplitDue(s) ==
    /\ signal # NoSignal /\ signal.split
    /\ ~HasSplit(rows[s][clock])
    /\ disk.port[s].shares > 0

(* apply_split_adjustments, for one strategy: the portfolio is saved, the  *)
(* row is in memory.                                                       *)
Split(p) == [p EXCEPT !.shares = @ * Ratio, !.splits[clock] = @ + 1]

ApplySplit ==
    /\ pc = "split"
    /\ LET s == Head(todo) IN
       IF SplitDue(s)
         THEN /\ disk' = [disk EXCEPT !.port[s] = Split(@)]
              /\ rows' = [rows EXCEPT ![s][clock] = Append(@, Row("SPLIT", clock,
                             disk.port[s].shares * (Ratio - 1), FALSE))]
         ELSE UNCHANGED <<disk, rows>>
    /\ IF Len(todo) > 1 THEN pc' = "split" /\ todo' = Tail(todo)
                        ELSE pc' = "recover" /\ todo' = Strategies
    /\ UNCHANGED <<remote, mem, recovered, alert, world>>

-----------------------------------------------------------------------------
(* run_strategy_execution for the strategy at the head of todo.            *)
Current == Head(todo)
Wal == disk.wal[Current]
Unsettled == {n \in Session : Wal[n].stage \in {"settling", "intended", "marked"}}

(* A record of the order or a marker of the fill; the log keeps the rest.  *)
SetStage(n, stage) == disk' = [disk EXCEPT !.wal[Current][n].stage = stage]

(* EXECUTED or FAILED_RECONCILIATION: recovery never returns to the order, *)
(* so the hashes of its intent are forgotten.                              *)
SetFinal(n, stage) ==
    disk' = [disk EXCEPT !.wal[Current][n] =
                [@ EXCEPT !.stage = stage, !.pre = NoHash, !.post = NoHash]]

(* reconcile_settling_orders: what the portfolio file says of a fill.      *)
\* Mutant of Saved: only a marker proves the save.
SavedByMarker(n) ==
    Wal[n].stage = "marked" /\ Matches(disk.port[Current], Wal[n].post)

Saved(n) == Wal[n].stage # "settling" /\ Matches(disk.port[Current], Wal[n].post)
NotSaved(n) ==
    \/ Wal[n].stage = "settling"
    \/ /\ Wal[n].stage = "intended" /\ ~Saved(n)
       /\ Matches(disk.port[Current], Wal[n].pre)

(* Crash after the save: the marker is reconstructed, then EXECUTED.       *)
RecoverMarker ==
    /\ pc = "recover" /\ todo # <<>>
    /\ \E n \in Unsettled :
          /\ Wal[n].stage = "intended" /\ Saved(n)
          /\ SetStage(n, "marked")
          /\ recovered' = recovered \union {<<Current, n>>}
    /\ UNCHANGED <<remote, pc, todo, rows, mem, alert, world>>

RecoverExecuted ==
    /\ pc = "recover" /\ todo # <<>>
    /\ \E n \in Unsettled :
          Wal[n].stage = "marked" /\ Saved(n) /\ SetFinal(n, "executed")
    /\ UNCHANGED <<remote, pc, todo, rows, mem, recovered, alert, world>>

(* Crash before the save: PENDING_PRICE.                                   *)
RecoverRetry ==
    /\ pc = "recover" /\ todo # <<>>
    /\ \E n \in Unsettled : NotSaved(n) /\ SetStage(n, "none")
    /\ UNCHANGED <<remote, pc, todo, rows, mem, recovered, alert, world>>

(* Neither: FAILED_RECONCILIATION, and the run ends for every strategy.    *)
RecoverRefuse ==
    /\ pc = "recover" /\ todo # <<>>
    /\ \E n \in Unsettled :
          /\ ~Saved(n) /\ ~NotSaved(n)
          /\ SetFinal(n, IF Wal[n].stage = "marked" THEN "failedMarked" ELSE "failed")
    /\ pc' = "commit"
    /\ UNCHANGED <<remote, todo, rows, mem, recovered, alert, world>>

\* Mutant of Recovered: the portfolio was loaded before the splits.
RecoveredEarly ==
    /\ pc = "recover" /\ todo # <<>> /\ Unsettled = {}
    /\ mem' = Loaded(remote.port[Current])
    /\ pc' = "trade"
    /\ UNCHANGED <<files, todo, rows, recovered, alert, world>>

Recovered ==
    /\ pc = "recover" /\ todo # <<>> /\ Unsettled = {}
    /\ mem' = Loaded(disk.port[Current])
    /\ pc' = "trade"
    /\ UNCHANGED <<files, todo, rows, recovered, alert, world>>

(* A fill, also as a retry of a pending order of this session: the filling *)
(* event, the row in memory, SETTLING; then the intent.  Until that is     *)
(* written, recovery finds the intent of the earlier attempt, if any.      *)
Traded(p) ==
    [p EXCEPT !.shares = IF p.shares = 0 THEN 1 ELSE 0, !.fills = @ \union {clock}]

\* A signal that does not validate allows no buys; sales may be protective.
MayBuy == signal # NoSignal /\ signal.session = clock

Trade ==
    /\ pc = "trade" /\ Wal[clock].stage = "none"
    /\ mem.shares = 0 => MayBuy
    /\ mem' = Traded(mem)
    /\ disk' = [disk EXCEPT !.wal[Current][clock] =
                   [@ EXCEPT !.stage = IF Wal[clock].post = NoHash THEN "settling" ELSE "intended",
                             !.buy = (mem.shares = 0)]]
    /\ rows' = [rows EXCEPT ![Current][clock] =
                   Append(@, FillRow(mem.shares = 0, clock, FALSE))]
    /\ pc' = "intent"
    /\ UNCHANGED <<remote, todo, recovered, alert, world>>

NoTrade ==
    /\ pc = "trade" /\ pc' = "save"
    /\ UNCHANGED <<files, todo, rows, mem, recovered, alert, world>>

WriteIntent ==
    /\ pc = "intent"
    /\ \E marked \in BOOLEAN :
          disk' = [disk EXCEPT !.wal[Current][clock] =
                      [@ EXCEPT !.stage = "intended",
                                !.pre = Hash(disk.port[Current], marked),
                                !.post = Hash(mem, FALSE)]]
    /\ pc' = "save"
    /\ UNCHANGED <<remote, todo, rows, mem, recovered, alert, world>>

SavePortfolio ==
    /\ pc = "save"
    /\ disk' = [disk EXCEPT !.port[Current] = mem]
    /\ IF Wal[clock].stage = "intended" THEN pc' = "settle" /\ UNCHANGED todo
                                       ELSE pc' = "recover" /\ todo' = Tail(todo)
    /\ UNCHANGED <<remote, rows, mem, recovered, alert, world>>

(* mark_fill_persisted, then EXECUTED.                                     *)
Settle ==
    /\ pc = "settle"
    /\ \/ /\ Wal[clock].stage = "intended" /\ SetStage(clock, "marked")
          /\ UNCHANGED <<pc, todo>>
       \/ /\ Wal[clock].stage = "marked" /\ SetFinal(clock, "executed")
          /\ pc' = "recover" /\ todo' = Tail(todo)
    /\ UNCHANGED <<remote, rows, mem, recovered, alert, world>>

-----------------------------------------------------------------------------
(* save_csv.                                                               *)
SaveTrades ==
    /\ pc = "recover" /\ todo = <<>>
    /\ disk' = [disk EXCEPT !.csv = rows]
    /\ pc' = "check"
    /\ UNCHANGED <<remote, todo, rows, mem, recovered, alert, world>>

(* run_post_execute_reconciliation, on what is on disk.                    *)
PostReconcile ==
    /\ pc = "check"
    /\ alert' = {s \in Strategy : Deviates(s, disk)}
    /\ pc' = "commit"
    /\ UNCHANGED <<files, todo, rows, mem, recovered, world>>

(* The step "Commit portfolio data", always.                               *)
EndRun ==
    /\ pc' = "idle" /\ todo' = <<>> /\ rows' = EmptyTree.csv
    /\ mem' = FirstPortfolio(Head(Strategies))
    /\ recovered' = {} /\ alert' = {}

Commit ==
    /\ pc = "commit" /\ EndRun
    /\ remote' = disk
    /\ UNCHANGED <<disk, world>>

(* The process dies or raises.                                             *)
StopRun ==
    /\ pc \notin {"idle", "commit"} /\ Fault /\ pc' = "commit"
    /\ UNCHANGED <<files, todo, rows, mem, recovered, alert, clock, signal>>

(* The push fails three times, or the runner is lost.                      *)
LoseRunner ==
    /\ pc # "idle" /\ Fault /\ EndRun
    /\ disk' = remote
    /\ UNCHANGED <<remote, clock, signal>>

(* The next session, with a signal of its own or the last one.             *)
Tick ==
    /\ pc = "idle" /\ clock < MaxSession
    /\ clock' = clock + 1
    /\ signal' \in {signal} \union [session : {clock + 1}, split : BOOLEAN]
    /\ UNCHANGED <<files, run, faults>>

RunStep ==
    \/ Start \/ ApplySplit
    \/ RecoverMarker \/ RecoverExecuted \/ RecoverRetry \/ RecoverRefuse
    \/ Recovered \/ Trade \/ NoTrade \/ WriteIntent \/ SavePortfolio \/ Settle
    \/ SaveTrades \/ PostReconcile \/ Commit

Next == RunStep \/ StopRun \/ LoseRunner \/ Tick

Spec == Init /\ [][Next]_vars

(* The workflow is started every trading day, and a run goes on until it   *)
(* ends or is ended.                                                       *)
FairSpec == Spec /\ WF_vars(RunStep)

-----------------------------------------------------------------------------
Hashes == [shares : Nat, fills : SUBSET Session, marked : BOOLEAN]

Portfolio == [shares : Nat, fills : SUBSET Session,
              created : {NoFile} \union 0..MaxSession, splits : [Session -> Nat]]

Fill == [stage : Stage, buy : BOOLEAN, pre : Hashes, post : Hashes]

RowType == [kind : {"BUY", "SELL", "SPLIT"}, session : Session, shares : Nat,
            recovered : BOOLEAN]

Rows == [Strategy -> [Session -> Seq(RowType)]]

Tree == [port : [Strategy -> Portfolio], wal : [Strategy -> [Session -> Fill]],
         csv : Rows]

(* The types of the files and of the run.                                  *)
TypeOK ==
    /\ remote \in Tree /\ disk \in Tree /\ rows \in Rows /\ mem \in Portfolio
    /\ pc \in {"idle", "split", "recover", "trade", "intent", "save", "settle",
               "check", "commit"}
    /\ todo \in Seq(Strategy)
    /\ recovered \subseteq Strategy \X Session /\ alert \subseteq Strategy
    /\ clock \in Session /\ faults \in 0..MaxFaults

(* trades.csv has every fill once, and only fills that are in the          *)
(* portfolio: neither the projection of the log nor the rows of a run that *)
(* ended early bring a second or an unfounded one (fills.py:1024, "skips   *)
(* trade_ids already present").                                            *)
OneFill(day) ==
    \A i, j \in DOMAIN day : day[i].kind # "SPLIT" /\ day[j].kind # "SPLIT" => i = j

TradesAreReal ==
    \A tree \in {remote, disk} : \A s \in Strategy, n \in Session :
        /\ HasFill(tree.csv[s][n]) => n \in tree.port[s].fills
        /\ OneFill(tree.csv[s][n])

(* The causes of a deviation that run_post_execute_reconciliation reports: *)
(* a fill whose marker recovery wrote in the same run, after the           *)
(* projection; a fill that is in the portfolio and was refused before it   *)
(* had a marker; a split whose row was lost or that was made twice; a      *)
(* recovered row, stamped with the opening of its session, that stands     *)
(* before the creation of the portfolio or, a sale, before the split of    *)
(* its session.                                                            *)
SplitRows(s, n) ==
    Cardinality({i \in DOMAIN disk.csv[s][n] : disk.csv[s][n][i].kind = "SPLIT"})

StampedTooEarly(s, n, r) ==
    /\ r.recovered
    /\ \/ n = disk.port[s].created
       \/ r.kind = "SELL" /\ HasSplit(disk.csv[s][n])

AlertsAreExplained ==
    pc = "commit" =>
        \A s \in alert :
            \/ \E n \in Session : <<s, n>> \in recovered
            \/ \E n \in disk.port[s].fills : disk.wal[s][n].stage = "failed"
            \/ \E n \in Session : disk.port[s].splits[n] # SplitRows(s, n)
            \/ \E n \in Session : \E i \in DOMAIN disk.csv[s][n] :
                  StampedTooEarly(s, n, disk.csv[s][n][i])

(* Recovery refuses a fill that is in the portfolio only if a split has    *)
(* changed the portfolio since, or since before the fill was logged.       *)
RefusedWasSplit ==
    \A tree \in {remote, disk} : \A s \in Strategy : \A n \in tree.port[s].fills :
        tree.wal[s][n].stage \in Failed =>
            \E m \in n..MaxSession : tree.port[s].splits[m] > 0

(* A portfolio loses no fill and no split: what a run saves of it is built *)
(* on what was there, the splits it has just made included, and so is what *)
(* it pushes.                                                              *)
Grows(port, later) ==
    \A s \in Strategy :
        /\ port[s].fills \subseteq later[s].fills
        /\ \A n \in Session : port[s].splits[n] <= later[s].splits[n]

NothingIsUndone ==
    [][/\ pc' # "idle" => Grows(disk.port, disk'.port)
       /\ Grows(remote.port, remote'.port)]_files

(* A split is repeated in a session only because a run ended early, at a   *)
(* fault or at a fill it refused, not by starting the workflow again.      *)
Refused(tree) == {f \in Strategy \X Session : tree.wal[f[1]][f[2]].stage \in Failed}

SplitsRepeatByFailures ==
    \A s \in Strategy, n \in Session :
        disk.port[s].splits[n] <= 1 + faults + Cardinality(Refused(disk))

(* In the end every fill in a pushed portfolio has its row in trades.csv,  *)
(* or was refused before it had a marker, whichever runs end early and     *)
(* wherever the strategies before it fail.                                 *)
FillsAreRecorded ==
    <>[](\A s \in Strategy : \A n \in remote.port[s].fills :
            HasFill(remote.csv[s][n]) \/ remote.wal[s][n].stage = "failed")

(* A split is made once for a strategy and session (stock_bot.py:263,      *)
(* "Idempotent per (strategy, ticker, session)").                          *)
SplitOncePerSession ==
    \A s \in Strategy, n \in Session : disk.port[s].splits[n] <= 1
=============================================================================

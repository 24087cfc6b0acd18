# Verification of AI Stock Lab

TLA+ models of the stateful parts of this repository, the TLC runs that check
them on small instances, and proofs, checked by TLAPS, that the most important
properties hold for every instance.  `PROJECT.json` lists the components, the
runs, the deliberate faults each property must detect, the source lines each
definition stands for, the hazards and the theorems.

    tlc -workers 2 -config FillWalTrade.cfg MCFillWal     # one run
    tlapm FillWalProofs.tla                               # one proof module

## 1. The system

The program paper-trades several strategies on US stocks.  GitHub Actions
workflows run Python scripts on a schedule; everything that survives a run is a
file under `data_v4/` which the workflow commits and pushes.

| Component | Source | State it keeps | Operations | Who it talks to |
|---|---|---|---|---|
| Order ledger | `modules/orders.py` | `orders.jsonl`: snapshots of orders, the last one per order counts | `get_or_create_order`, `save_order`, `reconcile_settling_orders`, `check_pending_price_guard`, `expire_stale_orders` | called by strategy execution; reads the fill log and the portfolio hash |
| Fill write-ahead log | `modules/fills.py` | `fills.jsonl`: `filling` events, `commit_intent`s, `persisted` markers | `append_filling_event`, `write_commit_intent`, `mark_fill_persisted`, `load_fill_events`, `resolve_fill`, `project_fills_to_trades` | written by strategy execution and recovery; projected into `trades.csv` |
| Strategy execution | `stock_bot.py` `run_strategy_execution`, `modules/portfolio.py`, `modules/risk.py` | the portfolio in memory, the fills of the run | recovery, retry loop, sells, pyramid fills, buys, commit | all of the above |
| Portfolio file and run state | `modules/state.py` | one JSON file per strategy, CSV files | `load_strategy_state`, `save_strategy_state` (temporary file and rename), `save_csv` | strategy execution |
| Execute run | `stock_bot.py` `run_execute`, `modules/reconcile.py`, `execute.yml` | all strategies, `trades.csv`, performance rows | projection, splits, strategies in turn, CSV save, post-run reconciliation, commit and push | everything in the V1 half |
| JSONL files | the four ledgers | lines, a possibly torn last one | append, read, repair | file system |
| V2B observation ledger | `modules/v2b_ledger.py` | hash-chained events per month, an index | create, transitions, repair | shadow runner, reporter |
| V2B shadow runner | `modules/v2b_shadow_runner.py`, `v2b_daily_shadow.py` | one observation per session | create, collect, complete, recover | the ledger |
| V2B report outbox | `modules/v2b_report.py`, `v2b_daily_report.py` | hash-chained report events per month | create the report, claim, send, confirm, reconcile | the ledger, Telegram |
| Signal ledger | `modules/ledger.py` | `signals.jsonl`, an index | batch append, deduplication | the signal run |
| Signal publication and validation | `modules/publication.py`, `modules/signal_validator.py`, `signal.yml` | the signal file, `publications.jsonl` | draft, finalise, publish, acknowledge, six validation layers | signal and execute runs, git |
| Exchange calendar | `modules/exchange_calendar.py` | none | `last_completed_session`, `intended_execution_session`, `is_trading_session` | every run |
| Scoring, market data, AI | `modules/scoring.py` and others | caches | numeric functions, downloads, prompts | signal run |
| Reporting, backtest | `modules/reporting.py`, `modules/backtest.py` | none | formatting, Telegram | runs |

What makes each part correct, and what is hard about it:

* **Orders, fills, portfolio.**  A trade touches three files.  The protocol is a
  write-ahead log: order `PENDING_PRICE`, fill in memory, `filling` event, order
  `SETTLING`, one `commit_intent` for the batch with the hashes of the portfolio
  before and after, the portfolio file, and per fill a `persisted` marker and
  `EXECUTED`.  A run may die between any two of these writes, the next one has
  to find out from the hashes what happened, and it may die while doing so.
  Correct means: no fill twice, no fill forgotten, `EXECUTED` never ahead of the
  portfolio, terminal statuses final, every order settled in the end.  SETTLING
  is not a terminal status, so within a run only the position and cooldown gates
  keep an order from being filled again: a hazard no test reaches.
* **Execute run.**  Splits are applied to the portfolio files at once but logged
  only at the end of the run; one strategy that fails closed ends the run for
  the others; fills are projected into `trades.csv` before recovery adds some.
  Whatever a run leaves is committed and pushed.  Correct means: `trades.csv` has
  every fill of the portfolios once, no save undoes what another step of the run
  or an earlier run did, and the reconciliation raises an alert only for a reason.
* **JSONL files.**  A torn last line is repaired in `orders.jsonl` and
  `fills.jsonl`, skipped in the V2B files, healed in the signal ledger.
* **Report outbox.**  Claims with leases, sends whose outcome is unknown, late
  confirmations.  Correct means: the history is always one the reducer accepts,
  duplicates are bounded and recorded, what is confirmed was delivered, and a
  dead run does not block the report for ever.
* **V2B ledger and runner.**  Two locks, lookups without one, an index behind the
  ledger, a crash between the events of one observation.  Correct means: the
  events of an observation are one run of the status machine in one hash chain,
  no lookup misses an observation because the index does, a terminal state stays,
  no run waits for ever, it is known which interrupted observations are still
  ended and which are not, and a run reports what it did.
* **Signals.**  Deduplication by an index that is trusted while its file is not
  older than the ledger's by more than a second; publication and
  acknowledgement in separate pushes, and a push of the ledger that runs whatever
  failed.  Correct means: a signal file is never ahead of its ledger, an index
  never ahead of its file, executions buy from one version of a signal, and what
  a successful job leaves is what the validator accepts.

## 2. Modules and plan

| Order | Module(s) | Component | Status |
|---|---|---|---|
| 1 | `FillWal`, `FillWalInvariant`, `FillWalProofs`, `OrderSettlement`, `FillWalRefinement`, `FillWalSettlementProofs`, `MCFillWal` | orders, fills, strategy execution, portfolio file | written |
| 2 | `ReportOutbox`, `ReportOutboxInvariant`, `SendSlot`, `ReportOutboxRefinement`, `ReportOutboxProofs`, `MCReportOutbox` | report outbox, with the torn appends of the V2B files | written |
| 3 | `JsonlFile`, `V2bLedger`, `V2bLedgerInvariant`, `ObservationMachine`, `V2bLedgerRefinement`, `V2bLedgerProofs`, `V2bLedgerReportProofs`, `V2bLedgerIndexProofs`, `MCV2bLedger` | observations, the collector and its recovery, index and locks | written |
| 4 | `SignalLedger`, `SignalValidator`, `SignalPublication`, `SignalPublicationInvariant`, `SignalPublicationProofs`, `MCSignalPublication` | batches and index, publication records and validation layers, and the workflow that composes them with git and the execute run | written |
| 5 | `ExecuteRun`, `ExecuteRunInvariant`, `ExecuteRunProofs`, `MCExecuteRun` | the execute run over all strategies: projection, splits, recovery, CSV save, reconciliation, commit and push | written |

`SignalLedger` and `SignalValidator` have no variables: they are the libraries
`ledger.py`, `publication.py` and `signal_validator.py`, as operators on files,
and `SignalPublication` is the workflow that calls them.  `ExecuteRun` takes the
steps of one strategy from `FillWal`, with less detail, and follows their effect on
the other files; whether a signal allows buys, which `SignalPublication` is
about, is a choice there.

Every component has a module for its inductive invariant (`...Invariant`), which a
run checks or checked before it was proved, and one to three for the proofs.

Abstract specifications: `OrderSettlement` is what 1 promises, `SendSlot` what 2
and `ObservationMachine` what 3 does.  `FillWal`, `ReportOutbox` and `V2bLedger`
are proved and checked to implement them, the last two as far as the file system
completes its appends (sections 4 and 5).  Worth stating next: the execute run
as one atomic step per strategy.

## 3. `FillWal`: one strategy through crashes

### State

| Variable | In the code |
|---|---|
| `status` | status of the last snapshot of an order in `orders.jsonl` (`none`: no snapshot) |
| `fillings`, `intents`, `persisted` | `fills.jsonl`: number of `filling` events per order, the commit intents in order (a `commit_id` is an index), the markers |
| `book` | the portfolio file: tickers held, which positions are partial, cooldowns, which fills it contains, and the prices its positions were last marked at |
| `mem`, `preHash`, `settlingFills` | `state`, `_pre_fill_hash`, `settling_fills` in `run_strategy_execution` |
| `pc`, `cur`, `stage` | the loop the run is in, the order it works on and how far it got |
| `plan`, `failed` | what phase 1 of `reconcile_settling_orders` decided, whether any order was refused |
| `priced`, `runMark` | `execution_price_cache` and `valuation_price_cache` of the run |
| `clock`, `crashes` | the session and whether it is over; the bound on crashes |

A portfolio contains fills instead of cash and share counts: two portfolios with
the same fills have the same cash and shares.  `Hash` is
`compute_portfolio_state_hash`: it covers the positions with their marks, and
not the cooldowns; if nothing is held the mark does not show.

### Actions

Each durable write is one action.  `StartRun`; `ExpireOrder` (one snapshot per
stale order); `BeginReconcile` (load, decide every SETTLING order);
`ReconstructMarker` and `WriteDecision` (phase 2, write by write); `AbortRun`
(any refusal ends the run); `BeginTrading` (guard, re-marking, `_pre_fill_hash`);
`CreateOrder`, `FillOrder`, `AnnotateTrade`, `NoFill`, `CancelBuy` in the retry,
sell, pyramid and buy loops that `NextLoop` goes through; `WriteCommitIntent`,
`SavePortfolio`, `MarkFillPersisted`, `MarkExecuted`, `EndRun`.  `Crash` stops
the run anywhere and forgets everything that is not on disk; an exception
inside the run is a crash for this purpose.  `Tick` lets sessions close and
pass between runs.

Left open, so that the model does more than the code: which orders a loop
reaches (signals, stop losses, drawdown, sector and correlation gates, position
limits, the order within a loop), which tickers have a price, the order of the
recovery writes of different orders.  A `MarkFillPersisted` and its
`MarkExecuted` are kept together as in the code.

Not in the model: the first run of a strategy without a portfolio file (it draws
a new `portfolio_id` at each load), records of earlier formats, torn lines and
their repair, `recover_settling_orders` (nothing calls it), two executions of
one strategy at the same time (the workflow's concurrency group excludes it).

### What is checked

* `fill_wal_trade`: a buy next to a pyramid fill, two sessions, prices that move
  between runs, one crash anywhere.  `ExecutedIsApplied`, `PersistedIsApplied`:
  neither `EXECUTED` nor the marker is ever ahead of the portfolio file, also
  when recovery writes them.  `SaveIsAnnounced`: the portfolio file changes its
  fills only as the last intent announced.  `ImplementsSettlement`: mapped to
  `OrderSettlement`, every step is a whole batch entering the portfolio, an
  order rejected, or invisible.  `OrdersEnd`, under fairness: every known order
  ends in a terminal status.
* `fill_wal_crash`: a buy and a sale of one ticker, two sessions, three crashes.
  `AppliedAtMostOnce`, `AppliedIsAccounted` (no applied fill is expired,
  cancelled or retried), `LedgerAlwaysLoads` (the log is never one
  `load_fill_events` refuses), `TerminalIsFinal`, and `SettlementInv`, the
  inductive invariant with all its parts.
* `fill_wal_remark` finds a disagreement (section 8).

Bounds.  Two tickers, two orders: enough for a batch of two orders of different
tickers, for two orders about one ticker, and for orders in and out of a batch.  Two
sessions: expiry needs a later one, the cooldown as well.  Three crashes: one
within trading, one within its recovery, one in the recovery of that.  Two
marks: prices either moved between two runs or did not.  The cooldown (5) is
longer than the modelled sessions, as in the shipped configuration relative to a
retry.

Fairness.  `WF(Begin)`: the workflow has a weekday cron.  `WF(RunStep)`: a run
that is not killed goes on.  `SF(Tick)`: sessions pass whether or not runs are
started between them; a tick waits for a moment between two runs, hence strong.
No fairness is assumed of any choice within a run.

### What is proved

In `FillWalProofs`, from `ConstantAssumption` alone (types of the constants, at
least one mark, a positive number of sessions): for every set of orders, tickers
and marks, any number of sessions and crashes,

* `TypeCorrect`, `FillsAreAccounted`, `ExecutedOnlyApplied`,
  `PersistedOnlyApplied`, `TerminalStays`, `SavesAreAnnounced`;

in `FillWalSettlementProofs`,

* `LogAlwaysLoads`, and with `OneBuyAssumption` `FilledOnce` (`AppliedAtMostOnce`)
  and `Refinement` (`ImplementsSettlement`).

None of these is inductive alone.  `IInv` adds what connects the files with the
run: every intent lists fills its `pre` hash does not contain and its `post`
does (`IntentsSound`), a fill in the portfolio is in some intent
(`AppliedHasIntent`), a decision of recovery stays true of the portfolio until
it is written (`PlanSound`), memory is ahead of the portfolio file by exactly
the SETTLING fills of this run (`MemorySound`), a buy filled by this run is held
or in its cooldown (`GatesSound`), and the intent written before the save is the
one of that save (`CommitSound`).  The crucial step is `ReconciledSound`: if the
portfolio file hashes to an intent's `post`, then the intent's fills are in it,
because the fills are part of what is hashed; so recovery marks `EXECUTED` only
what was saved.  The proof has one lemma per action.

`SettlementInv` adds two groups to `IInv`.  `LogSound`: the log loads because a
run or a recovery that is about to write a marker knows that the order has none,
and a fill an intent will refer to has its filling event.  `OnceSound` is why no
fill is applied twice, which for an order that is only SETTLING no status
prevents.  A buy of the session that the portfolio does not contain is for a
ticker it does not hold (`NotBought`), so a buy applied before is stopped by the
held position, or by the cooldown if it was sold since (`SoldIntoCooldown`).  A
sale of this run stays sold until the sell loop is over (`SoldStaysSold`): no
order that could buy the ticker back is pending, and the loops that make new buys
come later.

`OneBuyAssumption` says that no two buys of one session share a ticker.  The
code justifies it as long as the signal of a session is not replaced between two
execute runs: a signal has one candidate per ticker, and an order id contains
the id of its candidate (`make_order_id`, `orders.py:57`).  Without it the
property is false of the model: TLC, given two buys of one ticker and a sale in
one session, retries the sale, buys the ticker back in the retry loop, which
checks no cooldown (`stock_bot.py:979`), and lets the sell loop fill the SETTLING
sale again.  (The model leaves the order within the retry loop open.)

`Refinement` takes each step to a step of `OrderSettlement` or to a stutter: only
`SavePortfolio` changes what is applied, by the batch of the last intent, and
only a snapshot of a failed or expired order rejects it.

Only model-checked: `OrdersEnd`; liveness is beyond the prover.

## 4. `ReportOutbox`: one report, overlapping runs

The state is the events of one report that a reader sees (`events`), how the
file ends (`tail`, `unended`), claim ids, expired leases and delivered messages,
and per run its stage, claim and result.  Each section under the monthly lock is
one action, except that a run which closes an expired claim holds the lock over
two appends (`CloseExpired`, then `ClaimClosedSlot`), between which it may die.
The events of a report are a set: claim ids grow, and a terminal event is only
ever written after its claim, so the order adds nothing the reducer looks at.
The hash chain is not modelled: within one file it can only break by editing.

`WriteLine` is an append with the outcomes a file system has: nothing, all of it
and then an exception, a part of the line, or all but its newline.  A line
appended to one without a newline joins it, and both are unreadable; an
unreadable line is forgiven only while it is the last.

A send is any subset of {delivered, raises}; three instances are used: any, the
contract of `run_shadow_report` (it raises unless it delivered), and
`reporting.send_telegram` (it never raises).

* `outbox_race`: three overlapping runs, three faults (crashes, failed writes and
  sends, runs slower than their lease).  `DuplicatesAreRecorded`: duplicates are
  bounded by the recorded ambiguous claims.  `AnswersAreTrue`.  `ImplementsSlot`:
  mapped to `SendSlot`, a step takes the free slot, confirms its claim or gives
  it up, delivers a message, or is invisible.  `OutboxInv`.
* `outbox_contract`: a send function that raises unless it delivered, and torn
  appends.  `HistoryReduces`: the reducer accepts what is left of every history.
  `ConfirmedIsDelivered`, and `RepeatedRunsConfirm`: if runs are started
  again and again the report is confirmed, or its ledger has become unreadable.
  That they are started is a premise of the property and not fairness: the
  schedule starts one run per session, repeated runs are dispatched by hand.
  Fairness is only that a run goes on and that a lease runs out.
* `outbox_send_telegram` finds a disagreement (section 8).

Three runs are enough for an owner of a claim, one that closes it, and one that
takes over after the closer died; three faults for a slow owner, a dead closer
and a failed confirmation.

Proved in `ReportOutboxProofs`, for any number of runs and faults and any send
function, in two groups.

*However appends fail*, torn lines included: `HistoriesReduce`, and, with a send
function that raises unless it delivered (`Raising`), `ConfirmedDelivered`.  An
append that joins a line without its newline takes that event with it, so the
invariant `HistoryInv` says that the events make a history and that they still do
without the last one if its line is not ended (`ReducibleIn`).  The event that
makes another disappear is lost with it, so none ever rests on a lost one.  For `ConfirmedDelivered` a run that goes on to
confirm has delivered the message of the claim it drew.

*Where an append is completed or not started* (`TearFree`): `DuplicatesRecorded`,
`AnswersTrue` (a report is confirmed at most once, and a run answers CONFIRMED only
if it is), `ConfirmedStops` (after that only superseded runs send) and `Refinement`
(`ImplementsSlot`).  `OutboxInv` says that all claims but the last are ambiguous,
that a run at work owns its claim alone, and that while a run holds the lock
between its two appends every claim is ambiguous.  So a claim without an answer
is the only one in the slot (`ActiveHolds`), a new one finds the slot free, and
the line that answers it gives it back.  The hypothesis cannot be dropped: TLC
finds each of `DuplicatesAreRecorded`, `AnswersAreTrue` and `ImplementsSlot`
violated as soon as an append may stop within its line or before its newline,
for then a claim, or the event that closed one, may be lost.

Only model-checked: `RepeatedRunsConfirm` (liveness).

Not modelled: the lookup and integrity check of the observation before the
report, the report index, several reports in one file, message texts.

## 5. `V2bLedger`: observations and their collectors

| Variable | In the code |
|---|---|
| `file` | the JSONL file of each month, as `JsonlFile` describes it: its events and how it ends |
| `idx` | `v2b_idx.json`: there or not, parseable or not, the month of each key |
| `lock`, `idxLock` | the flocks of `_monthly_lock` and `_idx_lock_ctx` |
| `pc`, `op` | the stage of the library call a collector is in, and which call of the run it is: the preflight, the creation, a transition, a status query |
| `key`, `content` | the observation key and the content hash of the run |
| `cached`, `seen`, `draft` | what a lookup took from the index, the key's events as last read, the index read for an update |
| `floor` | the key's events when the lookup began: a history variable that only `LookupsComplete` reads |
| `result` | how the last run ended |

An event carries its key, type, the type of the key's previous event (the
previous hash: within one key a type occurs once) and the content hash.  The
events of a key are the set of these; the chain gives their order.

A lookup (`_resolve_partition_for_key`) is `LoadIndex`, `Scan`, and, when the
index was wrong, `ReadIndex`, `SaveIndex`, `Reread`, with no monthly lock.  A
creation is `Create`, `Append` and the index update; the run keeps the monthly
lock from `Create` to `Append`.  A transition is a lookup, `Decide`, `Transit`,
`Append`.  `Fail` says what an exception means for the run, by the call that
raises it.  `DamageIndex` is what a merge, a restore or an editor does to the
index.

Left open, so that the model does more than the code: when a run starts, which
observation it is for, what it fetches, whether fetching fails.  Collectors may
overlap, which the workflow's concurrency group prevents on GitHub and nothing
prevents elsewhere; the ledger promises to be safe for it.

Folded: the files that one scan reads without a lock are read in one step, and a
line being appended is invisible until it is complete (a reader that met half of
it would skip it as the last line).  Not modelled: one key in two months (only
an edit causes it), FAILED_DATA and CANCELLED transitions (nothing in the
repository asks for them), sessions and the calendar, the scoring of the data.

* `ledger_race`: two collectors of one session, two contents, two faults (a crash,
  a write that fails before or after it happened, an index lost, garbled or
  stale).  `LegalHistory`, `LookupsComplete`, `TerminalIsFinal`,
  `CompletedIsFinal`: COMPLETED is reported only of an observation in a terminal
  state.  `ImplementsMachine`: mapped to `ObservationMachine`, every step is one
  transition of one observation, or invisible.
* `ledger_index`: sessions of two months share the index, and an append may stop
  within its line or just before its newline.  `IndexKeepsEntries`,
  `CorruptFailsClosed`, and `HistoryInv`, the inductive invariant of the histories.
* `ledger_ends`: overlapping runs with two contents, under fairness.
  `EveryRunEnds`, and `ObservationsEnd`, which says what becomes of an
  observation: one run ends it unless a process dies or a write fails; and if
  runs come to its creation again and again, it ends all the same, unless it was
  left COLLECTING and none of them brings the content it was created with.
  The exception is what the deployed runner does (section 8): the property
  shows that it is the only one.

Two collectors are enough: every conflict is between a writer and one that read
before it or waits for it.  Two contents are a match and a conflict.  Two faults
are a crash and an index damaged besides; in `ledger_index` one torn append is
enough for the next two to join it and to be corrupt.

Fairness.  `SF(Step)`: a collector keeps running and flock does not pass over a
waiter for ever.  Nothing is assumed of when runs start and what they fetch: the
schedule starts one run per session, and others have to be dispatched on the
same day.  That runs come again is a premise of the second part of
`ObservationsEnd`, where a reader sees it; its first part is about one run.

What is proved, for any number of collectors, sessions, months, contents and
faults, rests on the file system to three degrees, each with its invariant.

*However appends fail* (`V2bLedgerProofs`): `HistoriesLegal`.  The history of a key
is not inductive alone: an append is sound because the appending collector holds
the lock of the month, and so what it read before it decided is still all there
is (`AppendSound`); two appending collectors are in different months.  As in the
outbox, an append that joins a line without its newline loses that event, so
`HistoryInv` has the history without it as well (`EndedLegal`): the last event may
go, and what is left is a legal history that ends one event earlier.
`StatusLast` shows that in a legal history the status read by `_derive_status` is the
type of an event that no other follows, `LegalExtends` that an event allowed
after it keeps the history legal.

*Where no append stops just before its newline* (`LinesEnd`,
`V2bLedgerReportProofs`): `LookupsAnswered`, `TerminalNeverLeft` and `Refinement`
(`ImplementsMachine`).  Then a month keeps every event it ever had (`LinesEnded`; a
piece of a line is lost, but was never read), and what a lookup is to find
cannot go away under it (`FloorKept`).  An append takes the state of one
observation to the next one, and nothing else changes any (`EventsStep`).  With
such a line an event that was read disappears, and TLC, given it, finds all three violated
(`TerminalIsFinal` only with two sessions in one month, of which one's append
spoils the other's last line).

*Where an append is completed or not started* (`TearFree`): `CompletedNeverLeft`.
It adds that what a collector has read is a legal history, and that a terminal
event is the last of one (`TerminalLast`): so the COMPLETED of a run that only
looked is as good as that of the run which appended it.  After a torn line the
next append succeeds and is lost, its run reports COMPLETED, and TLC finds the
property violated.

Proved in `V2bLedgerIndexProofs`, for every way an append may fail, torn lines
included: `EntriesKept` (`IndexKeepsEntries`), if nothing but collectors writes the
index, and `CorruptKept` (`CorruptFailsClosed`).  Both are about a value that is
used after it was read, and their invariants say that it still holds: at a save
the index is what the collector read, as it has kept the index lock
(`SaveSound`); at an append the month is as readable as it was found, as it has
kept the month's lock (`AppendFits`).

Only model-checked: `EveryRunEnds` and `ObservationsEnd` (liveness).

## 6. `SignalPublication`: from the signal job to the execute run

The signal workflow writes three ledgers, then the signal file, pushes, finalises
the signal, pushes the ledger whatever happened, pushes the final signal, writes
an acknowledgement, pushes that; the execute run reads what was pushed and
buys only from a signal that passes six layers of checks.  The model has three
copies of the files under `data_v4`: `remote` (pushed), `head` (committed in the
workspace of the job) and `disk` (in the workspace).

| Variable | In the code |
|---|---|
| `remote`, `head`, `disk` | a tree each: the three ledgers (`SignalLedger`: records, index, torn line), the run status, `signal_publications.jsonl`, the signal file |
| `pc`, `failed`, `result` | the step of the job, whether one has failed, how the last job ended |
| `job` | what the job sees: its run id, the versions of the features, its candidates; and the candidates of the signal it is about to save |
| `clock` | the last session that has closed; sessions are numbered, and a signal is for the one after |
| `published`, `accepted` | history variables: finalised signals that were on `remote`, signals that an execution bought from |

An attempt of the job is its commit sha and its `published_at`: both are set
together and no two attempts have the same.  A run id is the session and the hash
of the market data (the other parts of `make_signal_run_id` are constants of the
program); the hash of the features of a ticker, which contains sentiment,
fundamentals and macro data and is no part of the run id, is `ver`.  So a repeated
job may have the run id of the first and other scores: the hazard of this part.

Actions: one per durable write of `run_signal` (`WriteSignalRun`, `SetPending`,
`WriteFeatureSnapshots`, `WriteSignalRecords`, `SetCompleted`, `SetFailed`,
`SaveSignal`) with the outcomes of `_append_batch` (extended, known, refused as
known in part, interrupted after any of its lines); `FinalizeSignal` and
`WritePublication`; `AckPublication`; the four pushes; `StartBacktest`, the same
workflow dispatched in a mode that leaves the signal alone; `KillStep` and
`LoseRunner`; `Execute` with `Valid`, the layers of `validate_signal`.

Left out or folded: there is one month of files; the status file is replaced
atomically and never unreadable; the signal file and `_global.json` are written in
one step (only a step that then fails could tell them apart, and its workspace is
lost); a ledger line torn exactly before its newline; fields that follow from the run id
(model version, data cutoff); the data quality tier (informational); the hashes of
single records, which only an edit breaks; a calendar that fails between its
first and its last use in one job (`stock_bot.py:566`), which would leave a signal
without a session; an I/O error while the index is healed for a batch that is
already known, which leaves the files as a killed step does (`KillStep`), without
the status `failed`.  Whether the index is rebuilt because
of file times is a choice at every append (`newer`): git sets the times at
checkout, so nothing can be said of them.

* `signal_workflow`: one strategy, two tickers, three attempts over two sessions,
  repeated with the same scores, another score of one ticker, fewer candidates or
  other prices; two faults.  `SignalIsBacked`: a signal file, draft or not, is in
  no tree without its completed run, its run record, and a record and a snapshot
  for every candidate.  `IndexIsBacked`: no index lists what its file does not
  have, so "already there" is true.  `OneSignalPerRun`: executions buy from one
  version of a run's signal.  `AckedIsPushed`: an acknowledged signal was on the
  remote.  `GreenMeansValid`: after a job that succeeded the signal validates
  for its session, unless an earlier attempt left a publication record of the
  run, two records of a strategy and ticker, or a torn publication line.  The
  exceptions are each reachable; they are the disagreements below.

Three attempts are one that is interrupted, one that repeats it, and one that
finds what both left; two faults are one in each of the first two.  A third
session would only add stale signals, which the second has.  The run may
deadlock when the attempts are used up, so deadlock is not checked.

No fairness: nothing in the repository retries a signal job, so nothing makes a
session get its signal.

Proved in `SignalPublicationProofs`, for any strategies, tickers, attempts,
sessions and faults, from `SignalAssumption` (types; at least one session; `None` is
no signal): every property of the run, as `SignalsBacked`, `IndexesBacked`,
`OneSignalBought`, `AcknowledgedPushed` and `GreenValid`.  `WorkflowInv`, which the
run checks, is inductive; its parts are

* `TreesSound`: each of the three trees keeps its promises alone, and what is pushed
  is in what is committed, and that in the workspace (`Kept`), so that a push
  loses nothing and a fresh checkout starts from a sound tree;
* `JobSound`: what phase 1 is about to write rests on what it has written, and a
  run is not completed while a job writes it, so no step extends a file that
  others rely on as complete;
* `PublishSound`: between the finalised signal and its acknowledgement the job has the
  signal it pushed, and no tree but the workspace has a finalised signal without
  its publication record;
* `StampsSound`: no two finalised signals have one stamp, and none has that of an
  attempt which has not finalised yet;
* `AcceptedSound`: an execution has found the stamp of its signal in the one
  publication record of the run, and records are not lost.  With the stamps this
  gives `OneSignalPerRun`.

`GreenMeansValid` needs all of them: the layers of the validator are those facts
about `remote`, but for the exceptions it lists.

## 7. `ExecuteRun`: all strategies in one run

| Variable | In the code |
|---|---|
| `remote`, `disk` | a tree each: per strategy the portfolio file, the fill of each session in `orders.jsonl` and `fills.jsonl`, and its rows of `trades.csv` |
| `pc`, `todo` | the phase of `run_execute` and the strategies still to come in it |
| `rows`, `mem` | `trades_df`, and `state` of the strategy at hand |
| `recovered`, `alert` | fills whose marker recovery wrote in this run, and what the reconciliation reported |
| `clock`, `signal` | the session of today; the session and the splits of the last published signal |

Actions, in the order of a run: `Start` (load and `project_fills_to_trades`);
`ApplySplit` per strategy; then per strategy recovery (`RecoverMarker`,
`RecoverExecuted`, `RecoverRetry`, `RecoverRefuse`), `Trade` or `NoTrade`,
`WriteIntent`, `SavePortfolio`, `Settle`; `SaveTrades`; `PostReconcile`; `Commit`,
which the workflow runs whatever happened before.  `StopRun` ends the process
anywhere, `LoseRunner` loses the workspace.

There is one ticker, and a strategy has at most one batch of fills in a session;
`FillWal` has several orders, the loops, expiry and cancellation.  The filling
event and SETTLING are one step here.  The log keeps what was written: a refused
fill keeps its marker, if it has one (`failedMarked`), and is projected like any
other; a fill that is retried keeps the intent of its last attempt, which
recovery finds until the new one is written.  The hashes of an intent are
forgotten only at EXECUTED and FAILED_RECONCILIATION (`SetFinal`), where nothing reads
them again.  The intent's hash of the portfolio before
the fill may or may not match the file (`marked`; section 8, 1).  A row of
`trades.csv` has the session, the kind and the shares, and rows are kept in the
order of their timestamps: a projected row is stamped with the opening of its
session, before anything the run wrote itself, which is what the reconciliation
sorts by.  A stale signal blocks buys; its splits are applied, as in the code.

* `execute_run`: `ExecuteInv`, the inductive invariant; two strategies of which one holds the ticker, two sessions,
  splits in either, two faults.  `TradesAreReal`: each fill of `trades.csv` is in
  the portfolio, once.  `NothingIsUndone`: no save and no push takes a fill or a
  split out of a portfolio.  `RefusedWasSplit`: recovery refuses a fill that is
  in the portfolio only if a split changed the portfolio since.
  `AlertsAreExplained`, `SplitsRepeatByFailures`: every alert of the
  reconciliation and every repeated split has one of the causes in their
  comments.  `FillsAreRecorded`, under fairness: in the end each fill of a pushed
  portfolio has its row in `trades.csv` or was refused before it had a marker.
* `execute_split` finds a disagreement (section 8).

Two strategies: one that stops the run and one after it.  Two sessions: what a
run leaves to a later one.  Two faults: a crash in the run and one in the
recovery of it, or a run that is lost with what it recovered.

Fairness.  `WF(RunStep)`: the workflow is scheduled on every trading day and a run that
is not ended goes on; faults are bounded.  Nothing is assumed of sessions: the
runs of the last modelled session stand for those of later days.

Proved in `ExecuteRunProofs`, for any nonempty sequence of strategies, sessions,
split ratio and faults: `TradesReal`, `RefusedSplit`, `SplitsRepeat` and
`NothingUndone`.  The parts of `ExecuteInv`:

* `FillSound`: the stage of a fill in the log says whether the portfolio file
  contains it; where it does not, between an intent and its marker, the hash of
  the intent does, unless the file was split since.  From this a fill that is
  refused though it is contained was split, and a recovered marker is true;
* `RowsSound`: the rows of a run have each fill once, and one the portfolio file
  does not contain only for the fill being saved (`BeingFilled`), so neither the
  projection nor a trade adds a second row, and the rows saved at the end have
  none that was not saved;
* `SplitsCounted`: a split was applied at most as often as runs have ended early,
  at a fault or a refused fill, and once more if its row is in the rows at hand.
  It is stated of the rows while a run works and of `trades.csv` otherwise, and
  the refused fills are counted, so `Cardinality` is in the proof;
* `RunSound`: the portfolio in memory is the file and the fill of today, splits
  included, hence `NothingIsUndone`.

Only model-checked: `AlertsAreExplained`, which is about a replay of all rows of a
strategy, a fold over sequences of sequences: what it computes for rows of any
length is an induction over data, which the prover cannot do; and
`FillsAreRecorded` (liveness).

Not modelled: `performance.csv` (a rerun appends its rows again), the benchmark
state, the weekly review and messages.

## 8. Disagreements found

1. `fill_wal_remark`: `_pre_fill_hash` is taken after the positions were re-marked
   in memory (`stock_bot.py:910,925`), so after a crash before the save the
   portfolio file matches neither hash if prices moved, and the order goes to
   `FAILED_RECONCILIATION`, not back to `PENDING_PRICE` as `fills.py:19,265` say.
2. `outbox_send_telegram`: the deployed send function swallows its errors, so an
   undelivered message is confirmed, against "at-least-once"
   (`v2b_report.py:1203`).
3. `execute_split`: a split changes the portfolio files at once and is recorded in
   `trades.csv` at the end of the run, so every run that ends early before a
   repetition multiplies the shares again, against "Idempotent per (strategy,
   ticker, session)" (`stock_bot.py:263`).

Seen while modelling, and not runs of their own:

* The orders of an unsaved batch go back to `PENDING_PRICE` one by one
  (`orders.py:771`); a crash in between leaves a batch that no longer validates:
  part of it is retried and the rest refused, against "no partial
  reconciliation" (`orders.py:414`).
* After an append that stopped within its line, `_append_report_event`
  (`v2b_report.py:330`) joins the next event to it, and one more append makes the
  month unreadable, against "crash-safe truncation" (`v2b_report.py:269`).
  `_append_line` of the observations (`v2b_ledger.py:859`) does the same, and a
  month that is unreadable stops every lookup and creation, of other months too.
* A run stamps its own cutoff (`v2b_daily_shadow.py:113`) into the hashed content
  (`v2b_shadow_runner.py:735`), so a second run of an interrupted session does not
  resume the observation, against `tests/test_v2b_shadow_runner.py:374` (which
  passes the same cutoff twice).  One left CREATED it puts in CONFLICT for good;
  one left COLLECTING it leaves as it is, for no event may be written there
  (`v2b_ledger.py:1258`).  Without its exception `ObservationsEnd` is violated by
  exactly this: a crash in COLLECTING, and reruns that report CONFLICT.
* `_advance_to_completed` returns the final status and its caller reports
  COMPLETED whatever it is (`v2b_shadow_runner.py:791`); `CompletedIsFinal` is
  what remains true.
* An observation past CREATED gets no CONFLICT event, though the run reports one
  (`v2b_ledger.py:1258` and `docs/V2B_SHADOW_LEDGER.md:129`).
* `telegram_sent` is set without `SEND_CONFIRMED` (`v2b_report.py:1310` and `:112`).
* A failed append raises out of `run_shadow_report`, which "never raises"
  (`v2b_report.py:1206`).
* A run that is repeated after its publication keeps the first publication
  record (`publication.py:92`) and stamps its signal file anew: the job succeeds,
  the signal does not validate, and the session has no buys, against "safe to
  retry" (`ledger.py:224`).
* A run that is repeated after its ledger was completed attaches the ledger's
  signal ids to candidates scored from other features, for the features are no
  part of the run id, against "changed data … → new ID" (`ledger.py:225`).  One
  that is repeated before its completion, with other features, adds a second
  record per strategy and ticker, and no reader loads the run again.
* A batch that was torn is healed to a prefix; the repetition is refused as a
  partial duplicate (`ledger.py:510`) as long as market data and features are the same.
* The reconciliation reports deviations that are none: of a fill that was
  recovered in the run, until the next run; and for good of a first fill that was
  projected, since it is stamped before the portfolio's `created_at`
  (`fills.py:1091`, `reconcile.py:31`), of a projected sale stamped before the
  SPLIT row of its session, and of a position that a second run of a session
  split though it was bought after the split.
* A fill that was saved before a crash, and whose portfolio a split changes
  before it is reconciled, goes to `FAILED_RECONCILIATION`, and without a marker
  it never enters `trades.csv` (with one it is projected, whatever its status,
  `fills.py:1057`); the comment at `stock_bot.py:1608` says EXECUTED, and
  FAILED_PRICE where the code writes PENDING_PRICE.
* The retry of a pending BUY passes none of the gates of a first attempt
  (`stock_bot.py:979`).

## 9. Reading the modules

Definitions preceded by "Mutant of" are deliberate faults: put in the place of
the definition they name, they make TLC report the property `PROJECT.json` pairs
them with, which shows that the property depends on the code it is about.

Each section from 3 to 7 ends with what is proved of its component and what is
only model-checked: liveness under fairness, and `AlertsAreExplained`.  Every other
property of a passing run is also a theorem, for all values of the constants the
named assumptions and the hypotheses in its statement (`TearFree`, `LinesEnd`,
`Raising`, `IndexFault = {}`) allow.  Each module with state has a type invariant
`TypeOK`; it is the first part of the inductive invariant a run checks.

Not modelled at all: scoring, market data, AI prompts, backtests and formatting
(numeric functions of downloaded data without state), the limits on positions,
sectors and drawdown (left open in `FillWal`, so that it allows more than the
code), the repair of torn lines in `orders.jsonl` and `fills.jsonl`, and the
calendar library, whose answers are the models' clock.

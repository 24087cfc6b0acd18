---------------------------- MODULE SignalLedger ----------------------------
(***************************************************************************)
(* The signal ledger (modules/ledger.py) as a library: a JSONL file of     *)
(* records with the index beside it, appended to in batches, and the       *)
(* readers of the file.  The index is trusted unless it is missing or the  *)
(* file is more than a second newer; after a checkout the times of both    *)
(* files are those of the checkout, so a stale index may be trusted.       *)
(***************************************************************************)
EXTENDS Integers, FiniteSets

(* One record type: whether there is a file; its records, each an id and   *)
(* the attempt that appended it; whether it ends in a partial line; the    *)
(* index file and the ids it lists.                                        *)
EmptyLedger ==
    [exists |-> FALSE, recs |-> {}, torn |-> FALSE, indexed |-> FALSE, ids |-> {}]

IdsOf(recs) == {r.id : r \in recs}

(* _needs_index_rebuild; newer: the modification times differ by more than *)
(* a second.                                                               *)
NeedsRebuild(led, newer) == led.exists /\ (~led.indexed \/ newer)

(* What _append_batch does first: heal the partial last line, and rebuild  *)
(* the index or load it.                                                   *)
Opened(led, newer) ==
    IF NeedsRebuild(led, newer)
      THEN [led EXCEPT !.torn = FALSE, !.indexed = TRUE, !.ids = IdsOf(led.recs)]
      ELSE [led EXCEPT !.torn = FALSE]

(* The ids of a batch that the index knows.                                *)
Known(led, batch, newer) == IdsOf(batch) \intersect Opened(led, newer).ids

\* Mutant of IsRetry: one known id passes for the whole batch.
IsRetryOfAny(led, batch, newer) == Known(led, batch, newer) # {}

IsRetry(led, batch, newer) == Known(led, batch, newer) = IdsOf(batch)

IsPartial(led, batch, newer) ==
    Known(led, batch, newer) \notin {{}, IdsOf(batch)}

(* All lines, then the index.                                              *)
Extended(led, batch, newer) ==
    [Opened(led, newer) EXCEPT !.exists = TRUE,
                               !.recs = @ \union batch,
                               !.ids = @ \union IdsOf(batch),
                               !.indexed = TRUE]

\* Mutant of Interrupted: the index is saved before the lines.
InterruptedIndexFirst(led, batch, newer) ==
    {[Opened(led, newer) EXCEPT !.exists = TRUE,
                                !.recs = @ \union part, !.indexed = TRUE,
                                !.ids = @ \union IdsOf(batch)] :
        part \in SUBSET batch}

(* An append that stopped: some of the lines and perhaps a part of the     *)
(* next, or all of them and no index.                                      *)
WithLines(led, lines, newer, torn) ==
    [Opened(led, newer) EXCEPT !.exists = TRUE, !.recs = @ \union lines, !.torn = torn]

Interrupted(led, batch, newer) ==
    {WithLines(led, part, newer, FALSE) : part \in SUBSET batch}
        \union {WithLines(led, part, newer, TRUE) : part \in (SUBSET batch) \ {batch}}

-----------------------------------------------------------------------------
(* Readers.                                                                *)
HasRun(led, run) == run \in {r.id.run : r \in led.recs}

RecordsOf(led, run) == {r \in led.recs : r.id.run = run}

(* get_signal_records_for_run raises: a line it cannot parse, or two       *)
(* records of the run for one strategy and ticker.                         *)
RecordsFail(led, run) ==
    \/ led.torn
    \/ \E r, q \in RecordsOf(led, run) : r # q /\ r.id.key = q.id.key

=============================================================================

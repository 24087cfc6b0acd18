----------------------- MODULE SignalPublicationProofs ----------------------
(***************************************************************************)
(* What holds of the signal workflow for any strategies, tickers, data,    *)
(* number of attempts, sessions and faults.                                *)
(***************************************************************************)
EXTENDS SignalPublicationInvariant, TLAPS

-----------------------------------------------------------------------------
(* Ledgers.                                                                *)

(* However an append ends, the file keeps its records, gains some of the   *)
(* batch, and has what its index lists.                                    *)
LEMMA AppendedLedger ==
    ASSUME NEW Id, NEW led \in LedgerType(Id), led.ids \subseteq IdsOf(led.recs),
           NEW batch \in SUBSET [id : Id, by : Nat], NEW newer \in BOOLEAN,
           NEW after \in {Opened(led, newer), Extended(led, batch, newer)}
                            \union Interrupted(led, batch, newer)
    PROVE  /\ after \in LedgerType(Id)
           /\ after.ids \subseteq IdsOf(after.recs)
           /\ led.recs \subseteq after.recs
           /\ after.recs \subseteq led.recs \union batch
<1> DEFINE open == Opened(led, newer)
<1>1. /\ open \in LedgerType(Id) /\ open.recs = led.recs
      /\ open.ids \subseteq IdsOf(led.recs)
  BY DEF Opened, LedgerType, IdsOf
<1>2. IdsOf(batch) \subseteq Id
  BY DEF IdsOf
<1> HIDE DEF open
<1>3. CASE after = open
  BY <1>1, <1>3
<1>4. CASE after = Extended(led, batch, newer)
  <2>1. after = [open EXCEPT !.exists = TRUE, !.recs = open.recs \union batch,
                    !.ids = open.ids \union IdsOf(batch), !.indexed = TRUE]
    BY <1>4 DEF Extended, open
  <2>2. /\ after.recs = led.recs \union batch
        /\ after.ids = open.ids \union IdsOf(batch)
        /\ after \in LedgerType(Id)
    BY <1>1, <1>2, <2>1 DEF LedgerType
  <2> QED
    BY <1>1, <2>2 DEF IdsOf
<1>5. CASE after \in Interrupted(led, batch, newer)
  <2>1. PICK part \in SUBSET batch, t \in BOOLEAN :
           after = WithLines(led, part, newer, t)
    BY <1>5 DEF Interrupted
  <2>2. /\ after.recs = led.recs \union part /\ after.ids = open.ids
        /\ after \in LedgerType(Id)
    BY <1>1, <2>1 DEF LedgerType, WithLines, open
  <2> QED
    BY <1>1, <2>2 DEF IdsOf
<1> QED
  BY <1>3, <1>4, <1>5 DEF open

(* An append that goes on leaves the batch in the file: it wrote it, or    *)
(* the index knew it and was right.                                        *)
LEMMA BatchIsThere ==
    ASSUME NEW Id, NEW led \in LedgerType(Id), led.ids \subseteq IdsOf(led.recs),
           NEW batch, NEW newer
    PROVE  /\ IsRetry(led, batch, newer) =>
                 IdsOf(batch) \subseteq IdsOf(Opened(led, newer).recs)
           /\ IdsOf(batch) \subseteq IdsOf(Extended(led, batch, newer).recs)
<1>1. /\ Opened(led, newer).recs = led.recs
      /\ Opened(led, newer).ids \subseteq IdsOf(led.recs)
      /\ "recs" \in DOMAIN Opened(led, newer)
  BY DEF Opened, LedgerType
<1>2. Extended(led, batch, newer).recs = led.recs \union batch
  BY <1>1 DEF Extended
<1> QED
  BY <1>1, <1>2 DEF IsRetry, Known, IdsOf

LEMMA IdsGrow ==
    ASSUME NEW recs, NEW more, recs \subseteq more
    PROVE  IdsOf(recs) \subseteq IdsOf(more)
BY DEF IdsOf

-----------------------------------------------------------------------------
(* Trees.                                                                  *)
LEMMA TreeFields ==
    ASSUME NEW tree \in Tree
    PROVE  /\ tree.runs \in LedgerType(RunId)
           /\ tree.snapshots \in LedgerType(SnapshotId)
           /\ tree.records \in LedgerType(RecordId)
           /\ tree.status \in [Run -> Status]
           /\ tree.pubs \in [pubs : SUBSET [run : Run, stamp : Nat], acks : SUBSET Run,
                             torn : BOOLEAN, junk : BOOLEAN]
           /\ tree.signal \in {None} \union Signal
BY DEF Tree

LEMMA KeptReflexive == \A tree : Kept(tree, tree)
BY DEF Kept, LedgerKept, PubsKept

LEMMA KeptTransitive ==
    ASSUME NEW a, NEW b, NEW c, Kept(a, b), Kept(b, c)
    PROVE  Kept(a, c)
BY DEF Kept, LedgerKept, PubsKept

(* A ledger that grows goes on backing what it backs.                      *)
LEMMA BackedKept ==
    ASSUME NEW tree, NEW later, LedgerKept(tree, later), NEW run \in Run, NEW cands,
           BackedBy(tree, run, cands)
    PROVE  BackedBy(later, run, cands)
<1>1. /\ IdsOf(tree.runs.recs) \subseteq IdsOf(later.runs.recs)
      /\ IdsOf(tree.snapshots.recs) \subseteq IdsOf(later.snapshots.recs)
  BY IdsGrow DEF LedgerKept
<1>2. IdsOf(RecordsOf(tree.records, run)) \subseteq IdsOf(RecordsOf(later.records, run))
  BY DEF LedgerKept, RecordsOf, IdsOf
<1> QED
  BY <1>1, <1>2 DEF BackedBy, LedgerKept

(* A write to one file of a tree.                                          *)
LEMMA RunsWritten ==
    ASSUME NEW tree \in Tree, LedgerSound(tree), NEW after \in LedgerType(RunId),
           after.ids \subseteq IdsOf(after.recs), tree.runs.recs \subseteq after.recs
    PROVE  LET later == [tree EXCEPT !.runs = after] IN
           later \in Tree /\ LedgerSound(later) /\ LedgerKept(tree, later)
<1> DEFINE later == [tree EXCEPT !.runs = after]
<1>1. /\ later \in Tree /\ later.runs = after
      /\ later.snapshots = tree.snapshots /\ later.records = tree.records
      /\ later.status = tree.status
  BY DEF Tree
<1> HIDE DEF later
<1>2. LedgerKept(tree, later)
  BY <1>1 DEF LedgerKept
<1>3. LedgerSound(later)
  BY <1>1, IdsGrow DEF LedgerSound, IndexBacked, RecordsBacked, CompletedHasRun
<1> QED
  BY <1>1, <1>2, <1>3 DEF later

LEMMA SnapshotsWritten ==
    ASSUME NEW tree \in Tree, LedgerSound(tree), NEW after \in LedgerType(SnapshotId),
           after.ids \subseteq IdsOf(after.recs), tree.snapshots.recs \subseteq after.recs
    PROVE  LET later == [tree EXCEPT !.snapshots = after] IN
           later \in Tree /\ LedgerSound(later) /\ LedgerKept(tree, later)
<1> DEFINE later == [tree EXCEPT !.snapshots = after]
<1>1. /\ later \in Tree /\ later.runs = tree.runs
      /\ later.snapshots = after /\ later.records = tree.records
      /\ later.status = tree.status
  BY DEF Tree
<1> HIDE DEF later
<1>2. LedgerKept(tree, later)
  BY <1>1 DEF LedgerKept
<1>3. LedgerSound(later)
  BY <1>1, IdsGrow DEF LedgerSound, IndexBacked, RecordsBacked, CompletedHasRun
<1> QED
  BY <1>1, <1>2, <1>3 DEF later

SnapshotOf(id) == [id EXCEPT !.key = id.key[2]]

LEMMA RecordsWritten ==
    ASSUME NEW tree \in Tree, LedgerSound(tree), NEW after \in LedgerType(RecordId),
           after.ids \subseteq IdsOf(after.recs), tree.records.recs \subseteq after.recs,
           \A r \in after.recs \ tree.records.recs :
               SnapshotOf(r.id) \in IdsOf(tree.snapshots.recs)
    PROVE  LET later == [tree EXCEPT !.records = after] IN
           later \in Tree /\ LedgerSound(later) /\ LedgerKept(tree, later)
<1> DEFINE later == [tree EXCEPT !.records = after]
<1>1. /\ later \in Tree /\ later.runs = tree.runs
      /\ later.snapshots = tree.snapshots /\ later.records = after
      /\ later.status = tree.status
  BY DEF Tree
<1> HIDE DEF later
<1>2. LedgerKept(tree, later)
  BY <1>1 DEF LedgerKept
<1>3. RecordsBacked(later)
  BY <1>1 DEF LedgerSound, RecordsBacked, SnapshotOf
<1>4. LedgerSound(later)
  BY <1>1, <1>3 DEF LedgerSound, IndexBacked, CompletedHasRun
<1> QED
  BY <1>1, <1>2, <1>4 DEF later

(* set_signal_run_status: completed once the run has its record, other     *)
(* statuses while it is not completed.                                     *)
LEMMA StatusWritten ==
    ASSUME NEW tree \in Tree, LedgerSound(tree), NEW run \in Run, NEW status \in Status,
           status = "completed" => [run |-> run] \in IdsOf(tree.runs.recs),
           status # "completed" => tree.status[run] # "completed"
    PROVE  LET later == [tree EXCEPT !.status[run] = status] IN
           /\ later \in Tree /\ LedgerSound(later) /\ LedgerKept(tree, later)
           /\ later.status[run] = status
<1> DEFINE later == [tree EXCEPT !.status[run] = status]
<1>1. /\ later \in Tree /\ later.runs = tree.runs
      /\ later.snapshots = tree.snapshots /\ later.records = tree.records
      /\ later.status = [tree.status EXCEPT ![run] = status]
      /\ tree.status \in [Run -> Status]
  BY DEF Tree
<1> HIDE DEF later
<1>2. /\ later.status[run] = status
      /\ \A r \in Run \ {run} : later.status[r] = tree.status[r]
  BY <1>1
<1>3. LedgerKept(tree, later)
  BY <1>1, <1>2 DEF LedgerKept
<1>4. LedgerSound(later)
  BY <1>1, <1>2 DEF LedgerSound, IndexBacked, RecordsBacked, CompletedHasRun
<1> QED
  BY <1>1, <1>2, <1>3, <1>4 DEF later

-----------------------------------------------------------------------------
(* What most steps leave as it is.                                         *)
LEMMA StampsKept ==
    ASSUME TypeOK, StampsSound, FinalSignals' \subseteq FinalSignals,
           attempts' = attempts, pc' \in Before => pc \in Before,
           \A s \in published' \union accepted' : Final(s)
    PROVE  StampsSound'
BY DEF StampsSound

LEMMA GreenKept ==
    ASSUME GreenMeansValid,
           result' # "green" \/ (result' = result /\ remote' = remote)
    PROVE  GreenMeansValid'
BY DEF GreenMeansValid

(* Steps before the signal is finalized that write ledgers at most.        *)
LEMMA Phase1Step ==
    ASSUME WorkflowInv, TypeOK', pc \in Before,
           remote' = remote, head' = head, published' = published,
           accepted' = accepted, attempts' = attempts, result' = result,
           disk'.signal = disk.signal, disk'.pubs = disk.pubs,
           LedgerSound(disk'), LedgerKept(disk, disk'),
           pc' \in Before \/ (pc' = "ledger" /\ failed' = TRUE),
           JobSound'
    PROVE  WorkflowInv'
<1>1. /\ TypeOK /\ TreesSound /\ PublishSound /\ StampsSound /\ AcceptedSound
      /\ GreenMeansValid
  BY DEF WorkflowInv
<1>2. disk \in Tree
  BY <1>1 DEF TypeOK
<1>3. Backed(disk')
  BY <1>1, <1>2, TreeFields, BackedKept DEF TreesSound, TreeSound, Backed, Signal
<1>4. TreeSound(disk', published')
  BY <1>1, <1>3 DEF TreesSound, TreeSound
<1>5. Kept(disk, disk')
  BY DEF Kept, PubsKept
<1>6. TreesSound'
  BY <1>1, <1>4, <1>5, KeptTransitive DEF TreesSound
<1>7. FinalSignals' = FinalSignals
  BY DEF FinalSignals
<1>8. StampsSound'
  BY <1>1, <1>7, StampsKept DEF StampsSound, Before, Phase1
<1>9. PublishSound'
  BY <1>1 DEF PublishSound, Before, Phase1, Finalizing, Recorded
<1>10. AcceptedSound' /\ GreenMeansValid'
  BY <1>1, GreenKept DEF AcceptedSound
<1> QED
  BY <1>6, <1>8, <1>9, <1>10 DEF WorkflowInv

(* The ids of what the job writes.                                         *)
LEMMA BatchIds ==
    ASSUME TypeOK, pc \in Phase1
    PROVE  /\ job.run \in Run /\ job.cands \in SUBSET Key
           /\ job.ver \in [Ticker -> Version] /\ job.signal \in SUBSET CandidateType
           /\ RunRecord \in SUBSET [id : RunId, by : Nat]
           /\ IdsOf(RunRecord) = {[run |-> job.run]}
           /\ SnapshotRecords \in SUBSET [id : SnapshotId, by : Nat]
           /\ SignalRecords \in SUBSET [id : RecordId, by : Nat]
           /\ IdsOf(SignalRecords) = {SignalId(k) : k \in job.cands}
           /\ \A k \in job.cands :
                 /\ SignalId(k) \in RecordId
                 /\ SnapshotOf(SignalId(k)) \in IdsOf(SnapshotRecords)
<1>1. /\ job.run \in Run /\ job.cands \in SUBSET Key /\ job.att \in Nat
      /\ job.ver \in [Ticker -> Version] /\ job.signal \in SUBSET CandidateType
  BY DEF TypeOK, JobOK
<1>2. /\ RunRecord \in SUBSET [id : RunId, by : Nat]
      /\ IdsOf(RunRecord) = {[run |-> job.run]}
  BY <1>1 DEF RunRecord, RunId, IdsOf
<1>3. \A k \in job.cands : k[2] \in Ticker /\ SignalId(k) \in RecordId
  BY <1>1 DEF Key, SignalId, RecordId
<1>4. /\ SnapshotRecords \in SUBSET [id : SnapshotId, by : Nat]
      /\ \A t \in Ticker : [run |-> job.run, key |-> t, ver |-> job.ver[t]]
                              \in IdsOf(SnapshotRecords)
  <2> DEFINE ident(t) == [run |-> job.run, key |-> t, ver |-> job.ver[t]]
             rec(t) == [id |-> ident(t), by |-> job.att]
  <2>1. \A t \in Ticker : ident(t) \in SnapshotId
    BY <1>1 DEF SnapshotId
  <2>2. SnapshotRecords = {rec(t) : t \in Ticker}
    BY DEF SnapshotRecords
  <2> HIDE DEF ident
  <2>3. \A t \in Ticker : rec(t) \in [id : SnapshotId, by : Nat] /\ rec(t).id = ident(t)
    BY <1>1, <2>1
  <2> HIDE DEF rec
  <2>4. \A t \in Ticker : ident(t) \in IdsOf(SnapshotRecords)
    BY <2>2, <2>3 DEF IdsOf
  <2> QED
    BY <2>2, <2>3, <2>4 DEF ident
<1>5. /\ SignalRecords \in SUBSET [id : RecordId, by : Nat]
      /\ IdsOf(SignalRecords) = {SignalId(k) : k \in job.cands}
  <2> DEFINE rec(k) == [id |-> SignalId(k), by |-> job.att]
  <2>1. SignalRecords = {rec(k) : k \in job.cands}
    BY DEF SignalRecords
  <2>2. \A k \in job.cands : rec(k) \in [id : RecordId, by : Nat] /\ rec(k).id = SignalId(k)
    BY <1>1, <1>3
  <2> HIDE DEF rec
  <2> QED
    BY <2>1, <2>2 DEF IdsOf
<1>6. \A k \in job.cands :
         SnapshotOf(SignalId(k)) = [run |-> job.run, key |-> k[2], ver |-> job.ver[k[2]]]
  BY DEF SnapshotOf, SignalId
<1> QED
  BY <1>1, <1>2, <1>3, <1>4, <1>5, <1>6

LEMMA BatchSame ==
    ASSUME job' = job
    PROVE  RunRecord' = RunRecord /\ SnapshotRecords' = SnapshotRecords
           /\ SignalRecords' = SignalRecords
BY DEF RunRecord, SnapshotRecords, SignalRecords, SignalId

-----------------------------------------------------------------------------
(* Phase 1: one lemma for each action.                                     *)
LEMMA Phase1Types ==
    ASSUME TypeOK, pc \in Phase1, disk' \in Tree,
           remote' = remote, head' = head, published' = published,
           accepted' = accepted, attempts' = attempts, result' = result,
           job' = job, clock' = clock,
           pc' \in Phase1 \union {"draft", "ledger"},
           failed' \in {failed, TRUE}, faults' \in {faults, faults + 1}
    PROVE  TypeOK'
<1>1. pc' \in Stage
  BY DEF Phase1, Stage
<1>2. JobOK'
  BY DEF TypeOK, JobOK, Phase1
<1>3. failed \in BOOLEAN /\ faults' \in Nat
  BY DEF TypeOK
<1>4. failed' \in BOOLEAN
  BY <1>3, Zenon
<1> QED
  BY <1>1, <1>2, <1>3, <1>4 DEF TypeOK

LEMMA WriteSignalRunKeeps ==
    ASSUME WorkflowInv, WriteSignalRun
    PROVE  WorkflowInv'
<1>1. TypeOK /\ TreesSound /\ JobSound /\ disk \in Tree
  BY DEF WorkflowInv, TypeOK
<1>2. pc = "run" /\ pc \in Phase1
  BY DEF WriteSignalRun, Phase1
<1>3. PICK newer \in BOOLEAN : Append("runs", RunRecord, newer, "pending", FailStep)
  BY DEF WriteSignalRun
<1>4. /\ remote' = remote /\ head' = head /\ published' = published
      /\ accepted' = accepted /\ attempts' = attempts /\ result' = result
      /\ job' = job /\ clock' = clock
  BY DEF WriteSignalRun, jobVars, world
<1>5. /\ disk.runs \in LedgerType(RunId) /\ disk.runs.ids \subseteq IdsOf(disk.runs.recs)
      /\ LedgerSound(disk)
  BY <1>1, TreeFields DEF TreesSound, TreeSound, LedgerSound, IndexBacked
<1>6. PICK after \in {Opened(disk.runs, newer), Extended(disk.runs, RunRecord, newer)}
                        \union Interrupted(disk.runs, RunRecord, newer) :
         /\ disk' = [disk EXCEPT !.runs = after]
         /\ \/ /\ pc' = "pending" /\ failed' = failed
               /\ IdsOf(RunRecord) \subseteq IdsOf(after.recs)
            \/ pc' = "ledger" /\ failed' = TRUE
         /\ faults' \in {faults, faults + 1}
  BY <1>3, <1>5, BatchIsThere, Zenon DEF Append, FailStep, Fault
<1>7. /\ after \in LedgerType(RunId) /\ after.ids \subseteq IdsOf(after.recs)
      /\ disk.runs.recs \subseteq after.recs
  BY <1>1, <1>2, <1>5, BatchIds, AppendedLedger
<1>8. disk' \in Tree /\ LedgerSound(disk') /\ LedgerKept(disk, disk')
  BY <1>1, <1>5, <1>6, <1>7, RunsWritten
<1>9. /\ disk'.runs = after /\ disk'.status = disk.status
      /\ disk'.pubs = disk.pubs /\ disk'.signal = disk.signal
  BY <1>1, <1>6 DEF Tree
<1>10. TypeOK'
  BY <1>1, <1>2, <1>4, <1>6, <1>8, Phase1Types DEF Phase1
<1>11. JobSound'
  BY <1>1, <1>2, <1>4, <1>6, <1>9, BatchIds DEF JobSound, Writing
<1> QED
  BY <1>2, <1>4, <1>6, <1>8, <1>9, <1>10, <1>11, Phase1Step DEF Before, Phase1

LEMMA WriteFeatureSnapshotsKeeps ==
    ASSUME WorkflowInv, WriteFeatureSnapshots
    PROVE  WorkflowInv'
<1>1. TypeOK /\ TreesSound /\ JobSound /\ disk \in Tree
  BY DEF WorkflowInv, TypeOK
<1>2. pc = "snapshots" /\ pc \in Phase1
  BY DEF WriteFeatureSnapshots, Phase1
<1>3. PICK newer \in BOOLEAN :
         Append("snapshots", SnapshotRecords, newer, "records", Handled)
  BY DEF WriteFeatureSnapshots
<1>4. /\ remote' = remote /\ head' = head /\ published' = published
      /\ accepted' = accepted /\ attempts' = attempts /\ result' = result
      /\ job' = job /\ clock' = clock
  BY DEF WriteFeatureSnapshots, jobVars, world
<1>5. /\ disk.snapshots \in LedgerType(SnapshotId)
      /\ disk.snapshots.ids \subseteq IdsOf(disk.snapshots.recs)
      /\ LedgerSound(disk)
  BY <1>1, TreeFields DEF TreesSound, TreeSound, LedgerSound, IndexBacked
<1>6. PICK after \in {Opened(disk.snapshots, newer),
                      Extended(disk.snapshots, SnapshotRecords, newer)}
                        \union Interrupted(disk.snapshots, SnapshotRecords, newer) :
         /\ disk' = [disk EXCEPT !.snapshots = after]
         /\ \/ pc' = "records" /\ IdsOf(SnapshotRecords) \subseteq IdsOf(after.recs)
            \/ pc' = "failing"
         /\ failed' = failed /\ faults' \in {faults, faults + 1}
  BY <1>3, <1>5, BatchIsThere, Zenon DEF Append, Handled, Fault
<1>7. /\ after \in LedgerType(SnapshotId) /\ after.ids \subseteq IdsOf(after.recs)
      /\ disk.snapshots.recs \subseteq after.recs
  BY <1>1, <1>2, <1>5, BatchIds, AppendedLedger
<1>8. disk' \in Tree /\ LedgerSound(disk') /\ LedgerKept(disk, disk')
  BY <1>1, <1>5, <1>6, <1>7, SnapshotsWritten
<1>9. /\ disk'.runs = disk.runs /\ disk'.snapshots = after /\ disk'.status = disk.status
      /\ disk'.pubs = disk.pubs /\ disk'.signal = disk.signal
  BY <1>1, <1>6 DEF Tree
<1>10. TypeOK'
  BY <1>1, <1>2, <1>4, <1>6, <1>8, Phase1Types DEF Phase1
<1>11. JobSound'
  BY <1>1, <1>2, <1>4, <1>6, <1>9, BatchSame DEF JobSound, Writing
<1> QED
  BY <1>2, <1>4, <1>6, <1>8, <1>9, <1>10, <1>11, Phase1Step DEF Before, Phase1

LEMMA WriteSignalRecordsKeeps ==
    ASSUME WorkflowInv, WriteSignalRecords
    PROVE  WorkflowInv'
<1>1. TypeOK /\ TreesSound /\ JobSound /\ disk \in Tree
  BY DEF WorkflowInv, TypeOK
<1>2. pc = "records" /\ pc \in Phase1
  BY DEF WriteSignalRecords, Phase1
<1>3. PICK newer \in BOOLEAN :
         Append("records", SignalRecords, newer, "complete", Handled)
  BY DEF WriteSignalRecords
<1>4. /\ remote' = remote /\ head' = head /\ published' = published
      /\ accepted' = accepted /\ attempts' = attempts /\ result' = result
      /\ job' = job /\ clock' = clock
  BY DEF WriteSignalRecords, jobVars, world
<1>5. /\ disk.records \in LedgerType(RecordId)
      /\ disk.records.ids \subseteq IdsOf(disk.records.recs)
      /\ LedgerSound(disk)
  BY <1>1, TreeFields DEF TreesSound, TreeSound, LedgerSound, IndexBacked
<1>6. PICK after \in {Opened(disk.records, newer),
                      Extended(disk.records, SignalRecords, newer)}
                        \union Interrupted(disk.records, SignalRecords, newer) :
         /\ disk' = [disk EXCEPT !.records = after]
         /\ \/ pc' = "complete" /\ IdsOf(SignalRecords) \subseteq IdsOf(after.recs)
            \/ pc' = "failing"
         /\ failed' = failed /\ faults' \in {faults, faults + 1}
  BY <1>3, <1>5, BatchIsThere, Zenon DEF Append, Handled, Fault
<1>7. /\ after \in LedgerType(RecordId) /\ after.ids \subseteq IdsOf(after.recs)
      /\ disk.records.recs \subseteq after.recs
      /\ after.recs \subseteq disk.records.recs \union SignalRecords
  BY <1>1, <1>2, <1>5, BatchIds, AppendedLedger
<1>8. \A r \in after.recs \ disk.records.recs :
         SnapshotOf(r.id) \in IdsOf(disk.snapshots.recs)
  <2>1. \A r \in SignalRecords : r.id \in {SignalId(k) : k \in job.cands}
    BY <1>1, <1>2, BatchIds DEF IdsOf
  <2>2. IdsOf(SnapshotRecords) \subseteq IdsOf(disk.snapshots.recs)
    BY <1>1, <1>2 DEF JobSound
  <2> QED
    BY <1>1, <1>2, <1>7, <2>1, <2>2, BatchIds
<1>9. disk' \in Tree /\ LedgerSound(disk') /\ LedgerKept(disk, disk')
  BY <1>1, <1>5, <1>6, <1>7, <1>8, RecordsWritten
<1>10. /\ disk'.runs = disk.runs /\ disk'.snapshots = disk.snapshots
       /\ disk'.records = after /\ disk'.status = disk.status
       /\ disk'.pubs = disk.pubs /\ disk'.signal = disk.signal
  BY <1>1, <1>6 DEF Tree
<1>11. TypeOK'
  BY <1>1, <1>2, <1>4, <1>6, <1>9, Phase1Types DEF Phase1
<1>12. JobSound'
  BY <1>1, <1>2, <1>4, <1>6, <1>10, BatchSame DEF JobSound, Writing
<1> QED
  BY <1>2, <1>4, <1>6, <1>9, <1>10, <1>11, <1>12, Phase1Step DEF Before, Phase1

LEMMA SetPendingKeeps ==
    ASSUME WorkflowInv, SetPending
    PROVE  WorkflowInv'
<1>1. TypeOK /\ TreesSound /\ JobSound /\ disk \in Tree /\ LedgerSound(disk)
  BY DEF WorkflowInv, TypeOK, TreesSound, TreeSound
<1>2. pc = "pending" /\ pc \in Phase1 /\ job.run \in Run
  BY <1>1, BatchIds DEF SetPending, Phase1
<1>3. disk' = [disk EXCEPT !.status[job.run] = "pending"]
  BY DEF SetPending, SetStatus
<1>4. disk' \in Tree /\ LedgerSound(disk') /\ LedgerKept(disk, disk')
      /\ disk'.status[job.run] = "pending"
  BY <1>1, <1>2, <1>3, StatusWritten DEF JobSound, Writing, Status
<1>5. /\ remote' = remote /\ head' = head /\ published' = published
      /\ accepted' = accepted /\ attempts' = attempts /\ result' = result
      /\ job' = job /\ clock' = clock /\ failed' = failed /\ faults' = faults
      /\ pc' = "snapshots"
  BY DEF SetPending, jobVars, world
<1>6. /\ disk'.runs = disk.runs /\ disk'.pubs = disk.pubs
      /\ disk'.signal = disk.signal
  BY <1>1, <1>3 DEF Tree
<1>7. TypeOK'
  BY <1>1, <1>2, <1>4, <1>5, Phase1Types DEF Phase1
<1>8. JobSound'
  BY <1>1, <1>2, <1>4, <1>5, <1>6 DEF JobSound, Writing
<1> QED
  BY <1>2, <1>4, <1>5, <1>6, <1>7, <1>8, Phase1Step DEF Before, Phase1

LEMMA SetFailedKeeps ==
    ASSUME WorkflowInv, SetFailed
    PROVE  WorkflowInv'
<1>1. TypeOK /\ TreesSound /\ JobSound /\ disk \in Tree /\ LedgerSound(disk)
  BY DEF WorkflowInv, TypeOK, TreesSound, TreeSound
<1>2. pc = "failing" /\ pc \in Phase1 /\ job.run \in Run
  BY <1>1, BatchIds DEF SetFailed, Phase1
<1>3. disk' = [disk EXCEPT !.status[job.run] = "failed"]
  BY DEF SetFailed, SetStatus
<1>4. disk' \in Tree /\ LedgerSound(disk') /\ LedgerKept(disk, disk')
  BY <1>1, <1>2, <1>3, StatusWritten DEF JobSound, Writing, Status
<1>5. /\ remote' = remote /\ head' = head /\ published' = published
      /\ accepted' = accepted /\ attempts' = attempts /\ result' = result
      /\ job' = job /\ clock' = clock /\ failed' = TRUE /\ faults' = faults
      /\ pc' = "ledger"
  BY DEF SetFailed, jobVars, world, FailStep
<1>6. disk'.pubs = disk.pubs /\ disk'.signal = disk.signal
  BY <1>1, <1>3 DEF Tree
<1>7. TypeOK'
  BY <1>1, <1>2, <1>4, <1>5, Phase1Types DEF Phase1
<1>8. JobSound'
  BY <1>5 DEF JobSound, Writing
<1> QED
  BY <1>2, <1>4, <1>5, <1>6, <1>7, <1>8, Phase1Step DEF Before, Phase1

(* The candidates of a run that the ledger has are backed by it.           *)
LEMMA CandidatesBacked ==
    ASSUME TypeOK, pc \in Phase1, NEW tree \in Tree, LedgerSound(tree),
           tree.status[job.run] = "completed", NEW cands \in SUBSET CandidateType,
           \A c \in cands : c.id \in IdsOf(RecordsOf(tree.records, job.run))
                            /\ c.id.key = c.key
    PROVE  BackedBy(tree, job.run, cands)
<1>1. job.run \in Run
  BY BatchIds
<1>2. [run |-> job.run] \in IdsOf(tree.runs.recs)
  BY <1>1 DEF LedgerSound, CompletedHasRun
<1>3. \A c \in cands : [c.id EXCEPT !.key = c.id.key[2]] \in IdsOf(tree.snapshots.recs)
  BY DEF LedgerSound, RecordsBacked, IdsOf, RecordsOf
<1> QED
  BY <1>2, <1>3 DEF BackedBy

LEMMA CandidateTyped ==
    ASSUME TypeOK, pc \in Phase1, NEW key \in job.cands, NEW id \in RecordId
    PROVE  /\ Candidate(key, id) \in CandidateType
           /\ Candidate(key, id).key = key /\ Candidate(key, id).id = id
<1>1. key \in Key /\ key[2] \in Ticker /\ job.ver[key[2]] \in Version
  BY BatchIds DEF Key
<1> QED
  BY <1>1 DEF Candidate, CandidateType

LEMMA SetCompletedKeeps ==
    ASSUME WorkflowInv, SetCompleted
    PROVE  WorkflowInv'
<1>1. TypeOK /\ TreesSound /\ JobSound /\ disk \in Tree /\ LedgerSound(disk)
  BY DEF WorkflowInv, TypeOK, TreesSound, TreeSound
<1>2. pc = "complete" /\ pc \in Phase1 /\ job.run \in Run
  BY <1>1, BatchIds DEF SetCompleted, Phase1
<1>3. disk' = [disk EXCEPT !.status[job.run] = "completed"]
  BY DEF SetCompleted, SetStatus
<1>4. disk' \in Tree /\ LedgerSound(disk') /\ LedgerKept(disk, disk')
      /\ disk'.status[job.run] = "completed"
  BY <1>1, <1>2, <1>3, StatusWritten DEF JobSound, Writing, Status
<1> DEFINE cands == {Candidate(k, SignalId(k)) : k \in job.cands}
<1>5. /\ remote' = remote /\ head' = head /\ published' = published
      /\ accepted' = accepted /\ attempts' = attempts /\ result' = result
      /\ job' = [job EXCEPT !.signal = cands]
      /\ clock' = clock /\ failed' = failed /\ faults' = faults
      /\ pc' = "save"
  BY DEF SetCompleted, world
<1>6. /\ disk'.records = disk.records /\ disk'.pubs = disk.pubs
      /\ disk'.signal = disk.signal
  BY <1>1, <1>3 DEF Tree
<1>7. /\ cands \in SUBSET CandidateType
      /\ \A c \in cands : c.id \in IdsOf(RecordsOf(disk'.records, job.run))
                          /\ c.id.key = c.key
  <2>1. \A k \in job.cands :
           SignalId(k) \in IdsOf(disk.records.recs) /\ SignalId(k).run = job.run
           /\ SignalId(k).key = k /\ SignalId(k) \in RecordId
    BY <1>1, <1>2, BatchIds DEF JobSound, SignalId
  <2>2. \A k \in job.cands : SignalId(k) \in IdsOf(RecordsOf(disk'.records, job.run))
    BY <1>6, <2>1 DEF IdsOf, RecordsOf
  <2> QED
    BY <1>1, <1>2, <2>1, <2>2, CandidateTyped
<1> HIDE DEF cands
<1>8. TypeOK'
  <2>1. job'.run = job.run /\ job'.att = job.att /\ job'.signal = cands
    BY <1>1, <1>2, <1>5 DEF TypeOK, JobOK
  <2>2. JobOK'
    BY <1>1, <1>2, <1>5, <1>7 DEF TypeOK, JobOK, Phase1
  <2> QED
    BY <1>1, <1>4, <1>5, <2>2 DEF TypeOK, Stage
<1>9. BackedBy(disk', job.run, cands)
  BY <1>1, <1>2, <1>4, <1>7, CandidatesBacked
<1>10. JobSound'
  <2>1. job'.run = job.run /\ job'.signal = cands
    BY <1>1, <1>2, <1>5 DEF TypeOK, JobOK
  <2> QED
    BY <1>5, <1>9, <2>1 DEF JobSound, Writing
<1> QED
  BY <1>2, <1>4, <1>5, <1>6, <1>8, <1>10, Phase1Step DEF Before, Phase1

LEMMA CheckStatusKeeps ==
    ASSUME WorkflowInv, CheckStatus
    PROVE  WorkflowInv'
<1>1. TypeOK /\ TreesSound /\ JobSound /\ disk \in Tree /\ LedgerSound(disk)
  BY DEF WorkflowInv, TypeOK, TreesSound, TreeSound
<1>2. pc = "status" /\ pc \in Phase1 /\ job.run \in Run
  BY <1>1, BatchIds DEF CheckStatus, Phase1
<1>3. /\ remote' = remote /\ head' = head /\ disk' = disk /\ published' = published
      /\ accepted' = accepted /\ attempts' = attempts /\ result' = result
      /\ clock' = clock /\ faults' = faults
  BY DEF CheckStatus, trees, world
<1>4. LedgerKept(disk, disk') /\ LedgerSound(disk')
  BY <1>1, <1>3, KeptReflexive DEF Kept
<1>5. CASE pc' = "run" /\ job' = job /\ failed' = failed
           /\ disk.status[job.run] # "completed"
  <2>1. TypeOK'
    BY <1>1, <1>2, <1>3, <1>5, Phase1Types DEF Phase1
  <2>2. JobSound'
    BY <1>3, <1>5 DEF JobSound, Writing
  <2> QED
    BY <1>2, <1>3, <1>4, <1>5, <2>1, <2>2, Phase1Step DEF Before, Phase1
<1>6. CASE pc' = "ledger" /\ failed' = TRUE /\ job' = job
  <2>1. TypeOK'
    BY <1>1, <1>2, <1>3, <1>6, Phase1Types DEF Phase1
  <2>2. JobSound'
    BY <1>6 DEF JobSound, Writing
  <2> QED
    BY <1>2, <1>3, <1>4, <1>6, <2>1, <2>2, Phase1Step DEF Before, Phase1
<1> DEFINE cands == {Candidate(k, LedgerId(k)) : k \in job.cands}
<1>7. CASE /\ disk.status[job.run] = "completed"
           /\ job.cands \subseteq {r.id.key : r \in RecordsOf(disk.records, job.run)}
           /\ job' = [job EXCEPT !.signal = cands]
           /\ pc' = "save" /\ failed' = failed
  <2>1. ASSUME NEW k \in job.cands
        PROVE  /\ LedgerId(k) \in RecordId /\ LedgerId(k).key = k
               /\ LedgerId(k) \in IdsOf(RecordsOf(disk.records, job.run))
    <3> DEFINE r == CHOOSE q \in RecordsOf(disk.records, job.run) : q.id.key = k
    <3>1. \E q \in RecordsOf(disk.records, job.run) : q.id.key = k
      BY <1>7
    <3>2. r \in RecordsOf(disk.records, job.run) /\ r.id.key = k
      BY <3>1
    <3>3. r.id \in RecordId
      BY <1>1, <3>2, TreeFields DEF RecordsOf, LedgerType
    <3>4. LedgerId(k) = r.id
      BY DEF LedgerId
    <3> HIDE DEF r
    <3> QED
      BY <3>2, <3>3, <3>4 DEF IdsOf
  <2>2. /\ cands \in SUBSET CandidateType
        /\ \A c \in cands : c.id \in IdsOf(RecordsOf(disk.records, job.run))
                            /\ c.id.key = c.key
    BY <1>1, <1>2, <2>1, CandidateTyped
  <2> HIDE DEF cands
  <2>3. BackedBy(disk, job.run, cands)
    BY <1>1, <1>2, <1>7, <2>2, CandidatesBacked
  <2>4. job'.run = job.run /\ job'.att = job.att /\ job'.signal = cands
    BY <1>1, <1>2, <1>7 DEF TypeOK, JobOK
  <2>5. JobOK'
    BY <1>1, <1>2, <1>3, <1>7, <2>2 DEF TypeOK, JobOK, Phase1
  <2>6. TypeOK'
    BY <1>1, <1>3, <1>7, <2>5 DEF TypeOK, Stage
  <2>7. JobSound'
    BY <1>3, <1>7, <2>3, <2>4 DEF JobSound, Writing
  <2> QED
    BY <1>2, <1>3, <1>4, <1>7, <2>6, <2>7, Phase1Step DEF Before, Phase1
<1> QED
  BY <1>5, <1>6, <1>7 DEF CheckStatus, FailStep

-----------------------------------------------------------------------------
(* Pushes, and the end of a job.                                           *)
LEMMA SameLedger ==
    ASSUME NEW tree, NEW later, later.runs = tree.runs,
           later.snapshots = tree.snapshots, later.records = tree.records,
           later.status = tree.status
    PROVE  /\ LedgerSound(tree) => LedgerSound(later)
           /\ LedgerKept(tree, later) /\ LedgerKept(later, tree)
BY DEF LedgerSound, IndexBacked, RecordsBacked, CompletedHasRun, LedgerKept

LEMMA PubsSoundGrows ==
    ASSUME NEW file, NEW pushed, NEW more, PubsSound(file, pushed), pushed \subseteq more
    PROVE  PubsSound(file, more)
BY DEF PubsSound, Acked

LEMMA PushEffect ==
    ASSUME NEW tree, Push(tree)
    PROVE  /\ remote' = tree /\ published \subseteq published'
           /\ Final(tree.signal) => tree.signal \in published'
           /\ \A s \in published' : s \in published \/ (s = tree.signal /\ Final(s))
BY DEF Push, Final

(* What the trees of a job are to one another.                             *)
LEMMA TreeFacts ==
    ASSUME WorkflowInv
    PROVE  /\ remote \in Tree /\ head \in Tree /\ disk \in Tree
           /\ \A tree \in {remote, head, disk} :
                 LedgerSound(tree) /\ Backed(tree) /\ PubsSound(tree.pubs, published)
           /\ Kept(remote, head) /\ Kept(head, disk) /\ Kept(remote, disk)
           /\ Recorded(remote, remote.pubs) /\ Recorded(head, head.pubs)
           /\ ~Finalizing => Recorded(disk, disk.pubs)
<1>1. Kept(remote, head) /\ Kept(head, disk)
  BY DEF WorkflowInv, TreesSound
<1>2. Kept(remote, disk)
  BY <1>1, KeptTransitive
<1> QED
  BY <1>1, <1>2 DEF WorkflowInv, TypeOK, TreesSound, TreeSound, PublishSound

(* The job ends with a tree that is on the remote.                         *)
LEMMA JobEnds ==
    ASSUME WorkflowInv, NEW how \in {"failed", "green"}, NEW tree \in Tree,
           EndJob(how, tree), remote' = tree,
           LedgerSound(tree), Backed(tree), PubsSound(tree.pubs, published'),
           Recorded(tree, tree.pubs), Kept(remote, tree),
           tree.signal \in {remote.signal, head.signal, disk.signal},
           published \subseteq published',
           \A s \in published' : s \in published \/ (s = tree.signal /\ Final(s)),
           accepted' = accepted, attempts' = attempts, clock' = clock,
           faults' \in {faults, faults + 1},
           how = "green" => GreenMeansValid'
    PROVE  WorkflowInv'
<1>1. /\ TypeOK /\ StampsSound /\ AcceptedSound
  BY DEF WorkflowInv
<1>2. /\ pc' = "idle" /\ result' = how /\ failed' = FALSE /\ head' = tree /\ disk' = tree
  BY DEF EndJob
<1>3. tree.signal \in {None} \union Signal
  BY TreeFields
<1>4. published' \subseteq Signal
  BY <1>1, <1>3 DEF TypeOK, Final
<1>5. TypeOK'
  <2>1. JobOK' /\ pc' \in Stage
    BY <1>2 DEF JobOK, Phase1, Stage
  <2>2. faults' \in Nat /\ result' \in {"none", "failed", "green"}
    BY <1>1, <1>2 DEF TypeOK
  <2> QED
    BY <1>1, <1>2, <1>4, <2>1, <2>2 DEF TypeOK
<1>6. TreesSound'
  BY <1>2, KeptReflexive DEF TreesSound, TreeSound
<1>7. JobSound'
  BY <1>2 DEF JobSound, Writing
<1>8. PublishSound'
  BY <1>2 DEF PublishSound, Recorded
<1>9. FinalSignals' \subseteq FinalSignals
  BY <1>2 DEF FinalSignals
<1>10. StampsSound'
  <2>1. pc' \notin Before
    BY <1>2 DEF Before, Phase1
  <2>2. \A s \in published' \union accepted' : Final(s)
    BY <1>1 DEF StampsSound
  <2> QED
    BY <1>1, <1>9, <2>1, <2>2, StampsKept
<1>11. AcceptedSound'
  BY <1>1 DEF AcceptedSound, Kept, PubsKept
<1>12. GreenMeansValid'
  BY <1>2, GreenKept DEF GreenMeansValid
<1> QED
  BY <1>5, <1>6, <1>7, <1>8, <1>10, <1>11, <1>12 DEF WorkflowInv

(* A push that is refused, or a runner that is lost.                       *)
LEMMA JobLost ==
    ASSUME WorkflowInv, EndJob("failed", remote), remote' = remote,
           published' = published, accepted' = accepted, attempts' = attempts,
           clock' = clock, faults' \in {faults, faults + 1}
    PROVE  WorkflowInv'
BY TreeFacts, KeptReflexive, JobEnds

LEMMA LoseRunnerKeeps ==
    ASSUME WorkflowInv, LoseRunner
    PROVE  WorkflowInv'
BY JobLost DEF LoseRunner, Fault, world

(* A step of phases 2 to 5 that goes on.                                   *)
LEMMA PublishStep ==
    ASSUME WorkflowInv, TypeOK', pc # "idle", pc' \notin Phase1 \union {"idle"},
           TreesSound', PublishSound', FinalSignals' \subseteq FinalSignals,
           \A s \in published' \union accepted' : Final(s),
           pc' \in Before => pc \in Before, Kept(remote, remote'),
           accepted' = accepted, attempts' = attempts, result' = result
    PROVE  WorkflowInv'
<1>1. /\ StampsSound /\ AcceptedSound /\ TypeOK
      /\ result # "green"
  BY DEF WorkflowInv, PublishSound
<1>2. JobSound'
  BY DEF JobSound, Writing, Phase1
<1>3. StampsSound'
  BY <1>1, StampsKept
<1>4. AcceptedSound'
  BY <1>1 DEF AcceptedSound, Kept, PubsKept
<1>5. GreenMeansValid'
  BY <1>1 DEF GreenMeansValid
<1> QED
  BY <1>2, <1>3, <1>4, <1>5 DEF WorkflowInv

LEMMA PublishTypes ==
    ASSUME TypeOK, pc # "idle", remote' \in Tree, head' \in Tree, disk' \in Tree,
           published' \subseteq Signal, accepted' = accepted, attempts' = attempts,
           result' = result, job' = job, clock' = clock,
           pc' \in {"finalize", "publish", "ledger", "final", "ack", "push_ack"},
           failed' \in {failed, TRUE}, faults' \in {faults, faults + 1}
    PROVE  TypeOK'
<1>1. JobOK' /\ pc' \in Stage
  BY DEF TypeOK, JobOK, Phase1, Stage
<1>2. failed \in BOOLEAN /\ faults' \in Nat
  BY DEF TypeOK
<1>3. failed' \in BOOLEAN
  BY <1>2, Zenon
<1> QED
  BY <1>1, <1>2, <1>3 DEF TypeOK

LEMMA PushedTyped ==
    ASSUME WorkflowInv, NEW tree \in Tree, Push(tree)
    PROVE  published' \subseteq Signal /\ \A s \in published' : Final(s)
<1>1. tree.signal \in {None} \union Signal
  BY TreeFields
<1> QED
  BY <1>1, PushEffect DEF WorkflowInv, TypeOK, StampsSound, Final

LEMMA PushDraftKeeps ==
    ASSUME WorkflowInv, PushDraft
    PROVE  WorkflowInv'
<1>1. /\ TypeOK /\ PublishSound /\ StampsSound /\ pc = "draft"
  BY DEF WorkflowInv, PushDraft
<1>2. /\ head' = disk /\ disk' = disk /\ job' = job /\ result' = result
      /\ attempts' = attempts /\ clock' = clock /\ accepted' = accepted
  BY DEF PushDraft, jobVars, world
<1>3. Recorded(disk, disk.pubs)
  BY <1>1, TreeFacts DEF Finalizing
<1>4. CASE Push(disk) /\ pc' = "finalize" /\ failed' = failed /\ faults' = faults
  <2>1. /\ remote' = disk /\ published \subseteq published'
        /\ published' \subseteq Signal /\ \A s \in published' : Final(s)
    BY <1>4, PushEffect, PushedTyped, TreeFacts
  <2>2. TypeOK'
    BY <1>1, <1>2, <1>4, <2>1, TreeFacts, PublishTypes
  <2>3. TreesSound'
    BY <1>2, <2>1, TreeFacts, PubsSoundGrows, KeptReflexive DEF TreesSound, TreeSound
  <2>4. PublishSound'
    BY <1>1, <1>2, <1>3, <1>4, <2>1 DEF PublishSound, Finalizing, Recorded
  <2>5. FinalSignals' \subseteq FinalSignals
    BY <1>2, <1>4, <2>1, PushEffect DEF FinalSignals
  <2> QED
    BY <1>1, <1>2, <1>4, <2>1, <2>2, <2>3, <2>4, <2>5, TreeFacts, PublishStep
       DEF StampsSound, Before, Phase1
<1>5. CASE /\ pc' = "ledger" /\ failed' = TRUE /\ faults' = faults + 1
           /\ remote' = remote /\ published' = published
  <2>1. TypeOK'
    BY <1>1, <1>2, <1>5, TreeFacts, PublishTypes DEF TypeOK
  <2>2. TreesSound'
    BY <1>2, <1>5, TreeFacts, KeptReflexive DEF TreesSound, TreeSound
  <2>3. PublishSound'
    BY <1>1, <1>2, <1>3, <1>5 DEF PublishSound, Finalizing, Recorded
  <2>4. FinalSignals' \subseteq FinalSignals
    BY <1>2, <1>5 DEF FinalSignals
  <2> QED
    BY <1>1, <1>2, <1>5, <2>1, <2>2, <2>3, <2>4, KeptReflexive, PublishStep
       DEF StampsSound, Before, Phase1
<1> QED
  BY <1>4, <1>5 DEF PushDraft, Fault, FailStep

(* run_finalize_signal stamps and seals the signal with its attempt.       *)
LEMMA FinalizedSealed ==
    ASSUME NEW s \in Signal, job.att \in Nat
    PROVE  LET t == Finalized(s) IN
           /\ t \in Signal /\ Final(t) /\ t.run = s.run /\ t.cands = s.cands
           /\ t.stamp = job.att /\ t.hash = ContentHash(t)
<1> DEFINE d == [s EXCEPT !.status = "published", !.stamp = job.att]
           t == [d EXCEPT !.hash = ContentHash(d)]
<1>1. /\ d \in Signal /\ d.run = s.run /\ d.cands = s.cands /\ d.stamp = job.att
      /\ d.status = "published"
  BY DEF Signal, SignalStatus
<1> HIDE DEF d
<1>2. ContentHash(d) \in Run \X SignalStatus \X Nat \X SUBSET CandidateType
  BY <1>1 DEF ContentHash, Signal
<1>3. t \in Signal
  BY <1>1, <1>2 DEF Signal
<1>4. /\ t.run = d.run /\ t.cands = d.cands /\ t.stamp = d.stamp
      /\ t.status = d.status /\ t.hash = ContentHash(d)
  BY <1>1 DEF Signal
<1> HIDE DEF t
<1>5. ContentHash(t) = ContentHash(d)
  BY <1>4 DEF ContentHash
<1>6. Final(t)
  BY <1>1, <1>3, <1>4, SignalAssumption DEF Final
<1>7. Finalized(s) = t
  BY DEF Finalized, t, d
<1> QED
  BY <1>1, <1>3, <1>4, <1>5, <1>6, <1>7

LEMMA SignalWritten ==
    ASSUME NEW tree \in Tree, NEW s \in Signal
    PROVE  LET later == [tree EXCEPT !.signal = s] IN
           /\ later \in Tree /\ later.signal = s /\ later.pubs = tree.pubs
           /\ later.runs = tree.runs /\ later.snapshots = tree.snapshots
           /\ later.records = tree.records /\ later.status = tree.status
BY DEF Tree

LEMMA PubsWritten ==
    ASSUME NEW tree \in Tree,
           NEW pubs \in [pubs : SUBSET [run : Run, stamp : Nat], acks : SUBSET Run,
                         torn : BOOLEAN, junk : BOOLEAN]
    PROVE  LET later == [tree EXCEPT !.pubs = pubs] IN
           /\ later \in Tree /\ later.signal = tree.signal /\ later.pubs = pubs
           /\ later.runs = tree.runs /\ later.snapshots = tree.snapshots
           /\ later.records = tree.records /\ later.status = tree.status
BY DEF Tree

LEMMA SaveSignalKeeps ==
    ASSUME WorkflowInv, SaveSignal
    PROVE  WorkflowInv'
<1>1. /\ TypeOK /\ JobSound /\ PublishSound /\ StampsSound /\ AcceptedSound
      /\ pc = "save" /\ pc \in Phase1
  BY DEF WorkflowInv, SaveSignal, Phase1
<1>2. /\ remote' = remote /\ head' = head /\ job' = job /\ result' = result
      /\ attempts' = attempts /\ failed' = failed /\ faults' = faults
      /\ published' = published /\ clock' = clock /\ accepted' = accepted
      /\ pc' = "draft"
  BY DEF SaveSignal, jobVars, world
<1> DEFINE draft == [run |-> job.run, status |-> "draft", stamp |-> NoStamp,
                     hash |-> NoHash, cands |-> job.signal]
<1>3. /\ draft \in Signal /\ draft.run = job.run /\ draft.status = "draft"
      /\ draft.cands = job.signal
  BY <1>1, BatchIds DEF Signal, SignalStatus, NoStamp
<1>4. disk' = [disk EXCEPT !.signal = draft]
  BY DEF SaveSignal
<1> HIDE DEF draft
<1>5. /\ disk' \in Tree /\ disk'.signal = draft /\ disk'.pubs = disk.pubs
      /\ disk'.runs = disk.runs /\ disk'.snapshots = disk.snapshots
      /\ disk'.records = disk.records /\ disk'.status = disk.status
  BY <1>3, <1>4, TreeFacts, SignalWritten
<1>6. LedgerSound(disk') /\ LedgerKept(disk, disk')
  BY <1>5, SameLedger, TreeFacts
<1>7. BackedBy(disk', job.run, job.signal)
  BY <1>1, <1>6, BackedKept, BatchIds DEF JobSound
<1>8. Backed(disk') /\ ~Final(disk'.signal)
  BY <1>3, <1>5, <1>7 DEF Backed, Final
<1>9. Kept(head, disk')
  BY <1>5, <1>6, TreeFacts, KeptTransitive DEF Kept, PubsKept
<1>10. TreesSound'
  BY <1>2, <1>5, <1>6, <1>8, <1>9, TreeFacts DEF TreesSound, TreeSound
<1>11. TypeOK'
  BY <1>1, <1>2, <1>5, Phase1Types, TreeFacts
<1>12. PublishSound'
  BY <1>1, <1>2, <1>8 DEF PublishSound, Finalizing, Recorded
<1>13. FinalSignals' \subseteq FinalSignals
  BY <1>2, <1>8 DEF FinalSignals
<1> QED
  BY <1>1, <1>2, <1>10, <1>11, <1>12, <1>13, KeptReflexive, PublishStep
     DEF StampsSound, Before, Phase1

LEMMA FinalizeSignalKeeps ==
    ASSUME WorkflowInv, FinalizeSignal
    PROVE  WorkflowInv'
<1>1. /\ TypeOK /\ PublishSound /\ StampsSound /\ AcceptedSound /\ pc = "finalize"
      /\ GreenMeansValid
  BY DEF WorkflowInv, FinalizeSignal
<1>2. /\ remote' = remote /\ head' = head /\ job' = job /\ result' = result
      /\ attempts' = attempts /\ faults' = faults
      /\ published' = published /\ clock' = clock /\ accepted' = accepted
  BY DEF FinalizeSignal, jobVars, world
<1>3. Recorded(disk, disk.pubs)
  BY <1>1, TreeFacts DEF Finalizing
<1>4. CASE /\ disk' = disk /\ pc' = "ledger" /\ failed' \in {failed, TRUE}
           /\ failed' = TRUE \/ Final(disk.signal)
  <2>1. TypeOK'
    BY <1>1, <1>2, <1>4, TreeFacts, PublishTypes DEF TypeOK
  <2>2. TreesSound'
    BY <1>2, <1>4, TreeFacts DEF TreesSound, TreeSound
  <2>3. PublishSound'
    BY <1>1, <1>2, <1>3, <1>4 DEF PublishSound, Finalizing, Recorded
  <2>4. FinalSignals' \subseteq FinalSignals
    BY <1>2, <1>4 DEF FinalSignals
  <2> QED
    BY <1>1, <1>2, <1>4, <2>1, <2>2, <2>3, <2>4, KeptReflexive, PublishStep
       DEF StampsSound, Before, Phase1
<1>5. CASE /\ disk.signal # None /\ disk' = [disk EXCEPT !.signal = Finalized(disk.signal)]
           /\ pc' = "publish" /\ failed' = failed
  <2>1. disk.signal \in Signal /\ job.att \in Nat /\ job.att = attempts /\ attempts > 0
    BY <1>1, <1>5, TreeFacts, TreeFields DEF TypeOK, JobOK
  <2>2. PICK s \in Signal :
           /\ s = Finalized(disk.signal) /\ Final(s) /\ s.run = disk.signal.run
           /\ s.cands = disk.signal.cands /\ s.stamp = attempts
           /\ s.hash = ContentHash(s)
    BY <2>1, FinalizedSealed
  <2>3. /\ disk' \in Tree /\ disk'.signal = s /\ disk'.pubs = disk.pubs
        /\ disk'.runs = disk.runs /\ disk'.snapshots = disk.snapshots
        /\ disk'.records = disk.records /\ disk'.status = disk.status
    BY <1>5, <2>2, TreeFacts, SignalWritten
  <2>4. LedgerSound(disk') /\ LedgerKept(disk, disk')
    BY <2>3, SameLedger, TreeFacts
  <2>5. Backed(disk')
    <3>1. BackedBy(disk, s.run, s.cands) /\ s.run \in Run
      BY <1>5, <2>2, TreeFacts DEF Backed, Signal
    <3> QED
      BY <2>3, <2>4, <3>1, BackedKept DEF Backed
  <2>6. Kept(head, disk')
    BY <2>3, <2>4, TreeFacts, KeptTransitive DEF Kept, PubsKept
  <2>7. TreesSound'
    BY <1>2, <2>3, <2>4, <2>5, <2>6, TreeFacts DEF TreesSound, TreeSound
  <2>8. TypeOK'
    BY <1>1, <1>2, <1>5, <2>3, TreeFacts, PublishTypes DEF TypeOK
  <2>9. PublishSound'
    BY <1>1, <1>2, <1>5, <2>2, <2>3 DEF PublishSound, Finalizing, Recorded
  <2>10. FinalSignals' \subseteq FinalSignals \union {s}
    BY <1>2, <2>3 DEF FinalSignals
  <2>11. Sealed(s, attempts) /\ \A r \in FinalSignals : r.stamp < attempts
    BY <1>1, <2>1, <2>2 DEF Sealed, StampsSound, Before, TypeOK
  <2>12. \A r \in FinalSignals : r.stamp # s.stamp
    BY <1>1, <2>1, <2>2, <2>11 DEF StampsSound, Sealed
  <2>13. StampsSound'
    <3>1. \A r, t \in FinalSignals' : r.stamp = t.stamp => r = t
      BY <1>1, <2>10, <2>12 DEF StampsSound
    <3> QED
      BY <1>1, <1>2, <1>5, <2>10, <2>11, <3>1 DEF StampsSound, Before, Phase1
  <2>14. JobSound' /\ AcceptedSound' /\ GreenMeansValid'
    BY <1>1, <1>2, <1>5, GreenKept DEF JobSound, Writing, AcceptedSound
  <2> QED
    BY <2>7, <2>8, <2>9, <2>13, <2>14 DEF WorkflowInv
<1> QED
  BY <1>4, <1>5 DEF FinalizeSignal, FailStep, Final

(* A line of signal_publications.jsonl, written, joined to a partial one   *)
(* or interrupted.                                                         *)
LEMMA PublicationAppended ==
    ASSUME NEW tree \in Tree, NEW run \in Run, NEW stamp \in Nat, NEW pushed,
           PubsSound(tree.pubs, pushed), PublicationsOf(tree.pubs, run) = {}
    PROVE  LET after == WithPublication(tree.pubs, [run |-> run, stamp |-> stamp]) IN
           /\ after \in [pubs : SUBSET [run : Run, stamp : Nat], acks : SUBSET Run,
                         torn : BOOLEAN, junk : BOOLEAN]
           /\ PubsSound(after, pushed) /\ PubsKept(tree.pubs, after)
           /\ PublicationsOf(after, run) # {} \/ after.junk
<1> DEFINE p == [run |-> run, stamp |-> stamp]
           after == WithPublication(tree.pubs, p)
<1>1. p \in [run : Run, stamp : Nat] /\ p.run = run
  OBVIOUS
<1> HIDE DEF p, after
<1>2. tree.pubs \in [pubs : SUBSET [run : Run, stamp : Nat], acks : SUBSET Run,
                     torn : BOOLEAN, junk : BOOLEAN]
  BY TreeFields
<1> DEFINE Goal == /\ after \in [pubs : SUBSET [run : Run, stamp : Nat], acks : SUBSET Run,
                                 torn : BOOLEAN, junk : BOOLEAN]
                   /\ PubsSound(after, pushed) /\ PubsKept(tree.pubs, after)
                   /\ PublicationsOf(after, run) # {} \/ after.junk
<1>3. ASSUME tree.pubs.torn PROVE Goal
  <2>1. after = [tree.pubs EXCEPT !.torn = FALSE, !.junk = TRUE]
    BY <1>3 DEF WithPublication, Joined, after
  <2>2. /\ after.pubs = tree.pubs.pubs /\ after.acks = tree.pubs.acks /\ after.junk
        /\ after \in [pubs : SUBSET [run : Run, stamp : Nat], acks : SUBSET Run,
                      torn : BOOLEAN, junk : BOOLEAN]
    BY <1>2, <2>1
  <2> QED
    BY <1>2, <2>2 DEF PubsSound, OnePublication, Acked, PubsKept
<1>4. ASSUME ~tree.pubs.torn PROVE Goal
  <2>1. after = [tree.pubs EXCEPT !.pubs = tree.pubs.pubs \union {p}]
    BY <1>4 DEF WithPublication, after
  <2>2. /\ after.pubs = tree.pubs.pubs \union {p} /\ after.acks = tree.pubs.acks
        /\ after.junk = tree.pubs.junk
    BY <1>2, <2>1
  <2>3. \A q \in tree.pubs.pubs : q.run # run
    BY DEF PublicationsOf
  <2>4. OnePublication(after)
    BY <1>1, <2>2, <2>3 DEF PubsSound, OnePublication
  <2>5. p \in PublicationsOf(after, run)
    BY <1>1, <2>2 DEF PublicationsOf
  <2> QED
    BY <1>1, <1>2, <2>1, <2>2, <2>4, <2>5 DEF PubsSound, Acked, PubsKept
<1> QED
  BY <1>3, <1>4 DEF after, p

LEMMA WritePublicationKeeps ==
    ASSUME WorkflowInv, WritePublication
    PROVE  WorkflowInv'
<1>1. TypeOK /\ PublishSound /\ StampsSound /\ pc = "publish" /\ Final(disk.signal)
  BY DEF WorkflowInv, PublishSound, WritePublication
<1>2. /\ remote' = remote /\ head' = head /\ job' = job /\ result' = result
      /\ attempts' = attempts
      /\ published' = published /\ clock' = clock /\ accepted' = accepted
  BY DEF WritePublication, jobVars, world
<1>3. disk.signal \in Signal /\ disk.signal.run \in Run /\ disk.signal.stamp \in Nat
  BY <1>1, TreeFacts, TreeFields DEF Final, Signal
<1> DEFINE after == WithPublication(disk.pubs,
                        [run |-> disk.signal.run, stamp |-> disk.signal.stamp])
<1>4. CASE /\ PublicationKnown /\ pc' = "ledger" /\ disk' = disk /\ failed' = failed
           /\ faults' = faults
  <2>1. TypeOK'
    BY <1>1, <1>2, <1>4, TreeFacts, PublishTypes DEF TypeOK
  <2>2. TreesSound'
    BY <1>2, <1>4, TreeFacts DEF TreesSound, TreeSound
  <2>3. PublishSound'
    BY <1>1, <1>2, <1>4 DEF PublishSound, Finalizing, Recorded, PublicationKnown
  <2>4. FinalSignals' \subseteq FinalSignals
    BY <1>2, <1>4 DEF FinalSignals
  <2> QED
    BY <1>1, <1>2, <1>4, <2>1, <2>2, <2>3, <2>4, KeptReflexive, PublishStep
       DEF StampsSound, Before, Phase1
<1>5. ASSUME ~PublicationKnown, pc' = "ledger",
             NEW pubs \in {disk.pubs, [disk.pubs EXCEPT !.torn = TRUE], after},
             disk' = [disk EXCEPT !.pubs = pubs],
             failed' \in {failed, TRUE}, failed' = TRUE \/ pubs = after,
             faults' \in {faults, faults + 1}
      PROVE  WorkflowInv'
  <2>1. disk.pubs \in [pubs : SUBSET [run : Run, stamp : Nat], acks : SUBSET Run,
                       torn : BOOLEAN, junk : BOOLEAN]
        /\ PubsSound(disk.pubs, published)
    BY TreeFacts, TreeFields
  <2>2. PublicationsOf(disk.pubs, disk.signal.run) = {}
    BY <1>5 DEF PublicationKnown
  <2>3. /\ pubs \in [pubs : SUBSET [run : Run, stamp : Nat], acks : SUBSET Run,
                     torn : BOOLEAN, junk : BOOLEAN]
        /\ PubsSound(pubs, published) /\ PubsKept(disk.pubs, pubs)
        /\ pubs = after => PublicationsOf(pubs, disk.signal.run) # {} \/ pubs.junk
    <3>1. CASE pubs = after
      BY <1>3, <2>1, <2>2, <3>1, TreeFacts, PublicationAppended
    <3>2. CASE pubs # after
      <4>1. /\ pubs.pubs = disk.pubs.pubs /\ pubs.acks = disk.pubs.acks
            /\ pubs.junk = disk.pubs.junk
            /\ pubs \in [pubs : SUBSET [run : Run, stamp : Nat], acks : SUBSET Run,
                         torn : BOOLEAN, junk : BOOLEAN]
        BY <1>5, <2>1, <3>2
      <4> QED
        BY <2>1, <3>2, <4>1 DEF PubsSound, OnePublication, Acked, PubsKept
    <3> QED
      BY <3>1, <3>2
  <2>4. /\ disk' \in Tree /\ disk'.signal = disk.signal /\ disk'.pubs = pubs
        /\ disk'.runs = disk.runs /\ disk'.snapshots = disk.snapshots
        /\ disk'.records = disk.records /\ disk'.status = disk.status
    BY <1>5, <2>3, TreeFacts, PubsWritten
  <2>5. LedgerSound(disk') /\ LedgerKept(disk, disk')
    BY <2>4, SameLedger, TreeFacts
  <2>6. Backed(disk')
    BY <1>3, <2>4, <2>5, TreeFacts, BackedKept DEF Backed
  <2>7. Kept(head, disk')
    BY <2>3, <2>4, <2>5, TreeFacts, KeptTransitive DEF Kept
  <2>8. TreesSound'
    BY <1>2, <2>3, <2>4, <2>5, <2>6, <2>7, TreeFacts DEF TreesSound, TreeSound
  <2>9. TypeOK'
    BY <1>1, <1>2, <1>5, <2>4, TreeFacts, PublishTypes DEF TypeOK
  <2>10. PublishSound'
    BY <1>1, <1>2, <1>5, <2>3, <2>4 DEF PublishSound, Finalizing, Recorded
  <2>11. FinalSignals' \subseteq FinalSignals
    BY <1>2, <2>4 DEF FinalSignals
  <2> QED
    BY <1>1, <1>2, <1>5, <2>8, <2>9, <2>10, <2>11, KeptReflexive, PublishStep
       DEF StampsSound, Before, Phase1
<1> QED
  <2>1. CASE ~PublicationKnown /\ disk' = [disk EXCEPT !.pubs = after]
             /\ pc' = "ledger" /\ failed' = failed /\ faults' = faults
    BY <1>5, <2>1
  <2>2. CASE /\ ~PublicationKnown /\ faults' = faults + 1
             /\ \E pubs \in BadAppends(after) : disk' = [disk EXCEPT !.pubs = pubs]
             /\ pc' = "ledger" /\ failed' = TRUE
    BY <1>5, <2>2 DEF BadAppends
  <2> HIDE DEF after
  <2> QED
    BY <1>4, <2>1, <2>2 DEF WritePublication, Fault, FailStep, after

LEMMA PushLedgerKeeps ==
    ASSUME WorkflowInv, PushLedger
    PROVE  WorkflowInv'
<1>1. TypeOK /\ PublishSound /\ StampsSound /\ pc = "ledger"
  BY DEF WorkflowInv, PushLedger
<1> DEFINE tree == Ledger(head, disk)
<1>2. /\ tree \in Tree /\ tree.signal = head.signal /\ tree.pubs = disk.pubs
      /\ tree.runs = disk.runs /\ tree.snapshots = disk.snapshots
      /\ tree.records = disk.records /\ tree.status = disk.status
  BY TreeFacts DEF Ledger, Tree
<1>3. /\ \/ Push(tree) /\ faults' = faults
         \/ EndJob("failed", remote) /\ remote' = remote /\ faults' = faults + 1
            /\ published' = published
      /\ Push(tree) => \/ failed /\ EndJob("failed", tree)
                       \/ /\ ~failed /\ head' = tree /\ pc' = "final" /\ disk' = disk
                          /\ failed' = failed /\ job' = job /\ result' = result
                       \/ EndJob("failed", remote) /\ remote' = remote
                          /\ faults' = faults + 1 /\ published' = published
      /\ clock' = clock /\ accepted' = accepted /\ attempts' = attempts
  BY DEF PushLedger, Fault, world, jobVars
<1> HIDE DEF tree
<1>4. LedgerSound(tree) /\ LedgerKept(disk, tree) /\ LedgerKept(tree, disk)
  BY <1>2, SameLedger, TreeFacts
<1>5. Kept(head, tree) /\ Kept(remote, tree) /\ Kept(tree, disk)
  <2>1. Kept(disk, tree) /\ Kept(tree, disk)
    BY <1>2, <1>4 DEF Kept, PubsKept
  <2> QED
    BY <2>1, TreeFacts, KeptTransitive
<1>6. Backed(tree)
  BY <1>2, <1>5, TreeFacts, TreeFields, BackedKept DEF Backed, Kept, Signal
<1>7. Recorded(tree, tree.pubs)
  BY <1>2, <1>5, TreeFacts DEF Recorded, Kept, PubsKept, PublicationsOf
<1>8. PubsSound(tree.pubs, published)
  BY <1>2, TreeFacts
<1>9. CASE EndJob("failed", remote) /\ remote' = remote /\ faults' = faults + 1
           /\ published' = published
  BY <1>3, <1>9, JobLost
<1>10. CASE Push(tree) /\ EndJob("failed", tree) /\ faults' = faults
  BY <1>2, <1>3, <1>4, <1>5, <1>6, <1>7, <1>8, <1>10, PushEffect, PubsSoundGrows, JobEnds
<1>11. CASE /\ Push(tree) /\ ~failed /\ head' = tree /\ pc' = "final" /\ disk' = disk
            /\ failed' = failed /\ job' = job /\ result' = result /\ faults' = faults
  <2>1. /\ remote' = tree /\ published \subseteq published'
        /\ published' \subseteq Signal /\ \A s \in published' : Final(s)
    BY <1>2, <1>11, PushEffect, PushedTyped
  <2>2. TypeOK'
    BY <1>1, <1>2, <1>3, <1>11, <2>1, TreeFacts, PublishTypes
  <2>3. TreesSound'
    BY <1>2, <1>4, <1>5, <1>6, <1>8, <1>11, <2>1, TreeFacts, PubsSoundGrows, KeptReflexive
       DEF TreesSound, TreeSound
  <2>4. PublishSound'
    BY <1>1, <1>7, <1>11, <2>1, TreeFacts DEF PublishSound, Finalizing
  <2>5. FinalSignals' \subseteq FinalSignals
    BY <1>2, <1>3, <1>11, <2>1, PushEffect DEF FinalSignals
  <2> QED
    BY <1>1, <1>3, <1>5, <1>11, <2>1, <2>2, <2>3, <2>4, <2>5, PublishStep
       DEF StampsSound, Before, Phase1
<1> QED
  BY <1>3, <1>9, <1>10, <1>11

LEMMA PushFinalKeeps ==
    ASSUME WorkflowInv, PushFinal
    PROVE  WorkflowInv'
<1>1. TypeOK /\ PublishSound /\ StampsSound /\ pc = "final" /\ Final(disk.signal)
  BY DEF WorkflowInv, PushFinal, PublishSound
<1>2. clock' = clock /\ accepted' = accepted /\ attempts' = attempts
  BY DEF PushFinal, world, jobVars
<1>3. Recorded(disk, disk.pubs)
  BY <1>1, TreeFacts DEF Finalizing
<1>4. CASE EndJob("failed", remote) /\ remote' = remote /\ faults' = faults + 1
           /\ published' = published
  BY <1>2, <1>4, JobLost
<1>5. CASE /\ Push(disk) /\ head' = disk /\ pc' = "ack" /\ disk' = disk
           /\ failed' = failed /\ job' = job /\ result' = result /\ faults' = faults
  <2>1. /\ remote' = disk /\ published \subseteq published' /\ disk.signal \in published'
        /\ published' \subseteq Signal /\ \A s \in published' : Final(s)
    BY <1>1, <1>5, PushEffect, PushedTyped, TreeFacts
  <2>2. TypeOK'
    BY <1>1, <1>2, <1>5, <2>1, TreeFacts, PublishTypes
  <2>3. TreesSound'
    BY <1>5, <2>1, TreeFacts, PubsSoundGrows, KeptReflexive DEF TreesSound, TreeSound
  <2>4. PublishSound'
    BY <1>1, <1>3, <1>5, <2>1 DEF PublishSound, Finalizing
  <2>5. FinalSignals' \subseteq FinalSignals
    BY <1>2, <1>5, <2>1, PushEffect DEF FinalSignals
  <2> QED
    BY <1>1, <1>2, <1>5, <2>1, <2>2, <2>3, <2>4, <2>5, TreeFacts, PublishStep
       DEF StampsSound, Before, Phase1
<1> QED
  BY <1>4, <1>5 DEF PushFinal, Fault, jobVars

LEMMA AckPublicationKeeps ==
    ASSUME WorkflowInv, AckPublication
    PROVE  WorkflowInv'
<1>1. /\ TypeOK /\ PublishSound /\ StampsSound /\ pc = "ack" /\ Final(disk.signal)
      /\ head.signal = disk.signal /\ disk.signal \in published
  BY DEF WorkflowInv, PublishSound, AckPublication
<1>2. /\ remote' = remote /\ published' = published
      /\ attempts' = attempts /\ clock' = clock /\ accepted' = accepted
  BY DEF AckPublication, world, jobVars
<1>3. disk.signal \in Signal /\ disk.signal.run \in Run
  BY <1>1, TreeFacts, TreeFields DEF Final, Signal
<1>4. Recorded(disk, disk.pubs)
  BY <1>1, TreeFacts DEF Finalizing
<1>5. CASE EndJob("failed", remote) /\ faults' \in {faults, faults + 1}
  BY <1>2, <1>5, JobLost
<1>6. ASSUME NEW pubs \in {disk.pubs, WithAck(disk.pubs, disk.signal.run)},
             disk' = [disk EXCEPT !.pubs = pubs],
             pubs = disk.pubs => AckKnown,
             pc' = "push_ack", head' = head, failed' = failed, job' = job,
             result' = result, faults' = faults
      PROVE  WorkflowInv'
  <2>1. disk.pubs \in [pubs : SUBSET [run : Run, stamp : Nat], acks : SUBSET Run,
                       torn : BOOLEAN, junk : BOOLEAN]
        /\ PubsSound(disk.pubs, published)
    BY TreeFacts, TreeFields
  <2>2. /\ pubs \in [pubs : SUBSET [run : Run, stamp : Nat], acks : SUBSET Run,
                     torn : BOOLEAN, junk : BOOLEAN]
        /\ pubs.pubs = disk.pubs.pubs /\ (disk.pubs.junk => pubs.junk)
        /\ pubs.acks \subseteq disk.pubs.acks \union {disk.signal.run}
        /\ disk.signal.run \in pubs.acks \/ pubs.junk
    <3>1. CASE pubs = disk.pubs
      BY <1>6, <2>1, <3>1 DEF AckKnown
    <3>2. CASE pubs = WithAck(disk.pubs, disk.signal.run)
      <4>1. CASE disk.pubs.torn
        <5>1. pubs = [disk.pubs EXCEPT !.torn = FALSE, !.junk = TRUE]
          BY <3>2, <4>1 DEF WithAck, Joined
        <5> QED
          BY <2>1, <5>1
      <4>2. CASE ~disk.pubs.torn
        <5>1. pubs = [disk.pubs EXCEPT !.acks = disk.pubs.acks \union {disk.signal.run}]
          BY <3>2, <4>2 DEF WithAck
        <5> QED
          BY <1>3, <2>1, <5>1
      <4> QED
        BY <4>1, <4>2
    <3> QED
      BY <3>1, <3>2
  <2>3. PubsSound(pubs, published) /\ PubsKept(disk.pubs, pubs)
    BY <1>1, <2>1, <2>2 DEF PubsSound, OnePublication, Acked, PubsKept
  <2>4. /\ disk' \in Tree /\ disk'.signal = disk.signal /\ disk'.pubs = pubs
        /\ disk'.runs = disk.runs /\ disk'.snapshots = disk.snapshots
        /\ disk'.records = disk.records /\ disk'.status = disk.status
    BY <1>6, <2>2, TreeFacts, PubsWritten
  <2>5. LedgerSound(disk') /\ LedgerKept(disk, disk')
    BY <2>4, SameLedger, TreeFacts
  <2>6. Backed(disk')
    BY <1>3, <2>4, <2>5, TreeFacts, BackedKept DEF Backed
  <2>7. Kept(head, disk')
    BY <2>3, <2>4, <2>5, TreeFacts, KeptTransitive DEF Kept
  <2>8. TreesSound'
    BY <1>2, <1>6, <2>3, <2>4, <2>5, <2>6, <2>7, TreeFacts DEF TreesSound, TreeSound
  <2>9. TypeOK'
    BY <1>1, <1>2, <1>6, <2>4, TreeFacts, PublishTypes DEF TypeOK
  <2>10. Recorded(disk', disk'.pubs)
    BY <1>4, <2>2, <2>4 DEF Recorded, PublicationsOf
  <2>11. PublishSound'
    BY <1>1, <1>2, <1>6, <2>2, <2>4, <2>10 DEF PublishSound, Finalizing
  <2>12. FinalSignals' \subseteq FinalSignals
    BY <1>2, <1>6, <2>4 DEF FinalSignals
  <2> QED
    BY <1>1, <1>2, <1>6, <2>8, <2>9, <2>11, <2>12, KeptReflexive, PublishStep
       DEF StampsSound, Before, Phase1
<1>7. CASE AckKnown /\ disk' = disk /\ pc' = "push_ack" /\ head' = head
           /\ failed' = failed /\ job' = job /\ result' = result /\ faults' = faults
  <2>1. disk' = [disk EXCEPT !.pubs = disk.pubs]
    BY <1>7, TreeFacts DEF Tree
  <2> QED
    BY <1>6, <1>7, <2>1
<1>8. CASE /\ ~AckKnown /\ disk' = [disk EXCEPT !.pubs = WithAck(disk.pubs, disk.signal.run)]
           /\ pc' = "push_ack" /\ head' = head
           /\ failed' = failed /\ job' = job /\ result' = result /\ faults' = faults
  <2>1. CASE WithAck(disk.pubs, disk.signal.run) # disk.pubs
    BY <1>6, <1>8, <2>1
  <2>2. CASE WithAck(disk.pubs, disk.signal.run) = disk.pubs
    <3>1. disk.pubs \in [pubs : SUBSET [run : Run, stamp : Nat], acks : SUBSET Run,
                         torn : BOOLEAN, junk : BOOLEAN]
      BY TreeFacts, TreeFields
    <3>2. disk.pubs.torn
      BY <1>8, <2>2, <3>1 DEF WithAck, AckKnown
    <3>3. disk.pubs = [disk.pubs EXCEPT !.torn = FALSE, !.junk = TRUE]
      BY <2>2, <3>2 DEF WithAck, Joined
    <3> QED
      BY <3>1, <3>2, <3>3
  <2> QED
    BY <2>1, <2>2
<1> QED
  BY <1>5, <1>7, <1>8 DEF AckPublication, Fault, jobVars

(* What a job that succeeds leaves is valid, but for the exceptions.       *)
LEMMA GreenIsValid ==
    ASSUME NEW tree \in Tree, Final(tree.signal), Backed(tree), NEW last,
           Sealed(tree.signal, last), Recorded(tree, tree.pubs),
           tree.signal.run \in tree.pubs.acks \/ tree.pubs.junk
    PROVE  \/ Valid(tree, tree.signal, IntendedSession(tree.signal))
           \/ PublishedBefore(tree)
           \/ RecordsFail(tree.records, tree.signal.run)
           \/ tree.pubs.junk
<1> DEFINE s == tree.signal
           all == PublicationsOf(tree.pubs, s.run)
<1> SUFFICES ASSUME ~PublishedBefore(tree), ~RecordsFail(tree.records, s.run),
                    ~tree.pubs.junk
             PROVE  Valid(tree, s, IntendedSession(s))
  OBVIOUS
<1>1. s # None /\ s.status = "published" /\ s \in Signal /\ s.stamp \in Nat
  BY TreeFields DEF Final, Signal
<1>2. ~FieldsMissing(s) /\ ~NotPublished(s) /\ ~HashBad(s) /\ ~Stale(s, IntendedSession(s))
  BY <1>1 DEF FieldsMissing, NotPublished, HashBad, Stale, Sealed, NoStamp
<1>3. all # {} /\ \A p \in all : p.stamp = s.stamp
  BY DEF Recorded, PublishedBefore
<1>4. Publication(tree.pubs, s.run) \in all
  BY <1>1, <1>3 DEF Publication
<1>5. ~PublicationBad(tree, s)
  BY <1>3, <1>4 DEF PublicationBad
<1>6. BackedBy(tree, s.run, s.cands)
  BY <1>1 DEF Backed
<1>7. ~LedgerIncomplete(tree, s)
  BY <1>6 DEF BackedBy, LedgerIncomplete, HasRun, IdsOf
<1>8. ~CandidatesBad(tree, s)
  BY <1>6 DEF BackedBy, CandidatesBad
<1> QED
  BY <1>2, <1>5, <1>7, <1>8 DEF Valid

LEMMA PushAckKeeps ==
    ASSUME WorkflowInv, PushAck
    PROVE  WorkflowInv'
<1>1. /\ PublishSound /\ StampsSound /\ pc = "push_ack" /\ Final(disk.signal)
      /\ head.signal = disk.signal /\ disk.signal \in published
      /\ disk.signal.run \in disk.pubs.acks \/ disk.pubs.junk
  BY DEF WorkflowInv, PublishSound, PushAck
<1> DEFINE tree == [head EXCEPT !.pubs = disk.pubs]
<1>2. /\ tree \in Tree /\ tree.signal = disk.signal /\ tree.pubs = disk.pubs
      /\ tree.runs = head.runs /\ tree.snapshots = head.snapshots
      /\ tree.records = head.records /\ tree.status = head.status
  BY <1>1, TreeFacts, TreeFields, PubsWritten
<1>3. /\ \/ Push(tree) /\ EndJob("green", tree) /\ faults' = faults
         \/ EndJob("failed", remote) /\ remote' = remote /\ faults' = faults + 1
            /\ published' = published
      /\ clock' = clock /\ accepted' = accepted /\ attempts' = attempts
  BY DEF PushAck, Fault, world
<1> HIDE DEF tree
<1>4. LedgerSound(tree) /\ LedgerKept(head, tree)
  BY <1>2, SameLedger, TreeFacts
<1>5. Kept(remote, tree)
  <2>1. LedgerKept(remote, tree)
    BY <1>4, TreeFacts DEF Kept, LedgerKept
  <2> QED
    BY <1>2, <2>1, TreeFacts DEF Kept
<1>6. Backed(tree)
  BY <1>1, <1>2, <1>4, TreeFacts, TreeFields, BackedKept DEF Backed, Signal
<1>7. Recorded(tree, tree.pubs) /\ PubsSound(tree.pubs, published)
  BY <1>1, <1>2, TreeFacts DEF Recorded, Finalizing
<1>8. Sealed(tree.signal, attempts)
  BY <1>1, <1>2 DEF StampsSound, FinalSignals
<1>9. CASE Push(tree) /\ EndJob("green", tree) /\ faults' = faults
  <2>1. remote' = tree
    BY <1>9, PushEffect
  <2>2. GreenMeansValid'
    BY <1>1, <1>2, <1>6, <1>7, <1>8, <2>1, GreenIsValid DEF GreenMeansValid
  <2> QED
    BY <1>2, <1>3, <1>4, <1>5, <1>6, <1>7, <1>9, <2>1, <2>2,
       PushEffect, PubsSoundGrows, JobEnds
<1>10. CASE EndJob("failed", remote) /\ remote' = remote /\ faults' = faults + 1
            /\ published' = published
  BY <1>3, <1>10, JobLost
<1> QED
  BY <1>3, <1>9, <1>10

LEMMA KillStepKeeps ==
    ASSUME WorkflowInv, KillStep
    PROVE  WorkflowInv'
<1>1. /\ TypeOK /\ PublishSound /\ StampsSound /\ pc # "idle"
      /\ pc \in Before \union {"publish"}
  BY DEF WorkflowInv, KillStep, Before, Phase1
<1>2. /\ remote' = remote /\ head' = head /\ disk' = disk /\ job' = job
      /\ result' = result /\ attempts' = attempts /\ published' = published
      /\ clock' = clock /\ accepted' = accepted
      /\ pc' = "ledger" /\ failed' = TRUE /\ faults' = faults + 1
  BY DEF KillStep, FailStep, Fault, trees, jobVars, world
<1>3. TypeOK'
  BY <1>1, <1>2, TreeFacts, PublishTypes DEF TypeOK
<1>4. TreesSound'
  BY <1>2, TreeFacts DEF TreesSound, TreeSound
<1>5. PublishSound'
  BY <1>1, <1>2 DEF PublishSound, Finalizing, Recorded
<1>6. FinalSignals' \subseteq FinalSignals
  BY <1>2 DEF FinalSignals
<1> QED
  BY <1>1, <1>2, <1>3, <1>4, <1>5, <1>6, KeptReflexive, PublishStep
     DEF StampsSound, Before, Phase1

-----------------------------------------------------------------------------
(* The start of a job, and the world.                                      *)
LEMMA JobStarts ==
    ASSUME WorkflowInv, pc = "idle", TypeOK', pc' \in {"status", "draft"},
           remote' = remote, head' = head, disk' = disk, published' = published,
           accepted' = accepted, attempts' = attempts + 1, result' = "none",
           failed' = failed
    PROVE  WorkflowInv'
<1>1. TypeOK /\ PublishSound /\ StampsSound /\ AcceptedSound
  BY DEF WorkflowInv
<1>2. TreesSound'
  BY TreeFacts DEF TreesSound, TreeSound
<1>3. JobSound'
  BY DEF JobSound, Writing
<1>4. PublishSound'
  BY <1>1 DEF PublishSound, Finalizing, Recorded
<1>5. FinalSignals' = FinalSignals /\ attempts \in Nat
  BY <1>1 DEF FinalSignals, TypeOK
<1>6. \A s \in FinalSignals : Sealed(s, attempts) /\ s.stamp \in 1..attempts
  BY <1>1 DEF StampsSound, Sealed
<1>7. \A s \in FinalSignals : Sealed(s, attempts + 1) /\ s.stamp < attempts + 1
  BY <1>5, <1>6 DEF Sealed
<1>8. StampsSound'
  BY <1>1, <1>5, <1>7 DEF StampsSound
<1>9. AcceptedSound' /\ GreenMeansValid'
  BY <1>1 DEF AcceptedSound, GreenMeansValid
<1> QED
  BY <1>2, <1>3, <1>4, <1>8, <1>9 DEF WorkflowInv

LEMMA StartKeeps ==
    ASSUME WorkflowInv, NEW in \in Input, Start(in)
    PROVE  WorkflowInv'
<1>1. TypeOK /\ pc = "idle"
  BY DEF WorkflowInv, Start
<1>2. /\ remote' = remote /\ head' = head /\ disk' = disk /\ published' = published
      /\ accepted' = accepted /\ attempts' = attempts + 1 /\ result' = "none"
      /\ failed' = failed /\ faults' = faults /\ clock' = clock /\ pc' = "status"
      /\ job' = [att |-> attempts + 1, ver |-> in.ver, cands |-> in.cands,
                 run |-> [session |-> clock, manifest |-> in.manifest],
                 signal |-> {}]
  BY DEF Start, trees, world
<1>3. /\ in.ver \in [Ticker -> Version] /\ in.cands \in SUBSET Key
      /\ in.manifest \in Manifest
  BY SignalAssumption
<1>4. clock \in 1..MaxSession /\ attempts \in Nat
  BY <1>1 DEF TypeOK
<1>5. /\ job' \in [att : Nat, ver : [Ticker -> Version], cands : SUBSET Key,
                   run : Run, signal : SUBSET CandidateType]
      /\ job'.att = attempts'
  BY <1>2, <1>3, <1>4 DEF Run
<1>6. JobOK'
  BY <1>2, <1>4, <1>5 DEF JobOK
<1>7. TypeOK'
  BY <1>1, <1>2, <1>4, <1>6 DEF TypeOK, Stage
<1> QED
  BY <1>1, <1>2, <1>7, JobStarts

LEMMA StartBacktestKeeps ==
    ASSUME WorkflowInv, StartBacktest
    PROVE  WorkflowInv'
<1>1. TypeOK /\ pc = "idle"
  BY DEF WorkflowInv, StartBacktest
<1>2. /\ remote' = remote /\ head' = head /\ disk' = disk /\ published' = published
      /\ accepted' = accepted /\ attempts' = attempts + 1 /\ result' = "none"
      /\ failed' = failed /\ faults' = faults /\ clock' = clock /\ pc' = "draft"
      /\ job' = [att |-> attempts + 1]
  BY DEF StartBacktest, trees, world
<1>3. JobOK'
  BY <1>1, <1>2 DEF TypeOK, JobOK, Phase1
<1>4. TypeOK'
  BY <1>1, <1>2, <1>3 DEF TypeOK, Stage
<1> QED
  BY <1>1, <1>2, <1>4, JobStarts

(* An execution buys from the signal whose record is in the publications.  *)
LEMMA ExecuteKeeps ==
    ASSUME WorkflowInv, NEW session, Execute(session)
    PROVE  WorkflowInv'
<1>1. TypeOK /\ PublishSound /\ StampsSound /\ AcceptedSound /\ GreenMeansValid /\ JobSound
  BY DEF WorkflowInv
<1> DEFINE s == remote.signal
<1>2. /\ Final(s) /\ s \in Signal /\ Valid(remote, s, session)
      /\ accepted' = accepted \union {s}
  BY TreeFacts, TreeFields DEF Execute, Final
<1>3. /\ remote' = remote /\ head' = head /\ disk' = disk /\ published' = published
      /\ pc' = pc /\ job' = job /\ failed' = failed /\ result' = result
      /\ clock' = clock /\ attempts' = attempts /\ faults' = faults
  BY DEF Execute, trees
<1>4. [run |-> s.run, stamp |-> s.stamp] \in remote.pubs.pubs
  <2> DEFINE all == PublicationsOf(remote.pubs, s.run)
  <2>1. all # {} /\ Publication(remote.pubs, s.run).stamp = s.stamp
    BY <1>2 DEF Valid, PublicationBad
  <2>2. all \subseteq [run : Run, stamp : Nat] /\ \A p, q \in all : p = q
    BY TreeFacts, TreeFields DEF PubsSound, OnePublication, PublicationsOf
  <2>3. PICK p \in all : TRUE
    BY <2>1
  <2>4. p \in all /\ \A q \in all : q.stamp <= p.stamp
    BY <2>2, <2>3
  <2>5. Publication(remote.pubs, s.run) \in all
    BY <2>4 DEF Publication
  <2>6. p.stamp = s.stamp /\ p.run = s.run /\ p \in [run : Run, stamp : Nat]
    BY <2>1, <2>2, <2>3, <2>5 DEF PublicationsOf
  <2>7. p = [run |-> s.run, stamp |-> s.stamp]
    BY <2>6
  <2> QED
    BY <2>3, <2>7 DEF PublicationsOf
<1> HIDE DEF s
<1>5. TypeOK'
  BY <1>1, <1>2, <1>3 DEF TypeOK, JobOK
<1>6. TreesSound' /\ JobSound'
  <2>1. TreesSound'
    BY <1>3, TreeFacts DEF TreesSound, TreeSound
  <2> QED
    BY <1>1, <1>3, <2>1, BatchSame DEF JobSound
<1>7. PublishSound' /\ GreenMeansValid' /\ AcceptedSound'
  <2>1. PublishSound'
    BY <1>1, <1>3 DEF PublishSound, Finalizing
  <2>2. GreenMeansValid'
    BY <1>1, <1>3, GreenKept
  <2> QED
    BY <1>1, <1>2, <1>3, <1>4, <2>1, <2>2 DEF AcceptedSound
<1>8. FinalSignals' \subseteq FinalSignals
  BY <1>2, <1>3 DEF FinalSignals, s
<1>9. StampsSound'
  BY <1>1, <1>2, <1>3, <1>8, StampsKept DEF StampsSound
<1> QED
  BY <1>5, <1>6, <1>7, <1>9 DEF WorkflowInv

LEMMA StutterKeeps ==
    ASSUME WorkflowInv, clock' \in 1..MaxSession,
           UNCHANGED <<trees, pc, job, failed, result, attempts, faults,
                       published, accepted>>
    PROVE  WorkflowInv'
<1>1. /\ remote' = remote /\ head' = head /\ disk' = disk /\ published' = published
      /\ pc' = pc /\ job' = job /\ failed' = failed /\ result' = result
      /\ attempts' = attempts /\ faults' = faults /\ accepted' = accepted
  BY DEF trees
<1>2. TypeOK /\ PublishSound /\ StampsSound /\ AcceptedSound /\ GreenMeansValid /\ JobSound
  BY DEF WorkflowInv
<1>3. TypeOK' /\ AcceptedSound' /\ GreenMeansValid'
  BY <1>1, <1>2, GreenKept DEF TypeOK, JobOK, AcceptedSound
<1>4. TreesSound' /\ PublishSound'
  BY <1>1, <1>2, TreeFacts DEF TreesSound, TreeSound, PublishSound, Finalizing
<1>5. JobSound'
  BY <1>1, <1>2, BatchSame DEF JobSound
<1>6. FinalSignals' = FinalSignals
  BY <1>1 DEF FinalSignals
<1>7. StampsSound'
  BY <1>1, <1>2, <1>6, StampsKept DEF StampsSound
<1> QED
  BY <1>3, <1>4, <1>5, <1>7 DEF WorkflowInv

LEMMA TickKeeps ==
    ASSUME WorkflowInv, Tick
    PROVE  WorkflowInv'
<1>1. clock' \in 1..MaxSession
  BY SignalAssumption DEF WorkflowInv, TypeOK, Tick
<1> QED
  BY <1>1, StutterKeeps DEF Tick

-----------------------------------------------------------------------------
LEMMA InitSound == Init => WorkflowInv
<1> SUFFICES ASSUME Init PROVE WorkflowInv
  OBVIOUS
<1>1. /\ remote = EmptyTree /\ head = EmptyTree /\ disk = EmptyTree
      /\ pc = "idle" /\ failed = FALSE /\ result = "none"
      /\ clock = 1 /\ attempts = 0 /\ faults = 0 /\ published = {} /\ accepted = {}
  BY DEF Init
<1>2. EmptyLedger \in LedgerType(RunId) /\ EmptyLedger \in LedgerType(SnapshotId)
      /\ EmptyLedger \in LedgerType(RecordId)
  BY DEF EmptyLedger, LedgerType
<1>3. EmptyTree \in Tree
  BY <1>2 DEF EmptyTree, Tree, Status, NoPublications
<1>4. TypeOK
  <2>1. JobOK /\ pc \in Stage
    BY <1>1 DEF JobOK, Stage, Phase1
  <2>2. clock \in 1..MaxSession
    BY <1>1, SignalAssumption
  <2> QED
    BY <1>1, <1>3, <2>1, <2>2 DEF TypeOK
<1>5. TreeSound(EmptyTree, {})
  <2>1. LedgerSound(EmptyTree)
    BY DEF EmptyTree, EmptyLedger, LedgerSound, IndexBacked, RecordsBacked,
           CompletedHasRun, IdsOf
  <2>2. PubsSound(EmptyTree.pubs, {})
    BY DEF EmptyTree, NoPublications, PubsSound, OnePublication, Acked
  <2> QED
    BY <2>1, <2>2 DEF TreeSound, Backed, EmptyTree
<1>6. TreesSound
  BY <1>1, <1>5, KeptReflexive DEF TreesSound
<1>7. JobSound /\ AcceptedSound /\ GreenMeansValid
  BY <1>1 DEF JobSound, Writing, AcceptedSound, GreenMeansValid
<1>8. ~Final(EmptyTree.signal)
  BY DEF EmptyTree, Final
<1>9. PublishSound
  BY <1>1, <1>8 DEF PublishSound, Recorded
<1>10. StampsSound
  BY <1>1, <1>8 DEF StampsSound, FinalSignals
<1> QED
  BY <1>4, <1>6, <1>7, <1>9, <1>10 DEF WorkflowInv

LEMMA StepSound == WorkflowInv /\ [Next]_vars => WorkflowInv'
<1> SUFFICES ASSUME WorkflowInv, [Next]_vars PROVE WorkflowInv'
  OBVIOUS
<1>1. CASE UNCHANGED vars
  <2>1. clock' \in 1..MaxSession
    BY <1>1 DEF vars, WorkflowInv, TypeOK
  <2> QED
    BY <1>1, <2>1, StutterKeeps DEF vars
<1>2. CASE \E in \in Input : Start(in)
  BY <1>2, StartKeeps
<1>3. CASE JobStep
  BY <1>3, CheckStatusKeeps, WriteSignalRunKeeps, SetPendingKeeps,
     WriteFeatureSnapshotsKeeps, WriteSignalRecordsKeeps, SetCompletedKeeps,
     SetFailedKeeps, SaveSignalKeeps, PushDraftKeeps, FinalizeSignalKeeps,
     WritePublicationKeeps, PushLedgerKeeps, PushFinalKeeps, AckPublicationKeeps,
     PushAckKeeps DEF JobStep
<1>4. CASE StartBacktest \/ KillStep \/ LoseRunner \/ Tick
  BY <1>4, StartBacktestKeeps, KillStepKeeps, LoseRunnerKeeps, TickKeeps
<1>5. CASE \E session \in {clock, clock + 1} : Execute(session)
  BY <1>5, ExecuteKeeps
<1> QED
  BY <1>1, <1>2, <1>3, <1>4, <1>5 DEF Next

(* The trees back their signals and indexes, a job relies on what it has   *)
(* written, and no two finalized signals have one stamp, in every reachable*)
(* state (signal.yml, ledger.py, publication.py).                          *)
THEOREM WorkflowInvariance == Spec => []WorkflowInv
<1>1. Init => WorkflowInv
  BY InitSound
<1>2. WorkflowInv /\ [Next]_vars => WorkflowInv'
  BY StepSound
<1> QED
  BY <1>1, <1>2, PTL DEF Spec

(* A signal file is in no tree without its completed run, its run record,  *)
(* and the records and snapshots of its candidates.                        *)
THEOREM SignalsBacked == Spec => []SignalIsBacked
<1>1. WorkflowInv => SignalIsBacked
  BY DEF WorkflowInv, TreesSound, TreeSound, SignalIsBacked
<1> QED
  BY <1>1, WorkflowInvariance, PTL

(* No index lists a record that its file does not have.                    *)
THEOREM IndexesBacked == Spec => []IndexIsBacked
<1>1. WorkflowInv => IndexIsBacked
  BY DEF WorkflowInv, TreesSound, TreeSound, LedgerSound, IndexIsBacked
<1> QED
  BY <1>1, WorkflowInvariance, PTL

(* What is acknowledged was pushed.                                        *)
THEOREM AcknowledgedPushed == Spec => []AckedIsPushed
<1>1. WorkflowInv => AckedIsPushed
  BY DEF WorkflowInv, TreesSound, TreeSound, PubsSound, Acked, AckedIsPushed
<1> QED
  BY <1>1, WorkflowInvariance, PTL

(* Executions buy from one version of a run's signal.  They find its stamp *)
(* in the publication record of the run; there is one, which is not lost,  *)
(* and one signal has its stamp.                                           *)
THEOREM OneSignalBought == Spec => []OneSignalPerRun
<1>1. WorkflowInv => OneSignalPerRun
  <2> SUFFICES ASSUME WorkflowInv, NEW s \in accepted, NEW t \in accepted, s.run = t.run
               PROVE  s = t
    BY DEF OneSignalPerRun
  <2>1. s.stamp = t.stamp
    <3> DEFINE p == [run |-> s.run, stamp |-> s.stamp]
               q == [run |-> t.run, stamp |-> t.stamp]
    <3>1. p \in remote.pubs.pubs /\ q \in remote.pubs.pubs
      BY DEF WorkflowInv, AcceptedSound
    <3>2. p.run = q.run
      OBVIOUS
    <3>3. p = q
      BY <3>1, <3>2, TreeFacts DEF PubsSound, OnePublication
    <3> QED
      BY <3>3
  <2>2. s \in FinalSignals /\ t \in FinalSignals
    BY DEF WorkflowInv, StampsSound, FinalSignals
  <2> QED
    BY <2>1, <2>2 DEF WorkflowInv, StampsSound
<1> QED
  BY <1>1, WorkflowInvariance, PTL

(* After a job that succeeds, the signal validates, but for a publication  *)
(* record, doubled records or a torn line that earlier attempts left.      *)
THEOREM GreenValid == Spec => []GreenMeansValid
<1>1. WorkflowInv => GreenMeansValid
  BY DEF WorkflowInv
<1> QED
  BY <1>1, WorkflowInvariance, PTL
=============================================================================

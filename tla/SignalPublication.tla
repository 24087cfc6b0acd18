-------------------------- MODULE SignalPublication -------------------------
(***************************************************************************)
(* The signal workflow (.github/workflows/signal.yml): run_signal,         *)
(* run_finalize_signal and run_ack_publication of stock_bot.py with the    *)
(* pushes between them, and run_execute reading what was pushed.           *)
(*                                                                         *)
(* Each job works on a fresh checkout, and only what it pushes outlives    *)
(* it.  A step of it may fail, be killed, or be unable to push; the push   *)
(* of the ledger runs all the same.  A session's job may be started again, *)
(* and then sees the market data and the scores of that moment.            *)
(***************************************************************************)
EXTENDS SignalValidator

CONSTANTS
    Strategy, Ticker,
    Manifest,       \* hashes of the market data: part of the run id
    Version,        \* hashes of a ticker's features: not part of the run id
    Input,          \* what a job may see
    MaxSession, MaxAttempts,
    MaxFaults,      \* bound: failures, kills, refused pushes, lost runners
    None

Key == Strategy \X Ticker

(* make_signal_run_id, make_feature_snapshot_id and make_signal_id hash    *)
(* these.                                                                  *)
Run == [session : 1..MaxSession, manifest : Manifest]
RunId == [run : Run]
SnapshotId == [run : Run, key : Ticker, ver : Version]
RecordId == [run : Run, key : Key, ver : Version]

(* A candidate of a signal, and the signal file.                           *)
CandidateType == [key : Key, ver : Version, id : RecordId]
SignalStatus == {"draft", "published"}
Signal == [run : Run, status : SignalStatus, stamp : Nat,
           hash : {NoHash} \union (Run \X SignalStatus \X Nat \X SUBSET CandidateType),
           cands : SUBSET CandidateType]

ASSUME SignalAssumption ==
    /\ Input \subseteq [manifest : Manifest, ver : [Ticker -> Version],
                        cands : (SUBSET Key) \ {{}}]
    /\ MaxSession \in Nat \ {0} /\ MaxAttempts \in Nat /\ MaxFaults \in Nat
    /\ None \notin Signal

VARIABLES
    \* the files under data_v4
    remote,     \* as pushed
    head,       \* as committed in the workspace of the job
    disk,       \* in the workspace
    \* the job
    pc, job,
    failed,     \* a step has failed
    result,     \* how the last job ended
    \* the world
    clock,      \* the last session that has closed
    attempts, faults,
    \* history
    published,  \* finalized signals that were ever on remote
    accepted    \* signals that an execute run has bought from

trees == <<remote, head, disk>>
vars == <<trees, pc, job, failed, result, clock, attempts, faults,
          published, accepted>>

Status == {"none", "pending", "failed", "completed"}

EmptyTree ==
    [runs |-> EmptyLedger, snapshots |-> EmptyLedger, records |-> EmptyLedger,
     status |-> [r \in Run |-> "none"], pubs |-> NoPublications, signal |-> None]

(* What git add data_v4/ledger/ takes from the workspace.                  *)
Ledger(tree, from) == [from EXCEPT !.signal = tree.signal]

-----------------------------------------------------------------------------
(* What this attempt writes (build_signal_run_record,                      *)
(* build_all_ledger_records) and the candidates of its signal.             *)
RunRecord == {[id |-> [run |-> job.run], by |-> job.att]}

SnapshotRecords ==
    {[id |-> [run |-> job.run, key |-> t, ver |-> job.ver[t]], by |-> job.att] :
        t \in Ticker}

SignalId(key) == [run |-> job.run, key |-> key, ver |-> job.ver[key[2]]]

SignalRecords == {[id |-> SignalId(k), by |-> job.att] : k \in job.cands}

(* A candidate with its scores, of which only the version of its features  *)
(* matters, and the id embedded in it.                                     *)
Candidate(key, id) == [key |-> key, ver |-> job.ver[key[2]], id |-> id]

(* The id that the ledger has for a candidate.                             *)
LedgerId(key) ==
    (CHOOSE r \in RecordsOf(disk.records, job.run) : r.id.key = key).id

-----------------------------------------------------------------------------
Init ==
    /\ remote = EmptyTree /\ head = EmptyTree /\ disk = EmptyTree
    /\ pc = "idle" /\ job = None /\ failed = FALSE /\ result = "none"
    /\ clock = 1 /\ attempts = 0 /\ faults = 0
    /\ published = {} /\ accepted = {}

Fault == faults < MaxFaults /\ faults' = faults + 1

(* A step that fails skips to the push of the ledger, which runs always.   *)
FailStep == pc' = "ledger" /\ failed' = TRUE

(* The workspace goes with the job.                                        *)
EndJob(how, tree) ==
    /\ pc' = "idle" /\ result' = how /\ failed' = FALSE /\ job' = None
    /\ head' = tree /\ disk' = tree

Push(tree) ==
    /\ remote' = tree
    /\ published' = published \union
            {s \in {tree.signal} : s # None /\ s.status = "published"}

jobVars == <<job, result, attempts>>
world == <<clock, accepted>>

(* actions/checkout, last_completed_session, download and scoring.         *)
Start(in) ==
    /\ pc = "idle" /\ attempts < MaxAttempts
    /\ attempts' = attempts + 1
    /\ job' = [att |-> attempts + 1, ver |-> in.ver, cands |-> in.cands,
               run |-> [session |-> clock, manifest |-> in.manifest],
               signal |-> {}]
    /\ pc' = "status" /\ result' = "none"
    /\ UNCHANGED <<trees, failed, faults, published, world>>

(* The same workflow dispatched with mode backtest: its later phases find  *)
(* whatever signal file there is.                                          *)
StartBacktest ==
    /\ pc = "idle" /\ attempts < MaxAttempts
    /\ attempts' = attempts + 1
    /\ job' = [att |-> attempts + 1]
    /\ pc' = "draft" /\ result' = "none"
    /\ UNCHANGED <<trees, failed, faults, published, world>>

(* A run the ledger has completed takes the ids of the ledger, or fails.   *)
CheckStatus ==
    /\ pc = "status"
    /\ \/ /\ disk.status[job.run] # "completed"
          /\ pc' = "run" /\ UNCHANGED <<job, failed>>
       \/ /\ disk.status[job.run] = "completed"
          /\ RecordsFail(disk.records, job.run)
                \/ ~(job.cands \subseteq {r.id.key : r \in RecordsOf(disk.records, job.run)})
          /\ FailStep /\ UNCHANGED job
       \/ /\ disk.status[job.run] = "completed"
          /\ ~RecordsFail(disk.records, job.run)
          /\ job.cands \subseteq {r.id.key : r \in RecordsOf(disk.records, job.run)}
          /\ job' = [job EXCEPT !.signal =
                        {Candidate(k, LedgerId(k)) : k \in job.cands}]
          /\ pc' = "save" /\ UNCHANGED failed
    /\ UNCHANGED <<trees, result, attempts, faults, published, world>>

(* _append_batch, which goes on, refuses a batch that is known in part, or *)
(* is interrupted.  What becomes of the step then is up to the caller.     *)
Append(type, batch, newer, next, Refused) ==
    LET led == disk[type] IN
    \/ /\ IsRetry(led, batch, newer)
       /\ disk' = [disk EXCEPT ![type] = Opened(led, newer)]
       /\ pc' = next /\ UNCHANGED <<failed, faults>>
    \/ /\ Known(led, batch, newer) = {}
       /\ disk' = [disk EXCEPT ![type] = Extended(led, batch, newer)]
       /\ pc' = next /\ UNCHANGED <<failed, faults>>
    \/ /\ ~IsRetry(led, batch, newer) /\ IsPartial(led, batch, newer)
       /\ disk' = [disk EXCEPT ![type] = Opened(led, newer)]
       /\ Refused /\ UNCHANGED faults
    \/ /\ Known(led, batch, newer) = {} /\ Fault
       /\ \E after \in Interrupted(led, batch, newer) :
             disk' = [disk EXCEPT ![type] = after]
       /\ Refused

Handled == pc' = "failing" /\ UNCHANGED failed

WriteSignalRun ==
    /\ pc = "run"
    /\ \E newer \in BOOLEAN :
          Append("runs", RunRecord, newer, "pending", FailStep)
    /\ UNCHANGED <<remote, head, jobVars, published, world>>

SetStatus(status) == disk' = [disk EXCEPT !.status[job.run] = status]

SetPending ==
    /\ pc = "pending" /\ SetStatus("pending") /\ pc' = "snapshots"
    /\ UNCHANGED <<remote, head, jobVars, failed, faults, published, world>>

WriteFeatureSnapshots ==
    /\ pc = "snapshots"
    /\ \E newer \in BOOLEAN :
          Append("snapshots", SnapshotRecords, newer, "records", Handled)
    /\ UNCHANGED <<remote, head, jobVars, published, world>>

WriteSignalRecords ==
    /\ pc = "records"
    /\ \E newer \in BOOLEAN :
          Append("records", SignalRecords, newer, "complete", Handled)
    /\ UNCHANGED <<remote, head, jobVars, published, world>>

SetCompleted ==
    /\ pc = "complete" /\ SetStatus("completed") /\ pc' = "save"
    /\ job' = [job EXCEPT !.signal =
                  {Candidate(k, SignalId(k)) : k \in job.cands}]
    /\ UNCHANGED <<remote, head, failed, result, attempts, faults, published, world>>

(* The handler of LedgerWriteError.                                        *)
SetFailed ==
    /\ pc = "failing" /\ SetStatus("failed") /\ FailStep
    /\ UNCHANGED <<remote, head, jobVars, faults, published, world>>

SaveSignal ==
    /\ pc = "save"
    /\ disk' = [disk EXCEPT !.signal =
                  [run |-> job.run, status |-> "draft", stamp |-> NoStamp,
                   hash |-> NoHash, cands |-> job.signal]]
    /\ pc' = "draft"
    /\ UNCHANGED <<remote, head, jobVars, failed, faults, published, world>>

(* Phase 2.                                                                *)
PushDraft ==
    /\ pc = "draft" /\ head' = disk
    /\ \/ Push(disk) /\ pc' = "finalize" /\ UNCHANGED <<failed, faults>>
       \/ Fault /\ FailStep /\ UNCHANGED <<remote, published>>
    /\ UNCHANGED <<disk, jobVars, world>>

(* run_finalize_signal: the signal file, then the publication record.      *)
\* Mutant of Finalized: the hash is of the draft.
FinalizedHashFirst(s) ==
    [s EXCEPT !.status = "published", !.stamp = job.att, !.hash = ContentHash(s)]

Finalized(s) ==
    LET t == [s EXCEPT !.status = "published", !.stamp = job.att]
    IN  [t EXCEPT !.hash = ContentHash(t)]

FinalizeSignal ==
    /\ pc = "finalize"
    /\ \/ /\ disk.signal = None
          /\ FailStep /\ UNCHANGED disk
       \/ /\ disk.signal # None /\ disk.signal.status = "published"
          /\ pc' = "ledger" /\ UNCHANGED <<disk, failed>>
       \/ /\ disk.signal # None /\ disk.signal.status # "published"
          /\ disk' = [disk EXCEPT !.signal = Finalized(disk.signal)]
          /\ pc' = "publish" /\ UNCHANGED failed
    /\ UNCHANGED <<remote, head, jobVars, faults, published, world>>

(* How a line reaches signal_publications.jsonl, or does not: nothing, a   *)
(* part of it, all of it before the error.                                 *)
BadAppends(after) ==
    {disk.pubs, [disk.pubs EXCEPT !.torn = TRUE], after}

\* Mutant of PublicationKnown: a run that was published is published again.
PublicationKnownNever == FALSE

PublicationKnown == PublicationsOf(disk.pubs, disk.signal.run) # {}

WritePublication ==
    /\ pc = "publish"
    /\ LET after == WithPublication(disk.pubs,
                        [run |-> disk.signal.run, stamp |-> disk.signal.stamp])
       IN \/ /\ PublicationKnown
             /\ pc' = "ledger" /\ UNCHANGED <<disk, failed, faults>>
          \/ /\ ~PublicationKnown
             /\ disk' = [disk EXCEPT !.pubs = after]
             /\ pc' = "ledger" /\ UNCHANGED <<failed, faults>>
          \/ /\ ~PublicationKnown /\ Fault
             /\ \E pubs \in BadAppends(after) : disk' = [disk EXCEPT !.pubs = pubs]
             /\ FailStep
    /\ UNCHANGED <<remote, head, jobVars, published, world>>

(* Phase 3.5, always: the ledger, and what was committed before.           *)
PushLedger ==
    /\ pc = "ledger"
    /\ LET tree == Ledger(head, disk)
       IN \/ /\ Push(tree)
             /\ IF failed THEN EndJob("failed", tree) /\ UNCHANGED attempts
                ELSE /\ head' = tree /\ pc' = "final"
                     /\ UNCHANGED <<disk, failed, jobVars>>
             /\ UNCHANGED faults
          \/ /\ Fault /\ EndJob("failed", remote)
             /\ UNCHANGED <<remote, published, attempts>>
    /\ UNCHANGED world

(* Phase 4.                                                                *)
PushFinal ==
    /\ pc = "final"
    /\ \/ /\ Push(disk) /\ head' = disk /\ pc' = "ack"
          /\ UNCHANGED <<disk, failed, jobVars, faults>>
       \/ /\ Fault /\ EndJob("failed", remote)
          /\ UNCHANGED <<remote, published, attempts>>
    /\ UNCHANGED world

(* run_ack_publication.                                                    *)
\* Mutant of AckKnown: any record of the run counts.
AckKnownByRecord == PublicationsOf(disk.pubs, disk.signal.run) # {}

AckKnown == disk.signal.run \in disk.pubs.acks

AckPublication ==
    /\ pc = "ack"
    /\ \/ /\ AckKnown
          /\ pc' = "push_ack" /\ UNCHANGED <<disk, faults, head, failed, jobVars>>
       \/ /\ ~AckKnown /\ disk.pubs # NoPublications
          /\ disk' = [disk EXCEPT !.pubs = WithAck(@, disk.signal.run)]
          /\ pc' = "push_ack" /\ UNCHANGED <<faults, head, failed, jobVars>>
       \/ /\ ~AckKnown
          /\ disk.pubs = NoPublications \/ Fault
          /\ EndJob("failed", remote) /\ UNCHANGED attempts
          /\ disk.pubs = NoPublications => UNCHANGED faults
    /\ UNCHANGED <<remote, published, world>>

(* Phase 6: signal_publications.jsonl.                                     *)
PushAck ==
    /\ pc = "push_ack"
    /\ LET tree == [head EXCEPT !.pubs = disk.pubs]
       IN \/ /\ Push(tree) /\ EndJob("green", tree) /\ UNCHANGED faults
          \/ /\ Fault /\ EndJob("failed", remote)
             /\ UNCHANGED <<remote, published>>
    /\ UNCHANGED <<attempts, world>>

(* The process of the current step dies, or raises.                        *)
KillStep ==
    /\ pc \in {"status", "run", "pending", "snapshots", "records", "complete",
               "failing", "save", "finalize", "publish"}
    /\ Fault /\ FailStep
    /\ UNCHANGED <<trees, jobVars, published, world>>

LoseRunner ==
    /\ pc # "idle" /\ Fault /\ EndJob("failed", remote)
    /\ UNCHANGED <<remote, attempts, published, world>>

-----------------------------------------------------------------------------
Tick ==
    /\ clock < MaxSession /\ clock' = clock + 1
    /\ UNCHANGED <<trees, pc, job, failed, result, attempts, faults,
                   published, accepted>>

(* load_latest_signal and validate_signal in a run of run_execute, on the  *)
(* day after the last close or still on its day.                           *)
Execute(session) ==
    /\ remote.signal # None /\ remote.signal \notin accepted
    /\ remote.signal.status = "published"
    /\ Valid(remote, remote.signal, session)
    /\ accepted' = accepted \union {remote.signal}
    /\ UNCHANGED <<trees, pc, job, failed, result, clock, attempts, faults,
                   published>>

JobStep ==
    \/ CheckStatus \/ WriteSignalRun \/ SetPending \/ WriteFeatureSnapshots
    \/ WriteSignalRecords \/ SetCompleted \/ SetFailed \/ SaveSignal
    \/ PushDraft \/ FinalizeSignal \/ WritePublication \/ PushLedger
    \/ PushFinal \/ AckPublication \/ PushAck

Next ==
    \/ \E in \in Input : Start(in)
    \/ StartBacktest \/ JobStep \/ KillStep \/ LoseRunner
    \/ Tick \/ \E session \in {clock, clock + 1} : Execute(session)

Spec == Init /\ [][Next]_vars

-----------------------------------------------------------------------------
Stage == {"idle", "status", "run", "pending", "snapshots", "records", "complete",
          "failing", "save", "draft", "finalize", "publish", "ledger", "final",
          "ack", "push_ack"}

LedgerType(Id) ==
    [exists : BOOLEAN, recs : SUBSET [id : Id, by : Nat], torn : BOOLEAN,
     indexed : BOOLEAN, ids : SUBSET Id]

Tree == [runs : LedgerType(RunId), snapshots : LedgerType(SnapshotId),
         records : LedgerType(RecordId), status : [Run -> Status],
         pubs : [pubs : SUBSET [run : Run, stamp : Nat], acks : SUBSET Run,
                 torn : BOOLEAN, junk : BOOLEAN],
         signal : {None} \union Signal]

(* The attempt that a job is, and what phase 1 of it works on.             *)
Phase1 == {"status", "run", "pending", "snapshots", "records", "complete",
           "failing", "save"}

JobOK ==
    /\ pc # "idle" => job.att = attempts /\ attempts > 0
    /\ pc \in Phase1 =>
          job \in [att : Nat, ver : [Ticker -> Version], cands : SUBSET Key,
                  run : Run, signal : SUBSET CandidateType]

(* The types of the files, in each of the trees, and of the job.           *)
TypeOK ==
    /\ remote \in Tree /\ head \in Tree /\ disk \in Tree
    /\ pc \in Stage /\ failed \in BOOLEAN /\ JobOK
    /\ result \in {"none", "failed", "green"}
    /\ clock \in 1..MaxSession /\ attempts \in Nat /\ faults \in Nat
    /\ published \subseteq Signal /\ accepted \subseteq Signal

(* A signal file, draft or not, is in no tree without what the ledger has  *)
(* to hold of it: its run completed and recorded, a record for each        *)
(* candidate's id and the snapshot the record refers to.  Candidates'      *)
(* writes come first, a failure leaves no signal, and the ledger alone is  *)
(* pushed when a step failed (ledger.py, header).                          *)
BackedBy(tree, run, cands) ==
    /\ tree.status[run] = "completed"
    /\ [run |-> run] \in IdsOf(tree.runs.recs)
    /\ \A c \in cands :
          /\ c.id \in IdsOf(RecordsOf(tree.records, run))
          /\ c.id.key = c.key
          /\ [c.id EXCEPT !.key = c.id.key[2]] \in IdsOf(tree.snapshots.recs)

Backed(tree) ==
    tree.signal # None => BackedBy(tree, tree.signal.run, tree.signal.cands)

SignalIsBacked == Backed(remote) /\ Backed(head) /\ Backed(disk)

(* The index never lists a record that the file has lost; so a retry that  *)
(* is told "already there" is told the truth.                              *)
IndexBacked(tree) ==
    \A led \in {tree.runs, tree.snapshots, tree.records} :
        led.ids \subseteq IdsOf(led.recs)

IndexIsBacked == \A tree \in {remote, head, disk} : IndexBacked(tree)

(* However often the workflow of a run is repeated, executions buy from    *)
(* one version of its signal: later ones do not validate.                  *)
OneSignalPerRun == \A s, t \in accepted : s.run = t.run => s = t

(* publication_ack: the finalized signal file has been pushed.             *)
AckedIsPushed ==
    \A run \in remote.pubs.acks : \E s \in published : s.run = run

(* After a job that succeeded, the signal on remote validates for its      *)
(* session, unless an earlier attempt of the run left a publication        *)
(* record, two records of one strategy and ticker, or a torn line in the   *)
(* publications.                                                           *)
PublishedBefore(tree) ==
    \E p \in PublicationsOf(tree.pubs, tree.signal.run) :
        p.stamp # tree.signal.stamp

GreenMeansValid ==
    result = "green" =>
        \/ Valid(remote, remote.signal, IntendedSession(remote.signal))
        \/ PublishedBefore(remote)
        \/ RecordsFail(remote.records, remote.signal.run)
        \/ remote.pubs.junk
=============================================================================

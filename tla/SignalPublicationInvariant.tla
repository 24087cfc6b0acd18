--------------------- MODULE SignalPublicationInvariant ---------------------
(***************************************************************************)
(* The inductive invariant of SignalPublication: what the files of a tree  *)
(* promise of one another, what the workspace of a job adds to what was    *)
(* pushed, and what each stage of the job may rely on.                     *)
(***************************************************************************)
EXTENDS SignalPublication

Final(s) == s # None /\ s.status = "published"

(* Every record of a signal has the snapshot of its features.              *)
RecordsBacked(tree) ==
    \A r \in tree.records.recs :
        [r.id EXCEPT !.key = r.id.key[2]] \in IdsOf(tree.snapshots.recs)

CompletedHasRun(tree) ==
    \A run \in Run :
        tree.status[run] = "completed" => [run |-> run] \in IdsOf(tree.runs.recs)

(* A run is published once, and acknowledged after it was pushed.          *)
OnePublication(file) == \A p, q \in file.pubs : p.run = q.run => p = q

Acked(file, pushed) == \A run \in file.acks : \E s \in pushed : s.run = run

(* A finalized signal is of some attempt, and its hash is of itself.       *)
Sealed(s, last) == s.stamp \in 1..last /\ s.hash = ContentHash(s)

LedgerSound(tree) ==
    IndexBacked(tree) /\ RecordsBacked(tree) /\ CompletedHasRun(tree)

PubsSound(file, pushed) == OnePublication(file) /\ Acked(file, pushed)

TreeSound(tree, pushed) ==
    LedgerSound(tree) /\ Backed(tree) /\ PubsSound(tree.pubs, pushed)

(* What is pushed or committed is not lost while a job goes on.            *)
LedgerKept(tree, later) ==
    /\ tree.runs.recs \subseteq later.runs.recs
    /\ tree.snapshots.recs \subseteq later.snapshots.recs
    /\ tree.records.recs \subseteq later.records.recs
    /\ \A run \in Run :
          tree.status[run] = "completed" => later.status[run] = "completed"

PubsKept(file, later) ==
    file.pubs \subseteq later.pubs /\ (file.junk => later.junk)

Kept(tree, later) == LedgerKept(tree, later) /\ PubsKept(tree.pubs, later.pubs)

TreesSound ==
    /\ \A tree \in {remote, head, disk} : TreeSound(tree, published)
    /\ Kept(remote, head) /\ Kept(head, disk)

(* Phase 1: the run of the job is not completed before its records, and    *)
(* what it writes rests on what it has written.                            *)
Writing == {"run", "pending", "snapshots", "records", "complete", "failing"}

JobSound ==
    /\ pc \in Writing => disk.status[job.run] # "completed"
    /\ pc \in {"pending", "snapshots", "records", "complete"} =>
          [run |-> job.run] \in IdsOf(disk.runs.recs)
    /\ pc \in {"records", "complete"} =>
          IdsOf(SnapshotRecords) \subseteq IdsOf(disk.snapshots.recs)
    /\ pc = "complete" => IdsOf(SignalRecords) \subseteq IdsOf(disk.records.recs)
    /\ pc = "save" => BackedBy(disk, job.run, job.signal)

(* Phases 2 to 6: from the finalized signal to its acknowledgement.        *)
Recorded(tree, file) ==
    Final(tree.signal) =>
        PublicationsOf(file, tree.signal.run) # {} \/ file.junk

Finalizing == pc = "publish" \/ (pc = "ledger" /\ failed)

PublishSound ==
    /\ pc \in {"publish", "final", "ack", "push_ack"} => Final(disk.signal)
    /\ pc = "ledger" /\ ~failed => Final(disk.signal)
    /\ Recorded(remote, remote.pubs) /\ Recorded(head, head.pubs)
    /\ ~Finalizing => Recorded(disk, disk.pubs)
    /\ pc \in {"ack", "push_ack"} =>
          head.signal = disk.signal /\ disk.signal \in published
    /\ pc = "push_ack" => disk.signal.run \in disk.pubs.acks \/ disk.pubs.junk
    /\ result = "green" => pc = "idle"

(* An attempt finalizes one signal: until it does no signal has its stamp. *)
FinalSignals ==
    {s \in {remote.signal, head.signal, disk.signal} \union published \union accepted :
        Final(s)}

Before == Phase1 \union {"draft", "finalize"}

StampsSound ==
    /\ \A s \in FinalSignals : Sealed(s, attempts)
    /\ pc \in Before => \A s \in FinalSignals : s.stamp < attempts
    /\ \A s, t \in FinalSignals : s.stamp = t.stamp => s = t
    /\ \A s \in published \union accepted : Final(s)

(* An execution has bought from a signal with the record of its run.       *)
AcceptedSound ==
    \A s \in accepted : [run |-> s.run, stamp |-> s.stamp] \in remote.pubs.pubs

WorkflowInv ==
    /\ TypeOK /\ TreesSound /\ JobSound /\ PublishSound /\ StampsSound
    /\ AcceptedSound /\ GreenMeansValid
=============================================================================

--------------------------- MODULE SignalValidator --------------------------
(***************************************************************************)
(* Publication records (modules/publication.py) and the six layers of      *)
(* validate_signal (modules/signal_validator.py), over a tree: the files   *)
(* under data_v4 that one commit holds.                                    *)
(***************************************************************************)
EXTENDS SignalLedger

(* signal_publications.jsonl: signal_publication records, runs with a      *)
(* publication_ack; whether the file ends in a partial line; whether it    *)
(* has a line that readers skip.                                           *)
NoPublications == [pubs |-> {}, acks |-> {}, torn |-> FALSE, junk |-> FALSE]

PublicationsOf(file, run) == {p \in file.pubs : p.run = run}

(* get_signal_publication: of several records the last one counts.         *)
Publication(file, run) ==
    CHOOSE p \in PublicationsOf(file, run) :
        \A q \in PublicationsOf(file, run) : q.stamp <= p.stamp

(* _append_record.  A line after a partial one joins it, and both are lost.*)
Joined(file) == [file EXCEPT !.torn = FALSE, !.junk = TRUE]

\* Mutant of WithPublication: the record is acknowledged at once.
WithPublicationAcked(file, p) ==
    [file EXCEPT !.pubs = @ \union {p}, !.acks = @ \union {p.run}]

WithPublication(file, p) ==
    IF file.torn THEN Joined(file) ELSE [file EXCEPT !.pubs = @ \union {p}]

WithAck(file, run) ==
    IF file.torn THEN Joined(file) ELSE [file EXCEPT !.acks = @ \union {run}]

(* A signal file.  stamp is published_at and published_commit_sha, which   *)
(* are set together: the attempt that finalized it; 0 while it is a draft. *)
NoStamp == 0
NoHash == <<>>

(* compute_signal_content_hash: everything but the hash.                   *)
ContentHash(s) == <<s.run, s.status, s.stamp, s.cands>>

(* intended_execution_session: sessions are numbered.                      *)
IntendedSession(s) == s.run.session + 1

-----------------------------------------------------------------------------
(* The layers: what is wrong with signal s in a tree for a session.        *)
FieldsMissing(s) == s.stamp = NoStamp
NotPublished(s) == s.status # "published"
Stale(s, session) == IntendedSession(s) # session

(* The record, its fields against the signal's, the acknowledgement.       *)
PublicationBad(tree, s) ==
    \/ PublicationsOf(tree.pubs, s.run) = {}
    \/ Publication(tree.pubs, s.run).stamp # s.stamp
    \/ s.run \notin tree.pubs.acks

LedgerIncomplete(tree, s) ==
    tree.status[s.run] # "completed" \/ ~HasRun(tree.runs, s.run)

HashBad(s) == s.hash # ContentHash(s)

(* Every candidate's signal_id is that of the record of its strategy and   *)
(* ticker, and there is exactly one such record.                           *)
CandidatesBad(tree, s) ==
    \/ RecordsFail(tree.records, s.run)
    \/ \E c \in s.cands :
          c.id \notin IdsOf(RecordsOf(tree.records, s.run)) \/ c.id.key # c.key

(* The layers in their order; only a signal that passes all of them allows *)
(* buys.                                                                   *)
Valid(tree, s, session) ==
    /\ ~FieldsMissing(s)
    /\ ~NotPublished(s)
    /\ ~Stale(s, session)
    /\ ~PublicationBad(tree, s)
    /\ ~LedgerIncomplete(tree, s)
    /\ ~HashBad(s)
    /\ ~CandidatesBad(tree, s)
=============================================================================

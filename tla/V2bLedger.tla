----------------------------- MODULE V2bLedger ------------------------------
(***************************************************************************)
(* The V2B observation ledger (modules/v2b_ledger.py) and the collector    *)
(* that writes it (v2b_daily_shadow.py, modules/v2b_shadow_runner.py).     *)
(*                                                                         *)
(* An observation is a short chain of events in the JSONL file of its      *)
(* month, written under that month's lock.  The index is a cache of the    *)
(* month of each observation, rewritten under a lock of its own after the  *)
(* monthly lock is released; lookups take no lock, do not trust the index  *)
(* and repair it.  Any number of collectors may overlap; one may stop      *)
(* anywhere, a write may fail, and the index may be damaged from outside.  *)
(***************************************************************************)
EXTENDS Integers, FiniteSets, JsonlFile

CONSTANTS
    Worker,         \* processes that run the collector
    Key,            \* observation keys: model version, config, session
    Month,          \* partitions
    MonthOf,        \* the partition of a key's session
    Content,        \* content hashes of what a collector may fetch
    WriteFault,     \* ways an append may fail
    IndexFault,     \* what may be found in place of the index
    MaxFaults,      \* bound: crashes, failed writes, damages to the index
    None

Terminal == {"COMPLETED", "FAILED_DATA", "FAILED_VALIDATION", "CANCELLED",
             "CONFLICT"}
EventType == {"CREATED", "COLLECTING"} \union Terminal

ASSUME LedgerAssumption ==
    /\ MonthOf \in [Key -> Month]
    /\ WriteFault \subseteq {"lost", "late", "partial", "whole"}
    /\ IndexFault \subseteq {"absent", "corrupt", "stale"}
    /\ MaxFaults \in Nat
    /\ None \notin Worker \union Month \union Content \union EventType

VARIABLES
    \* the disk
    file,       \* the JSONL file of each month
    idx,        \* the index file: its kind and the month of each key
    \* flock
    lock,       \* the holder of each month's lock
    idxLock,
    \* the collectors
    pc, op,     \* the stage of the call, and the call the run is in
    key, content,
    cached,     \* the month the index gave to a lookup
    seen,       \* the key's events, as last read
    floor,      \* the key's events when the lookup began (history variable)
    draft,      \* the index as read for an update
    result,
    faults

disk == <<file, idx>>
locks == <<lock, idxLock>>
reads == <<cached, seen, floor, draft>>
job == <<key, content>>
vars == <<disk, locks, pc, op, job, reads, result, faults>>

(* by stands for the run id and the timestamp, prev for the hash of the    *)
(* key's previous event, named by its type.                                *)
Event == [key : Key, type : EventType, prev : EventType \union {None},
          content : Content \union {None}, by : Worker]

\* Mutant of Transitions: what nobody has begun to collect may fail.
TransitionsFailing ==
    [s \in EventType |->
        CASE s = "CREATED" -> {"COLLECTING", "CONFLICT", "FAILED_VALIDATION"}
          [] s = "COLLECTING" -> Terminal \ {"CONFLICT"}
          [] s \in Terminal -> {}]
Transitions ==
    [s \in EventType |->
        CASE s = "CREATED" -> {"COLLECTING", "CONFLICT"}
          [] s = "COLLECTING" -> Terminal \ {"CONFLICT"}
          [] s \in Terminal -> {}]

Stage == {"idle", "load", "scan", "index", "save", "reread", "answer", "fetch",
          "create", "transit", "append"}
Call == {"preflight", "create", "created", "matched", "status", "advance",
         "collect", "complete", "fail", "recollect", "recomplete"}
TransitionCall == {"collect", "complete", "fail", "recollect", "recomplete"}
Result == {"none", "skipped", "aborted", "raised", "COMPLETED", "FAILED_DATA",
           "FAILED_VALIDATION", "IDEMPOTENT_MATCH", "CONFLICT"}

(* The status each transition call asks for.                               *)
Target(call) ==
    CASE call \in {"collect", "recollect"} -> "COLLECTING"
      [] call \in {"complete", "recomplete"} -> "COMPLETED"
      [] call = "fail" -> "FAILED_VALIDATION"

-----------------------------------------------------------------------------
(* Reading the ledger.                                                     *)
EventsOf(k) == {e \in file[MonthOf[k]].events : e.key = k}

(* _verify_hash_chains: each event follows the one whose hash it carries.  *)
Unbroken(S) ==
    /\ \A d, e \in S : d.prev = e.prev => d = e
    /\ \A e \in S : e.prev = None \/ \E d \in S : d.type = e.prev

Readable(m) ==
    /\ Parses(file[m])
    /\ \A k \in Key : MonthOf[k] = m => Unbroken(EventsOf(k))

AllReadable == \A m \in Month : Readable(m)

(* _derive_status and _last_event_hash: the event no other follows.        *)
Status(S) ==
    IF S = {} THEN None
    ELSE CHOOSE s \in EventType :
            \E e \in S : e.type = s /\ \A d \in S : d.prev # s

ContentOf(S) == {e.content : e \in {d \in S : d.type = "CREATED"}}

(* The index.                                                              *)
NoEntries == [k \in Key |-> None]
Index(map) == [kind |-> "ok", map |-> map]

Rebuilt == [k \in Key |->
              IF \E e \in EventsOf(k) : e.type = "CREATED"
                THEN MonthOf[k] ELSE None]

Mine(w) == EventsOf(key[w])
MyMonth(w) == MonthOf[key[w]]

(* flock.  Mutants: the caller does not wait.                              *)
MonthFreeAlways(m) == TRUE
MonthFree(m) == lock[m] = None

IndexFreeAlways == TRUE
IndexFree == idxLock = None

-----------------------------------------------------------------------------
Init ==
    /\ file = [m \in Month |-> EmptyFile]
    /\ idx = [kind |-> "absent", map |-> NoEntries]
    /\ lock = [m \in Month |-> None] /\ idxLock = None
    /\ pc = [w \in Worker |-> "idle"]
    /\ op = [w \in Worker |-> "preflight"]
    /\ key \in [Worker -> Key]
    /\ content = [w \in Worker |-> None]
    /\ cached = [w \in Worker |-> None]
    /\ seen = [w \in Worker |-> {}]
    /\ floor = [w \in Worker |-> {}]
    /\ draft = [w \in Worker |-> NoEntries]
    /\ result = [w \in Worker |-> "none"]
    /\ faults = 0

Goto(w, stage, call) ==
    /\ pc' = [pc EXCEPT ![w] = stage]
    /\ op' = [op EXCEPT ![w] = call]
    /\ UNCHANGED <<job, result>>

Finish(w, status) ==
    /\ pc' = [pc EXCEPT ![w] = "idle"]
    /\ op' = [op EXCEPT ![w] = "preflight"]
    /\ content' = [content EXCEPT ![w] = None]
    /\ result' = [result EXCEPT ![w] = status]
    /\ UNCHANGED key

(* An exception, by the call that raises it: the preflight aborts on a     *)
(* corrupt ledger; a failed creation is FAILED_VALIDATION; a run that      *)
(* cannot advance its own observation tries to fail it; nothing catches an *)
(* exception of a run that resumes one.                                    *)
Fail(w) ==
    CASE op[w] = "preflight" -> Finish(w, "aborted")
      [] op[w] \in {"create", "created", "matched", "fail"} ->
            Finish(w, "FAILED_VALIDATION")
      [] op[w] \in {"collect", "complete"} -> Goto(w, "load", "fail")
      [] op[w] \in {"status", "advance", "recollect", "recomplete"} ->
            Finish(w, "raised")

Harm(how) ==
    /\ how # "ok" => faults < MaxFaults
    /\ faults' = IF how = "ok" THEN faults ELSE faults + 1

-----------------------------------------------------------------------------
(* A lookup: _resolve_partition_for_key.                                   *)

(* _load_idx_or_rebuild.                                                   *)
LoadIndex(w) ==
    /\ pc[w] = "load"
    /\ floor' = [floor EXCEPT ![w] = Mine(w)]
    /\ IF idx.kind # "ok" /\ ~AllReadable
         THEN /\ Fail(w)
              /\ UNCHANGED cached
         ELSE /\ Goto(w, "scan", op[w])
              /\ cached' = [cached EXCEPT ![w] =
                   IF idx.kind = "ok" THEN idx.map[key[w]] ELSE Rebuilt[key[w]]]
    /\ UNCHANGED <<disk, locks, seen, draft, faults>>

(* The fast path reads the month the index gave and then all others, the   *)
(* slow path all months; an index entry that is wrong is repaired.         *)
\* Mutant of Found: a key the index does not map is not there.
FoundTrusting(w) == IF cached[w] = MyMonth(w) THEN Mine(w) ELSE {}
Found(w) == Mine(w)

Scan(w) ==
    /\ pc[w] = "scan"
    /\ IF ~AllReadable
         THEN /\ Fail(w)
              /\ UNCHANGED seen
         ELSE /\ seen' = [seen EXCEPT ![w] = Found(w)]
              /\ Goto(w, IF Found(w) = {} \/ cached[w] = MyMonth(w)
                           THEN "answer" ELSE "index", op[w])
    /\ UNCHANGED <<disk, locks, cached, floor, draft, faults>>

Reread(w) ==
    /\ pc[w] = "reread"
    /\ IF ~Readable(MyMonth(w))
         THEN /\ Fail(w)
              /\ UNCHANGED seen
         ELSE /\ seen' = [seen EXCEPT ![w] = Mine(w)]
              /\ Goto(w, "answer", op[w])
    /\ UNCHANGED <<disk, locks, cached, floor, draft, faults>>

-----------------------------------------------------------------------------
(* _update_idx_locked, called by a lookup or at the end of a creation.     *)
ReadIndex(w) ==
    /\ pc[w] = "index" /\ IndexFree
    /\ IF idx.kind = "corrupt" /\ ~AllReadable
         THEN /\ Fail(w)
              /\ UNCHANGED <<idxLock, draft>>
         ELSE /\ Goto(w, "save", op[w])
              /\ idxLock' = w
              /\ draft' = [draft EXCEPT ![w] =
                   IF idx.kind = "corrupt" THEN Rebuilt ELSE idx.map]
    /\ UNCHANGED <<disk, lock, cached, seen, floor, faults>>

AfterIndex(w) ==
    CASE op[w] = "created" -> Goto(w, "load", "collect")
      [] op[w] = "matched" -> Goto(w, "load", "status")
      [] op[w] \notin {"created", "matched"} -> Goto(w, "reread", op[w])

(* _save_idx_atomic replaces the file or leaves it; the preflight goes on  *)
(* when it raises.                                                         *)
SaveIndex(w) ==
    /\ pc[w] = "save"
    /\ idxLock' = None
    /\ draft' = [draft EXCEPT ![w] = NoEntries]
    /\ \/ /\ idx' = Index([draft[w] EXCEPT ![key[w]] = MyMonth(w)])
          /\ AfterIndex(w)
          /\ Harm("ok")
       \/ /\ "lost" \in WriteFault
          /\ IF op[w] = "preflight" THEN Goto(w, "fetch", "preflight") ELSE Fail(w)
          /\ Harm("lost")
          /\ UNCHANGED idx
    /\ UNCHANGED <<file, lock, cached, seen, floor>>

-----------------------------------------------------------------------------
(* The collector.                                                          *)

(* v2b_daily_shadow.py starts with the preflight lookup.                   *)
Begin(w, k) ==
    /\ pc[w] = "idle"
    /\ key' = [key EXCEPT ![w] = k]
    /\ pc' = [pc EXCEPT ![w] = "load"]
    /\ op' = [op EXCEPT ![w] = "preflight"]
    /\ result' = [result EXCEPT ![w] = "none"]
    /\ UNCHANGED <<disk, locks, content, reads, faults>>

(* What the run does with a lookup's answer.                               *)
Preflight(w) ==
    CASE Status(seen[w]) = "COMPLETED" -> Finish(w, "skipped")
      [] Status(seen[w]) = "CONFLICT" -> Finish(w, "aborted")
      [] Status(seen[w]) \notin {"COMPLETED", "CONFLICT"} ->
            Goto(w, "fetch", "preflight")

\* Mutants of CheckStatus: a match always ends the run; it waits for its owner
\* to complete the observation.
CheckStatusFinal(w) == Finish(w, "IDEMPOTENT_MATCH")
CheckStatusWaiting(w) ==
    IF Status(seen[w]) \in Terminal THEN Finish(w, "IDEMPOTENT_MATCH")
                                    ELSE Goto(w, "load", "status")

CheckStatus(w) ==
    IF Status(seen[w]) \in Terminal THEN Finish(w, "IDEMPOTENT_MATCH")
                                    ELSE Goto(w, "load", "advance")

(* _advance_to_completed; its caller reports COMPLETED whatever it returns.*)
Advance(w) ==
    CASE Status(seen[w]) \in Terminal -> Finish(w, "COMPLETED")
      [] Status(seen[w]) = "CREATED" -> Goto(w, "load", "recollect")
      [] Status(seen[w]) \notin Terminal \union {"CREATED"} ->
            Goto(w, "load", "recomplete")

Decide(w) ==
    /\ pc[w] = "answer"
    /\ \/ op[w] = "preflight" /\ Preflight(w)
       \/ op[w] = "status" /\ CheckStatus(w)
       \/ op[w] = "advance" /\ Advance(w)
       \/ /\ op[w] \in TransitionCall
          /\ IF seen[w] = {} THEN Fail(w) ELSE Goto(w, "transit", op[w])
    /\ UNCHANGED <<disk, locks, reads, faults>>

(* Fetching and scoring may fail, in run_shadow_observation or before it.  *)
FetchFails(w) ==
    /\ pc[w] = "fetch"
    /\ \E status \in {"aborted", "FAILED_DATA", "FAILED_VALIDATION"} :
          Finish(w, status)
    /\ UNCHANGED <<disk, locks, reads, faults>>

(* Any content: the cutoff of the run is part of what is hashed.           *)
Fetch(w) ==
    /\ pc[w] = "fetch"
    /\ \E c \in Content : content' = [content EXCEPT ![w] = c]
    /\ pc' = [pc EXCEPT ![w] = "create"]
    /\ op' = [op EXCEPT ![w] = "create"]
    /\ UNCHANGED <<disk, locks, key, reads, result, faults>>

\* Mutant of Writable: a conflict is written whatever the status.
WritableAlways(S) == TRUE
Writable(S) == Status(S) \in {None, "CREATED"}

(* create_observation up to its append: under the monthly lock, all months *)
(* are read; an observation with the same content is matched, one with     *)
(* other content is refused unless it is still CREATED.                    *)
Create(w) ==
    /\ pc[w] = "create" /\ MonthFree(MyMonth(w))
    /\ seen' = [seen EXCEPT ![w] = Mine(w)]
    /\ \/ ~AllReadable /\ Fail(w) /\ UNCHANGED lock
       \/ /\ AllReadable /\ content[w] \in ContentOf(Mine(w))
          /\ Goto(w, "index", "matched") /\ UNCHANGED lock
       \/ /\ AllReadable /\ content[w] \notin ContentOf(Mine(w))
          /\ ~Writable(Mine(w))
          /\ Finish(w, "CONFLICT") /\ UNCHANGED lock
       \/ /\ AllReadable /\ content[w] \notin ContentOf(Mine(w))
          /\ Writable(Mine(w))
          /\ Goto(w, "append", "create")
          /\ lock' = [lock EXCEPT ![MyMonth(w)] = w]
    /\ UNCHANGED <<disk, idxLock, cached, floor, draft, faults>>

\* Mutant of Accepts: the status is the one the lookup saw, before the lock.
AcceptsEarlier(w) ==
    /\ Readable(MyMonth(w)) /\ seen[w] # {}
    /\ Target(op[w]) \in Transitions[Status(seen[w])]

Accepts(w) ==
    /\ Readable(MyMonth(w)) /\ Mine(w) # {}
    /\ Target(op[w]) \in Transitions[Status(Mine(w))]

(* transition_observation up to its append.                                *)
Transit(w) ==
    /\ pc[w] = "transit" /\ MonthFree(MyMonth(w))
    /\ seen' = [seen EXCEPT ![w] = Mine(w)]
    /\ IF Accepts(w)
         THEN /\ Goto(w, "append", op[w])
              /\ lock' = [lock EXCEPT ![MyMonth(w)] = w]
         ELSE /\ Fail(w)
              /\ UNCHANGED lock
    /\ UNCHANGED <<disk, idxLock, cached, floor, draft, faults>>

NewEvent(w) ==
    [key     |-> key[w],
     type    |-> CASE op[w] # "create" -> Target(op[w])
                   [] op[w] = "create" /\ seen[w] = {} -> "CREATED"
                   [] op[w] = "create" /\ seen[w] # {} -> "CONFLICT",
     prev    |-> Status(seen[w]),
     content |-> IF op[w] = "create" THEN content[w] ELSE None,
     by      |-> w]

\* Mutant of AfterAppend: the run reports after its first transition.
AfterAppendHasty(w) ==
    CASE op[w] = "create" -> Goto(w, "index", "created")
      [] op[w] # "create" -> Finish(w, "COMPLETED")

AfterAppend(w) ==
    CASE op[w] = "create" /\ seen[w] = {} -> Goto(w, "index", "created")
      [] op[w] = "create" /\ seen[w] # {} -> Finish(w, "CONFLICT")
      [] op[w] = "collect" -> Goto(w, "load", "complete")
      [] op[w] = "recollect" -> Goto(w, "load", "recomplete")
      [] op[w] \in {"complete", "recomplete"} -> Finish(w, "COMPLETED")
      [] op[w] = "fail" -> Finish(w, "FAILED_VALIDATION")

Append(w) ==
    /\ pc[w] = "append"
    /\ \E how \in {"ok"} \union WriteFault :
          /\ Harm(how)
          /\ file' = [file EXCEPT ![MyMonth(w)] = Appended(@, NewEvent(w), how)]
          /\ IF how = "ok" THEN AfterAppend(w) ELSE Fail(w)
    /\ lock' = [lock EXCEPT ![MyMonth(w)] = None]
    /\ UNCHANGED <<idx, idxLock, reads>>

-----------------------------------------------------------------------------
(* The process dies; the kernel drops its locks.                           *)
Crash(w) ==
    /\ pc[w] # "idle" /\ faults < MaxFaults
    /\ faults' = faults + 1
    /\ Finish(w, "none")
    /\ lock' = [m \in Month |-> IF lock[m] = w THEN None ELSE lock[m]]
    /\ idxLock' = IF idxLock = w THEN None ELSE idxLock
    /\ draft' = [draft EXCEPT ![w] = NoEntries]
    /\ UNCHANGED <<disk, cached, seen, floor>>

(* The index is a file anyone may lose, garble or restore from elsewhere.  *)
DamageIndex ==
    /\ faults < MaxFaults
    /\ faults' = faults + 1
    /\ \/ \E kind \in IndexFault \ {"stale"} :
             idx' = [kind |-> kind, map |-> NoEntries]
       \/ /\ "stale" \in IndexFault
          /\ \E k \in Key, m \in Month \union {None} :
                idx' = Index([idx.map EXCEPT ![k] = m])
    /\ UNCHANGED <<file, locks, pc, op, job, reads, result>>

Step(w) ==
    \/ LoadIndex(w) \/ Scan(w) \/ Reread(w) \/ Decide(w)
    \/ ReadIndex(w) \/ SaveIndex(w)
    \/ FetchFails(w) \/ Fetch(w) \/ Create(w) \/ Transit(w) \/ Append(w)

Next ==
    \/ \E w \in Worker : Step(w) \/ Crash(w) \/ \E k \in Key : Begin(w, k)
    \/ DamageIndex

Spec == Init /\ [][Next]_vars
-----------------------------------------------------------------------------
(* What a run may hold in each variable.                                   *)
TypeOK ==
    /\ file \in [Month -> [events : SUBSET Event, unended : SUBSET Event,
                           tail : {"ended", "torn", "junk", "corrupt"}]]
    /\ idx \in [kind : {"ok", "absent", "corrupt"},
                map : [Key -> Month \union {None}]]
    /\ lock \in [Month -> Worker \union {None}]
    /\ idxLock \in Worker \union {None}
    /\ pc \in [Worker -> Stage] /\ op \in [Worker -> Call]
    /\ key \in [Worker -> Key]
    /\ content \in [Worker -> Content \union {None}]
    /\ cached \in [Worker -> Month \union {None}]
    /\ seen \in [Worker -> SUBSET Event] /\ floor \in [Worker -> SUBSET Event]
    /\ draft \in [Worker -> [Key -> Month \union {None}]]
    /\ result \in [Worker -> Result]
    /\ faults \in 0..MaxFaults

Legal(S) ==
    /\ Unbroken(S)
    /\ \A e \in S : IF e.type = "CREATED" THEN e.prev = None
                  ELSE e.prev # None /\ e.type \in Transitions[e.prev]
    /\ \A d, e \in S :
          d.type = "CREATED" /\ e.type = "CONFLICT" => d.content # e.content

(* However collectors overlap and stop, the events of a key are one run of *)
(* the status machine: one creation, each event allowed by _TRANSITIONS    *)
(* after the one whose hash it carries, and a conflict only about other    *)
(* content.  No reader ever finds the chain broken.                        *)
LegalHistory == \A k \in Key : Legal(EventsOf(k))

LookupComplete(w) ==
    pc[w] = "answer" => floor[w] \subseteq seen[w] /\ seen[w] \subseteq Mine(w)

(* Whatever the index says or misses, a lookup answers with everything     *)
(* that was in the ledger when it began, and nothing that is not there     *)
(* (_resolve_partition_for_key: the index is a cache).                     *)
LookupsComplete == \A w \in Worker : LookupComplete(w)

(* An observation in a terminal state gets no further event, whichever     *)
(* creation or transition read it earlier.                                 *)
TerminalIsFinal ==
    [][\A k \in Key : Status(EventsOf(k)) \in Terminal =>
          EventsOf(k)' = EventsOf(k)]_vars

(* Concurrent index updates keep each other's entries (idx_lock).          *)
IndexKeepsEntries ==
    [][\A k \in Key : idx.map[k] # None => idx'.map[k] = idx.map[k]]_vars

(* A month with an unreadable line before its last is never written again  *)
(* (_read_events_raw: fail-closed).                                        *)
CorruptFailsClosed ==
    [][\A m \in Month : file[m].tail = "corrupt" => file'[m] = file[m]]_vars

(* A run that reports COMPLETED leaves its observation in a terminal state.*)
CompletedIsFinal ==
    \A w \in Worker : result[w] = "COMPLETED" => Status(Mine(w)) \in Terminal

-----------------------------------------------------------------------------
(* A collector keeps running and flock serves its waiters in turn; when    *)
(* the next run starts, and whether it can fetch its data, is left open.   *)
Fairness == \A w \in Worker : SF_vars(Step(w))

FairSpec == Spec /\ Fairness

(* No run waits for a lock for ever (the lock ordering of v2b_ledger.py).  *)
EveryRunEnds == \A w \in Worker : pc[w] # "idle" ~> pc[w] = "idle"

Ended(k) == Status(EventsOf(k)) \in Terminal

(* A run of the session of k comes to its creation; with content that is   *)
(* already recorded.                                                       *)
Creates(w, k) == key[w] = k /\ pc[w] = "create"
Repeats(w, k) == Creates(w, k) /\ content[w] \in ContentOf(EventsOf(k))

(* What becomes of an observation (run_shadow_observation).  One run ends  *)
(* it, unless a process dies or a write fails.  After that, runs that come *)
(* to the creation again and again end it, as COMPLETED or as CONFLICT,    *)
(* with one exception: an observation left COLLECTING stays so when no     *)
(* later run repeats its content, and the runs of v2b_daily_shadow.py do   *)
(* not, as each hashes its own cutoff.                                     *)
ObservationsEnd ==
    \A k \in Key :
        /\ EventsOf(k) # {} ~> Ended(k) \/ faults > 0
        /\ []<>(\E w \in Worker : Creates(w, k)) =>
              \/ <>Ended(k)
              \/ <>[](/\ Status(EventsOf(k)) = "COLLECTING"
                      /\ \A w \in Worker : ~Repeats(w, k))
=============================================================================

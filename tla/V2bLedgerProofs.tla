--------------------------- MODULE V2bLedgerProofs --------------------------
(***************************************************************************)
(* What holds of the V2B ledger for any number of collectors, sessions and *)
(* contents, whatever appends leave of their lines: the types, and the     *)
(* histories of the status machine.                                        *)
(***************************************************************************)
EXTENDS V2bLedgerInvariant, TLAPS

-----------------------------------------------------------------------------
(* Histories.                                                              *)

(* The last event of a legal history is one that no other follows: the     *)
(* status read by _derive_status is its type.                              *)
LEMMA StatusLast ==
    ASSUME NEW S \in SUBSET Event, Legal(S), S # {}
    PROVE  /\ Status(S) \in EventType
           /\ \E e \in S : e.type = Status(S) /\ \A d \in S : d.prev # Status(S)
<1> DEFINE Last(s) == \E e \in S : e.type = s /\ \A d \in S : d.prev # s
<1>1. \A e \in S : e.type \in EventType /\ e.prev \in EventType \union {None}
  BY DEF Event
<1>2. \A e \in S : e.type # "CREATED" =>
          e.prev \in {"CREATED", "COLLECTING"} /\ e.type \in Transitions[e.prev]
  <2> SUFFICES ASSUME NEW e \in S, e.type # "CREATED"
               PROVE  e.prev \in {"CREATED", "COLLECTING"}
                      /\ e.type \in Transitions[e.prev]
    OBVIOUS
  <2>1. e.prev \in EventType /\ e.type \in Transitions[e.prev]
    BY <1>1 DEF Legal
  <2>2. e.prev \notin Terminal
    BY <2>1 DEF Transitions, Terminal, EventType
  <2> QED
    BY <2>1, <2>2 DEF EventType
<1>3. \A d \in S : d.prev = "COLLECTING" => d.type \in Terminal
  BY <1>1, <1>2, LedgerAssumption DEF Transitions, Terminal, EventType, Legal
<1>4. \A d \in S : d.prev = "CREATED" => d.type \in {"COLLECTING", "CONFLICT"}
  BY <1>1, <1>2, LedgerAssumption DEF Transitions, Terminal, EventType, Legal
<1>5. \A d \in S : d.prev \notin Terminal
  BY <1>2, LedgerAssumption DEF Terminal, EventType, Legal
<1>6. \E s \in EventType : Last(s)
  <2>1. CASE \E e \in S : e.type \in Terminal
    BY <2>1, <1>1, <1>5
  <2>2. CASE /\ ~\E e \in S : e.type \in Terminal
             /\ \E e \in S : e.type = "COLLECTING"
    <3>1. \A d \in S : d.prev # "COLLECTING"
      BY <2>2, <1>3
    <3> QED
      BY <2>2, <3>1, <1>1
  <2>3. CASE ~\E e \in S : e.type \in Terminal \union {"COLLECTING"}
    <3>1. \A d \in S : d.prev # "CREATED"
      BY <2>3, <1>4 DEF Terminal
    <3>2. \A d \in S : d.type = "CREATED"
      BY <2>3, <1>1 DEF EventType
    <3> QED
      BY <3>1, <3>2, <1>1
  <2> QED
    BY <2>1, <2>2, <2>3
<1>7. Status(S) = CHOOSE s \in EventType : Last(s)
  BY DEF Status
<1> HIDE DEF Last
<1>8. Status(S) \in EventType /\ Last(Status(S))
  BY <1>6, <1>7
<1> QED
  BY <1>8 DEF Last

LEMMA StatusNone == Status({}) = None
BY DEF Status

(* An event that follows the last one, and that the status machine allows, *)
(* extends a legal history.                                                *)
LEMMA LegalExtends ==
    ASSUME NEW S \in SUBSET Event, Legal(S), NEW e \in Event,
           e.prev = Status(S),
           IF S = {} THEN e.type = "CREATED"
                     ELSE e.type \in Transitions[Status(S)],
           e.type = "CONFLICT" => e.content \notin ContentOf(S)
    PROVE  Legal(S \union {e})
<1>1. CASE S = {}
  BY <1>1, StatusNone DEF Legal, Unbroken
<1>2. CASE S # {}
  <2>1. /\ Status(S) \in EventType
        /\ \E d \in S : d.type = Status(S)
        /\ \A d \in S : d.prev # Status(S)
    BY <1>2, StatusLast
  <2>2. Status(S) # None
    BY <2>1, LedgerAssumption
  <2>3. e.type # "CREATED"
    BY <1>2, <2>1 DEF Transitions, EventType, Terminal
  <2>4. Unbroken(S \union {e})
    BY <2>1 DEF Legal, Unbroken
  <2>5. \A d \in S : d.type = "CREATED" /\ e.type = "CONFLICT" =>
                        d.content # e.content
    BY DEF ContentOf
  <2> QED
    BY <1>2, <2>2, <2>3, <2>4, <2>5 DEF Legal
<1> QED
  BY <1>1, <1>2

(* An append changes nothing, spoils the last line without a newline, or   *)
(* adds its event, perhaps as such a line.                                 *)
Outcomes == {"ok"} \union WriteFault

LEMMA AppendedEvents ==
    ASSUME NEW f, NEW e, NEW how \in Outcomes
    PROVE  LET g == Appended(f, e, how) IN
           \/ g = f
           \/ g.events = f.events \ f.unended /\ g.unended = {}
           \/ /\ f.unended = {}
              /\ g.events = f.events \union {e} /\ g.unended \subseteq {e}
BY LedgerAssumption DEF Appended, Joins, Outcomes

FileType == [events : SUBSET Event, unended : SUBSET Event,
             tail : {"ended", "torn", "junk", "corrupt"}]

LEMMA AppendedType ==
    ASSUME NEW f \in FileType, NEW e \in Event, NEW how
    PROVE  Appended(f, e, how) \in FileType
<1>1. f.events \subseteq Event
  BY DEF FileType
<1> QED
  BY <1>1 DEF Appended, FileType

-----------------------------------------------------------------------------
(* Steps of one collector that write no file.                              *)
Moved(w) ==
    /\ pc' \in [Worker -> Stage] /\ op' \in [Worker -> Call]
    /\ content' \in [Worker -> Content \union {None}]
    /\ result' \in [Worker -> Result]
    /\ \A v \in Worker \ {w} :
          pc'[v] = pc[v] /\ op'[v] = op[v] /\ content'[v] = content[v]

LEMMA FinishMoves ==
    ASSUME TypeOK, NEW w \in Worker, NEW status \in Result, Finish(w, status)
    PROVE  Moved(w) /\ pc'[w] = "idle" /\ key' = key
BY DEF Finish, Moved, TypeOK, Stage, Call, Result

LEMMA GotoMoves ==
    ASSUME TypeOK, NEW w \in Worker, NEW stage \in Stage, NEW call \in Call,
           Goto(w, stage, call)
    PROVE  /\ Moved(w) /\ pc'[w] = stage /\ op'[w] = call
           /\ key' = key /\ content' = content
BY DEF Goto, Moved, TypeOK, job

LEMMA FailMoves ==
    ASSUME TypeOK, NEW w \in Worker, Fail(w)
    PROVE  Moved(w) /\ pc'[w] \in {"idle", "load"} /\ key' = key
<1>1. op[w] \in Call
  BY DEF TypeOK
<1>2. \/ \E status \in Result : Finish(w, status)
      \/ Goto(w, "load", "fail")
  BY <1>1 DEF Fail, Call, Result
<1>3. "load" \in Stage /\ "fail" \in Call
  BY DEF Stage, Call
<1> QED
  BY <1>2, <1>3, FinishMoves, GotoMoves

(* A step of w that writes no file and takes no lock from another keeps    *)
(* the invariant if it leaves w sound.                                     *)
LEMMA LocalStep ==
    ASSUME HistoryInv, TypeOK', NEW w \in Worker, file' = file,
           \A v \in Worker \ {w} :
              /\ pc'[v] = pc[v] /\ op'[v] = op[v] /\ key'[v] = key[v]
              /\ content'[v] = content[v] /\ seen'[v] = seen[v]
              /\ \A m \in Month : lock[m] = v => lock'[m] = v,
           WriterSound(w)'
    PROVE  HistoryInv'
<1>1. \A k \in Key : EventsOf(k)' = EventsOf(k) /\ EndedOf(k)' = EndedOf(k)
  BY DEF EventsOf, EndedOf
<1>2. LegalHistory' /\ EndedLegal'
  BY <1>1 DEF HistoryInv, LegalHistory, EndedLegal
<1>3. ASSUME NEW v \in Worker \ {w} PROVE WriterSound(v)'
  <2>1. key[v] \in Key /\ MonthOf[key[v]] \in Month
    BY LedgerAssumption DEF HistoryInv, TypeOK
  <2>2. Mine(v)' = Mine(v) /\ MyMonth(v)' = MyMonth(v) /\ MyMonth(v) \in Month
    BY <1>1, <2>1 DEF Mine, MyMonth, EventsOf
  <2>3. WriterSound(v)
    BY DEF HistoryInv
  <2> QED
    BY <2>2, <2>3
       DEF WriterSound, AppendSound, CreateSound, TransitSound
<1> QED
  BY <1>2, <1>3 DEF HistoryInv

(* What most steps of a collector change: its own control, and no more of  *)
(* the invariant than the stage it is in.                                  *)
LEMMA PlainStep ==
    ASSUME HistoryInv, TypeOK', NEW w \in Worker, Moved(w),
           file' = file, lock' = lock, key' = key, seen' = seen,
           pc'[w] # "append",
           pc'[w] = "create" => op'[w] = "create" /\ content'[w] \in Content,
           pc'[w] = "transit" => op'[w] \in TransitionCall
    PROVE  HistoryInv'
<1>1. key[w] \in Key /\ MonthOf[key[w]] \in Month /\ WriterSound(w)
  BY LedgerAssumption DEF HistoryInv, TypeOK
<1>2. Mine(w)' = Mine(w)
  BY <1>1 DEF Mine, EventsOf
<1>3. WriterSound(w)'
  BY <1>1, <1>2
     DEF WriterSound, AppendSound, CreateSound, TransitSound
<1> QED
  BY <1>3, LocalStep DEF Moved

-----------------------------------------------------------------------------
(* One lemma for each action.                                              *)
LEMMA MineTyped ==
    ASSUME TypeOK, NEW w \in Worker
    PROVE  /\ key[w] \in Key /\ MyMonth(w) \in Month
           /\ Mine(w) \in SUBSET Event
           /\ \A k \in Key : EventsOf(k) \in SUBSET Event
<1>1. \A k \in Key : MonthOf[k] \in Month
  BY LedgerAssumption
<1> QED
  BY <1>1 DEF TypeOK, MyMonth, Mine, EventsOf

LEMMA RebuiltTyped == Rebuilt \in [Key -> Month \union {None}]
BY LedgerAssumption DEF Rebuilt

LEMMA LoadIndexKeeps ==
    ASSUME HistoryInv, NEW w \in Worker, LoadIndex(w)
    PROVE  HistoryInv'
<1>1. TypeOK /\ pc[w] = "load" /\ WriterSound(w)
  BY DEF HistoryInv, LoadIndex
<1>2. /\ key[w] \in Key /\ Mine(w) \in SUBSET Event /\ op[w] \in Call
      /\ "scan" \in Stage
  BY <1>1, MineTyped DEF TypeOK, Stage
<1>3. Moved(w) /\ pc'[w] \in {"idle", "load", "scan"} /\ key' = key
  BY <1>1, <1>2, FailMoves, GotoMoves DEF LoadIndex
<1>4. /\ file' = file /\ idx' = idx /\ lock' = lock /\ idxLock' = idxLock
      /\ seen' = seen /\ draft' = draft /\ faults' = faults
      /\ floor' = [floor EXCEPT ![w] = Mine(w)]
  BY DEF LoadIndex, disk, locks
<1>5. cached' \in [Worker -> Month \union {None}]
  <2>1. idx.map[key[w]] \in Month \union {None}
    BY <1>1, <1>2 DEF TypeOK
  <2>2. Rebuilt[key[w]] \in Month \union {None}
    BY <1>2, RebuiltTyped
  <2> QED
    BY <1>1, <2>1, <2>2 DEF LoadIndex, TypeOK
<1>6. TypeOK'
  BY <1>1, <1>2, <1>3, <1>4, <1>5 DEF TypeOK, Moved
<1>7. WriterSound(w)'
  BY <1>3 DEF WriterSound, AppendSound, CreateSound, TransitSound
<1> QED
  BY <1>3, <1>4, <1>6, <1>7, LocalStep DEF Moved

(* Scan and Reread end a lookup in the same way.                           *)
LEMMA ReadKeeps ==
    ASSUME HistoryInv, NEW w \in Worker, pc[w] \in {"scan", "reread"},
           Moved(w), key' = key,
           file' = file, idx' = idx, lock' = lock, idxLock' = idxLock,
           cached' = cached, floor' = floor, draft' = draft, faults' = faults,
           \/ seen' = seen /\ pc'[w] \in {"idle", "load"}
           \/ seen' = [seen EXCEPT ![w] = Mine(w)] /\ pc'[w] \in {"answer", "index"}
    PROVE  HistoryInv'
<1>1. TypeOK /\ WriterSound(w)
  BY DEF HistoryInv
<1>2. key[w] \in Key /\ Mine(w) \in SUBSET Event
  BY <1>1, MineTyped
<1>3. seen' \in [Worker -> SUBSET Event]
  BY <1>1, <1>2 DEF TypeOK
<1>4. TypeOK'
  BY <1>1, <1>3 DEF TypeOK, Moved
<1>5. WriterSound(w)'
  BY DEF WriterSound, AppendSound, CreateSound, TransitSound
<1>6. \A v \in Worker \ {w} : seen'[v] = seen[v]
  BY <1>1 DEF TypeOK
<1> QED
  BY <1>4, <1>5, <1>6, LocalStep DEF Moved

LEMMA ScanKeeps ==
    ASSUME HistoryInv, NEW w \in Worker, Scan(w)
    PROVE  HistoryInv'
<1>1. TypeOK /\ op[w] \in Call /\ "answer" \in Stage /\ "index" \in Stage
  BY DEF HistoryInv, TypeOK, Stage
<1>2. CASE ~AllReadable
  <2>1. Fail(w) /\ seen' = seen
    BY <1>2 DEF Scan
  <2> QED
    BY <1>1, <2>1, FailMoves, ReadKeeps DEF Scan, disk, locks
<1>3. CASE AllReadable
  <2>1. /\ seen' = [seen EXCEPT ![w] = Mine(w)]
        /\ Goto(w, "answer", op[w]) \/ Goto(w, "index", op[w])
    BY <1>3 DEF Scan, Found
  <2>2. Moved(w) /\ key' = key /\ pc'[w] \in {"answer", "index"}
    BY <1>1, <2>1, GotoMoves
  <2> QED
    BY <2>1, <2>2, ReadKeeps DEF Scan, disk, locks
<1> QED
  BY <1>2, <1>3

LEMMA RereadKeeps ==
    ASSUME HistoryInv, NEW w \in Worker, Reread(w)
    PROVE  HistoryInv'
<1>1. TypeOK /\ op[w] \in Call /\ "answer" \in Stage
  BY DEF HistoryInv, TypeOK, Stage
<1>2. CASE ~Readable(MyMonth(w))
  <2>1. Fail(w) /\ seen' = seen
    BY <1>2 DEF Reread
  <2> QED
    BY <1>1, <2>1, FailMoves, ReadKeeps DEF Reread, disk, locks
<1>3. CASE Readable(MyMonth(w))
  <2>1. seen' = [seen EXCEPT ![w] = Mine(w)] /\ Goto(w, "answer", op[w])
    BY <1>3 DEF Reread
  <2>2. Moved(w) /\ key' = key /\ pc'[w] \in {"answer", "index"}
    BY <1>1, <2>1, GotoMoves
  <2> QED
    BY <2>1, <2>2, ReadKeeps DEF Reread, disk, locks
<1> QED
  BY <1>2, <1>3

LEMMA DecideKeeps ==
    ASSUME HistoryInv, NEW w \in Worker, Decide(w)
    PROVE  HistoryInv'
<1>1. TypeOK /\ pc[w] = "answer" /\ op[w] \in Call
  BY DEF HistoryInv, TypeOK, Decide
<1>2. \/ \E status \in Result : Finish(w, status)
      \/ \E stage \in {"load", "fetch"}, call \in Call : Goto(w, stage, call)
      \/ op[w] \in TransitionCall /\ Goto(w, "transit", op[w])
      \/ Fail(w)
  BY <1>1 DEF Decide, Preflight, CheckStatus, Advance, Result, Call
<1>3. /\ Moved(w) /\ key' = key
      /\ pc'[w] \in {"idle", "load", "fetch", "transit"}
      /\ pc'[w] = "transit" => op'[w] \in TransitionCall
  <2>1. \A stage \in {"load", "fetch", "transit"} : stage \in Stage
    BY DEF Stage
  <2> QED
    BY <1>1, <1>2, <2>1, FinishMoves, GotoMoves, FailMoves
<1>4. /\ file' = file /\ idx' = idx /\ lock' = lock /\ idxLock' = idxLock
      /\ cached' = cached /\ seen' = seen /\ floor' = floor /\ draft' = draft
      /\ faults' = faults
  BY DEF Decide, disk, locks, reads
<1>5. TypeOK'
  BY <1>1, <1>3, <1>4 DEF TypeOK, Moved
<1> QED
  BY <1>1, <1>3, <1>4, <1>5, PlainStep

LEMMA ReadIndexKeeps ==
    ASSUME HistoryInv, NEW w \in Worker, ReadIndex(w)
    PROVE  HistoryInv'
<1>1. TypeOK /\ pc[w] = "index" /\ op[w] \in Call /\ "save" \in Stage
  BY DEF HistoryInv, TypeOK, ReadIndex, Stage
<1>2. Fail(w) \/ Goto(w, "save", op[w])
  BY DEF ReadIndex
<1>3. Moved(w) /\ key' = key /\ pc'[w] \in {"idle", "load", "save"}
  BY <1>1, <1>2, FailMoves, GotoMoves
<1>4. /\ file' = file /\ idx' = idx /\ lock' = lock /\ cached' = cached
      /\ seen' = seen /\ floor' = floor /\ faults' = faults
  BY DEF ReadIndex, disk
<1>5. /\ idxLock' \in Worker \union {None}
      /\ draft' \in [Worker -> [Key -> Month \union {None}]]
  BY <1>1, RebuiltTyped DEF ReadIndex, TypeOK
<1>6. TypeOK'
  BY <1>1, <1>3, <1>4, <1>5 DEF TypeOK, Moved
<1> QED
  BY <1>1, <1>3, <1>4, <1>6, PlainStep

LEMMA SaveIndexKeeps ==
    ASSUME HistoryInv, NEW w \in Worker, SaveIndex(w)
    PROVE  HistoryInv'
<1>1. TypeOK /\ pc[w] = "save" /\ op[w] \in Call
  BY DEF HistoryInv, TypeOK, SaveIndex
<1>2. \/ Fail(w)
      \/ \E stage \in {"load", "reread", "fetch"}, call \in Call :
            Goto(w, stage, call)
  <2>1. CASE AfterIndex(w)
    BY <1>1, <2>1 DEF AfterIndex, Call
  <2>2. CASE IF op[w] = "preflight" THEN Goto(w, "fetch", "preflight") ELSE Fail(w)
    BY <2>2 DEF Call
  <2> QED
    BY <2>1, <2>2 DEF SaveIndex
<1>3. /\ Moved(w) /\ key' = key
      /\ pc'[w] \in {"idle", "load", "reread", "fetch"}
  <2>1. \A stage \in {"load", "reread", "fetch"} : stage \in Stage
    BY DEF Stage
  <2> QED
    BY <1>1, <1>2, <2>1, GotoMoves, FailMoves
<1>4. /\ file' = file /\ lock' = lock /\ cached' = cached
      /\ seen' = seen /\ floor' = floor
  BY DEF SaveIndex
<1>5. key[w] \in Key /\ MyMonth(w) \in Month
  BY <1>1, MineTyped
<1>6. /\ idxLock' \in Worker \union {None}
      /\ draft' \in [Worker -> [Key -> Month \union {None}]]
      /\ faults' \in 0..MaxFaults
  BY <1>1, LedgerAssumption DEF SaveIndex, Harm, NoEntries, TypeOK
<1>7. idx' \in [kind : {"ok", "absent", "corrupt"},
                map : [Key -> Month \union {None}]]
  <2>1. draft[w] \in [Key -> Month \union {None}]
    BY <1>1 DEF TypeOK
  <2>2. [draft[w] EXCEPT ![key[w]] = MyMonth(w)] \in [Key -> Month \union {None}]
    BY <2>1, <1>5
  <2>3. Index([draft[w] EXCEPT ![key[w]] = MyMonth(w)])
           \in [kind : {"ok", "absent", "corrupt"},
                map : [Key -> Month \union {None}]]
    BY <2>2 DEF Index
  <2> QED
    BY <2>3, <1>1 DEF SaveIndex, TypeOK
<1>8. TypeOK'
  BY <1>1, <1>3, <1>4, <1>6, <1>7 DEF TypeOK, Moved
<1> QED
  BY <1>1, <1>3, <1>4, <1>8, PlainStep

LEMMA BeginKeeps ==
    ASSUME HistoryInv, NEW w \in Worker, NEW k \in Key, Begin(w, k)
    PROVE  HistoryInv'
<1>1. TypeOK
  BY DEF HistoryInv
<1>2. TypeOK'
  BY <1>1 DEF TypeOK, Begin, disk, locks, reads, Stage, Call, Result
<1>3. /\ file' = file /\ lock' = lock /\ content' = content /\ seen' = seen
      /\ floor' = floor /\ pc' = [pc EXCEPT ![w] = "load"]
      /\ op' = [op EXCEPT ![w] = "preflight"] /\ key' = [key EXCEPT ![w] = k]
  BY DEF Begin, disk, locks, reads
<1>4. \A v \in Worker \ {w} : pc'[v] = pc[v] /\ op'[v] = op[v] /\ key'[v] = key[v]
  BY <1>1, <1>3 DEF TypeOK
<1>5. pc'[w] = "load"
  BY <1>1, <1>3 DEF TypeOK
<1>6. WriterSound(w)'
  BY <1>5 DEF WriterSound, AppendSound, CreateSound, TransitSound
<1> QED
  BY <1>2, <1>3, <1>4, <1>6, LocalStep

LEMMA FetchFailsKeeps ==
    ASSUME HistoryInv, NEW w \in Worker, FetchFails(w)
    PROVE  HistoryInv'
<1>1. TypeOK /\ {"aborted", "FAILED_DATA", "FAILED_VALIDATION"} \subseteq Result
  BY DEF HistoryInv, Result
<1>2. Moved(w) /\ key' = key /\ pc'[w] = "idle"
  BY <1>1, FinishMoves DEF FetchFails
<1>3. /\ file' = file /\ idx' = idx /\ lock' = lock /\ idxLock' = idxLock
      /\ cached' = cached /\ seen' = seen /\ floor' = floor /\ draft' = draft
      /\ faults' = faults
  BY DEF FetchFails, disk, locks, reads
<1>4. TypeOK'
  BY <1>1, <1>2, <1>3 DEF TypeOK, Moved
<1> QED
  BY <1>2, <1>3, <1>4, PlainStep

LEMMA FetchKeeps ==
    ASSUME HistoryInv, NEW w \in Worker, Fetch(w)
    PROVE  HistoryInv'
<1>1. TypeOK /\ pc[w] = "fetch"
  BY DEF HistoryInv, Fetch
<1>2. PICK c \in Content : content' = [content EXCEPT ![w] = c]
  BY DEF Fetch
<1>3. /\ Moved(w) /\ key' = key
      /\ pc'[w] = "create" /\ op'[w] = "create" /\ content'[w] = c
  BY <1>1, <1>2 DEF Fetch, Moved, TypeOK, Stage, Call
<1>4. /\ file' = file /\ idx' = idx /\ lock' = lock /\ idxLock' = idxLock
      /\ cached' = cached /\ seen' = seen /\ floor' = floor /\ draft' = draft
      /\ faults' = faults
  BY DEF Fetch, disk, locks, reads
<1>5. TypeOK'
  BY <1>1, <1>3, <1>4 DEF TypeOK, Moved
<1> QED
  BY <1>1, <1>3, <1>4, <1>5, PlainStep

(* Create and Transit read the key's events under the monthly lock: they   *)
(* go on to append, keeping the lock, or release it.                       *)
LEMMA LockedReadKeeps ==
    ASSUME HistoryInv, NEW w \in Worker, pc[w] \in {"create", "transit"},
           Moved(w), key' = key,
           file' = file, idx' = idx, idxLock' = idxLock, cached' = cached,
           floor' = floor, draft' = draft, faults' = faults,
           seen' = [seen EXCEPT ![w] = Mine(w)],
           \/ lock' = lock /\ pc'[w] \in {"idle", "load", "index"}
           \/ /\ MonthFree(MyMonth(w))
              /\ lock' = [lock EXCEPT ![MyMonth(w)] = w]
              /\ pc'[w] = "append" /\ op'[w] = op[w] /\ content'[w] = content[w]
              /\ \/ /\ op[w] = "create"
                    /\ content[w] \in Content \ ContentOf(Mine(w))
                    /\ Writable(Mine(w))
                 \/ /\ op[w] \in TransitionCall
                    /\ Mine(w) # {}
                    /\ Target(op[w]) \in Transitions[Status(Mine(w))]
    PROVE  HistoryInv'
<1>1. TypeOK /\ WriterSound(w)
  BY DEF HistoryInv
<1>2. key[w] \in Key /\ MyMonth(w) \in Month /\ Mine(w) \in SUBSET Event
  BY <1>1, MineTyped
<1>3. /\ seen' \in [Worker -> SUBSET Event] /\ seen'[w] = Mine(w)
      /\ \A v \in Worker \ {w} : seen'[v] = seen[v]
  BY <1>1, <1>2 DEF TypeOK
<1>4. lock' \in [Month -> Worker \union {None}]
  BY <1>1, <1>2 DEF TypeOK
<1>5. TypeOK'
  BY <1>1, <1>3, <1>4 DEF TypeOK, Moved
<1>6. Mine(w)' = Mine(w) /\ MyMonth(w)' = MyMonth(w)
  BY <1>2 DEF Mine, EventsOf, MyMonth
<1>7. \A v \in Worker \ {w}, m \in Month : lock[m] = v => lock'[m] = v
  BY <1>1, <1>2, LedgerAssumption DEF MonthFree, TypeOK
<1>8. WriterSound(w)'
  <2>1. CASE pc'[w] \in {"idle", "load", "index"}
    BY <2>1 DEF WriterSound, AppendSound, CreateSound, TransitSound
  <2>2. CASE pc'[w] = "append"
    <3>1. lock'[MyMonth(w)] = w
      BY <2>2, <1>1, <1>2 DEF TypeOK
    <3>2. AppendSound(w)'
      BY <2>2, <3>1, <1>3, <1>6
         DEF AppendSound, Writable, ContentOf, Status
    <3> QED
      BY <2>2, <3>2 DEF WriterSound, CreateSound, TransitSound
  <2> QED
    BY <2>1, <2>2
<1> QED
  BY <1>3, <1>5, <1>7, <1>8, LocalStep DEF Moved

LEMMA CreateKeeps ==
    ASSUME HistoryInv, NEW w \in Worker, Create(w)
    PROVE  HistoryInv'
<1>1. /\ TypeOK /\ pc[w] = "create" /\ op[w] = "create" /\ content[w] \in Content
      /\ "append" \in Stage /\ "index" \in Stage
      /\ "create" \in Call /\ "matched" \in Call /\ "CONFLICT" \in Result
  BY DEF HistoryInv, Create, WriterSound, CreateSound, Stage, Call, Result
<1>2. /\ file' = file /\ idx' = idx /\ idxLock' = idxLock /\ cached' = cached
      /\ floor' = floor /\ draft' = draft /\ faults' = faults
      /\ seen' = [seen EXCEPT ![w] = Mine(w)] /\ MonthFree(MyMonth(w))
  BY DEF Create, disk
<1>3. CASE /\ Fail(w) \/ Goto(w, "index", "matched") \/ Finish(w, "CONFLICT")
           /\ lock' = lock
  <2>1. Moved(w) /\ key' = key /\ pc'[w] \in {"idle", "load", "index"}
    BY <1>1, <1>3, FailMoves, GotoMoves, FinishMoves
  <2> QED
    BY <1>1, <1>2, <1>3, <2>1, LockedReadKeeps
<1>4. CASE /\ content[w] \notin ContentOf(Mine(w)) /\ Writable(Mine(w))
           /\ Goto(w, "append", "create")
           /\ lock' = [lock EXCEPT ![MyMonth(w)] = w]
  <2>1. /\ Moved(w) /\ key' = key /\ pc'[w] = "append" /\ op'[w] = op[w]
        /\ content'[w] = content[w]
    BY <1>1, <1>4, GotoMoves
  <2> QED
    BY <1>1, <1>2, <1>4, <2>1, LockedReadKeeps
<1> QED
  BY <1>3, <1>4 DEF Create

LEMMA TransitKeeps ==
    ASSUME HistoryInv, NEW w \in Worker, Transit(w)
    PROVE  HistoryInv'
<1>1. /\ TypeOK /\ pc[w] = "transit" /\ op[w] \in Call /\ "append" \in Stage
      /\ op[w] \in TransitionCall
  BY DEF HistoryInv, TypeOK, Transit, Stage, WriterSound, TransitSound
<1>2. /\ file' = file /\ idx' = idx /\ idxLock' = idxLock /\ cached' = cached
      /\ floor' = floor /\ draft' = draft /\ faults' = faults
      /\ seen' = [seen EXCEPT ![w] = Mine(w)] /\ MonthFree(MyMonth(w))
  BY DEF Transit, disk
<1>3. CASE ~Accepts(w)
  <2>1. Fail(w) /\ lock' = lock
    BY <1>3 DEF Transit
  <2>2. Moved(w) /\ key' = key /\ pc'[w] \in {"idle", "load", "index"}
    BY <1>1, <2>1, FailMoves
  <2> QED
    BY <1>1, <1>2, <2>1, <2>2, LockedReadKeeps
<1>4. CASE Accepts(w)
  <2>1. /\ Goto(w, "append", op[w]) /\ lock' = [lock EXCEPT ![MyMonth(w)] = w]
        /\ Mine(w) # {} /\ Target(op[w]) \in Transitions[Status(Mine(w))]
    BY <1>4 DEF Transit, Accepts
  <2>2. /\ Moved(w) /\ key' = key /\ pc'[w] = "append" /\ op'[w] = op[w]
        /\ content'[w] = content[w]
    BY <1>1, <2>1, GotoMoves
  <2> QED
    BY <1>1, <1>2, <2>1, <2>2, LockedReadKeeps
<1> QED
  BY <1>3, <1>4

LEMMA CrashKeeps ==
    ASSUME HistoryInv, NEW w \in Worker, Crash(w)
    PROVE  HistoryInv'
<1>1. TypeOK /\ "none" \in Result
  BY DEF HistoryInv, Result
<1>2. Moved(w) /\ key' = key /\ pc'[w] = "idle"
  BY <1>1, FinishMoves DEF Crash
<1>3. /\ file' = file /\ idx' = idx /\ cached' = cached /\ seen' = seen
      /\ floor' = floor
      /\ lock' = [m \in Month |-> IF lock[m] = w THEN None ELSE lock[m]]
  BY DEF Crash, disk
<1>4. /\ lock' \in [Month -> Worker \union {None}]
      /\ idxLock' \in Worker \union {None}
      /\ draft' \in [Worker -> [Key -> Month \union {None}]]
      /\ faults' \in 0..MaxFaults
  BY <1>1, LedgerAssumption DEF Crash, TypeOK, NoEntries
<1>5. TypeOK'
  BY <1>1, <1>2, <1>3, <1>4 DEF TypeOK, Moved
<1>6. \A v \in Worker \ {w}, m \in Month : lock[m] = v => lock'[m] = v
  BY <1>3
<1>7. WriterSound(w)'
  BY <1>2 DEF WriterSound, AppendSound, CreateSound, TransitSound
<1> QED
  BY <1>2, <1>3, <1>5, <1>6, <1>7, LocalStep DEF Moved

LEMMA DamageIndexKeeps ==
    ASSUME HistoryInv, DamageIndex
    PROVE  HistoryInv'
<1>1. TypeOK
  BY DEF HistoryInv
<1>2. UNCHANGED <<file, lock, idxLock, pc, op, key, content, cached, seen, floor,
                  draft, result>>
  BY DEF DamageIndex, locks, job, reads
<1>3. idx' \in [kind : {"ok", "absent", "corrupt"},
                map : [Key -> Month \union {None}]]
  <2>1. NoEntries \in [Key -> Month \union {None}]
    BY DEF NoEntries
  <2>2. CASE \E kind \in IndexFault \ {"stale"} :
               idx' = [kind |-> kind, map |-> NoEntries]
    BY <2>1, <2>2, LedgerAssumption
  <2>3. CASE \E k \in Key, m \in Month \union {None} :
               idx' = Index([idx.map EXCEPT ![k] = m])
    <3>1. PICK k \in Key, m \in Month \union {None} :
             idx' = Index([idx.map EXCEPT ![k] = m])
      BY <2>3
    <3>2. idx.map \in [Key -> Month \union {None}]
      BY <1>1 DEF TypeOK
    <3>3. [idx.map EXCEPT ![k] = m] \in [Key -> Month \union {None}]
      BY <3>2
    <3> QED
      BY <3>1, <3>3 DEF Index
  <2> QED
    BY <2>2, <2>3 DEF DamageIndex
<1>4. faults' \in 0..MaxFaults
  BY <1>1, LedgerAssumption DEF DamageIndex, TypeOK
<1>5. TypeOK'
  BY <1>1, <1>2, <1>3, <1>4 DEF TypeOK
<1> QED
  BY <1>2, <1>5 DEF HistoryInv, LegalHistory, EndedLegal, EventsOf, EndedOf, WriterSound,
     AppendSound, CreateSound, TransitSound, Mine, MyMonth

(* The event of a sound append extends the history of its key.             *)
LEMMA NewEventExtends ==
    ASSUME HistoryInv, NEW w \in Worker, pc[w] = "append"
    PROVE  /\ NewEvent(w) \in Event /\ NewEvent(w).key = key[w]
           /\ NewEvent(w) \notin Mine(w)
           /\ Legal(Mine(w) \union {NewEvent(w)})
<1> DEFINE e == NewEvent(w)
<1>1. TypeOK /\ AppendSound(w)
  BY DEF HistoryInv, WriterSound
<1>2. key[w] \in Key /\ Mine(w) \in SUBSET Event /\ Legal(Mine(w))
  BY <1>1, MineTyped DEF HistoryInv, LegalHistory, Mine
<1>3. seen[w] = Mine(w)
  BY <1>1 DEF AppendSound
<1>4. e.key = key[w] /\ e.prev = Status(Mine(w)) /\ e.by = w
  BY <1>3 DEF NewEvent
<1>5. e \notin Mine(w)
  BY <1>2, <1>4, StatusLast
<1>6. CASE op[w] = "create" /\ Mine(w) = {}
  <2>1. content[w] \in Content
    BY <1>1, <1>6, LedgerAssumption DEF AppendSound, TransitionCall
  <2>2. e.type = "CREATED" /\ e.content = content[w] /\ e.prev = None
    BY <1>3, <1>4, <1>6, StatusNone DEF NewEvent
  <2>3. e \in Event
    BY <1>2, <1>6, <2>1, <2>2 DEF NewEvent, Event, EventType
  <2> QED
    BY <1>2, <1>4, <1>5, <1>6, <2>2, <2>3, LegalExtends
<1>7. CASE op[w] = "create" /\ Mine(w) # {}
  <2>1. content[w] \in Content \ ContentOf(Mine(w)) /\ Writable(Mine(w))
    BY <1>1, <1>3, <1>7 DEF AppendSound, TransitionCall
  <2>2. Status(Mine(w)) = "CREATED"
    BY <2>1, <1>2, <1>7, StatusLast, LedgerAssumption DEF Writable
  <2>3. e.type = "CONFLICT" /\ e.content = content[w] /\ e.prev = "CREATED"
    BY <1>3, <1>4, <1>7, <2>2 DEF NewEvent
  <2>4. e \in Event
    BY <1>2, <2>1, <2>3 DEF NewEvent, Event, EventType, Terminal
  <2>5. "CONFLICT" \in Transitions["CREATED"]
    BY DEF Transitions, EventType, Terminal
  <2> QED
    BY <1>2, <1>4, <1>5, <1>7, <2>1, <2>2, <2>3, <2>4, <2>5, LegalExtends
<1>8. CASE op[w] \in TransitionCall
  <2>1. Mine(w) # {} /\ Target(op[w]) \in Transitions[Status(Mine(w))]
    BY <1>1, <1>3, <1>8 DEF AppendSound, TransitionCall
  <2>2. Status(Mine(w)) \in EventType
    BY <1>2, <2>1, StatusLast
  <2>3. Target(op[w]) \in EventType /\ Target(op[w]) # "CONFLICT"
    BY <1>8 DEF Target, TransitionCall, EventType, Terminal
  <2>4. e.type = Target(op[w]) /\ e.content = None
    BY <1>8 DEF NewEvent, TransitionCall
  <2>5. e \in Event
    BY <1>2, <1>3, <2>2, <2>3, <2>4 DEF NewEvent, Event
  <2> QED
    BY <1>2, <1>4, <1>5, <2>1, <2>3, <2>4, <2>5, LegalExtends
<1> QED
  BY <1>1, <1>6, <1>7, <1>8 DEF AppendSound

(* An append leaves the histories legal, and what is left of them when the *)
(* line without a newline is spoilt later.                                 *)
LEMMA AppendHistories ==
    ASSUME HistoryInv, NEW w \in Worker, pc[w] = "append",
           NEW how \in Outcomes,
           file' = [file EXCEPT ![MyMonth(w)] = Appended(@, NewEvent(w), how)]
    PROVE  /\ file' \in [Month -> FileType]
           /\ LegalHistory' /\ EndedLegal'
           /\ \A k \in Key : MonthOf[k] # MyMonth(w) =>
                 {d \in file'[MonthOf[k]].events : d.key = k} = EventsOf(k)
<1> DEFINE m == MyMonth(w)
           e == NewEvent(w)
           After(k) == {d \in file'[MonthOf[k]].events : d.key = k}
           Left(k) == After(k) \ file'[MonthOf[k]].unended
<1>1. /\ m \in Month /\ e \in Event /\ e.key = key[w] /\ e \notin Mine(w)
      /\ Legal(Mine(w) \union {e})
      /\ file \in [Month -> FileType]
  BY MineTyped, NewEventExtends DEF HistoryInv, TypeOK, FileType
<1>2. /\ file'[m] = Appended(file[m], e, how)
      /\ \A n \in Month \ {m} : file'[n] = file[n]
      /\ file' \in [Month -> FileType]
  BY <1>1, AppendedType
<1>3. \A k \in Key : Legal(EventsOf(k)) /\ Legal(EndedOf(k)) /\ MonthOf[k] \in Month
  BY LedgerAssumption DEF HistoryInv, LegalHistory, EndedLegal
<1>4. ASSUME NEW k \in Key PROVE Legal(After(k)) /\ Legal(Left(k))
  <2>1. CASE file'[MonthOf[k]] = file[MonthOf[k]]
    BY <1>3, <2>1 DEF EventsOf, EndedOf
  <2>2. CASE /\ MonthOf[k] = m
             /\ file'[m].events = file[m].events \ file[m].unended
             /\ file'[m].unended = {}
    <3>1. After(k) = EndedOf(k) /\ Left(k) = EndedOf(k)
      BY <2>2 DEF EventsOf, EndedOf
    <3> QED
      BY <1>3, <3>1
  <2>3. CASE /\ MonthOf[k] = m
             /\ file'[m].events = file[m].events \union {e}
             /\ file'[m].unended \subseteq {e}
    <3>1. CASE k = key[w]
      <4>1. After(k) = Mine(w) \union {e}
        BY <1>1, <2>3, <3>1 DEF EventsOf, Mine
      <4>2. Left(k) = Mine(w) \union {e} \/ Left(k) = Mine(w)
        BY <1>1, <2>3, <4>1
      <4> QED
        BY <1>1, <1>3, <3>1, <4>1, <4>2 DEF Mine
    <3>2. CASE k # key[w]
      <4>1. After(k) = EventsOf(k) /\ Left(k) = EventsOf(k)
        BY <1>1, <2>3, <3>2 DEF EventsOf
      <4> QED
        BY <1>3, <4>1
    <3> QED
      BY <3>1, <3>2
  <2>4. \/ file'[m] = file[m]
        \/ /\ file'[m].events = file[m].events \ file[m].unended
           /\ file'[m].unended = {}
        \/ /\ file'[m].events = file[m].events \union {e}
           /\ file'[m].unended \subseteq {e}
    BY <1>2, AppendedEvents
  <2> HIDE DEF m, e, After, Left
  <2> QED
    BY <1>2, <1>3, <2>1, <2>2, <2>3, <2>4
<1>5. LegalHistory' /\ EndedLegal'
  BY <1>4 DEF LegalHistory, EndedLegal, EventsOf, EndedOf
<1> QED
  BY <1>2, <1>3, <1>5 DEF EventsOf

LEMMA AppendMoves ==
    ASSUME HistoryInv, NEW w \in Worker, Append(w)
    PROVE  Moved(w) /\ pc'[w] \in {"idle", "load", "index"} /\ key' = key
<1>1. /\ TypeOK
      /\ {"idle", "load", "index"} \subseteq Stage
      /\ {"created", "complete", "recomplete"} \subseteq Call
      /\ {"CONFLICT", "COMPLETED", "FAILED_VALIDATION"} \subseteq Result
  BY DEF HistoryInv, Stage, Call, Result
<1>2. op[w] \in {"create"} \union TransitionCall
  BY DEF HistoryInv, WriterSound, AppendSound, Append
<1>3. AfterAppend(w) =>
        \/ \E status \in Result : Finish(w, status)
        \/ \E stage \in {"load", "index"}, call \in Call : Goto(w, stage, call)
  BY <1>1, <1>2 DEF AfterAppend, TransitionCall
<1>4. AfterAppend(w) \/ Fail(w)
  BY DEF Append
<1> QED
  BY <1>1, <1>3, <1>4, FinishMoves, GotoMoves, FailMoves

LEMMA AppendKeeps ==
    ASSUME HistoryInv, NEW w \in Worker, Append(w)
    PROVE  HistoryInv'
<1> DEFINE m == MyMonth(w)
<1>1. /\ TypeOK /\ pc[w] = "append" /\ lock[m] = w /\ m \in Month
      /\ \A v \in Worker : key[v] \in Key /\ MyMonth(v) \in Month
  BY MineTyped DEF HistoryInv, Append, WriterSound, AppendSound
<1>2. PICK how \in Outcomes :
         /\ Harm(how)
         /\ file' = [file EXCEPT ![m] = Appended(@, NewEvent(w), how)]
  BY DEF Append, Outcomes
<1>3. /\ lock' = [lock EXCEPT ![m] = None]
      /\ idx' = idx /\ idxLock' = idxLock
      /\ cached' = cached /\ seen' = seen /\ floor' = floor /\ draft' = draft
  BY DEF Append, reads
<1>4. Moved(w) /\ pc'[w] \in {"idle", "load", "index"} /\ key' = key
  BY AppendMoves
<1>5. /\ file' \in [Month -> FileType] /\ LegalHistory' /\ EndedLegal'
      /\ \A k \in Key : MonthOf[k] # m =>
            {d \in file'[MonthOf[k]].events : d.key = k} = EventsOf(k)
  BY <1>1, <1>2, AppendHistories
<1>6. TypeOK'
  <2>1. lock' \in [Month -> Worker \union {None}]
    BY <1>1, <1>3 DEF TypeOK
  <2>2. faults' \in 0..MaxFaults
    BY <1>1, <1>2, LedgerAssumption DEF Harm, TypeOK
  <2> QED
    BY <1>1, <1>3, <1>4, <1>5, <2>1, <2>2 DEF TypeOK, FileType, Moved
<1>7. ASSUME NEW v \in Worker \ {w} PROVE WriterSound(v)'
  <2>1. /\ WriterSound(v) /\ pc'[v] = pc[v] /\ op'[v] = op[v]
        /\ content'[v] = content[v] /\ MyMonth(v)' = MyMonth(v)
    BY <1>4 DEF HistoryInv, Moved, MyMonth
  <2>2. CASE pc[v] = "append"
    <3>1. lock[MyMonth(v)] = v /\ MyMonth(v) # m
      BY <1>1, <2>1, <2>2 DEF WriterSound, AppendSound
    <3>2. Mine(v)' = Mine(v)
      BY <1>1, <1>4, <1>5, <3>1 DEF Mine, EventsOf, MyMonth
    <3>3. lock'[MyMonth(v)] = v
      BY <1>1, <1>3, <3>1 DEF TypeOK
    <3> QED
      BY <1>3, <2>1, <2>2, <3>2, <3>3
         DEF WriterSound, AppendSound, CreateSound, TransitSound
  <2>3. CASE pc[v] # "append"
    BY <2>1, <2>3 DEF WriterSound, AppendSound, CreateSound, TransitSound
  <2> QED
    BY <2>2, <2>3
<1>8. WriterSound(w)'
  BY <1>4 DEF WriterSound, AppendSound, CreateSound, TransitSound
<1> QED
  BY <1>5, <1>6, <1>7, <1>8 DEF HistoryInv

-----------------------------------------------------------------------------
LEMMA InitKeeps == Init => HistoryInv
<1> SUFFICES ASSUME Init PROVE HistoryInv
  OBVIOUS
<1>1. TypeOK
  <2>1. file \in [Month -> [events : SUBSET Event, unended : SUBSET Event,
                            tail : {"ended", "torn", "junk", "corrupt"}]]
    BY DEF Init, EmptyFile
  <2>2. idx \in [kind : {"ok", "absent", "corrupt"},
                 map : [Key -> Month \union {None}]]
    <3>1. NoEntries \in [Key -> Month \union {None}]
      BY DEF NoEntries
    <3> QED
      BY <3>1 DEF Init
  <2>3. draft \in [Worker -> [Key -> Month \union {None}]]
    BY DEF Init, NoEntries
  <2>4. faults \in 0..MaxFaults
    BY LedgerAssumption DEF Init
  <2> QED
    BY <2>1, <2>2, <2>3, <2>4 DEF Init, TypeOK, Stage, Call, Result
<1>2. \A k \in Key : EventsOf(k) = {} /\ EndedOf(k) = {}
  BY LedgerAssumption DEF Init, EventsOf, EndedOf, EmptyFile
<1>3. LegalHistory /\ EndedLegal
  BY <1>2 DEF LegalHistory, EndedLegal, Legal, Unbroken
<1>4. \A w \in Worker : WriterSound(w)
  BY DEF Init, WriterSound, AppendSound, CreateSound, TransitSound
<1> QED
  BY <1>1, <1>3, <1>4 DEF HistoryInv

LEMMA NextKeeps ==
    ASSUME HistoryInv, [Next]_vars
    PROVE  HistoryInv'
<1>1. ASSUME NEW w \in Worker, Step(w) PROVE HistoryInv'
  BY <1>1, LoadIndexKeeps, ScanKeeps, RereadKeeps, DecideKeeps, ReadIndexKeeps,
     SaveIndexKeeps, FetchFailsKeeps, FetchKeeps, CreateKeeps, TransitKeeps,
     AppendKeeps DEF Step
<1>2. ASSUME NEW w \in Worker, Crash(w) PROVE HistoryInv'
  BY <1>2, CrashKeeps
<1>3. ASSUME NEW w \in Worker, NEW k \in Key, Begin(w, k) PROVE HistoryInv'
  BY <1>3, BeginKeeps
<1>4. CASE DamageIndex
  BY <1>4, DamageIndexKeeps
<1>5. CASE UNCHANGED vars
  BY <1>5 DEF vars, disk, locks, job, reads, HistoryInv, TypeOK,
     LegalHistory, EndedLegal, EventsOf, EndedOf, WriterSound, AppendSound, CreateSound, TransitSound,
     Mine, MyMonth
<1> QED
  BY <1>1, <1>2, <1>3, <1>4, <1>5 DEF Next

(* The invariant of the histories, under any number of overlapping         *)
(* collectors, crashes, write errors, torn appends and damages to the      *)
(* index.                                                                  *)
THEOREM HistoryInvariance == Spec => []HistoryInv
<1>1. HistoryInv /\ [Next]_vars => HistoryInv'
  BY NextKeeps
<1> QED
  BY <1>1, InitKeeps, PTL DEF Spec

(* Every variable keeps its range.                                         *)
THEOREM TypesKept == Spec => []TypeOK
<1>1. HistoryInv => TypeOK
  BY DEF HistoryInv
<1> QED
  BY <1>1, HistoryInvariance, PTL

(* The events of a key are always one run of the status machine of         *)
(* _TRANSITIONS, in an unbroken chain of hashes, whatever the file system  *)
(* leaves of an append.                                                    *)
THEOREM HistoriesLegal == Spec => []LegalHistory
<1>1. HistoryInv => LegalHistory
  BY DEF HistoryInv
<1> QED
  BY <1>1, HistoryInvariance, PTL
=============================================================================

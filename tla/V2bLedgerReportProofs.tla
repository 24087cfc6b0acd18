------------------------ MODULE V2bLedgerReportProofs -----------------------
(***************************************************************************)
(* What the V2B ledger promises where no append stops just before its      *)
(* newline: nothing is lost, lookups are complete, and the observations    *)
(* are those of ObservationMachine.  What runs report is true where an     *)
(* append is completed or not started.                                     *)
(***************************************************************************)
EXTENDS V2bLedgerRefinement, V2bLedgerProofs

USE LedgerAssumption

-----------------------------------------------------------------------------
(* The ledger grows by one event at a time.                                *)
LEMMA AppendedLines ==
    ASSUME NEW f, f.unended = {}, NEW e, NEW how \in Outcomes, how # "whole"
    PROVE  LET g == Appended(f, e, how) IN
           /\ g.unended = {}
           /\ g.events = f.events \/ g.events = f.events \union {e}
BY DEF Appended, Joins

(* What the events of a key become.                                        *)
LEMMA EventsStep ==
    ASSUME LinesEnd, HistoryInv, LinesEnded, [Next]_vars
    PROVE  LET After(k) == {d \in file'[MonthOf[k]].events : d.key = k} IN
           /\ LinesEnded'
           /\ \/ \A k \in Key : After(k) = EventsOf(k)
              \/ \E w \in Worker :
                    /\ pc[w] = "append"
                    /\ After(key[w]) = EventsOf(key[w]) \union {NewEvent(w)}
                    /\ \A k \in Key \ {key[w]} : After(k) = EventsOf(k)
<1> DEFINE After(k) == {d \in file'[MonthOf[k]].events : d.key = k}
<1>1. CASE file' = file
  BY <1>1 DEF LinesEnded, EventsOf
<1>2. ASSUME NEW w \in Worker, Append(w)
      PROVE  /\ LinesEnded'
             /\ \/ \A k \in Key : After(k) = EventsOf(k)
                \/ /\ After(key[w]) = EventsOf(key[w]) \union {NewEvent(w)}
                   /\ \A k \in Key \ {key[w]} : After(k) = EventsOf(k)
  <2> DEFINE m == MyMonth(w)
             e == NewEvent(w)
  <2>1. /\ pc[w] = "append" /\ key[w] \in Key /\ m \in Month
        /\ m = MonthOf[key[w]] /\ e.key = key[w] /\ DOMAIN file = Month
    BY <1>2, MineTyped DEF HistoryInv, TypeOK, Append, MyMonth, NewEvent
  <2>2. PICK how \in Outcomes :
           file' = [file EXCEPT ![m] = Appended(@, e, how)]
    BY <1>2 DEF Append, Outcomes
  <2>3. how # "whole" /\ file[m].unended = {}
    BY <2>1 DEF LinesEnd, LinesEnded, Outcomes
  <2>4. /\ file'[m].unended = {}
        /\ \/ file'[m].events = file[m].events
           \/ file'[m].events = file[m].events \union {e}
    BY <2>1, <2>2, <2>3, AppendedLines
  <2>5. \A n \in Month \ {m} : file'[n] = file[n]
    BY <2>1, <2>2
  <2>6. LinesEnded'
    BY <2>4, <2>5 DEF LinesEnded
  <2>7. \A k \in Key : MonthOf[k] \in Month
    OBVIOUS
  <2>8. CASE file'[m].events = file[m].events
    <3>1. \A n \in Month : file'[n].events = file[n].events
      BY <2>5, <2>8
    <3> QED
      BY <2>6, <2>7, <3>1 DEF EventsOf
  <2>9. CASE file'[m].events = file[m].events \union {e}
    <3>1. After(key[w]) = EventsOf(key[w]) \union {e}
      BY <2>1, <2>9 DEF EventsOf
    <3>2. ASSUME NEW k \in Key \ {key[w]} PROVE After(k) = EventsOf(k)
      <4>1. MonthOf[k] = m \/ file'[MonthOf[k]] = file[MonthOf[k]]
        BY <2>5, <2>7
      <4> QED
        BY <2>1, <2>9, <3>2, <4>1 DEF EventsOf
    <3> QED
      BY <2>6, <3>1, <3>2
  <2> QED
    BY <2>4, <2>8, <2>9
<1>3. ASSUME NEW w \in Worker, Step(w) PROVE file' = file \/ Append(w)
  BY <1>3 DEF Step, LoadIndex, Scan, Reread, Decide, ReadIndex, SaveIndex,
     FetchFails, Fetch, Create, Transit, disk
<1>4. ASSUME NEW w \in Worker, Crash(w) \/ \E j \in Key : Begin(w, j)
      PROVE  file' = file
  BY <1>4 DEF Crash, Begin, disk
<1>5. DamageIndex \/ UNCHANGED vars => file' = file
  BY DEF DamageIndex, vars, disk
<1>6. file' = file \/ \E w \in Worker : Append(w)
  BY <1>3, <1>4, <1>5 DEF Next
<1> HIDE DEF After
<1>7. \A w \in Worker : Append(w) => pc[w] = "append"
  BY DEF Append
<1> QED
  BY <1>1, <1>2, <1>6, <1>7 DEF After

(* No event is ever lost.                                                  *)
LEMMA EventsKept ==
    ASSUME LinesEnd, HistoryInv, LinesEnded, [Next]_vars, NEW k \in Key
    PROVE  EventsOf(k) \subseteq {d \in file'[MonthOf[k]].events : d.key = k}
BY EventsStep

-----------------------------------------------------------------------------
(* Lookups.                                                                *)

(* A lookup begins by noting what is there and ends by reading all of it;  *)
(* no other step begins or ends one.                                       *)
LEMMA LookupMoves ==
    ASSUME HistoryInv, NEW w \in Worker, Step(w)
    PROVE  /\ key' = key
           /\ \A v \in Worker \ {w} :
                 pc'[v] = pc[v] /\ floor'[v] = floor[v] /\ seen'[v] = seen[v]
           /\ \/ floor'[w] = Mine(w) /\ pc'[w] # "answer"
              \/ /\ floor'[w] = floor[w] /\ pc[w] \notin {"idle", "load"}
                 /\ pc'[w] = "answer" => seen'[w] = Mine(w) /\ file' = file
<1>1. /\ TypeOK /\ op[w] \in Call /\ Mine(w) \in SUBSET Event
      /\ {"idle", "load", "scan", "index", "save", "reread", "answer", "fetch",
          "create", "transit", "append"} \subseteq Stage
      /\ {"preflight", "create", "created", "matched", "status", "advance",
          "collect", "complete", "fail", "recollect", "recomplete"} \subseteq Call
  BY MineTyped DEF HistoryInv, TypeOK, Stage, Call
<1> DEFINE Leaves == Moved(w) /\ key' = key /\ pc'[w] # "answer"
<1>2. Fail(w) => Leaves
  BY <1>1, FailMoves
<1>3. ASSUME NEW stage \in Stage \ {"answer"}, NEW call \in Call, Goto(w, stage, call)
      PROVE  Leaves
  BY <1>1, <1>3, GotoMoves
<1>4. ASSUME NEW status \in Result, Finish(w, status) PROVE Leaves
  BY <1>1, <1>4, FinishMoves
<1>5. ASSUME LoadIndex(w) PROVE Leaves
  <2>1. Fail(w) \/ Goto(w, "scan", op[w])
    BY <1>5 DEF LoadIndex
  <2> QED
    BY <1>1, <1>2, <1>3, <2>1
<1>6. ASSUME Scan(w) \/ Reread(w)
      PROVE  \/ Leaves
             \/ /\ Moved(w) /\ key' = key /\ file' = file
                /\ seen' = [seen EXCEPT ![w] = Mine(w)]
  <2>1. \/ Fail(w) \/ Goto(w, "index", op[w])
        \/ /\ Goto(w, "answer", op[w]) /\ file' = file
           /\ seen' = [seen EXCEPT ![w] = Mine(w)]
    BY <1>6 DEF Scan, Found, Reread, disk
  <2> QED
    BY <1>1, <1>2, <1>3, <2>1, GotoMoves
<1>7. ASSUME Decide(w) PROVE Leaves
  <2>1. \/ \E status \in Result : Finish(w, status)
        \/ \E stage \in {"load", "fetch", "transit"}, call \in Call :
              Goto(w, stage, call)
        \/ Fail(w)
    BY <1>1, <1>7
       DEF Decide, Preflight, CheckStatus, Advance, Result
  <2> QED
    BY <1>1, <1>2, <1>3, <1>4, <2>1
<1>8. ASSUME ReadIndex(w) \/ SaveIndex(w) PROVE Leaves
  <2>1. AfterIndex(w) =>
           \E stage \in {"load", "reread"}, call \in Call : Goto(w, stage, call)
    BY <1>1 DEF AfterIndex
  <2>2. \/ Fail(w)
        \/ \E stage \in {"load", "reread", "save", "fetch"}, call \in Call :
              Goto(w, stage, call)
    BY <1>1, <1>8, <2>1 DEF ReadIndex, SaveIndex
  <2> QED
    BY <1>1, <1>2, <1>3, <2>2
<1>9. ASSUME FetchFails(w) PROVE Leaves
  BY <1>4, <1>9 DEF FetchFails, Result
<1>10. ASSUME Fetch(w) PROVE Leaves
  BY <1>1, <1>10 DEF Fetch, Moved, TypeOK
<1>11. ASSUME Create(w) \/ Transit(w) PROVE Leaves
  <2>1. \/ Fail(w) \/ Finish(w, "CONFLICT")
        \/ \E stage \in {"index", "append"}, call \in Call : Goto(w, stage, call)
    BY <1>1, <1>11 DEF Create, Transit
  <2> QED
    BY <1>1, <1>2, <1>3, <1>4, <2>1 DEF Result
<1>12. ASSUME Append(w) PROVE Leaves
  BY <1>12, AppendMoves
<1>13. /\ Moved(w) /\ key' = key
       /\ pc'[w] = "answer" =>
             file' = file /\ seen' = [seen EXCEPT ![w] = Mine(w)]
  BY <1>5, <1>6, <1>7, <1>8, <1>9, <1>10, <1>11, <1>12 DEF Step
<1>14. /\ seen' = seen \/ seen' = [seen EXCEPT ![w] = Mine(w)]
       /\ \/ floor' = [floor EXCEPT ![w] = Mine(w)] /\ LoadIndex(w)
          \/ floor' = floor /\ pc[w] \notin {"idle", "load"}
  BY DEF Step, LoadIndex, Scan, Found, Reread, Decide, ReadIndex, SaveIndex,
     FetchFails, Fetch, Create, Transit, Append, reads
<1> HIDE DEF Leaves
<1>15. LoadIndex(w) => pc'[w] # "answer"
  BY <1>5 DEF Leaves
<1> QED
  BY <1>1, <1>13, <1>14, <1>15 DEF TypeOK, Moved

LEMMA LookupKept ==
    ASSUME LinesEnd, LookupInv, [Next]_vars
    PROVE  LookupInv'
<1> DEFINE After(k) == {d \in file'[MonthOf[k]].events : d.key = k}
<1>1. HistoryInv /\ HistoryInv' /\ LinesEnded' /\ TypeOK
  BY NextKeeps, EventsStep DEF LookupInv, HistoryInv
<1>2. \A k \in Key : EventsOf(k) \subseteq After(k)
  BY EventsKept DEF LookupInv
<1>3. ASSUME NEW v \in Worker, key'[v] = key[v]
      PROVE  Mine(v) \subseteq Mine(v)'
  <2>1. key[v] \in Key
    BY <1>1 DEF TypeOK
  <2>2. Mine(v)' = After(key[v]) /\ Mine(v) = EventsOf(key[v])
    BY <1>3 DEF Mine, EventsOf
  <2> QED
    BY <1>2, <2>1, <2>2
<1> HIDE DEF After
<1>4. ASSUME NEW v \in Worker, key'[v] = key[v], floor'[v] = floor[v],
             pc'[v] \in {"idle", "load"} \/ pc[v] \notin {"idle", "load"},
             pc'[v] = "answer" => pc[v] = "answer" /\ seen'[v] = seen[v]
      PROVE  FloorKept(v)' /\ LookupComplete(v)'
  <2>1. FloorKept(v) /\ LookupComplete(v)
    BY DEF LookupInv
  <2> QED
    BY <1>3, <1>4, <2>1 DEF FloorKept, LookupComplete
<1>5. ASSUME NEW w \in Worker, Step(w), NEW v \in Worker
      PROVE  FloorKept(v)' /\ LookupComplete(v)'
  <2>1. CASE v # w
    BY <1>1, <1>4, <1>5, <2>1, LookupMoves
  <2>2. CASE v = w
    <3>1. Mine(w) \subseteq Mine(w)'
      BY <1>1, <1>3, <1>5, LookupMoves
    <3>2. CASE floor'[w] = Mine(w) /\ pc'[w] # "answer"
      BY <2>2, <3>1, <3>2 DEF FloorKept, LookupComplete
    <3>3. CASE /\ floor'[w] = floor[w] /\ pc[w] \notin {"idle", "load"}
               /\ pc'[w] = "answer" => seen'[w] = Mine(w) /\ file' = file
      <4>1. floor[w] \subseteq Mine(w)
        BY <3>3 DEF LookupInv, FloorKept
      <4>2. file' = file => Mine(w)' = Mine(w)
        BY <1>1, <1>5, LookupMoves DEF Mine, EventsOf
      <4> QED
        BY <2>2, <3>1, <3>3, <4>1, <4>2 DEF FloorKept, LookupComplete
    <3> QED
      BY <1>1, <1>5, <3>2, <3>3, LookupMoves
  <2> QED
    BY <2>1, <2>2
<1>6. ASSUME NEW w \in Worker, Crash(w), NEW v \in Worker
      PROVE  FloorKept(v)' /\ LookupComplete(v)'
  <2>1. key' = key /\ floor' = floor /\ seen' = seen
        /\ pc' = [pc EXCEPT ![w] = "idle"]
    BY <1>6 DEF Crash, Finish
  <2> QED
    BY <1>1, <1>4, <2>1 DEF TypeOK
<1>7. ASSUME NEW w \in Worker, NEW k \in Key, Begin(w, k), NEW v \in Worker
      PROVE  FloorKept(v)' /\ LookupComplete(v)'
  <2>1. /\ key' = [key EXCEPT ![w] = k] /\ floor' = floor /\ seen' = seen
        /\ pc' = [pc EXCEPT ![w] = "load"]
    BY <1>7 DEF Begin, reads
  <2>2. CASE v = w
    <3>1. pc'[v] = "load"
      BY <1>1, <2>1, <2>2 DEF TypeOK
    <3> QED
      BY <3>1 DEF FloorKept, LookupComplete
  <2>3. CASE v # w
    BY <1>1, <1>4, <2>1, <2>3 DEF TypeOK
  <2> QED
    BY <2>2, <2>3
<1>8. ASSUME DamageIndex \/ UNCHANGED vars, NEW v \in Worker
      PROVE  FloorKept(v)' /\ LookupComplete(v)'
  <2>1. UNCHANGED <<pc, key, floor, seen>>
    BY <1>8 DEF DamageIndex, vars, job, reads
  <2> QED
    BY <1>4, <2>1
<1>9. \A v \in Worker : FloorKept(v)' /\ LookupComplete(v)'
  BY <1>5, <1>6, <1>7, <1>8 DEF Next
<1> QED
  BY <1>1, <1>9 DEF LookupInv

LEMMA LookupBegins == Init => LookupInv
<1>1. Init => LinesEnded
  BY DEF Init, LinesEnded, EmptyFile
<1>2. Init => \A w \in Worker : FloorKept(w) /\ LookupComplete(w)
  BY DEF Init, FloorKept, LookupComplete
<1> QED
  BY <1>1, <1>2, InitKeeps DEF LookupInv

(* Where lines are ended, lookups are sound under any number of            *)
(* overlapping collectors, crashes, torn appends and damages to the index. *)
THEOREM LookupInvariance == LinesEnd /\ Spec => []LookupInv
<1>1. CASE LinesEnd
  <2>1. LookupInv /\ [Next]_vars => LookupInv'
    BY <1>1, LookupKept
  <2> QED
    BY <2>1, LookupBegins, PTL DEF Spec
<1> QED
  BY <1>1

(* A lookup misses nothing that was there when it began, however stale the *)
(* index is (_resolve_partition_for_key).                                  *)
THEOREM LookupsAnswered == LinesEnd /\ Spec => []LookupsComplete
<1>1. LookupInv => LookupsComplete
  BY DEF LookupInv, LookupsComplete
<1> QED
  BY <1>1, LookupInvariance, PTL

-----------------------------------------------------------------------------
(* What an append does to the status of an observation.                    *)

(* An event that extends a history decides its status.                     *)
LEMMA StatusExtended ==
    ASSUME NEW S \in SUBSET Event, Legal(S), S # {}, NEW e \in Event,
           e.prev = Status(S), e.type \in Transitions[Status(S)],
           Legal(S \union {e})
    PROVE  Status(S \union {e}) = e.type
<1> DEFINE T == S \union {e}
           s == Status(S)
<1>1. PICK l \in T : l.type = Status(T) /\ \A d \in T : d.prev # l.type
  BY StatusLast
<1>2. /\ s \in EventType
      /\ \E d \in S : d.type = s
      /\ \A d \in S : d.prev # s
  BY StatusLast
<1>3. PICK last \in S : last.type = s
  BY <1>2
<1>4. s \in {"CREATED", "COLLECTING"}
  BY <1>2 DEF Transitions, Terminal, EventType
<1>5. ASSUME NEW d \in S
      PROVE  /\ d.type = "CREATED" => d.prev = None
             /\ d.type # "CREATED" => d.prev \in {"CREATED", "COLLECTING"}
             /\ d.type = "COLLECTING" => d.prev = "CREATED"
             /\ d.prev = "COLLECTING" => \E c \in S : c.type = "COLLECTING"
  <2>1. d.type \in EventType /\ d.prev \in EventType \union {None}
    BY DEF Event
  <2>2. CASE d.type = "CREATED"
    BY <2>2, LedgerAssumption DEF Legal, EventType
  <2>3. CASE d.type # "CREATED"
    <3>1. d.prev \in EventType /\ d.type \in Transitions[d.prev]
      BY <2>1, <2>3 DEF Legal
    <3>2. d.prev # None
      BY <3>1, LedgerAssumption
    <3> QED
      BY <2>3, <3>1, <3>2 DEF Transitions, Terminal, EventType, Legal, Unbroken
  <2> QED
    BY <2>2, <2>3
<1>6. ASSUME l \in S PROVE FALSE
  <2>1. l.type # s
    BY <1>1
  <2>2. CASE s = "CREATED"
    <3>1. l.prev = "COLLECTING"
      BY <1>2, <1>5, <1>6, <2>1, <2>2
    <3>2. PICK c \in S : c.type = "COLLECTING"
      BY <1>5, <1>6, <3>1
    <3> QED
      BY <1>2, <1>5, <2>2, <3>2
  <2>3. CASE s = "COLLECTING"
    <3>1. last.prev = "CREATED"
      BY <1>3, <1>5, <2>3
    <3>2. l.type # "CREATED"
      BY <1>1, <3>1
    <3>3. l.prev = "CREATED"
      BY <1>2, <1>5, <1>6, <2>3, <3>2
    <3>4. l = last
      BY <1>6, <3>1, <3>3 DEF Legal, Unbroken
    <3> QED
      BY <1>3, <2>1, <3>4
  <2> QED
    BY <1>4, <2>2, <2>3
<1> QED
  BY <1>1, <1>6

(* The first event of a history is its status.                             *)
LEMMA StatusFirst ==
    ASSUME NEW e \in Event, Legal({e})
    PROVE  Status({e}) = e.type
BY StatusLast

(* What a collector is about to append, and to which history.              *)
LEMMA AppendFacts ==
    ASSUME HistoryInv, NEW w \in Worker, pc[w] = "append"
    PROVE  LET S == EventsOf(key[w])
               e == NewEvent(w) IN
           /\ key[w] \in Key /\ e \in Event /\ S \in SUBSET Event
           /\ Status(S \union {e}) = e.type
           /\ \/ /\ S = {} /\ e.type = "CREATED" /\ e.content \in Content
              \/ /\ Status(S) = "CREATED" /\ e.type = "CONFLICT"
                 /\ e.content \in Content \ ContentOf(S)
              \/ /\ Status(S) \in {"CREATED", "COLLECTING"}
                 /\ e.type \in Transitions[Status(S)]
                 /\ e.type \in {"COLLECTING", "COMPLETED", "FAILED_VALIDATION"}
                 /\ e.content = None
<1> DEFINE S == EventsOf(key[w])
           e == NewEvent(w)
<1>1. /\ TypeOK /\ AppendSound(w) /\ Mine(w) = S /\ seen[w] = S
      /\ key[w] \in Key /\ S \in SUBSET Event /\ Legal(S)
      /\ e \in Event /\ Legal(S \union {e})
      /\ e.prev = Status(S)
  BY MineTyped, NewEventExtends
     DEF HistoryInv, WriterSound, AppendSound, LegalHistory, Mine, NewEvent
<1>2. S # {} => Status(S) \in EventType /\ Status(S) # None
  BY <1>1, StatusLast, LedgerAssumption
<1>3. CASE op[w] = "create"
  <2>1. content[w] \in Content \ ContentOf(S) /\ Writable(S)
    BY <1>1, <1>3 DEF AppendSound, TransitionCall
  <2>2. CASE S = {}
    BY <1>1, <1>3, <2>1, <2>2, StatusFirst DEF NewEvent
  <2>3. CASE S # {}
    <3>1. Status(S) = "CREATED"
      BY <1>2, <2>1, <2>3 DEF Writable
    <3>2. e.type = "CONFLICT" /\ e.content = content[w]
      BY <1>1, <1>3, <2>3 DEF NewEvent
    <3>3. e.type \in Transitions[Status(S)]
      <4>1. "CREATED" \in EventType
        BY DEF EventType
      <4>2. Transitions["CREATED"] = {"COLLECTING", "CONFLICT"}
        BY <4>1 DEF Transitions, Terminal
      <4> QED
        BY <3>1, <3>2, <4>2
    <3> QED
      BY <1>1, <2>1, <2>3, <3>1, <3>2, <3>3, StatusExtended
  <2> QED
    BY <2>2, <2>3
<1>4. CASE op[w] \in TransitionCall
  <2>1. S # {} /\ Target(op[w]) \in Transitions[Status(S)] /\ op[w] # "create"
    BY <1>1, <1>4 DEF AppendSound, TransitionCall
  <2>2. e.type = Target(op[w]) /\ e.content = None
    BY <2>1 DEF NewEvent
  <2>3. e.type \in {"COLLECTING", "COMPLETED", "FAILED_VALIDATION"}
    BY <1>4, <2>2 DEF Target, TransitionCall
  <2>4. Status(S) \in {"CREATED", "COLLECTING"}
    BY <1>2, <2>1 DEF Transitions, Terminal, EventType
  <2> QED
    BY <1>1, <2>1, <2>2, <2>3, <2>4, StatusExtended
<1> QED
  BY <1>1, <1>3, <1>4 DEF AppendSound

(* Whatever happens to a file, an observation in a terminal state gets no  *)
(* further event where lines are ended.                                    *)
LEMMA TerminalStep ==
    ASSUME LinesEnd, HistoryInv, LinesEnded, [Next]_vars, NEW k \in Key,
           Status(EventsOf(k)) \in Terminal
    PROVE  EventsOf(k)' = EventsOf(k)
<1> DEFINE After(j) == {d \in file'[MonthOf[j]].events : d.key = j}
<1>1. ASSUME NEW w \in Worker, pc[w] = "append" PROVE key[w] # k
  BY <1>1, AppendFacts, StatusNone, LedgerAssumption DEF Terminal, EventType
<1>2. EventsOf(k)' = After(k)
  BY DEF EventsOf
<1> HIDE DEF After
<1>3. After(k) = EventsOf(k)
  BY <1>1, EventsStep DEF After
<1> QED
  BY <1>2, <1>3

(* An observation in a terminal state is never written again.              *)
THEOREM TerminalNeverLeft == LinesEnd /\ Spec => TerminalIsFinal
<1>1. CASE LinesEnd
  <2>1. LookupInv /\ [Next]_vars =>
          [\A k \in Key : Status(EventsOf(k)) \in Terminal =>
                EventsOf(k)' = EventsOf(k)]_vars
    BY <1>1, TerminalStep DEF LookupInv
  <2>2. Spec => []LookupInv
    BY <1>1, LookupInvariance
  <2> QED
    BY <2>1, <2>2, PTL DEF Spec, TerminalIsFinal
<1> QED
  BY <1>1

-----------------------------------------------------------------------------
(* The refinement.                                                         *)

(* Nothing but its creation is in the history of an observation that is    *)
(* still CREATED.                                                          *)
LEMMA CreatedAlone ==
    ASSUME NEW S \in SUBSET Event, Legal(S), Status(S) = "CREATED"
    PROVE  \A d \in S : d.type = "CREATED"
<1>1. S # {}
  BY StatusNone, LedgerAssumption DEF EventType
<1>2. \A d \in S : d.prev # "CREATED"
  BY <1>1, StatusLast
<1> SUFFICES ASSUME NEW d \in S, d.type # "CREATED" PROVE FALSE
  OBVIOUS
<1>3. ASSUME NEW c \in S, c.type # "CREATED"
      PROVE  c.prev \in EventType /\ c.type \in Transitions[c.prev]
  BY <1>3 DEF Legal, Event
<1>4. d.prev = "COLLECTING"
  BY <1>2, <1>3 DEF Transitions, Terminal, EventType
<1>5. PICK c \in S : c.type = "COLLECTING"
  BY <1>4, LedgerAssumption DEF Legal, Unbroken, EventType
<1>6. c.prev = "CREATED"
  BY <1>3, <1>5 DEF Transitions, Terminal, EventType
<1> QED
  BY <1>2, <1>6

(* The two ways in which a variable of the machine changes.                *)
LEMMA Projected ==
    ASSUME NEW k \in Key,
           \A j \in Key \ {k} :
              {d \in file'[MonthOf[j]].events : d.key = j} = EventsOf(j)
    PROVE  LET now == {d \in file'[MonthOf[k]].events : d.key = k}
               contents == {e.content : e \in {d \in now : d.content # None}} IN
           /\ [j \in Key |-> Status(EventsOf(j))]' =
                 [[j \in Key |-> Status(EventsOf(j))] EXCEPT ![k] = Status(now)]
           /\ [j \in Key |-> ContentsOf(j)]' =
                 [[j \in Key |-> ContentsOf(j)] EXCEPT ![k] = contents]
<1> DEFINE After(j) == {d \in file'[MonthOf[j]].events : d.key = j}
           Contents(S) == {e.content : e \in {d \in S : d.content # None}}
<1>1. [j \in Key |-> Status(EventsOf(j))]' = [j \in Key |-> Status(After(j))]
  BY DEF EventsOf, Status
<1>2. [j \in Key |-> ContentsOf(j)]' = [j \in Key |-> Contents(After(j))]
  BY DEF EventsOf, ContentsOf
<1>3. \A j \in Key : ContentsOf(j) = Contents(EventsOf(j))
  BY DEF ContentsOf
<1>4. \A j \in Key \ {k} : After(j) = EventsOf(j)
  OBVIOUS
<1> HIDE DEF After, Contents
<1>5. /\ [j \in Key |-> Status(EventsOf(j))]' =
            [[j \in Key |-> Status(EventsOf(j))] EXCEPT ![k] = Status(After(k))]
      /\ [j \in Key |-> ContentsOf(j)]' =
            [[j \in Key |-> ContentsOf(j)] EXCEPT ![k] = Contents(After(k))]
  BY <1>1, <1>2, <1>3, <1>4
<1> QED
  BY <1>5 DEF After, Contents

LEMMA InitRefines == Init => Machine!Init
<1> SUFFICES ASSUME Init PROVE Machine!Init
  OBVIOUS
<1>1. \A k \in Key : EventsOf(k) = {}
  BY LedgerAssumption DEF Init, EmptyFile, EventsOf
<1>2. \A k \in Key : Status(EventsOf(k)) = None /\ ContentsOf(k) = {}
  BY <1>1, StatusNone DEF ContentsOf
<1> QED
  BY <1>2 DEF Machine!Init

(* The line of an event is one step of the machine.                        *)
LEMMA AppendRefines ==
    ASSUME HistoryInv, NEW w \in Worker, pc[w] = "append",
           {d \in file'[MonthOf[key[w]]].events : d.key = key[w]}
              = EventsOf(key[w]) \union {NewEvent(w)},
           \A j \in Key \ {key[w]} :
              {d \in file'[MonthOf[j]].events : d.key = j} = EventsOf(j)
    PROVE  Machine!Next
<1> DEFINE k == key[w]
           S == EventsOf(k)
           e == NewEvent(w)
           Contents(T) == {c.content : c \in {d \in T : d.content # None}}
           state == [j \in Key |-> Status(EventsOf(j))]
           contents == [j \in Key |-> ContentsOf(j)]
<1>1. /\ k \in Key /\ e \in Event /\ S \in SUBSET Event /\ Legal(S)
      /\ Status(S \union {e}) = e.type
  BY AppendFacts DEF HistoryInv, LegalHistory
<1>2. /\ state' = [state EXCEPT ![k] = e.type]
      /\ contents' = [contents EXCEPT ![k] = Contents(S \union {e})]
  BY <1>1, Projected
<1>3. state[k] = Status(S) /\ contents[k] = Contents(S)
  BY <1>1 DEF ContentsOf
<1>4. ASSUME e.content \in Content
      PROVE  contents' = [contents EXCEPT ![k] = @ \union {e.content}]
  <2>1. Contents(S \union {e}) = Contents(S) \union {e.content}
    BY <1>4, LedgerAssumption
  <2> QED
    BY <1>2, <1>3, <2>1
<1>5. ASSUME e.content = None PROVE contents' = contents
  <2>1. Contents(S \union {e}) = Contents(S)
    BY <1>5
  <2> QED
    BY <1>2, <1>3, <2>1
<1>6. CASE S = {} /\ e.type = "CREATED" /\ e.content \in Content
  <2>1. Machine!Create(k)
    BY <1>2, <1>3, <1>4, <1>6, StatusNone
       DEF Machine!Create, Machine!Enter, Machine!Record
  <2> QED
    BY <1>1, <2>1 DEF Machine!Next
<1>7. CASE /\ Status(S) = "CREATED" /\ e.type = "CONFLICT"
           /\ e.content \in Content \ ContentOf(S)
  <2>1. Contents(S) \subseteq ContentOf(S)
    BY <1>1, <1>7, CreatedAlone DEF ContentOf
  <2>2. e.content \in Content \ contents[k]
    BY <1>3, <1>7, <2>1
  <2>3. Machine!Refuse(k)
    BY <1>2, <1>3, <1>4, <1>7, <2>2
       DEF Machine!Refuse, Machine!Enter, Machine!Record
  <2> QED
    BY <1>1, <2>3 DEF Machine!Next
<1>8. CASE /\ Status(S) \in {"CREATED", "COLLECTING"}
           /\ e.type \in Transitions[Status(S)]
           /\ e.type \in {"COLLECTING", "COMPLETED", "FAILED_VALIDATION"}
           /\ e.content = None
  <2>1. CASE Status(S) = "CREATED"
    <3>1. e.type = "COLLECTING"
      BY <1>8, <2>1 DEF Transitions, EventType
    <3>2. Machine!Collect(k)
      BY <1>2, <1>3, <1>5, <1>8, <2>1, <3>1 DEF Machine!Collect, Machine!Enter
    <3> QED
      BY <1>1, <3>2 DEF Machine!Next
  <2>2. CASE Status(S) = "COLLECTING"
    <3>1. e.type \in {"COMPLETED", "FAILED_VALIDATION"}
      BY <1>8, <2>2 DEF Transitions, EventType
    <3>2. Machine!End(k)
      BY <1>2, <1>3, <1>5, <1>8, <2>2, <3>1 DEF Machine!End, Machine!Enter
    <3> QED
      BY <1>1, <3>2 DEF Machine!Next
  <2> QED
    BY <1>8, <2>1, <2>2
<1> QED
  BY <1>6, <1>7, <1>8, AppendFacts

(* However collectors overlap and stop, and whatever is torn or damaged,   *)
(* every observation behaves as one machine whose transitions are atomic.  *)
THEOREM Refinement == LinesEnd /\ Spec => ImplementsMachine
<1>1. CASE LinesEnd
  <2>1. LookupInv /\ [Next]_vars =>
          [Machine!Next]_<<[k \in Key |-> Status(EventsOf(k))],
                           [k \in Key |-> ContentsOf(k)]>>
    <3> SUFFICES ASSUME LookupInv, [Next]_vars
                 PROVE  \/ Machine!Next
                        \/ UNCHANGED <<[k \in Key |-> Status(EventsOf(k))],
                                       [k \in Key |-> ContentsOf(k)]>>
      OBVIOUS
    <3> DEFINE After(k) == {d \in file'[MonthOf[k]].events : d.key = k}
    <3>1. HistoryInv /\ LinesEnded
      BY DEF LookupInv
    <3>2. CASE \A k \in Key : After(k) = EventsOf(k)
      <4>1. CASE Key = {}
        BY <4>1
      <4>2. ASSUME NEW k \in Key
            PROVE  UNCHANGED <<[j \in Key |-> Status(EventsOf(j))],
                               [j \in Key |-> ContentsOf(j)]>>
        <5>1. After(k) = EventsOf(k)
          BY <3>2
        <5>2. /\ [j \in Key |-> Status(EventsOf(j))]' =
                    [[j \in Key |-> Status(EventsOf(j))]
                        EXCEPT ![k] = Status(After(k))]
              /\ [j \in Key |-> ContentsOf(j)]' =
                    [[j \in Key |-> ContentsOf(j)] EXCEPT ![k] =
                        {e.content : e \in {d \in After(k) : d.content # None}}]
          BY <3>2, Projected
        <5> QED
          BY <5>1, <5>2 DEF ContentsOf
      <4> QED
        BY <4>1, <4>2
    <3>3. ASSUME NEW w \in Worker, pc[w] = "append",
                 After(key[w]) = EventsOf(key[w]) \union {NewEvent(w)},
                 \A k \in Key \ {key[w]} : After(k) = EventsOf(k)
          PROVE  Machine!Next
      BY <3>1, <3>3, AppendRefines
    <3> QED
      BY <1>1, <3>1, <3>2, <3>3, EventsStep
  <2> QED
    BY <1>1, <2>1, InitRefines, LookupInvariance, PTL
    DEF Spec, ImplementsMachine, Machine!Spec
<1> QED
  BY <1>1

-----------------------------------------------------------------------------
(* What a run reports.                                                     *)

(* A terminal event is the last of its history.                            *)
LEMMA TerminalLast ==
    ASSUME NEW S \in SUBSET Event, Legal(S), NEW e \in S, e.type \in Terminal
    PROVE  Status(S) \in Terminal
<1>1. PICK l \in S : l.type = Status(S) /\ \A d \in S : d.prev # Status(S)
  BY StatusLast
<1>2. \A d \in S : d.type \in EventType /\ d.prev \in EventType \union {None}
  BY DEF Event
<1>3. e.prev \in {"CREATED", "COLLECTING"}
  <2>1. e.prev \in EventType /\ e.type \in Transitions[e.prev]
    BY <1>2, LedgerAssumption DEF Legal, Terminal, EventType
  <2> QED
    BY <2>1 DEF Transitions, Terminal, EventType
<1>4. CASE Status(S) = "CREATED"
  <2>1. e.prev = "COLLECTING"
    BY <1>1, <1>3, <1>4
  <2>2. PICK d \in S : d.type = "COLLECTING"
    BY <2>1, LedgerAssumption DEF Legal, Unbroken, EventType
  <2>3. d.prev \in EventType /\ "COLLECTING" \in Transitions[d.prev]
    BY <1>2, <2>2 DEF Legal
  <2>4. d.prev = "CREATED"
    BY <2>3 DEF Transitions, Terminal, EventType
  <2> QED
    BY <1>1, <1>4, <2>4
<1>5. CASE Status(S) = "COLLECTING"
  <2>1. e.prev = "CREATED"
    BY <1>1, <1>3, <1>5
  <2>2. l.prev \in EventType /\ "COLLECTING" \in Transitions[l.prev]
    BY <1>1, <1>2, <1>5 DEF Legal
  <2>3. l.prev = "CREATED"
    BY <2>2 DEF Transitions, Terminal, EventType
  <2>4. l = e
    BY <2>1, <2>3 DEF Legal, Unbroken
  <2> QED
    BY <1>1, <1>5, <2>4 DEF Terminal
<1> QED
  BY <1>1, <1>2, <1>4, <1>5 DEF EventType

(* A report of COMPLETED, and a new observation key, come from one's own   *)
(* step: COMPLETED follows a lookup that answered with a terminal status,  *)
(* or the append of the COMPLETED event.                                   *)
LEMMA ReportStep ==
    ASSUME HistoryInv, [Next]_vars, NEW w \in Worker, result'[w] = "COMPLETED"
    PROVE  \/ result[w] = "COMPLETED" /\ key'[w] = key[w]
           \/ /\ pc[w] = "answer" /\ Status(seen[w]) \in Terminal
              /\ file' = file /\ key' = key
           \/ /\ pc[w] = "append" /\ op[w] \in {"complete", "recomplete"}
              /\ file' = [file EXCEPT ![MyMonth(w)] = Appended(@, NewEvent(w), "ok")]
              /\ key' = key
<1>1. /\ TypeOK /\ op \in [Worker -> Call]
      /\ result \in [Worker -> Result] /\ key \in [Worker -> Key]
  BY DEF HistoryInv, TypeOK
<1> DEFINE Same(v) == result'[v] = result[v] /\ key'[v] = key[v]
           Quiet == Same(w) \/ result'[w] # "COMPLETED"
<1>2. ASSUME NEW v \in Worker, NEW status \in Result, Finish(v, status)
      PROVE  (v # w => Same(w)) /\ (status # "COMPLETED" => Quiet)
  BY <1>1, <1>2 DEF Finish
<1>3. ASSUME NEW stage, NEW call, NEW v \in Worker, Goto(v, stage, call)
      PROVE  Same(w)
  BY <1>3 DEF Goto, job
<1>4. ASSUME NEW v \in Worker, Fail(v) PROVE (v # w => Same(w)) /\ Quiet
  <2>1. op[v] \in Call
    BY <1>1
  <2>2. \/ \E status \in Result \ {"COMPLETED"} : Finish(v, status)
        \/ Goto(v, "load", "fail")
    BY <1>4, <2>1 DEF Fail, Call, Result
  <2> QED
    BY <1>2, <1>3, <2>2
<1> HIDE DEF Same, Quiet
<1>5. ASSUME NEW v \in Worker, LoadIndex(v) \/ Scan(v) \/ Reread(v) \/ ReadIndex(v)
      PROVE  Same(w) \/ Quiet
  <2>1. Fail(v) \/ \E stage, call : Goto(v, stage, call)
    BY <1>5 DEF LoadIndex, Scan, Reread, ReadIndex
  <2> QED
    BY <1>3, <1>4, <2>1
<1>6. ASSUME NEW v \in Worker, SaveIndex(v) PROVE Same(w) \/ Quiet
  <2>1. AfterIndex(v) => \E stage, call : Goto(v, stage, call)
    BY DEF AfterIndex
  <2>2. Fail(v) \/ \E stage, call : Goto(v, stage, call)
    BY <1>6, <2>1 DEF SaveIndex
  <2> QED
    BY <1>3, <1>4, <2>2
<1>7. ASSUME NEW v \in Worker, FetchFails(v) PROVE Same(w) \/ Quiet
  BY <1>2, <1>7 DEF FetchFails, Result
<1>8. ASSUME NEW v \in Worker, Fetch(v) PROVE Same(w)
  BY <1>8 DEF Fetch, Same
<1>9. ASSUME NEW v \in Worker, Create(v) \/ Transit(v) PROVE Same(w) \/ Quiet
  <2>1. Fail(v) \/ Finish(v, "CONFLICT") \/ \E stage, call : Goto(v, stage, call)
    BY <1>9 DEF Create, Transit
  <2> QED
    BY <1>2, <1>3, <1>4, <2>1 DEF Result
<1>10. ASSUME NEW v \in Worker, Decide(v)
       PROVE  \/ Same(w) \/ Quiet
              \/ v = w /\ pc[w] = "answer" /\ Status(seen[w]) \in Terminal
  <2>1. \/ Fail(v)
        \/ \E stage, call : Goto(v, stage, call)
        \/ \E status \in Result \ {"COMPLETED"} : Finish(v, status)
        \/ Status(seen[v]) \in Terminal /\ Finish(v, "COMPLETED")
    BY <1>10 DEF Decide, Preflight, CheckStatus, Advance, Result
  <2> QED
    BY <1>2, <1>3, <1>4, <1>10, <2>1 DEF Decide, Result
<1>11. ASSUME NEW v \in Worker, Append(v)
       PROVE  \/ Same(w) \/ Quiet
              \/ /\ v = w /\ pc[w] = "append" /\ op[w] \in {"complete", "recomplete"}
                 /\ file' = [file EXCEPT ![MyMonth(w)] = Appended(@, NewEvent(w), "ok")]
                 /\ key' = key
  <2>1. AppendSound(v) /\ pc[v] = "append"
    BY <1>11 DEF HistoryInv, WriterSound, Append
  <2>2. op[v] \in {"create"} \union TransitionCall
    BY <2>1 DEF AppendSound
  <2>3. CASE AfterAppend(v) /\ op[v] \notin {"complete", "recomplete"}
    <3>1. \/ \E stage, call : Goto(v, stage, call)
          \/ \E status \in Result \ {"COMPLETED"} : Finish(v, status)
      BY <2>2, <2>3 DEF AfterAppend, TransitionCall, Result
    <3> QED
      BY <1>2, <1>3, <3>1
  <2>4. CASE Fail(v)
    BY <1>4, <2>4
  <2>5. CASE /\ file' = [file EXCEPT ![MyMonth(v)] = Appended(@, NewEvent(v), "ok")]
             /\ AfterAppend(v) /\ op[v] \in {"complete", "recomplete"}
    <3>1. Finish(v, "COMPLETED") /\ "COMPLETED" \in Result
      BY <2>5 DEF AfterAppend, Result
    <3>2. key' = key
      BY <3>1 DEF Finish
    <3> QED
      BY <1>2, <2>1, <2>5, <3>1, <3>2
  <2> QED
    BY <1>11, <2>3, <2>4, <2>5 DEF Append
<1>12. ASSUME NEW v \in Worker, Crash(v) PROVE Same(w) \/ Quiet
  BY <1>2, <1>12 DEF Crash, Result
<1>13. ASSUME NEW v \in Worker, NEW k \in Key, Begin(v, k) PROVE Same(w) \/ Quiet
  BY <1>1, <1>13 DEF Begin, Same, Quiet
<1>14. DamageIndex \/ UNCHANGED vars => Same(w)
  BY DEF DamageIndex, vars, job, Same
<1>15. \/ Same(w) \/ Quiet
       \/ /\ pc[w] = "answer" /\ Status(seen[w]) \in Terminal /\ Decide(w)
       \/ /\ pc[w] = "append" /\ op[w] \in {"complete", "recomplete"}
          /\ file' = [file EXCEPT ![MyMonth(w)] = Appended(@, NewEvent(w), "ok")]
          /\ key' = key
  BY <1>5, <1>6, <1>7, <1>8, <1>9, <1>10, <1>11, <1>12, <1>13, <1>14
     DEF Next, Step
<1>16. Decide(w) => file' = file
  BY DEF Decide, disk
<1>17. Decide(w) => key' = key
  <2>1. Fail(w) => key' = key
    BY <1>1, FailMoves
  <2> QED
    BY <2>1 DEF Decide, Preflight, CheckStatus, Advance, Finish, Goto, job
<1> QED
  BY <1>15, <1>16, <1>17 DEF Same, Quiet

LEMMA CompletedStep ==
    ASSUME TearFree, ReportInv, HistoryInv', [Next]_vars, NEW w \in Worker,
           result'[w] = "COMPLETED"
    PROVE  Status(Mine(w)') \in Terminal
<1> DEFINE After(k) == {d \in file'[MonthOf[k]].events : d.key = k}
<1>0. LinesEnd /\ LookupInv /\ HistoryInv /\ LinesEnded
  BY DEF ReportInv, LookupInv, LinesEnd, TearFree
<1>1. /\ TypeOK /\ key[w] \in Key /\ MyMonth(w) \in Month /\ Mine(w) \in SUBSET Event
      /\ seen[w] \in SUBSET Event
      /\ Legal(Mine(w))
  BY <1>0, MineTyped DEF HistoryInv, LegalHistory, Mine, TypeOK
<1>2. CASE result[w] = "COMPLETED" /\ key'[w] = key[w]
  <2>1. Status(EventsOf(key[w])) \in Terminal
    BY <1>2 DEF ReportInv, CompletedIsFinal, Mine
  <2>2. \A k \in Key : Status(EventsOf(k)) \in Terminal => After(k) = EventsOf(k)
    <3> SUFFICES ASSUME NEW k \in Key, Status(EventsOf(k)) \in Terminal
                 PROVE  After(k) = EventsOf(k)
      OBVIOUS
    <3>1. EventsOf(k)' = EventsOf(k)
      BY <1>0, TerminalStep
    <3> QED
      BY <3>1 DEF EventsOf
  <2>3. Mine(w)' = EventsOf(key[w])
    <3>1. Mine(w)' = After(key[w])
      BY <1>2 DEF Mine, EventsOf
    <3> QED
      BY <1>1, <2>1, <2>2, <3>1
  <2> QED
    BY <2>1, <2>3
<1>3. CASE /\ pc[w] = "answer" /\ Status(seen[w]) \in Terminal
           /\ file' = file /\ key' = key
  <2>1. seen[w] \subseteq Mine(w)
    BY <1>0, <1>3 DEF LookupInv, LookupComplete
  <2>2. seen[w] # {}
    BY <1>3, StatusNone, LedgerAssumption DEF EventType
  <2>3. \E e \in seen[w] : e.type = Status(seen[w])
    BY <1>1, <2>2, StatusLast DEF ReportInv, SeenLegal
  <2>4. Status(Mine(w)) \in Terminal
    BY <1>1, <1>3, <2>1, <2>3, TerminalLast
  <2>5. Mine(w)' = Mine(w)
    BY <1>3 DEF Mine, EventsOf
  <2> QED
    BY <2>4, <2>5
<1>4. CASE /\ pc[w] = "append" /\ op[w] \in {"complete", "recomplete"}
           /\ file' = [file EXCEPT ![MyMonth(w)] = Appended(@, NewEvent(w), "ok")]
           /\ key' = key
  <2>1. NewEvent(w) \in Event /\ NewEvent(w).key = key[w]
    BY <1>0, <1>4, NewEventExtends
  <2>2. NewEvent(w).type = "COMPLETED"
    BY <1>4 DEF NewEvent, Target
  <2>3. file'[MyMonth(w)].events = file[MyMonth(w)].events \union {NewEvent(w)}
    BY <1>0, <1>1, <1>4 DEF TypeOK, ReportInv, FilesWhole, LinesEnded, Appended, Joins
  <2>4. NewEvent(w) \in Mine(w)'
    BY <1>4, <2>1, <2>3 DEF Mine, EventsOf, MyMonth
  <2>5. Mine(w)' \in SUBSET Event /\ Legal(Mine(w)')
    <3>1. Mine(w)' = After(key[w]) /\ MonthOf[key[w]] \in Month
      BY <1>1, <1>4 DEF Mine, EventsOf, MyMonth
    <3>2. \A k \in Key : Legal(After(k))
      BY DEF HistoryInv, LegalHistory, Legal, Unbroken, EventsOf
    <3>3. \A m \in Month : file'[m].events \in SUBSET Event
      BY DEF HistoryInv, TypeOK
    <3> QED
      BY <1>1, <3>1, <3>2, <3>3
  <2> QED
    BY <2>2, <2>4, <2>5, TerminalLast DEF Terminal
<1> QED
  BY <1>0, <1>2, <1>3, <1>4, ReportStep

(* What a collector has read is a history of the ledger.                   *)
LEMMA SeenStep ==
    ASSUME HistoryInv, SeenLegal, [Next]_vars
    PROVE  SeenLegal'
<1>1. TypeOK /\ \A w \in Worker : Legal(Mine(w))
  BY DEF HistoryInv, LegalHistory, Mine, TypeOK
<1>2. \/ seen' = seen
      \/ \E w \in Worker : seen' = [seen EXCEPT ![w] = Mine(w)]
  <2>1. ASSUME NEW w \in Worker, Step(w)
        PROVE  seen' = seen \/ seen' = [seen EXCEPT ![w] = Mine(w)]
    BY <2>1 DEF Step, LoadIndex, Scan, Found, Reread, Decide, ReadIndex, SaveIndex,
       FetchFails, Fetch, Create, Transit, Append, reads
  <2>2. ASSUME NEW w \in Worker, Crash(w) \/ \E k \in Key : Begin(w, k)
        PROVE  seen' = seen
    BY <2>2 DEF Crash, Begin, reads
  <2>3. DamageIndex \/ UNCHANGED vars => seen' = seen
    BY DEF DamageIndex, vars, reads
  <2> QED
    BY <2>1, <2>2, <2>3 DEF Next
<1>3. \A w \in Worker : seen'[w] = seen[w] \/ seen'[w] = Mine(w)
  BY <1>1, <1>2 DEF TypeOK
<1>4. \A w \in Worker : Legal(seen'[w])
  BY <1>1, <1>3 DEF SeenLegal
<1> QED
  BY <1>4 DEF SeenLegal, Legal, Unbroken

(* Where an append is completed or not started, files stay whole.          *)
LEMMA WholeStep ==
    ASSUME TearFree, ReportInv, [Next]_vars
    PROVE  FilesWhole'
<1>1. TypeOK /\ LinesEnded /\ FilesWhole
  BY DEF ReportInv, LookupInv, HistoryInv
<1>2. CASE file' = file
  BY <1>1, <1>2 DEF FilesWhole
<1>3. ASSUME NEW w \in Worker, Append(w) PROVE FilesWhole'
  <2>1. PICK how \in {"ok", "lost", "late"} :
           file' = [file EXCEPT ![MyMonth(w)] = Appended(@, NewEvent(w), how)]
    BY <1>3 DEF Append, TearFree
  <2>2. \A m \in Month : /\ file[m].tail = "ended" /\ file[m].unended = {}
                         /\ \/ file'[m] = file[m]
                            \/ file'[m] = Appended(file[m], NewEvent(w), how)
    BY <1>1, <2>1 DEF TypeOK, LinesEnded, FilesWhole
  <2>3. ASSUME NEW f, f.tail = "ended", f.unended = {}
        PROVE  Appended(f, NewEvent(w), how).tail = "ended"
    BY <2>3 DEF Appended, Joins
  <2>4. \A m \in Month : file'[m].tail = "ended"
    BY <2>2, <2>3
  <2> QED
    BY <2>4 DEF FilesWhole
<1>4. ASSUME NEW w \in Worker, Step(w) PROVE file' = file \/ Append(w)
  BY <1>4 DEF Step, LoadIndex, Scan, Reread, Decide, ReadIndex, SaveIndex,
     FetchFails, Fetch, Create, Transit, disk
<1>5. ASSUME NEW w \in Worker, Crash(w) \/ \E j \in Key : Begin(w, j)
      PROVE  file' = file
  BY <1>5 DEF Crash, Begin, disk
<1>6. DamageIndex \/ UNCHANGED vars => file' = file
  BY DEF DamageIndex, vars, disk
<1> QED
  BY <1>2, <1>3, <1>4, <1>5, <1>6 DEF Next

(* The invariant of what runs report.                                      *)
THEOREM ReportInvariance == TearFree /\ Spec => []ReportInv
<1>1. CASE TearFree
  <2>1. Init => ReportInv
    <3> SUFFICES ASSUME Init PROVE ReportInv
      OBVIOUS
    <3>1. SeenLegal /\ FilesWhole
      BY DEF Init, SeenLegal, Legal, Unbroken, FilesWhole, EmptyFile
    <3>2. CompletedIsFinal
      BY DEF Init, CompletedIsFinal
    <3> QED
      BY <3>1, <3>2, LookupBegins DEF ReportInv
  <2>2. ReportInv /\ [Next]_vars => ReportInv'
    <3> SUFFICES ASSUME ReportInv, [Next]_vars PROVE ReportInv'
      OBVIOUS
    <3>1. LookupInv' /\ HistoryInv /\ HistoryInv'
      BY <1>1, LookupKept DEF ReportInv, LookupInv, LinesEnd, TearFree
    <3>2. SeenLegal' /\ FilesWhole'
      BY <1>1, <3>1, SeenStep, WholeStep DEF ReportInv
    <3>3. \A w \in Worker : result'[w] = "COMPLETED" =>
             Status(Mine(w)') \in Terminal
      BY <1>1, <3>1, CompletedStep
    <3>4. CompletedIsFinal'
      BY <3>3 DEF CompletedIsFinal, Status
    <3> QED
      BY <3>1, <3>2, <3>4 DEF ReportInv
  <2> QED
    BY <2>1, <2>2, PTL DEF Spec
<1> QED
  BY <1>1

(* A run that reports COMPLETED, having completed its observation or found *)
(* it complete, leaves it in a terminal state (_advance_to_completed).     *)
THEOREM CompletedNeverLeft == TearFree /\ Spec => []CompletedIsFinal
<1>1. ReportInv => CompletedIsFinal
  BY DEF ReportInv
<1> QED
  BY <1>1, ReportInvariance, PTL
=============================================================================

------------------------ MODULE V2bLedgerIndexProofs ------------------------
(***************************************************************************)
(* What overlapping collectors do to the index and to a corrupt month, for *)
(* any number of them and every way an append may fail.                    *)
(***************************************************************************)
EXTENDS V2bLedgerInvariant, TLAPS

-----------------------------------------------------------------------------
(* The control of a collector.                                             *)
Moves(w) ==
    /\ \E stage \in Stage, call \in Call :
          /\ pc' = [pc EXCEPT ![w] = stage]
          /\ op' = [op EXCEPT ![w] = call]
    /\ key' = key

LEMMA FinishMoves ==
    ASSUME NEW w \in Worker, NEW status, Finish(w, status)
    PROVE  Moves(w) /\ pc' = [pc EXCEPT ![w] = "idle"]
BY DEF Finish, Moves, Stage, Call

LEMMA GotoMoves ==
    ASSUME NEW w \in Worker, NEW stage \in Stage, NEW call \in Call,
           Goto(w, stage, call)
    PROVE  Moves(w) /\ pc' = [pc EXCEPT ![w] = stage]
BY DEF Goto, Moves, job

LEMMA FailMoves ==
    ASSUME ControlSound, NEW w \in Worker, Fail(w)
    PROVE  /\ Moves(w)
           /\ \E stage \in {"idle", "load"} : pc' = [pc EXCEPT ![w] = stage]
<1>1. op[w] \in Call
  BY DEF ControlSound
<1>2. (\E status \in Result : Finish(w, status)) \/ Goto(w, "load", "fail")
  BY <1>1 DEF Fail, Call, Result
<1>3. "load" \in Stage /\ "fail" \in Call
  BY DEF Stage, Call
<1> QED
  BY <1>2, <1>3, FinishMoves, GotoMoves

(* A step moves its collector alone, to save only by reading the index and *)
(* to append only by a creation or a transition.                           *)
LEMMA StepMoves ==
    ASSUME ControlSound, NEW w \in Worker, Step(w)
    PROVE  /\ Moves(w) /\ CallFits(w)'
           /\ pc'[w] = "save" => ReadIndex(w)
           /\ pc'[w] = "append" => Create(w) \/ Transit(w)
<1>1. /\ op[w] \in Call /\ pc \in [Worker -> Stage] /\ op \in [Worker -> Call]
      /\ CallFits(w)
      /\ {"idle", "load", "scan", "index", "save", "reread", "answer", "fetch",
          "create", "transit", "append"} \subseteq Stage
      /\ {"preflight", "create", "created", "matched", "status", "advance",
          "collect", "complete", "fail", "recollect", "recomplete"} \subseteq Call
  BY DEF ControlSound, Stage, Call
<1> DEFINE Passes == \E stage \in Stage, call \in Call :
                        /\ stage \notin {"save", "append", "transit"}
                        /\ Goto(w, stage, call)
           Ends == \E status \in Result : Finish(w, status)
           Apart == pc'[w] \notin {"save", "append", "transit"}
<1>2. Passes \/ Ends \/ Fail(w) => Moves(w) /\ Apart
  BY <1>1, FinishMoves, GotoMoves, FailMoves
<1>3. Apart => CallFits(w)'
  BY DEF CallFits, TransitSound
<1> HIDE DEF Passes, Ends
<1>4. ASSUME LoadIndex(w) PROVE Passes \/ Fail(w)
  BY <1>1, <1>4 DEF LoadIndex, Passes
<1>5. ASSUME Scan(w) \/ Reread(w) PROVE Passes \/ Fail(w)
  BY <1>1, <1>5 DEF Scan, Reread, Passes
<1>6. ASSUME Decide(w)
      PROVE  \/ Passes \/ Ends \/ Fail(w)
             \/ op[w] \in TransitionCall /\ Goto(w, "transit", op[w])
  <2>1. Preflight(w) \/ CheckStatus(w) \/ Advance(w) => Passes \/ Ends
    BY <1>1 DEF Preflight, CheckStatus, Advance, Passes, Ends, Result
  <2> QED
    BY <1>1, <1>6, <2>1 DEF Decide, Passes
<1>7. ASSUME SaveIndex(w) PROVE Passes \/ Fail(w)
  <2>1. AfterIndex(w) => Passes
    BY <1>1 DEF AfterIndex, Passes
  <2> QED
    BY <1>1, <1>7, <2>1 DEF SaveIndex, Passes
<1>8. ASSUME FetchFails(w) PROVE Ends
  BY <1>8 DEF FetchFails, Ends, Result
<1>9. ASSUME Fetch(w) PROVE Moves(w) /\ Apart
  BY <1>1, <1>9 DEF Fetch, Moves
<1>10. ASSUME Append(w) PROVE Passes \/ Ends \/ Fail(w)
  <2>1. op[w] \in {"create", "collect", "recollect", "complete", "recomplete",
                   "fail"}
    BY <1>1, <1>10 DEF Append, CallFits, TransitionCall
  <2>2. CASE AfterAppend(w)
    <3>1. CASE op[w] \in {"create", "collect", "recollect"}
      BY <1>1, <2>2, <3>1 DEF AfterAppend, Passes, Ends, Result
    <3>2. CASE op[w] \in {"complete", "recomplete", "fail"}
      BY <1>1, <2>2, <3>2 DEF AfterAppend, Ends, Result
    <3> QED
      BY <2>1, <3>1, <3>2
  <2> QED
    BY <1>10, <2>2 DEF Append
<1>11. ASSUME ReadIndex(w)
       PROVE  Moves(w) /\ CallFits(w)' /\ pc'[w] # "append"
  <2>1. Fail(w) \/ Goto(w, "save", op[w])
    BY <1>11 DEF ReadIndex
  <2>2. CASE Goto(w, "save", op[w])
    BY <1>1, <2>2, GotoMoves DEF CallFits, TransitSound
  <2> QED
    BY <1>2, <1>3, <2>1, <2>2
<1>12. ASSUME Create(w) \/ Transit(w)
       PROVE  Moves(w) /\ CallFits(w)' /\ pc'[w] # "save"
  <2>1. \/ Passes \/ Ends \/ Fail(w)
        \/ Transit(w) /\ Goto(w, "append", op[w])
        \/ Goto(w, "append", "create")
    BY <1>1, <1>12 DEF Create, Transit, Passes, Ends, Result
  <2>2. CASE Transit(w) /\ Goto(w, "append", op[w])
    <3>1. op[w] \in TransitionCall
      BY <1>1, <2>2 DEF Transit, CallFits, TransitSound
    <3>2. Moves(w) /\ pc'[w] = "append" /\ op'[w] = op[w]
      BY <1>1, <2>2, GotoMoves DEF Goto
    <3> QED
      BY <3>1, <3>2 DEF CallFits, TransitSound
  <2>3. CASE Goto(w, "append", "create")
    <3>1. Moves(w) /\ pc'[w] = "append" /\ op'[w] = "create"
      BY <1>1, <2>3, GotoMoves DEF Goto
    <3> QED
      BY <3>1 DEF CallFits, TransitSound
  <2> QED
    BY <1>2, <1>3, <2>1, <2>2, <2>3
<1>13. ASSUME op[w] \in TransitionCall, Goto(w, "transit", op[w])
       PROVE  Moves(w) /\ CallFits(w)' /\ pc'[w] = "transit"
  <2>1. Moves(w) /\ pc'[w] = "transit" /\ op'[w] = op[w]
    BY <1>1, <1>13, GotoMoves DEF Goto
  <2> QED
    BY <1>13, <2>1 DEF CallFits, TransitSound
<1> QED
  BY <1>2, <1>3, <1>4, <1>5, <1>6, <1>7, <1>8, <1>9, <1>10, <1>11, <1>12, <1>13
     DEF Step

(* A step of one collector leaves the control of all sound.                *)
LEMMA ControlKept ==
    ASSUME ControlSound, [Next]_vars
    PROVE  ControlSound'
<1>1. ASSUME NEW w \in Worker, Moves(w), CallFits(w)' PROVE ControlSound'
  <2>1. ASSUME NEW v \in Worker \ {w} PROVE CallFits(v)'
    BY <1>1 DEF ControlSound, CallFits, TransitSound, Moves
  <2> QED
    BY <1>1, <2>1 DEF ControlSound, Moves
<1>2. ASSUME NEW w \in Worker, Step(w) PROVE ControlSound'
  BY <1>1, <1>2, StepMoves
<1>3. ASSUME NEW w \in Worker, Crash(w) PROVE ControlSound'
  <2>1. Moves(w) /\ pc' = [pc EXCEPT ![w] = "idle"]
    BY <1>3, FinishMoves DEF Crash
  <2> QED
    BY <1>1, <2>1 DEF ControlSound, CallFits, TransitSound
<1>4. ASSUME NEW w \in Worker, NEW k \in Key, Begin(w, k) PROVE ControlSound'
  <2>1. /\ pc' = [pc EXCEPT ![w] = "load"] /\ op' = [op EXCEPT ![w] = "preflight"]
        /\ key' = [key EXCEPT ![w] = k] /\ "load" \in Stage /\ "preflight" \in Call
    BY <1>4 DEF Begin, Stage, Call
  <2>2. \A v \in Worker : CallFits(v)'
    BY <2>1 DEF ControlSound, CallFits, TransitSound
  <2> QED
    BY <2>1, <2>2 DEF ControlSound
<1>5. CASE DamageIndex \/ UNCHANGED vars
  BY <1>5 DEF DamageIndex, vars, job, ControlSound, CallFits, TransitSound
<1> QED
  BY <1>2, <1>3, <1>4, <1>5 DEF Next

-----------------------------------------------------------------------------
(* The index.                                                              *)

(* What a step of another does not disturb.                                *)
LEMMA OthersSave ==
    ASSUME IndexInv, NEW w \in Worker, Moves(w),
           idxLock' = idxLock \/ idxLock \in {None, w},
           idx' = idx \/ idxLock = w,
           \A v \in Worker \ {w} : draft'[v] = draft[v],
           NEW v \in Worker \ {w}
    PROVE  SaveSound(v)'
<1>1. pc'[v] = pc[v] /\ v # None
  BY LedgerAssumption DEF IndexInv, ControlSound, Moves
<1>2. SaveSound(v)
  BY DEF IndexInv
<1> QED
  BY <1>1, <1>2 DEF SaveSound

(* Only a save writes the index, and it writes what it found, with the     *)
(* month of its own key.                                                   *)
LEMMA IndexStep ==
    ASSUME IndexFault = {}, IndexInv, [Next]_vars
    PROVE  \/ idx' = idx
           \/ \E w \in Worker :
                /\ SaveIndex(w) /\ idxLock = w
                /\ idx' = Index([idx.map EXCEPT ![key[w]] = MonthOf[key[w]]])
<1>1. ASSUME NEW w \in Worker, SaveIndex(w)
      PROVE  \/ idx' = idx
             \/ /\ idxLock = w
                /\ idx' = Index([idx.map EXCEPT ![key[w]] = MonthOf[key[w]]])
  <2>1. idxLock = w /\ draft[w] = idx.map
    BY <1>1 DEF IndexInv, SaveSound, SaveIndex
  <2> QED
    BY <1>1, <2>1 DEF SaveIndex, MyMonth
<1>2. ASSUME NEW w \in Worker, Step(w), ~SaveIndex(w) PROVE idx' = idx
  BY <1>2 DEF Step, LoadIndex, Scan, Reread, Decide, ReadIndex, FetchFails,
     Fetch, Create, Transit, Append, disk
<1>3. ASSUME NEW w \in Worker, Crash(w) \/ \E k \in Key : Begin(w, k)
      PROVE  idx' = idx
  BY <1>3 DEF Crash, Begin, disk
<1>4. ~DamageIndex
  BY DEF DamageIndex
<1>5. UNCHANGED vars => idx' = idx
  BY DEF vars, disk
<1> QED
  BY <1>1, <1>2, <1>3, <1>4, <1>5 DEF Next

LEMMA RebuiltTyped == Rebuilt \in [Key -> Month \union {None}]
BY LedgerAssumption DEF Rebuilt

LEMMA ReadIndexKeepsIndex ==
    ASSUME IndexInv, NEW w \in Worker, ReadIndex(w)
    PROVE  /\ idxLock' \in Worker \union {None}
           /\ draft' \in [Worker -> [Key -> Month \union {None}]]
           /\ \A v \in Worker : SaveSound(v)'
<1>1. /\ ControlSound /\ IndexTyped /\ Moves(w) /\ idxLock = None
      /\ idx' = idx /\ idx.kind # "corrupt"
  BY StepMoves DEF IndexInv, IndexTyped, ReadIndex, IndexFree, Step, disk
<1>2. CASE Fail(w)
  <2>1. CASE idxLock' = idxLock /\ draft' = draft
    <3>1. pc'[w] # "save"
      BY <1>1, <1>2, FailMoves DEF ControlSound
    <3>2. \A v \in Worker \ {w} : SaveSound(v)'
      BY <1>1, <2>1, OthersSave
    <3> QED
      BY <1>1, <2>1, <3>1, <3>2 DEF SaveSound, IndexTyped
  <2>2. CASE idxLock' = w /\ draft' = [draft EXCEPT ![w] = idx.map]
    <3>1. idx.map \in [Key -> Month \union {None}]
      BY <1>1 DEF IndexTyped
    <3>2. \A v \in Worker \ {w} : draft'[v] = draft[v]
      BY <1>1, <2>2 DEF IndexTyped
    <3>3. \A v \in Worker \ {w} : SaveSound(v)'
      BY <1>1, <3>2, OthersSave
    <3>4. draft'[w] = idx'.map
      BY <1>1, <2>2 DEF IndexTyped
    <3> QED
      BY <1>1, <2>2, <3>1, <3>3, <3>4 DEF SaveSound, IndexTyped
  <2> QED
    BY <1>1, <2>1, <2>2 DEF ReadIndex
<1>3. CASE ~Fail(w)
  <2>1. idxLock' = w /\ draft' = [draft EXCEPT ![w] = idx.map]
    BY <1>1, <1>3 DEF ReadIndex
  <2>2. idx.map \in [Key -> Month \union {None}]
    BY <1>1 DEF IndexTyped
  <2>3. \A v \in Worker \ {w} : draft'[v] = draft[v]
    BY <1>1, <2>1 DEF IndexTyped
  <2>4. \A v \in Worker \ {w} : SaveSound(v)'
    BY <1>1, <2>3, OthersSave
  <2>5. draft'[w] = idx'.map
    BY <1>1, <2>1 DEF IndexTyped
  <2> QED
    BY <1>1, <2>1, <2>2, <2>4, <2>5 DEF SaveSound, IndexTyped
<1> QED
  BY <1>2, <1>3

(* A save or a crash gives up the draft, and the lock with it.             *)
LEMMA DropKeepsIndex ==
    ASSUME IndexInv, NEW w \in Worker, Moves(w), pc'[w] # "save",
           \/ idxLock' = None /\ idxLock = w
           \/ idxLock' = idxLock,
           idx' = idx \/ idxLock = w,
           draft' = [draft EXCEPT ![w] = NoEntries]
    PROVE  /\ idxLock' \in Worker \union {None}
           /\ draft' \in [Worker -> [Key -> Month \union {None}]]
           /\ \A v \in Worker : SaveSound(v)'
<1>1. IndexTyped
  BY DEF IndexInv
<1>2. NoEntries \in [Key -> Month \union {None}]
  BY DEF NoEntries
<1>3. \A v \in Worker \ {w} : draft'[v] = draft[v]
  BY <1>1 DEF IndexTyped
<1>4. \A v \in Worker \ {w} : SaveSound(v)'
  BY <1>3, OthersSave
<1> QED
  BY <1>1, <1>2, <1>4 DEF SaveSound, IndexTyped

LEMMA IndexKept ==
    ASSUME IndexFault = {}, IndexInv, [Next]_vars
    PROVE  IndexInv'
<1>1. ControlSound /\ IndexTyped /\ ControlSound'
  BY ControlKept DEF IndexInv
<1>2. /\ idx' \in [kind : {"ok", "absent"}, map : [Key -> Month \union {None}]]
      /\ \A k \in Key : idx'.map[k] \in {None, MonthOf[k]}
  <2>1. CASE idx' = idx
    BY <1>1, <2>1 DEF IndexInv, IndexTyped
  <2>2. ASSUME NEW w \in Worker,
               idx' = Index([idx.map EXCEPT ![key[w]] = MonthOf[key[w]]])
        PROVE  /\ idx' \in [kind : {"ok", "absent"}, map : [Key -> Month \union {None}]]
               /\ \A k \in Key : idx'.map[k] \in {None, MonthOf[k]}
    <3>1. idx.map \in [Key -> Month \union {None}]
      BY <1>1 DEF IndexTyped
    <3>2. key[w] \in Key /\ MonthOf[key[w]] \in Month
      BY <1>1, LedgerAssumption DEF ControlSound
    <3>3. idx'.map = [idx.map EXCEPT ![key[w]] = MonthOf[key[w]]] /\ idx'.kind = "ok"
      BY <2>2 DEF Index
    <3>4. idx'.map \in [Key -> Month \union {None}]
      BY <3>1, <3>2, <3>3
    <3>5. idx' \in [kind : {"ok", "absent"}, map : [Key -> Month \union {None}]]
      BY <2>2, <3>3, <3>4 DEF Index
    <3>6. \A k \in Key : idx'.map[k] \in {None, MonthOf[k]}
      BY <3>1, <3>3 DEF IndexInv
    <3> QED
      BY <3>5, <3>6
  <2> QED
    BY <2>1, <2>2, IndexStep
<1> DEFINE Rest == /\ idxLock' \in Worker \union {None}
                   /\ draft' \in [Worker -> [Key -> Month \union {None}]]
                   /\ \A v \in Worker : SaveSound(v)'
<1>3. ASSUME NEW w \in Worker, Moves(w), pc'[w] # "save",
             idx' = idx, idxLock' = idxLock, draft' = draft
      PROVE  Rest
  <2>1. \A v \in Worker \ {w} : SaveSound(v)'
    BY <1>3, OthersSave
  <2> QED
    BY <1>1, <1>3, <2>1 DEF IndexTyped, SaveSound
<1>4. ASSUME NEW w \in Worker, Step(w), ~ReadIndex(w), ~SaveIndex(w) PROVE Rest
  <2>1. idx' = idx /\ idxLock' = idxLock /\ draft' = draft
    BY <1>4 DEF Step, LoadIndex, Scan, Reread, Decide, FetchFails, Fetch, Create,
       Transit, Append, disk, locks, reads
  <2> QED
    BY <1>1, <1>3, <1>4, <2>1, StepMoves
<1>5. ASSUME NEW w \in Worker, ReadIndex(w) PROVE Rest
  BY <1>5, ReadIndexKeepsIndex
<1>6. ASSUME NEW w \in Worker, SaveIndex(w) PROVE Rest
  <2>1. Moves(w) /\ pc'[w] # "save"
    BY <1>1, <1>6, StepMoves DEF Step, SaveIndex, ReadIndex
  <2>2. /\ idxLock = w /\ idxLock' = None
        /\ draft' = [draft EXCEPT ![w] = NoEntries]
    BY <1>6 DEF IndexInv, SaveSound, SaveIndex
  <2> QED
    BY <2>1, <2>2, DropKeepsIndex
<1>7. ASSUME NEW w \in Worker, Crash(w) PROVE Rest
  <2>1. Moves(w) /\ pc' = [pc EXCEPT ![w] = "idle"]
    BY <1>7, FinishMoves DEF Crash
  <2>2. pc'[w] # "save"
    BY <1>1, <2>1 DEF ControlSound
  <2>3. /\ idx' = idx /\ draft' = [draft EXCEPT ![w] = NoEntries]
        /\ idxLock' = IF idxLock = w THEN None ELSE idxLock
    BY <1>7 DEF Crash, disk
  <2> QED
    BY <2>1, <2>2, <2>3, DropKeepsIndex
<1>8. ASSUME NEW w \in Worker, NEW k \in Key, Begin(w, k) PROVE Rest
  <2>1. /\ pc' = [pc EXCEPT ![w] = "load"] /\ idx' = idx
        /\ idxLock' = idxLock /\ draft' = draft
    BY <1>8 DEF Begin, disk, locks, reads
  <2> QED
    BY <1>1, <2>1 DEF IndexInv, ControlSound, IndexTyped, SaveSound
<1>9. ASSUME UNCHANGED vars PROVE Rest
  BY <1>1, <1>9 DEF vars, disk, locks, reads, IndexInv, IndexTyped, SaveSound
<1>10. Rest
  <2>1. ~DamageIndex
    BY DEF DamageIndex
  <2> HIDE DEF Rest
  <2> QED
    BY <1>4, <1>5, <1>6, <1>7, <1>8, <1>9, <2>1 DEF Next
<1> QED
  BY <1>1, <1>2, <1>10 DEF IndexInv, IndexTyped

LEMMA IndexBegins == Init => IndexInv
<1> SUFFICES ASSUME Init PROVE IndexInv
  OBVIOUS
<1>1. NoEntries \in [Key -> Month \union {None}] /\ \A k \in Key : NoEntries[k] = None
  BY DEF NoEntries
<1>2. IndexTyped /\ \A k \in Key : idx.map[k] = None
  BY <1>1 DEF Init, IndexTyped
<1>3. ControlSound
  BY DEF Init, ControlSound, CallFits, TransitSound, Stage, Call
<1>4. \A w \in Worker : SaveSound(w)
  BY DEF Init, SaveSound
<1> QED
  BY <1>2, <1>3, <1>4 DEF IndexInv

(* The index of a ledger that only its collectors write: at a save it is   *)
(* as the collector read it, and every entry names the month of its key.   *)
THEOREM IndexInvariance == IndexFault = {} /\ Spec => []IndexInv
<1>1. CASE IndexFault = {}
  <2>1. IndexInv /\ [Next]_vars => IndexInv'
    BY <1>1, IndexKept
  <2> QED
    BY <2>1, IndexBegins, PTL DEF Spec
<1> QED
  BY <1>1

(* No update of the index loses or moves the entry of another key, however *)
(* many collectors update it (idx_lock).                                   *)
THEOREM EntriesKept == IndexFault = {} /\ Spec => IndexKeepsEntries
<1>1. CASE IndexFault = {}
  <2>1. ASSUME IndexInv, [Next]_vars
        PROVE  \A k \in Key : idx.map[k] # None => idx'.map[k] = idx.map[k]
    <3>1. idx.map \in [Key -> Month \union {None}]
      BY <2>1 DEF IndexInv, IndexTyped
    <3>2. ASSUME NEW w \in Worker,
                 idx' = Index([idx.map EXCEPT ![key[w]] = MonthOf[key[w]]])
          PROVE  \A k \in Key : idx.map[k] # None => idx'.map[k] = idx.map[k]
      BY <2>1, <3>1, <3>2 DEF IndexInv, Index
    <3> QED
      BY <1>1, <2>1, <3>2, IndexStep
  <2>2. IndexInv /\ [Next]_vars =>
          [\A k \in Key : idx.map[k] # None => idx'.map[k] = idx.map[k]]_vars
    BY <2>1
  <2>3. Spec => []IndexInv
    BY <1>1, IndexInvariance
  <2> QED
    BY <2>2, <2>3, PTL DEF Spec, IndexKeepsEntries
<1> QED
  BY <1>1

-----------------------------------------------------------------------------
(* The months.                                                             *)

(* A step that writes no month and takes no lock from another collector.   *)
LEMMA OthersAppend ==
    ASSUME WriteInv, NEW w \in Worker, Moves(w), file' = file,
           \A v \in Worker \ {w}, m \in Month : lock[m] = v => lock'[m] = v,
           NEW v \in Worker \ {w}
    PROVE  AppendFits(v)'
<1>1. pc'[v] = pc[v] /\ MyMonth(v)' = MyMonth(v) /\ MyMonth(v) \in Month
  BY LedgerAssumption DEF WriteInv, ControlSound, Moves, MyMonth
<1>2. AppendFits(v)
  BY DEF WriteInv
<1> QED
  BY <1>1, <1>2 DEF AppendFits, Parses

(* An append writes the month it locked, which nobody else is about to     *)
(* write.                                                                  *)
LEMMA AppendKeepsWrite ==
    ASSUME WriteInv, NEW w \in Worker, Append(w)
    PROVE  WriteInv'
<1> DEFINE m == MyMonth(w)
<1>1. ControlSound /\ Moves(w) /\ CallFits(w)' /\ ControlSound'
  BY StepMoves, ControlKept DEF WriteInv, Step, Next
<1>2. m \in Month /\ lock[m] = w /\ pc[w] = "append"
  BY LedgerAssumption DEF WriteInv, ControlSound, MyMonth, AppendFits, Append
<1>3. lock' = [lock EXCEPT ![m] = None] /\ DOMAIN file' = Month
  BY DEF Append, WriteInv
<1>4. \A n \in Month \ {m} : file'[n] = file[n]
  BY DEF Append, WriteInv
<1>5. pc'[w] # "append"
  BY <1>1, <1>2, StepMoves DEF Step, Create, Transit
<1>6. ASSUME NEW v \in Worker \ {w}, pc'[v] = "append"
      PROVE  lock'[MyMonth(v)'] = v /\ Parses(file'[MyMonth(v)'])
  <2>1. pc[v] = "append" /\ MyMonth(v)' = MyMonth(v) /\ MyMonth(v) \in Month
    BY <1>1, <1>6, LedgerAssumption DEF ControlSound, Moves, MyMonth
  <2>2. lock[MyMonth(v)] = v /\ Parses(file[MyMonth(v)])
    BY <2>1 DEF WriteInv, AppendFits
  <2>3. MyMonth(v) # m
    BY <1>2, <2>2
  <2> QED
    BY <1>3, <1>4, <2>1, <2>2, <2>3 DEF WriteInv
<1>7. \A v \in Worker : AppendFits(v)'
  BY <1>5, <1>6 DEF AppendFits, Parses
<1> QED
  BY <1>1, <1>3, <1>7 DEF WriteInv

(* A creation or a transition takes a free lock and has read the month.    *)
LEMMA LockKeepsWrite ==
    ASSUME WriteInv, NEW w \in Worker, Create(w) \/ Transit(w)
    PROVE  WriteInv'
<1> DEFINE m == MyMonth(w)
<1>1. ControlSound /\ Moves(w) /\ ControlSound' /\ m \in Month
  BY StepMoves, ControlKept, LedgerAssumption
     DEF WriteInv, Step, Next, ControlSound, MyMonth
<1>2. file' = file /\ lock[m] = None
  BY DEF Create, Transit, disk, MonthFree
<1>3. lock' = lock \/ lock' = [lock EXCEPT ![m] = w]
  BY DEF Create, Transit
<1>4. lock' \in [Month -> Worker \union {None}]
  BY <1>1, <1>3 DEF WriteInv
<1>5. \A v \in Worker \ {w}, n \in Month : lock[n] = v => lock'[n] = v
  BY <1>1, <1>2, <1>3, LedgerAssumption DEF WriteInv
<1>6. \A v \in Worker \ {w} : AppendFits(v)'
  BY <1>1, <1>2, <1>5, OthersAppend
<1>7. pc'[w] = "append" => Parses(file[m]) /\ lock' = [lock EXCEPT ![m] = w]
  <2>1. Fail(w) => pc'[w] # "append"
    BY <1>1, FailMoves DEF ControlSound
  <2>2. Goto(w, "index", "matched") \/ Finish(w, "CONFLICT") => pc'[w] # "append"
    BY <1>1 DEF Goto, Finish, ControlSound
  <2> QED
    BY <1>1, <2>1, <2>2 DEF Create, Transit, Accepts, AllReadable, Readable
<1>8. MyMonth(w)' = m
  BY <1>1 DEF MyMonth, Moves
<1>9. AppendFits(w)'
  BY <1>1, <1>2, <1>7, <1>8 DEF AppendFits, Parses, WriteInv
<1> QED
  BY <1>1, <1>2, <1>4, <1>6, <1>9 DEF WriteInv

LEMMA WriteKept ==
    ASSUME WriteInv, [Next]_vars
    PROVE  WriteInv'
<1>1. ControlSound /\ ControlSound'
  BY ControlKept DEF WriteInv
<1>2. ASSUME NEW w \in Worker, Moves(w), pc'[w] # "append", file' = file,
             lock' \in [Month -> Worker \union {None}],
             \A v \in Worker \ {w}, m \in Month : lock[m] = v => lock'[m] = v
      PROVE  WriteInv'
  <2>1. \A v \in Worker \ {w} : AppendFits(v)'
    BY <1>2, OthersAppend
  <2>2. AppendFits(w)'
    BY <1>2 DEF AppendFits
  <2> QED
    BY <1>1, <1>2, <2>1, <2>2 DEF WriteInv
<1>3. ASSUME NEW w \in Worker, Step(w), ~Create(w), ~Transit(w), ~Append(w)
      PROVE  WriteInv'
  <2>1. file' = file /\ lock' = lock
    BY <1>3 DEF Step, LoadIndex, Scan, Reread, Decide, ReadIndex, SaveIndex,
       FetchFails, Fetch, disk, locks
  <2> QED
    BY <1>1, <1>2, <1>3, <2>1, StepMoves DEF WriteInv
<1>4. ASSUME NEW w \in Worker, Crash(w) PROVE WriteInv'
  <2>1. Moves(w) /\ pc' = [pc EXCEPT ![w] = "idle"]
    BY <1>4, FinishMoves DEF Crash
  <2>2. /\ file' = file
        /\ lock' = [m \in Month |-> IF lock[m] = w THEN None ELSE lock[m]]
    BY <1>4 DEF Crash, disk
  <2> QED
    BY <1>1, <1>2, <2>1, <2>2 DEF WriteInv, ControlSound
<1>5. ASSUME NEW w \in Worker, NEW k \in Key, Begin(w, k) PROVE WriteInv'
  <2>1. /\ pc' = [pc EXCEPT ![w] = "load"] /\ key' = [key EXCEPT ![w] = k]
        /\ file' = file /\ lock' = lock
    BY <1>5 DEF Begin, disk, locks
  <2>2. \A v \in Worker : AppendFits(v)'
    BY <1>1, <2>1 DEF WriteInv, ControlSound, AppendFits, MyMonth, Parses
  <2> QED
    BY <1>1, <2>1, <2>2 DEF WriteInv
<1>6. CASE DamageIndex \/ UNCHANGED vars
  <2>1. pc' = pc /\ key' = key /\ file' = file /\ lock' = lock
    BY <1>6 DEF DamageIndex, vars, disk, locks, job
  <2> QED
    BY <1>1, <2>1 DEF WriteInv, AppendFits, MyMonth, Parses
<1> QED
  BY <1>3, <1>4, <1>5, <1>6, LockKeepsWrite, AppendKeepsWrite DEF Next, Step

LEMMA WriteBegins == Init => WriteInv
BY DEF Init, WriteInv, ControlSound, CallFits, TransitSound, AppendFits, Stage,
   Call, EmptyFile

(* Whatever an append leaves of its line, one that is about to happen has  *)
(* the lock of its month and found the month readable.                     *)
THEOREM WriteInvariance == Spec => []WriteInv
<1>1. WriteInv /\ [Next]_vars => WriteInv'
  BY WriteKept
<1> QED
  BY <1>1, WriteBegins, PTL DEF Spec

(* A month with an unreadable line before its last is never written again  *)
(* (_read_events_raw: fail-closed).                                        *)
THEOREM CorruptKept == Spec => CorruptFailsClosed
<1>1. ASSUME WriteInv, [Next]_vars, NEW m \in Month, file[m].tail = "corrupt"
      PROVE  file'[m] = file[m]
  <2>1. ASSUME NEW w \in Worker, Append(w) PROVE file'[m] = file[m]
    <3>1. MyMonth(w) # m
      BY <1>1, <2>1 DEF WriteInv, AppendFits, Append, Parses
    <3> QED
      BY <1>1, <2>1, <3>1 DEF Append, WriteInv
  <2>2. ASSUME NEW w \in Worker, Step(w), ~Append(w) PROVE file' = file
    BY <2>2 DEF Step, LoadIndex, Scan, Reread, Decide, ReadIndex, SaveIndex,
       FetchFails, Fetch, Create, Transit, disk
  <2>3. ASSUME NEW w \in Worker, Crash(w) \/ \E k \in Key : Begin(w, k)
        PROVE  file' = file
    BY <2>3 DEF Crash, Begin, disk
  <2>4. DamageIndex \/ UNCHANGED vars => file' = file
    BY DEF DamageIndex, vars, disk
  <2> QED
    BY <1>1, <2>1, <2>2, <2>3, <2>4 DEF Next
<1>2. WriteInv /\ [Next]_vars =>
        [\A m \in Month : file[m].tail = "corrupt" => file'[m] = file[m]]_vars
  BY <1>1
<1> QED
  BY <1>2, WriteInvariance, PTL DEF Spec, CorruptFailsClosed
=============================================================================

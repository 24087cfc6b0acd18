-------------------------- MODULE V2bLedgerInvariant ------------------------
(***************************************************************************)
(* The inductive invariants of V2bLedger, by what they ask of the file     *)
(* system: histories, the index and the write to a month on any; lookups   *)
(* where no append stops just before its newline; reports where an append  *)
(* is completed or not started.                                            *)
(***************************************************************************)
EXTENDS V2bLedger

(* A collector about to append holds the lock of its month, has seen all   *)
(* the key's events, and appends what the status machine allows.           *)
AppendSound(w) ==
    pc[w] = "append" =>
        /\ lock[MyMonth(w)] = w
        /\ seen[w] = Mine(w)
        /\ \/ /\ op[w] = "create"
              /\ content[w] \in Content \ ContentOf(seen[w])
              /\ Writable(seen[w])
           \/ /\ op[w] \in TransitionCall
              /\ seen[w] # {}
              /\ Target(op[w]) \in Transitions[Status(seen[w])]

(* A creation carries the content it was asked to record.                  *)
CreateSound(w) ==
    pc[w] = "create" => op[w] = "create" /\ content[w] \in Content

TransitSound(w) == pc[w] = "transit" => op[w] \in TransitionCall

WriterSound(w) == AppendSound(w) /\ CreateSound(w) /\ TransitSound(w)

(* What the next append leaves of a history if it spoils the last line.    *)
EndedOf(k) == EventsOf(k) \ file[MonthOf[k]].unended

EndedLegal == \A k \in Key : Legal(EndedOf(k))

HistoryInv ==
    /\ TypeOK
    /\ LegalHistory
    /\ EndedLegal
    /\ \A w \in Worker : WriterSound(w)

(* No collector answers from a history the status machine forbids.         *)
SeenLegal == \A w \in Worker : Legal(seen[w])

-----------------------------------------------------------------------------
(* Where no append leaves a complete line without its newline, a month     *)
(* keeps every event it ever had.                                          *)
LinesEnd == "whole" \notin WriteFault

LinesEnded == \A m \in Month : file[m].unended = {}

(* What was in the ledger when a lookup began is still there.              *)
FloorKept(w) == pc[w] \notin {"idle", "load"} => floor[w] \subseteq Mine(w)

LookupInv ==
    /\ HistoryInv
    /\ LinesEnded
    /\ \A w \in Worker : FloorKept(w) /\ LookupComplete(w)

-----------------------------------------------------------------------------
(* Where every append is completed or not started, it is not spoilt by     *)
(* what an earlier one left either.                                        *)
TearFree == WriteFault \subseteq {"lost", "late"}

FilesWhole == \A m \in Month : file[m].tail = "ended"

ReportInv == LookupInv /\ FilesWhole /\ SeenLegal /\ CompletedIsFinal

-----------------------------------------------------------------------------
(* On any file system: what a step needs to know of the control of a run.  *)
CallFits(w) ==
    /\ TransitSound(w)
    /\ pc[w] = "append" => op[w] \in {"create"} \union TransitionCall

ControlSound ==
    /\ pc \in [Worker -> Stage] /\ op \in [Worker -> Call]
    /\ key \in [Worker -> Key]
    /\ \A w \in Worker : CallFits(w)

IndexTyped ==
    /\ idx \in [kind : {"ok", "absent"}, map : [Key -> Month \union {None}]]
    /\ idxLock \in Worker \union {None}
    /\ draft \in [Worker -> [Key -> Month \union {None}]]

(* A collector about to save the index holds its lock, and nobody has      *)
(* written the index since it read it.                                     *)
SaveSound(w) == pc[w] = "save" => idxLock = w /\ draft[w] = idx.map

(* The invariant of an index nothing damages from outside.                 *)
IndexInv ==
    /\ ControlSound /\ IndexTyped
    /\ \A k \in Key : idx.map[k] \in {None, MonthOf[k]}
    /\ \A w \in Worker : SaveSound(w)

(* A collector about to append holds the lock of a month that parses.      *)
AppendFits(w) ==
    pc[w] = "append" => lock[MyMonth(w)] = w /\ Parses(file[MyMonth(w)])

WriteInv ==
    /\ ControlSound
    /\ DOMAIN file = Month
    /\ lock \in [Month -> Worker \union {None}]
    /\ \A w \in Worker : AppendFits(w)
=============================================================================

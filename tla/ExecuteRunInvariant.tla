------------------------ MODULE ExecuteRunInvariant -------------------------
(***************************************************************************)
(* The inductive invariant of ExecuteRun: what the fill log, the portfolio *)
(* file and trades.csv of a strategy say of each other, what a run in      *)
(* progress adds to its files, and how splits are counted.                 *)
(***************************************************************************)
EXTENDS ExecuteRun

(* The stage of a fill tells whether the portfolio file contains it, but   *)
(* for a fill with an intent, whose post-hash then is that of the file,    *)
(* unless the file was adjusted for a split since; so is one refused.  An  *)
(* intent, of this attempt or an earlier one, adds the fill.               *)
FillSound(port, fill, n) ==
    /\ fill.stage \in Marked => n \in port.fills
    /\ fill.stage \in {"none", "settling"} => n \notin port.fills
    /\ fill.post # NoHash => n \in fill.post.fills /\ n \notin fill.pre.fills
    /\ fill.stage \in {"intended", "marked"} => fill.post # NoHash
    /\ fill.stage \in {"intended", "marked"} \union Failed /\ n \in port.fills =>
          \/ fill.stage \notin Failed /\ Matches(port, fill.post)
          \/ \E m \in n..MaxSession : port.splits[m] > 0

FillsSound(tree, today) ==
    \A s \in Strategy, n \in Session :
        /\ FillSound(tree.port[s], tree.wal[s][n], n)
        /\ n > today => tree.wal[s][n].stage = "none"

DaySound(day, filled) == (HasFill(day) => filled) /\ OneFill(day)

CsvSound(tree) ==
    \A s \in Strategy, n \in Session :
        DaySound(tree.csv[s][n], n \in tree.port[s].fills)

(* A split whose row is in the rows was counted once more than the splits  *)
(* whose rows were lost, each with a run that ended early.                 *)
SplitCount(day) == IF HasSplit(day) THEN 1 ELSE 0

SplitsCounted(tree, days, failures) ==
    \A s \in Strategy, n \in Session :
        tree.port[s].splits[n] <=
            failures + Cardinality(Refused(tree)) + SplitCount(days[s][n])

(* Until it is saved, the rows of a run replace trades.csv.                *)
Working == {"split", "recover", "trade", "intent", "save", "settle"}

TreesSound ==
    /\ FillsSound(remote, clock) /\ CsvSound(remote)
    /\ SplitsCounted(remote, remote.csv, faults)
    /\ FillsSound(disk, clock) /\ CsvSound(disk)
    /\ SplitsCounted(disk, IF pc \in Working THEN rows ELSE disk.csv, faults)
    /\ Grows(remote.port, disk.port)

(* The run has the row of one fill that is not in the portfolio file yet.  *)
BeingFilled(s, n) ==
    /\ pc \in {"intent", "save"} /\ s = Current /\ n = clock
    /\ disk.wal[s][n].stage \in {"settling", "intended"}

RowsSound ==
    pc \in Working =>
        \A s \in Strategy, n \in Session :
            DaySound(rows[s][n], n \in disk.port[s].fills \/ BeingFilled(s, n))

(* The strategy at hand has no unsettled fill but that of today, and is in *)
(* memory what the file is, with that fill.                                *)
RunSound ==
    /\ pc \in {"split", "trade", "intent", "save", "settle"} => todo # <<>>
    /\ pc \in {"trade", "intent", "save", "settle"} => Unsettled \subseteq {clock}
    /\ pc = "trade" => Unsettled = {}
    /\ pc = "intent" =>
          Wal[clock].stage \in {"settling", "intended"}
          /\ clock \notin disk.port[Current].fills
    /\ pc = "save" => Wal[clock].stage \notin {"settling", "marked"}
    /\ pc = "save" /\ Wal[clock].stage = "intended" =>
          Matches(mem, Wal[clock].post)
    /\ pc = "settle" =>
          Wal[clock].stage \in {"intended", "marked"}
          /\ clock \in disk.port[Current].fills
    /\ pc \in {"trade", "intent", "save"} =>
          /\ mem.splits = disk.port[Current].splits
          /\ mem.fills = disk.port[Current].fills \union
                (IF Wal[clock].stage \in {"settling", "intended"} THEN {clock} ELSE {})

ExecuteInv == TypeOK /\ TreesSound /\ RowsSound /\ RunSound
=============================================================================

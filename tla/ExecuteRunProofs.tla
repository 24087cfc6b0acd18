------------------------- MODULE ExecuteRunProofs --------------------------
(***************************************************************************)
(* Proofs about ExecuteRun, for any strategies, sessions and faults: the   *)
(* inductive invariant of ExecuteRunInvariant, and the properties that     *)
(* follow from it.                                                         *)
(***************************************************************************)
EXTENDS ExecuteRunInvariant, FiniteSetTheorems, SequenceTheorems, TLAPS

-----------------------------------------------------------------------------
(* Rows of a day.                                                          *)

(* What a row at the end of a day adds to it.                              *)
LEMMA AppendDay ==
    ASSUME NEW day \in Seq(RowType), NEW r \in RowType
    PROVE  /\ Append(day, r) \in Seq(RowType)
           /\ HasFill(Append(day, r)) <=> HasFill(day) \/ r.kind # "SPLIT"
           /\ HasSplit(Append(day, r)) <=> HasSplit(day) \/ r.kind = "SPLIT"
           /\ OneFill(day) /\ (HasFill(day) => r.kind = "SPLIT") =>
                 OneFill(Append(day, r))
<1> DEFINE later == Append(day, r)
<1>1. /\ later \in Seq(RowType)
      /\ Len(later) = Len(day) + 1
      /\ \A i \in 1..Len(day) : later[i] = day[i]
      /\ later[Len(day) + 1] = r
  BY AppendProperties
<1>2. /\ DOMAIN later = 1..(Len(day) + 1) /\ DOMAIN day = 1..Len(day)
      /\ Len(day) \in Nat
  BY <1>1, LenProperties
<1> HIDE DEF later
<1>3. HasFill(later) <=> HasFill(day) \/ r.kind # "SPLIT"
  BY <1>1, <1>2 DEF HasFill
<1>4. HasSplit(later) <=> HasSplit(day) \/ r.kind = "SPLIT"
  BY <1>1, <1>2 DEF HasSplit
<1>5. OneFill(day) /\ (HasFill(day) => r.kind = "SPLIT") => OneFill(later)
  BY <1>1, <1>2 DEF OneFill, HasFill
<1> QED
  BY <1>1, <1>3, <1>4, <1>5 DEF later

(* What a row at the start of a day adds to it.                            *)
LEMMA PrependDay ==
    ASSUME NEW day \in Seq(RowType), NEW r \in RowType, r.kind # "SPLIT"
    PROVE  LET later == <<r>> \o day IN
           /\ later \in Seq(RowType)
           /\ HasFill(later)
           /\ HasSplit(later) <=> HasSplit(day)
           /\ ~HasFill(day) => OneFill(later)
<1> DEFINE later == <<r>> \o day
<1>1. <<r>> \in Seq(RowType) /\ Len(<<r>>) = 1 /\ <<r>>[1] = r
  OBVIOUS
<1>2. /\ later \in Seq(RowType)
      /\ Len(later) = 1 + Len(day)
      /\ \A i \in 1..(1 + Len(day)) :
            later[i] = IF i <= 1 THEN <<r>>[i] ELSE day[i - 1]
  BY <1>1, ConcatProperties
<1>3. /\ DOMAIN later = 1..(1 + Len(day)) /\ DOMAIN day = 1..Len(day)
      /\ Len(day) \in Nat
  BY <1>2, LenProperties
<1> HIDE DEF later
<1>4. later[1] = r /\ \A i \in 1..Len(day) : later[i + 1] = day[i]
  BY <1>1, <1>2, <1>3
<1>5. \A i \in DOMAIN later : i = 1 \/ (i - 1 \in DOMAIN day /\ later[i] = day[i - 1])
  BY <1>2, <1>3
<1>6. HasFill(later)
  BY <1>3, <1>4 DEF HasFill
<1>7. HasSplit(later) <=> HasSplit(day)
  BY <1>3, <1>4, <1>5 DEF HasSplit
<1>8. ~HasFill(day) => OneFill(later)
  BY <1>3, <1>4, <1>5 DEF OneFill, HasFill
<1> QED
  BY <1>2, <1>6, <1>7, <1>8 DEF later

(* The row of a fill.                                                      *)
LEMMA FillRowType ==
    ASSUME NEW buy \in BOOLEAN, NEW n \in Session, NEW again \in BOOLEAN
    PROVE  FillRow(buy, n, again) \in RowType /\ FillRow(buy, n, again).kind # "SPLIT"
  BY DEF FillRow, Row, RowType

(* The projection adds rows of fills that are in the portfolio, once, and  *)
(* no split.                                                               *)
LEMMA ProjectedDays ==
    ASSUME NEW days \in [Session -> Seq(RowType)], NEW wal \in [Session -> Fill],
           NEW n \in Session, NEW filled \in BOOLEAN,
           DaySound(days[n], filled),
           wal[n].stage \in Marked => filled
    PROVE  /\ Projected(days, wal)[n] \in Seq(RowType)
           /\ DaySound(Projected(days, wal)[n], filled)
           /\ SplitCount(Projected(days, wal)[n]) = SplitCount(days[n])
<1> DEFINE day == days[n]
           row == FillRow(wal[n].buy, n, TRUE)
<1>1. day \in Seq(RowType) /\ row \in RowType /\ row.kind # "SPLIT"
  BY FillRowType DEF Fill
<1>2. CASE Missing(days, wal, n)
  <2>1. Projected(days, wal)[n] = <<row>> \o day
    BY <1>2 DEF Projected
  <2>2. filled /\ ~HasFill(day)
    BY <1>2 DEF Missing
  <2> HIDE DEF day, row
  <2>3. /\ <<row>> \o day \in Seq(RowType)
        /\ HasSplit(<<row>> \o day) <=> HasSplit(day)
        /\ OneFill(<<row>> \o day)
    BY <1>1, <2>2, PrependDay
  <2> QED
    BY <2>1, <2>2, <2>3 DEF DaySound, SplitCount, day
<1>3. CASE ~Missing(days, wal, n)
  BY <1>1, <1>3 DEF Projected
<1> QED
  BY <1>2, <1>3

-----------------------------------------------------------------------------
(* Counting refused fills.                                                 *)
LEMMA StrategiesFinite == IsFiniteSet(Strategy \X Session)
<1>1. IsFiniteSet(DOMAIN Strategies) /\ IsFiniteSet(Session)
  <2>1. DOMAIN Strategies = 1..Len(Strategies) /\ Len(Strategies) \in Nat
    BY ExecuteAssumption, LenProperties
  <2> QED
    BY <2>1, FS_Interval, ExecuteAssumption DEF Session
<1>2. Strategies \in Surjection(DOMAIN Strategies, Strategy)
  BY ExecuteAssumption DEF Strategy, ToSet, Surjection
<1>3. IsFiniteSet(Strategy)
  BY <1>1, <1>2, FS_Surjection
<1> QED
  BY <1>1, <1>3, FS_Product

LEMMA RefusedCount ==
    ASSUME NEW tree, NEW later, Refused(tree) \subseteq Refused(later)
    PROVE  /\ Cardinality(Refused(tree)) \in Nat /\ Cardinality(Refused(later)) \in Nat
           /\ Cardinality(Refused(tree)) <= Cardinality(Refused(later))
           /\ Refused(tree) # Refused(later) =>
                 Cardinality(Refused(tree)) + 1 <= Cardinality(Refused(later))
<1>1. Refused(later) \subseteq Strategy \X Session
  BY DEF Refused
<1>2. IsFiniteSet(Refused(later)) /\ IsFiniteSet(Refused(tree))
  BY <1>1, StrategiesFinite, FS_Subset
<1>3. /\ Cardinality(Refused(tree)) \in Nat /\ Cardinality(Refused(later)) \in Nat
      /\ Cardinality(Refused(tree)) <= Cardinality(Refused(later))
      /\ Cardinality(Refused(later)) = Cardinality(Refused(tree)) =>
            Refused(later) = Refused(tree)
  BY <1>2, FS_CardinalityType, FS_Subset
<1> QED
  BY <1>3

(* A count stays a bound when the splits and the rows of the days do not   *)
(* change, more fills are refused and more runs have failed; a run that    *)
(* ended early accounts for the row of a split it has lost.                *)
LEMMA CountKept ==
    ASSUME NEW tree \in Tree, NEW later \in Tree, NEW days, NEW newer,
           NEW failures \in Nat, NEW more \in Nat,
           SplitsCounted(tree, days, failures),
           \A s \in Strategy : later.port[s].splits = tree.port[s].splits,
           Refused(tree) \subseteq Refused(later), failures <= more,
           \/ \A s \in Strategy, n \in Session :
                 SplitCount(newer[s][n]) = SplitCount(days[s][n])
           \/ failures + 1 <= more
           \/ Refused(tree) # Refused(later)
    PROVE  SplitsCounted(later, newer, more)
<1> SUFFICES ASSUME NEW s \in Strategy, NEW n \in Session
             PROVE  later.port[s].splits[n] <=
                      more + Cardinality(Refused(later)) + SplitCount(newer[s][n])
  BY DEF SplitsCounted
<1>1. tree.port[s].splits[n] <=
        failures + Cardinality(Refused(tree)) + SplitCount(days[s][n])
  BY DEF SplitsCounted
<1>2. later.port[s].splits[n] = tree.port[s].splits[n] /\ tree.port[s].splits[n] \in Nat
  BY DEF Tree, Portfolio
<1>3. SplitCount(days[s][n]) \in 0..1 /\ SplitCount(newer[s][n]) \in 0..1
  BY DEF SplitCount
<1>4. /\ Cardinality(Refused(tree)) \in Nat /\ Cardinality(Refused(later)) \in Nat
      /\ Cardinality(Refused(tree)) <= Cardinality(Refused(later))
      /\ Refused(tree) # Refused(later) =>
            Cardinality(Refused(tree)) + 1 <= Cardinality(Refused(later))
  BY RefusedCount
<1> QED
  BY <1>1, <1>2, <1>3, <1>4

-----------------------------------------------------------------------------
(* A write to the fill log, of one fill.                                   *)
LEMMA FillWritten ==
    ASSUME TypeOK, FillsSound(disk, clock),
           NEW s \in Strategy, NEW n \in Session, NEW fill \in Fill,
           disk' = [disk EXCEPT !.wal[s][n] = fill],
           n <= clock, disk.wal[s][n].stage \notin Failed,
           FillSound(disk.port[s], fill, n)
    PROVE  /\ disk' \in Tree /\ disk'.port = disk.port /\ disk'.csv = disk.csv
           /\ disk'.wal[s][n] = fill
           /\ \A t \in Strategy, m \in Session :
                 t # s \/ m # n => disk'.wal[t][m] = disk.wal[t][m]
           /\ FillsSound(disk', clock)
           /\ Refused(disk) \subseteq Refused(disk')
<1>1. /\ disk \in Tree /\ disk' \in Tree /\ disk'.port = disk.port /\ disk'.csv = disk.csv
      /\ disk'.wal[s][n] = fill
      /\ \A t \in Strategy, m \in Session :
            t # s \/ m # n => disk'.wal[t][m] = disk.wal[t][m]
  BY DEF TypeOK, Tree
<1>2. FillsSound(disk', clock)
  <2> SUFFICES ASSUME NEW t \in Strategy, NEW m \in Session
               PROVE  /\ FillSound(disk'.port[t], disk'.wal[t][m], m)
                      /\ m > clock => disk'.wal[t][m].stage = "none"
    BY DEF FillsSound
  <2>1. CASE t = s /\ m = n
    BY <1>1, <2>1 DEF TypeOK, Session
  <2>2. CASE t # s \/ m # n
    BY <1>1, <2>2 DEF FillsSound
  <2> QED
    BY <2>1, <2>2
<1>3. Refused(disk) \subseteq Refused(disk')
  BY <1>1 DEF Refused
<1> QED
  BY <1>1, <1>2, <1>3

-----------------------------------------------------------------------------
(* The initial state.                                                      *)
LEMMA FirstPortfolioType ==
    \A s \in Strategy : FirstPortfolio(s) \in Portfolio /\ FirstPortfolio(s).fills = {}
  BY ExecuteAssumption DEF FirstPortfolio, Portfolio, Session, NoFile

LEMMA EmptyDay == ~HasFill(<<>>) /\ ~HasSplit(<<>>) /\ OneFill(<<>>)
  BY DEF HasFill, HasSplit, OneFill

LEMMA EmptyTreeType == EmptyTree \in Tree
<1>1. EmptyTree.port \in [Strategy -> Portfolio]
  BY FirstPortfolioType DEF EmptyTree
<1>2. NoFill \in Fill
  BY DEF NoFill, Fill, NoHash, Hashes, Stage
<1>3. EmptyTree.wal \in [Strategy -> [Session -> Fill]]
  BY <1>2 DEF EmptyTree
<1>4. EmptyTree.csv \in Rows
  BY DEF EmptyTree, Rows
<1> QED
  BY <1>1, <1>3, <1>4 DEF EmptyTree, Tree

LEMMA InitSound == Init => ExecuteInv
<1> SUFFICES ASSUME Init PROVE ExecuteInv
  OBVIOUS
<1>1. FillsSound(EmptyTree, clock)
  BY FirstPortfolioType DEF FillsSound, FillSound, EmptyTree, NoFill, Marked, Failed
<1>2. CsvSound(EmptyTree)
  BY EmptyDay DEF CsvSound, DaySound, EmptyTree
<1>3. SplitsCounted(EmptyTree, EmptyTree.csv, faults)
  <2> SUFFICES ASSUME NEW s \in Strategy, NEW n \in Session
               PROVE  EmptyTree.port[s].splits[n] <=
                        faults + Cardinality(Refused(EmptyTree))
                               + SplitCount(EmptyTree.csv[s][n])
    BY DEF SplitsCounted
  <2>1. Cardinality(Refused(EmptyTree)) \in Nat
    BY RefusedCount
  <2>2. EmptyTree.port[s].splits[n] = 0 /\ SplitCount(EmptyTree.csv[s][n]) = 0
    BY EmptyDay DEF EmptyTree, FirstPortfolio, SplitCount
  <2> QED
    BY <2>1, <2>2 DEF Init
<1>4. Grows(EmptyTree.port, EmptyTree.port)
  BY EmptyTreeType DEF Grows, Tree, Portfolio
<1>5. Head(Strategies) \in Strategy
  BY ExecuteAssumption, HeadTailProperties
<1>6. TypeOK
  BY EmptyTreeType, FirstPortfolioType, ExecuteAssumption, <1>5
  DEF TypeOK, Init, Tree, Session
<1>7. TreesSound
  BY <1>1, <1>2, <1>3, <1>4 DEF TreesSound, Init, Working
<1>8. RowsSound /\ RunSound
  BY DEF RowsSound, RunSound, Init, Working
<1> QED
  BY <1>6, <1>7, <1>8 DEF ExecuteInv

-----------------------------------------------------------------------------
(* Recovery.                                                               *)
LEMMA CurrentType ==
    TypeOK /\ todo # <<>> => Current \in Strategy /\ Tail(todo) \in Seq(Strategy)
  BY HeadTailProperties DEF TypeOK, Current

(* A fill of the strategy at hand is settled, retried or refused.          *)
LEMMA RecoverSound ==
    ASSUME ExecuteInv, pc = "recover", todo # <<>>,
           NEW n \in Unsettled, NEW fill \in Fill,
           disk' = [disk EXCEPT !.wal[Current][n] = fill],
           FillSound(disk.port[Current], fill, n),
           recovered' \subseteq Strategy \X Session,
           UNCHANGED <<remote, todo, rows, mem, alert, clock, faults>>,
           pc' = "recover" \/ (pc' = "commit" /\ fill.stage \in Failed)
    PROVE  ExecuteInv'
<1>1. /\ Current \in Strategy /\ n \in Session
      /\ disk.wal[Current][n].stage \notin {"none"} \union Failed
  BY CurrentType DEF ExecuteInv, Unsettled, Wal, Failed
<1>2. n <= clock
  BY <1>1 DEF ExecuteInv, TypeOK, TreesSound, FillsSound, Session
<1>3. /\ disk' \in Tree /\ disk'.port = disk.port /\ disk'.csv = disk.csv
      /\ FillsSound(disk', clock)
      /\ Refused(disk) \subseteq Refused(disk')
      /\ disk'.wal[Current][n] = fill
  BY <1>1, <1>2, FillWritten DEF ExecuteInv, TreesSound
<1>4. TypeOK'
  BY <1>3 DEF ExecuteInv, TypeOK
<1>5. TreesSound'
  <2>1. \/ SplitsCounted(disk', rows, faults) /\ pc' = "recover"
        \/ SplitsCounted(disk', disk'.csv, faults) /\ pc' = "commit"
    <3>1. SplitsCounted(disk, rows, faults) /\ disk \in Tree /\ faults \in Nat
      BY ExecuteAssumption DEF ExecuteInv, TreesSound, TypeOK, Working
    <3>2. /\ \A s \in Strategy : disk'.port[s].splits = disk.port[s].splits
          /\ faults <= faults
          /\ \A s \in Strategy, m \in Session :
                SplitCount(rows[s][m]) = SplitCount(rows[s][m])
      BY <1>3, <3>1
    <3>3. CASE pc' = "recover"
      <4>1. SplitsCounted(disk', rows, faults)
        BY <1>3, <3>1, <3>2, CountKept
      <4> QED
        BY <3>3, <4>1
    <3>4. CASE pc' = "commit" /\ fill.stage \in Failed
      <4>1. <<Current, n>> \in Refused(disk') \ Refused(disk)
        BY <1>1, <1>3, <3>4 DEF Refused
      <4>2. SplitsCounted(disk', disk'.csv, faults)
        BY <1>3, <3>1, <3>2, <4>1, CountKept
      <4> QED
        BY <3>4, <4>2
    <3> QED
      BY <3>3, <3>4
  <2>2. FillsSound(disk', clock) /\ CsvSound(disk') /\ Grows(remote.port, disk'.port)
    BY <1>3 DEF ExecuteInv, TreesSound, CsvSound
  <2> QED
    BY <2>1, <2>2 DEF ExecuteInv, TreesSound, Working
<1>6. RowsSound'
  BY <1>3 DEF ExecuteInv, RowsSound, Working, BeingFilled
<1>7. RunSound'
  BY DEF ExecuteInv, RunSound
<1> QED
  BY <1>4, <1>5, <1>6, <1>7 DEF ExecuteInv

LEMMA UnsettledFill ==
    ASSUME ExecuteInv, todo # <<>>, NEW n \in Unsettled
    PROVE  /\ Current \in Strategy /\ n \in Session /\ Wal[n] \in Fill
           /\ Wal[n] = disk.wal[Current][n]
           /\ FillSound(disk.port[Current], Wal[n], n)
  BY CurrentType
  DEF ExecuteInv, TypeOK, Tree, Unsettled, Wal, TreesSound, FillsSound

(* A fill whose post-hash is that of the portfolio is in it, one whose     *)
(* pre-hash is, is not.                                                    *)
LEMMA RecoveryDecides ==
    ASSUME ExecuteInv, todo # <<>>, NEW n \in Unsettled
    PROVE  /\ Saved(n) => n \in disk.port[Current].fills
           /\ NotSaved(n) => n \notin disk.port[Current].fills
           /\ ~Saved(n) /\ ~NotSaved(n) /\ n \in disk.port[Current].fills =>
                 \E m \in n..MaxSession : disk.port[Current].splits[m] > 0
<1> DEFINE fill == Wal[n]
           port == disk.port[Current]
<1>1. FillSound(port, fill, n) /\ fill.stage \in {"settling", "intended", "marked"}
  BY UnsettledFill DEF Unsettled
<1>2. /\ Saved(n) <=> fill.stage # "settling" /\ Matches(port, fill.post)
      /\ NotSaved(n) <=>
            \/ fill.stage = "settling"
            \/ fill.stage = "intended" /\ ~Saved(n) /\ Matches(port, fill.pre)
  BY DEF Saved, NotSaved
<1> HIDE DEF fill, port
<1>3. \A hash : Matches(port, hash) => hash.fills = port.fills
  BY DEF Matches, Hash
<1>4. Saved(n) => n \in port.fills
  BY <1>1, <1>2, <1>3 DEF FillSound
<1>5. NotSaved(n) => n \notin port.fills
  BY <1>1, <1>2, <1>3 DEF FillSound
<1>6. ~Saved(n) /\ ~NotSaved(n) /\ n \in port.fills =>
          \E m \in n..MaxSession : port.splits[m] > 0
  BY <1>1, <1>2 DEF FillSound
<1> QED
  BY <1>4, <1>5, <1>6 DEF port

(* A fill with another stage, with and without its intent.                 *)
LEMMA RestagedFill ==
    ASSUME NEW fill \in Fill, NEW stage \in Stage
    PROVE  /\ LET later == [fill EXCEPT !.stage = stage]
              IN  /\ later \in Fill /\ later.stage = stage
                  /\ later.pre = fill.pre /\ later.post = fill.post
           /\ LET later == [fill EXCEPT !.stage = stage, !.pre = NoHash,
                                        !.post = NoHash]
              IN  later \in Fill /\ later.stage = stage /\ later.post = NoHash
<1>1. NoHash \in Hashes
  BY DEF NoHash, Hashes
<1> QED
  BY <1>1 DEF Fill

LEMMA MarkerStep == ExecuteInv /\ RecoverMarker => ExecuteInv'
<1> SUFFICES ASSUME ExecuteInv, RecoverMarker PROVE ExecuteInv'
  OBVIOUS
<1>1. PICK n \in Unsettled : /\ Wal[n].stage = "intended" /\ Saved(n) /\ SetStage(n, "marked")
                             /\ recovered' = recovered \union {<<Current, n>>}
  BY DEF RecoverMarker
<1> DEFINE fill == [Wal[n] EXCEPT !.stage = "marked"]
<1>2. todo # <<>> /\ pc = "recover" /\ pc' = "recover"
      /\ UNCHANGED <<remote, todo, rows, mem, alert, clock, faults>>
  BY DEF RecoverMarker, world
<1>3. fill \in Fill /\ fill.stage = "marked"
      /\ fill.pre = Wal[n].pre /\ fill.post = Wal[n].post
  <2>1. "marked" \in Stage
    BY DEF Stage, Marked
  <2> QED
    BY <1>2, <2>1, UnsettledFill, RestagedFill
<1>4. disk' = [disk EXCEPT !.wal[Current][n] = fill]
  BY <1>1, <1>2, UnsettledFill DEF SetStage, ExecuteInv, TypeOK, Tree, Wal
<1> HIDE DEF fill
<1>5. FillSound(disk.port[Current], fill, n)
  BY <1>1, <1>2, <1>3, UnsettledFill, RecoveryDecides DEF FillSound, Saved, Failed
<1>6. recovered' \subseteq Strategy \X Session
  BY <1>1, <1>2, UnsettledFill DEF ExecuteInv, TypeOK
<1> QED
  BY <1>2, <1>3, <1>4, <1>5, <1>6, RecoverSound

(* The steps of recovery that settle a fill for good.                      *)
LEMMA SettledSound ==
    ASSUME ExecuteInv, pc = "recover", todo # <<>>,
           NEW n \in Unsettled, NEW stage \in {"executed"} \union Failed,
           SetFinal(n, stage),
           stage \in Marked => n \in disk.port[Current].fills,
           stage \in Failed /\ n \in disk.port[Current].fills =>
               \E m \in n..MaxSession : disk.port[Current].splits[m] > 0,
           UNCHANGED <<remote, todo, rows, mem, recovered, alert, clock, faults>>,
           pc' = "recover" \/ (pc' = "commit" /\ stage \in Failed)
    PROVE  ExecuteInv'
<1> DEFINE fill == [Wal[n] EXCEPT !.stage = stage, !.pre = NoHash, !.post = NoHash]
<1>1. stage \in Stage /\ stage \notin {"none", "settling", "intended", "marked"}
  BY DEF Stage, Marked, Failed
<1>2. fill \in Fill /\ fill.stage = stage /\ fill.post = NoHash
  BY <1>1, UnsettledFill, RestagedFill
<1>3. disk' = [disk EXCEPT !.wal[Current][n] = fill]
  BY UnsettledFill DEF SetFinal, ExecuteInv, TypeOK, Tree, Wal
<1> HIDE DEF fill
<1>4. FillSound(disk.port[Current], fill, n)
  BY <1>1, <1>2 DEF FillSound
<1>5. recovered' \subseteq Strategy \X Session
  BY DEF ExecuteInv, TypeOK
<1> QED
  BY <1>2, <1>3, <1>4, <1>5, RecoverSound

LEMMA ExecutedStep == ExecuteInv /\ RecoverExecuted => ExecuteInv'
<1> SUFFICES ASSUME ExecuteInv, RecoverExecuted PROVE ExecuteInv'
  OBVIOUS
<1>1. /\ todo # <<>> /\ pc = "recover" /\ pc' = "recover"
      /\ UNCHANGED <<remote, todo, rows, mem, recovered, alert, clock, faults>>
  BY DEF RecoverExecuted, world
<1>2. PICK n \in Unsettled : Saved(n) /\ SetFinal(n, "executed")
  BY DEF RecoverExecuted
<1>3. n \in disk.port[Current].fills /\ "executed" \notin Failed
  BY <1>1, <1>2, RecoveryDecides DEF Failed
<1> QED
  BY <1>1, <1>2, <1>3, SettledSound

LEMMA RetryStep == ExecuteInv /\ RecoverRetry => ExecuteInv'
<1> SUFFICES ASSUME ExecuteInv, RecoverRetry PROVE ExecuteInv'
  OBVIOUS
<1>1. /\ todo # <<>> /\ pc = "recover" /\ pc' = "recover"
      /\ UNCHANGED <<remote, todo, rows, mem, recovered, alert, clock, faults>>
  BY DEF RecoverRetry, world
<1>2. PICK n \in Unsettled : NotSaved(n) /\ SetStage(n, "none")
  BY DEF RecoverRetry
<1> DEFINE fill == [Wal[n] EXCEPT !.stage = "none"]
<1>3. "none" \in Stage /\ "none" \notin Marked \union Failed
  BY DEF Stage, Marked, Failed
<1>4. /\ fill \in Fill /\ fill.stage = "none"
      /\ fill.pre = Wal[n].pre /\ fill.post = Wal[n].post
  BY <1>1, <1>3, UnsettledFill, RestagedFill
<1>5. disk' = [disk EXCEPT !.wal[Current][n] = fill]
  BY <1>1, <1>2, UnsettledFill DEF SetStage, ExecuteInv, TypeOK, Tree, Wal
<1> HIDE DEF fill
<1>6. FillSound(disk.port[Current], fill, n)
  BY <1>1, <1>2, <1>3, <1>4, UnsettledFill, RecoveryDecides DEF FillSound
<1>7. recovered' \subseteq Strategy \X Session
  BY <1>1 DEF ExecuteInv, TypeOK
<1> QED
  BY <1>1, <1>4, <1>5, <1>6, <1>7, RecoverSound

LEMMA RefuseStep == ExecuteInv /\ RecoverRefuse => ExecuteInv'
<1> SUFFICES ASSUME ExecuteInv, RecoverRefuse PROVE ExecuteInv'
  OBVIOUS
<1>1. /\ todo # <<>> /\ pc = "recover" /\ pc' = "commit"
      /\ UNCHANGED <<remote, todo, rows, mem, recovered, alert, clock, faults>>
  BY DEF RecoverRefuse, world
<1>2. PICK n \in Unsettled :
        /\ ~Saved(n) /\ ~NotSaved(n)
        /\ SetFinal(n, IF Wal[n].stage = "marked" THEN "failedMarked" ELSE "failed")
  BY DEF RecoverRefuse
<1> DEFINE stage == IF Wal[n].stage = "marked" THEN "failedMarked" ELSE "failed"
<1>3. stage \in Failed /\ (stage \in Marked => Wal[n].stage \in Marked)
  BY DEF Failed, Marked
<1>4. stage \in Marked => n \in disk.port[Current].fills
  BY <1>1, <1>3, UnsettledFill DEF FillSound
<1>5. n \in disk.port[Current].fills =>
          \E m \in n..MaxSession : disk.port[Current].splits[m] > 0
  BY <1>1, <1>2, RecoveryDecides
<1>6. SetFinal(n, stage)
  BY <1>2
<1> HIDE DEF stage
<1> QED
  BY <1>1, <1>3, <1>4, <1>5, <1>6, SettledSound

LEMMA RecoveredStep == ExecuteInv /\ Recovered => ExecuteInv'
<1> SUFFICES ASSUME ExecuteInv, Recovered PROVE ExecuteInv'
  OBVIOUS
<1> USE DEF Recovered, files, world
<1>1. Current \in Strategy /\ disk.port[Current] \in Portfolio /\ clock \in Session
  BY CurrentType DEF ExecuteInv, TypeOK, Tree
<1>2. /\ mem' \in Portfolio /\ mem'.fills = disk.port[Current].fills
      /\ mem'.splits = disk.port[Current].splits
  <2> DEFINE port == disk.port[Current]
             created == IF port.created = NoFile THEN clock ELSE port.created
  <2>1. mem' = [port EXCEPT !.created = created]
    BY DEF Loaded
  <2>2. created \in {NoFile} \union 0..MaxSession
    BY <1>1, ExecuteAssumption DEF Portfolio, Session
  <2> HIDE DEF created
  <2> QED
    BY <1>1, <2>1, <2>2 DEF Portfolio
<1>3. TypeOK'
  BY <1>2 DEF ExecuteInv, TypeOK
<1>4. TreesSound' /\ RowsSound'
  BY DEF ExecuteInv, TreesSound, RowsSound, Working, BeingFilled
<1>5. Wal[clock].stage \notin {"settling", "intended", "marked"}
  BY <1>1 DEF Unsettled
<1>6. /\ Current' = Current /\ Unsettled' = {} /\ Wal' = Wal /\ clock' = clock
      /\ disk' = disk /\ todo' = todo /\ pc' = "trade" /\ todo # <<>>
  BY DEF Current, Unsettled, Wal
<1>7. RunSound'
  BY <1>2, <1>5, <1>6 DEF RunSound
<1> QED
  BY <1>3, <1>4, <1>7 DEF ExecuteInv

-----------------------------------------------------------------------------
(* The splits.                                                             *)
LEMMA StartStep == ExecuteInv /\ Start => ExecuteInv'
<1> SUFFICES ASSUME ExecuteInv, Start PROVE ExecuteInv'
  OBVIOUS
<1> USE DEF Start, files, world
<1>1. /\ disk \in Tree /\ rows' = [s \in Strategy |-> Projected(disk.csv[s], disk.wal[s])]
      /\ UNCHANGED <<files, clock, faults>> /\ pc = "idle" /\ pc' = "split"
      /\ todo' = Strategies /\ faults \in Nat
  BY ExecuteAssumption DEF ExecuteInv, TypeOK
<1>2. ASSUME NEW s \in Strategy, NEW n \in Session
      PROVE  /\ rows'[s][n] \in Seq(RowType)
             /\ DaySound(rows'[s][n], n \in disk.port[s].fills)
             /\ SplitCount(rows'[s][n]) = SplitCount(disk.csv[s][n])
  <2>1. /\ disk.csv[s] \in [Session -> Seq(RowType)]
        /\ disk.wal[s] \in [Session -> Fill]
    BY <1>1 DEF Tree, Rows
  <2>2. DaySound(disk.csv[s][n], n \in disk.port[s].fills)
    BY DEF ExecuteInv, TreesSound, CsvSound
  <2>3. disk.wal[s][n].stage \in Marked => n \in disk.port[s].fills
    BY DEF ExecuteInv, TreesSound, FillsSound, FillSound
  <2>4. rows'[s] = Projected(disk.csv[s], disk.wal[s])
    BY <1>1
  <2>5. (n \in disk.port[s].fills) \in BOOLEAN
    OBVIOUS
  <2> QED
    BY <2>1, <2>2, <2>3, <2>4, <2>5, ProjectedDays
<1>3. rows' \in Rows
  <2> SUFFICES ASSUME NEW s \in Strategy PROVE rows'[s] \in [Session -> Seq(RowType)]
    BY <1>1 DEF Rows
  <2>1. rows'[s] = [n \in Session |-> rows'[s][n]]
    BY <1>1 DEF Projected
  <2> QED
    BY <1>2, <2>1
<1>4. TypeOK'
  BY <1>3, ExecuteAssumption DEF ExecuteInv, TypeOK
<1>5. SplitsCounted(disk, rows', faults)
  BY <1>2 DEF ExecuteInv, TreesSound, SplitsCounted, Working
<1>6. TreesSound'
  BY <1>1, <1>5 DEF ExecuteInv, TreesSound, Working
<1>7. RowsSound'
  BY <1>1, <1>2 DEF RowsSound, DaySound
<1>8. RunSound'
  BY <1>1, ExecuteAssumption DEF RunSound
<1> QED
  BY <1>4, <1>6, <1>7, <1>8 DEF ExecuteInv

(* A split of today's session changes no fill.                             *)
LEMMA SplitPortfolio ==
    ASSUME TypeOK, NEW port \in Portfolio
    PROVE  /\ Split(port) \in Portfolio
           /\ Split(port).fills = port.fills
           /\ Split(port).splits[clock] = port.splits[clock] + 1
           /\ \A n \in Session : n # clock => Split(port).splits[n] = port.splits[n]
           /\ port.shares * (Ratio - 1) \in Nat
<1>1. port.shares * Ratio \in Nat /\ port.shares * (Ratio - 1) \in Nat
  BY ExecuteAssumption DEF Portfolio
<1>2. Split(port) = [port EXCEPT !.shares = port.shares * Ratio,
                                 !.splits = [port.splits EXCEPT ![clock] = @ + 1]]
  BY DEF Split, Portfolio
<1>3. [port.splits EXCEPT ![clock] = @ + 1] \in [Session -> Nat]
  BY DEF Portfolio, TypeOK
<1> QED
  BY <1>1, <1>2, <1>3 DEF Portfolio, TypeOK

LEMMA GrowsReflexive == ASSUME NEW tree \in Tree PROVE Grows(tree.port, tree.port)
  BY DEF Grows, Tree, Portfolio

LEMMA GrowsTransitive ==
    ASSUME NEW tree \in Tree, NEW next \in Tree, NEW later \in Tree,
           Grows(tree.port, next.port), Grows(next.port, later.port)
    PROVE  Grows(tree.port, later.port)
<1>1. ASSUME NEW s \in Strategy, NEW n \in Session
      PROVE  tree.port[s].splits[n] <= later.port[s].splits[n]
  <2>1. /\ tree.port[s].splits[n] \in Nat /\ next.port[s].splits[n] \in Nat
        /\ later.port[s].splits[n] \in Nat
    BY DEF Tree, Portfolio
  <2> QED
    BY <2>1 DEF Grows
<1>2. \A s \in Strategy : tree.port[s].fills \subseteq later.port[s].fills
  BY DEF Grows
<1> QED
  BY <1>1, <1>2 DEF Grows

(* A split writes one portfolio, and loses nothing.                        *)
LEMMA SplitWritten ==
    ASSUME ExecuteInv, NEW s \in Strategy,
           disk' = [disk EXCEPT !.port[s] = Split(@)]
    PROVE  /\ disk' \in Tree /\ disk'.wal = disk.wal /\ disk'.csv = disk.csv
           /\ \A t \in Strategy : disk'.port[t].fills = disk.port[t].fills
           /\ disk'.port[s].splits[clock] = disk.port[s].splits[clock] + 1
           /\ \A t \in Strategy, n \in Session :
                 t # s \/ n # clock =>
                    disk'.port[t].splits[n] = disk.port[t].splits[n]
           /\ FillsSound(disk', clock)
           /\ Refused(disk') = Refused(disk)
           /\ Grows(disk.port, disk'.port)
<1>1. TypeOK /\ disk \in Tree /\ disk.port[s] \in Portfolio /\ clock \in Session
  BY DEF ExecuteInv, TypeOK, Tree
<1>2. /\ disk' \in Tree /\ disk'.wal = disk.wal /\ disk'.csv = disk.csv
      /\ disk'.port[s] = Split(disk.port[s])
      /\ \A t \in Strategy : t # s => disk'.port[t] = disk.port[t]
  <2>1. Split(disk.port[s]) \in Portfolio
    BY <1>1, SplitPortfolio
  <2> QED
    BY <1>1, <2>1 DEF Tree
<1>3. /\ \A t \in Strategy : disk'.port[t].fills = disk.port[t].fills
      /\ disk'.port[s].splits[clock] = disk.port[s].splits[clock] + 1
      /\ \A t \in Strategy, n \in Session :
            t # s \/ n # clock => disk'.port[t].splits[n] = disk.port[t].splits[n]
  BY <1>1, <1>2, SplitPortfolio
<1>4. disk.port[s].splits[clock] \in Nat
  BY <1>1 DEF Portfolio
<1>5. FillsSound(disk', clock)
  <2> SUFFICES ASSUME NEW t \in Strategy, NEW n \in Session
               PROVE  /\ FillSound(disk'.port[t], disk'.wal[t][n], n)
                      /\ n > clock => disk'.wal[t][n].stage = "none"
    BY DEF FillsSound
  <2>1. /\ FillSound(disk.port[t], disk.wal[t][n], n)
        /\ n > clock => disk.wal[t][n].stage = "none"
    BY DEF ExecuteInv, TreesSound, FillsSound
  <2>2. CASE t # s
    BY <1>2, <2>1, <2>2
  <2>3. CASE t = s
    <3> DEFINE fill == disk.wal[s][n]
               port == disk.port[s]
               next == disk'.port[s]
    <3>1. FillSound(port, fill, n) /\ next.fills = port.fills
      BY <1>3, <2>1, <2>3
    <3>2. fill.stage # "none" => clock \in n..MaxSession /\ next.splits[clock] > 0
      BY <1>1, <1>3, <1>4, <2>1, <2>3 DEF Session
    <3> HIDE DEF fill, port, next
    <3>3. FillSound(next, fill, n)
      BY <3>1, <3>2 DEF FillSound
    <3> QED
      BY <1>2, <2>1, <2>3, <3>3 DEF fill, next
  <2> QED
    BY <2>2, <2>3
<1>6. Refused(disk') = Refused(disk)
  BY <1>2 DEF Refused
<1>7. Grows(disk.port, disk'.port)
  <2>1. ASSUME NEW t \in Strategy, NEW n \in Session
        PROVE  disk.port[t].splits[n] <= disk'.port[t].splits[n]
    <3>1. disk.port[t].splits[n] \in Nat
      BY <1>1 DEF Tree, Portfolio
    <3> QED
      BY <1>3, <3>1
  <2> QED
    BY <1>3, <2>1 DEF Grows
<1> QED
  BY <1>2, <1>3, <1>5, <1>6, <1>7

(* Its row is the first of today.                                          *)
LEMMA SplitRow ==
    ASSUME ExecuteInv, NEW s \in Strategy, NEW shares \in Nat,
           rows' = [rows EXCEPT ![s][clock] =
                       Append(@, Row("SPLIT", clock, shares, FALSE))]
    PROVE  /\ rows' \in Rows
           /\ \A t \in Strategy, n \in Session : \A filled \in BOOLEAN :
                 DaySound(rows[t][n], filled) => DaySound(rows'[t][n], filled)
           /\ HasSplit(rows'[s][clock])
           /\ \A t \in Strategy, n \in Session :
                 t # s \/ n # clock => rows'[t][n] = rows[t][n]
<1> DEFINE row == Row("SPLIT", clock, shares, FALSE)
           day == rows[s][clock]
<1>1. row \in RowType /\ row.kind = "SPLIT" /\ day \in Seq(RowType)
      /\ clock \in Session /\ rows \in Rows
  BY DEF ExecuteInv, TypeOK, Row, RowType, Rows
<1>2. rows' = [rows EXCEPT ![s] = [rows[s] EXCEPT ![clock] = Append(day, row)]]
  BY <1>1 DEF Rows
<1> HIDE DEF row, day
<1>3. /\ Append(day, row) \in Seq(RowType)
      /\ HasFill(Append(day, row)) <=> HasFill(day)
      /\ HasSplit(Append(day, row))
      /\ OneFill(day) => OneFill(Append(day, row))
  BY <1>1, AppendDay
<1>4. /\ rows' \in Rows /\ rows'[s][clock] = Append(day, row)
      /\ \A t \in Strategy, n \in Session :
            t # s \/ n # clock => rows'[t][n] = rows[t][n]
  <2>1. rows[s] \in [Session -> Seq(RowType)]
    BY <1>1 DEF Rows
  <2>2. [rows[s] EXCEPT ![clock] = Append(day, row)] \in [Session -> Seq(RowType)]
    BY <1>1, <1>3, <2>1
  <2>3. rows' \in Rows
    BY <1>1, <1>2, <2>2 DEF Rows
  <2>4. rows'[s] = [rows[s] EXCEPT ![clock] = Append(day, row)]
        /\ \A t \in Strategy : t # s => rows'[t] = rows[t]
    BY <1>1, <1>2 DEF Rows
  <2> QED
    BY <1>1, <2>1, <2>3, <2>4
<1> QED
  BY <1>3, <1>4 DEF DaySound, day

LEMMA SplitStep == ExecuteInv /\ ApplySplit => ExecuteInv'
<1> SUFFICES ASSUME ExecuteInv, ApplySplit PROVE ExecuteInv'
  OBVIOUS
<1> DEFINE s == Head(todo)
<1>1. /\ s \in Strategy /\ Tail(todo) \in Seq(Strategy)
      /\ Len(todo) > 1 => Tail(todo) # <<>>
      /\ Strategies \in Seq(Strategy) /\ pc = "split"
  <2>1. todo \in Seq(Strategy) /\ todo # <<>> /\ pc = "split"
    BY DEF ApplySplit, ExecuteInv, TypeOK, RunSound
  <2>2. /\ s \in Strategy /\ Tail(todo) \in Seq(Strategy)
        /\ Len(Tail(todo)) = Len(todo) - 1 /\ Len(todo) \in Nat
    BY <2>1, HeadTailProperties, LenProperties
  <2>3. Len(todo) > 1 => Tail(todo) # <<>>
    <3>1. Len(<<>>) = 0
      BY EmptySeq
    <3>2. Len(todo) > 1 => Len(Tail(todo)) # 0
      BY <2>2
    <3> QED
      BY <3>1, <3>2, Zenon
  <2> QED
    BY <2>1, <2>2, <2>3, ExecuteAssumption
<1>2. /\ UNCHANGED <<remote, mem, recovered, alert, clock, faults>>
      /\ \/ Len(todo) > 1 /\ pc' = "split" /\ todo' = Tail(todo)
         \/ pc' = "recover" /\ todo' = Strategies
  BY DEF ApplySplit, world
<1>3. \/ /\ SplitDue(s)
         /\ disk' = [disk EXCEPT !.port[s] = Split(@)]
         /\ rows' = [rows EXCEPT ![s][clock] = Append(@, Row("SPLIT", clock,
                       disk.port[s].shares * (Ratio - 1), FALSE))]
      \/ UNCHANGED <<disk, rows>>
  BY DEF ApplySplit
<1>4. /\ disk \in Tree /\ disk.port[s] \in Portfolio /\ clock \in Session
      /\ remote \in Tree /\ faults \in Nat
  BY <1>1, ExecuteAssumption DEF ExecuteInv, TypeOK, Tree
<1> HIDE DEF s
<1>5. /\ disk' \in Tree /\ rows' \in Rows /\ FillsSound(disk', clock) /\ CsvSound(disk')
      /\ SplitsCounted(disk', rows', faults) /\ Grows(remote.port, disk'.port)
      /\ \A t \in Strategy, n \in Session :
            DaySound(rows'[t][n], n \in disk'.port[t].fills)
  <2>1. /\ SplitsCounted(disk, rows, faults)
        /\ \A t \in Strategy, n \in Session :
              DaySound(rows[t][n], n \in disk.port[t].fills)
        /\ CsvSound(disk) /\ FillsSound(disk, clock) /\ Grows(remote.port, disk.port)
    BY <1>1 DEF ExecuteInv, TreesSound, RowsSound, BeingFilled, Working
  <2>2. CASE UNCHANGED <<disk, rows>>
    BY <1>4, <2>1, <2>2 DEF ExecuteInv, TypeOK
  <2>3. CASE /\ SplitDue(s)
             /\ disk' = [disk EXCEPT !.port[s] = Split(@)]
             /\ rows' = [rows EXCEPT ![s][clock] = Append(@, Row("SPLIT", clock,
                           disk.port[s].shares * (Ratio - 1), FALSE))]
    <3>1. disk.port[s].shares * (Ratio - 1) \in Nat
      BY <1>4, SplitPortfolio DEF ExecuteInv
    <3>2. /\ disk' \in Tree /\ disk'.csv = disk.csv
          /\ \A t \in Strategy : disk'.port[t].fills = disk.port[t].fills
          /\ disk'.port[s].splits[clock] = disk.port[s].splits[clock] + 1
          /\ \A t \in Strategy, n \in Session : t # s \/ n # clock =>
                disk'.port[t].splits[n] = disk.port[t].splits[n]
          /\ FillsSound(disk', clock)
          /\ Refused(disk') = Refused(disk)
          /\ Grows(disk.port, disk'.port)
      BY <1>1, <2>3, SplitWritten
    <3>3. /\ rows' \in Rows
          /\ \A t \in Strategy, n \in Session : \A filled \in BOOLEAN :
                DaySound(rows[t][n], filled) => DaySound(rows'[t][n], filled)
          /\ HasSplit(rows'[s][clock])
          /\ \A t \in Strategy, n \in Session :
                t # s \/ n # clock => rows'[t][n] = rows[t][n]
      BY <1>1, <2>3, <3>1, SplitRow
    <3>4. ~HasSplit(rows[s][clock])
      BY <2>3 DEF SplitDue
    <3>5. SplitsCounted(disk', rows', faults)
      <4> SUFFICES ASSUME NEW t \in Strategy, NEW n \in Session
                   PROVE  disk'.port[t].splits[n] <= faults
                            + Cardinality(Refused(disk')) + SplitCount(rows'[t][n])
        BY DEF SplitsCounted
      <4>1. disk.port[t].splits[n] <=
              faults + Cardinality(Refused(disk)) + SplitCount(rows[t][n])
        BY <2>1 DEF SplitsCounted
      <4>2. disk.port[t].splits[n] \in Nat /\ Cardinality(Refused(disk)) \in Nat
        BY <1>4, RefusedCount DEF Tree, Portfolio
      <4>3. CASE t = s /\ n = clock
        BY <1>4, <3>2, <3>3, <3>4, <4>1, <4>2, <4>3 DEF SplitCount
      <4>4. CASE t # s \/ n # clock
        BY <3>2, <3>3, <4>1, <4>4
      <4> QED
        BY <4>3, <4>4
    <3>6. CsvSound(disk')
      BY <2>1, <3>2 DEF CsvSound
    <3>7. Grows(remote.port, disk'.port)
      BY <1>4, <2>1, <3>2, GrowsTransitive
    <3>8. ASSUME NEW t \in Strategy, NEW n \in Session
          PROVE  DaySound(rows'[t][n], n \in disk'.port[t].fills)
      <4>1. (n \in disk.port[t].fills) \in BOOLEAN
        OBVIOUS
      <4>2. DaySound(rows'[t][n], n \in disk.port[t].fills)
        BY <2>1, <3>3, <4>1
      <4> QED
        BY <3>2, <4>2
    <3> QED
      BY <3>2, <3>3, <3>5, <3>6, <3>7, <3>8
  <2> QED
    BY <1>3, <2>2, <2>3
<1>6. TypeOK'
  BY <1>1, <1>2, <1>5 DEF ExecuteInv, TypeOK
<1>7. TreesSound'
  BY <1>2, <1>5 DEF ExecuteInv, TreesSound, Working
<1>8. RowsSound'
  BY <1>5 DEF RowsSound, DaySound
<1>9. RunSound'
  BY <1>1, <1>2 DEF RunSound
<1> QED
  BY <1>6, <1>7, <1>8, <1>9 DEF ExecuteInv

-----------------------------------------------------------------------------
(* A trade.                                                                *)
LEMMA TradeStep == ExecuteInv /\ Trade => ExecuteInv'
<1> SUFFICES ASSUME ExecuteInv, Trade PROVE ExecuteInv'
  OBVIOUS
<1> DEFINE s == Current
           buy == (mem.shares = 0)
           stage == IF Wal[clock].post = NoHash THEN "settling" ELSE "intended"
           fill == [Wal[clock] EXCEPT !.stage = stage, !.buy = buy]
           row == FillRow(buy, clock, FALSE)
<1>1. /\ pc = "trade" /\ pc' = "intent" /\ todo # <<>> /\ disk.wal[s][clock].stage = "none"
      /\ mem' = Traded(mem)
      /\ disk' = [disk EXCEPT !.wal[s][clock] = fill]
      /\ rows' = [rows EXCEPT ![s][clock] = Append(@, row)]
      /\ UNCHANGED <<remote, todo, recovered, alert, clock, faults>>
  BY CurrentType DEF Trade, ExecuteInv, RunSound, TypeOK, Tree, world, Wal
<1>2. /\ s \in Strategy /\ clock \in Session /\ disk \in Tree /\ mem \in Portfolio
      /\ rows \in Rows /\ clock \in Int /\ faults \in Nat
  BY <1>1, CurrentType, ExecuteAssumption DEF ExecuteInv, TypeOK, Session
<1>3. /\ fill \in Fill /\ fill.stage \in {"settling", "intended"}
      /\ fill.pre = Wal[clock].pre /\ fill.post = Wal[clock].post
      /\ fill.stage = "intended" => fill.post # NoHash
  <2>1. buy \in BOOLEAN /\ stage \in {"settling", "intended"} /\ stage \in Stage
    BY DEF Stage
  <2>2. Wal[clock] \in Fill
    BY <1>2 DEF Tree, Wal
  <2> QED
    BY <2>1, <2>2 DEF Fill
<1>4. clock \notin disk.port[s].fills /\ FillSound(disk.port[s], Wal[clock], clock)
  BY <1>1, <1>2 DEF ExecuteInv, TreesSound, FillsSound, FillSound, Wal
<1>5. FillSound(disk.port[s], fill, clock)
  <2>1. fill.stage \notin Marked
    BY <1>3 DEF Marked
  <2> QED
    BY <1>3, <1>4, <2>1 DEF FillSound
<1>6. mem.splits = disk.port[s].splits /\ mem.fills = disk.port[s].fills
      /\ Unsettled = {}
  BY <1>1 DEF ExecuteInv, RunSound, Wal
<1>7. /\ mem' \in Portfolio /\ mem'.splits = mem.splits
      /\ mem'.fills = mem.fills \union {clock}
  BY <1>1, <1>2 DEF Traded, Portfolio
<1>8. row \in RowType /\ row.kind # "SPLIT"
  <2>1. buy \in BOOLEAN /\ FALSE \in BOOLEAN
    OBVIOUS
  <2> QED
    BY <1>2, <2>1, FillRowType
<1> HIDE DEF fill, stage, row, buy
<1>9. /\ disk' \in Tree /\ disk'.port = disk.port /\ disk'.csv = disk.csv
      /\ disk'.wal[s][clock] = fill
      /\ \A t \in Strategy, m \in Session :
            t # s \/ m # clock => disk'.wal[t][m] = disk.wal[t][m]
      /\ FillsSound(disk', clock)
      /\ Refused(disk) \subseteq Refused(disk')
  <2>1. clock <= clock /\ disk.wal[s][clock].stage \notin Failed
    BY <1>1, <1>2 DEF Failed
  <2> QED
    BY <1>1, <1>2, <1>3, <1>5, <2>1, FillWritten DEF ExecuteInv, TreesSound
<1>10. /\ rows' \in Rows
       /\ \A t \in Strategy, n \in Session :
             t # s \/ n # clock => rows'[t][n] = rows[t][n]
       /\ rows'[s][clock] = Append(rows[s][clock], row)
       /\ rows[s][clock] \in Seq(RowType)
  <2>1. rows[s] \in [Session -> Seq(RowType)] /\ rows[s][clock] \in Seq(RowType)
    BY <1>2 DEF Rows
  <2>2. Append(rows[s][clock], row) \in Seq(RowType)
    BY <1>8, <2>1, AppendDay
  <2>3. rows' = [rows EXCEPT ![s] =
                   [rows[s] EXCEPT ![clock] = Append(rows[s][clock], row)]]
    BY <1>1, <1>2 DEF Rows
  <2>4. [rows[s] EXCEPT ![clock] = Append(rows[s][clock], row)]
            \in [Session -> Seq(RowType)]
    BY <1>2, <2>1, <2>2
  <2>5. rows' \in Rows
    BY <1>2, <2>3, <2>4 DEF Rows
  <2>6. /\ rows'[s] = [rows[s] EXCEPT ![clock] = Append(rows[s][clock], row)]
        /\ \A t \in Strategy : t # s => rows'[t] = rows[t]
    BY <1>2, <2>3 DEF Rows
  <2> QED
    BY <1>2, <2>1, <2>5, <2>6
<1>11. /\ ~HasFill(rows[s][clock]) /\ OneFill(rows[s][clock])
       /\ \A t \in Strategy, n \in Session :
             DaySound(rows[t][n], n \in disk.port[t].fills)
  <2>1. \A t \in Strategy, n \in Session :
            DaySound(rows[t][n], n \in disk.port[t].fills)
    BY <1>1 DEF ExecuteInv, RowsSound, BeingFilled, Working
  <2> QED
    BY <1>2, <1>4, <2>1 DEF DaySound
<1>12. /\ OneFill(rows'[s][clock])
       /\ SplitCount(rows'[s][clock]) = SplitCount(rows[s][clock])
  BY <1>8, <1>10, <1>11, AppendDay DEF SplitCount
<1>13. TypeOK'
  BY <1>1, <1>2, <1>7, <1>9, <1>10 DEF ExecuteInv, TypeOK
<1>14. TreesSound'
  <2>1. SplitsCounted(disk, rows, faults) /\ CsvSound(disk)
    BY <1>1 DEF ExecuteInv, TreesSound, Working
  <2>2. /\ \A t \in Strategy : disk'.port[t].splits = disk.port[t].splits
        /\ faults <= faults
        /\ \A t \in Strategy, n \in Session :
              SplitCount(rows'[t][n]) = SplitCount(rows[t][n])
    <3>1. \A t \in Strategy : disk'.port[t].splits = disk.port[t].splits
      BY <1>9
    <3>2. \A t \in Strategy, n \in Session :
              SplitCount(rows'[t][n]) = SplitCount(rows[t][n])
      BY <1>10, <1>12
    <3> QED
      BY <1>2, <3>1, <3>2
  <2>3. SplitsCounted(disk', rows', faults)
    BY <1>2, <1>9, <2>1, <2>2, CountKept
  <2>4. CsvSound(disk')
    BY <1>9, <2>1 DEF CsvSound
  <2> QED
    BY <1>1, <1>9, <2>3, <2>4 DEF ExecuteInv, TreesSound, Working
<1>15. Current' = Current /\ Wal'[clock] = fill /\ Unsettled' \subseteq {clock}
  BY <1>1, <1>2, <1>6, <1>9 DEF Current, Wal, Unsettled
<1>16. RowsSound'
  <2> SUFFICES ASSUME NEW t \in Strategy, NEW n \in Session
               PROVE  DaySound(rows'[t][n],
                               n \in disk'.port[t].fills \/ BeingFilled(t, n)')
    BY DEF RowsSound
  <2>1. CASE t = s /\ n = clock
    <3>1. BeingFilled(t, n)'
      BY <1>1, <1>3, <1>9, <1>15, <2>1 DEF BeingFilled
    <3> QED
      BY <1>12, <2>1, <3>1 DEF DaySound
  <2>2. CASE t # s \/ n # clock
    BY <1>9, <1>10, <1>11, <2>2 DEF DaySound
  <2> QED
    BY <2>1, <2>2
<1>17. RunSound'
  BY <1>1, <1>3, <1>4, <1>6, <1>7, <1>9, <1>15 DEF RunSound
<1> QED
  BY <1>13, <1>14, <1>16, <1>17 DEF ExecuteInv

LEMMA NoTradeStep == ExecuteInv /\ NoTrade => ExecuteInv'
<1> SUFFICES ASSUME ExecuteInv, NoTrade PROVE ExecuteInv'
  OBVIOUS
<1>1. /\ pc = "trade" /\ pc' = "save" /\ clock \in Session
      /\ UNCHANGED <<remote, disk, todo, rows, mem, recovered, alert, clock, faults>>
  BY DEF NoTrade, files, world, ExecuteInv, TypeOK
<1>2. TypeOK' /\ TreesSound'
  BY <1>1 DEF ExecuteInv, TypeOK, TreesSound, Working
<1>3. /\ Unsettled = {} /\ todo # <<>>
      /\ Wal[clock].stage \notin {"settling", "intended", "marked"}
  BY <1>1 DEF ExecuteInv, RunSound, Unsettled
<1>4. Current' = Current /\ Wal' = Wal /\ Unsettled' = Unsettled
  BY <1>1 DEF Current, Wal, Unsettled
<1>5. RowsSound'
  BY <1>1 DEF ExecuteInv, RowsSound, BeingFilled, DaySound, Working
<1>6. RunSound'
  BY <1>1, <1>3, <1>4 DEF ExecuteInv, RunSound
<1> QED
  BY <1>2, <1>5, <1>6 DEF ExecuteInv

(* What a write to the log of today's fill leaves of the trees.            *)
LEMMA TodayWritten ==
    ASSUME ExecuteInv, pc \in {"intent", "settle"}, pc' \in Working,
           NEW fill \in Fill,
           disk' = [disk EXCEPT !.wal[Current][clock] = fill],
           FillSound(disk.port[Current], fill, clock),
           UNCHANGED <<remote, rows, mem, recovered, alert, clock, faults>>,
           todo' \in Seq(Strategy)
    PROVE  /\ TypeOK' /\ TreesSound' /\ disk'.port = disk.port
           /\ disk'.wal[Current][clock] = fill
           /\ \A t \in Strategy, m \in Session :
                 t # Current \/ m # clock => disk'.wal[t][m] = disk.wal[t][m]
<1>1. /\ Current \in Strategy /\ clock \in Session /\ disk \in Tree
      /\ disk.wal[Current][clock].stage \notin Failed /\ faults \in Nat /\ clock <= clock
  BY CurrentType, ExecuteAssumption DEF ExecuteInv, TypeOK, RunSound, Wal, Session, Failed
<1>2. /\ disk' \in Tree /\ disk'.port = disk.port /\ disk'.csv = disk.csv
      /\ disk'.wal[Current][clock] = fill
      /\ \A t \in Strategy, m \in Session :
            t # Current \/ m # clock => disk'.wal[t][m] = disk.wal[t][m]
      /\ FillsSound(disk', clock)
      /\ Refused(disk) \subseteq Refused(disk')
  BY <1>1, FillWritten DEF ExecuteInv, TreesSound
<1>3. TypeOK'
  BY <1>2 DEF ExecuteInv, TypeOK, Working
<1>4. SplitsCounted(disk', rows, faults)
  <2>1. SplitsCounted(disk, rows, faults)
    BY DEF ExecuteInv, TreesSound, Working
  <2>2. /\ \A s \in Strategy : disk'.port[s].splits = disk.port[s].splits
        /\ faults <= faults
        /\ \A s \in Strategy, m \in Session :
              SplitCount(rows[s][m]) = SplitCount(rows[s][m])
    BY <1>1, <1>2
  <2> QED
    BY <1>1, <1>2, <2>1, <2>2, CountKept
<1>5. TreesSound'
  BY <1>2, <1>4 DEF ExecuteInv, TreesSound, CsvSound
<1> QED
  BY <1>2, <1>3, <1>5

LEMMA IntentStep == ExecuteInv /\ WriteIntent => ExecuteInv'
<1> SUFFICES ASSUME ExecuteInv, WriteIntent PROVE ExecuteInv'
  OBVIOUS
<1> DEFINE s == Current
<1>1. /\ pc = "intent" /\ pc' = "save" /\ todo # <<>> /\ todo \in Seq(Strategy)
      /\ UNCHANGED <<remote, todo, rows, mem, recovered, alert, clock, faults>>
      /\ Wal[clock].stage \in {"settling", "intended"} /\ Unsettled \subseteq {clock}
      /\ clock \notin disk.port[s].fills
  BY DEF WriteIntent, world, ExecuteInv, RunSound, TypeOK
<1>2. PICK marked \in BOOLEAN :
        disk' = [disk EXCEPT !.wal[s][clock] =
                    [@ EXCEPT !.stage = "intended",
                              !.pre = Hash(disk.port[s], marked),
                              !.post = Hash(mem, FALSE)]]
  BY DEF WriteIntent
<1> DEFINE fill == [disk.wal[s][clock] EXCEPT !.stage = "intended",
                              !.pre = Hash(disk.port[s], marked),
                              !.post = Hash(mem, FALSE)]
<1>3. /\ s \in Strategy /\ clock \in Session /\ disk \in Tree /\ mem \in Portfolio
      /\ disk.wal[s][clock] \in Fill /\ disk.port[s] \in Portfolio
      /\ disk.wal[s] \in [Session -> Fill]
  BY <1>1, CurrentType DEF ExecuteInv, TypeOK, Tree
<1>4. /\ fill \in Fill /\ fill.stage = "intended"
      /\ fill.pre = Hash(disk.port[s], marked) /\ fill.post = Hash(mem, FALSE)
  <2>1. Hash(disk.port[s], marked) \in Hashes /\ Hash(mem, FALSE) \in Hashes
    BY <1>3 DEF Hash, Hashes, Portfolio
  <2> QED
    BY <1>3, <2>1 DEF Fill, Stage
<1>5. disk' = [disk EXCEPT !.wal[s][clock] = fill]
  BY <1>2, <1>3 DEF Tree
<1>6. /\ mem.splits = disk.port[s].splits
      /\ mem.fills = disk.port[s].fills \union {clock}
      /\ clock \notin disk.port[s].fills
  BY <1>1, <1>3 DEF ExecuteInv, RunSound, Wal, TreesSound, FillsSound, FillSound
<1> HIDE DEF fill
<1>7. FillSound(disk.port[s], fill, clock)
  <2>1. /\ clock \in fill.post.fills /\ clock \notin fill.pre.fills
        /\ fill.post # NoHash
    BY <1>4, <1>6 DEF Hash, NoHash
  <2>2. fill.stage \notin Marked
    BY <1>4 DEF Marked
  <2> QED
    BY <1>4, <1>6, <2>1, <2>2 DEF FillSound
<1>8. /\ TypeOK' /\ TreesSound' /\ disk'.port = disk.port
      /\ disk'.wal[s][clock] = fill
      /\ \A t \in Strategy, m \in Session :
            t # s \/ m # clock => disk'.wal[t][m] = disk.wal[t][m]
  BY <1>1, <1>4, <1>5, <1>7, TodayWritten DEF Working
<1>9. /\ Current' = s /\ Wal'[clock] = fill /\ Unsettled' \subseteq {clock}
  BY <1>1, <1>3, <1>8 DEF Current, Wal, Unsettled
<1>10. RowsSound'
  <2> SUFFICES ASSUME NEW t \in Strategy, NEW n \in Session
               PROVE  DaySound(rows'[t][n],
                               n \in disk'.port[t].fills \/ BeingFilled(t, n)')
    BY DEF RowsSound
  <2>1. DaySound(rows[t][n], n \in disk.port[t].fills \/ BeingFilled(t, n))
    BY <1>1 DEF ExecuteInv, RowsSound, Working
  <2>2. BeingFilled(t, n) => BeingFilled(t, n)'
    BY <1>1, <1>4, <1>8, <1>9 DEF BeingFilled
  <2> QED
    BY <1>1, <1>8, <2>1, <2>2 DEF DaySound
<1>11. RunSound'
  BY <1>1, <1>4, <1>6, <1>8, <1>9 DEF RunSound, Matches
<1> QED
  BY <1>8, <1>10, <1>11 DEF ExecuteInv

LEMMA SettleStep == ExecuteInv /\ Settle => ExecuteInv'
<1> SUFFICES ASSUME ExecuteInv, Settle PROVE ExecuteInv'
  OBVIOUS
<1> DEFINE s == Current
<1>1. /\ pc = "settle" /\ todo # <<>> /\ todo \in Seq(Strategy)
      /\ Tail(todo) \in Seq(Strategy)
      /\ UNCHANGED <<remote, rows, mem, recovered, alert, clock, faults>>
      /\ Unsettled \subseteq {clock} /\ clock \in disk.port[s].fills
  BY CurrentType DEF Settle, world, ExecuteInv, RunSound, TypeOK
<1>2. /\ s \in Strategy /\ clock \in Session /\ disk \in Tree
      /\ Wal[clock] = disk.wal[s][clock] /\ Wal[clock] \in Fill
      /\ disk.wal[s] \in [Session -> Fill]
      /\ FillSound(disk.port[s], Wal[clock], clock)
  BY <1>1, CurrentType DEF ExecuteInv, TypeOK, Tree, Wal, TreesSound, FillsSound
<1>3. ASSUME pc' \in Working, TypeOK', TreesSound', disk'.port = disk.port
      PROVE  RowsSound'
  <2>1. pc' \in {"settle", "recover"}
    BY <1>1 DEF Settle
  <2> QED
    BY <1>1, <1>3, <2>1 DEF ExecuteInv, RowsSound, BeingFilled, Working
<1>4. CASE /\ Wal[clock].stage = "intended" /\ SetStage(clock, "marked")
           /\ UNCHANGED <<pc, todo>>
  <2> DEFINE fill == [Wal[clock] EXCEPT !.stage = "marked"]
  <2>1. fill \in Fill /\ fill.stage = "marked"
        /\ fill.pre = Wal[clock].pre /\ fill.post = Wal[clock].post
    <3>1. "marked" \in Stage
      BY DEF Stage, Marked
    <3> QED
      BY <1>2, <3>1, RestagedFill
  <2>2. disk' = [disk EXCEPT !.wal[s][clock] = fill]
    BY <1>2, <1>4 DEF SetStage, Tree
  <2> HIDE DEF fill
  <2>3. FillSound(disk.port[s], fill, clock)
    BY <1>1, <1>2, <1>4, <2>1 DEF FillSound, Failed
  <2>4. /\ TypeOK' /\ TreesSound' /\ disk'.port = disk.port
        /\ disk'.wal[s][clock] = fill
        /\ \A t \in Strategy, m \in Session :
              t # s \/ m # clock => disk'.wal[t][m] = disk.wal[t][m]
    BY <1>1, <1>4, <2>1, <2>2, <2>3, TodayWritten DEF Working
  <2>5. /\ Current' = s /\ Wal'[clock] = fill /\ Unsettled' \subseteq {clock}
    BY <1>1, <1>2, <1>4, <2>4 DEF Current, Wal, Unsettled
  <2>6. RunSound'
    BY <1>1, <1>4, <2>1, <2>4, <2>5 DEF RunSound
  <2> QED
    BY <1>1, <1>3, <1>4, <2>4, <2>6 DEF ExecuteInv, Working
<1>5. CASE /\ Wal[clock].stage = "marked" /\ SetFinal(clock, "executed")
           /\ pc' = "recover" /\ todo' = Tail(todo)
  <2> DEFINE fill == [Wal[clock] EXCEPT !.stage = "executed", !.pre = NoHash,
                                        !.post = NoHash]
  <2>1. fill \in Fill /\ fill.stage = "executed" /\ fill.post = NoHash
    <3>1. "executed" \in Stage
      BY DEF Stage, Marked
    <3> QED
      BY <1>2, <3>1, RestagedFill
  <2>2. disk' = [disk EXCEPT !.wal[s][clock] = fill]
    BY <1>2, <1>5 DEF SetFinal, Tree
  <2> HIDE DEF fill
  <2>3. FillSound(disk.port[s], fill, clock)
    BY <1>1, <2>1 DEF FillSound, Failed
  <2>4. TypeOK' /\ TreesSound' /\ disk'.port = disk.port
    BY <1>1, <1>5, <2>1, <2>2, <2>3, TodayWritten DEF Working
  <2>5. RunSound'
    BY <1>5 DEF RunSound
  <2> QED
    BY <1>3, <1>5, <2>4, <2>5 DEF ExecuteInv, Working
<1> QED
  BY <1>4, <1>5 DEF Settle

(* The save of a portfolio adds the fill of today, if it has its intent.   *)
LEMMA PortfolioWritten ==
    ASSUME ExecuteInv, SavePortfolio
    PROVE  /\ disk' \in Tree /\ disk'.wal = disk.wal /\ disk'.csv = disk.csv
           /\ disk'.port[Current] = mem
           /\ \A t \in Strategy : disk'.port[t].splits = disk.port[t].splits
           /\ \A t \in Strategy, n \in Session :
                 \/ n \in disk'.port[t].fills <=> n \in disk.port[t].fills
                 \/ /\ t = Current /\ n = clock /\ n \in disk'.port[t].fills
                    /\ Wal[clock].stage = "intended"
           /\ FillsSound(disk', clock)
           /\ Grows(disk.port, disk'.port)
<1> DEFINE s == Current
           today == Wal[clock]
<1>1. /\ pc = "save" /\ todo # <<>> /\ disk' = [disk EXCEPT !.port[s] = mem]
      /\ today.stage \notin {"settling", "marked"} /\ Unsettled \subseteq {clock}
      /\ today.stage = "intended" => Matches(mem, today.post)
      /\ mem.splits = disk.port[s].splits
      /\ mem.fills = disk.port[s].fills \union
            (IF today.stage = "intended" THEN {clock} ELSE {})
  BY DEF SavePortfolio, ExecuteInv, RunSound
<1>2. /\ s \in Strategy /\ clock \in Session /\ disk \in Tree /\ mem \in Portfolio
      /\ today = disk.wal[s][clock]
  BY <1>1, CurrentType DEF ExecuteInv, TypeOK, Wal
<1> HIDE DEF today
<1>3. /\ disk' \in Tree /\ disk'.wal = disk.wal /\ disk'.csv = disk.csv
      /\ disk'.port[s] = mem
      /\ \A t \in Strategy : t # s => disk'.port[t] = disk.port[t]
  BY <1>1, <1>2 DEF Tree
<1>4. \A t \in Strategy : disk'.port[t].splits = disk.port[t].splits
  BY <1>1, <1>3
<1>5. \A t \in Strategy, n \in Session :
         \/ n \in disk'.port[t].fills <=> n \in disk.port[t].fills
         \/ t = s /\ n = clock /\ n \in disk'.port[t].fills /\ today.stage = "intended"
  BY <1>1, <1>3
<1>6. \A n \in Session \ {clock} :
         disk.wal[s][n].stage \notin {"settling", "intended", "marked"}
  BY <1>1, <1>2 DEF Unsettled, Wal
<1>7. FillsSound(disk', clock)
  <2> SUFFICES ASSUME NEW t \in Strategy, NEW n \in Session
               PROVE  /\ FillSound(disk'.port[t], disk'.wal[t][n], n)
                      /\ n > clock => disk'.wal[t][n].stage = "none"
    BY DEF FillsSound
  <2>1. /\ FillSound(disk.port[t], disk.wal[t][n], n)
        /\ n > clock => disk.wal[t][n].stage = "none"
    BY DEF ExecuteInv, TreesSound, FillsSound
  <2>2. CASE t # s
    BY <1>3, <2>1, <2>2
  <2>3. CASE t = s /\ n = clock
    <3>1. CASE today.stage = "intended"
      <4>1. /\ clock \in mem.fills /\ today.post # NoHash
            /\ clock \in today.post.fills /\ clock \notin today.pre.fills
        BY <1>1, <1>2, <2>1, <2>3, <3>1 DEF FillSound
      <4>2. FillSound(mem, today, clock)
        BY <1>1, <3>1, <4>1 DEF FillSound, Failed
      <4> QED
        BY <1>2, <1>3, <2>1, <2>3, <4>2
    <3>2. CASE today.stage # "intended"
      <4>1. mem.fills = disk.port[s].fills /\ today.stage \notin {"intended", "marked"}
        BY <1>1, <3>2
      <4>2. FillSound(mem, today, clock)
        BY <1>1, <1>2, <2>1, <2>3, <4>1 DEF FillSound
      <4> QED
        BY <1>2, <1>3, <2>1, <2>3, <4>2
    <3> QED
      BY <3>1, <3>2
  <2>4. CASE t = s /\ n # clock
    <3>1. n \in mem.fills <=> n \in disk.port[s].fills
      BY <1>1, <2>4
    <3>2. FillSound(mem, disk.wal[s][n], n)
      BY <1>1, <1>6, <2>1, <2>4, <3>1 DEF FillSound
    <3> QED
      BY <1>3, <2>1, <2>4, <3>2
  <2> QED
    BY <2>2, <2>3, <2>4
<1>8. Grows(disk.port, disk'.port)
  <2>1. \A t \in Strategy, n \in Session : disk.port[t].splits[n] \in Nat
    BY <1>2 DEF Tree, Portfolio
  <2>2. \A t \in Strategy : disk.port[t].fills \subseteq disk'.port[t].fills
    BY <1>1, <1>3
  <2> QED
    BY <1>4, <2>1, <2>2 DEF Grows
<1> QED
  BY <1>3, <1>4, <1>5, <1>7, <1>8 DEF today

LEMMA SaveStep == ExecuteInv /\ SavePortfolio => ExecuteInv'
<1> SUFFICES ASSUME ExecuteInv, SavePortfolio PROVE ExecuteInv'
  OBVIOUS
<1> DEFINE s == Current
<1>1. /\ pc = "save" /\ todo # <<>> /\ todo \in Seq(Strategy)
      /\ Tail(todo) \in Seq(Strategy) /\ clock \in Session
      /\ UNCHANGED <<remote, rows, mem, recovered, alert, clock, faults>>
      /\ Wal[clock].stage \notin {"settling", "marked"} /\ Unsettled \subseteq {clock}
      /\ \/ Wal[clock].stage = "intended" /\ pc' = "settle" /\ UNCHANGED todo
         \/ pc' = "recover" /\ todo' = Tail(todo)
  BY CurrentType DEF SavePortfolio, world, ExecuteInv, RunSound, TypeOK
<1>2. /\ s \in Strategy /\ disk \in Tree /\ remote \in Tree /\ faults \in Nat
      /\ clock \in mem.fills \/ Wal[clock].stage # "intended"
  BY <1>1, CurrentType, ExecuteAssumption DEF ExecuteInv, TypeOK, RunSound
<1>3. /\ disk' \in Tree /\ disk'.wal = disk.wal /\ disk'.csv = disk.csv
      /\ disk'.port[s] = mem
      /\ \A t \in Strategy : disk'.port[t].splits = disk.port[t].splits
      /\ \A t \in Strategy, n \in Session :
            \/ n \in disk'.port[t].fills <=> n \in disk.port[t].fills
            \/ /\ t = s /\ n = clock /\ n \in disk'.port[t].fills
               /\ Wal[clock].stage = "intended"
      /\ FillsSound(disk', clock)
      /\ Grows(disk.port, disk'.port)
  BY PortfolioWritten
<1>4. TypeOK'
  BY <1>1, <1>3 DEF ExecuteInv, TypeOK
<1>5. TreesSound'
  <2>1. SplitsCounted(disk', rows, faults)
    <3>1. SplitsCounted(disk, rows, faults)
      BY <1>1 DEF ExecuteInv, TreesSound, Working
    <3>2. /\ Refused(disk) \subseteq Refused(disk') /\ faults <= faults
          /\ \A t \in Strategy, m \in Session :
                SplitCount(rows[t][m]) = SplitCount(rows[t][m])
      BY <1>2, <1>3 DEF Refused
    <3> QED
      BY <1>2, <1>3, <3>1, <3>2, CountKept
  <2>2. CsvSound(disk')
    BY <1>3 DEF ExecuteInv, TreesSound, CsvSound, DaySound
  <2>3. Grows(remote.port, disk'.port)
    BY <1>2, <1>3, GrowsTransitive DEF ExecuteInv, TreesSound
  <2> QED
    BY <1>1, <1>3, <2>1, <2>2, <2>3 DEF ExecuteInv, TreesSound, Working
<1>6. RowsSound'
  <2> SUFFICES ASSUME NEW t \in Strategy, NEW n \in Session
               PROVE  DaySound(rows'[t][n],
                               n \in disk'.port[t].fills \/ BeingFilled(t, n)')
    BY DEF RowsSound
  <2>1. DaySound(rows[t][n], n \in disk.port[t].fills \/ BeingFilled(t, n))
    BY <1>1 DEF ExecuteInv, RowsSound, Working
  <2>2. BeingFilled(t, n) => n \in disk'.port[t].fills
    BY <1>1, <1>2, <1>3 DEF BeingFilled, Wal
  <2>3. n \in disk.port[t].fills => n \in disk'.port[t].fills
    BY <1>3
  <2> QED
    BY <1>1, <2>1, <2>2, <2>3 DEF DaySound
<1>7. RunSound'
  <2>1. CASE pc' = "recover"
    BY <2>1 DEF RunSound
  <2>2. CASE Wal[clock].stage = "intended" /\ pc' = "settle" /\ UNCHANGED todo
    <3>1. Current' = s /\ Wal' = Wal /\ Unsettled' = Unsettled
      BY <1>3, <2>2 DEF Current, Wal, Unsettled
    <3> QED
      BY <1>1, <1>2, <1>3, <2>2, <3>1 DEF RunSound
  <2> QED
    BY <1>1, <2>1, <2>2
<1> QED
  BY <1>4, <1>5, <1>6, <1>7 DEF ExecuteInv

-----------------------------------------------------------------------------
(* The end of a run.                                                       *)
LEMMA SaveTradesStep == ExecuteInv /\ SaveTrades => ExecuteInv'
<1> SUFFICES ASSUME ExecuteInv, SaveTrades PROVE ExecuteInv'
  OBVIOUS
<1>1. /\ pc = "recover" /\ pc' = "check" /\ disk' = [disk EXCEPT !.csv = rows]
      /\ disk \in Tree /\ rows \in Rows
      /\ UNCHANGED <<remote, todo, rows, mem, recovered, alert, clock, faults>>
  BY DEF SaveTrades, world, ExecuteInv, TypeOK
<1>2. /\ disk' \in Tree /\ disk'.port = disk.port /\ disk'.wal = disk.wal
      /\ disk'.csv = rows
  BY <1>1 DEF Tree
<1>3. TypeOK'
  BY <1>1, <1>2 DEF ExecuteInv, TypeOK
<1>4. TreesSound'
  <2>1. FillsSound(disk', clock) /\ Refused(disk') = Refused(disk)
    BY <1>2 DEF ExecuteInv, TreesSound, FillsSound, Refused
  <2>2. SplitsCounted(disk', disk'.csv, faults)
    BY <1>1, <1>2, <2>1 DEF ExecuteInv, TreesSound, SplitsCounted, Working
  <2>3. CsvSound(disk')
    BY <1>1, <1>2 DEF ExecuteInv, RowsSound, BeingFilled, CsvSound, Working
  <2> QED
    BY <1>1, <1>2, <2>1, <2>2, <2>3 DEF ExecuteInv, TreesSound, Working
<1>5. RowsSound' /\ RunSound'
  BY <1>1 DEF RowsSound, RunSound, Working
<1> QED
  BY <1>3, <1>4, <1>5 DEF ExecuteInv

LEMMA ReconcileStep == ExecuteInv /\ PostReconcile => ExecuteInv'
<1> SUFFICES ASSUME ExecuteInv, PostReconcile PROVE ExecuteInv'
  OBVIOUS
<1>1. /\ pc = "check" /\ pc' = "commit" /\ alert' \subseteq Strategy
      /\ UNCHANGED <<files, todo, rows, mem, recovered, clock, faults>>
  BY DEF PostReconcile, world
<1>2. TypeOK' /\ TreesSound'
  BY <1>1 DEF files, ExecuteInv, TypeOK, TreesSound, Working
<1>3. RowsSound' /\ RunSound'
  BY <1>1 DEF RowsSound, RunSound, Working
<1> QED
  BY <1>2, <1>3 DEF ExecuteInv

LEMMA RunEnded == EndRun =>
    /\ pc' = "idle" /\ todo' \in Seq(Strategy) /\ rows' \in Rows /\ mem' \in Portfolio
    /\ recovered' \subseteq Strategy \X Session /\ alert' \subseteq Strategy
<1>1. Head(Strategies) \in Strategy
  BY ExecuteAssumption, HeadTailProperties
<1> QED
  BY <1>1, FirstPortfolioType, EmptyTreeType DEF EndRun, Tree

LEMMA CommitStep == ExecuteInv /\ Commit => ExecuteInv'
<1> SUFFICES ASSUME ExecuteInv, Commit PROVE ExecuteInv'
  OBVIOUS
<1>1. /\ pc = "commit" /\ pc' = "idle" /\ remote' = disk
      /\ UNCHANGED <<disk, clock, faults>> /\ disk \in Tree
  BY DEF Commit, world, EndRun, ExecuteInv, TypeOK
<1>2. TypeOK'
  BY <1>1, RunEnded DEF Commit, ExecuteInv, TypeOK
<1>3. TreesSound'
  <2>1. Grows(disk.port, disk.port)
    BY <1>1, GrowsReflexive
  <2> QED
    BY <1>1, <2>1 DEF ExecuteInv, TreesSound, Working
<1>4. RowsSound' /\ RunSound'
  BY <1>1 DEF RowsSound, RunSound, Working
<1> QED
  BY <1>2, <1>3, <1>4 DEF ExecuteInv

(* A run that ends early owes for the splits whose rows it has not saved.  *)
LEMMA StopStep == ExecuteInv /\ StopRun => ExecuteInv'
<1> SUFFICES ASSUME ExecuteInv, StopRun PROVE ExecuteInv'
  OBVIOUS
<1>1. /\ pc' = "commit" /\ UNCHANGED <<files, todo, rows, mem, recovered, alert, clock>>
      /\ faults' = faults + 1 /\ faults \in Nat /\ faults' \in 0..MaxFaults
      /\ disk \in Tree /\ remote \in Tree
  BY ExecuteAssumption DEF StopRun, Fault, ExecuteInv, TypeOK
<1>2. TypeOK'
  BY <1>1 DEF files, ExecuteInv, TypeOK
<1>3. TreesSound'
  <2>1. /\ faults <= faults' /\ faults + 1 <= faults' /\ faults' \in Nat
        /\ Refused(disk) \subseteq Refused(disk)
        /\ Refused(remote) \subseteq Refused(remote)
    BY <1>1
  <2>2. SplitsCounted(disk, disk.csv, faults')
    <3>1. \E days : SplitsCounted(disk, days, faults)
      BY DEF ExecuteInv, TreesSound
    <3> QED
      BY <1>1, <2>1, <3>1, CountKept
  <2>3. SplitsCounted(remote, remote.csv, faults')
    <3>1. SplitsCounted(remote, remote.csv, faults)
      BY DEF ExecuteInv, TreesSound
    <3> QED
      BY <1>1, <2>1, <3>1, CountKept
  <2> QED
    BY <1>1, <2>2, <2>3 DEF files, ExecuteInv, TreesSound, Working
<1>4. RowsSound' /\ RunSound'
  BY <1>1 DEF RowsSound, RunSound, Working
<1> QED
  BY <1>2, <1>3, <1>4 DEF ExecuteInv

LEMMA LoseStep == ExecuteInv /\ LoseRunner => ExecuteInv'
<1> SUFFICES ASSUME ExecuteInv, LoseRunner PROVE ExecuteInv'
  OBVIOUS
<1>1. /\ pc' = "idle" /\ UNCHANGED <<remote, clock>> /\ disk' = remote
      /\ faults' = faults + 1 /\ faults \in Nat /\ faults' \in 0..MaxFaults
      /\ remote \in Tree
  BY ExecuteAssumption DEF LoseRunner, EndRun, Fault, ExecuteInv, TypeOK
<1>2. TypeOK'
  BY <1>1, RunEnded DEF LoseRunner, ExecuteInv, TypeOK
<1>3. TreesSound'
  <2>1. /\ faults <= faults' /\ faults + 1 <= faults' /\ faults' \in Nat
        /\ Refused(remote) \subseteq Refused(remote)
    BY <1>1
  <2>2. SplitsCounted(remote, remote.csv, faults')
    <3>1. SplitsCounted(remote, remote.csv, faults)
      BY DEF ExecuteInv, TreesSound
    <3> QED
      BY <1>1, <2>1, <3>1, CountKept
  <2>3. Grows(remote.port, remote.port)
    BY <1>1, GrowsReflexive
  <2> QED
    BY <1>1, <2>2, <2>3 DEF ExecuteInv, TreesSound, Working
<1>4. RowsSound' /\ RunSound'
  BY <1>1 DEF RowsSound, RunSound, Working
<1> QED
  BY <1>2, <1>3, <1>4 DEF ExecuteInv

LEMMA TickStep == ExecuteInv /\ Tick => ExecuteInv'
<1> SUFFICES ASSUME ExecuteInv, Tick PROVE ExecuteInv'
  OBVIOUS
<1>1. /\ pc = "idle" /\ clock' = clock + 1 /\ clock \in Int /\ clock' \in Session
      /\ UNCHANGED <<files, run, faults>>
  BY ExecuteAssumption DEF Tick, ExecuteInv, TypeOK, Session
<1>2. TypeOK'
  BY <1>1 DEF files, run, ExecuteInv, TypeOK
<1>3. TreesSound'
  <2>1. ASSUME NEW tree, FillsSound(tree, clock) PROVE FillsSound(tree, clock + 1)
    <3>1. \A n \in Session : n > clock + 1 => n > clock
      BY <1>1 DEF Session
    <3> QED
      BY <2>1, <3>1 DEF FillsSound
  <2> QED
    BY <1>1, <2>1 DEF files, run, ExecuteInv, TreesSound, Working
<1>4. RowsSound' /\ RunSound'
  BY <1>1 DEF run, RowsSound, RunSound, Working
<1> QED
  BY <1>2, <1>3, <1>4 DEF ExecuteInv

LEMMA Stuttering == ExecuteInv /\ UNCHANGED vars => ExecuteInv'
  BY DEF vars, files, run, world, ExecuteInv, TypeOK, TreesSound, RowsSound, RunSound,
         BeingFilled, Current, Wal, Unsettled

LEMMA StepSound == ExecuteInv /\ [Next]_vars => ExecuteInv'
<1> SUFFICES ASSUME ExecuteInv, [Next]_vars PROVE ExecuteInv'
  OBVIOUS
<1>1. CASE RunStep
  BY <1>1, StartStep, SplitStep, MarkerStep, ExecutedStep, RetryStep, RefuseStep,
     RecoveredStep, TradeStep, NoTradeStep, IntentStep, SaveStep, SettleStep,
     SaveTradesStep, ReconcileStep, CommitStep DEF RunStep
<1>2. CASE StopRun
  BY <1>2, StopStep
<1>3. CASE LoseRunner
  BY <1>3, LoseStep
<1>4. CASE Tick
  BY <1>4, TickStep
<1>5. CASE UNCHANGED vars
  BY <1>5, Stuttering
<1> QED
  BY <1>1, <1>2, <1>3, <1>4, <1>5 DEF Next

(* The fill log, the portfolio files and trades.csv agree in every         *)
(* reachable state, in the workspace and as pushed, and the run in progress*)
(* knows what its next writes rely on (stock_bot.py, orders.py, fills.py). *)
THEOREM ExecuteInvariance == Spec => []ExecuteInv
<1>1. Init => ExecuteInv
  BY InitSound
<1>2. ExecuteInv /\ [Next]_vars => ExecuteInv'
  BY StepSound
<1> QED
  BY <1>1, <1>2, PTL DEF Spec

(* trades.csv has every fill at most once and none that the portfolio does *)
(* not contain (project_fills_to_trades, save_csv).                        *)
THEOREM TradesReal == Spec => []TradesAreReal
<1>1. ExecuteInv => TradesAreReal
  BY DEF ExecuteInv, TreesSound, CsvSound, DaySound, TradesAreReal
<1> QED
  BY <1>1, ExecuteInvariance, PTL

(* A fill that recovery refused although the portfolio contains it had a   *)
(* split after it was written (reconcile_settling_orders,                  *)
(* apply_split_adjustments).                                               *)
THEOREM RefusedSplit == Spec => []RefusedWasSplit
<1>1. ExecuteInv => RefusedWasSplit
  <2> SUFFICES ASSUME ExecuteInv, NEW tree \in {remote, disk}, NEW s \in Strategy,
                      NEW n \in tree.port[s].fills, tree.wal[s][n].stage \in Failed
               PROVE  \E m \in n..MaxSession : tree.port[s].splits[m] > 0
    BY DEF RefusedWasSplit
  <2>1. n \in Session
    BY DEF ExecuteInv, TypeOK, Tree, Portfolio
  <2>2. FillSound(tree.port[s], tree.wal[s][n], n)
    BY <2>1 DEF ExecuteInv, TreesSound, FillsSound
  <2> QED
    BY <2>2 DEF FillSound
<1> QED
  BY <1>1, ExecuteInvariance, PTL

(* A split is applied twice in a session only as often as runs ended early *)
(* between its portfolio save and its row (apply_split_adjustments).       *)
THEOREM SplitsRepeat == Spec => []SplitsRepeatByFailures
<1>1. ExecuteInv => SplitsRepeatByFailures
  <2> SUFFICES ASSUME ExecuteInv, NEW s \in Strategy, NEW n \in Session
               PROVE  disk.port[s].splits[n] <= 1 + faults + Cardinality(Refused(disk))
    BY DEF SplitsRepeatByFailures
  <2>1. PICK days : SplitsCounted(disk, days, faults)
    BY DEF ExecuteInv, TreesSound
  <2>2. disk.port[s].splits[n] <=
          faults + Cardinality(Refused(disk)) + SplitCount(days[s][n])
    BY <2>1 DEF SplitsCounted
  <2>3. /\ disk.port[s].splits[n] \in Nat /\ Cardinality(Refused(disk)) \in Nat
        /\ SplitCount(days[s][n]) \in 0..1 /\ faults \in Nat
    <3>1. Cardinality(Refused(disk)) \in Nat
      BY RefusedCount
    <3>2. disk.port[s].splits[n] \in Nat /\ faults \in Nat
      BY ExecuteAssumption DEF ExecuteInv, TypeOK, Tree, Portfolio
    <3> QED
      BY <3>1, <3>2 DEF SplitCount
  <2> QED
    BY <2>2, <2>3
<1> QED
  BY <1>1, ExecuteInvariance, PTL

(* Which steps write the portfolio files, and that they lose nothing.      *)
LEMMA StepGrows ==
    ExecuteInv /\ Next =>
        /\ pc' # "idle" => Grows(disk.port, disk'.port)
        /\ Grows(remote.port, remote'.port)
<1> SUFFICES ASSUME ExecuteInv, Next
             PROVE  /\ pc' # "idle" => Grows(disk.port, disk'.port)
                    /\ Grows(remote.port, remote'.port)
  OBVIOUS
<1>1. disk \in Tree /\ remote \in Tree
  BY DEF ExecuteInv, TypeOK
<1>2. Grows(disk.port, disk.port) /\ Grows(remote.port, remote.port)
      /\ Grows(remote.port, disk.port)
  BY <1>1, GrowsReflexive DEF ExecuteInv, TreesSound
<1>3. CASE ApplySplit
  <2>1. remote' = remote /\ Head(todo) \in Strategy
    BY <1>3, CurrentType DEF ApplySplit, ExecuteInv, RunSound, Current
  <2>2. CASE disk' = [disk EXCEPT !.port[Head(todo)] = Split(@)]
    BY <1>2, <2>1, <2>2, SplitWritten
  <2>3. CASE disk' = disk
    BY <1>2, <2>1, <2>3
  <2> QED
    BY <1>3, <2>2, <2>3 DEF ApplySplit
<1>4. CASE SavePortfolio
  BY <1>2, <1>4, PortfolioWritten DEF SavePortfolio
<1>5. CASE Commit \/ LoseRunner
  BY <1>2, <1>5 DEF Commit, LoseRunner, EndRun
<1>6. CASE SaveTrades
  <2>1. disk'.port = disk.port /\ remote' = remote
    BY <1>1, <1>6 DEF SaveTrades, Tree
  <2> QED
    BY <1>2, <2>1
<1>7. CASE \/ RecoverMarker \/ RecoverExecuted \/ RecoverRetry \/ RecoverRefuse
           \/ Trade \/ WriteIntent \/ Settle
  <2>1. disk'.port = disk.port /\ remote' = remote
    BY <1>1, <1>7 DEF RecoverMarker, RecoverExecuted, RecoverRetry, RecoverRefuse,
                      Trade, WriteIntent, Settle, SetStage, SetFinal, Tree
  <2> QED
    BY <1>2, <2>1
<1>8. CASE Start \/ Recovered \/ NoTrade \/ PostReconcile \/ StopRun \/ Tick
  BY <1>2, <1>8 DEF Start, Recovered, NoTrade, PostReconcile, StopRun, Tick, files
<1> QED
  BY <1>3, <1>4, <1>5, <1>6, <1>7, <1>8 DEF Next, RunStep

(* No run takes a fill or a split out of a portfolio, in its workspace or  *)
(* by its push (save_strategy_state, execute.yml).                         *)
THEOREM NothingUndone == Spec => NothingIsUndone
<1>1. ExecuteInv /\ [Next]_vars =>
        [/\ pc' # "idle" => Grows(disk.port, disk'.port)
         /\ Grows(remote.port, remote'.port)]_files
  BY StepGrows DEF vars
<1>2. Spec => []ExecuteInv
  BY ExecuteInvariance
<1> QED
  BY <1>1, <1>2, PTL DEF Spec, NothingIsUndone
=============================================================================

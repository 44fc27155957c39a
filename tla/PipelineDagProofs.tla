------------------------- MODULE PipelineDagProofs -------------------------
(***************************************************************************)
(* The DAG for any number of containers, retries, failures and rows, with  *)
(* or without overlapping sync containers.                                 *)
(***************************************************************************)
EXTENDS PipelineDag, FiniteSetTheorems, WellFoundedInduction, TLAPS

(* While Airflow watches a sync container, it is at work; and as long as   *)
(* no stray container wrote, a container that saw no table is right still. *)
Watched ==
  cur # None => /\ task = "sync" /\ pc[cur] # "off"
                /\ ~stray /\ mark[cur] = 0 => pg = <<>>

(* What the tasks passed so far have established.                          *)
Achieved ==
  /\ ~stray /\ task \in {"staging", "marts"} => TableValid
  /\ task \in {"staging", "marts"} => \A i \in RowsOf(pg) : iceberg[i].valid \/ i \in slipped
  /\ task = "marts" => staged /\ seeded
  /\ ~stray /\ task = "marts" => \A m \in built : marts[m] = pg
  /\ ~stray /\ task \in {"alerts", "metadata"} => \A m \in Mart : marts[m] = pg
  /\ ~stray /\ task = "metadata" => alerted = pg /\ logged \in Seq({Count(pg)})
  /\ task \notin {"none", "metadata"} => logged = <<>>

(* A mart shows nothing the table has lost, and nothing before there are   *)
(* views: this is what lets no rebuild drop an incident.                   *)
MartsBehind ==
  /\ ~staged => \A m \in Mart : marts[m] = <<>>
  /\ \A m \in Mart : RowsOf(marts[m]) \subseteq RowsOf(pg)

DagInv == TypeOK /\ Watched /\ Achieved /\ MartsBehind /\ MartsValidated

-----------------------------------------------------------------------------
(* The functions MapThenSumSet chooses its sum from: g[s] is the sum of w  *)
(* over s, for every s among the subsets of T.                             *)
Chosen(s) == CHOOSE x \in s : TRUE
SumStep(w, s, g) == IF s = {} THEN 0 ELSE w[Chosen(s)] + g[s \ {Chosen(s)}]
Sums(w, g, T) == g = [s \in SUBSET T |-> SumStep(w, s, g)]

(* Induction over finite sets: a set of counterexamples has a least one.   *)
LEMMA LeastSubset ==
  ASSUME NEW S, IsFiniteSet(S), NEW Bad, Bad \subseteq SUBSET S, Bad # {}
  PROVE  \E T \in Bad : \A U \in SUBSET T : U # T => U \notin Bad
<1>1. IsWellFoundedOn(StrictSubsetOrdering(S), SUBSET S)
  BY FS_StrictSubsetOrderingWellFounded, FS_FiniteSubsetsOfFinite
<1>2. PICK T \in Bad : \A U \in Bad : <<U, T>> \notin StrictSubsetOrdering(S)
  BY <1>1, WFMin
<1>3. ASSUME NEW U \in SUBSET T, U # T, U \in Bad PROVE FALSE
  BY <1>2, <1>3 DEF StrictSubsetOrdering
<1> QED
  BY <1>2, <1>3

LEMMA ChosenIn == ASSUME NEW s, s # {} PROVE Chosen(s) \in s
BY DEF Chosen

(* Two such functions agree; there is one; and its sums are numbers.       *)
LEMMA SumsUnique ==
  ASSUME NEW S, IsFiniteSet(S), NEW w, NEW T \in SUBSET S,
         NEW g, NEW h, Sums(w, g, S), Sums(w, h, T), NEW s \in SUBSET T
  PROVE  g[s] = h[s]
<1> DEFINE Bad == {u \in SUBSET T : g[u] # h[u]}
<1> SUFFICES ASSUME Bad # {} PROVE FALSE
  OBVIOUS
<1>1. PICK u \in Bad : \A v \in SUBSET u : v # u => v \notin Bad
  <2>1. Bad \subseteq SUBSET S
    OBVIOUS
  <2> HIDE DEF Bad
  <2> QED
    BY <2>1, LeastSubset
<1>2. g[u] = SumStep(w, u, g) /\ h[u] = SumStep(w, u, h)
  BY <1>1 DEF Sums
<1>3. u # {} => g[u \ {Chosen(u)}] = h[u \ {Chosen(u)}]
  BY <1>1, ChosenIn
<1> QED
  BY <1>1, <1>2, <1>3 DEF SumStep

LEMMA SumsExist ==
  ASSUME NEW S, IsFiniteSet(S), NEW w
  PROVE  \E g : Sums(w, g, S)
<1> DEFINE Bad == {T \in SUBSET S : ~\E g : Sums(w, g, T)}
<1> SUFFICES ASSUME Bad # {} PROVE FALSE
  OBVIOUS
<1>1. PICK T \in Bad : \A U \in SUBSET T : U # T => U \notin Bad
  <2>1. Bad \subseteq SUBSET S
    OBVIOUS
  <2> HIDE DEF Bad
  <2> QED
    BY <2>1, LeastSubset
<1>2. T \in SUBSET S /\ ~\E g : Sums(w, g, T)
  BY <1>1
<1> DEFINE part(U) == CHOOSE g : Sums(w, g, U)
           v(U) == part(U)[U]
           whole == [s \in SUBSET T |-> IF s = {} THEN 0 ELSE w[Chosen(s)] + v(s \ {Chosen(s)})]
<1>3. ASSUME NEW U \in SUBSET T, U # T PROVE Sums(w, part(U), U)
  <2>1. U \in SUBSET S /\ U \notin Bad
    BY <1>1, <1>2, <1>3
  <2>2. \E g : Sums(w, g, U)
    BY <2>1
  <2> QED
    BY <2>2
<1> HIDE DEF part
<1>4. ASSUME NEW U \in SUBSET T, U # T, U # {}
      PROVE  v(U) = w[Chosen(U)] + v(U \ {Chosen(U)})
  <2> DEFINE V == U \ {Chosen(U)}
  <2>1. V \in SUBSET U /\ V # T /\ IsFiniteSet(U)
    BY <1>2, <1>4, ChosenIn, FS_Subset
  <2>2. part(U)[V] = part(V)[V]
    BY <1>3, <1>4, <2>1, SumsUnique
  <2>3. part(U)[U] = SumStep(w, U, part(U))
    BY <1>3, <1>4 DEF Sums
  <2> QED
    BY <1>4, <2>2, <2>3 DEF SumStep
<1>5. ASSUME NEW U \in SUBSET T, U # T PROVE whole[U] = v(U)
  <2>1. CASE U = {}
    <3>1. part(U)[U] = SumStep(w, U, part(U))
      BY <1>3, <1>5 DEF Sums
    <3> QED
      BY <2>1, <3>1 DEF SumStep
  <2>2. CASE U # {}
    BY <1>4, <1>5, <2>2
  <2> QED
    BY <2>1, <2>2
<1>6. ASSUME NEW s \in SUBSET T PROVE whole[s] = SumStep(w, s, whole)
  <2>1. CASE s = {}
    BY <2>1 DEF SumStep
  <2>2. CASE s # {}
    <3>1. s \ {Chosen(s)} \in SUBSET T /\ s \ {Chosen(s)} # T
      BY <2>2, ChosenIn
    <3>2. whole[s] = w[Chosen(s)] + v(s \ {Chosen(s)})
      BY <2>2
    <3> HIDE DEF whole, v
    <3>3. whole[s \ {Chosen(s)}] = v(s \ {Chosen(s)})
      BY <1>5, <3>1
    <3> QED
      BY <2>2, <3>2, <3>3 DEF SumStep
  <2> QED
    BY <2>1, <2>2
<1>7. Sums(w, whole, T)
  <2>1. whole = [s \in SUBSET T |-> whole[s]]
    OBVIOUS
  <2> HIDE DEF whole
  <2> QED
    BY <1>6, <2>1 DEF Sums
<1> QED
  BY <1>2, <1>7

LEMMA SumsNat ==
  ASSUME NEW S, IsFiniteSet(S), NEW w, NEW g, Sums(w, g, S), \A n \in S : w[n] \in Nat
  PROVE  g[S] \in Nat
<1> DEFINE Bad == {u \in SUBSET S : g[u] \notin Nat}
<1> SUFFICES ASSUME Bad # {} PROVE FALSE
  OBVIOUS
<1>1. PICK u \in Bad : \A v \in SUBSET u : v # u => v \notin Bad
  <2>1. Bad \subseteq SUBSET S
    OBVIOUS
  <2> HIDE DEF Bad
  <2> QED
    BY <2>1, LeastSubset
<1>2. g[u] = SumStep(w, u, g)
  BY <1>1 DEF Sums
<1>3. u # {} => w[Chosen(u)] \in Nat /\ g[u \ {Chosen(u)}] \in Nat
  BY <1>1, ChosenIn
<1> QED
  BY <1>1, <1>2, <1>3 DEF SumStep

(* Hence the row count is a number.                                        *)
LEMMA CountIsNat ==
  ASSUME NEW n \in Nat, NEW table \in Seq(SUBSET (1..n))
  PROVE  Count(table) \in Nat
<1> DEFINE S == DOMAIN table
           w == [i \in S |-> Cardinality(table[i])]
           P(g) == g = [s \in SUBSET S |->
                          IF s = {} THEN 0
                          ELSE Cardinality(table[CHOOSE x \in s : TRUE])
                                 + g[s \ {CHOOSE x \in s : TRUE}]]
<1>1. IsFiniteSet(S)
  BY FS_Interval
<1>2. \A i \in S : w[i] \in Nat
  <2> SUFFICES ASSUME NEW i \in S PROVE Cardinality(table[i]) \in Nat
    OBVIOUS
  <2>1. table[i] \subseteq 1..n
    OBVIOUS
  <2>2. IsFiniteSet(1..n)
    BY FS_Interval
  <2>3. QED
    BY <2>1, <2>2, FS_Subset, FS_CardinalityType
<1>3. ASSUME NEW g PROVE P(g) <=> Sums(w, g, S)
  <2>1. ASSUME NEW s \in SUBSET S
        PROVE  SumStep(w, s, g) = IF s = {} THEN 0
                                  ELSE Cardinality(table[CHOOSE x \in s : TRUE])
                                         + g[s \ {CHOOSE x \in s : TRUE}]
    BY ChosenIn DEF SumStep, Chosen
  <2> HIDE DEF S, w
  <2>2. [s \in SUBSET S |-> SumStep(w, s, g)]
          = [s \in SUBSET S |-> IF s = {} THEN 0
                                ELSE Cardinality(table[CHOOSE x \in s : TRUE])
                                       + g[s \ {CHOOSE x \in s : TRUE}]]
    BY <2>1
  <2>3. QED
    BY <2>2 DEF Sums
<1>4. \E g : P(g)
  <2> HIDE DEF P, S, w
  <2>1. \E g : Sums(w, g, S)
    BY <1>1, SumsExist
  <2>2. QED
    BY <1>3, <2>1
<1>5. P(CHOOSE g : P(g))
  <2> HIDE DEF P
  <2>1. QED
    BY <1>4
<1>6. Count(table) = (CHOOSE g : P(g))[S]
  BY DEF Count, MapThenSumSet, MapThenFoldSet
<1> HIDE DEF P, S, w
<1>7. (CHOOSE g : P(g))[S] \in Nat
  BY <1>1, <1>2, <1>3, <1>5, SumsNat
<1>8. QED
  BY <1>6, <1>7

(* The rows of a table.                                                    *)
LEMMA RowsOfEmpty == RowsOf(<<>>) = {}
BY DEF Range, RowsOf

LEMMA RowsOfOne ==
  ASSUME NEW rows PROVE RowsOf(<<rows>>) = rows
<1>1. DOMAIN <<rows>> = {1} /\ <<rows>>[1] = rows
  OBVIOUS
<1>2. Range(<<rows>>) = {rows}
  BY <1>1 DEF Range
<1>3. QED
  BY <1>2 DEF RowsOf

LEMMA RowsOfAppend ==
  ASSUME NEW S, NEW table \in Seq(S), NEW rows
  PROVE  RowsOf(Append(table, rows)) = RowsOf(table) \cup rows
<1> DEFINE t == Append(table, rows)
<1>1. Len(t) = Len(table) + 1 /\ DOMAIN t = 1..Len(t) /\ DOMAIN table = 1..Len(table)
  OBVIOUS
<1>2. \A i \in 1..Len(table) : t[i] = table[i]
  OBVIOUS
<1>3. t[Len(table) + 1] = rows /\ Len(table) \in Nat
  OBVIOUS
<1> HIDE DEF t
<1>4. Range(t) = Range(table) \cup {rows}
  BY <1>1, <1>2, <1>3 DEF Range
<1>5. QED
  BY <1>4 DEF t, RowsOf

(* A table holds rows of Iceberg.                                          *)
LEMMA RowsOfType ==
  ASSUME NEW S, NEW table \in Seq(SUBSET S)
  PROVE  RowsOf(table) \subseteq S
<1>1. \A n \in DOMAIN table : table[n] \subseteq S
  OBVIOUS
<1>2. QED
  BY <1>1 DEF Range, RowsOf

-----------------------------------------------------------------------------
(* The sync's own steps keep its types, one lemma for each.                *)
LEMMA ArriveTypes ==
  ASSUME NEW t \in 1..MaxTime, NEW ok \in Quality, Quality \subseteq BOOLEAN,
         MaxRows \in Nat, Sync!TypeOK, Sync!Arrive(t, ok)
  PROVE  /\ Sync!TypeOK'
         /\ Sync!Row \subseteq Sync!Row'
         /\ \A i \in Sync!Row : iceberg'[i] = iceberg[i]
<1> DEFINE row == [time |-> t, valid |-> ok]
<1>1. row \in [time: 1..MaxTime, valid: BOOLEAN]
  OBVIOUS
<1>2. iceberg' = Append(iceberg, row)
  BY DEF Sync!Arrive
<1>3. iceberg \in Seq([time: 1..MaxTime, valid: BOOLEAN])
  BY DEF Sync!TypeOK
<1> HIDE DEF row
<1>4. /\ iceberg' \in Seq([time: 1..MaxTime, valid: BOOLEAN])
      /\ Len(iceberg') = Len(iceberg) + 1
      /\ Len(iceberg) \in Nat
      /\ \A i \in 1..Len(iceberg) : iceberg'[i] = iceberg[i]
  BY <1>1, <1>2, <1>3
<1>5. Sync!Row \subseteq Sync!Row' /\ \A i \in Sync!Row : iceberg'[i] = iceberg[i]
  BY <1>4 DEF Sync!Row
<1>6. Len(iceberg') <= MaxRows
  BY <1>4 DEF Sync!Arrive
<1>7. pg' \in Seq(SUBSET Sync!Row')
  <2>1. pg \in Seq(SUBSET Sync!Row) /\ pg' = pg
    BY DEF Sync!TypeOK, Sync!Arrive
  <2>2. \A S, T : S \subseteq T => Seq(SUBSET S) \subseteq Seq(SUBSET T)
    OBVIOUS
  <2>3. QED
    BY <2>1, <2>2, <1>5
<1>8. df' \in [Attempt -> SUBSET Sync!Row']
  BY <1>5 DEF Sync!TypeOK, Sync!Arrive
<1>9. QED
  BY <1>4, <1>5, <1>6, <1>7, <1>8 DEF Sync!TypeOK, Sync!Arrive

LEMMA TimesArePositive ==
  ASSUME MaxTime \in Nat, Sync!TypeOK, NEW i \in Sync!Row
  PROVE  Sync!Time(i) \in 1..MaxTime
<1> DEFINE R == [time: 1..MaxTime, valid: BOOLEAN]
<1>1. iceberg \in Seq(R) /\ i \in 1..Len(iceberg)
  BY DEF Sync!TypeOK, Sync!Row
<1>2. iceberg[i] \in R
  <2> HIDE DEF R
  <2>1. QED
    BY <1>1
<1>3. QED
  BY <1>2 DEF Sync!Time

LEMMA ReadWatermarkTypes ==
  ASSUME NEW a \in Attempt, MaxTime \in Nat, Sync!TypeOK, Sync!ReadWatermark(a)
  PROVE  Sync!TypeOK'
<1>1. Sync!Copied \subseteq Sync!Row
  <2>1. pg \in Seq(SUBSET Sync!Row)
    BY DEF Sync!TypeOK
  <2>2. RowsOf(pg) \subseteq Sync!Row
    BY <2>1, RowsOfType
  <2>3. QED
    BY <2>2 DEF RowsOf, Range, Sync!Copied, Sync!Range
<1>2. \A i \in Sync!Row : Sync!Time(i) \in 0..MaxTime
  BY TimesArePositive
<1>3. CASE pg = <<>> /\ mark' = [mark EXCEPT ![a] = 0]
  BY <1>3 DEF Sync!TypeOK, Sync!ReadWatermark, Sync!Row
<1>4. CASE \E i \in Sync!Copied : mark' = [mark EXCEPT ![a] = Sync!Time(i)]
  BY <1>1, <1>2, <1>4 DEF Sync!TypeOK, Sync!ReadWatermark, Sync!Row
<1>5. QED
  BY <1>3, <1>4 DEF Sync!ReadWatermark

LEMMA ScanTypes ==
  ASSUME NEW a \in Attempt, Sync!TypeOK, Sync!Scan(a)
  PROVE  Sync!TypeOK'
<1>1. Sync!Newer(a) \in SUBSET Sync!Row
  BY DEF Sync!Newer
<1>2. df' \in [Attempt -> SUBSET Sync!Row] /\ pc' \in [Attempt -> {"off", "marked", "scanned"}]
  BY <1>1 DEF Sync!TypeOK, Sync!Scan
<1>3. QED
  BY <1>2 DEF Sync!TypeOK, Sync!Scan, Sync!Row

LEMMA LoadTypes ==
  ASSUME NEW a \in Attempt, Sync!TypeOK, Sync!Load(a)
  PROVE  Sync!TypeOK'
<1>1. df[a] \in SUBSET Sync!Row /\ pg \in Seq(SUBSET Sync!Row)
  BY DEF Sync!TypeOK
<1>2. <<df[a]>> \in Seq(SUBSET Sync!Row) /\ Append(pg, df[a]) \in Seq(SUBSET Sync!Row)
  BY <1>1
<1>3. pg' \in Seq(SUBSET Sync!Row)
  BY <1>2 DEF Sync!Load
<1>4. df' \in [Attempt -> SUBSET Sync!Row] /\ pc' \in [Attempt -> {"off", "marked", "scanned"}]
  BY DEF Sync!TypeOK, Sync!Load
<1>5. QED
  BY <1>3, <1>4 DEF Sync!TypeOK, Sync!Load, Sync!Row

LEMMA AbortTypes ==
  ASSUME NEW a \in Attempt, Sync!TypeOK, Sync!Abort(a)
  PROVE  Sync!TypeOK'
BY DEF Sync!TypeOK, Sync!Abort, Sync!Row

-----------------------------------------------------------------------------
(* A failed task leaves nothing half-done behind but its tries.            *)
LEMMA TaskFailedTypes ==
  ASSUME TypeOK, TaskFailed
  PROVE  /\ task' \in {task, "none"}
         /\ tries' \in 1..(Retries + 1)
         /\ cur' = None /\ built' = {}
BY DagAssumption DEF TypeOK, TaskFailed

LEMMA FailTypes ==
  ASSUME TypeOK, Fail PROVE failures' \in 0..MaxFailures
BY DagAssumption DEF TypeOK, Fail

(* Steps of the DAG that touch no table.                                   *)
LEMMA QuietSync ==
  ASSUME Sync!TypeOK, UNCHANGED syncVars
  PROVE  Sync!TypeOK' /\ Sync!Row' = Sync!Row /\ TableValid' = TableValid
BY DEF syncVars, Sync!TypeOK, Sync!Row, TableValid, RowsOf, Range

(* A quiet step that also leaves the marts alone and enters no task but the*)
(* one it is in, "none" or one whose entry asks for nothing.               *)
LEMMA QuietStep ==
  ASSUME DagInv, UNCHANGED <<syncVars, seeded, staged, marts, alerted, logged, stray, slipped>>,
         task' \in {task, "none"} \/ (task' \in {"health", "sync", "validate"} /\ logged = <<>>),
         task' \in Task \cup {"none"},
         tries' \in 1..(Retries + 1), cur' = None, built' = {},
         failures' \in 0..MaxFailures
  PROVE  DagInv'
<1>1. Sync!TypeOK' /\ Sync!Row' = Sync!Row /\ TableValid' = TableValid
  BY QuietSync DEF DagInv, TypeOK
<1>2. TypeOK'
  BY <1>1 DEF DagInv, TypeOK
<1>3. Watched'
  BY DEF Watched
<1>4. Achieved'
  BY <1>1 DEF DagInv, Achieved, syncVars
<1>5. MartsBehind' /\ MartsValidated'
  BY DEF DagInv, MartsBehind, MartsValidated, syncVars
<1>6. QED
  BY <1>2, <1>3, <1>4, <1>5 DEF DagInv

(* A new row in Iceberg changes no table.                                  *)
LEMMA ArriveInv ==
  ASSUME NEW t \in 1..MaxTime, NEW ok \in Quality, DagInv, Arrive(t, ok)
  PROVE  DagInv'
<1>1. /\ Sync!TypeOK' /\ Sync!Row \subseteq Sync!Row'
      /\ \A i \in Sync!Row : iceberg'[i] = iceberg[i]
  BY ArriveTypes, DagAssumption DEF DagInv, TypeOK, Arrive
<1>2. UNCHANGED <<pg, pc, mark, df, taskVars, outVars, countVars>>
  BY DEF Arrive, Sync!Arrive
<1>3. \A S, T : S \subseteq T => Seq(SUBSET S) \subseteq Seq(SUBSET T)
  OBVIOUS
<1>4. Seq(SUBSET Sync!Row) \subseteq Seq(SUBSET Sync!Row')
  BY <1>1, <1>3
<1>5. TypeOK'
  BY <1>1, <1>2, <1>4 DEF DagInv, TypeOK, taskVars, outVars, countVars
<1>6. RowsOf(pg) \subseteq Sync!Row /\ \A m \in Mart : RowsOf(marts[m]) \subseteq Sync!Row
  BY RowsOfType DEF DagInv, TypeOK, Sync!TypeOK
<1>7. TableValid' = TableValid
  BY <1>1, <1>2, <1>6 DEF TableValid
<1>8. Watched' /\ MartsBehind'
  BY <1>2 DEF DagInv, Watched, MartsBehind, taskVars, outVars, countVars
<1>9. Achieved'
  BY <1>1, <1>2, <1>6, <1>7 DEF DagInv, Achieved, taskVars, outVars, countVars
<1>10. MartsValidated'
  BY <1>1, <1>2, <1>6 DEF DagInv, MartsValidated, outVars, countVars
<1>11. QED
  BY <1>5, <1>8, <1>9, <1>10 DEF DagInv

LEMMA SeedInv ==
  ASSUME DagInv, Seed PROVE DagInv'
<1>1. UNCHANGED <<syncVars, taskVars, staged, marts, alerted, logged, countVars>> /\ seeded' = TRUE
  BY DEF Seed
<1>2. Sync!TypeOK' /\ Sync!Row' = Sync!Row /\ TableValid' = TableValid
  BY <1>1, QuietSync DEF DagInv, TypeOK
<1>3. TypeOK'
  BY <1>1, <1>2 DEF DagInv, TypeOK, taskVars, countVars
<1>4. Watched' /\ Achieved'
  BY <1>1, <1>2 DEF DagInv, Watched, Achieved, syncVars, taskVars, countVars
<1>5. MartsBehind' /\ MartsValidated'
  BY <1>1 DEF DagInv, MartsBehind, MartsValidated, syncVars, countVars
<1>6. QED
  BY <1>3, <1>4, <1>5 DEF DagInv

LEMMA ScheduleRunInv ==
  ASSUME DagInv, ScheduleRun PROVE DagInv'
<1>1. /\ UNCHANGED <<syncVars, seeded, staged, marts, countVars>>
      /\ alerted' = <<>> /\ logged' = <<>>
      /\ task' = "health" /\ tries' = 1 /\ cur' = None /\ built' = {}
  BY DEF ScheduleRun, GoTo
<1>2. Sync!TypeOK' /\ Sync!Row' = Sync!Row /\ TableValid' = TableValid
  BY <1>1, QuietSync DEF DagInv, TypeOK
<1>3. <<>> \in Seq(SUBSET Sync!Row)
  OBVIOUS
<1>4. TypeOK'
  BY <1>1, <1>2, <1>3, DagAssumption DEF DagInv, TypeOK, Task, countVars
<1>5. Watched' /\ Achieved'
  BY <1>1 DEF Watched, Achieved
<1>6. MartsBehind' /\ MartsValidated'
  BY <1>1 DEF DagInv, MartsBehind, MartsValidated, syncVars, countVars
<1>7. QED
  BY <1>4, <1>5, <1>6 DEF DagInv

LEMMA HealthInv ==
  ASSUME DagInv, HealthOk \/ HealthSkip PROVE DagInv'
<1>1. /\ UNCHANGED <<syncVars, outVars, countVars>>
      /\ task = "health" /\ task' \in {"sync", "none"}
      /\ tries' = 1 /\ cur' = None /\ built' = {}
  BY DEF HealthOk, HealthSkip, GoTo
<1>2. task' = "sync" => logged = <<>>
  BY <1>1 DEF DagInv, Achieved
<1>3. tries' \in 1..(Retries + 1) /\ failures' \in 0..MaxFailures
  BY <1>1, DagAssumption DEF DagInv, TypeOK, countVars
<1>4. QED
  BY <1>1, <1>2, <1>3, QuietStep DEF Task, outVars, countVars

(* The container sees no table only if there is none: rows have times      *)
(* from 1 on.                                                              *)
LEMMA SyncStartInv ==
  ASSUME NEW a \in Attempt, DagInv, SyncStart(a) PROVE DagInv'
<1>1. /\ UNCHANGED <<iceberg, pg, df, task, tries, built, outVars, countVars>>
      /\ task = "sync" /\ cur' = a
      /\ Sync!ReadWatermark(a)
  BY DEF SyncStart, Sync!ReadWatermark
<1>2. Sync!TypeOK' /\ Sync!Row' = Sync!Row /\ TableValid' = TableValid
  BY <1>1, ReadWatermarkTypes, DagAssumption DEF DagInv, TypeOK, Sync!Row, TableValid, RowsOf, Range
<1>3. TypeOK'
  BY <1>1, <1>2 DEF DagInv, TypeOK, outVars, countVars
<1>4. pc'[a] = "marked"
  BY <1>1 DEF Sync!ReadWatermark, DagInv, TypeOK, Sync!TypeOK
<1>5. mark'[a] = 0 => pg = <<>>
  <2>1. mark \in [Attempt -> 0..MaxTime] /\ pg \in Seq(SUBSET Sync!Row)
    BY DEF DagInv, TypeOK, Sync!TypeOK
  <2>2. Sync!Copied \subseteq Sync!Row
    <3>1. RowsOf(pg) \subseteq Sync!Row
      BY <2>1, RowsOfType
    <3>2. QED
      BY <3>1 DEF RowsOf, Range, Sync!Copied, Sync!Range
  <2>3. \A i \in Sync!Row : Sync!Time(i) \in 1..MaxTime
    BY TimesArePositive, DagAssumption DEF DagInv, TypeOK
  <2>4. CASE \E i \in Sync!Copied : mark' = [mark EXCEPT ![a] = Sync!Time(i)]
    BY <2>1, <2>2, <2>3, <2>4
  <2>5. QED
    BY <1>1, <2>4 DEF Sync!ReadWatermark
<1>6. Watched'
  BY <1>1, <1>4, <1>5 DEF Watched
<1>7. Achieved'
  BY <1>1, <1>2 DEF DagInv, Achieved, outVars, countVars
<1>8. MartsBehind' /\ MartsValidated'
  BY <1>1 DEF DagInv, MartsBehind, MartsValidated, outVars, countVars
<1>9. QED
  BY <1>3, <1>6, <1>7, <1>8 DEF DagInv

(* A container ends without having written.                                *)
LEMMA SyncEndsInv ==
  ASSUME NEW a \in Attempt, DagInv, Sync!TypeOK',
         UNCHANGED <<iceberg, pg, mark, outVars>>,
         \A b \in Attempt : b # a => pc'[b] = pc[b],
         stray => stray', stray' \in BOOLEAN, slipped' = slipped, failures' \in 0..MaxFailures,
         \/ /\ a = cur
            /\ task' \in {"sync", "validate", "none"} /\ tries' \in 1..(Retries + 1)
            /\ cur' = None /\ built' = {}
         \/ (a # cur \/ pc'[a] # "off") /\ UNCHANGED taskVars
  PROVE  DagInv'
<1>1. Sync!Row' = Sync!Row /\ TableValid' = TableValid
  BY DEF Sync!Row, TableValid, RowsOf, Range
<1>2. a = cur => task = "sync"
  BY DagAssumption DEF DagInv, Watched
<1>3. TypeOK'
  BY <1>1 DEF DagInv, TypeOK, Task, outVars, taskVars
<1>4. Watched'
  BY DEF DagInv, TypeOK, Watched, taskVars
<1>5. Achieved'
  BY <1>1, <1>2 DEF DagInv, TypeOK, Achieved, outVars, taskVars
<1>6. MartsBehind' /\ MartsValidated'
  BY DEF DagInv, TypeOK, MartsBehind, MartsValidated, outVars
<1>7. QED
  BY <1>3, <1>4, <1>5, <1>6 DEF DagInv

LEMMA ScanInv ==
  ASSUME NEW a \in Attempt, DagInv, SyncStep(a), Sync!Scan(a) PROVE DagInv'
<1>1. Sync!TypeOK'
  BY ScanTypes DEF DagInv, TypeOK
<1>2. /\ UNCHANGED <<iceberg, pg, mark, outVars, failures>>
      /\ pc' = [pc EXCEPT ![a] = pc'[a]] /\ pc \in [Attempt -> {"off", "marked", "scanned"}]
      /\ pc[a] = "marked"
  BY DEF SyncStep, Sync!Scan, DagInv, TypeOK, Sync!TypeOK
<1>3. stray' = stray /\ slipped' = slipped
  BY <1>2 DEF SyncStep, NoteStray, StrayLoad, DagInv, TypeOK
<1>4. \/ /\ a = cur
         /\ task' = "validate" /\ tries' = 1 /\ cur' = None /\ built' = {}
      \/ (a # cur \/ pc'[a] # "off") /\ UNCHANGED taskVars
  BY DEF SyncStep, GoTo
<1>5. 1 \in 1..(Retries + 1)
  BY DagAssumption
<1>6. \A b \in Attempt : b # a => pc'[b] = pc[b]
  BY <1>2
<1>7. QED
  BY <1>1, <1>2, <1>3, <1>4, <1>5, <1>6, SyncEndsInv DEF DagInv, TypeOK

LEMMA SyncFailsInv ==
  ASSUME NEW a \in Attempt, DagInv, SyncFails(a) PROVE DagInv'
<1>1. Sync!TypeOK'
  BY AbortTypes DEF DagInv, TypeOK, SyncFails
<1>2. /\ UNCHANGED <<iceberg, pg, mark, outVars, stray, slipped>>
      /\ pc' = [pc EXCEPT ![a] = "off"]
  BY DEF SyncFails, Sync!Abort
<1>3. failures' \in 0..MaxFailures
  BY FailTypes DEF SyncFails, DagInv, TypeOK
<1>4. \/ /\ a = cur
         /\ task' \in {"sync", "none"} /\ tries' \in 1..(Retries + 1)
         /\ cur' = None /\ built' = {}
      \/ a # cur /\ UNCHANGED taskVars
  BY TaskFailedTypes, DagAssumption DEF SyncFails, DagInv, Watched
<1>5. \A b \in Attempt : b # a => pc'[b] = pc[b]
  BY <1>2 DEF DagInv, TypeOK, Sync!TypeOK
<1>6. QED
  BY <1>1, <1>2, <1>3, <1>4, <1>5, SyncEndsInv DEF DagInv, TypeOK

(* The one step that changes the table: it grows, or is replaced before any*)
(* mart shows a row of it.                                                 *)
LEMMA LoadGrows ==
  ASSUME NEW a \in Attempt, DagInv, Sync!Load(a), ~ReplaceBlocked(a)
  PROVE  /\ \A m \in Mart : RowsOf(marts[m]) \subseteq RowsOf(pg')
         /\ (mark[a] = 0 /\ pg # <<>>) \/ RowsOf(pg) \subseteq RowsOf(pg')
<1>1. pg \in Seq(SUBSET Sync!Row)
  BY DEF DagInv, TypeOK, Sync!TypeOK
<1>2. CASE mark[a] = 0 /\ pg # <<>>
  <2>1. \A m \in Mart : marts[m] = <<>>
    BY <1>2 DEF ReplaceBlocked, DagInv, MartsBehind
  <2>2. QED
    BY <1>2, <2>1, RowsOfEmpty
<1>3. CASE mark[a] = 0 /\ pg = <<>>
  BY <1>3, RowsOfEmpty DEF DagInv, MartsBehind
<1>4. CASE mark[a] # 0
  <2>1. pg' = Append(pg, df[a])
    BY <1>4 DEF Sync!Load
  <2>2. RowsOf(pg') = RowsOf(pg) \cup df[a]
    BY <1>1, <2>1, RowsOfAppend
  <2>3. QED
    BY <2>2 DEF DagInv, MartsBehind
<1>5. QED
  BY <1>2, <1>3, <1>4

LEMMA LoadInv ==
  ASSUME NEW a \in Attempt, DagInv, SyncStep(a), Sync!Load(a), ~ReplaceBlocked(a)
  PROVE  DagInv'
<1>1. Sync!TypeOK' /\ Sync!Row' = Sync!Row
  BY LoadTypes DEF DagInv, TypeOK, Sync!Load, Sync!Row
<1>2. /\ UNCHANGED <<iceberg, mark, outVars, failures>>
      /\ pc[a] = "scanned" /\ pc' = [pc EXCEPT ![a] = "off"]
      /\ pc \in [Attempt -> {"off", "marked", "scanned"}]
  BY DEF SyncStep, Sync!Load, DagInv, TypeOK, Sync!TypeOK
<1>3. /\ stray' = (stray \/ a # cur) /\ slipped \subseteq slipped'
      /\ slipped' \subseteq Sync!Row
      /\ a = cur => slipped' = slipped
      /\ a # cur /\ task \in {"staging", "marts"} => slipped' = slipped \cup df[a]
  BY <1>2 DEF SyncStep, NoteStray, StrayLoad, DagInv, TypeOK, Sync!TypeOK
<1>4. \A m \in Mart : RowsOf(marts[m]) \subseteq RowsOf(pg')
  BY LoadGrows
<1>5. MartsBehind'
  BY <1>2, <1>4 DEF DagInv, MartsBehind, outVars
<1>6. MartsValidated'
  BY <1>2, <1>3 DEF DagInv, MartsValidated, outVars
<1>7. CASE a = cur
  <2>1. /\ task' = "validate" /\ tries' = 1 /\ cur' = None /\ built' = {}
        /\ stray' = stray /\ task = "sync"
    BY <1>2, <1>3, <1>7, DagAssumption DEF SyncStep, GoTo, DagInv, TypeOK, Watched
  <2>2. TypeOK'
    BY <1>1, <1>2, <1>3, <2>1, DagAssumption DEF DagInv, TypeOK, Task, outVars
  <2>3. Watched' /\ Achieved'
    BY <1>2, <2>1 DEF DagInv, Watched, Achieved, outVars
  <2>4. QED
    BY <1>5, <1>6, <2>2, <2>3 DEF DagInv
<1>8. CASE a # cur
  <2>1. UNCHANGED taskVars /\ stray' = TRUE
    BY <1>3, <1>8 DEF SyncStep
  <2>2. TypeOK'
    BY <1>1, <1>2, <1>3, <2>1 DEF DagInv, TypeOK, outVars, taskVars
  <2>3. Watched'
    BY <1>2, <1>8, <2>1 DEF DagInv, TypeOK, Watched, taskVars
  <2>4. RowsOf(pg') \subseteq RowsOf(pg) \cup df[a]
    <3>1. pg \in Seq(SUBSET Sync!Row) /\ (pg' = <<df[a]>> \/ pg' = Append(pg, df[a]))
      BY DEF DagInv, TypeOK, Sync!TypeOK, Sync!Load
    <3>2. RowsOf(<<df[a]>>) = df[a]
      BY RowsOfOne
    <3>3. RowsOf(Append(pg, df[a])) = RowsOf(pg) \cup df[a]
      BY <3>1, RowsOfAppend
    <3>4. QED
      BY <3>1, <3>2, <3>3
  <2>5. task \in {"staging", "marts"}
          => \A i \in RowsOf(pg') : iceberg[i].valid \/ i \in slipped'
    BY <1>3, <1>8, <2>4 DEF DagInv, Achieved
  <2>6. Achieved'
    BY <1>2, <2>1, <2>5 DEF DagInv, Achieved, outVars, taskVars
  <2>7. QED
    BY <1>5, <1>6, <2>2, <2>3, <2>6 DEF DagInv
<1>9. QED
  BY <1>7, <1>8

LEMMA SyncStepInv ==
  ASSUME NEW a \in Attempt, DagInv, SyncStep(a) PROVE DagInv'
<1>1. CASE Sync!Scan(a)
  BY <1>1, ScanInv
<1>2. CASE ~ReplaceBlocked(a) /\ Sync!Load(a)
  BY <1>2, LoadInv
<1>3. QED
  BY <1>1, <1>2 DEF SyncStep

LEMMA TaskLostInv ==
  ASSUME DagInv, LoseSight \/ ContainerFails PROVE DagInv'
<1>1. UNCHANGED <<syncVars, outVars, stray, slipped>> /\ Fail /\ TaskFailed
  BY DEF LoseSight, ContainerFails
<1>2. /\ task' \in {task, "none"} /\ tries' \in 1..(Retries + 1)
      /\ cur' = None /\ built' = {} /\ failures' \in 0..MaxFailures
  BY <1>1, TaskFailedTypes, FailTypes DEF DagInv
<1>3. task' \in Task \cup {"none"}
  BY <1>2 DEF DagInv, TypeOK
<1>4. QED
  BY <1>1, <1>2, <1>3, QuietStep DEF outVars

LEMMA ValidateInv ==
  ASSUME DagInv, Validate PROVE DagInv'
<1>1. /\ UNCHANGED <<syncVars, outVars, countVars>> /\ task = "validate" /\ logged = <<>>
  BY DEF Validate, DagInv, Achieved
<1>2. CASE ~TableValid
  <2>1. TaskFailed
    BY <1>2 DEF Validate
  <2>2. /\ task' \in {task, "none"} /\ tries' \in 1..(Retries + 1)
        /\ cur' = None /\ built' = {}
    BY <2>1, TaskFailedTypes DEF DagInv
  <2>3. failures' \in 0..MaxFailures
    BY <1>1 DEF DagInv, TypeOK, countVars
  <2>4. QED
    BY <1>1, <2>2, <2>3, QuietStep DEF Task, outVars, countVars
<1>3. CASE TableValid
  <2>1. task' = "staging" /\ tries' = 1 /\ cur' = None /\ built' = {}
    BY <1>3 DEF Validate, GoTo
  <2>2. Sync!TypeOK' /\ Sync!Row' = Sync!Row /\ TableValid'
    BY <1>1, <1>3, QuietSync DEF DagInv, TypeOK
  <2>3. TypeOK'
    BY <1>1, <2>1, <2>2, DagAssumption DEF DagInv, TypeOK, Task, outVars, countVars
  <2>4. Watched' /\ Achieved'
    BY <1>1, <2>1, <2>2 DEF DagInv, Watched, Achieved, TableValid, outVars
  <2>5. MartsBehind' /\ MartsValidated'
    BY <1>1 DEF DagInv, MartsBehind, MartsValidated, syncVars, outVars, countVars
  <2>6. QED
    BY <2>3, <2>4, <2>5 DEF DagInv
<1>4. QED
  BY <1>2, <1>3

LEMMA RunStagingInv ==
  ASSUME DagInv, RunStaging PROVE DagInv'
<1>1. /\ UNCHANGED <<syncVars, seeded, marts, alerted, logged, countVars>>
      /\ task = "staging" /\ staged' = TRUE /\ logged = <<>>
  BY DEF RunStaging, DagInv, Achieved
<1>2. /\ task' \in {"staging", "none"} \/ (task' = "marts" /\ seeded)
      /\ tries' \in 1..(Retries + 1) /\ cur' = None /\ built' = {}
  <2>1. CASE seeded
    BY <1>1, <2>1, DagAssumption DEF RunStaging, GoTo
  <2>2. CASE ~seeded
    BY <1>1, <2>2, TaskFailedTypes DEF RunStaging, DagInv
  <2>3. QED
    BY <2>1, <2>2
<1>3. Sync!TypeOK' /\ Sync!Row' = Sync!Row /\ TableValid' = TableValid
  BY <1>1, QuietSync DEF DagInv, TypeOK
<1>4. TypeOK'
  BY <1>1, <1>2, <1>3 DEF DagInv, TypeOK, Task, countVars
<1>5. Watched' /\ Achieved'
  BY <1>1, <1>2, <1>3 DEF DagInv, Watched, Achieved, syncVars, countVars
<1>6. MartsBehind' /\ MartsValidated'
  BY <1>1 DEF DagInv, MartsBehind, MartsValidated, syncVars, countVars
<1>7. QED
  BY <1>4, <1>5, <1>6 DEF DagInv

LEMMA BuildMartInv ==
  ASSUME NEW m \in Mart, DagInv, BuildMart(m) PROVE DagInv'
<1>1. /\ UNCHANGED <<syncVars, seeded, staged, alerted, logged, countVars>>
      /\ task = "marts" /\ marts' = [marts EXCEPT ![m] = pg]
      /\ staged /\ logged = <<>> /\ (~stray => TableValid)
      /\ \A i \in RowsOf(pg) : iceberg[i].valid \/ i \in slipped
  BY DEF BuildMart, DagInv, Achieved
<1>2. \/ /\ task' = "alerts" /\ tries' = 1 /\ cur' = None /\ built' = {}
         /\ built \cup {m} = Mart
      \/ task' = "marts" /\ built' = built \cup {m} /\ UNCHANGED <<tries, cur>>
  BY <1>1 DEF BuildMart, GoTo
<1>3. Sync!TypeOK' /\ Sync!Row' = Sync!Row /\ TableValid' = TableValid
  BY <1>1, QuietSync DEF DagInv, TypeOK
<1>4. marts' \in [Mart -> Seq(SUBSET Sync!Row)] /\ marts \in [Mart -> Seq(SUBSET Sync!Row)]
  BY <1>1 DEF DagInv, TypeOK, Sync!TypeOK
<1>5. TypeOK'
  BY <1>1, <1>2, <1>3, <1>4, DagAssumption DEF DagInv, TypeOK, Task, countVars
<1>6. Watched'
  BY <1>1, <1>2 DEF DagInv, Watched
<1>7. marts'[m] = pg /\ \A n \in Mart : n # m => marts'[n] = marts[n]
  BY <1>1, <1>4
<1>8. Achieved'
  BY <1>1, <1>2, <1>3, <1>7 DEF DagInv, Achieved, syncVars, countVars
<1>9. MartsBehind'
  BY <1>1, <1>7 DEF DagInv, MartsBehind, syncVars
<1>10. MartsValidated'
  BY <1>1, <1>7 DEF DagInv, MartsValidated, syncVars, countVars
<1>11. QED
  BY <1>5, <1>6, <1>8, <1>9, <1>10 DEF DagInv

LEMMA CheckAlertsInv ==
  ASSUME DagInv, CheckAlerts PROVE DagInv'
<1>1. /\ UNCHANGED <<syncVars, seeded, staged, marts, logged, countVars>>
      /\ task = "alerts" /\ alerted' = marts["mart_bafin_report"]
      /\ task' = "metadata" /\ tries' = 1 /\ cur' = None /\ built' = {} /\ logged = <<>>
  BY DEF CheckAlerts, GoTo, DagInv, Achieved
<1>2. Sync!TypeOK' /\ Sync!Row' = Sync!Row /\ TableValid' = TableValid
  BY <1>1, QuietSync DEF DagInv, TypeOK
<1>3. "mart_bafin_report" \in Mart /\ alerted' \in Seq(SUBSET Sync!Row)
  BY <1>1 DEF DagInv, TypeOK, Mart
<1>4. TypeOK'
  BY <1>1, <1>2, <1>3, DagAssumption DEF DagInv, TypeOK, Task, countVars
<1>5. <<>> \in Seq({Count(pg)}')
  OBVIOUS
<1>6. Watched' /\ Achieved'
  BY <1>1, <1>3, <1>5 DEF DagInv, Watched, Achieved, syncVars, countVars
<1>7. MartsBehind' /\ MartsValidated'
  BY <1>1 DEF DagInv, MartsBehind, MartsValidated, syncVars, countVars
<1>8. QED
  BY <1>4, <1>6, <1>7 DEF DagInv

(* A failed try of the last task has logged the same count.                *)
LEMMA LogRunInv ==
  ASSUME DagInv, LogRun PROVE DagInv'
<1>1. /\ UNCHANGED <<syncVars, seeded, staged, marts, alerted, stray, slipped>>
      /\ task = "metadata" /\ logged' = Append(logged, Count(pg))
  BY DEF LogRun, countVars
<1>2. /\ task' \in {"metadata", "none"} /\ tries' \in 1..(Retries + 1)
      /\ cur' = None /\ built' = {} /\ failures' \in 0..MaxFailures
  <2>1. CASE Fail /\ TaskFailed
    BY <1>1, <2>1, TaskFailedTypes, FailTypes DEF DagInv
  <2>2. CASE GoTo("none") /\ UNCHANGED failures
    BY <2>2, DagAssumption DEF GoTo, DagInv, TypeOK
  <2>3. QED
    BY <2>1, <2>2 DEF LogRun
<1>3. Sync!TypeOK' /\ Sync!Row' = Sync!Row
  BY <1>1, QuietSync DEF DagInv, TypeOK
<1>4. TypeOK'
  <2>1. pg \in Seq(SUBSET (1..Len(iceberg))) /\ Len(iceberg) \in Nat /\ logged \in Seq(Nat)
    BY DEF DagInv, TypeOK, Sync!TypeOK, Sync!Row
  <2>2. Count(pg) \in Nat
    BY <2>1, CountIsNat
  <2> DEFINE count == Count(pg)
  <2> HIDE DEF count
  <2>3. count \in Nat /\ logged' = Append(logged, count)
    BY <1>1, <2>2 DEF count
  <2>4. logged' \in Seq(Nat)
    BY <2>1, <2>3
  <2>5. QED
    BY <1>1, <1>2, <1>3, <2>4 DEF DagInv, TypeOK, Task
<1>5. ~stray => logged' \in Seq({Count(pg)})
  BY <1>1 DEF DagInv, Achieved
<1>6. Count(pg)' = Count(pg)
  BY <1>1 DEF syncVars
<1>7. Watched' /\ Achieved'
  BY <1>1, <1>2, <1>5, <1>6 DEF DagInv, Watched, Achieved, syncVars
<1>8. MartsBehind' /\ MartsValidated'
  BY <1>1 DEF DagInv, MartsBehind, MartsValidated, syncVars
<1>9. QED
  BY <1>4, <1>7, <1>8 DEF DagInv

LEMMA InitInv ==
  ASSUME Init PROVE DagInv
<1>1. <<>> \in Seq(SUBSET Sync!Row)
  OBVIOUS
<1>2. Sync!TypeOK
  <2>1. iceberg \in Seq([time: 1..MaxTime, valid: BOOLEAN]) /\ Len(iceberg) <= MaxRows
    BY DagAssumption DEF Init, Sync!Init
  <2>2. pg \in Seq(SUBSET Sync!Row)
    BY <1>1 DEF Init, Sync!Init
  <2>3. /\ pc \in [Attempt -> {"off", "marked", "scanned"}]
        /\ mark \in [Attempt -> 0..MaxTime]
        /\ df \in [Attempt -> SUBSET Sync!Row]
    BY DagAssumption DEF Init, Sync!Init
  <2>4. QED
    BY <2>1, <2>2, <2>3 DEF Sync!TypeOK
<1>3. TypeOK
  <2>1. marts \in [Mart -> Seq(SUBSET Sync!Row)] /\ alerted \in Seq(SUBSET Sync!Row)
    BY <1>1 DEF Init
  <2>2. tries \in 1..(Retries + 1) /\ failures \in 0..MaxFailures
    BY DagAssumption DEF Init
  <2>3. /\ task \in Task \cup {"none"} /\ cur \in Attempt \cup {None} /\ built \subseteq Mart
        /\ seeded \in BOOLEAN /\ staged \in BOOLEAN /\ stray \in BOOLEAN
        /\ slipped \subseteq Sync!Row
    BY DEF Init
  <2>4. logged \in Seq(Nat)
    BY DEF Init
  <2>5. QED
    BY <1>2, <2>1, <2>2, <2>3, <2>4 DEF TypeOK
<1>4. Watched /\ Achieved
  BY DEF Init, Watched, Achieved
<1>5. MartsBehind /\ MartsValidated
  BY RowsOfEmpty DEF Init, MartsBehind, MartsValidated
<1>6. QED
  BY <1>3, <1>4, <1>5 DEF DagInv

LEMMA NextInv ==
  ASSUME DagInv, [Next]_vars PROVE DagInv'
<1>1. CASE UNCHANGED vars
  <2>1. UNCHANGED <<syncVars, taskVars, outVars, countVars>>
    BY <1>1 DEF vars
  <2>2. Sync!TypeOK' /\ Sync!Row' = Sync!Row /\ TableValid' = TableValid
    BY <2>1, QuietSync DEF DagInv, TypeOK
  <2>3. TypeOK'
    BY <2>1, <2>2 DEF DagInv, TypeOK, taskVars, outVars, countVars
  <2>4. Watched' /\ Achieved'
    BY <2>1, <2>2 DEF DagInv, Watched, Achieved, syncVars, taskVars, outVars, countVars
  <2>5. MartsBehind' /\ MartsValidated'
    BY <2>1 DEF DagInv, MartsBehind, MartsValidated, syncVars, outVars, countVars
  <2>6. QED
    BY <2>3, <2>4, <2>5 DEF DagInv
<1>2. CASE Next
  BY <1>2, ArriveInv, SeedInv, ScheduleRunInv, HealthInv, SyncStartInv, SyncStepInv,
     SyncFailsInv, TaskLostInv, ValidateInv, RunStagingInv, BuildMartInv, CheckAlertsInv,
     LogRunInv DEF Next, DagStep
<1>3. QED
  BY <1>1, <1>2

THEOREM Inductive == Spec => []DagInv
<1>1. Init => DagInv
  BY InitInv
<1>2. DagInv /\ [Next]_vars => DagInv'
  BY NextInv
<1>3. QED
  BY <1>1, <1>2, PTL DEF Spec

(* Every variable keeps its type, record_count among them.                 *)
THEOREM TypeCorrect == Spec => []TypeOK
<1>1. DagInv => TypeOK
  BY DEF DagInv
<1>2. QED
  BY <1>1, Inductive, PTL

(* Every row a mart shows was accepted by a validation, but for those a    *)
(* lost sync container loaded between a run's validation and its marts;    *)
(* loads by such containers at any other time are no exception.            *)
THEOREM MartsAlwaysValidated == Spec => []MartsValidated
<1>1. DagInv => MartsValidated
  BY DEF DagInv
<1>2. QED
  BY <1>1, Inductive, PTL

(* A run that gets as far as logging itself has seen one table throughout. *)
THEOREM RunReportsOneTable == Spec => []RunSeesOneTable
<1>1. DagInv => RunSeesOneTable
  <2>1. ASSUME DagInv, task = "metadata", ~stray
        PROVE  \A n \in DOMAIN logged : logged[n] = Count(pg)
    <3>1. logged \in Seq({Count(pg)})
      BY <2>1 DEF DagInv, Achieved
    <3>2. QED
      BY <3>1
  <2>2. QED
    BY <2>1 DEF DagInv, Achieved, RunSeesOneTable
<1>2. QED
  BY <1>1, Inductive, PTL

(* Steps that leave Postgres alone, and the one that does not.             *)
LEMMA TableSteps ==
  ASSUME Next
  PROVE  \/ pg' = pg
         \/ \E a \in Attempt : SyncStep(a) /\ Sync!Load(a) /\ ~ReplaceBlocked(a)
<1>1. CASE \E a \in Attempt : SyncStep(a)
  BY <1>1 DEF SyncStep, Sync!Scan
<1>2. CASE \E a \in Attempt : SyncStart(a) \/ SyncFails(a)
  BY <1>2 DEF SyncStart, SyncFails, Sync!ReadWatermark, Sync!Abort
<1>3. CASE \E t \in 1..MaxTime, ok \in Quality : Arrive(t, ok)
  BY <1>3 DEF Arrive, Sync!Arrive
<1>4. CASE \E m \in Mart : BuildMart(m)
  BY <1>4 DEF BuildMart, syncVars
<1>5. QED
  BY <1>1, <1>2, <1>3, <1>4 DEF Next, DagStep, Seed, ScheduleRun, HealthOk, HealthSkip,
     Validate, RunStaging, CheckAlerts, LogRun, LoseSight, ContainerFails, syncVars

(* Nothing but a stray load takes an incident out of the table.            *)
THEOREM RegisterAlwaysGrows == Spec => RegisterOnlyGrows
<1>1. DagInv /\ [Next]_vars => [~stray' => RowsOf(pg) \subseteq RowsOf(pg')]_vars
  <2> SUFFICES ASSUME DagInv, Next, ~stray' PROVE RowsOf(pg) \subseteq RowsOf(pg')
    OBVIOUS
  <2>1. CASE pg' = pg
    BY <2>1
  <2>2. CASE \E a \in Attempt : SyncStep(a) /\ Sync!Load(a) /\ ~ReplaceBlocked(a)
    <3>1. PICK a \in Attempt : SyncStep(a) /\ Sync!Load(a) /\ ~ReplaceBlocked(a)
      BY <2>2
    <3>2. a = cur /\ ~stray
      BY <3>1 DEF SyncStep, NoteStray, StrayLoad, Sync!Load
    <3>3. ~(mark[a] = 0 /\ pg # <<>>)
      BY <3>2, DagAssumption DEF DagInv, Watched
    <3>4. QED
      BY <3>1, <3>3, LoadGrows
  <2>3. QED
    BY <2>1, <2>2, TableSteps
<1>2. QED
  BY <1>1, Inductive, PTL DEF Spec, RegisterOnlyGrows

(* Steps that leave the marts alone, and the one that does not.            *)
LEMMA MartSteps ==
  ASSUME Next
  PROVE  marts' = marts \/ \E m \in Mart : BuildMart(m)
<1>1. CASE \E a \in Attempt : SyncStart(a) \/ SyncStep(a) \/ SyncFails(a)
  BY <1>1 DEF SyncStart, SyncStep, SyncFails, outVars
<1>2. CASE \E t \in 1..MaxTime, ok \in Quality : Arrive(t, ok)
  BY <1>2 DEF Arrive, outVars
<1>3. QED
  BY <1>1, <1>2 DEF Next, DagStep, Seed, ScheduleRun, HealthOk, HealthSkip, Validate,
     RunStaging, CheckAlerts, LogRun, LoseSight, ContainerFails, outVars

(* No rebuild drops an incident from a mart, stray loads or not.           *)
THEOREM MartsAlwaysGrow == Spec => MartsOnlyGrow
<1>1. DagInv /\ [Next]_vars
        => [\A m \in Mart : RowsOf(marts[m]) \subseteq RowsOf(marts'[m])]_vars
  <2> SUFFICES ASSUME DagInv, Next, NEW n \in Mart
               PROVE  RowsOf(marts[n]) \subseteq RowsOf(marts'[n])
    OBVIOUS
  <2>1. CASE marts' = marts
    BY <2>1
  <2>2. CASE \E m \in Mart : BuildMart(m)
    <3>1. PICK m \in Mart : BuildMart(m)
      BY <2>2
    <3>2. marts' = [marts EXCEPT ![m] = pg] /\ marts \in [Mart -> Seq(SUBSET Sync!Row)]
      BY <3>1 DEF BuildMart, DagInv, TypeOK
    <3>3. marts'[n] = pg \/ marts'[n] = marts[n]
      BY <3>2
    <3>4. QED
      BY <3>3 DEF DagInv, MartsBehind
  <2>3. QED
    BY <2>1, <2>2, MartSteps
<1>2. QED
  BY <1>1, Inductive, PTL DEF Spec, MartsOnlyGrow

(* An invalid row in the table, or a vendor list never loaded, freezes the *)
(* marts for good.                                                         *)
THEOREM MartsAreFrozen == Spec => MartsFrozen
<1> DEFINE Frozen == ~seeded \/ (~stray /\ \E i \in RowsOf(pg) : ~iceberg[i].valid)
<1>1. DagInv /\ [Next]_vars => [Frozen => marts' = marts]_vars
  <2> SUFFICES ASSUME DagInv, Next, Frozen PROVE marts' = marts
    OBVIOUS
  <2>1. ASSUME NEW m \in Mart, BuildMart(m) PROVE FALSE
    <3>1. task = "marts"
      BY <2>1 DEF BuildMart
    <3>2. seeded /\ (~stray => TableValid)
      BY <3>1 DEF DagInv, Achieved
    <3>3. QED
      BY <3>2 DEF TableValid
  <2>2. QED
    BY <2>1, MartSteps
<1>2. QED
  BY <1>1, Inductive, PTL DEF Spec, MartsFrozen
-----------------------------------------------------------------------------
(* The DAG implements the register.                                        *)
ArrivedRows == [i \in Sync!Row |-> iceberg[i].valid]
ShownRows   == [m \in Mart |-> RowsOf(marts[m])]

(* Most steps cannot be seen from the tables.                              *)
LEMMA UnseenStep ==
  ASSUME UNCHANGED <<iceberg, pg, marts, logged, stray>>
  PROVE  UNCHANGED Register!registerVars
<1>1. ArrivedRows' = ArrivedRows
  BY DEF ArrivedRows, Sync!Row
<1>2. UNCHANGED <<RowsOf(pg), ShownRows, Len(logged), stray>>
  BY DEF ShownRows
<1>3. QED
  BY <1>1, <1>2 DEF Register!registerVars, ArrivedRows, ShownRows

LEMMA InitRefines ==
  ASSUME Init PROVE Register!Init
<1>1. iceberg = <<>> /\ pg = <<>> /\ logged = <<>> /\ stray = FALSE
      /\ marts = [m \in Mart |-> <<>>]
  BY DEF Init, Sync!Init
<1>2. [i \in Sync!Row |-> iceberg[i].valid] = <<>>
  <2>1. Sync!Row = 1..0
    BY <1>1 DEF Sync!Row
  <2>2. QED
    BY <2>1
<1>3. RowsOf(pg) = {} /\ \A m \in Mart : RowsOf(marts[m]) = {}
  BY <1>1, RowsOfEmpty
<1>4. QED
  BY <1>1, <1>2, <1>3 DEF Register!Init

LEMMA AppendIs ==
  ASSUME NEW S, NEW s \in Seq(S), NEW x \in S
  PROVE  Append(s, x) = [i \in 1..(Len(s) + 1) |-> IF i = Len(s) + 1 THEN x ELSE s[i]]
<1> DEFINE t == Append(s, x)
<1>1. /\ t \in Seq(S) /\ Len(t) = Len(s) + 1 /\ Len(s) \in Nat
      /\ \A i \in 1..Len(s) : t[i] = s[i]
      /\ t[Len(s) + 1] = x
  OBVIOUS
<1> HIDE DEF t
<1>2. t \in [1..(Len(s) + 1) -> S]
  BY <1>1
<1>3. \A i \in 1..(Len(s) + 1) : t[i] = IF i = Len(s) + 1 THEN x ELSE s[i]
  BY <1>1
<1>4. t = [i \in 1..(Len(s) + 1) |-> IF i = Len(s) + 1 THEN x ELSE s[i]]
  BY <1>2, <1>3
<1>5. QED
  BY <1>4 DEF t

LEMMA ArriveRefines ==
  ASSUME NEW t \in 1..MaxTime, NEW ok \in Quality, DagInv, Arrive(t, ok)
  PROVE  Register!Arrive
<1> DEFINE before == [i \in Sync!Row |-> iceberg[i].valid]
           after  == [i \in Sync!Row' |-> iceberg'[i].valid]
<1>1. iceberg' = Append(iceberg, [time |-> t, valid |-> ok])
      /\ UNCHANGED <<pg, marts, logged, stray>>
  BY DEF Arrive, Sync!Arrive, outVars, countVars
<1>2. iceberg \in Seq([time: 1..MaxTime, valid: BOOLEAN]) /\ ok \in BOOLEAN
  BY DagAssumption DEF DagInv, TypeOK, Sync!TypeOK
<1>3. /\ Len(iceberg) \in Nat /\ Len(iceberg') = Len(iceberg) + 1
      /\ \A i \in 1..Len(iceberg) : iceberg'[i] = iceberg[i]
      /\ iceberg'[Len(iceberg) + 1] = [time |-> t, valid |-> ok]
  BY <1>1, <1>2
<1>4. after = Append(before, ok)
  <2>1. before \in Seq(BOOLEAN) /\ Len(before) = Len(iceberg)
    <3>1. ASSUME NEW i \in 1..Len(iceberg) PROVE iceberg[i].valid \in BOOLEAN
      <4> DEFINE Stored == [time: 1..MaxTime, valid: BOOLEAN]
      <4>1. iceberg \in Seq(Stored)
        BY <1>2
      <4> HIDE DEF Stored
      <4>2. iceberg[i] \in Stored
        BY <4>1
      <4>3. QED
        BY <4>2 DEF Stored
    <3>2. before \in [1..Len(iceberg) -> BOOLEAN]
      BY <3>1, Zenon DEF Sync!Row
    <3> HIDE DEF before
    <3>3. QED
      BY <1>3, <3>2
  <2>2. after = [i \in 1..(Len(iceberg) + 1) |->
                   IF i = Len(iceberg) + 1 THEN ok ELSE iceberg[i].valid]
    <3>1. Sync!Row' = 1..(Len(iceberg) + 1)
      BY <1>3 DEF Sync!Row
    <3>2. ASSUME NEW i \in 1..(Len(iceberg) + 1)
          PROVE  iceberg'[i].valid = IF i = Len(iceberg) + 1 THEN ok ELSE iceberg[i].valid
      BY <1>3
    <3>3. QED
      BY <3>1, <3>2, Zenon
  <2>3. \A i \in 1..Len(iceberg) : before[i] = iceberg[i].valid
    BY DEF Sync!Row
  <2> HIDE DEF before
  <2>4. Append(before, ok) = [i \in 1..(Len(iceberg) + 1) |->
                                IF i = Len(iceberg) + 1 THEN ok ELSE before[i]]
    BY <1>2, <2>1, AppendIs
  <2>5. QED
    <3> HIDE DEF after
    <3>1. \A i \in 1..(Len(iceberg) + 1) : i # Len(iceberg) + 1 => i \in 1..Len(iceberg)
      BY <1>3
    <3>2. QED
      BY <2>2, <2>3, <2>4, <3>1, Zenon
<1>5. UNCHANGED <<RowsOf(pg), [m \in Mart |-> RowsOf(marts[m])], Len(logged), stray>>
  BY <1>1
<1>6. QED
  BY <1>2, <1>4, <1>5 DEF Register!Arrive

(* A load by the watched container only adds, or disturbs what is disturbed*)
(* already; and no load takes from the table what a mart shows.            *)
LEMMA LoadRefines ==
  ASSUME NEW a \in Attempt, DagInv, SyncStep(a), Sync!Load(a), ~ReplaceBlocked(a)
  PROVE  Register!Copy \/ Register!Disturb
<1>1. UNCHANGED <<iceberg, marts, logged>> /\ stray' = (stray \/ a # cur)
  BY DEF SyncStep, NoteStray, StrayLoad, Sync!Load, outVars
<1>2. UNCHANGED <<ArrivedRows, ShownRows, Len(logged)>>
  BY <1>1 DEF ArrivedRows, ShownRows, Sync!Row
<1>3. RowsOf(pg') \subseteq DOMAIN ArrivedRows
  <2>1. pg' \in Seq(SUBSET Sync!Row)
    BY <1>1, LoadTypes DEF DagInv, TypeOK, Sync!TypeOK, Sync!Row
  <2>2. QED
    BY <2>1, RowsOfType DEF ArrivedRows
<1>4. CASE stray'
  <2>1. stray' = TRUE
    BY <1>1, <1>4 DEF DagInv, TypeOK
  <2>2. RowsOf(pg) \subseteq RowsOf(pg') \/ \A m \in Mart : ShownRows[m] = {}
    <3>1. CASE mark[a] = 0 /\ pg # <<>>
      BY <3>1, RowsOfEmpty DEF ReplaceBlocked, DagInv, MartsBehind, ShownRows
    <3>2. QED
      BY <3>1, LoadGrows
  <2>3. QED
    BY <1>2, <1>3, <2>1, <2>2 DEF Register!Disturb, ArrivedRows, ShownRows
<1>5. CASE ~stray'
  <2>1. ~stray /\ a = cur /\ stray' = stray
    BY <1>1, <1>5 DEF DagInv, TypeOK
  <2>2. ~(mark[a] = 0 /\ pg # <<>>)
    BY <2>1, DagAssumption DEF DagInv, Watched
  <2>3. RowsOf(pg) \subseteq RowsOf(pg')
    BY <2>2, LoadGrows
  <2>4. QED
    BY <1>2, <1>3, <2>1, <2>3 DEF Register!Copy, ArrivedRows, ShownRows
<1>6. QED
  BY <1>4, <1>5

LEMMA BuildMartRefines ==
  ASSUME NEW m \in Mart, DagInv, BuildMart(m) PROVE Register!Show(m)
<1>1. /\ UNCHANGED <<iceberg, pg, logged, stray>> /\ task = "marts"
      /\ marts' = [marts EXCEPT ![m] = pg]
  BY DEF BuildMart, syncVars, countVars
<1>2. UNCHANGED <<ArrivedRows, RowsOf(pg), Len(logged), stray>>
  BY <1>1 DEF ArrivedRows, Sync!Row
<1>3. stray \/ \A i \in RowsOf(pg) : ArrivedRows[i]
  <2>1. RowsOf(pg) \subseteq Sync!Row
    BY RowsOfType DEF DagInv, TypeOK, Sync!TypeOK
  <2>2. QED
    BY <1>1, <2>1 DEF DagInv, Achieved, TableValid, ArrivedRows
<1>4. ShownRows' = [ShownRows EXCEPT ![m] = RowsOf(pg)]
  <2>1. \A n \in Mart : marts'[n] = IF n = m THEN pg ELSE marts[n]
    BY <1>1 DEF DagInv, TypeOK
  <2>2. \A n \in Mart : ShownRows'[n] = IF n = m THEN RowsOf(pg) ELSE ShownRows[n]
    BY <2>1 DEF ShownRows
  <2>3. QED
    BY <2>2 DEF ShownRows
<1>5. QED
  BY <1>2, <1>3, <1>4 DEF Register!Show, ArrivedRows, ShownRows

LEMMA LogRunRefines ==
  ASSUME DagInv, LogRun PROVE Register!Report
<1> DEFINE count == Count(pg)
<1>1. /\ UNCHANGED <<iceberg, pg, marts, stray>> /\ task = "metadata"
      /\ logged' = Append(logged, count)
  BY DEF LogRun, syncVars
<1> HIDE DEF count
<1>2. UNCHANGED <<ArrivedRows, RowsOf(pg), ShownRows, stray>>
  BY <1>1 DEF ArrivedRows, ShownRows, Sync!Row
<1>3. stray \/ \A m \in Mart : ShownRows[m] = RowsOf(pg)
  BY <1>1 DEF DagInv, Achieved, ShownRows
<1>4. Len(logged') = Len(logged) + 1
  BY <1>1 DEF DagInv, TypeOK
<1>5. QED
  BY <1>2, <1>3, <1>4 DEF Register!Report, ArrivedRows, ShownRows

LEMMA ScheduleRunRefines ==
  ASSUME ScheduleRun PROVE Register!BeginRun
<1>1. UNCHANGED <<iceberg, pg, marts, stray>> /\ logged' = <<>>
  BY DEF ScheduleRun, syncVars, countVars
<1>2. UNCHANGED <<ArrivedRows, RowsOf(pg), ShownRows, stray>> /\ Len(logged') = 0
  BY <1>1 DEF ArrivedRows, ShownRows, Sync!Row
<1>3. QED
  BY <1>2 DEF Register!BeginRun, ArrivedRows, ShownRows

LEMMA StepRefines ==
  ASSUME DagInv, [Next]_vars PROVE [Register!Next]_(Register!registerVars)
<1>1. CASE UNCHANGED vars
  BY <1>1, UnseenStep DEF vars, syncVars, outVars, countVars
<1>2. CASE \E t \in 1..MaxTime, ok \in Quality : Arrive(t, ok)
  BY <1>2, ArriveRefines DEF Register!Next
<1>3. CASE \E a \in Attempt : SyncStep(a)
  <2>1. PICK a \in Attempt : SyncStep(a)
    BY <1>3
  <2>2. CASE Sync!Scan(a)
    <3>1. UNCHANGED <<iceberg, pg, marts, logged, stray>>
      BY <2>1, <2>2 DEF SyncStep, NoteStray, StrayLoad, Sync!Scan, outVars, DagInv, TypeOK
    <3>2. QED
      BY <3>1, UnseenStep
  <2>3. CASE ~ReplaceBlocked(a) /\ Sync!Load(a)
    BY <2>1, <2>3, LoadRefines DEF Register!Next
  <2>4. QED
    BY <2>1, <2>2, <2>3 DEF SyncStep
<1>4. CASE \E m \in Mart : BuildMart(m)
  BY <1>4, BuildMartRefines DEF Register!Next
<1>5. CASE LogRun
  BY <1>5, LogRunRefines DEF Register!Next
<1>6. CASE ScheduleRun
  BY <1>6, ScheduleRunRefines DEF Register!Next
<1>7. CASE \E a \in Attempt : SyncStart(a) \/ SyncFails(a)
  <2>1. UNCHANGED <<iceberg, pg, marts, logged, stray>>
    BY <1>7 DEF SyncStart, SyncFails, Sync!ReadWatermark, Sync!Abort, outVars, countVars
  <2>2. QED
    BY <2>1, UnseenStep
<1>8. CASE Seed \/ HealthOk \/ HealthSkip \/ Validate \/ RunStaging \/ CheckAlerts
           \/ LoseSight \/ ContainerFails
  <2>1. UNCHANGED <<iceberg, pg, marts, logged, stray>>
    BY <1>8 DEF Seed, HealthOk, HealthSkip, Validate, RunStaging, CheckAlerts, LoseSight,
       ContainerFails, syncVars, outVars, countVars
  <2>2. QED
    BY <2>1, UnseenStep
<1>9. QED
  BY <1>1, <1>2, <1>3, <1>4, <1>5, <1>6, <1>7, <1>8 DEF Next, DagStep

(* Whatever Airflow does to its containers, the tables behave as a register*)
(* that takes rows over, shows the whole of it and reports what it shows.  *)
THEOREM DagImplementsRegister == Spec => ImplementsRegister
<1>1. Init => Register!Init
  BY InitRefines
<1>2. DagInv /\ [Next]_vars => [Register!Next]_(Register!registerVars)
  BY StepRefines
<1>3. QED
  BY <1>1, <1>2, Inductive, PTL DEF Spec, ImplementsRegister, Register!Spec

-----------------------------------------------------------------------------
(* The sync inside the DAG is the sync on its own: whatever IcebergSync    *)
(* guarantees, it guarantees here, since tasks, retries and lost containers*)
(* only take its steps, or none.                                           *)
THEOREM SyncInsideIsSync == Spec => Sync!Spec
<1>1. Init => Sync!Init
  BY DEF Init
<1>2. [Next]_vars => [Sync!Next]_(Sync!syncVars)
  <2>1. ASSUME Next PROVE [Sync!Next]_(Sync!syncVars)
    <3>1. CASE \E t \in 1..MaxTime, ok \in Quality : Arrive(t, ok)
      BY <3>1 DEF Arrive, Sync!Next
    <3>2. CASE \E a \in Attempt : SyncStart(a) \/ SyncStep(a) \/ SyncFails(a)
      BY <3>2 DEF SyncStart, SyncStep, SyncFails, Sync!Next
    <3>3. QED
      BY <2>1, <3>1, <3>2 DEF Next, DagStep, Seed, ScheduleRun, HealthOk, HealthSkip, Validate,
         RunStaging, BuildMart, CheckAlerts, LogRun, LoseSight, ContainerFails, syncVars,
         Sync!syncVars
  <2>2. UNCHANGED vars => UNCHANGED Sync!syncVars
    BY DEF vars, syncVars, Sync!syncVars
  <2>3. QED
    BY <2>1, <2>2
<1>3. QED
  BY <1>1, <1>2, PTL DEF Spec, Sync!Spec

(* When Airflow never loses sight of a container, the one it watches is the*)
(* only one at work, and so nobody else ever writes to the table.          *)
Alone == ~stray /\ slipped = {} /\ \A a \in Attempt : pc[a] # "off" => a = cur

LEMMA AloneStep ==
  ASSUME ~Overlap, DagInv, Alone, [Next]_vars PROVE Alone'
<1> USE DagAssumption
<1>1. pc \in [Attempt -> {"off", "marked", "scanned"}]
  BY DEF DagInv, TypeOK, Sync!TypeOK
<1>2. CASE \E a \in Attempt : SyncStart(a)
  <2>1. PICK a \in Attempt : SyncStart(a)
    BY <1>2
  <2>2. /\ cur = None /\ cur' = a /\ stray' = stray /\ slipped' = slipped
        /\ pc' = [pc EXCEPT ![a] = "marked"]
    BY <2>1 DEF SyncStart, Sync!ReadWatermark, countVars
  <2>3. \A b \in Attempt : b # a => pc'[b] = "off"
    BY <1>1, <2>2 DEF Alone
  <2>4. QED
    BY <2>2, <2>3 DEF Alone
<1>3. CASE \E a \in Attempt : SyncStep(a)
  <2>1. PICK a \in Attempt : SyncStep(a)
    BY <1>3
  <2>2. pc[a] # "off"
    BY <2>1 DEF SyncStep, Sync!Scan, Sync!Load
  <2>3. a = cur /\ \A b \in Attempt : b # a => pc[b] = "off"
    BY <2>2 DEF Alone
  <2>4. \A b \in Attempt : b # a => pc'[b] = "off"
    BY <1>1, <2>1, <2>3 DEF SyncStep, Sync!Scan, Sync!Load
  <2>5. ~stray' /\ slipped' = {}
    BY <2>1, <2>3 DEF SyncStep, NoteStray, StrayLoad, Alone
  <2>6. pc'[a] # "off" => cur' = a
    BY <2>1, <2>3 DEF SyncStep, taskVars
  <2>7. QED
    BY <2>4, <2>5, <2>6 DEF Alone
<1>4. CASE \E a \in Attempt : SyncFails(a)
  <2>1. PICK a \in Attempt : SyncFails(a)
    BY <1>4
  <2>2. stray' = stray /\ slipped' = slipped /\ pc[a] # "off" /\ pc' = [pc EXCEPT ![a] = "off"]
    BY <2>1 DEF SyncFails, Sync!Abort
  <2>3. \A b \in Attempt : b # a => pc[b] = "off"
    BY <2>2 DEF Alone
  <2>4. \A b \in Attempt : pc'[b] = "off"
    BY <1>1, <2>2, <2>3
  <2>5. QED
    BY <2>2, <2>4 DEF Alone
<1>5. CASE \E t \in 1..MaxTime, ok \in Quality : Arrive(t, ok)
  BY <1>5 DEF Arrive, Sync!Arrive, taskVars, countVars, Alone
<1>6. CASE Seed \/ UNCHANGED vars
  BY <1>6 DEF Seed, vars, syncVars, taskVars, countVars, Alone
<1>7. CASE \/ ScheduleRun \/ HealthOk \/ HealthSkip \/ Validate \/ RunStaging \/ CheckAlerts
           \/ LogRun \/ ContainerFails \/ \E m \in Mart : BuildMart(m)
  <2>1. cur = None
    BY <1>7 DEF ScheduleRun, HealthOk, HealthSkip, Validate, RunStaging, CheckAlerts, LogRun,
       ContainerFails, BuildMart, DagInv, Watched
  <2>2. pc' = pc /\ stray' = stray /\ slipped' = slipped
    BY <1>7 DEF ScheduleRun, HealthOk, HealthSkip, Validate, RunStaging, CheckAlerts, LogRun,
       ContainerFails, BuildMart, syncVars, countVars
  <2>3. \A a \in Attempt : pc[a] = "off"
    BY <2>1 DEF Alone
  <2>4. QED
    BY <2>2, <2>3 DEF Alone
<1>8. QED
  BY <1>2, <1>3, <1>4, <1>5, <1>6, <1>7 DEF Next, DagStep, LoseSight

(* Without overlapping containers the marts hold validated rows only and   *)
(* the table only grows, under no further condition.                       *)
THEOREM WatchedRunsKeepFaith ==
  ASSUME ~Overlap
  PROVE  Spec => /\ [](\A m \in Mart : \A i \in RowsOf(marts[m]) : iceberg[i].valid)
                 /\ [][RowsOf(pg) \subseteq RowsOf(pg')]_vars
<1> DEFINE Valid == \A m \in Mart : \A i \in RowsOf(marts[m]) : iceberg[i].valid
<1>1. Init => Alone
  BY DEF Init, Sync!Init, Alone
<1>2. DagInv /\ Alone /\ [Next]_vars => Alone'
  BY AloneStep
<1>3. DagInv /\ Alone => Valid
  BY DEF DagInv, MartsValidated, Alone
<1>4. Alone' /\ [~stray' => RowsOf(pg) \subseteq RowsOf(pg')]_vars
        => [RowsOf(pg) \subseteq RowsOf(pg')]_vars
  BY DEF Alone
<1> HIDE DEF Valid
<1>5. Spec => []Alone
  BY <1>1, <1>2, Inductive, PTL DEF Spec
<1>6. Spec => []Valid
  BY <1>3, <1>5, Inductive, PTL
<1>7. Spec => [][RowsOf(pg) \subseteq RowsOf(pg')]_vars
  BY <1>4, <1>5, RegisterAlwaysGrows, PTL DEF RegisterOnlyGrows
<1>8. QED
  BY <1>6, <1>7, PTL DEF Valid
=============================================================================

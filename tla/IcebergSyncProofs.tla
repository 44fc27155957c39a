------------------------- MODULE IcebergSyncProofs -------------------------
(***************************************************************************)
(* As long as no two sync containers overlap, for any number of containers,*)
(* rows, event times and any disorder of arrival.                          *)
(***************************************************************************)
EXTENDS IcebergSync, TLAPS

(* The watermark of an open attempt is still the newest row of Postgres.   *)
MarkIsCurrent(a) ==
  \/ mark[a] = 0 /\ pg = <<>>
  \/ /\ pg # <<>>
     /\ \A j \in Copied : Time(j) <= mark[a]
     /\ \E i \in Copied : Time(i) = mark[a]

(* What an attempt is about to write is all that was newer at one moment.  *)
ScannedAt(a, n) == df[a] = {i \in 1..n : Time(i) > mark[a]}

(* The inductive invariant behind the two properties.                      *)
SyncInv ==
  /\ TypeOK
  /\ \A a, b \in Attempt : a # b => pc[a] = "off" \/ pc[b] = "off"
  /\ \A a \in Attempt : pc[a] # "off" => MarkIsCurrent(a)
  /\ \A a \in Attempt : pc[a] = "scanned" => \E n \in 0..Len(iceberg) : ScannedAt(a, n)
  /\ OnlyLateRowsSkipped
  /\ NoRowCopiedTwice

-----------------------------------------------------------------------------
(* What an append to Postgres adds.                                        *)
LEMMA AppendCopies ==
  ASSUME NEW S, NEW table \in Seq(S), NEW rows
  PROVE  UNION Range(Append(table, rows)) = (UNION Range(table)) \cup rows
<1> DEFINE t == Append(table, rows)
<1>1. Len(t) = Len(table) + 1 /\ DOMAIN t = 1..Len(t) /\ DOMAIN table = 1..Len(table)
  OBVIOUS
<1>2. \A i \in 1..Len(table) : t[i] = table[i]
  OBVIOUS
<1>3. t[Len(table) + 1] = rows /\ Len(table) \in Nat
  OBVIOUS
<1> HIDE DEF t
<1>4. Range(t) = Range(table) \cup {rows}
  BY <1>1, <1>2, <1>3 DEF Range
<1>5. QED
  BY <1>4 DEF t

(* Postgres holds rows that Iceberg has.                                   *)
LEMMA CopiedAreRows ==
  ASSUME TypeOK PROVE Copied \subseteq Row
<1>1. \A n \in DOMAIN pg : pg[n] \subseteq Row
  BY DEF TypeOK
<1>2. ASSUME NEW i \in Copied PROVE i \in Row
  <2>1. PICK n \in DOMAIN pg : i \in pg[n]
    BY DEF Copied, Range
  <2>2. QED
    BY <1>1, <2>1
<1>3. QED
  BY <1>2

(* Every row has an event time.                                            *)
LEMMA TimesAreBounded ==
  ASSUME TypeOK, NEW i \in Row PROVE Time(i) \in 1..MaxTime
<1> DEFINE R == [time: 1..MaxTime, valid: BOOLEAN]
<1>1. iceberg \in Seq(R) /\ i \in 1..Len(iceberg)
  BY DEF TypeOK, Row
<1>2. iceberg[i] \in R
  <2> HIDE DEF R
  <2>1. QED
    BY <1>1
<1>3. QED
  BY <1>2 DEF Time

(* Every step keeps the types, whether containers overlap or not.          *)
THEOREM TypeInvariant == Spec => []TypeOK
<1> USE SyncAssumption
<1>1. Init => TypeOK
  BY DEF Init, TypeOK, Row, SyncAssumption
<1>2. TypeOK /\ [Next]_syncVars => TypeOK'
  <2> SUFFICES ASSUME TypeOK, [Next]_syncVars PROVE TypeOK'
    OBVIOUS
  <2>1. ASSUME NEW t \in 1..MaxTime, NEW ok \in Quality, Arrive(t, ok) PROVE TypeOK'
    <3>1. iceberg' \in Seq([time: 1..MaxTime, valid: BOOLEAN]) /\ Len(iceberg') = Len(iceberg) + 1
      BY <2>1 DEF Arrive, TypeOK, SyncAssumption
    <3>2. Row \subseteq Row' /\ Len(iceberg') <= MaxRows
      BY <2>1, <3>1 DEF Arrive, TypeOK, Row, SyncAssumption
    <3>3. pg' \in Seq(SUBSET Row')
      BY <2>1, <3>2 DEF Arrive, TypeOK
    <3>4. df' \in [Attempt -> SUBSET Row']
      BY <2>1, <3>2 DEF Arrive, TypeOK
    <3>5. QED
      BY <2>1, <3>1, <3>2, <3>3, <3>4 DEF Arrive, TypeOK
  <2>2. ASSUME NEW a \in Attempt, ReadWatermark(a) PROVE TypeOK'
    <3>1. \A i \in Copied : Time(i) \in 0..MaxTime
      BY CopiedAreRows, TimesAreBounded DEF SyncAssumption
    <3>2. PICK v \in 0..MaxTime : mark' = [mark EXCEPT ![a] = v]
      BY <2>2, <3>1 DEF ReadWatermark, SyncAssumption
    <3>3. mark' \in [Attempt -> 0..MaxTime]
      BY <3>2 DEF TypeOK
    <3>4. QED
      BY <2>2, <3>3 DEF ReadWatermark, TypeOK, Row
  <2>3. ASSUME NEW a \in Attempt, Scan(a) PROVE TypeOK'
    BY <2>3 DEF Scan, TypeOK, Row, Newer
  <2>4. ASSUME NEW a \in Attempt, Load(a) PROVE TypeOK'
    <3>1. df[a] \in SUBSET Row
      BY DEF TypeOK
    <3>2. pg \in Seq(SUBSET Row) /\ <<df[a]>> \in Seq(SUBSET Row)
      BY <3>1 DEF TypeOK
    <3>3. Append(pg, df[a]) \in Seq(SUBSET Row)
      BY <3>1, <3>2
    <3>4. pg' \in Seq(SUBSET Row)
      BY <2>4, <3>2, <3>3 DEF Load
    <3>5. QED
      BY <2>4, <3>4 DEF Load, TypeOK, Row
  <2>5. ASSUME NEW a \in Attempt, Abort(a) PROVE TypeOK'
    BY <2>5 DEF Abort, TypeOK, Row
  <2>6. CASE UNCHANGED syncVars
    BY <2>6 DEF syncVars, TypeOK, Row
  <2>7. QED
    BY <2>1, <2>2, <2>3, <2>4, <2>5, <2>6 DEF Next
<1>3. QED
  BY <1>1, <1>2, PTL DEF Spec

-----------------------------------------------------------------------------
(* SyncInv is inductive when no two containers overlap.                    *)
THEOREM SyncInvariance ==
  ASSUME ~Overlap PROVE Spec => []SyncInv
<1> USE SyncAssumption
<1>1. Init => SyncInv
  <2> SUFFICES ASSUME Init PROVE SyncInv
    OBVIOUS
  <2>1. TypeOK
    BY DEF Init, TypeOK, Row, SyncAssumption
  <2>2. Row = {} /\ DOMAIN pg = {}
    BY DEF Init, Row
  <2>3. OnlyLateRowsSkipped /\ NoRowCopiedTwice
    BY <2>2 DEF OnlyLateRowsSkipped, NoRowCopiedTwice, Passed
  <2>4. QED
    BY <2>1, <2>3 DEF Init, SyncInv
<1>2. SyncInv /\ TypeOK' /\ [Next]_syncVars => SyncInv'
  <2> SUFFICES ASSUME SyncInv, TypeOK', [Next]_syncVars PROVE SyncInv'
    OBVIOUS
  <2>0. /\ TypeOK /\ OnlyLateRowsSkipped /\ NoRowCopiedTwice
        /\ Copied \subseteq Row /\ Len(iceberg) \in Nat
        /\ \A i \in Row : Time(i) \in 1..MaxTime
    BY CopiedAreRows, TimesAreBounded DEF SyncInv, TypeOK
  <2>1. ASSUME NEW t \in 1..MaxTime, NEW ok \in Quality, Arrive(t, ok) PROVE SyncInv'
    <3>1. /\ Len(iceberg') = Len(iceberg) + 1
          /\ \A i \in Row : iceberg'[i] = iceberg[i]
          /\ Row \subseteq Row' /\ Row' \ Row = {Len(iceberg) + 1}
          /\ pg' = pg /\ pc' = pc /\ mark' = mark /\ df' = df
      BY <2>0, <2>1 DEF Arrive, TypeOK, Row
    <3>2. Copied' = Copied /\ \A i \in Row : Time(i)' = Time(i)
      BY <3>1 DEF Copied, Time
    <3>3. ASSUME NEW a \in Attempt, pc'[a] # "off" PROVE MarkIsCurrent(a)'
      BY <2>0, <3>1, <3>2, <3>3 DEF SyncInv, MarkIsCurrent
    <3>4. ASSUME NEW a \in Attempt, pc'[a] = "scanned"
          PROVE  \E n \in 0..Len(iceberg') : ScannedAt(a, n)'
      <4>1. PICK n \in 0..Len(iceberg) : ScannedAt(a, n)
        BY <3>1, <3>4 DEF SyncInv
      <4>2. 1..n \subseteq Row
        BY <2>0 DEF Row
      <4>3. ScannedAt(a, n)'
        BY <3>1, <3>2, <4>1, <4>2 DEF ScannedAt
      <4>4. QED
        BY <2>0, <3>1, <4>3
    <3>5. OnlyLateRowsSkipped'
      <4> SUFFICES ASSUME NEW i \in Row', i \notin Copied', NEW j \in Copied', Time(i)' <= Time(j)'
                   PROVE  \E k \in 1..(i - 1) : Time(i)' <= Time(k)'
        BY DEF OnlyLateRowsSkipped, Passed
      <4>1. CASE i \in Row
        <5>1. PICK k \in 1..(i - 1) : Time(i) <= Time(k)
          BY <2>0, <3>2, <4>1 DEF OnlyLateRowsSkipped, Passed
        <5>2. QED
          BY <2>0, <3>2, <4>1, <5>1 DEF Row
      <4>2. CASE i \notin Row
        BY <2>0, <3>1, <3>2, <4>2 DEF Row
      <4>3. QED
        BY <4>1, <4>2
    <3>6. NoRowCopiedTwice'
      BY <2>0, <3>1 DEF NoRowCopiedTwice
    <3>7. QED
      BY <3>1, <3>3, <3>4, <3>5, <3>6 DEF SyncInv
  <2>2. ASSUME NEW a \in Attempt, ReadWatermark(a) PROVE SyncInv'
    <3>1. /\ iceberg' = iceberg /\ pg' = pg /\ df' = df
          /\ pc' = [pc EXCEPT ![a] = "marked"]
          /\ \A b \in Attempt : pc[b] = "off"
      BY <2>2 DEF ReadWatermark
    <3>2. Row' = Row /\ Copied' = Copied /\ \A i \in Row : Time(i)' = Time(i)
      BY <3>1 DEF Row, Copied, Time
    <3>3. \A b \in Attempt : b # a => pc'[b] = "off"
      BY <2>0, <3>1 DEF TypeOK
    <3>4. pc'[a] = "marked"
      BY <2>0, <3>1 DEF TypeOK
    <3>5. MarkIsCurrent(a)'
      <4>1. CASE pg = <<>> /\ mark' = [mark EXCEPT ![a] = 0]
        BY <2>0, <3>1, <4>1 DEF MarkIsCurrent, TypeOK
      <4>2. ASSUME NEW i \in Copied, \A j \in Copied : Time(j) <= Time(i),
                   mark' = [mark EXCEPT ![a] = Time(i)]
            PROVE  MarkIsCurrent(a)'
        <5>1. mark'[a] = Time(i)
          BY <2>0, <4>2 DEF TypeOK
        <5>2. pg # <<>>
          BY DEF Copied, Range
        <5>3. QED
          BY <2>0, <3>1, <3>2, <4>2, <5>1, <5>2 DEF MarkIsCurrent
      <4>3. QED
        BY <2>2, <4>1, <4>2 DEF ReadWatermark
    <3>6. OnlyLateRowsSkipped' /\ NoRowCopiedTwice'
      BY <2>0, <3>1, <3>2 DEF OnlyLateRowsSkipped, Passed, NoRowCopiedTwice, Row
    <3>7. QED
      BY <3>3, <3>4, <3>5, <3>6 DEF SyncInv
  <2>3. ASSUME NEW a \in Attempt, Scan(a) PROVE SyncInv'
    <3>1. /\ iceberg' = iceberg /\ pg' = pg /\ mark' = mark
          /\ pc[a] = "marked" /\ df'[a] = Newer(a)
      BY <2>0, <2>3 DEF Scan, TypeOK
    <3>2. Row' = Row /\ Copied' = Copied /\ \A i \in Row : Time(i)' = Time(i)
      BY <3>1 DEF Row, Copied, Time
    <3>3. \A b \in Attempt : b # a => pc'[b] = pc[b] /\ df'[b] = df[b]
      BY <2>0, <2>3 DEF Scan, TypeOK
    <3>4. \A b \in Attempt : b # a => pc[b] = "off"
      BY <3>1 DEF SyncInv
    <3>5. ScannedAt(a, Len(iceberg))'
      BY <3>1, <3>2 DEF ScannedAt, Newer, Row
    <3>6. MarkIsCurrent(a)'
      BY <2>0, <3>1, <3>2 DEF SyncInv, MarkIsCurrent
    <3>7. OnlyLateRowsSkipped' /\ NoRowCopiedTwice'
      <4>1. OnlyLateRowsSkipped'
        BY <2>0, <3>1, <3>2 DEF OnlyLateRowsSkipped, Passed, Row
      <4>2. NoRowCopiedTwice'
        BY <2>0, <3>1 DEF NoRowCopiedTwice
      <4>3. QED
        BY <4>1, <4>2
    <3>8. \E n \in 0..Len(iceberg') : ScannedAt(a, n)'
      BY <2>0, <3>1, <3>5
    <3>9. QED
      BY <3>3, <3>4, <3>6, <3>7, <3>8 DEF SyncInv
  <2>4. ASSUME NEW a \in Attempt, Load(a) PROVE SyncInv'
    <3>1. /\ iceberg' = iceberg /\ mark' = mark /\ pc[a] = "scanned"
          /\ pg' = IF mark[a] = 0 THEN <<df[a]>> ELSE Append(pg, df[a])
          /\ pc' = [pc EXCEPT ![a] = "off"]
      BY <2>4 DEF Load
    <3>2. Row' = Row /\ \A i \in Row : Time(i)' = Time(i)
      BY <3>1 DEF Row, Time
    <3>3. \A b \in Attempt : pc'[b] = "off"
      BY <2>0, <3>1 DEF SyncInv, TypeOK
    <3>4. MarkIsCurrent(a)
      BY <3>1 DEF SyncInv
    <3>5. pg \in Seq(SUBSET Row) /\ mark[a] \in Nat
      BY <2>0 DEF TypeOK, SyncAssumption
    <3>6. mark[a] = 0 <=> pg = <<>>
      BY <2>0, <3>4 DEF MarkIsCurrent
    <3>7. pg' = Append(pg, df[a])
      <4>1. CASE mark[a] = 0
        <5>1. pg = <<>>
          BY <3>6, <4>1
        <5>2. Append(pg, df[a]) = <<df[a]>>
          BY <5>1
        <5>3. QED
          BY <3>1, <4>1, <5>2
      <4>2. CASE mark[a] # 0
        BY <3>1, <4>2
      <4>3. QED
        BY <4>1, <4>2
    <3>8. Copied' = Copied \cup df[a]
      BY <3>5, <3>7, AppendCopies DEF Copied
    <3>9. PICK n \in 0..Len(iceberg) : ScannedAt(a, n)
      BY <3>1 DEF SyncInv
    <3>10. \A j \in Copied : Time(j) <= mark[a]
      BY <2>0, <3>4 DEF MarkIsCurrent, Copied, Range
    <3>11. OnlyLateRowsSkipped'
      <4> SUFFICES ASSUME NEW i \in Row, i \notin Copied, i \notin df[a],
                          NEW j \in Copied \cup df[a], Time(i) <= Time(j)
                   PROVE  \E k \in 1..(i - 1) : Time(i) <= Time(k)
        <5>1. df[a] \subseteq Row
          BY <2>0 DEF TypeOK
        <5>2. \A i \in Row : 1..(i - 1) \subseteq Row
          BY <2>0 DEF Row
        <5>3. QED
          BY <2>0, <3>2, <3>8, <5>1, <5>2 DEF OnlyLateRowsSkipped, Passed
      <4>1. CASE j \in Copied
        BY <2>0, <4>1 DEF OnlyLateRowsSkipped, Passed
      <4>2. CASE j \in df[a] /\ i \in 1..n
        <5>1. Time(i) <= mark[a] /\ mark[a] # 0
          BY <2>0, <3>5, <3>9, <4>2 DEF ScannedAt, SyncAssumption
        <5>2. PICK c \in Copied : Time(c) = mark[a]
          BY <3>4, <5>1 DEF MarkIsCurrent
        <5>3. QED
          BY <2>0, <5>1, <5>2 DEF OnlyLateRowsSkipped, Passed
      <4>3. CASE j \in df[a] /\ i \notin 1..n
        <5>1. j \in 1..n /\ n < i
          BY <2>0, <3>9, <4>3 DEF ScannedAt, Row
        <5>2. QED
          BY <2>0, <5>1 DEF Row
      <4>4. QED
        BY <4>1, <4>2, <4>3
    <3>12. NoRowCopiedTwice'
      <4>1. df[a] \cap Copied = {}
        <5> SUFFICES ASSUME NEW i \in df[a], i \in Copied PROVE FALSE
          OBVIOUS
        <5>1. Time(i) > mark[a] /\ Time(i) <= mark[a] /\ Time(i) \in Int
          BY <2>0, <3>9, <3>10 DEF ScannedAt, SyncAssumption
        <5>2. QED
          BY <3>5, <5>1
      <4>2. \A m \in DOMAIN pg : pg[m] \cap df[a] = {}
        BY <4>1 DEF Copied, Range
      <4>3. /\ DOMAIN pg = 1..Len(pg) /\ Len(pg) \in Nat /\ DOMAIN pg' = 1..(Len(pg) + 1)
            /\ \A m \in DOMAIN pg : pg'[m] = pg[m]
            /\ pg'[Len(pg) + 1] = df[a]
        BY <3>5, <3>7
      <4>4. QED
        BY <2>0, <4>2, <4>3 DEF NoRowCopiedTwice
    <3>13. QED
      BY <3>3, <3>11, <3>12 DEF SyncInv
  <2>5. ASSUME NEW a \in Attempt, Abort(a) PROVE SyncInv'
    <3>1. /\ iceberg' = iceberg /\ pg' = pg /\ mark' = mark /\ pc'[a] = "off"
          /\ \A b \in Attempt : b # a => pc'[b] = pc[b] /\ df'[b] = df[b]
      BY <2>0, <2>5 DEF Abort, TypeOK
    <3>2. Row' = Row /\ Copied' = Copied /\ \A i \in Row : Time(i)' = Time(i)
      BY <3>1 DEF Row, Copied, Time
    <3>3. \A b \in Attempt : pc'[b] = "off"
      BY <2>5, <3>1 DEF SyncInv, Abort
    <3>4. OnlyLateRowsSkipped' /\ NoRowCopiedTwice'
      BY <2>0, <3>1, <3>2 DEF OnlyLateRowsSkipped, Passed, NoRowCopiedTwice, Row
    <3>5. QED
      BY <3>3, <3>4 DEF SyncInv
  <2>6. CASE UNCHANGED syncVars
    BY <2>6 DEF syncVars, SyncInv, OnlyLateRowsSkipped, Passed, NoRowCopiedTwice, MarkIsCurrent,
                ScannedAt, Copied, Row, Time, Range
  <2>7. QED
    BY <2>1, <2>2, <2>3, <2>4, <2>5, <2>6 DEF Next
<1>3. QED
  BY <1>1, <1>2, TypeInvariant, PTL DEF Spec

(* No row is in Postgres twice, when no two containers overlap.            *)
THEOREM RowsCopiedOnce ==
  ASSUME ~Overlap PROVE Spec => []NoRowCopiedTwice
<1>1. SyncInv => NoRowCopiedTwice
  BY DEF SyncInv
<1>2. QED
  BY <1>1, SyncInvariance, PTL

(* Only rows that reached Iceberg late are ever skipped, likewise.         *)
THEOREM SkippedRowsAreLate ==
  ASSUME ~Overlap PROVE Spec => []OnlyLateRowsSkipped
<1>1. SyncInv => OnlyLateRowsSkipped
  BY DEF SyncInv
<1>2. QED
  BY <1>1, SyncInvariance, PTL

-----------------------------------------------------------------------------
(* Event times that increase from row to row.                              *)
InOrder == \A i, j \in Row : i < j => Time(i) < Time(j)

LEMMA OrderInvariance ==
  ASSUME Disorder = 0 PROVE Spec => []InOrder
<1>1. Init => InOrder
  BY DEF Init, InOrder, Row
<1>2. TypeOK /\ InOrder /\ [Next]_syncVars => InOrder'
  <2> SUFFICES ASSUME TypeOK, InOrder, [Next]_syncVars PROVE InOrder'
    OBVIOUS
  <2>1. ASSUME NEW t \in 1..MaxTime, NEW ok \in Quality, Arrive(t, ok) PROVE InOrder'
    <3>1. /\ Len(iceberg) \in Nat /\ Len(iceberg') = Len(iceberg) + 1
          /\ \A i \in Row : iceberg'[i] = iceberg[i]
          /\ iceberg'[Len(iceberg) + 1].time = t
      BY <2>1 DEF Arrive, TypeOK, Row
    <3>2. ASSUME NEW i \in Row PROVE Time(i) < t /\ iceberg'[i].time = Time(i)
      <4>1. Time(i) < t + 0 /\ t \in Int
        BY <2>1, SyncAssumption DEF Arrive
      <4>2. Time(i) \in 1..MaxTime
        BY TimesAreBounded
      <4>3. QED
        BY <3>1, <4>1, <4>2, SyncAssumption DEF Time
    <3>3. Row' = Row \cup {Len(iceberg) + 1}
      BY <3>1 DEF Row
    <3>4. \A i \in Row : i < Len(iceberg) + 1
      BY <3>1 DEF Row
    <3>5. ASSUME NEW i \in Row', NEW j \in Row', i < j
          PROVE  iceberg'[i].time < iceberg'[j].time
      <4>1. i \in Row
        BY <3>1, <3>3, <3>4, <3>5 DEF Row
      <4>2. CASE j \in Row
        BY <3>2, <3>5, <4>1, <4>2 DEF InOrder
      <4>3. CASE j = Len(iceberg) + 1
        BY <3>1, <3>2, <4>1, <4>3
      <4>4. QED
        BY <3>3, <4>2, <4>3
    <3>6. QED
      BY <3>5 DEF InOrder, Time
  <2>2. CASE UNCHANGED iceberg
    BY <2>2 DEF InOrder, Row, Time
  <2>3. QED
    BY <2>1, <2>2 DEF Next, ReadWatermark, Scan, Load, Abort, syncVars
<1>3. QED
  BY <1>1, <1>2, TypeInvariant, PTL DEF Spec

(* What the comment over the sync says holds if rows reach Iceberg in the  *)
(* order of their event times: then, however often the sync is aborted and *)
(* retried, the watermark passes no row that is not in Postgres.           *)
THEOREM InOrderNothingSlips ==
  ASSUME ~Overlap, Disorder = 0 PROVE Spec => []NoRowSlipsThrough
<1>1. TypeOK /\ InOrder /\ OnlyLateRowsSkipped => NoRowSlipsThrough
  <2> SUFFICES ASSUME TypeOK, InOrder, OnlyLateRowsSkipped, NEW i \in Passed \ Copied
               PROVE  FALSE
    BY DEF NoRowSlipsThrough
  <2>1. PICK j \in 1..(i - 1) : Time(i) <= Time(j)
    BY DEF OnlyLateRowsSkipped
  <2>2. i \in Row /\ j \in Row /\ j < i
    BY <2>1 DEF Passed, Row, TypeOK
  <2>3. Time(j) < Time(i)
    BY <2>2 DEF InOrder
  <2>4. QED
    BY <2>1, <2>2, <2>3, TimesAreBounded
<1>2. QED
  BY <1>1, OrderInvariance, SkippedRowsAreLate, TypeInvariant, PTL
=============================================================================

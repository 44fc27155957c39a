---------------------------- MODULE IcebergSync ----------------------------
(***************************************************************************)
(* sync_iceberg_to_postgres of orchestration/pipeline_steps.py: copies the *)
(* rows of the Iceberg table that are newer than the newest row already in *)
(* Postgres.  It reads that watermark in one transaction, scans Iceberg,   *)
(* and writes in another, while the streaming job keeps appending and,     *)
(* when Airflow has lost sight of a container and retries the task, while  *)
(* an earlier attempt is still running.                                    *)
(*                                                                         *)
(* A row is named by its place in the order Iceberg received it.           *)
(***************************************************************************)
EXTENDS Naturals, Sequences, FiniteSets, Functions

CONSTANTS
  Attempt,      (* Containers that may run the sync.                       *)
  Overlap,      (* TRUE if two of them may run at once.                    *)
  Disorder,     (* How far a row's event time may lag behind an earlier    *)
                (* arrival's; 0 when event times strictly increase.        *)
  Quality,      (* Subset of BOOLEAN: whether rows pass validation.        *)
  MaxTime,      (* Bound: event times.                                     *)
  MaxRows       (* Bound: rows in Iceberg.                                 *)

ASSUME SyncAssumption ==
  /\ Overlap \in BOOLEAN
  /\ Disorder \in Nat
  /\ Quality \subseteq BOOLEAN
  /\ MaxTime \in Nat
  /\ MaxRows \in Nat

VARIABLES
  iceberg,      (* dora.incidents_classified in Iceberg, in arrival order: *)
                (* the event's timestamp and whether the row is valid.     *)
  pg,           (* dora.incidents_classified in Postgres: the rows each    *)
                (* to_sql wrote; <<>> while there is no such table.        *)
  pc,           (* Progress of each container.                             *)
  mark,         (* The watermark it read; 0 is None, no table.             *)
  df            (* The data frame it is about to write.                    *)

syncVars == <<iceberg, pg, pc, mark, df>>

Row == 1..Len(iceberg)
Copied == UNION Range(pg)
Time(i) == iceberg[i].time

Init ==
  /\ iceberg = <<>>
  /\ pg = <<>>
  /\ pc = [a \in Attempt |-> "off"]
  /\ mark = [a \in Attempt |-> 0]
  /\ df = [a \in Attempt |-> {}]

(* The streaming job appends a row.  Batches take what is available from   *)
(* partitions that lag by different amounts, and a replayed batch appends  *)
(* old rows again, so event times need not increase.                       *)
Arrive(t, ok) ==
  /\ Len(iceberg) < MaxRows
  /\ \A i \in Row : Time(i) < t + Disorder
  /\ iceberg' = Append(iceberg, [time |-> t, valid |-> ok])
  /\ UNCHANGED <<pg, pc, mark, df>>

(* The first transaction: does the table exist, and max(timestamp) if so.  *)
ReadWatermark(a) ==
  /\ pc[a] = "off"
  /\ Overlap \/ \A b \in Attempt : pc[b] = "off"
  /\ \/ pg = <<>> /\ mark' = [mark EXCEPT ![a] = 0]
     \/ \E i \in Copied :
          /\ \A j \in Copied : Time(j) <= Time(i)
          /\ mark' = [mark EXCEPT ![a] = Time(i)]
  /\ pc' = [pc EXCEPT ![a] = "marked"]
  /\ UNCHANGED <<iceberg, pg, df>>

(* Mutant of Newer: rows as new as the watermark are taken again.          *)
NewerOrEqual(a) == {i \in Row : Time(i) >= mark[a]}

(* The filter: rows with a timestamp after the watermark.                  *)
Newer(a) == {i \in Row : Time(i) > mark[a]}

(* table.scan().to_pandas() and the filter; with nothing newer, return 0.  *)
Scan(a) ==
  /\ pc[a] = "marked"
  /\ df' = [df EXCEPT ![a] = Newer(a)]
  /\ pc' = [pc EXCEPT ![a] = IF Newer(a) = {} THEN "off" ELSE "scanned"]
  /\ UNCHANGED <<iceberg, pg, mark>>

(* Mutants of Load: chunks are committed one by one, and a chunk may be the*)
(* last; the table is replaced every time.                                 *)
LoadChunk(a) ==
  /\ pc[a] = "scanned"
  /\ \E chunk \in SUBSET df[a] \ {{}} :
       pg' = IF mark[a] = 0 THEN <<chunk>> ELSE Append(pg, chunk)
  /\ df' = [df EXCEPT ![a] = {}]
  /\ pc' = [pc EXCEPT ![a] = "off"]
  /\ UNCHANGED <<iceberg, mark>>

LoadReplaces(a) ==
  /\ pc[a] = "scanned"
  /\ pg' = <<df[a]>>
  /\ df' = [df EXCEPT ![a] = {}]
  /\ pc' = [pc EXCEPT ![a] = "off"]
  /\ UNCHANGED <<iceberg, mark>>

(* to_sql: append, or replace when no table was seen.                      *)
Load(a) ==
  /\ pc[a] = "scanned"
  /\ pg' = IF mark[a] = 0 THEN <<df[a]>> ELSE Append(pg, df[a])
  /\ df' = [df EXCEPT ![a] = {}]
  /\ pc' = [pc EXCEPT ![a] = "off"]
  /\ UNCHANGED <<iceberg, mark>>

(* The container dies, or Iceberg or Postgres is out of reach: nothing of  *)
(* the open transaction remains.                                           *)
Abort(a) ==
  /\ pc[a] # "off"
  /\ pc' = [pc EXCEPT ![a] = "off"]
  /\ df' = [df EXCEPT ![a] = {}]
  /\ UNCHANGED <<iceberg, pg, mark>>

Next ==
  \/ \E t \in 1..MaxTime, ok \in Quality : Arrive(t, ok)
  \/ \E a \in Attempt : ReadWatermark(a) \/ Scan(a) \/ Load(a) \/ Abort(a)

Spec == Init /\ [][Next]_syncVars

-----------------------------------------------------------------------------
TypeOK ==
  /\ iceberg \in Seq([time: 1..MaxTime, valid: BOOLEAN])
  /\ Len(iceberg) <= MaxRows
  /\ pg \in Seq(SUBSET Row)
  /\ pc \in [Attempt -> {"off", "marked", "scanned"}]
  /\ mark \in [Attempt -> 0..MaxTime]
  /\ df \in [Attempt -> SUBSET Row]

(* Rows that the next sync will not ask for: not newer than the watermark. *)
Passed == {i \in Row : \E j \in Copied : Time(i) <= Time(j)}

(* As long as no two attempts overlap, the watermark runs past a row that  *)
(* is not in Postgres only if the row reached Iceberg after a row at least *)
(* as new: rows that arrive in event order are never skipped, however the  *)
(* scans, the job's appends and aborted attempts interleave.               *)
OnlyLateRowsSkipped ==
  \A i \in Passed \ Copied : \E j \in 1..(i - 1) : Time(i) <= Time(j)

(* No row is in Postgres twice, as long as no two attempts overlap: a      *)
(* retry after an aborted attempt starts from what was really written.     *)
NoRowCopiedTwice ==
  \A m, n \in DOMAIN pg : m # n => pg[m] \cap pg[n] = {}

-----------------------------------------------------------------------------
(* sync_iceberg_to_postgres: "Copy new Iceberg incidents_classified rows", *)
(* README: no incident slips through.  A row the watermark has passed must *)
(* be in Postgres, since no later sync will copy it.                       *)
NoRowSlipsThrough == Passed \subseteq Copied
=============================================================================

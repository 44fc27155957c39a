---------------------------- MODULE PipelineDag ----------------------------
(***************************************************************************)
(* orchestration/dags/dora_pipeline_dag.py and the commands its tasks run: *)
(* every run is a chain of seven tasks, each a container that may fail and *)
(* is tried twice.  A run pings Kafka, syncs Iceberg into Postgres         *)
(* (IcebergSync), validates the Postgres table, rebuilds the staging views *)
(* and the marts from it, reads the alerts, and logs the run.              *)
(*                                                                         *)
(* Airflow starts one run at a time (max_active_runs=1).  When it loses    *)
(* sight of a container (a dead worker, a missed heartbeat) it retries the *)
(* task although the container is still at work: that is Overlap, and is   *)
(* modelled for the sync.  dbt seed, which loads the vendor list one view  *)
(* reads, is not part of any task.                                         *)
(***************************************************************************)
EXTENDS Naturals, Sequences, FiniteSets, Functions, FiniteSetsExt

CONSTANTS
  Attempt, Overlap, Disorder, Quality, MaxTime, MaxRows,   (* IcebergSync. *)
  Retries,      (* default_args["retries"].                                *)
  None,         (* No container.                                           *)
  MaxFailures   (* Bound: failed containers.                               *)

ASSUME DagAssumption ==
  /\ Quality \subseteq BOOLEAN
  /\ MaxTime \in Nat
  /\ MaxRows \in Nat
  /\ Retries \in Nat
  /\ None \notin Attempt
  /\ MaxFailures \in Nat

VARIABLES
  iceberg, pg, pc, mark, df,   (* IcebergSync.                             *)
  task,         (* The task of the active run; "none" between runs.        *)
  tries,        (* Which try of that task this is.                         *)
  cur,          (* The container Airflow watches, while task is the sync.  *)
  seeded,       (* dbt seed was run: the relation ict_vendors exists.      *)
  staged,       (* The view stg_incidents exists.                          *)
  built,        (* Marts this try of run_dbt_marts has built.              *)
  marts,        (* Each mart: the Postgres rows it was computed from.      *)
  alerted,      (* The rows behind the alerts this run logged.             *)
  logged,       (* record_count of each pipeline_runs row of this run.     *)
  stray,        (* History: a container Airflow had lost sight of wrote to *)
                (* the table.                                              *)
  slipped,      (* History: the rows it wrote after the run's validation   *)
                (* and before the run's marts were built.                  *)
  failures      (* Counts towards MaxFailures.                             *)

syncVars == <<iceberg, pg, pc, mark, df>>
taskVars == <<task, tries, cur, built>>
outVars  == <<seeded, staged, marts, alerted, logged>>
countVars == <<stray, slipped, failures>>
vars == <<syncVars, taskVars, outVars, countVars>>

Sync == INSTANCE IcebergSync

Task == {"health", "sync", "validate", "staging", "marts", "alerts", "metadata"}
Mart == {"mart_bafin_report", "mart_vendor_risk", "mart_sla_breach"}

RowsOf(table) == UNION Range(table)
Count(table)  == MapThenSumSet(LAMBDA n : Cardinality(table[n]), DOMAIN table)

-----------------------------------------------------------------------------
Init ==
  /\ Sync!Init
  /\ task = "none"
  /\ tries = 1
  /\ cur = None
  /\ seeded = FALSE
  /\ staged = FALSE
  /\ built = {}
  /\ marts = [m \in Mart |-> <<>>]
  /\ alerted = <<>>
  /\ logged = <<>>
  /\ stray = FALSE
  /\ slipped = {}
  /\ failures = 0

(* The task succeeded: the next one starts.                                *)
GoTo(next) == task' = next /\ tries' = 1 /\ cur' = None /\ built' = {}

(* The task failed: retried while tries are left, then the run has failed. *)
TaskFailed ==
  /\ cur' = None /\ built' = {}
  /\ IF tries <= Retries THEN tries' = tries + 1 /\ task' = task
                         ELSE tries' = 1 /\ task' = "none"

Fail == failures < MaxFailures /\ failures' = failures + 1

(* The streaming job, on its own schedule.                                 *)
Arrive(t, ok) == Sync!Arrive(t, ok) /\ UNCHANGED <<taskVars, outVars, countVars>>

(* dbt seed, which no task runs: somebody does it by hand, at any time.    *)
Seed ==
  /\ ~seeded
  /\ seeded' = TRUE
  /\ UNCHANGED <<syncVars, taskVars, staged, marts, alerted, logged, countVars>>

(* Every fifteen minutes, unless a run is still active.                    *)
ScheduleRun ==
  /\ task = "none"
  /\ GoTo("health")
  /\ alerted' = <<>> /\ logged' = <<>>
  /\ UNCHANGED <<syncVars, seeded, staged, marts, countVars>>

(* check_kafka_health: exit code 99 skips the task and all downstream.     *)
HealthOk == task = "health" /\ GoTo("sync") /\ UNCHANGED <<syncVars, outVars, countVars>>

HealthSkip == task = "health" /\ GoTo("none") /\ UNCHANGED <<syncVars, outVars, countVars>>

(* Containers are alike: the next one is any that is off.                  *)
FreeContainer ==
  CHOOSE a \in Attempt : pc[a] = "off" \/ \A b \in Attempt : pc[b] # "off"

(* sync_iceberg_to_postgres, in container a.                               *)
SyncStart(a) ==
  /\ task = "sync" /\ cur = None
  /\ a = FreeContainer
  /\ Sync!ReadWatermark(a)
  /\ cur' = a
  /\ UNCHANGED <<task, tries, built, outVars, countVars>>

(* Mutant of ReplaceBlocked: the table is dropped with its views (CASCADE).*)
NeverBlocked(a) == FALSE

(* DROP TABLE, which replacing needs, fails while a view reads the table.  *)
ReplaceBlocked(a) == mark[a] = 0 /\ pg # <<>> /\ staged

(* History: a load by a container Airflow does not watch, and what of it   *)
(* the marts of the run will show without validation.                      *)
StrayLoad(a) == a # cur /\ pc[a] = "scanned"

NoteStray(a) ==
  /\ stray' = (stray \/ StrayLoad(a))
  /\ slipped' = IF StrayLoad(a) /\ task \in {"staging", "marts"} THEN slipped \cup df[a] ELSE slipped

(* Mutant of SyncStep: a sync that copies nothing ends the run.            *)
SyncStepOrSkip(a) ==
  /\ Sync!Scan(a) \/ (~ReplaceBlocked(a) /\ Sync!Load(a))
  /\ IF a = cur /\ pc'[a] = "off"
     THEN GoTo(IF pc[a] = "marked" THEN "none" ELSE "validate") ELSE UNCHANGED taskVars
  /\ NoteStray(a)
  /\ UNCHANGED <<outVars, failures>>

SyncStep(a) ==
  /\ Sync!Scan(a) \/ (~ReplaceBlocked(a) /\ Sync!Load(a))
  /\ IF a = cur /\ pc'[a] = "off" THEN GoTo("validate") ELSE UNCHANGED taskVars
  /\ NoteStray(a)
  /\ UNCHANGED <<outVars, failures>>

SyncFails(a) ==
  /\ IF pc[a] = "scanned" /\ ReplaceBlocked(a) THEN UNCHANGED failures ELSE Fail
  /\ Sync!Abort(a)
  /\ IF a = cur THEN TaskFailed ELSE UNCHANGED taskVars
  /\ UNCHANGED <<outVars, stray, slipped>>

(* Airflow takes the container it watches for dead; it is not.             *)
LoseSight ==
  /\ Overlap
  /\ cur # None
  /\ Fail
  /\ TaskFailed
  /\ UNCHANGED <<syncVars, outVars, stray, slipped>>

(* Mutants of TableValid: only emptiness is checked; only the newest load. *)
TableNotEmpty == pg # <<>>

LastLoadValid == pg # <<>> /\ \A i \in pg[Len(pg)] : iceberg[i].valid

(* run_validation reads the whole table: it fails when there is none, when *)
(* it is empty, and when any row ever copied breaks an expectation.        *)
TableValid == pg # <<>> /\ \A i \in RowsOf(pg) : iceberg[i].valid

(* Mutant of Validate: the verdict is logged and the exit code is 0.       *)
ValidateAndGoOn ==
  /\ task = "validate"
  /\ GoTo("staging")
  /\ UNCHANGED <<syncVars, outVars, countVars>>

(* run_great_expectations: the exit code says whether the table is valid.  *)
Validate ==
  /\ task = "validate"
  /\ IF TableValid THEN GoTo("staging") ELSE TaskFailed
  /\ UNCHANGED <<syncVars, outVars, countVars>>

(* dbt run stg_incidents stg_ict_vendors: views, so nothing is copied.  The*)
(* second fails without the seed, when the first is already there.         *)
RunStaging ==
  /\ task = "staging"
  /\ staged' = TRUE
  /\ IF seeded THEN GoTo("marts") ELSE TaskFailed
  /\ UNCHANGED <<syncVars, seeded, marts, alerted, logged, countVars>>

(* Mutant of BuildMart: the task ends with its first mart.                 *)
BuildOneMart(m) ==
  /\ task = "marts" /\ m \notin built
  /\ marts' = [marts EXCEPT ![m] = pg]
  /\ GoTo("alerts")
  /\ UNCHANGED <<syncVars, seeded, staged, alerted, logged, countVars>>

(* dbt run ... mart_bafin_report mart_vendor_risk mart_sla_breach: tables, *)
(* replaced one by one by what the views show at that moment.              *)
BuildMart(m) ==
  /\ task = "marts" /\ m \notin built
  /\ marts' = [marts EXCEPT ![m] = pg]
  /\ IF built \cup {m} = Mart THEN GoTo("alerts")
                              ELSE built' = built \cup {m} /\ UNCHANGED <<task, tries, cur>>
  /\ UNCHANGED <<syncVars, seeded, staged, alerted, logged, countVars>>

(* check_compliance_alerts reads mart_bafin_report.                        *)
CheckAlerts ==
  /\ task = "alerts"
  /\ alerted' = marts["mart_bafin_report"]
  /\ GoTo("metadata")
  /\ UNCHANGED <<syncVars, seeded, staged, marts, logged, countVars>>

(* update_pipeline_metadata inserts a row with count( * ) of the table; the *)
(* insert is not undone when the container's exit code is lost.            *)
LogRun ==
  /\ task = "metadata"
  /\ logged' = Append(logged, Count(pg))
  /\ \/ GoTo("none") /\ UNCHANGED failures
     \/ Fail /\ TaskFailed
  /\ UNCHANGED <<syncVars, seeded, staged, marts, alerted, stray, slipped>>

(* Any other task's container fails before its work, or between two marts. *)
ContainerFails ==
  /\ task # "none" /\ cur = None
  /\ Fail
  /\ TaskFailed
  /\ UNCHANGED <<syncVars, outVars, stray, slipped>>

-----------------------------------------------------------------------------
DagStep ==
  \/ ScheduleRun
  \/ \E a \in Attempt : SyncStart(a) \/ SyncStep(a)
  \/ \E a \in Attempt : pc[a] = "scanned" /\ ReplaceBlocked(a) /\ SyncFails(a)
  \/ Validate \/ RunStaging
  \/ \E m \in Mart : BuildMart(m)
  \/ CheckAlerts \/ LogRun

Next ==
  \/ \E t \in 1..MaxTime, ok \in Quality : Arrive(t, ok)
  \/ Seed
  \/ HealthOk \/ HealthSkip
  \/ DagStep
  \/ \E a \in Attempt : SyncFails(a)
  \/ LoseSight \/ ContainerFails

Spec == Init /\ [][Next]_vars

(* The scheduler keeps running and started containers finish; Kafka answers*)
(* the ping again and again, though it may be down for any number of runs. *)
FairSpec == Spec /\ WF_vars(DagStep) /\ SF_vars(HealthOk)

-----------------------------------------------------------------------------
TypeOK ==
  /\ Sync!TypeOK
  /\ task \in Task \cup {"none"}
  /\ tries \in 1..(Retries + 1)
  /\ cur \in Attempt \cup {None}
  /\ seeded \in BOOLEAN
  /\ staged \in BOOLEAN
  /\ built \subseteq Mart
  /\ marts \in [Mart -> Seq(SUBSET Sync!Row)]
  /\ alerted \in Seq(SUBSET Sync!Row)
  /\ logged \in Seq(Nat)
  /\ stray \in BOOLEAN
  /\ slipped \subseteq Sync!Row
  /\ failures \in 0..MaxFailures

(* No mart holds a row that no validation accepted, though marts are built *)
(* from live views two tasks after the validation, and row arrivals,       *)
(* retries and lost sync containers go on in between; except for the rows  *)
(* such a container loaded just then, between the validation of a run and  *)
(* its marts.  What it loads at any other time is validated first.         *)
MartsValidated ==
  \A m \in Mart : \A i \in RowsOf(marts[m]) : iceberg[i].valid \/ i \in slipped

(* What a run reports, it reports of one state of the table: when it logs  *)
(* itself the three marts agree with each other, with the alerts, with the *)
(* table and with every record_count of the run, also after retries.       *)
RunSeesOneTable ==
  task = "metadata" /\ ~stray =>
    /\ \A m \in Mart : marts[m] = pg
    /\ alerted = pg
    /\ \A n \in DOMAIN logged : logged[n] = Count(pg)

(* An incident that is in the table stays there: no retry, replace or lost *)
(* container takes it out again, but for a stray load.                     *)
RegisterOnlyGrows ==
  [][~stray' => RowsOf(pg) \subseteq RowsOf(pg')]_vars

(* What even a stray load cannot do: once a mart shows an incident no      *)
(* rebuild drops it, since the view a mart was built from keeps a late     *)
(* container from replacing the table.                                     *)
MartsOnlyGrow ==
  [][\A m \in Mart : RowsOf(marts[m]) \subseteq RowsOf(marts'[m])]_vars

(* What stops every later run before its marts: one copied row that breaks *)
(* an expectation, which nothing removes, and a vendor list nobody loaded, *)
(* which no task loads.                                                    *)
MartsFrozen ==
  [][~seeded \/ (~stray /\ \E i \in RowsOf(pg) : ~iceberg[i].valid) => marts' = marts]_vars

(* Every row that arrives in Iceberg newer than all rows before it is in   *)
(* all three marts in the end, through aborted syncs, failed tasks, lost   *)
(* containers and skipped runs, unless a row arrives that no validation    *)
(* will accept, a stray load interferes or the vendor list is never loaded.*)
MartsCatchUp ==
  \A i \in 1..MaxRows :
    (Len(iceberg) >= i /\ \A j \in 1..(i - 1) : iceberg[j].time < iceberg[i].time)
      ~> \/ \A m \in Mart : i \in RowsOf(marts[m])
         \/ \E j \in Sync!Row : ~iceberg[j].valid
         \/ stray \/ ~seeded

(* The DAG seen from its tables.                                           *)
Register == INSTANCE IncidentRegister WITH
  arrived   <- [i \in Sync!Row |-> iceberg[i].valid],
  table     <- RowsOf(pg),
  shown     <- [m \in Mart |-> RowsOf(marts[m])],
  reports   <- Len(logged),
  disturbed <- stray

(* Retries, lost containers, half-built marts and failed runs included, the*)
(* DAG is a register: rows are taken over and stay, marts show the whole of*)
(* a validated table, a run reports when all marts show it; and what a lost*)
(* container may do to the table, it may not do to the marts.              *)
ImplementsRegister == Register!Spec
=============================================================================

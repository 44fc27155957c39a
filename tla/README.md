# Verification of the DORA incident pipeline

TLA+ models of the pipeline in `src/`, TLC configurations that check them on
small instances, and TLAPS proofs that hold for every instance.  Paths below are
relative to the repository; `PROJECT.json` maps every definition to the lines it
models.

1. The system and its hard behaviours
2. The modules and how they correspond to the code
3. The runs: what each shows, its bounds, the fairness it assumes
4. Where code and documentation disagree
5. What is proved
6. What is not modelled
7. The plan
8. Running it

## 1. The system

An incident travels through two halves that share nothing but tables.

```
 incident_generator --> Kafka dora.incidents.{minor,major,critical}
                            |
                            v            every micro-batch
                      streaming_job --> Iceberg incidents_classified --.
                         |    '-------> Iceberg audit_log              |
                         '------------> Kafka dora.incidents.enriched  |
                                                                       |
   Airflow DAG, every 15 minutes                                       |
     1 check_kafka_health                                              |
     2 sync_iceberg_to_postgres  <-------------------------------------'
     3 run_great_expectations      reads Postgres incidents_classified
     4 run_dbt_staging             views stg_incidents, stg_ict_vendors
     5 run_dbt_marts               view int_dora_classified; tables mart_bafin_report,
                                   mart_vendor_risk, mart_sla_breach
     6 check_compliance_alerts     reads mart_bafin_report
     7 update_pipeline_metadata    inserts into pipeline_runs
                            '--> Superset reads the marts
```

| Component | State it keeps | Operations | What makes it correct |
|---|---|---|---|
| Simulator `ingestion/simulator/incident_generator.py` | the producer's queue | draw, produce, delivery report, Ctrl-C with a last flush | an event meant for a tier is one the classifier puts there |
| Schema `ingestion/simulator/schema.py` | none | validate, serialise, parse | what does not validate is skipped, not fatal; what validates should pass the quality suite too |
| Classifier `processing/dora_classifier.py` | the thresholds | classify, classify_batch, get_classification_reason | severity is monotone in the impact, the recorded reason names the same tier, a producer cannot preset it |
| Streaming job `processing/streaming_job.py` | Spark's checkpoint (offset log, commit log), the producer's queue, two tables, one topic | plan, collect, two appends, produce, flush, commit, restart, stop | nothing committed is missing from a table; nothing downstream lacks its audit row; duplicates come from failures alone |
| Sync `pipeline_steps.py:100` | Postgres `incidents_classified` (its newest timestamp is the watermark) | read watermark, scan, load | every row is copied, once |
| DAG `orchestration/dags/dora_pipeline_dag.py` | active task, its try | schedule, seven tasks, retry, skip, fail | marts hold validated rows only; one run reports one state of the table; data gets through in the end |
| Validation `transform/great_expectations/run_validation.py` and its suite | none | validate the whole table | lets no bad row into the marts; accepts what the classifier produces |
| SLA view and marts `int_dora_classified`, `mart_bafin_report`, `mart_sla_breach` | the two tables | rebuild | a late incident is a breach, for good; report and breach list agree; an open incident is flagged |
| Vendor models `stg_ict_vendors`, `mart_vendor_risk`; `processing/enrichment.py` | one table | rebuild, enrich | a provider's tier never falls, replayed rows change nobody's exposure or tier, the tier is the one the enriched incidents give |
| Bootstrap `topics_setup.py`, `iceberg_tables.py`, `s3_config.py` | topics, catalog, bucket | list or look up, create | idempotent, also when interrupted or run again; who ends well leaves everything |
| Superset bootstrap `dashboard/superset_config.py` | a connection, datasets, charts, a dashboard | find by name, post, lay out | nothing is doubled; a completed run has built the dashboard |
| Containers and SQL init `docker-compose.yml`, `docker/` | none | none | deployment, not modelled |

How they interact: the streaming job and the DAG run on their own schedules;
the sync reads Iceberg while the job appends to it.  Inside the DAG the tasks are
containers started one after the other; all they share is Postgres.  librdkafka
delivers from a thread of its own while a batch runs; the stop signal interrupts
the main thread at any point of a batch.  The bootstrap scripts are started by hand
or by whoever needs the stack (the streaming job calls `create_all_tables` at every
start), so runs of them meet each other.  The Superset script needs the marts the DAG
builds.  Everything on the DAG's side reads the seed `ict_vendors`, which `dbt seed` has
to load and which no task and no step of the README runs.

The hard behaviours, listed line by line under `hazards` in `PROJECT.json`:

- a batch has three effects (append, append, produce) and no transaction around
  them; Spark commits only after all three, so a failure anywhere replays all;
- the producer's queue is bounded, the produce loop never polls, and `flush` gives
  up after ten seconds without anyone looking at its result;
- Spark's checkpoint lies in `/tmp`; a job that has lost it starts at "latest";
- the sync's watermark is the newest event time, rows arrive in another order, and
  watermark, scan and load are three separate reads and writes;
- Airflow retries tasks, sometimes while the first container is still working;
- the marts are rebuilt one by one, from live views, at different times of the
  clock their verdicts depend on;
- rounding (SQL `round(x, 2)`) in front of comparisons, NaN, NULL;
- the schema admits any float as impact, the quality suite does not: a row that was
  classified, stored and copied can then fail every validation;
- the bootstrap scripts look for an object in one call and create it in another, die
  in between, leave requests on their way, and need what another script makes;
- the Superset script finds objects by name on the first page of 100 of a list, under
  names Superset does not keep unique, and links a chart only when it creates it.

## 2. The modules

| Module | Models | Remarks |
|---|---|---|
| `StreamingJob` | the streaming job with Spark, Iceberg and librdkafka as it uses them | core; `MCStreamingJob` adds the symmetry |
| `AtLeastOnceFeed` | the abstract promise: publish, store, acknowledge | `StreamingJob` implements it |
| `DoraRules` | rules, severity, deadline, reason | operators; used by the next two |
| `QualitySuite` | the stored row, the expectations on its values | operators; extends `DoraRules` |
| `DoraClassifier` | the classification loop over a batch | extends `QualitySuite`: composes classifier and suite; `MCDoraClassifier`: events at every threshold |
| `IncidentGenerator` | the simulator and its queue | extends `DoraRules`: composes simulator and classifier |
| `IcebergSync` | the sync step by step, many containers | `MCIcebergSync` |
| `PipelineDag` | the DAG; instantiates `IcebergSync` for task 2 | `MCPipelineDag` |
| `IncidentRegister` | the abstract promise: rows are taken over, shown, reported | `PipelineDag` implements it |
| `ComplianceMarts` | SLA view, BaFin report, SLA mart | extended by the next |
| `VendorRisk` | the vendor seed, its two readers, `mart_vendor_risk` | `MCComplianceMarts` checks both |
| `Bootstrap` | the topic, bucket and table scripts, many runs of each | `MCBootstrap` |
| `Provision` | the abstract promise: wanted objects appear and stay | `Bootstrap` implements it |
| `SupersetBootstrap` | the dashboard script, Superset as it uses it, and other users | `MCSupersetBootstrap` |
| `*Proofs` | theorems about `StreamingJob`, `DoraClassifier`, `IncidentGenerator`, `IcebergSync`, `PipelineDag`, `ComplianceMarts` with `VendorRisk`, `Bootstrap`, `SupersetBootstrap` | |

Definitions whose comment begins "Mutant of" are variants of the next definition
with a plausible bug.  No specification uses them; each shows that some property
would notice the bug.

### StreamingJob

`log` is the source; `planned` and `committed` are the newest entries of Spark's
offset and commit logs, `start` the offsets a job without checkpoint began at
("latest", `streaming_job.py:373`).  `classified` and `audit` are the appended data
files.  `todo` is what the produce loop has still to queue, `queue` the slots taken
in librdkafka, `inflight` those of its messages the broker has not acknowledged,
`enriched` what it accepted.

`pc` follows the code: `planned` (the batch is in the offset log), `built` (collected,
parsed, classified), `classified` (first append done), `audited` (second append done,
produce loop), `flushed`, then `Commit` after `process_batch` returned.  A poison record
is skipped by `BatchRows`, as in the `except` of the loop.  An append of no rows
writes no file.  `Crash` may come at any phase and stands for kills and for any
exception of a batch, which ends the query; what the process held is gone, the
tables and the checkpoint stay.  `QueueFull` is the `BufferError` of `produce`.
`Signal` enters the handler; `GracefulExit` is `query.stop()` returning with its
batch finished, cancelled, or finished without the commit, then the flush that may
time out.  `Deliver` and `Expire` are librdkafka's thread, enabled in any phase.

`LoseCheckpoint` takes the directory in `/tmp` away while the job is down, and `FirstStart` then
begins at "latest" once more.  `forgotten` is a history variable: what lost checkpoints
had as committed.

Row contents (hash, lineage fields, timestamps) are abstracted to the record's
position: the properties speak of which incident has a row, not of what is in it.

### DoraRules, QualitySuite, DoraClassifier, IncidentGenerator

One operator per method of the classifier, with percentages in hundredths and
the float NaN, which the schema lets through: its two metrics are plain floats
without bounds, and `json.loads` accepts NaN.  `GetClassificationReason` is the second chain of rules, written out
again as in the code.  `Thresholds` is a parameter, as is the dataclass.
`QualitySuite` has the columns of the stored row that the suite of Great Expectations
looks into and one operator per expectation on their values; NaN is a missing
value to pandas, which these expectations skip.
The simulator's nine recipes are record sets (`Draw`); `round(uniform(lo, hi), 2)` is
any sampled value of the closed interval.

### IcebergSync and PipelineDag

Iceberg is a sequence in arrival order; `Disorder` says how far event times may lag
behind earlier arrivals.  A sync container reads the watermark (transaction one),
scans and filters (`timestamp > watermark`), and loads (transaction two): append, or
replace when the first transaction saw no table.  `Abort` may come at any point.
`Overlap` allows several containers at once.

`PipelineDag` runs that sync as its second task.  Every task may fail and is tried
`Retries + 1` times.  Exit code 99 of the health check skips the rest.
`LoseSight` is Airflow giving up a container that is still working.  `ReplaceBlocked` is
Postgres refusing to drop a table that a view reads, which is what keeps a late
container from replacing the table once dbt has run.  A mart is the sequence of
loads it was computed from.  `seeded` says that somebody has run `dbt seed`: without
it `run_dbt_staging` creates `stg_incidents`, fails on `stg_ict_vendors`, and so fails every
run.  `stray` is a history variable: a container Airflow had lost sight of has written to
the table.  `slipped` is another: the rows it wrote after the run's validation and before its
marts were built.  Properties that such a write can break say so.

`IncidentRegister` is what remains when Airflow, containers, watermarks and views are taken away:
rows arrive, the table takes rows over and keeps them, a mart shows the whole of a valid
table, a run reports once all marts show the table of that moment.  `Disturb` is a writer nobody
watches; it may set the table back, but only until a mart shows something.  In the refinement a load
is `Copy` or `Disturb`, `BuildMart` is `Show`, `ScheduleRun` is `BeginRun`, `LogRun` is `Report`, and all
other steps of the DAG cannot be seen.

### ComplianceMarts and VendorRisk

Seconds, hundredths of hours, hundredths of percents; `round` is half up on
non-negative values, as `numeric` rounds in Postgres.  Each mart is rebuilt by an
action of its own at whatever `now` is, which covers a failed `dbt run` between two
marts and a retry.  `seen` is a history variable: how old `mart_bafin_report` is.
Rows only ever get appended, because the sync never updates one.

`VendorRisk` adds the third mart over the same rows, with its whole line: the count of the last
90 days and the average impact, which are over rows, the distinct institutions and the tier.
The vendor list has two readers.  dbt trims the seed's names (`StgIctVendors`) and joins them
to the provider's name as the incident has it (`Joined`).  `enrichment.py` trims both
(`EnrichEvent`), and reads the file once per process (`LoadVendorReference`, `StartProcess`): what
it found is kept, and a file that was not there (`Deploy`) is an empty list.  `Trimmed` maps a
name to the name without blanks around; that trimmed vendor names are a key is tested in
`staging/schema.yml:84-88` and assumed.  Of the vendor's attributes only `dora_designated_critical`
is kept: nothing decides by the others.  `told` is a history variable: the distinct rows the
mart was computed from.

### Bootstrap and Provision

One process per run of a script; `at` is the object its loop has reached (0 is the bucket
or the namespace).  `ListTopics` reads the topics once and requests all it did not see,
the broker answers each request when it likes, `AwaitTopics` waits for all of them.
A request that a dead process left behind (`orphans`) is still answered.  `HeadObject`,
`CreateBucket`, `PutFolder` and `LoadTable`, `CreateTable` are the two calls of each look-then-create.
A bucket or table that was made in between is refused and the script raises, as
neither error is caught; a namespace or topic that is there is fine.  A table's metadata goes
to the bucket, so `CreateTable` needs it.  `Fault` is a crash or any other failed call.
`excused` is a history variable: it records the three circumstances under which a run may fail.

### SupersetBootstrap

`Plan` is the order of the `_create` calls.  `Look` is `_find_id`: an object of the name on
the first page of the list, which is any page when the list is longer than one,
as Superset orders it by its own rules.  `Make` is the post, refused as Superset
refuses it: a dataset whose table is missing, a name that must be unique, a reference to what
is gone.  `PutLayout` replaces the layout of the dashboard and links nothing.  Other
users delete our objects, add objects to the lists or take one of our names.
`spoiled` is a history variable with what a run cannot cope with: another run at
work (`race`), a list longer than its page (`page`), a deleted object that others still
refer to or that is deleted during a run (`deleted`), a `namesake`.

## 3. The runs

| Run | Shows | Bounds |
|---|---|---|
| `Streaming` | invariants, action properties and the refinement of the job | 2 partitions of 2 records, queue of 2, 2 failures; 1.1 million states up to symmetry |
| `StreamingLiveness` | every published record is committed in the end, unless the checkpoint is lost first | 1 partition of 3 records, queue of 3, 2 failures |
| `StreamingOneRowPerIncident` | violated: a crash leaves two rows | 1 partition, 1 failure |
| `StreamingAllEventsEnriched` | violated: an expired message is never produced again | 1 partition, 1 failure |
| `ClassifierDefaults` | rule chains agree, severity is monotone, presets are ignored, the suite rejects nothing but impact out of range | every pair of events at and below each threshold, NaN, out-of-range and prefilled ones |
| `Generator` | every drawn event stays in the tier of its topic | both ends of every range |
| `SyncRetried` | only late rows are skipped, none is copied twice | 4 rows, 4 event times, disorder 2, retries |
| `SyncLateRow` | violated: a late row is never copied | 3 rows |
| `DagRuns` | safety and liveness of the whole DAG, lost containers and seed included; `IncidentRegister` is implemented | 3 rows valid or not, 2 event times, disorder 1, 2 containers, 2 failures, 1 retry |
| `Marts` | verdicts exact but for rounding, breaches for good, open incidents flagged; report and breach list never contradict, alerts are not missed; vendor tiers, replays, and tiers against what enrichment shows | by `about`: 2 rows of every kind at six moments; up to 22 rows around 95 % and 80 %; 6 rows of 8 providers over 5 institutions, now and a quarter later; 2 rows of every provider with processes that read the vendor list or missed it |
| `Bootstrap` | finished runs have left everything, only excused runs fail, `Provision` is implemented, failures end | 2 topics, 1 folder, 2 tables; 1 topic run, 2 bucket runs, 2 table runs, 2 at once, 1 fault |
| `Superset` | nothing is doubled, a completed run has built the dashboard, a rerun changes nothing, a run completes | 1 mart, 2 charts, 2 runs, pages of 2, 2 troubles |

`Streaming` also has the inductive invariant `IInv`, which contains `TypeOK`, among its invariants.  `TypeOK` is also
among the invariants of `Superset`; that of the other modules is proved and not checked.

Why the bounds are enough.  *Streaming*: a batch can take several records from
several partitions, hold poison, be larger than the queue (4 records, 2 slots),
fail twice at any step and be followed by another batch; a third failure or
record repeats a situation two already reach.  *Classifier*: properties compare two
incidents and each rule compares one field with one number, so both sides of every
number and pairs are all there is.  *Sync*: a late row needs three rows (one copied,
one late, one in time); the fourth lets a load and an append interleave with it.
*DAG*: two failures are enough to exhaust a task's tries, which fails a run, to fail a
task, retry it, and fail another, or to lose two containers; three rows are one copied,
one loaded by a lost container, one in time; runs are unbounded.  *Marts*: 19 of 20 and
18 of 19 rows in time lie on the two sides of 95 %, 4 of 5 on 80 %; a tier depends on two and five
institutions; the vendors and the providers are those of the seed and of the
simulator that a rule tells apart, with and without blanks around the name.  *Bootstrap*: a race takes two runs, a table that a run has
passed and one that it has not take two tables; a second fault only repeats the first, since
a run starts from nothing.  *Superset*: a page holds the charts of one bootstrap and no
more, so that one object of other users makes the list outgrow it; two runs race or take over from
each other; what the script does per mart it does for each alone.

`MCComplianceMarts` keeps the questions apart: a behaviour is about single rows, rates,
vendors or the readers of the vendor list (`about`), with the loads, moments and marts that matter to it.  `MCSupersetBootstrap`
ends a behaviour once a list has outgrown its page, and counts what a run cannot cope
with twice towards `MaxTrouble`, so that two runs in a row meet clean and spoiled states alike.

`CHECK_DEADLOCK FALSE` is set where the bounded model comes to rest: all records
published and no failure left (streaming, sync), all incidents classified, the
simulator stopped, the last moment of the clock, a list of Superset's that outgrew its page.  The DAG
and the bootstrap scripts can always be started again and are checked for deadlock.

Fairness.  `StreamingJob`: weak fairness of starting (an operator or `restart` policy
starts the job again), of the batch thread, of the produce loop and of the exit after
a signal.  The broker gets none, since every flush ends by its timeout.  Nothing
requires failures to stop except the bound on their number.  The queue in
`StreamingLiveness` holds the largest batch: with a smaller one a batch that outgrows it
never commits, which is `OversizedNeverCommits`.  `PipelineDag`: weak
fairness of the scheduler and of started containers, strong fairness of a Kafka ping that
succeeds (Kafka may be down for any number of runs, but not for ever).
`dbt seed` gets none: nothing in the repository runs it, and `MartsCatchUp` says so.
`ComplianceMarts`: time passes and the SLA mart goes on being rebuilt.
`Bootstrap`: weak fairness of the broker and of running processes; strong fairness of
starting again a run that has not ended well, since an operator or the streaming job
needs the stack but may find the bound on running processes used up any
number of times.  `SupersetBootstrap`: the DAG builds the marts in the end, requests
are answered, and the script is started again when no run is at work.

The properties, by the question they answer:

- *May a restart skip something?* `CommittedIsStored`, `EventuallyCommitted`,
  `OnlyLateRowsSkipped`, `MartsCatchUp`, `DoneMeansReady`, `DoneMeansBuilt`.
- *May something be there twice, and how often?* `DuplicatesBounded`, `NeverReappended`,
  `ReplayedAsPlanned`, `NoRowCopiedTwice`, `ReplaysDoNotCount`, `NoDuplicates`, `RerunChangesNothing`.
- *May a reader see what it should not?* `EnrichedIsAudited`, `MartsValidated`,
  `RunSeesOneTable`, `NotBothWithinAndBreached`.
- *May something be taken back?* `RegisterOnlyGrows`, `MartsOnlyGrow`, `BreachIsForGood`, `TierNeverFalls`.
- *Do two computations of the same thing agree?* `ReasonNamesSeverity`, `ClassifierAgrees`,
  `BreachesAlerted`, `VerdictExact`, `TierAsEnriched`, `OnlyImpactIsRejected`.
- *May it fail, and does it get there?* `OnlyExcusedRunsFail`, `Settles`, `EventuallyDone`,
  `OpenIncidentsFlagged`.
- *Does the detailed model keep the abstract promise?* `ImplementsFeed`, `ImplementsProvision`,
  `ImplementsRegister`.
- *What does the design cost?* `OversizedNeverCommits` (a batch larger than the producer's queue can
  never be processed) and `MartsFrozen` (one invalid row, once copied, stops the marts for good,
  and so does a seed that nobody loaded) describe what the code does, not what one would wish.

## 4. Where code and documentation disagree

With a run and a finding:

- `OneRowPerIncident`: `int_dora_classified.sql:1` says one row per incident.  A failure
  after the append and before the commit appends the incidents again and nothing
  removes them; the duplicate is counted in every mart.  In `mart_vendor_risk` that touches the
  count and the average, not the exposure and the tier (`ReplaysDoNotCount`).
- `AllEventsEnriched`: `README.md:351` says all events are on the enriched topic.  The
  result of `flush` is ignored and no delivery callback is set, so a message that
  expires after a timed-out flush is gone although its batch is committed.
- `NoRowSlipsThrough`: `README.md:25` says no incident slips through.  A row that
  reaches Iceberg after a row at least as new has been copied is never copied.

Met while modelling, without a run of their own:

- `streaming_job.py:405-409` says a stop lets the batch's offsets commit and loses no
  produced message.  The handler's flush may time out like the one in the batch, and
  the interrupted query may skip the commit (`GracefulExit`).
- After the loss of `/tmp/checkpoints` (`streaming_job.py:57`) everything published and not yet committed is skipped
  without a word, because of `startingOffsets` "latest" (line 373): `EventuallyCommitted` is violated without its
  disjunct `~begun`.  What was committed is neither lost nor appended again (`NeverReappended`).
- `pipeline_steps.py:103-104` says only rows newer than the current maximum are
  appended.  The watermark may be older than another container's load.
- A lost container's load may land between the validation and the marts of the
  retried run, and the marts show rows no validation saw: `MartsValidated` is violated
  without its exception `slipped`, which is those rows and no others.
- `dbt_project.yml:33` speaks of reference data loaded with `dbt seed`, but no task, script or
  step of the README runs it.  On a fresh database every run fails in `run_dbt_staging` until
  somebody does (`MartsFrozen`).
- `schema.py:37` comments the share of clients with 0.0 to 100.0, which nothing enforces.  A row
  outside is classified and stored, and then fails every validation (`OnlyImpactIsRejected`,
  `MartsFrozen`).
- `README.md:253` calls the bucket and table scripts idempotent and safe to run multiple times, as does
  `iceberg_tables.py:254`.  That holds for one run after the other.  Of two at once one can
  be refused what the other made since its look-up, an error it does not catch
  (`OnlyExcusedRunsFail` is violated without the excuse of a rival).
- `superset_config.py:328` says a rerun reuses any objects that already exist.  After the dashboard or a
  dataset was deleted by hand, the reused charts keep their old references: the rerun completes and the
  charts are not linked to the new dashboard (`DoneMeansBuilt` is violated without its
  condition on `spoiled`).  With more than 100 charts or datasets existing objects are not even seen.
- `marts/schema.yml:96` says contained after the deadline is a breach.  Hours are rounded
  to two decimals first, so up to 17 seconds late is not; `VerdictExact` states
  the exact limit.
- `staging/schema.yml:54` says a provider references a name of `stg_ict_vendors`; the test of it (lines
  55-61) is not run by the DAG, and a name with blanks around it does not.  The join (`int_dora_classified.sql:72`)
  then gives the incident a line of its own in the vendor register, without the vendor's designation,
  where `enrichment.py:90` finds the vendor: `TierAsEnriched` is violated without its condition on such names.
- `enrichment.py:41` says a missing seed makes enrichment degrade gracefully.  The empty list is
  cached: the process goes on not knowing any vendor after the file is there (the exception
  `DOMAIN reference # {}` of `TierAsEnriched`).
- `enrichment.py:25` says its hyperscaler list matches `stg_ict_vendors`; it lacks "Google Cloud"
  (line 25 there).  Nothing reads either flag, and no property is about them.
- `enrichment.py:100-101` and `mart_vendor_risk.sql:5-7` name Google Cloud and Murex as missing from the seed;
  both are in it.

## 5. What is proved

All proofs are checked by TLAPS for every value of the constants within the named
assumptions (`StreamingAssumption`, `RulesAssumption`, `ClassifierAssumption`,
`GeneratorAssumption`, `SyncAssumption`, `DagAssumption`, `MartAssumption`, `VendorAssumption`,
`BootstrapAssumption`, `SupersetAssumption`), which TLC evaluates on the runs.  They only say that bounds are
naturals, that `None` and `NaN` differ from real values, that the runs of different scripts are
different, that Superset's names are distinct and there is at least one chart (`_chart_definitions` is
never empty; without one, a finished dashboard would say nothing), and that the vendor constants fit
each other.  Theorems with a further hypothesis state it.

**StreamingJob.**  `TypeCorrect`, `Invariance`, `CommittedIsAlwaysStored`,
`EnrichedIsAlwaysAudited`, `CommittedIsNeverReappended`, `BatchIsReplayedAsPlanned`,
`DuplicatesAreBounded`, `OversizedIsNeverCommitted`, `JobImplementsFeed`.  `CommittedIsStored` alone is not inductive: that `Commit` preserves it
needs `BatchRows \subseteq Stored(...)` in phase `flushed`, which has to be carried from the
appends (`Progress`), and that a range of offsets splits at `committed`, which needs
`start <= committed <= planned <= Len(log)` (`Ordered`).  `EnrichedIsAudited` needs that `todo` holds
rows of the open batch only.  `Rows` is for the refinement: what is stored was published
and parses.  `Behind` says that a start at "latest" lies behind all that lost checkpoints had
committed, which is why losing one appends nothing again.  `IInv` is the conjunction, and is also an invariant of the run `Streaming`.
`DupInv` counts rows: an open incident has one copy per failure so far, one more once the batch
is written this time, and a stop signal is a failure before it takes effect.  `Fits` says that
what is queued of the open batch still takes its slots.
Two statements of the repository that the code does not keep (section 4) are proved under
exactly what it would take: `OneRowUntilFailure`, and `DeliveredMeansAllEnriched`, where the hypotheses
`FlushesInTime` and `NothingExpires` are action formulas and the invariant `Sent` follows the open batch's
messages.  So no crash, stop, full queue or replay loses a message that way; the ignored result of `flush` does.
The refinement proof maps publishing to `Publish`, the second append to `Store`, `Commit` to
`Acknowledge` and `FirstStart`, `LoseCheckpoint`, restarts and everything else to stuttering.

**DoraClassifier.**  The loop invariant `Done` says that every classified incident is `Classify`
of its original.  `ReasonAlwaysNamesSeverity`, `SeverityAlwaysMonotone` and
`PreassignedAlwaysIgnored` then follow from lemmas on the rules, for *every* thresholds,
whatever their order.  So does `OnlyImpactIsEverRejected`: of the suite's expectations on values,
the stored row of a classified incident can break those on impact alone.  `TypeCorrect`
states the types.

**IncidentGenerator.**  `SimulatorAgrees`: under the default thresholds `Classify(e) = e` for every
event that can be drawn, from any samples; one case per recipe.  `ClassifierAlwaysAgrees`
lifts it to every message on every topic.  `TypeCorrect` states the types.

**IcebergSync.**  `TypeInvariant`; and under `~Overlap`, `SyncInvariance`, `RowsCopiedOnce`, `SkippedRowsAreLate`.
The invariant says that the watermark of an open attempt is still the newest row
of Postgres (`MarkIsCurrent`: nobody else loads) and that its data frame is all that was newer
in some prefix of Iceberg (`ScannedAt`).  Without `~Overlap` these theorems are false.
`InOrderNothingSlips` adds `Disorder = 0`: `NoRowSlipsThrough`, which `SyncLateRow` refutes, holds if
rows reach Iceberg in the order of their event times (`InOrder`).

**PipelineDag**, overlap included.  `Inductive` proves `DagInv`: the types; that the container
Airflow watches is at work and right about a missing table (`Watched`); what the tasks passed so
far have established (`Achieved`: until the marts are built, every row of the table is valid or one of
`slipped`; without a stray load the built marts are the table and the alerts are the marts); and that a
mart shows nothing the table has lost, and nothing before there are views (`MartsBehind`).  From it `MartsAlwaysValidated`, `RunReportsOneTable`,
`RegisterAlwaysGrows`, `MartsAlwaysGrow` and `MartsAreFrozen`.  `MartsAlwaysValidated` excepts the rows in
`slipped`, under overlap the only ones a mart shows unvalidated; stray loads before the validation of a run
are no exception, since the validation reads the whole table.  The point of `MartsBehind` is that a late container
can replace the table only while no view reads it, and then no mart shows anything yet.
`TypeCorrect` needs that `record_count` is a number, which is about the fold behind `MapThenSumSet`: `CountIsNat`
proves it by induction over finite sets, in the form of a least counterexample (`LeastSubset`, from the library's
well-foundedness of the subsets of a finite set).  `DagImplementsRegister` is the whole refinement to `IncidentRegister`,
lost containers included; its one hard step is `LoadRefines`, where `MartsBehind` gives the guard of `Disturb`.
`SyncInsideIsSync` says that the DAG only takes steps of `IcebergSync`, so that what is proved of the sync holds
inside the DAG.  `WatchedRunsKeepFaith` drops the exceptions `stray` and `slipped` under `~Overlap`: then the watched container
is the only one at work (`Alone`).

**ComplianceMarts.**  `MartInvariance`: each line of `mart_sla_breach` is the verdict its row had at
some earlier moment, each line of `mart_bafin_report` is computed from the first `seen`
rows.  From it `VerdictsAreExact`, `BreachesAreForGood`, `MartsNeverContradict` (a row counted within
the deadline and a flagged row are different rows, whenever each was decided; by
cardinalities) and `BreachesAreAlerted` (arithmetic of the two roundings).  `MartTypeCorrect` states the types.

**VendorRisk.**  The invariant (`RiskInvariance`): the mart is computed from the rows in `told`, which are all
still in the register, and what a process keeps of the vendor list is the whole list or nothing
(`ReferenceInv`).  `TiersNeverFall` follows because exposure is monotone in the set of rows, `ReplaysNeverCount`
because exposure and tier depend on that set alone.  `TiersAreAsEnriched` compares institutions by trimmed names, which
are at least those of one spelling, with the flag of the trimmed name (`FlagOfEvent`); it holds for any seed
and any names, of providers the seed does not list too.

**Bootstrap.**  `Inductive` proves types, phases and: what a run's loop has passed is there
(`PassedIsThere`), a topic it saw missing is requested or made (`NoneForgotten`), two runs at work in one store
and a table run without a bucket are excused (`RivalsExcused`), and who is about to create what is
there is one of them (`StaleExcused`).  From it `TypeCorrect`, `FinishedRunsAreReady` and `RerunsDoNotFail`.
`Provides` is the safety half of the refinement to `Provision`.

**SupersetBootstrap.**  Three parts of one invariant (`IInv`).  `DInv`: unless two runs overlap, a list outgrows its page or
somebody takes a name, names stay unique; inductive with: one run at a time (`OneAtATime`), and what it is about to post
is not there (`NotSeen`), which holds because a list that fits its page is seen whole.  `TInv`: types, and with them that a run
knows the identifiers of exactly the objects its loop has passed (`RunsTyped`).  `LInv`: identifiers are unique, what a run
holds still exists (`Held`), and every object refers to what its kind must (`Linked`), the last two while nothing has `spoiled` the run.
From these `NothingDoubled`, `TypeCorrect`, `CompletedRunsHaveBuilt` and `RerunsChangeNothing`: a run completes with the
layout, and by then it holds one object for every name of `Plan`, each with the references it needs.

Only model-checked: the liveness properties (`EventuallyCommitted`, `MartsCatchUp`,
`OpenIncidentsFlagged`, `Settles`, `EventuallyDone` and the liveness half of `ImplementsProvision`), since
liveness under fairness and ENABLED are out of the prover's reach.  Every other property of the runs is proved.
Induction theorems with an operator as parameter, and RECURSIVE operators, are out of reach too.  No
module needs either: the one fold is handled by a least counterexample.

## 6. What is not modelled

- Row contents: payload hash, lineage fields, column types, JSON of `affected_systems`.
- Wording of reasons, logs and alerts; the simulator's pacing, institutions and timestamps.
- Of the validation suite, the expectations that columns exist, which hold by the table's schema.
- Averages, severity counts and month boundaries of `mart_bafin_report`: nothing decides by them.  Groups are given.
  Containments before detection are excluded (`Incident`): the simulator does not make them.
- The label of `enrich_event`, which nothing in the pipeline calls; `vendor_type`, `eu_headquartered`, the score and the
  hyperscaler flag, in the seed's readers and in `mart_vendor_risk`, where they are the provider's constants.
- Edits of the seed: only whether the file is there changes.  White space other than blanks, which `strip` takes
  away and Postgres' `trim` does not.
- A lost container of any task but the sync, the marts' included.
- Iceberg schemas and partition specs, topic settings, chart parameters and the login to Superset: data.
- A checkpoint directory that disappears under a running query, or half of it: only its loss while the job is
  down is.
- What librdkafka drops in the simulator: the steps are there, but the simulator promises nothing about it.
- Docker images, compose file, SQL init: deployment.

## 7. The plan

Done, in this order: streaming job with its refinement and proofs; classifier and simulator;
sync and DAG; compliance marts; the seed and lost containers in the DAG, and its proofs; the loss of the checkpoint; the bootstrap
scripts with their abstract specification and proofs; vendor risk; the Superset script and its proofs; the quality suite;
the register as an abstract specification of the DAG; theorems under the conditions that the refuted statements lack.
What could come next:

1. The averages and month boundaries of `mart_bafin_report`, once something decides by them.
2. The safety part of what the liveness properties rest on (which step a stuck state still allows), as invariants.

## 8. Running it

```
tlc -config Streaming.cfg MCStreamingJob      # and so on: PROJECT.json lists module and cfg of a run
tlapm StreamingJobProofs.tla
```

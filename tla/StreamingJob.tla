---------------------------- MODULE StreamingJob ----------------------------
(***************************************************************************)
(* processing/streaming_job.py: Spark Structured Streaming reads the       *)
(* source topics in micro-batches; for each one process_batch classifies   *)
(* the records on the driver, appends them to two Iceberg tables one after *)
(* the other, queues one enriched message per record in a confluent_kafka  *)
(* producer, flushes it, and returns; only then does Spark commit the      *)
(* batch's offsets to the checkpoint.                                      *)
(*                                                                         *)
(* Spark, Iceberg and librdkafka are external: they are modelled by what   *)
(* the job's calls rely on.  A record is named by its position <<p, k>>,   *)
(* the k-th record of partition p; its payload is only whether             *)
(* IncidentEvent.from_kafka_message accepts it.                            *)
(***************************************************************************)
EXTENDS Naturals, Sequences, FiniteSets, Functions

CONSTANTS
  Partition,    (* Partitions of the three source topics.                  *)
  QueueCap,     (* queue.buffering.max.messages of the producer.           *)
  MaxLog,       (* Bound: records per partition.                           *)
  MaxFailures   (* Bound: crashes, stops, aborted batches, lost checkpoints*)

ASSUME StreamingAssumption ==
  /\ QueueCap \in Nat \ {0}
  /\ MaxLog \in Nat
  /\ MaxFailures \in Nat

VARIABLES
  log,          (* The source partitions: each record parses or is poison. *)
  begun,        (* The checkpoint directory holds the starting offsets.    *)
  start,        (* Those offsets: "latest" when the job first started.     *)
  planned,      (* End offsets of the newest entry of Spark's offset log.  *)
  committed,    (* End offsets of the newest entry of its commit log.      *)
  forgotten,    (* History: what checkpoints since lost had as committed.  *)
  pc,           (* What the driver process is doing.                       *)
  stopping,     (* The SIGTERM / SIGINT handler has been entered.          *)
  classified,   (* dora.incidents_classified: the data files appended.     *)
  audit,        (* dora.audit_log: the data files appended.                *)
  todo,         (* enriched_msgs of the batch not yet passed to produce(). *)
  queue,        (* Slots of the producer's queue: reports not yet served.  *)
  inflight,     (* The queued messages the broker has not acknowledged.    *)
  enriched,     (* dora.incidents.enriched: messages the broker accepted.  *)
  failures      (* Counts towards MaxFailures.                             *)

checkpointVars == <<begun, start, planned, committed, forgotten>>
tableVars      == <<classified, audit>>
producerVars   == <<todo, queue, inflight, enriched>>
vars == <<log, checkpointVars, pc, stopping, tableVars, producerVars, failures>>

Kind  == {"incident", "poison"}
Phase == {"down", "idle", "planned", "built", "classified", "audited", "flushed"}

Position == Partition \X (1..MaxLog)
End      == [p \in Partition |-> Len(log[p])]

(* The records of a range of offsets that from_kafka_message accepts.      *)
Incidents(lo, hi) ==
  {r \in Position : /\ lo[r[1]] < r[2] /\ r[2] <= hi[r[1]]
                    /\ log[r[1]][r[2]] = "incident"}

(* classified_rows, audit_rows and enriched_msgs of the current batch.     *)
BatchRows == Incidents(committed, planned)

(* Records that the checkpoint has, or a lost one had, as committed.       *)
Finished == forgotten \cup {r \in Position : start[r[1]] < r[2] /\ r[2] <= committed[r[1]]}

(* Records the log holds.                                                  *)
Published(kind) == {r \in Position : r[2] <= Len(log[r[1]]) /\ log[r[1]][r[2]] = kind}

(* The rows a reader of an Iceberg table sees.                             *)
Stored(table) == UNION Range(table)

(* One append is one atomic commit of one file; none when there is no row. *)
AppendRows(table, rows) == IF rows = {} THEN table ELSE Append(table, rows)

-----------------------------------------------------------------------------
Init ==
  /\ log = [p \in Partition |-> <<>>]
  /\ begun = FALSE
  /\ start = [p \in Partition |-> 0]
  /\ planned = start
  /\ committed = start
  /\ forgotten = {}
  /\ pc = "down"
  /\ stopping = FALSE
  /\ classified = <<>>
  /\ audit = <<>>
  /\ todo = {}
  /\ queue = {}
  /\ inflight = {}
  /\ enriched = {}
  /\ failures = 0

(* The simulator, or any other producer, appends a record to a partition.  *)
Publish(p, kind) ==
  /\ Len(log[p]) < MaxLog
  /\ log' = [log EXCEPT ![p] = Append(@, kind)]
  /\ UNCHANGED <<checkpointVars, pc, stopping, tableVars, producerVars, failures>>

(* Mutant of FirstStart: startingOffsets is "earliest".                    *)
FirstStartEarliest ==
  /\ pc = "down" /\ ~begun
  /\ begun' = TRUE
  /\ start' = [p \in Partition |-> 0] /\ planned' = start' /\ committed' = start'
  /\ pc' = "idle"
  /\ UNCHANGED <<log, forgotten, stopping, tableVars, producerVars, failures>>

(* run_streaming_job: with no checkpoint the source starts at "latest";    *)
(* otherwise a batch that was planned and not committed is run again.      *)
FirstStart ==
  /\ pc = "down" /\ ~begun
  /\ begun' = TRUE
  /\ start' = End /\ planned' = End /\ committed' = End
  /\ pc' = "idle"
  /\ UNCHANGED <<log, forgotten, stopping, tableVars, producerVars, failures>>

(* Mutants of Restart: the open batch is forgotten; it is planned anew.    *)
RestartForgetsBatch ==
  /\ pc = "down" /\ begun
  /\ pc' = "idle"
  /\ UNCHANGED <<log, checkpointVars, stopping, tableVars, producerVars, failures>>

RestartReplans ==
  /\ pc = "down" /\ begun
  /\ planned' = End
  /\ pc' = IF End = committed THEN "idle" ELSE "planned"
  /\ UNCHANGED <<log, begun, start, committed, forgotten, stopping, tableVars, producerVars, failures>>

Restart ==
  /\ pc = "down" /\ begun
  /\ pc' = IF planned = committed THEN "idle" ELSE "planned"
  /\ UNCHANGED <<log, checkpointVars, stopping, tableVars, producerVars, failures>>

(* Mutant of Plan: offsets are committed when the batch is handed out.     *)
PlanAndCommit ==
  /\ pc = "idle" /\ ~stopping
  /\ End # committed
  /\ planned' = End /\ committed' = End
  /\ pc' = "planned"
  /\ UNCHANGED <<log, begun, start, forgotten, stopping, tableVars, producerVars, failures>>

(* The trigger fires: all that is available becomes the next batch, and    *)
(* its end offsets are logged before the batch runs.                       *)
Plan ==
  /\ pc = "idle" /\ ~stopping
  /\ End # committed
  /\ planned' = End
  /\ pc' = "planned"
  /\ UNCHANGED <<log, begun, start, committed, forgotten, stopping, tableVars, producerVars, failures>>

(* Mutant of Collect: the error of a poison record is not caught.          *)
CollectRaises ==
  /\ pc = "planned"
  /\ pc' = IF \E r \in Position : /\ committed[r[1]] < r[2] /\ r[2] <= planned[r[1]]
                                  /\ log[r[1]][r[2]] = "poison"
           THEN "down" ELSE "built"
  /\ UNCHANGED <<log, checkpointVars, stopping, tableVars, producerVars, failures>>

(* process_batch: collect, parse, skip what does not parse, classify.      *)
Collect ==
  /\ pc = "planned"
  /\ pc' = "built"
  /\ UNCHANGED <<log, checkpointVars, stopping, tableVars, producerVars, failures>>

(* Mutant of AppendClassified: it is repeated when the reply is slow.      *)
AppendClassifiedTwice ==
  /\ pc = "built"
  /\ classified' = AppendRows(AppendRows(classified, BatchRows), BatchRows)
  /\ pc' = "classified"
  /\ UNCHANGED <<log, checkpointVars, stopping, audit, producerVars, failures>>

AppendClassified ==
  /\ pc = "built"
  /\ classified' = AppendRows(classified, BatchRows)
  /\ pc' = "classified"
  /\ UNCHANGED <<log, checkpointVars, stopping, audit, producerVars, failures>>

(* Mutant of AppendAudit: the messages go out without the audit rows.      *)
ProduceWithoutAudit ==
  /\ pc = "classified"
  /\ todo' = BatchRows
  /\ pc' = "audited"
  /\ UNCHANGED <<log, checkpointVars, stopping, tableVars, queue, inflight, enriched, failures>>

AppendAudit ==
  /\ pc = "classified"
  /\ audit' = AppendRows(audit, BatchRows)
  /\ todo' = BatchRows
  /\ pc' = "audited"
  /\ UNCHANGED <<log, checkpointVars, stopping, classified, queue, inflight, enriched, failures>>

(* Mutant of Produce: the loop polls, so served reports give slots back.   *)
ProduceAndPoll(r) ==
  /\ pc = "audited" /\ r \in todo
  /\ Cardinality(inflight) < QueueCap
  /\ todo' = todo \ {r}
  /\ queue' = inflight \cup {r}
  /\ inflight' = inflight \cup {r}
  /\ UNCHANGED <<log, checkpointVars, pc, stopping, tableVars, enriched, failures>>

(* One producer.produce: it only queues.  The loop never polls, so a slot  *)
(* is not given back before the flush even when the message is delivered.  *)
Produce(r) ==
  /\ pc = "audited" /\ r \in todo
  /\ Cardinality(queue) < QueueCap
  /\ todo' = todo \ {r}
  /\ queue' = queue \cup {r}
  /\ inflight' = inflight \cup {r}
  /\ UNCHANGED <<log, checkpointVars, pc, stopping, tableVars, enriched, failures>>

(* producer.flush(timeout=10): serves the reports that have arrived and    *)
(* returns when none is left or the time is over; its result is ignored.   *)
Flush ==
  /\ pc = "audited" /\ todo = {}
  /\ queue' = inflight
  /\ pc' = "flushed"
  /\ UNCHANGED <<log, checkpointVars, stopping, tableVars, todo, inflight, enriched, failures>>

(* Mutant of Commit: what is available by now is committed.                *)
CommitLatest ==
  /\ pc = "flushed"
  /\ committed' = End /\ planned' = End
  /\ pc' = "idle"
  /\ UNCHANGED <<log, begun, start, forgotten, stopping, tableVars, producerVars, failures>>

(* foreachBatch returned: Spark writes the batch to its commit log.        *)
Commit ==
  /\ pc = "flushed"
  /\ committed' = planned
  /\ pc' = "idle"
  /\ UNCHANGED <<log, begun, start, planned, forgotten, stopping, tableVars, producerVars, failures>>

(* librdkafka's thread: the broker accepts a message, or message.timeout.ms*)
(* passes and the message is dropped; no callback tells the job.           *)
Deliver(r) ==
  /\ r \in inflight
  /\ inflight' = inflight \ {r}
  /\ enriched' = enriched \cup {r}
  /\ UNCHANGED <<log, checkpointVars, pc, stopping, tableVars, todo, queue, failures>>

Expire(r) ==
  /\ r \in inflight
  /\ inflight' = inflight \ {r}
  /\ UNCHANGED <<log, checkpointVars, pc, stopping, tableVars, todo, queue, enriched, failures>>

(* The process is gone, and with it whatever the producer still held.      *)
Exit ==
  /\ pc' = "down"
  /\ stopping' = FALSE
  /\ todo' = {} /\ queue' = {} /\ inflight' = {}
  /\ UNCHANGED <<log, checkpointVars, tableVars, enriched>>

Fail == failures < MaxFailures /\ failures' = failures + 1

(* A kill, or an exception in a batch (a broker or catalog out of reach):  *)
(* the query terminates and awaitTermination raises.  An append that fails *)
(* after it took effect is a crash right after the append.                 *)
Crash == pc # "down" /\ Fail /\ Exit

(* produce raises BufferError because every slot is taken.                 *)
QueueFull ==
  /\ pc = "audited" /\ todo # {}
  /\ Cardinality(queue) >= QueueCap
  /\ Fail
  /\ Exit

(* The checkpoint directory lies in /tmp and goes with the host or the     *)
(* container that the stopped job ran on.                                  *)
LoseCheckpoint ==
  /\ pc = "down" /\ begun
  /\ Fail
  /\ begun' = FALSE
  /\ start' = [p \in Partition |-> 0] /\ planned' = start' /\ committed' = start'
  /\ forgotten' = Finished
  /\ UNCHANGED <<log, pc, stopping, tableVars, producerVars>>

(* The handler is entered and calls query.stop.                            *)
Signal ==
  /\ pc # "down" /\ ~stopping
  /\ Fail
  /\ stopping' = TRUE
  /\ UNCHANGED <<log, checkpointVars, pc, tableVars, producerVars>>

(* query.stop returned: no batch was running, its collect was cancelled, or*)
(* process_batch returned and the interrupted query skipped the commit.    *)
(* Then the last flush, which may time out, and sys.exit.                  *)
GracefulExit ==
  /\ stopping
  /\ pc \in {"idle", "planned", "flushed"}
  /\ Exit
  /\ UNCHANGED failures

-----------------------------------------------------------------------------
Batch == Plan \/ Collect \/ AppendClassified \/ AppendAudit \/ Flush \/ Commit

Broker == \E r \in Position : Deliver(r) \/ Expire(r)

Next ==
  \/ \E p \in Partition, kind \in Kind : Publish(p, kind)
  \/ FirstStart \/ Restart
  \/ Batch
  \/ \E r \in Position : Produce(r)
  \/ Broker
  \/ Crash \/ QueueFull \/ Signal \/ GracefulExit
  \/ LoseCheckpoint

Spec == Init /\ [][Next]_vars

(* The job is started again after every exit, its thread keeps running and *)
(* the query stops once asked to.  Nothing is assumed of the broker: every *)
(* flush returns after its timeout.                                        *)
Fairness ==
  /\ WF_vars(FirstStart \/ Restart)
  /\ WF_vars(Batch)
  /\ WF_vars(\E r \in Position : Produce(r))
  /\ WF_vars(GracefulExit)

FairSpec == Spec /\ Fairness

-----------------------------------------------------------------------------
TypeOK ==
  /\ log \in [Partition -> Seq(Kind)]
  /\ \A p \in Partition : Len(log[p]) <= MaxLog
  /\ begun \in BOOLEAN
  /\ start \in [Partition -> Nat]
  /\ planned \in [Partition -> Nat]
  /\ committed \in [Partition -> Nat]
  /\ forgotten \subseteq Position
  /\ pc \in Phase
  /\ stopping \in BOOLEAN
  /\ classified \in Seq(SUBSET Position)
  /\ audit \in Seq(SUBSET Position)
  /\ todo \subseteq Position
  /\ queue \subseteq Position
  /\ inflight \subseteq Position
  /\ enriched \subseteq Position
  /\ failures \in 0..MaxFailures

(* Offsets reach the commit log only after the rows are in both tables: no *)
(* crash, stop, full queue or half-done batch makes a restart skip an      *)
(* incident that parses; nor does it when the checkpoint was lost since.   *)
(* (append before return, return before commit)                            *)
CommittedIsStored ==
  /\ Incidents(start, committed) \subseteq Stored(classified) \cap Stored(audit)
  /\ forgotten \subseteq (Stored(classified) \cap Stored(audit)) \cup Published("poison")

(* Whatever downstream consumers can see of an incident on the enriched    *)
(* topic, or will see because it is queued, has its audit row and its      *)
(* classified row already, even when the batch is never committed.         *)
EnrichedIsAudited ==
  enriched \cup inflight \subseteq Stored(audit) \cap Stored(classified)

(* The inductive strengthening of the two: offsets are ordered, and what   *)
(* the open batch has done so far follows from pc.                         *)
Ordered ==
  \A p \in Partition : /\ start[p] <= committed[p]
                       /\ committed[p] <= planned[p]
                       /\ planned[p] <= Len(log[p])

Progress ==
  /\ ~begun => pc = "down" /\ start = committed /\ planned = committed
  /\ pc = "idle" => planned = committed
  /\ pc \in {"classified", "audited", "flushed"} => BatchRows \subseteq Stored(classified)
  /\ pc \in {"audited", "flushed"} => BatchRows \subseteq Stored(audit)
  /\ pc = "audited" => todo \subseteq BatchRows

(* Only incidents the log holds have rows, and an audit row has its        *)
(* classified row.                                                         *)
Rows ==
  /\ Stored(audit) \subseteq Stored(classified)
  /\ Stored(classified) \subseteq Published("incident")

(* A job that starts at "latest" starts behind all it ever committed.      *)
Behind ==
  \A r \in forgotten : r[2] <= Len(log[r[1]]) /\ (begun => r[2] <= start[r[1]])

(* The job never reaches a state from which a step could break the         *)
(* invariants above: a restart, a replay or a stop at any phase included.  *)
IInv ==
  TypeOK /\ Ordered /\ Progress /\ Rows /\ Behind /\ CommittedIsStored /\ EnrichedIsAudited

(* Files an incident was appended in: the number of rows it has.           *)
Copies(table, r) == Cardinality({i \in DOMAIN table : r \in table[i]})

(* How far duplicates can go: one more row per failure that hit the batch, *)
(* and never more audit rows than classified rows of one incident.         *)
DuplicatesBounded ==
  \A r \in Stored(classified) :
    /\ Copies(classified, r) <= failures + 1
    /\ Copies(audit, r) <= Copies(classified, r)

(* A record that is committed is never appended again, whatever fails      *)
(* later: duplicates come from the open batch alone.  That holds across the*)
(* loss of the checkpoint too, because the job then starts at "latest".    *)
NeverReappended ==
  [][classified' # classified =>
       \A r \in classified'[Len(classified')] : committed[r[1]] < r[2] /\ r \notin forgotten]_vars

(* A batch once planned is replayed with the same records until it is      *)
(* committed, through any number of restarts: new arrivals never join it.  *)
(* Only with the checkpoint it is lost.                                    *)
ReplayedAsPlanned ==
  [][planned # committed /\ begun' => planned' = planned /\ BatchRows' \in {BatchRows, {}}]_vars

(* A batch with more incidents than the producer queue has slots can never *)
(* commit, however often it is retried: the loop queues all of it before   *)
(* the only call that frees a slot.                                        *)
OversizedNeverCommits ==
  [][committed' # committed /\ begun /\ begun' => Cardinality(BatchRows) <= QueueCap]_vars

(* No incident slips through: whatever is published behind the job's start,*)
(* poison records next to it or not, is committed in the end, if the job is*)
(* always started again, a batch fits the queue and the checkpoint is not  *)
(* lost first.  A job without checkpoint starts behind it.                 *)
EventuallyCommitted ==
  \A p \in Partition : \A k \in 1..MaxLog :
    (begun /\ start[p] < k /\ k <= Len(log[p])) ~> (<<p, k>> \in Finished \/ ~begun)

(* Feed: the job seen from its tables.                                     *)
Feed == INSTANCE AtLeastOnceFeed WITH
  published <- {r \in Position : r[2] <= Len(log[r[1]])},
  malformed <- {r \in Position : r[2] <= Len(log[r[1]]) /\ log[r[1]][r[2]] = "poison"},
  stored    <- Stored(audit) \cap Stored(classified),
  acked     <- Finished

(* The job implements the at-least-once feed its readers rely on.          *)
ImplementsFeed == Feed!Spec

-----------------------------------------------------------------------------
(* What the repository says of the job and the code does not guarantee.    *)

(* intermediate/int_dora_classified.sql, line 1: one row per incident.     *)
OneRowPerIncident ==
  \A r \in Stored(classified) : Copies(classified, r) = 1

(* README, Kafka topics: the enriched topic has all events post-enrichment.*)
(* Every incident of a committed batch is on the topic, or on its way.     *)
AllEventsEnriched ==
  Incidents(start, committed) \subseteq enriched \cup inflight
=============================================================================

------------------------- MODULE StreamingJobProofs -------------------------
(***************************************************************************)
(* Theorems about StreamingJob for any partitions and any bounds.          *)
(***************************************************************************)
EXTENDS StreamingJob, FiniteSetTheorems, TLAPS

-----------------------------------------------------------------------------
(* An append adds exactly the rows of the batch to what readers see.       *)
LEMMA AppendRowsStores ==
  ASSUME NEW S, NEW table \in Seq(S), NEW rows
  PROVE  Stored(AppendRows(table, rows)) = Stored(table) \cup rows
<1>1. CASE rows = {}
  BY <1>1 DEF AppendRows
<1>2. CASE rows # {}
  <2> DEFINE t == Append(table, rows)
  <2>1. AppendRows(table, rows) = t
    BY <1>2 DEF AppendRows
  <2>2. Len(t) = Len(table) + 1 /\ DOMAIN t = 1..Len(t) /\ DOMAIN table = 1..Len(table)
    OBVIOUS
  <2>3. \A i \in 1..Len(table) : t[i] = table[i]
    OBVIOUS
  <2>4. t[Len(table) + 1] = rows /\ Len(table) \in Nat
    OBVIOUS
  <2> HIDE DEF t
  <2>5. Range(t) = Range(table) \cup {rows}
    BY <2>2, <2>3, <2>4 DEF Range
  <2>6. QED
    BY <2>1, <2>5 DEF Stored
<1>3. QED
  BY <1>1, <1>2

(* A table stays a sequence of files.                                      *)
LEMMA AppendRowsType ==
  ASSUME NEW S, NEW table \in Seq(S), NEW rows \in S
  PROVE  AppendRows(table, rows) \in Seq(S)
BY DEF AppendRows

-----------------------------------------------------------------------------
(* Every state of the job is well typed: initially, and after any step.    *)
LEMMA TypeCorrectInit == Init => TypeOK
<1> USE StreamingAssumption
<1> SUFFICES ASSUME Init PROVE TypeOK
  OBVIOUS
<1>1. log \in [Partition -> Seq(Kind)] /\ \A p \in Partition : Len(log[p]) <= MaxLog
  BY DEF Init
<1>2. classified \in Seq(SUBSET Position) /\ audit \in Seq(SUBSET Position)
  BY DEF Init
<1>3. /\ start \in [Partition -> Nat] /\ planned \in [Partition -> Nat]
      /\ committed \in [Partition -> Nat] /\ forgotten \subseteq Position
  BY DEF Init
<1>4. failures \in 0..MaxFailures
  BY DEF Init, StreamingAssumption
<1>5. begun \in BOOLEAN /\ stopping \in BOOLEAN /\ pc \in Phase
  BY DEF Init, Phase
<1>6. /\ todo \subseteq Position /\ queue \subseteq Position
      /\ inflight \subseteq Position /\ enriched \subseteq Position
  BY DEF Init
<1>7. QED
  BY <1>1, <1>2, <1>3, <1>4, <1>5, <1>6 DEF TypeOK

(* Every step keeps the types.                                             *)
LEMMA TypeCorrectNext == TypeOK /\ [Next]_vars => TypeOK'
<1> USE StreamingAssumption
<1> SUFFICES ASSUME TypeOK, [Next]_vars PROVE TypeOK'
  OBVIOUS
<1> USE DEF TypeOK, Phase
<1>0. End \in [Partition -> Nat] /\ BatchRows \in SUBSET Position
  BY DEF End, BatchRows, Incidents
<1>1. ASSUME NEW p \in Partition, NEW kind \in Kind, Publish(p, kind) PROVE TypeOK'
  <2>1. log' \in [Partition -> Seq(Kind)]
    BY <1>1 DEF Publish
  <2>2. \A q \in Partition : Len(log'[q]) <= MaxLog
    BY <1>1 DEF Publish
  <2>3. QED
    BY <1>1, <2>1, <2>2 DEF Publish, checkpointVars, tableVars, producerVars
<1>2. CASE FirstStart
  BY <1>0, <1>2 DEF FirstStart, tableVars, producerVars
<1>3. CASE Restart
  BY <1>3 DEF Restart, checkpointVars, tableVars, producerVars
<1>4. CASE Plan
  BY <1>0, <1>4 DEF Plan, tableVars, producerVars
<1>5. CASE Collect
  BY <1>5 DEF Collect, checkpointVars, tableVars, producerVars
<1>6. CASE AppendClassified
  BY <1>0, <1>6, AppendRowsType DEF AppendClassified, checkpointVars, producerVars
<1>7. CASE AppendAudit
  BY <1>0, <1>7, AppendRowsType DEF AppendAudit, checkpointVars
<1>8. CASE Flush
  BY <1>8 DEF Flush, checkpointVars, tableVars
<1>9. CASE Commit
  BY <1>9 DEF Commit, tableVars, producerVars
<1>10. ASSUME NEW r \in Position, Produce(r) PROVE TypeOK'
  BY <1>10 DEF Produce, checkpointVars, tableVars
<1>11. ASSUME NEW r \in Position, Deliver(r) \/ Expire(r) PROVE TypeOK'
  BY <1>11 DEF Deliver, Expire, checkpointVars, tableVars
<1>12. CASE Crash \/ QueueFull \/ Signal \/ GracefulExit
  <2>1. failures' \in 0..MaxFailures
    BY <1>12 DEF Crash, QueueFull, Signal, GracefulExit, Fail, StreamingAssumption
  <2>2. CASE Signal
    BY <1>12, <2>1, <2>2 DEF Signal, checkpointVars, tableVars, producerVars
  <2>3. CASE Exit
    BY <2>1, <2>3 DEF Exit, checkpointVars, tableVars
  <2>4. QED
    BY <1>12, <2>2, <2>3 DEF Crash, QueueFull, GracefulExit
<1>13. CASE UNCHANGED vars
  BY <1>13 DEF vars, checkpointVars, tableVars, producerVars
<1>14. CASE LoseCheckpoint
  <2>1. failures' \in 0..MaxFailures
    BY <1>14 DEF LoseCheckpoint, Fail, StreamingAssumption
  <2>2. forgotten' \subseteq Position
    BY <1>14 DEF LoseCheckpoint, Finished
  <2>3. QED
    BY <1>14, <2>1, <2>2 DEF LoseCheckpoint, tableVars, producerVars
<1>15. QED
  BY <1>1, <1>2, <1>3, <1>4, <1>5, <1>6, <1>7, <1>8, <1>9, <1>10, <1>11, <1>12, <1>13, <1>14
     DEF Next, Batch, Broker

(* TypeOK is an invariant of the job.                                      *)
THEOREM TypeCorrect == Spec => []TypeOK
  BY TypeCorrectInit, TypeCorrectNext, PTL DEF Spec

-----------------------------------------------------------------------------
(* A record that arrives changes no range of offsets that ends in the log. *)
LEMMA PublishKeepsRanges ==
  ASSUME TypeOK, Ordered, NEW q \in Partition, NEW kind \in Kind, Publish(q, kind)
  PROVE  /\ Incidents(start, committed)' = Incidents(start, committed)
         /\ BatchRows' = BatchRows
         /\ Ordered'
         /\ \A r \in Position : r[2] <= Len(log[r[1]]) =>
              r[2] <= Len(log'[r[1]]) /\ log'[r[1]][r[2]] = log[r[1]][r[2]]
<1> USE DEF TypeOK
<1>1. \A p \in Partition : /\ Len(log[p]) \in Nat /\ Len(log'[p]) \in Nat
                           /\ Len(log[p]) <= Len(log'[p])
                           /\ \A k \in 1..Len(log[p]) : log'[p][k] = log[p][k]
  BY DEF Publish
<1>2. /\ UNCHANGED <<start, planned, committed>>
      /\ \A r \in Position : r[1] \in Partition /\ r[2] \in Nat /\ r[2] >= 1
  BY StreamingAssumption DEF Publish, checkpointVars, Position, StreamingAssumption
<1>3. Ordered'
  BY <1>1, <1>2 DEF Ordered
<1>4. \A r \in Position : r[2] <= Len(log[r[1]]) =>
        r[2] <= Len(log'[r[1]]) /\ log'[r[1]][r[2]] = log[r[1]][r[2]]
  <2> TAKE r \in Position
  <2> HAVE r[2] <= Len(log[r[1]])
  <2>1. r[1] \in Partition /\ r[2] \in 1..Len(log[r[1]])
    BY <1>1, <1>2
  <2>2. QED
    BY <1>1, <2>1 DEF Position
<1>5. \A r \in Position : r[2] <= committed[r[1]] \/ r[2] <= planned[r[1]] => r[2] <= Len(log[r[1]])
  BY <1>1, <1>2 DEF Ordered
<1>6. Incidents(start, committed)' = Incidents(start, committed) /\ BatchRows' = BatchRows
  BY <1>2, <1>4, <1>5 DEF Incidents, BatchRows
<1>7. QED
  BY <1>3, <1>4, <1>6

(* A committed batch: what it adds to the committed range is its own rows. *)
LEMMA CommitAddsTheBatch ==
  ASSUME TypeOK, Ordered
  PROVE  Incidents(start, planned) = Incidents(start, committed) \cup BatchRows
<1>1. \A r \in Position :
        /\ start[r[1]] \in Nat /\ committed[r[1]] \in Nat /\ planned[r[1]] \in Nat /\ r[2] \in Nat
        /\ start[r[1]] <= committed[r[1]] /\ committed[r[1]] <= planned[r[1]]
  BY StreamingAssumption DEF TypeOK, Ordered, Position, StreamingAssumption
<1>2. QED
  BY <1>1 DEF Incidents, BatchRows

(* What the log holds in the open batch is an incident of the log.         *)
LEMMA BatchIsPublished ==
  ASSUME TypeOK, Ordered
  PROVE  BatchRows \subseteq Published("incident")
<1>1. \A r \in Position : /\ planned[r[1]] \in Nat /\ r[2] \in Nat /\ Len(log[r[1]]) \in Nat
                          /\ planned[r[1]] <= Len(log[r[1]])
  BY StreamingAssumption DEF TypeOK, Ordered, Position, StreamingAssumption
<1>2. QED
  BY <1>1 DEF BatchRows, Incidents, Published

(* Whatever was ever committed is in the log, and stored or poison.        *)
LEMMA FinishedIsStored ==
  IInv => /\ \A r \in Finished : r[2] <= Len(log[r[1]])
          /\ Finished \subseteq (Stored(classified) \cap Stored(audit)) \cup Published("poison")
<1> SUFFICES ASSUME IInv PROVE /\ \A r \in Finished : r[2] <= Len(log[r[1]])
                               /\ Finished \subseteq (Stored(classified) \cap Stored(audit))
                                                    \cup Published("poison")
  OBVIOUS
<1> USE DEF IInv
<1> SUFFICES ASSUME NEW r \in Position, start[r[1]] < r[2], r[2] <= committed[r[1]]
             PROVE  /\ r[2] <= Len(log[r[1]])
                    /\ r \in (Stored(classified) \cap Stored(audit)) \cup Published("poison")
  BY DEF Finished, Behind, CommittedIsStored
<1>1. /\ r[1] \in Partition /\ r[2] \in Nat /\ r[2] >= 1
      /\ committed[r[1]] \in Nat /\ planned[r[1]] \in Nat /\ Len(log[r[1]]) \in Nat
  BY StreamingAssumption DEF TypeOK, Position, StreamingAssumption
<1>2. r[2] <= Len(log[r[1]])
  BY <1>1 DEF Ordered
<1>3. log[r[1]] \in Seq(Kind)
  BY <1>1 DEF TypeOK
<1>4. log[r[1]][r[2]] \in Kind
  BY <1>1, <1>2, <1>3
<1>5. CASE log[r[1]][r[2]] = "incident"
  BY <1>2, <1>5 DEF Incidents, CommittedIsStored
<1>6. CASE log[r[1]][r[2]] = "poison"
  BY <1>2, <1>6 DEF Published
<1>7. QED
  BY <1>2, <1>4, <1>5, <1>6 DEF Kind

(* The same of the state after a step.                                     *)
LEMMA FinishedStaysStored ==
  IInv' => (Finished \subseteq (Stored(classified) \cap Stored(audit)) \cup Published("poison"))'
BY FinishedIsStored, PTL

(* IInv is inductive.                                                      *)
LEMMA InitIInv == Init => IInv
<1> SUFFICES ASSUME Init PROVE IInv
  OBVIOUS
<1>1. TypeOK
  BY TypeCorrectInit
<1>2. Range(classified) = {} /\ Range(audit) = {}
  BY DEF Init, Range
<1>3. Stored(classified) = {} /\ Stored(audit) = {}
  BY <1>2 DEF Stored
<1>4. Incidents(start, committed) = {}
  BY <1>1 DEF Init, Incidents, Position, TypeOK
<1>5. Ordered
  BY DEF Init, Ordered
<1>6. Progress
  BY DEF Init, Progress
<1>7. QED
  BY <1>1, <1>3, <1>4, <1>5, <1>6 DEF Init, IInv, Rows, Behind, CommittedIsStored, EnrichedIsAudited

(* Every step preserves the inductive invariant, one action at a time.     *)
LEMMA NextIInv == IInv /\ [Next]_vars => IInv'
<1> SUFFICES ASSUME IInv, [Next]_vars PROVE IInv'
  OBVIOUS
<1>T. TypeOK /\ TypeOK'
  BY TypeCorrectNext DEF IInv
<1> USE <1>T DEF IInv
<1>1. ASSUME NEW p \in Partition, NEW kind \in Kind, Publish(p, kind) PROVE IInv'
  <2>1. /\ Incidents(start, committed)' = Incidents(start, committed)
        /\ BatchRows' = BatchRows
        /\ Ordered'
    BY <1>1, PublishKeepsRanges
  <2>2. Stored(classified)' = Stored(classified) /\ Stored(audit)' = Stored(audit)
    BY <1>1 DEF Publish, tableVars
  <2>3. Published("incident") \subseteq Published("incident")'
    <3>1. \A r \in Position : r[2] <= Len(log[r[1]]) =>
            r[2] <= Len(log'[r[1]]) /\ log'[r[1]][r[2]] = log[r[1]][r[2]]
      BY <1>1, PublishKeepsRanges
    <3>2. QED
      BY <3>1 DEF Published
  <2>4. Rows'
    BY <2>2, <2>3 DEF Rows
  <2>5. Progress'
    BY <1>1, <2>1, <2>2 DEF Progress, Publish, checkpointVars, tableVars, producerVars
  <2>6. Published("poison") \subseteq Published("poison")' /\ Behind'
    <3>1. \A r \in Position : r[2] <= Len(log[r[1]]) =>
            r[2] <= Len(log'[r[1]]) /\ log'[r[1]][r[2]] = log[r[1]][r[2]]
      BY <1>1, PublishKeepsRanges
    <3>2. UNCHANGED <<begun, start, forgotten>> /\ forgotten \subseteq Position
      BY <1>1 DEF Publish, checkpointVars, TypeOK
    <3>3. QED
      BY <3>1, <3>2 DEF Published, Behind
  <2>7. CommittedIsStored' /\ EnrichedIsAudited'
    BY <1>1, <2>1, <2>2, <2>6 DEF Publish, CommittedIsStored, EnrichedIsAudited, producerVars,
                                  checkpointVars
  <2>8. QED
    BY <2>1, <2>4, <2>5, <2>6, <2>7
<1>2. CASE FirstStart
  <2>1. /\ start' = committed' /\ planned' = committed'
        /\ UNCHANGED <<log, forgotten, tableVars, producerVars>>
        /\ committed' = End /\ begun' = TRUE /\ pc' = "idle"
    BY <1>2 DEF FirstStart
  <2>2. Incidents(start, committed)' = {}
    BY <2>1 DEF Incidents, Position, TypeOK
  <2>3. Ordered'
    BY <2>1 DEF Ordered, End, TypeOK
  <2>4. Stored(classified)' = Stored(classified) /\ Stored(audit)' = Stored(audit)
    BY <2>1 DEF tableVars
  <2>5. Rows' /\ EnrichedIsAudited' /\ CommittedIsStored'
    BY <2>1, <2>2, <2>4 DEF Rows, Published, EnrichedIsAudited, CommittedIsStored, producerVars
  <2>6. Progress'
    BY <2>1 DEF Progress
  <2>7. Behind'
    <3>1. \A r \in forgotten : r[1] \in Partition
      BY DEF TypeOK, Position
    <3>2. QED
      BY <2>1, <3>1 DEF Behind, End
  <2>8. QED
    BY <2>3, <2>5, <2>6, <2>7
<1>3. ASSUME UNCHANGED <<log, begun, start, committed, forgotten, tableVars, enriched>>,
             inflight' \in SUBSET inflight, planned' = planned, Progress'
      PROVE  IInv'
  <2>1. Stored(classified)' = Stored(classified) /\ Stored(audit)' = Stored(audit)
    BY <1>3 DEF tableVars
  <2>2. Incidents(start, committed)' = Incidents(start, committed)
    BY <1>3 DEF Incidents
  <2>3. QED
    BY <1>3, <2>1, <2>2 DEF Ordered, Rows, Behind, Published, CommittedIsStored, EnrichedIsAudited
<1>4. CASE Restart \/ Collect \/ Flush \/ Crash \/ QueueFull \/ Signal \/ GracefulExit \/ UNCHANGED vars
  <2>1. /\ UNCHANGED <<log, begun, start, committed, forgotten, tableVars, enriched>>
        /\ inflight' \in SUBSET inflight /\ planned' = planned
    BY <1>4 DEF Restart, Collect, Flush, Crash, QueueFull, Signal, GracefulExit, Exit, vars,
                checkpointVars, producerVars
  <2>2. BatchRows' = BatchRows /\ Stored(classified)' = Stored(classified) /\ Stored(audit)' = Stored(audit)
    BY <2>1 DEF BatchRows, Incidents, tableVars
  <2>3. Progress'
    BY <1>4, <2>1, <2>2 DEF Progress, Restart, Collect, Flush, Crash, QueueFull, Signal, GracefulExit,
                            Exit, vars, checkpointVars, producerVars
  <2>4. QED
    BY <1>3, <2>1, <2>3
<1>5. CASE Plan
  <2>1. /\ UNCHANGED <<log, begun, start, committed, forgotten, tableVars, producerVars>>
        /\ planned' = End /\ pc' = "planned" /\ pc = "idle" /\ planned = committed
    BY <1>5 DEF Plan, Progress
  <2>2. Stored(classified)' = Stored(classified) /\ Stored(audit)' = Stored(audit)
    BY <2>1 DEF tableVars
  <2>3. Ordered'
    BY <2>1 DEF Ordered, End, TypeOK
  <2>4. Progress'
    BY <2>1 DEF Progress
  <2>5. Incidents(start, committed)' = Incidents(start, committed)
    BY <2>1 DEF Incidents
  <2>6. QED
    BY <2>1, <2>2, <2>3, <2>4, <2>5 DEF Rows, Behind, Published, CommittedIsStored,
                                        EnrichedIsAudited, producerVars
<1>6. CASE AppendClassified
  <2>1. /\ UNCHANGED <<log, checkpointVars, audit, producerVars>> /\ pc' = "classified"
        /\ Stored(classified)' = Stored(classified) \cup BatchRows
    <3>1. Stored(AppendRows(classified, BatchRows)) = Stored(classified) \cup BatchRows
      BY AppendRowsStores DEF TypeOK
    <3>2. QED
      BY <1>6, <3>1 DEF AppendClassified, Stored
  <2>2. BatchRows' = BatchRows /\ Incidents(start, committed)' = Incidents(start, committed)
    BY <2>1 DEF BatchRows, Incidents, checkpointVars
  <2>3. Stored(audit)' = Stored(audit)
    BY <2>1
  <2>4. Rows'
    BY <2>1, <2>3, BatchIsPublished DEF Rows, Published
  <2>5. Ordered' /\ Progress'
    BY <1>6, <2>1, <2>2 DEF Ordered, Progress, AppendClassified, checkpointVars
  <2>6. QED
    BY <2>1, <2>2, <2>3, <2>4, <2>5 DEF CommittedIsStored, EnrichedIsAudited, Behind, Published,
                                        checkpointVars, producerVars
<1>7. CASE AppendAudit
  <2>1. /\ UNCHANGED <<log, checkpointVars, classified, inflight, enriched>> /\ pc' = "audited"
        /\ pc = "classified" /\ todo' = BatchRows
        /\ Stored(audit)' = Stored(audit) \cup BatchRows
    <3>1. Stored(AppendRows(audit, BatchRows)) = Stored(audit) \cup BatchRows
      BY AppendRowsStores DEF TypeOK
    <3>2. QED
      BY <1>7, <3>1 DEF AppendAudit, Stored
  <2>2. BatchRows' = BatchRows /\ Incidents(start, committed)' = Incidents(start, committed)
    BY <2>1 DEF BatchRows, Incidents, checkpointVars
  <2>3. Stored(classified)' = Stored(classified) /\ BatchRows \subseteq Stored(classified)
    BY <2>1 DEF Progress
  <2>4. Rows'
    BY <2>1, <2>3 DEF Rows, Published
  <2>5. Ordered' /\ Progress'
    BY <2>1, <2>2, <2>3 DEF Ordered, Progress, checkpointVars
  <2>6. QED
    BY <2>1, <2>2, <2>3, <2>4, <2>5 DEF CommittedIsStored, EnrichedIsAudited, Behind, Published,
                                        checkpointVars
<1>8. CASE Commit
  <2>1. /\ UNCHANGED <<log, begun, start, planned, forgotten, tableVars, producerVars>> /\ pc = "flushed"
        /\ committed' = planned /\ pc' = "idle"
    BY <1>8 DEF Commit
  <2>2. Stored(classified)' = Stored(classified) /\ Stored(audit)' = Stored(audit)
    BY <2>1 DEF tableVars
  <2>3. Incidents(start, committed)' = Incidents(start, committed) \cup BatchRows
    BY <2>1, CommitAddsTheBatch DEF Incidents
  <2>4. BatchRows \subseteq Stored(classified) \cap Stored(audit)
    BY <2>1 DEF Progress
  <2>5. Ordered'
    BY <2>1 DEF Ordered, TypeOK
  <2>6. Progress'
    BY <2>1 DEF Progress
  <2>7. QED
    BY <2>1, <2>2, <2>3, <2>4, <2>5, <2>6 DEF Rows, Behind, Published, CommittedIsStored,
                                              EnrichedIsAudited, producerVars
<1>9. ASSUME NEW r \in Position, Produce(r) \/ Deliver(r) \/ Expire(r) PROVE IInv'
  <2>1. /\ UNCHANGED <<log, checkpointVars, pc, tableVars>>
        /\ todo' \in SUBSET todo
        /\ \/ inflight' \cup enriched' \in SUBSET (inflight \cup enriched)
           \/ pc = "audited" /\ r \in todo /\ inflight' = inflight \cup {r} /\ enriched' = enriched
    BY <1>9 DEF Produce, Deliver, Expire
  <2>2. /\ BatchRows' = BatchRows /\ Incidents(start, committed)' = Incidents(start, committed)
        /\ Stored(classified)' = Stored(classified) /\ Stored(audit)' = Stored(audit)
    BY <2>1 DEF BatchRows, Incidents, checkpointVars, tableVars
  <2>3. EnrichedIsAudited'
    BY <2>1, <2>2 DEF EnrichedIsAudited, Progress
  <2>4. Ordered' /\ Progress'
    BY <2>1, <2>2 DEF Ordered, Progress, checkpointVars
  <2>5. QED
    BY <2>1, <2>2, <2>3, <2>4 DEF Rows, Behind, Published, CommittedIsStored, checkpointVars
<1>10. CASE LoseCheckpoint
  <2>1. /\ UNCHANGED <<log, pc, tableVars, producerVars>> /\ pc = "down"
        /\ start' = committed' /\ planned' = committed' /\ ~begun' /\ forgotten' = Finished
        /\ \A p \in Partition : start'[p] = 0
    BY <1>10 DEF LoseCheckpoint
  <2>2. Incidents(start, committed)' = {}
    BY <2>1 DEF Incidents, Position, TypeOK
  <2>3. Stored(classified)' = Stored(classified) /\ Stored(audit)' = Stored(audit)
    BY <2>1 DEF tableVars
  <2>4. Ordered'
    BY <2>1 DEF Ordered, TypeOK
  <2>5. Progress'
    BY <2>1 DEF Progress
  <2>6. Behind' /\ CommittedIsStored'
    BY <2>1, <2>2, <2>3, FinishedIsStored DEF Behind, CommittedIsStored, Published
  <2>7. QED
    BY <2>1, <2>3, <2>4, <2>5, <2>6 DEF Rows, Published, EnrichedIsAudited, producerVars
<1>11. QED
  BY <1>1, <1>2, <1>4, <1>5, <1>6, <1>7, <1>8, <1>9, <1>10 DEF Next, Batch, Broker

(* IInv is an invariant of the job.                                        *)
THEOREM Invariance == Spec => []IInv
  BY InitIInv, NextIInv, PTL DEF Spec

(* For any partitions, any queue and any number of failures: a restart     *)
(* never skips an incident whose rows are not in both tables.              *)
THEOREM CommittedIsAlwaysStored == Spec => []CommittedIsStored
  BY Invariance, PTL DEF IInv

(* For the same: downstream never sees an incident that has no audit row.  *)
THEOREM EnrichedIsAlwaysAudited == Spec => []EnrichedIsAudited
  BY Invariance, PTL DEF IInv

-----------------------------------------------------------------------------
(* An incident is appended again only while its batch is open: once its    *)
(* offsets are committed, no failure brings it back.                       *)
THEOREM CommittedIsNeverReappended == Spec => NeverReappended
<1> DEFINE Fresh == classified' # classified =>
                      \A r \in classified'[Len(classified')] :
                        committed[r[1]] < r[2] /\ r \notin forgotten
<1>1. IInv /\ [Next]_vars => Fresh
  <2> SUFFICES ASSUME IInv, [Next]_vars, classified' # classified
               PROVE  \A r \in classified'[Len(classified')] :
                        committed[r[1]] < r[2] /\ r \notin forgotten
    OBVIOUS
  <2> USE DEF IInv
  <2>1. AppendClassified
    BY DEF Next, Batch, Broker, vars, tableVars, Publish, FirstStart, Restart, Plan, Collect,
           AppendAudit, Flush, Commit, Produce, Deliver, Expire, Crash, QueueFull, Signal,
           GracefulExit, LoseCheckpoint, Exit
  <2>2. classified' = Append(classified, BatchRows)
    BY <2>1 DEF AppendClassified, AppendRows
  <2>3. classified'[Len(classified')] = BatchRows
    BY <2>2 DEF TypeOK
  <2>4. begun
    BY <2>1 DEF AppendClassified, Progress
  <2>5. ASSUME NEW r \in BatchRows PROVE committed[r[1]] < r[2] /\ r \notin forgotten
    <3>1. /\ r \in Position /\ committed[r[1]] < r[2]
          /\ r[1] \in Partition /\ r[2] \in Nat
      BY <2>5, StreamingAssumption DEF BatchRows, Incidents, Position, StreamingAssumption
    <3>2. start[r[1]] \in Nat /\ committed[r[1]] \in Nat /\ start[r[1]] <= committed[r[1]]
      BY <3>1 DEF TypeOK, Ordered
    <3>3. QED
      BY <2>4, <3>1, <3>2 DEF Behind
  <2>6. QED
    BY <2>3, <2>5
<1>2. QED
  BY <1>1, Invariance, PTL DEF Spec, NeverReappended

(* A planned batch keeps its range until it is committed, whatever fails   *)
(* and however much arrives in between.                                    *)
THEOREM BatchIsReplayedAsPlanned == Spec => ReplayedAsPlanned
<1> DEFINE Same == planned # committed /\ begun' =>
                     planned' = planned /\ BatchRows' \in {BatchRows, {}}
<1>1. IInv /\ [Next]_vars => Same
  <2> SUFFICES ASSUME IInv, [Next]_vars, planned # committed, begun'
               PROVE  planned' = planned /\ BatchRows' \in {BatchRows, {}}
    OBVIOUS
  <2> USE DEF IInv
  <2>1. ASSUME NEW p \in Partition, NEW kind \in Kind, Publish(p, kind)
        PROVE  planned' = planned /\ BatchRows' = BatchRows
    BY <2>1, PublishKeepsRanges DEF Publish, checkpointVars
  <2>2. CASE Commit
    <3>1. planned' = planned /\ committed' = planned
      BY <2>2 DEF Commit
    <3>2. BatchRows' = {}
      BY <3>1 DEF BatchRows, Incidents, Position, TypeOK
    <3>3. QED
      BY <3>1, <3>2
  <2>3. ~FirstStart /\ ~Plan /\ ~LoseCheckpoint
    <3>1. ~(pc = "idle")
      BY DEF Progress
    <3>2. ~FirstStart
      BY DEF FirstStart, Progress
    <3>3. QED
      BY <3>1, <3>2 DEF Plan, LoseCheckpoint
  <2>4. ASSUME UNCHANGED <<log, planned, committed>>
        PROVE  planned' = planned /\ BatchRows' = BatchRows
    BY <2>4 DEF BatchRows, Incidents
  <2>5. QED
    BY <2>1, <2>2, <2>3, <2>4
       DEF Next, Batch, Broker, vars, checkpointVars, Restart, Collect, AppendClassified,
           AppendAudit, Flush, Produce, Deliver, Expire, Crash, QueueFull, Signal,
           GracefulExit, Exit
<1>2. QED
  BY <1>1, Invariance, PTL DEF Spec, ReplayedAsPlanned

-----------------------------------------------------------------------------
(* What has been queued of the open batch still takes its slots, so a batch*)
(* that is through fits the queue.                                         *)
Fits ==
  /\ IsFiniteSet(queue) /\ Cardinality(queue) <= QueueCap
  /\ inflight \subseteq queue
  /\ pc = "audited" => BatchRows \subseteq todo \cup queue
  /\ pc = "flushed" => Cardinality(BatchRows) <= QueueCap

LEMMA InitFits == Init => Fits
BY StreamingAssumption, FS_EmptySet DEF Init, Fits, StreamingAssumption

LEMMA NextFits == IInv /\ Fits /\ [Next]_vars => Fits'
<1> SUFFICES ASSUME IInv, Fits, [Next]_vars PROVE Fits'
  OBVIOUS
<1>1. ASSUME NEW p \in Partition, NEW kind \in Kind, Publish(p, kind) PROVE Fits'
  <2>1. BatchRows' = BatchRows
    BY <1>1, PublishKeepsRanges DEF IInv
  <2>2. QED
    BY <1>1, <2>1 DEF Publish, producerVars, Fits
<1>2. CASE FirstStart \/ Restart \/ Plan \/ Collect \/ AppendClassified \/ Commit \/ LoseCheckpoint
  <2>1. pc' \notin {"audited", "flushed"} /\ UNCHANGED <<queue, inflight>>
    BY <1>2 DEF FirstStart, Restart, Plan, Collect, AppendClassified, Commit, LoseCheckpoint, producerVars
  <2>2. QED
    BY <2>1 DEF Fits
<1>3. CASE AppendAudit
  <2>1. pc' = "audited" /\ todo' = BatchRows /\ UNCHANGED <<log, checkpointVars, queue, inflight>>
    BY <1>3 DEF AppendAudit
  <2>2. BatchRows' = BatchRows
    BY <2>1 DEF BatchRows, Incidents, checkpointVars
  <2>3. QED
    BY <2>1, <2>2 DEF Fits
<1>4. ASSUME NEW r \in Position, Produce(r) PROVE Fits'
  <2>1. /\ pc = "audited" /\ pc' = "audited" /\ Cardinality(queue) < QueueCap
        /\ todo' = todo \ {r} /\ queue' = queue \cup {r} /\ inflight' = inflight \cup {r}
        /\ UNCHANGED <<log, checkpointVars>>
    BY <1>4 DEF Produce
  <2>2. BatchRows' = BatchRows
    BY <2>1 DEF BatchRows, Incidents, checkpointVars
  <2>3. /\ IsFiniteSet(queue \cup {r})
        /\ Cardinality(queue \cup {r}) = IF r \in queue THEN Cardinality(queue) ELSE Cardinality(queue) + 1
    BY FS_AddElement DEF Fits
  <2>4. IsFiniteSet(queue') /\ Cardinality(queue) \in Nat
    BY <2>1, <2>3, FS_CardinalityType DEF Fits
  <2>5. Cardinality(queue') <= QueueCap
    BY <2>1, <2>3, <2>4, StreamingAssumption DEF StreamingAssumption
  <2>6. QED
    BY <2>1, <2>2, <2>3, <2>5 DEF Fits
<1>5. CASE Flush
  <2>1. /\ pc = "audited" /\ pc' = "flushed" /\ todo = {} /\ queue' = inflight /\ inflight' = inflight
        /\ UNCHANGED <<log, checkpointVars>>
    BY <1>5 DEF Flush
  <2>2. BatchRows' = BatchRows
    BY <2>1 DEF BatchRows, Incidents, checkpointVars
  <2>3. \A S \in SUBSET queue : /\ IsFiniteSet(S)
                                /\ Cardinality(S) \in Nat /\ Cardinality(S) <= Cardinality(queue)
    BY FS_Subset, FS_CardinalityType DEF Fits
  <2>4. \A S \in SUBSET queue : IsFiniteSet(S) /\ Cardinality(S) <= QueueCap
    BY <2>3, FS_CardinalityType, StreamingAssumption DEF Fits, StreamingAssumption
  <2>5. BatchRows \in SUBSET queue /\ inflight \in SUBSET queue
    BY <2>1 DEF Fits
  <2>6. QED
    BY <2>1, <2>2, <2>4, <2>5 DEF Fits
<1>6. ASSUME NEW r \in Position, Deliver(r) \/ Expire(r) PROVE Fits'
  <2>1. /\ UNCHANGED <<log, checkpointVars, pc, todo, queue>> /\ inflight' \subseteq inflight
    BY <1>6 DEF Deliver, Expire
  <2>2. BatchRows' = BatchRows
    BY <2>1 DEF BatchRows, Incidents, checkpointVars
  <2>3. QED
    BY <2>1, <2>2 DEF Fits
<1>7. CASE Crash \/ QueueFull \/ GracefulExit
  <2>1. pc' = "down" /\ queue' = {} /\ inflight' = {}
    BY <1>7 DEF Crash, QueueFull, GracefulExit, Exit
  <2>2. QED
    BY <2>1, FS_EmptySet, StreamingAssumption DEF Fits, StreamingAssumption
<1>8. CASE Signal \/ UNCHANGED vars
  <2>1. UNCHANGED <<log, checkpointVars, pc, todo, queue, inflight>>
    BY <1>8 DEF Signal, vars, producerVars
  <2>2. BatchRows' = BatchRows
    BY <2>1 DEF BatchRows, Incidents, checkpointVars
  <2>3. QED
    BY <2>1, <2>2 DEF Fits
<1>9. QED
  BY <1>1, <1>2, <1>3, <1>4, <1>5, <1>6, <1>7, <1>8 DEF Next, Batch, Broker

(* A batch that outgrows the producer's queue is never committed, however  *)
(* often it is retried, for any size of the queue.                         *)
THEOREM OversizedIsNeverCommitted == Spec => OversizedNeverCommits
<1>1. IInv /\ Fits /\ [Next]_vars
        => [committed' # committed /\ begun /\ begun' => Cardinality(BatchRows) <= QueueCap]_vars
  <2> SUFFICES ASSUME Fits, [Next]_vars, committed' # committed, begun, begun'
               PROVE  Cardinality(BatchRows) <= QueueCap
    OBVIOUS
  <2>1. Commit
    BY DEF Next, Batch, Broker, vars, checkpointVars, Publish, FirstStart, Restart, Plan, Collect,
           AppendClassified, AppendAudit, Flush, Produce, Deliver, Expire, Crash, QueueFull, Signal,
           GracefulExit, LoseCheckpoint, Exit
  <2>2. QED
    BY <2>1 DEF Commit, Fits
<1>2. QED
  BY <1>1, InitFits, NextFits, Invariance, PTL DEF Spec, OversizedNeverCommits

-----------------------------------------------------------------------------
(* How often an incident is stored.                                        *)

One(b) == IF b THEN 1 ELSE 0

(* An append adds one copy of each row of the batch.                       *)
LEMMA CopiesOfAppend ==
  ASSUME NEW S, NEW table \in Seq(S), NEW rows \in S, NEW r
  PROVE  /\ Copies(table, r) \in Nat
         /\ Copies(AppendRows(table, rows), r) = Copies(table, r) + One(r \in rows)
<1> DEFINE Files == {i \in DOMAIN table : r \in table[i]}
<1>1. DOMAIN table = 1..Len(table) /\ Len(table) \in Nat
  OBVIOUS
<1>2. IsFiniteSet(1..Len(table))
  BY <1>1, FS_Interval
<1>3. IsFiniteSet(Files) /\ Cardinality(Files) \in Nat
  <2>1. Files \in SUBSET (1..Len(table))
    BY <1>1
  <2>2. QED
    BY <1>2, <2>1, FS_Subset, FS_CardinalityType
<1>4. CASE rows = {}
  BY <1>3, <1>4 DEF AppendRows, Copies, One
<1>5. CASE rows # {}
  <2> DEFINE t == Append(table, rows)
  <2>1. AppendRows(table, rows) = t
    BY <1>5 DEF AppendRows
  <2>2. /\ DOMAIN t = 1..(Len(table) + 1)
        /\ \A i \in 1..Len(table) : t[i] = table[i]
        /\ t[Len(table) + 1] = rows
    OBVIOUS
  <2> HIDE DEF t
  <2>3. CASE r \in rows
    <3>1. {i \in DOMAIN t : r \in t[i]} = Files \cup {Len(table) + 1}
      BY <1>1, <2>2, <2>3
    <3>2. Len(table) + 1 \notin Files
      BY <1>1
    <3> HIDE DEF Files
    <3>3. Cardinality(Files \cup {Len(table) + 1}) = Cardinality(Files) + 1
      BY <1>3, <3>2, FS_AddElement
    <3>4. Copies(t, r) = Cardinality(Files) + 1
      BY <3>1, <3>3 DEF Copies
    <3>5. Copies(table, r) = Cardinality(Files)
      BY DEF Copies, Files
    <3>6. QED
      BY <1>3, <2>1, <2>3, <3>4, <3>5 DEF One
  <2>4. CASE r \notin rows
    <3>1. {i \in DOMAIN t : r \in t[i]} = Files
      BY <1>1, <2>2, <2>4
    <3>2. Copies(t, r) = Cardinality(Files) /\ Copies(table, r) = Cardinality(Files)
      BY <3>1 DEF Copies
    <3> HIDE DEF Files
    <3>3. QED
      BY <1>3, <2>1, <2>4, <3>2 DEF One
  <2>5. QED
    BY <2>3, <2>4
<1>6. QED
  BY <1>4, <1>5

LEMMA NoCopies ==
  ASSUME NEW table, NEW r, r \notin Stored(table)
  PROVE  Copies(table, r) = 0
<1>1. {i \in DOMAIN table : r \in table[i]} = {}
  BY DEF Stored, Range
<1>2. QED
  BY <1>1, FS_EmptySet DEF Copies

(* The batch at hand is in both tables once more than failures hit it, once*)
(* it is written this time, and a stop counts before it takes effect; what *)
(* was never planned is in none.                                           *)
Writing == pc \in {"classified", "audited", "flushed"}

DupInv ==
  /\ stopping => failures >= 1
  /\ \A r \in Position :
       /\ Copies(classified, r) <= failures + 1
       /\ begun /\ committed[r[1]] < r[2] =>
            Copies(classified, r) + One(stopping) <= failures + One(Writing)
       /\ begun /\ planned[r[1]] < r[2] => Copies(classified, r) = 0
       /\ Copies(audit, r) + One(pc = "classified" /\ r \in BatchRows) <= Copies(classified, r)

LEMMA InitDup == Init => DupInv
<1> SUFFICES ASSUME Init PROVE DupInv
  OBVIOUS
<1>1. Stored(classified) = {} /\ Stored(audit) = {}
  BY DEF Init, Stored, Range
<1>2. \A r \in Position : Copies(classified, r) = 0 /\ Copies(audit, r) = 0
  BY <1>1, NoCopies
<1>3. QED
  BY <1>2 DEF Init, DupInv, One

LEMMA NextDup == IInv /\ DupInv /\ [Next]_vars => DupInv'
<1> SUFFICES ASSUME IInv, DupInv, [Next]_vars PROVE DupInv'
  OBVIOUS
<1>T. /\ TypeOK /\ failures \in Nat
      /\ classified \in Seq(SUBSET Position) /\ audit \in Seq(SUBSET Position)
      /\ BatchRows \in SUBSET Position
  BY StreamingAssumption DEF IInv, TypeOK, BatchRows, Incidents, StreamingAssumption
<1>N. \A r \in Position :
        /\ Copies(classified, r) \in Nat /\ Copies(audit, r) \in Nat
        /\ Copies(AppendRows(classified, BatchRows), r) = Copies(classified, r) + One(r \in BatchRows)
        /\ Copies(AppendRows(audit, BatchRows), r) = Copies(audit, r) + One(r \in BatchRows)
  BY <1>T, CopiesOfAppend
<1>P. \A r \in Position :
        /\ r[2] \in Nat /\ committed[r[1]] \in Nat /\ planned[r[1]] \in Nat /\ Len(log[r[1]]) \in Nat
        /\ committed[r[1]] <= planned[r[1]] /\ planned[r[1]] <= Len(log[r[1]])
        /\ End[r[1]] = Len(log[r[1]])
  BY <1>T, StreamingAssumption DEF IInv, TypeOK, Ordered, Position, End, StreamingAssumption
<1>1. ASSUME NEW p \in Partition, NEW kind \in Kind, Publish(p, kind) PROVE DupInv'
  <2>1. BatchRows' = BatchRows
    BY <1>1, PublishKeepsRanges DEF IInv
  <2>2. QED
    BY <1>1, <2>1 DEF Publish, DupInv, Writing, checkpointVars, tableVars
<1>2. CASE FirstStart
  <2>1. /\ planned' = End /\ committed' = End /\ pc' = "idle"
        /\ UNCHANGED <<stopping, classified, audit, failures>>
    BY <1>2 DEF FirstStart, tableVars
  <2>2. ASSUME NEW r \in Position, End[r[1]] < r[2] PROVE Copies(classified, r) = 0
    <3>1. r \notin Stored(classified)
      BY <1>P, <2>2 DEF IInv, Rows, Published
    <3>2. QED
      BY <3>1, NoCopies
  <2>3. QED
    BY <1>T, <1>N, <2>1, <2>2 DEF DupInv, Writing, One
<1>3. CASE LoseCheckpoint
  <2>1. /\ ~begun' /\ pc' = "down" /\ failures' = failures + 1
        /\ UNCHANGED <<stopping, classified, audit>>
    BY <1>3 DEF LoseCheckpoint, Fail, tableVars
  <2>2. QED
    BY <1>T, <1>N, <2>1 DEF DupInv, One
<1>4. CASE Plan
  <2>1. /\ planned' = End /\ pc = "idle" /\ pc' = "planned"
        /\ UNCHANGED <<begun, committed, stopping, classified, audit, failures>>
    BY <1>4 DEF Plan, tableVars
  <2>2. \A r \in Position : planned'[r[1]] < r[2] => planned[r[1]] < r[2]
    BY <1>P, <2>1
  <2>3. QED
    BY <2>1, <2>2 DEF DupInv, Writing, One
<1>5. ASSUME UNCHANGED <<log, checkpointVars, tableVars, stopping, failures>>, Writing' = Writing,
             pc' = "classified" => pc = "classified"
      PROVE  DupInv'
  <2>1. BatchRows' = BatchRows
    BY <1>5 DEF BatchRows, Incidents, checkpointVars
  <2>2. \A r \in Position : Copies(audit, r) + One((pc = "classified" /\ r \in BatchRows)')
                             <= Copies(classified, r)
    BY <1>5, <1>N, <2>1 DEF DupInv, One
  <2>3. QED
    BY <1>5, <2>1, <2>2 DEF DupInv, checkpointVars, tableVars
<1>6. CASE Restart \/ Collect \/ Flush \/ UNCHANGED vars
  <2>1. /\ UNCHANGED <<log, checkpointVars, tableVars, stopping, failures>>
        /\ Writing' = Writing /\ (pc' = "classified" => pc = "classified")
    BY <1>6 DEF Restart, Collect, Flush, vars, Writing
  <2>2. QED
    BY <1>5, <2>1
<1>7. ASSUME NEW r \in Position, Produce(r) \/ Deliver(r) \/ Expire(r) PROVE DupInv'
  <2>1. /\ UNCHANGED <<log, checkpointVars, tableVars, stopping, failures>>
        /\ Writing' = Writing /\ (pc' = "classified" => pc = "classified")
    BY <1>7 DEF Produce, Deliver, Expire, Writing
  <2>2. QED
    BY <1>5, <2>1
<1>8. CASE AppendClassified
  <2>1. /\ pc = "built" /\ pc' = "classified" /\ classified' = AppendRows(classified, BatchRows)
        /\ UNCHANGED <<log, checkpointVars, stopping, audit, failures>>
    BY <1>8 DEF AppendClassified
  <2>2. BatchRows' = BatchRows
    BY <2>1 DEF BatchRows, Incidents, checkpointVars
  <2>3. begun
    BY <2>1 DEF IInv, Progress
  <2>4. \A r \in BatchRows : committed[r[1]] < r[2] /\ r[2] <= planned[r[1]]
    BY DEF BatchRows, Incidents
  <2>5. \A r \in Position : Copies(classified', r) = Copies(classified, r) + One(r \in BatchRows)
    BY <1>N, <2>1
  <2>6. ASSUME NEW r \in Position
        PROVE  /\ Copies(classified', r) <= failures + 1
               /\ committed[r[1]] < r[2] => Copies(classified', r) + One(stopping) <= failures + 1
               /\ planned[r[1]] < r[2] => Copies(classified', r) = 0
               /\ Copies(audit, r) + One(r \in BatchRows) <= Copies(classified', r)
    <3>1. CASE r \in BatchRows
      BY <1>T, <1>N, <1>P, <2>1, <2>3, <2>4, <2>5, <3>1 DEF DupInv, Writing, One
    <3>2. CASE r \notin BatchRows
      BY <1>T, <1>N, <1>P, <2>1, <2>3, <2>5, <3>2 DEF DupInv, Writing, One
    <3>3. QED
      BY <3>1, <3>2
  <2>7. QED
    BY <2>1, <2>2, <2>6 DEF DupInv, Writing, One, checkpointVars
<1>9. CASE AppendAudit
  <2>1. /\ pc = "classified" /\ pc' = "audited" /\ audit' = AppendRows(audit, BatchRows)
        /\ UNCHANGED <<log, checkpointVars, stopping, classified, failures>>
    BY <1>9 DEF AppendAudit
  <2>2. \A r \in Position : Copies(audit', r) <= Copies(classified, r)
    BY <1>N, <2>1 DEF DupInv, One
  <2>3. \A r \in Position : Copies(audit', r) \in Nat
    BY <1>N, <2>1 DEF One
  <2>4. QED
    BY <2>1, <2>2, <2>3 DEF DupInv, Writing, One, checkpointVars
<1>10. CASE Commit
  <2>1. /\ pc = "flushed" /\ pc' = "idle" /\ committed' = planned
        /\ UNCHANGED <<begun, planned, stopping, classified, audit, failures>>
    BY <1>10 DEF Commit, tableVars
  <2>2. QED
    BY <1>T, <1>N, <1>P, <2>1 DEF DupInv, Writing, One
<1>11. CASE Crash \/ QueueFull \/ GracefulExit
  <2>1. /\ pc' = "down" /\ stopping' = FALSE
        /\ UNCHANGED <<begun, planned, committed, classified, audit>>
    BY <1>11 DEF Crash, QueueFull, GracefulExit, Exit, checkpointVars, tableVars
  <2>2. failures' = failures + 1 \/ (stopping /\ failures' = failures)
    BY <1>11 DEF Crash, QueueFull, GracefulExit, Fail
  <2>3. QED
    BY <1>T, <1>N, <2>1, <2>2 DEF DupInv, Writing, One
<1>12. CASE Signal
  <2>1. /\ ~stopping /\ stopping' = TRUE /\ failures' = failures + 1
        /\ UNCHANGED <<log, checkpointVars, pc, classified, audit>>
    BY <1>12 DEF Signal, Fail, tableVars
  <2>2. BatchRows' = BatchRows
    BY <2>1 DEF BatchRows, Incidents, checkpointVars
  <2>3. QED
    BY <1>T, <1>N, <2>1, <2>2 DEF DupInv, Writing, One, checkpointVars
<1>13. QED
  BY <1>1, <1>2, <1>3, <1>4, <1>6, <1>7, <1>8, <1>9, <1>10, <1>11, <1>12 DEF Next, Batch, Broker

(* For any number of failures, losses of the checkpoint included: at most  *)
(* one more row of an incident per failure, and no more audit rows.        *)
THEOREM DuplicatesAreBounded == Spec => []DuplicatesBounded
<1>1. TypeOK /\ IInv /\ DupInv => DuplicatesBounded
  <2> SUFFICES ASSUME TypeOK, IInv, DupInv, NEW r \in Stored(classified)
               PROVE  /\ Copies(classified, r) <= failures + 1
                      /\ Copies(audit, r) <= Copies(classified, r)
    BY DEF DuplicatesBounded
  <2>1. r \in Position
    BY DEF IInv, Rows, Published
  <2>2. Copies(classified, r) \in Nat /\ Copies(audit, r) \in Nat
    BY CopiesOfAppend DEF TypeOK
  <2>3. QED
    BY <2>1, <2>2 DEF DupInv, One
<1>2. QED
  BY <1>1, InitDup, NextDup, TypeCorrect, Invariance, PTL DEF Spec

-----------------------------------------------------------------------------
(* The refinement, step by step: AppendAudit stores, Commit acknowledges,  *)
(* Publish publishes, and every other step is invisible to the feed.       *)
LEMMA InitRefines == Init => Feed!Init
<1> SUFFICES ASSUME Init PROVE Feed!Init
  OBVIOUS
<1>1. \A r \in Position : r[1] \in Partition /\ r[2] \in Nat /\ r[2] >= 1
  BY StreamingAssumption DEF Position, StreamingAssumption
<1>2. \A r \in Position : Len(log[r[1]]) = 0 /\ start[r[1]] = 0 /\ committed[r[1]] = 0
  BY <1>1 DEF Init
<1>3. {r \in Position : r[2] <= Len(log[r[1]])} = {}
  BY <1>1, <1>2
<1>4. {r \in Position : r[2] <= Len(log[r[1]]) /\ log[r[1]][r[2]] = "poison"} = {}
  BY <1>1, <1>2
<1>5. Finished = {}
  BY <1>1, <1>2 DEF Finished, Init
<1>6. Stored(audit) = {} /\ Stored(classified) = {}
  BY DEF Init, Stored, Range
<1>7. QED
  BY <1>3, <1>4, <1>5, <1>6 DEF Feed!Init

(* Every step of the job is a step of the feed or leaves it alone.         *)
LEMMA StepRefines == IInv /\ IInv' /\ [Next]_vars => [Feed!Next]_(Feed!feedVars)
<1> SUFFICES ASSUME IInv, IInv', [Next]_vars PROVE [Feed!Next]_(Feed!feedVars)
  OBVIOUS
<1> USE DEF IInv
<1>0. \A r \in Position : /\ r[1] \in Partition /\ r[2] \in Nat
                          /\ Len(log[r[1]]) \in Nat
                          /\ start[r[1]] \in Nat /\ committed[r[1]] \in Nat
                          /\ planned[r[1]] \in Nat
                          /\ planned[r[1]] <= Len(log[r[1]])
                          /\ committed[r[1]] <= planned[r[1]]
                          /\ r[2] <= Len(log[r[1]]) => log[r[1]][r[2]] \in Kind
  <2> SUFFICES ASSUME NEW r \in Position
               PROVE  r[2] <= Len(log[r[1]]) => log[r[1]][r[2]] \in Kind
    BY StreamingAssumption DEF Position, TypeOK, Ordered, StreamingAssumption
  <2>1. r[1] \in Partition /\ r[2] \in Nat /\ r[2] >= 1
    BY StreamingAssumption DEF Position, StreamingAssumption
  <2>2. log[r[1]] \in Seq(Kind)
    BY <2>1 DEF TypeOK
  <2>3. QED
    BY <2>1, <2>2
<1>1. ASSUME NEW p \in Partition, NEW kind \in Kind, Publish(p, kind)
      PROVE  Feed!Publish
  <2>1. \A r \in Position : r[2] <= Len(log[r[1]]) =>
          r[2] <= Len(log'[r[1]]) /\ log'[r[1]][r[2]] = log[r[1]][r[2]]
    BY <1>1, PublishKeepsRanges
  <2>2. UNCHANGED <<start, committed, forgotten, audit, classified>>
    BY <1>1 DEF Publish, checkpointVars, tableVars
  <2>3. QED
    BY <2>1, <2>2 DEF Feed!Publish, Stored, Finished
<1>2. CASE AppendAudit
  <2>1. Stored(audit)' = Stored(audit) \cup BatchRows
    <3>1. Stored(AppendRows(audit, BatchRows)) = Stored(audit) \cup BatchRows
      BY AppendRowsStores DEF TypeOK
    <3>2. QED
      BY <1>2, <3>1 DEF AppendAudit, Stored
  <2>2. UNCHANGED <<log, start, committed, forgotten, classified>>
    BY <1>2 DEF AppendAudit, checkpointVars
  <2>3. Stored(classified)' = Stored(classified)
    BY <2>2
  <2>4. Stored(classified) \subseteq
          {r \in Position : r[2] <= Len(log[r[1]]) /\ log[r[1]][r[2]] = "incident"}
    BY DEF Rows, Published
  <2>5. QED
    BY <2>1, <2>2, <2>3, <2>4 DEF Feed!Next, Feed!Store, Finished
<1>3. CASE Commit
  <2>1. UNCHANGED <<log, start, forgotten, classified, audit>> /\ committed' = planned
    BY <1>3 DEF Commit, tableVars
  <2>2. Finished' \subseteq (Stored(classified)' \cap Stored(audit)') \cup Published("poison")'
    BY FinishedStaysStored DEF Stored
  <2>3. Finished \subseteq Finished'
    BY <1>0, <2>1 DEF Finished
  <2>4. Feed!Acknowledge
    BY <2>1, <2>2, <2>3 DEF Feed!Acknowledge, Stored, Published
  <2>5. QED
    BY <2>4 DEF Feed!Next
<1>4. CASE FirstStart \/ LoseCheckpoint
  <2>1. UNCHANGED <<log, classified, audit>> /\ start' = committed'
    BY <1>4 DEF FirstStart, LoseCheckpoint, tableVars
  <2>2. {r \in Position : start[r[1]] < r[2] /\ r[2] <= committed[r[1]]}' = {}
    <3>1. \A r \in Position : committed'[r[1]] \in Nat
      BY <1>0 DEF TypeOK
    <3>2. QED
      BY <1>0, <2>1, <3>1
  <2>3. Finished' = Finished
    <3>1. CASE LoseCheckpoint
      BY <2>2, <3>1 DEF LoseCheckpoint, Finished
    <3>2. CASE FirstStart
      <4>1. start = committed /\ forgotten' = forgotten
        BY <3>2 DEF FirstStart, Progress
      <4>2. {r \in Position : start[r[1]] < r[2] /\ r[2] <= committed[r[1]]} = {}
        BY <1>0, <4>1
      <4>3. QED
        BY <2>2, <4>1, <4>2 DEF Finished
    <3>3. QED
      BY <1>4, <3>1, <3>2
  <2>4. UNCHANGED Feed!feedVars
    BY <2>1, <2>3 DEF Feed!feedVars, Stored
  <2>5. QED
    BY <2>4
<1>5. CASE AppendClassified
  <2>1. UNCHANGED <<log, start, committed, forgotten, audit>>
    BY <1>5 DEF AppendClassified, checkpointVars
  <2>2. Stored(classified)' = Stored(classified) \cup BatchRows
    <3>1. Stored(AppendRows(classified, BatchRows)) = Stored(classified) \cup BatchRows
      BY AppendRowsStores DEF TypeOK
    <3>2. QED
      BY <1>5, <3>1 DEF AppendClassified, Stored
  <2>3. (Stored(audit) \cap Stored(classified))' = Stored(audit) \cap Stored(classified)
    BY <2>1, <2>2 DEF Rows
  <2>4. UNCHANGED Feed!feedVars
    BY <2>1, <2>3 DEF Feed!feedVars, Finished
  <2>5. QED
    BY <2>4
<1>6. ASSUME UNCHANGED <<log, start, committed, forgotten, audit, classified>>
      PROVE  UNCHANGED Feed!feedVars
  BY <1>6 DEF Feed!feedVars, Stored, Finished
<1>7. QED
  BY <1>1, <1>2, <1>3, <1>4, <1>5, <1>6
     DEF Feed!Next, Next, Batch, Broker, vars, checkpointVars, tableVars, Restart, Plan, Collect,
         Flush, Produce, Deliver, Expire, Crash, QueueFull, Signal, GracefulExit, Exit

(* The job implements the abstract at-least-once feed, for any partitions, *)
(* queue and number of failures.                                           *)
THEOREM JobImplementsFeed == Spec => ImplementsFeed
<1>1. Init => Feed!Init
  BY InitRefines
<1>2. IInv /\ IInv' /\ [Next]_vars => [Feed!Next]_(Feed!feedVars)
  BY StepRefines
<1>3. QED
  BY <1>1, <1>2, Invariance, PTL DEF Spec, ImplementsFeed, Feed!Spec

-----------------------------------------------------------------------------
(* What the repository says and the code does not guarantee, under exactly *)
(* the conditions the code would need.                                     *)

(* One row per incident holds until something fails.                       *)
THEOREM OneRowUntilFailure == Spec => [](failures = 0 => OneRowPerIncident)
<1>1. TypeOK /\ IInv /\ DuplicatesBounded => (failures = 0 => OneRowPerIncident)
  <2> SUFFICES ASSUME TypeOK, IInv, DuplicatesBounded, failures = 0, NEW r \in Stored(classified)
               PROVE  Copies(classified, r) = 1
    BY DEF OneRowPerIncident
  <2>1. Copies(classified, r) <= 1 /\ Copies(classified, r) \in Nat
    <3>1. Copies(classified, r) \in Nat
      BY CopiesOfAppend DEF TypeOK
    <3>2. Copies(classified, r) <= failures + 1
      BY DEF DuplicatesBounded
    <3>3. QED
      BY <3>1, <3>2
  <2>2. Copies(classified, r) # 0
    <3> DEFINE files == {i \in DOMAIN classified : r \in classified[i]}
    <3>1. IsFiniteSet(files)
      <4>1. DOMAIN classified = 1..Len(classified) /\ Len(classified) \in Nat
        BY DEF TypeOK
      <4>2. IsFiniteSet(1..Len(classified)) /\ files \subseteq 1..Len(classified)
        BY <4>1, FS_Interval
      <4>3. QED
        BY <4>2, FS_Subset
    <3>2. files # {}
      BY DEF Stored, Range
    <3> HIDE DEF files
    <3>3. Cardinality(files) # 0
      BY <3>1, <3>2, FS_EmptySet
    <3>4. QED
      BY <3>3 DEF Copies, files
  <2>3. QED
    BY <2>1, <2>2
<1>2. QED
  BY <1>1, TypeCorrect, Invariance, DuplicatesAreBounded, PTL

(* The broker takes every message before the flush gives up, and drops none*)
(* while the job is alive.                                                 *)
FlushesInTime  == [][pc = "audited" /\ pc' = "flushed" => inflight = {}]_vars
NothingExpires == [][pc' # "down" => inflight \ inflight' \subseteq enriched']_vars

(* What has become of the open batch's messages, and of all before it.     *)
Sent ==
  /\ Incidents(start, committed) \subseteq enriched
  /\ pc = "audited" => BatchRows \subseteq todo \cup inflight \cup enriched
  /\ pc = "flushed" => BatchRows \subseteq enriched

LEMMA InitSent == Init => Sent
<1> SUFFICES ASSUME Init PROVE Sent
  OBVIOUS
<1>1. Incidents(start, committed) = {}
  BY TypeCorrectInit DEF Init, Incidents, Position, TypeOK
<1>2. QED
  BY <1>1 DEF Init, Sent

LEMMA NextSent ==
  ASSUME IInv, Sent, [Next]_vars,
         pc = "audited" /\ pc' = "flushed" => inflight = {},
         pc' # "down" => inflight \ inflight' \subseteq enriched'
  PROVE  Sent'
<1> USE DEF IInv
<1>1. ASSUME NEW p \in Partition, NEW kind \in Kind, Publish(p, kind) PROVE Sent'
  <2>1. Incidents(start, committed)' = Incidents(start, committed) /\ BatchRows' = BatchRows
    BY <1>1, PublishKeepsRanges
  <2>2. QED
    BY <1>1, <2>1 DEF Sent, Publish, producerVars
<1>2. CASE FirstStart
  <2>1. start' = committed' /\ committed' = End /\ pc' = "idle"
    BY <1>2 DEF FirstStart
  <2>2. Incidents(start, committed)' = {}
    BY <2>1, StreamingAssumption DEF Incidents, Position, End, TypeOK
  <2>3. QED
    BY <2>1, <2>2 DEF Sent
<1>3. CASE LoseCheckpoint
  <2>1. start' = committed' /\ committed' = [p \in Partition |-> 0] /\ pc' = "down"
    BY <1>3 DEF LoseCheckpoint
  <2>2. Incidents(start, committed)' = {}
    BY <2>1 DEF Incidents, Position
  <2>3. QED
    BY <2>1, <2>2 DEF Sent
<1>4. ASSUME UNCHANGED <<log, start, committed>>, enriched \subseteq enriched',
             pc' \notin {"audited", "flushed"}
      PROVE  Sent'
  <2>1. Incidents(start, committed)' = Incidents(start, committed)
    BY <1>4 DEF Incidents
  <2>2. QED
    BY <1>4, <2>1 DEF Sent
<1>5. CASE Restart \/ Plan \/ Collect \/ AppendClassified \/ Crash \/ QueueFull \/ GracefulExit
  BY <1>4, <1>5 DEF Restart, Plan, Collect, AppendClassified, Crash, QueueFull, GracefulExit, Exit,
     checkpointVars, producerVars
<1>6. ASSUME UNCHANGED <<log, start, committed, planned>>, enriched \subseteq enriched',
             pc' = "audited" => BatchRows \subseteq todo' \cup inflight' \cup enriched',
             pc' = "flushed" => BatchRows \subseteq enriched'
      PROVE  Sent'
  <2>1. Incidents(start, committed)' = Incidents(start, committed) /\ BatchRows' = BatchRows
    BY <1>6 DEF Incidents, BatchRows
  <2>2. QED
    BY <1>6, <2>1 DEF Sent
<1>7. CASE AppendAudit
  BY <1>6, <1>7 DEF AppendAudit, checkpointVars
<1>8. ASSUME NEW r \in Position, Produce(r) PROVE Sent'
  BY <1>6, <1>8 DEF Produce, checkpointVars, Sent
<1>9. CASE Flush
  <2>1. /\ pc = "audited" /\ pc' = "flushed" /\ todo = {} /\ enriched' = enriched
        /\ UNCHANGED <<log, start, committed, planned>>
    BY <1>9 DEF Flush, checkpointVars
  <2>2. BatchRows \subseteq enriched'
    BY <2>1 DEF Sent
  <2>3. QED
    BY <1>6, <2>1, <2>2
<1>10. CASE Commit
  <2>1. /\ pc = "flushed" /\ pc' = "idle" /\ committed' = planned
        /\ UNCHANGED <<log, start, enriched>>
    BY <1>10 DEF Commit, producerVars
  <2>2. Incidents(start, committed)' = Incidents(start, committed) \cup BatchRows
    <3>1. Incidents(start, committed)' = Incidents(start, planned)
      BY <2>1 DEF Incidents
    <3>2. QED
      BY <3>1, CommitAddsTheBatch
  <2>3. QED
    BY <2>1, <2>2 DEF Sent
<1>11. ASSUME NEW r \in Position, Deliver(r) \/ Expire(r) PROVE Sent'
  <2>1. /\ UNCHANGED <<log, start, committed, planned, pc, todo>>
        /\ enriched \subseteq enriched' /\ inflight' = inflight \ {r}
    BY <1>11 DEF Deliver, Expire, checkpointVars
  <2>2. pc # "down" => inflight \subseteq inflight' \cup enriched'
    BY <2>1
  <2>3. QED
    BY <1>6, <2>1, <2>2 DEF Sent
<1>12. CASE Signal \/ UNCHANGED vars
  BY <1>6, <1>12 DEF Signal, vars, checkpointVars, producerVars, Sent
<1>13. QED
  BY <1>1, <1>2, <1>3, <1>5, <1>7, <1>8, <1>9, <1>10, <1>11, <1>12 DEF Next, Batch, Broker

(* All incidents of committed batches are on the enriched topic, if flush  *)
(* never times out and no message expires: whatever is lost downstream is  *)
(* lost by what the job ignores there, never by a crash, a stop, a full    *)
(* queue, a replay or a lost checkpoint.                                   *)
THEOREM DeliveredMeansAllEnriched ==
  Spec /\ FlushesInTime /\ NothingExpires => []AllEventsEnriched
<1>1. IInv /\ Sent /\ [Next]_vars
        /\ [pc = "audited" /\ pc' = "flushed" => inflight = {}]_vars
        /\ [pc' # "down" => inflight \ inflight' \subseteq enriched']_vars
        => Sent'
  <2>1. CASE UNCHANGED vars
    BY <2>1, NextSent DEF vars, producerVars
  <2>2. CASE ~UNCHANGED vars
    BY <2>2, NextSent
  <2>3. QED
    BY <2>1, <2>2
<1>2. Sent => AllEventsEnriched
  BY DEF Sent, AllEventsEnriched
<1>3. QED
  BY <1>1, <1>2, InitSent, Invariance, PTL DEF Spec, FlushesInTime, NothingExpires
=============================================================================

-------------------------- MODULE BootstrapProofs --------------------------
(***************************************************************************)
(* Proofs about Bootstrap, for any number of topics, folders, tables, runs *)
(* and faults: what a finished run leaves, which runs may fail, and that   *)
(* the scripts implement Provision.                                        *)
(***************************************************************************)
EXTENDS Bootstrap, TLAPS

(* Which phases belong to which script; a loop starts at its first object. *)
Phases ==
  /\ \A p \in TopicRun : pc[p] \in Ended \cup {"list", "await"}
  /\ \A p \in StorageRun \cup TableRun : pc[p] \in Ended \cup {"look", "make"}
  /\ \A p \in Run : pc[p] \in Ended \cup {"list"} => at[p] = 0

(* Requested or there already: nothing is lost between list and answer.    *)
NoneForgotten ==
  \A p \in TopicRun : pc[p] = "await" => Topic \subseteq topics \cup asked[p]

(* A loop has left every object that it has passed.                        *)
PassedIsThere ==
  /\ \A p \in StorageRun : pc[p] \in {"look", "make"} => 0..(at[p] - 1) \subseteq storage
  /\ \A p \in TableRun : pc[p] \in {"look", "make"} => 0..(at[p] - 1) \subseteq catalog

(* Two runs at work in one store are excused, and so is a run on tables    *)
(* with no bucket under it.                                                *)
RivalsExcused ==
  /\ \A p \in Run : \A q \in Rivals(p) : p \in Active /\ q \in Active => excused[p]
  /\ \A p \in TableRun : p \in Active /\ 0 \notin storage => excused[p]

(* Only an excused run is about to create what is there.                   *)
StaleExcused ==
  /\ \A p \in StorageRun : pc[p] = "make" /\ at[p] = 0 /\ 0 \in storage => excused[p]
  /\ \A p \in TableRun : pc[p] = "make" /\ at[p] # 0 /\ at[p] \in catalog => excused[p]

IInv ==
  /\ TypeOK /\ Phases
  /\ NoneForgotten /\ PassedIsThere /\ DoneMeansReady
  /\ RivalsExcused /\ StaleExcused /\ OnlyExcusedRunsFail

-----------------------------------------------------------------------------
LEMMA InitInv == Init => IInv
<1> SUFFICES ASSUME Init PROVE IInv
  OBVIOUS
<1> USE BootstrapAssumption DEF Init
<1>1. TypeOK
  BY DEF TypeOK, Phase, Ended, Run
<1>2. Phases
  BY DEF Phases, Ended, Run
<1>3. NoneForgotten /\ PassedIsThere
  BY DEF NoneForgotten, PassedIsThere, Run
<1>4. DoneMeansReady /\ OnlyExcusedRunsFail
  BY DEF DoneMeansReady, OnlyExcusedRunsFail, Run
<1>5. RivalsExcused /\ StaleExcused
  BY DEF RivalsExcused, StaleExcused, Active, Ended, Run
<1> QED
  BY <1>1, <1>2, <1>3, <1>4, <1>5 DEF IInv

LEMMA StartInv ==
  ASSUME NEW p \in Run, IInv, Start(p)
  PROVE  IInv'
<1> USE BootstrapAssumption DEF Start, IInv, storeVars, topicVars
<1>1. TypeOK'
  BY DEF TypeOK, Phase, Ended, Run
<1>2. Phases'
  BY DEF Phases, TypeOK, Ended, Run
<1>3. NoneForgotten' /\ PassedIsThere'
  BY DEF NoneForgotten, PassedIsThere, Phases, TypeOK, Run
<1>4. DoneMeansReady'
  BY DEF DoneMeansReady, Ready, TypeOK, Run
<1>5. OnlyExcusedRunsFail'
  BY DEF OnlyExcusedRunsFail, TypeOK, Run
<1>6. RivalsExcused'
  <2> DEFINE kept(q) == q \in Run \ {p} => pc'[q] = pc[q] /\ (excused[q] => excused'[q])
  <2>1. \A q : kept(q)
    BY DEF TypeOK
  <2>2. ASSUME NEW r \in Run, NEW q \in Rivals(r), r \in Active', q \in Active'
        PROVE  excused'[r]
    <3>1. q \in Run /\ q # r /\ r \in Rivals(q)
      BY DEF Rivals, Run
    <3>2. CASE r = p
      BY <2>1, <2>2, <3>1, <3>2 DEF Active, TypeOK
    <3>3. CASE q = p
      BY <2>1, <2>2, <3>1, <3>3 DEF Active, TypeOK
    <3>4. CASE r # p /\ q # p
      BY <2>1, <2>2, <3>1, <3>4 DEF Active, TypeOK, RivalsExcused
    <3> QED
      BY <3>2, <3>3, <3>4
  <2>3. ASSUME NEW r \in TableRun, r \in Active', 0 \notin storage'
        PROVE  excused'[r]
    <3>1. r \in Run
      BY DEF Run
    <3>2. CASE r = p
      BY <2>3, <3>2 DEF TypeOK, Run
    <3>3. CASE r # p
      BY <2>1, <2>3, <3>1, <3>3 DEF Active, TypeOK, RivalsExcused
    <3> QED
      BY <3>2, <3>3
  <2>4. \A r \in Run : Rivals(r)' = Rivals(r)
    BY DEF Rivals
  <2> QED
    BY <2>2, <2>3, <2>4 DEF RivalsExcused
<1>7. StaleExcused'
  BY DEF StaleExcused, Phases, TypeOK, Run, Ended
<1> QED
  BY <1>1, <1>2, <1>3, <1>4, <1>5, <1>6, <1>7

LEMMA FaultInv ==
  ASSUME NEW p \in Run, IInv, Fault(p)
  PROVE  IInv'
<1> USE BootstrapAssumption DEF Fault, IInv, storeVars
<1>1. TypeOK'
  BY DEF TypeOK, Phase, Ended, Run
<1>2. Phases'
  BY DEF Phases, TypeOK, Ended, Run
<1>3. NoneForgotten' /\ PassedIsThere'
  BY DEF NoneForgotten, PassedIsThere, TypeOK, Run
<1>4. DoneMeansReady'
  BY DEF DoneMeansReady, Ready, TypeOK, Run
<1>5. OnlyExcusedRunsFail'
  BY DEF OnlyExcusedRunsFail, TypeOK, Run
<1>6. RivalsExcused'
  BY DEF RivalsExcused, Rivals, Active, Ended, TypeOK, Run
<1>7. StaleExcused'
  BY DEF StaleExcused, TypeOK, Run
<1> QED
  BY <1>1, <1>2, <1>3, <1>4, <1>5, <1>6, <1>7

LEMMA ListTopicsInv ==
  ASSUME NEW p \in Run, IInv, ListTopics(p)
  PROVE  IInv'
<1> USE BootstrapAssumption DEF ListTopics, IInv, storeVars, topicVars
<1>1. TypeOK'
  <2>1. pc' \in [Run -> Phase] /\ excused' \in [Run -> BOOLEAN]
    BY DEF TypeOK, Phase, Ended, GoTo, Done
  <2>2. at' \in [Run -> Nat]
    BY DEF TypeOK, GoTo, Done
  <2>3. asked' \in [Run -> SUBSET Topic]
    BY DEF TypeOK, GoTo, Done
  <2>4. /\ \A q \in StorageRun : at'[q] <= Folders
        /\ \A q \in TableRun : at'[q] <= Tables
    BY DEF TypeOK, Run, Phases, Ended, GoTo, Done
  <2>5. /\ topics' \subseteq Topic /\ orphans' \subseteq Topic
        /\ storage' \subseteq 0..Folders /\ catalog' \subseteq 0..Tables
        /\ faults' \in 0..MaxFaults
    BY DEF TypeOK, Run, GoTo, Done
  <2> QED
    BY <2>1, <2>2, <2>3, <2>4, <2>5 DEF TypeOK
<1>2. Phases'
  BY DEF Phases, TypeOK, Ended, Run, GoTo, Done
<1>3. NoneForgotten'
  BY DEF NoneForgotten, TypeOK, Run, Phases, Ended, GoTo, Done
<1>4. PassedIsThere'
  BY DEF PassedIsThere, TypeOK, Run, Phases, Ended, GoTo, Done
<1>5. DoneMeansReady'
  BY DEF DoneMeansReady, Ready, TypeOK, Run, Phases, Ended, PassedIsThere, NoneForgotten, GoTo, Done
<1>6. OnlyExcusedRunsFail'
  BY DEF OnlyExcusedRunsFail, TypeOK, Run, Phases, StaleExcused, RivalsExcused, Active, Ended, GoTo, Done
<1>7. RivalsExcused'
  BY DEF RivalsExcused, Rivals, Active, Ended, TypeOK, Run, Phases, GoTo, Done
<1>8. StaleExcused'
  BY DEF StaleExcused, RivalsExcused, Rivals, Active, Ended, TypeOK, Run, Phases, GoTo, Done
<1> QED
  BY <1>1, <1>2, <1>3, <1>4, <1>5, <1>6, <1>7, <1>8

LEMMA AwaitTopicsInv ==
  ASSUME NEW p \in Run, IInv, AwaitTopics(p)
  PROVE  IInv'
<1> USE BootstrapAssumption DEF AwaitTopics, IInv, storeVars, topicVars
<1>1. TypeOK'
  BY DEF TypeOK, Phase, Ended, Run, Phases, Done
<1>2. Phases'
  BY DEF Phases, TypeOK, Ended, Run, Done
<1>3. NoneForgotten'
  BY DEF NoneForgotten, TypeOK, Run, Phases, Ended, Done
<1>4. PassedIsThere'
  BY DEF PassedIsThere, TypeOK, Run, Phases, Ended, Done
<1>5. DoneMeansReady'
  BY DEF DoneMeansReady, Ready, TypeOK, Run, Phases, Ended, PassedIsThere, NoneForgotten, Done
<1>6. OnlyExcusedRunsFail'
  BY DEF OnlyExcusedRunsFail, TypeOK, Run, Phases, StaleExcused, RivalsExcused, Active, Ended, Done
<1>7. RivalsExcused'
  BY DEF RivalsExcused, Rivals, Active, Ended, TypeOK, Run, Phases, Done
<1>8. StaleExcused'
  BY DEF StaleExcused, RivalsExcused, Rivals, Active, Ended, TypeOK, Run, Phases, Done
<1> QED
  BY <1>1, <1>2, <1>3, <1>4, <1>5, <1>6, <1>7, <1>8

LEMMA AnswerTopicInv ==
  ASSUME NEW p \in TopicRun, NEW t \in Topic, IInv, AnswerTopic(p, t)
  PROVE  IInv'
<1> USE BootstrapAssumption DEF AnswerTopic, IInv, storeVars, topicVars
<1>1. TypeOK'
  BY DEF TypeOK, Phase, Ended, Run, Phases, Phase
<1>2. Phases'
  BY DEF Phases, TypeOK, Ended, Run, Phase
<1>3. NoneForgotten'
  BY DEF NoneForgotten, TypeOK, Run, Phases, Ended, Phase
<1>4. PassedIsThere'
  BY DEF PassedIsThere, TypeOK, Run, Phases, Ended, Phase
<1>5. DoneMeansReady'
  BY DEF DoneMeansReady, Ready, TypeOK, Run, Phases, Ended, PassedIsThere, NoneForgotten, Phase
<1>6. OnlyExcusedRunsFail'
  BY DEF OnlyExcusedRunsFail, TypeOK, Run, Phases, StaleExcused, RivalsExcused, Active, Ended, Phase
<1>7. RivalsExcused'
  BY DEF RivalsExcused, Rivals, Active, Ended, TypeOK, Run, Phases, Phase
<1>8. StaleExcused'
  BY DEF StaleExcused, RivalsExcused, Rivals, Active, Ended, TypeOK, Run, Phases, Phase
<1> QED
  BY <1>1, <1>2, <1>3, <1>4, <1>5, <1>6, <1>7, <1>8

LEMMA AnswerOrphanInv ==
  ASSUME NEW t \in Topic, IInv, AnswerOrphan(t)
  PROVE  IInv'
<1> USE BootstrapAssumption DEF AnswerOrphan, IInv, storeVars, topicVars
<1>1. TypeOK'
  BY DEF TypeOK, Phase, Ended, Run, Phases, Phase
<1>2. Phases'
  BY DEF Phases, TypeOK, Ended, Run, Phase
<1>3. NoneForgotten'
  BY DEF NoneForgotten, TypeOK, Run, Phases, Ended, Phase
<1>4. PassedIsThere'
  BY DEF PassedIsThere, TypeOK, Run, Phases, Ended, Phase
<1>5. DoneMeansReady'
  BY DEF DoneMeansReady, Ready, TypeOK, Run, Phases, Ended, PassedIsThere, NoneForgotten, Phase
<1>6. OnlyExcusedRunsFail'
  BY DEF OnlyExcusedRunsFail, TypeOK, Run, Phases, StaleExcused, RivalsExcused, Active, Ended, Phase
<1>7. RivalsExcused'
  BY DEF RivalsExcused, Rivals, Active, Ended, TypeOK, Run, Phases, Phase
<1>8. StaleExcused'
  BY DEF StaleExcused, RivalsExcused, Rivals, Active, Ended, TypeOK, Run, Phases, Phase
<1> QED
  BY <1>1, <1>2, <1>3, <1>4, <1>5, <1>6, <1>7, <1>8

LEMMA HeadObjectInv ==
  ASSUME NEW p \in Run, IInv, HeadObject(p)
  PROVE  IInv'
<1> USE BootstrapAssumption DEF HeadObject, IInv, storeVars, topicVars
<1>1. TypeOK'
  <2>1. pc' \in [Run -> Phase] /\ excused' \in [Run -> BOOLEAN]
    BY DEF TypeOK, Phase, Ended, Advance, GoTo, Done
  <2>2. at' \in [Run -> Nat]
    BY DEF TypeOK, Advance, GoTo, Done
  <2>3. asked' \in [Run -> SUBSET Topic]
    BY DEF TypeOK, Advance, GoTo, Done
  <2>4. /\ \A q \in StorageRun : at'[q] <= Folders
        /\ \A q \in TableRun : at'[q] <= Tables
    BY DEF TypeOK, Run, Phases, Ended, Advance, GoTo, Done
  <2>5. /\ topics' \subseteq Topic /\ orphans' \subseteq Topic
        /\ storage' \subseteq 0..Folders /\ catalog' \subseteq 0..Tables
        /\ faults' \in 0..MaxFaults
    BY DEF TypeOK, Run, Advance, GoTo, Done
  <2> QED
    BY <2>1, <2>2, <2>3, <2>4, <2>5 DEF TypeOK
<1>2. Phases'
  BY DEF Phases, TypeOK, Ended, Run, Advance, GoTo, Done
<1>3. NoneForgotten'
  BY DEF NoneForgotten, TypeOK, Run, Phases, Ended, Advance, GoTo, Done
<1>4. PassedIsThere'
  BY DEF PassedIsThere, TypeOK, Run, Phases, Ended, Advance, GoTo, Done
<1>5. DoneMeansReady'
  BY DEF DoneMeansReady, Ready, TypeOK, Run, Phases, Ended, PassedIsThere, NoneForgotten, Advance, GoTo, Done
<1>6. OnlyExcusedRunsFail'
  BY DEF OnlyExcusedRunsFail, TypeOK, Run, Phases, StaleExcused, RivalsExcused, Active, Ended, Advance, GoTo, Done
<1>7. RivalsExcused'
  BY DEF RivalsExcused, Rivals, Active, Ended, TypeOK, Run, Phases, Advance, GoTo, Done
<1>8. StaleExcused'
  BY DEF StaleExcused, RivalsExcused, Rivals, Active, Ended, TypeOK, Run, Phases, Advance, GoTo, Done
<1> QED
  BY <1>1, <1>2, <1>3, <1>4, <1>5, <1>6, <1>7, <1>8

LEMMA CreateBucketInv ==
  ASSUME NEW p \in Run, IInv, CreateBucket(p)
  PROVE  IInv'
<1> USE BootstrapAssumption DEF CreateBucket, IInv, storeVars, topicVars
<1>1. TypeOK'
  <2>1. pc' \in [Run -> Phase] /\ excused' \in [Run -> BOOLEAN]
    BY DEF TypeOK, Phase, Ended, Advance, Done, Raise
  <2>2. at' \in [Run -> Nat]
    BY DEF TypeOK, Advance, Done, Raise
  <2>3. asked' \in [Run -> SUBSET Topic]
    BY DEF TypeOK, Advance, Done, Raise
  <2>4. /\ \A q \in StorageRun : at'[q] <= Folders
        /\ \A q \in TableRun : at'[q] <= Tables
    BY DEF TypeOK, Run, Phases, Ended, Advance, Done, Raise
  <2>5. /\ topics' \subseteq Topic /\ orphans' \subseteq Topic
        /\ storage' \subseteq 0..Folders /\ catalog' \subseteq 0..Tables
        /\ faults' \in 0..MaxFaults
    BY DEF TypeOK, Run, Advance, Done, Raise
  <2> QED
    BY <2>1, <2>2, <2>3, <2>4, <2>5 DEF TypeOK
<1>2. Phases'
  BY DEF Phases, TypeOK, Ended, Run, Advance, Done, Raise
<1>3. NoneForgotten'
  BY DEF NoneForgotten, TypeOK, Run, Phases, Ended, Advance, Done, Raise
<1>4. PassedIsThere'
  BY DEF PassedIsThere, TypeOK, Run, Phases, Ended, Advance, Done, Raise
<1>5. DoneMeansReady'
  BY DEF DoneMeansReady, Ready, TypeOK, Run, Phases, Ended, PassedIsThere, NoneForgotten, Advance, Done, Raise
<1>6. OnlyExcusedRunsFail'
  BY DEF OnlyExcusedRunsFail, TypeOK, Run, Phases, StaleExcused, RivalsExcused, Active, Ended, Advance, Done, Raise
<1>7. RivalsExcused'
  BY DEF RivalsExcused, Rivals, Active, Ended, TypeOK, Run, Phases, Advance, Done, Raise
<1>8. StaleExcused'
  BY DEF StaleExcused, RivalsExcused, Rivals, Active, Ended, TypeOK, Run, Phases, Advance, Done, Raise
<1> QED
  BY <1>1, <1>2, <1>3, <1>4, <1>5, <1>6, <1>7, <1>8

LEMMA PutFolderInv ==
  ASSUME NEW p \in Run, IInv, PutFolder(p)
  PROVE  IInv'
<1> USE BootstrapAssumption DEF PutFolder, IInv, storeVars, topicVars
<1>1. TypeOK'
  <2>1. pc' \in [Run -> Phase] /\ excused' \in [Run -> BOOLEAN]
    BY DEF TypeOK, Phase, Ended, Advance, Done
  <2>2. at' \in [Run -> Nat]
    BY DEF TypeOK, Advance, Done
  <2>3. asked' \in [Run -> SUBSET Topic]
    BY DEF TypeOK, Advance, Done
  <2>4. /\ \A q \in StorageRun : at'[q] <= Folders
        /\ \A q \in TableRun : at'[q] <= Tables
    BY DEF TypeOK, Run, Phases, Ended, Advance, Done
  <2>6. at[p] \in 0..Folders
    BY DEF TypeOK, Run
  <2>5. /\ topics' \subseteq Topic /\ orphans' \subseteq Topic
        /\ storage' \subseteq 0..Folders /\ catalog' \subseteq 0..Tables
        /\ faults' \in 0..MaxFaults
    BY <2>6 DEF TypeOK, Advance, Done
  <2> QED
    BY <2>1, <2>2, <2>3, <2>4, <2>5 DEF TypeOK
<1>2. Phases'
  BY DEF Phases, TypeOK, Ended, Run, Advance, Done
<1>3. NoneForgotten'
  BY DEF NoneForgotten, TypeOK, Run, Phases, Ended, Advance, Done
<1>4. PassedIsThere'
  BY DEF PassedIsThere, TypeOK, Run, Phases, Ended, Advance, Done
<1>5. DoneMeansReady'
  BY DEF DoneMeansReady, Ready, TypeOK, Run, Phases, Ended, PassedIsThere, NoneForgotten, Advance, Done
<1>6. OnlyExcusedRunsFail'
  BY DEF OnlyExcusedRunsFail, TypeOK, Run, Phases, StaleExcused, RivalsExcused, Active, Ended, Advance, Done
<1>7. RivalsExcused'
  BY DEF RivalsExcused, Rivals, Active, Ended, TypeOK, Run, Phases, Advance, Done
<1>8. StaleExcused'
  BY DEF StaleExcused, RivalsExcused, Rivals, Active, Ended, TypeOK, Run, Phases, Advance, Done
<1> QED
  BY <1>1, <1>2, <1>3, <1>4, <1>5, <1>6, <1>7, <1>8

LEMMA CreateNamespaceInv ==
  ASSUME NEW p \in Run, IInv, CreateNamespace(p)
  PROVE  IInv'
<1> USE BootstrapAssumption DEF CreateNamespace, IInv, storeVars, topicVars
<1>1. TypeOK'
  <2>1. pc' \in [Run -> Phase] /\ excused' \in [Run -> BOOLEAN]
    BY DEF TypeOK, Phase, Ended, Advance, Done
  <2>2. at' \in [Run -> Nat]
    BY DEF TypeOK, Advance, Done
  <2>3. asked' \in [Run -> SUBSET Topic]
    BY DEF TypeOK, Advance, Done
  <2>4. /\ \A q \in StorageRun : at'[q] <= Folders
        /\ \A q \in TableRun : at'[q] <= Tables
    BY DEF TypeOK, Run, Phases, Ended, Advance, Done
  <2>5. /\ topics' \subseteq Topic /\ orphans' \subseteq Topic
        /\ storage' \subseteq 0..Folders /\ catalog' \subseteq 0..Tables
        /\ faults' \in 0..MaxFaults
    BY DEF TypeOK, Run, Advance, Done
  <2> QED
    BY <2>1, <2>2, <2>3, <2>4, <2>5 DEF TypeOK
<1>2. Phases'
  BY DEF Phases, TypeOK, Ended, Run, Advance, Done
<1>3. NoneForgotten'
  BY DEF NoneForgotten, TypeOK, Run, Phases, Ended, Advance, Done
<1>4. PassedIsThere'
  BY DEF PassedIsThere, TypeOK, Run, Phases, Ended, Advance, Done
<1>5. DoneMeansReady'
  BY DEF DoneMeansReady, Ready, TypeOK, Run, Phases, Ended, PassedIsThere, NoneForgotten, Advance, Done
<1>6. OnlyExcusedRunsFail'
  BY DEF OnlyExcusedRunsFail, TypeOK, Run, Phases, StaleExcused, RivalsExcused, Active, Ended, Advance, Done
<1>7. RivalsExcused'
  BY DEF RivalsExcused, Rivals, Active, Ended, TypeOK, Run, Phases, Advance, Done
<1>8. StaleExcused'
  BY DEF StaleExcused, RivalsExcused, Rivals, Active, Ended, TypeOK, Run, Phases, Advance, Done
<1> QED
  BY <1>1, <1>2, <1>3, <1>4, <1>5, <1>6, <1>7, <1>8

LEMMA LoadTableInv ==
  ASSUME NEW p \in Run, IInv, LoadTable(p)
  PROVE  IInv'
<1> USE BootstrapAssumption DEF LoadTable, IInv, storeVars, topicVars
<1>1. TypeOK'
  <2>1. pc' \in [Run -> Phase] /\ excused' \in [Run -> BOOLEAN]
    BY DEF TypeOK, Phase, Ended, Advance, GoTo, Done
  <2>2. at' \in [Run -> Nat]
    BY DEF TypeOK, Advance, GoTo, Done
  <2>3. asked' \in [Run -> SUBSET Topic]
    BY DEF TypeOK, Advance, GoTo, Done
  <2>4. /\ \A q \in StorageRun : at'[q] <= Folders
        /\ \A q \in TableRun : at'[q] <= Tables
    BY DEF TypeOK, Run, Phases, Ended, Advance, GoTo, Done
  <2>5. /\ topics' \subseteq Topic /\ orphans' \subseteq Topic
        /\ storage' \subseteq 0..Folders /\ catalog' \subseteq 0..Tables
        /\ faults' \in 0..MaxFaults
    BY DEF TypeOK, Run, Advance, GoTo, Done
  <2> QED
    BY <2>1, <2>2, <2>3, <2>4, <2>5 DEF TypeOK
<1>2. Phases'
  BY DEF Phases, TypeOK, Ended, Run, Advance, GoTo, Done
<1>3. NoneForgotten'
  BY DEF NoneForgotten, TypeOK, Run, Phases, Ended, Advance, GoTo, Done
<1>4. PassedIsThere'
  BY DEF PassedIsThere, TypeOK, Run, Phases, Ended, Advance, GoTo, Done
<1>5. DoneMeansReady'
  BY DEF DoneMeansReady, Ready, TypeOK, Run, Phases, Ended, PassedIsThere, NoneForgotten, Advance, GoTo, Done
<1>6. OnlyExcusedRunsFail'
  BY DEF OnlyExcusedRunsFail, TypeOK, Run, Phases, StaleExcused, RivalsExcused, Active, Ended, Advance, GoTo, Done
<1>7. RivalsExcused'
  BY DEF RivalsExcused, Rivals, Active, Ended, TypeOK, Run, Phases, Advance, GoTo, Done
<1>8. StaleExcused'
  BY DEF StaleExcused, RivalsExcused, Rivals, Active, Ended, TypeOK, Run, Phases, Advance, GoTo, Done
<1> QED
  BY <1>1, <1>2, <1>3, <1>4, <1>5, <1>6, <1>7, <1>8

LEMMA CreateTableInv ==
  ASSUME NEW p \in Run, IInv, CreateTable(p)
  PROVE  IInv'
<1> USE BootstrapAssumption DEF CreateTable, IInv, storeVars, topicVars
<1>1. TypeOK'
  <2>1. pc' \in [Run -> Phase] /\ excused' \in [Run -> BOOLEAN]
    BY DEF TypeOK, Phase, Ended, Advance, Done, Raise
  <2>2. at' \in [Run -> Nat]
    BY DEF TypeOK, Advance, Done, Raise
  <2>3. asked' \in [Run -> SUBSET Topic]
    BY DEF TypeOK, Advance, Done, Raise
  <2>4. /\ \A q \in StorageRun : at'[q] <= Folders
        /\ \A q \in TableRun : at'[q] <= Tables
    BY DEF TypeOK, Run, Phases, Ended, Advance, Done, Raise
  <2>6. at[p] \in 0..Tables
    BY DEF TypeOK, Run
  <2>5. /\ topics' \subseteq Topic /\ orphans' \subseteq Topic
        /\ storage' \subseteq 0..Folders /\ catalog' \subseteq 0..Tables
        /\ faults' \in 0..MaxFaults
    BY <2>6 DEF TypeOK, Advance, Done, Raise
  <2> QED
    BY <2>1, <2>2, <2>3, <2>4, <2>5 DEF TypeOK
<1>2. Phases'
  BY DEF Phases, TypeOK, Ended, Run, Advance, Done, Raise
<1>3. NoneForgotten'
  BY DEF NoneForgotten, TypeOK, Run, Phases, Ended, Advance, Done, Raise
<1>4. PassedIsThere'
  BY DEF PassedIsThere, TypeOK, Run, Phases, Ended, Advance, Done, Raise
<1>5. DoneMeansReady'
  BY DEF DoneMeansReady, Ready, TypeOK, Run, Phases, Ended, PassedIsThere, NoneForgotten, Advance, Done, Raise
<1>6. OnlyExcusedRunsFail'
  BY DEF OnlyExcusedRunsFail, TypeOK, Run, Phases, StaleExcused, RivalsExcused, Active, Ended, Advance, Done, Raise
<1>7. RivalsExcused'
  BY DEF RivalsExcused, Rivals, Active, Ended, TypeOK, Run, Phases, Advance, Done, Raise
<1>8. StaleExcused'
  BY DEF StaleExcused, RivalsExcused, Rivals, Active, Ended, TypeOK, Run, Phases, Advance, Done, Raise
<1> QED
  BY <1>1, <1>2, <1>3, <1>4, <1>5, <1>6, <1>7, <1>8

-----------------------------------------------------------------------------
THEOREM Inductive == Spec => []IInv
<1>1. IInv /\ [Next]_vars => IInv'
  <2> SUFFICES ASSUME IInv, [Next]_vars PROVE IInv'
    OBVIOUS
  <2>1. ASSUME NEW p \in Run, Start(p) PROVE IInv'
    BY <2>1, StartInv
  <2>2. ASSUME NEW p \in Run, Fault(p) PROVE IInv'
    BY <2>2, FaultInv
  <2>3. ASSUME NEW p \in Run, Work(p) PROVE IInv'
    BY <2>3, ListTopicsInv, AwaitTopicsInv, HeadObjectInv, CreateBucketInv,
       PutFolderInv, CreateNamespaceInv, LoadTableInv, CreateTableInv DEF Work
  <2>4. CASE Broker
    BY <2>4, AnswerTopicInv, AnswerOrphanInv DEF Broker
  <2>5. CASE UNCHANGED vars
    <3> USE DEF vars, storeVars, topicVars
    <3>1. TypeOK' /\ Phases' /\ NoneForgotten' /\ PassedIsThere'
      BY <2>5 DEF IInv, TypeOK, Phases, NoneForgotten, PassedIsThere
    <3>2. DoneMeansReady' /\ OnlyExcusedRunsFail'
      BY <2>5 DEF IInv, DoneMeansReady, Ready, OnlyExcusedRunsFail
    <3>3. RivalsExcused' /\ StaleExcused'
      BY <2>5 DEF IInv, RivalsExcused, StaleExcused, Rivals, Active
    <3> QED
      BY <3>1, <3>2, <3>3 DEF IInv
  <2> QED
    BY <2>1, <2>2, <2>3, <2>4, <2>5 DEF Next
<1> QED
  BY <1>1, InitInv, PTL DEF Spec

(* Every variable keeps its type, and no loop goes past its list.          *)
THEOREM TypeCorrect == Spec => []TypeOK
BY Inductive, PTL DEF IInv

(* A run that ended without an error has left every object of its list.    *)
THEOREM FinishedRunsAreReady == Spec => []DoneMeansReady
BY Inductive, PTL DEF IInv

(* A run fails only by a fault, a rival at work, or for want of a bucket.  *)
THEOREM RerunsDoNotFail == Spec => []OnlyExcusedRunsFail
BY Inductive, PTL DEF IInv

-----------------------------------------------------------------------------
(* Stores only grow, and hold nothing but what is wanted.                  *)
LEMMA StoresGrow ==
  ASSUME IInv, [Next]_vars
  PROVE  topics \subseteq topics' /\ storage \subseteq storage' /\ catalog \subseteq catalog'
<1>1. ASSUME NEW p \in Run, Start(p) \/ Fault(p) \/ Work(p)
      PROVE  topics \subseteq topics' /\ storage \subseteq storage' /\ catalog \subseteq catalog'
  BY <1>1 DEF Start, Fault, Work, ListTopics, AwaitTopics, HeadObject, CreateBucket,
     PutFolder, CreateNamespace, LoadTable, CreateTable, storeVars
<1>2. ASSUME Broker \/ UNCHANGED vars
      PROVE  topics \subseteq topics' /\ storage \subseteq storage' /\ catalog \subseteq catalog'
  BY <1>2 DEF Broker, AnswerTopic, AnswerOrphan, vars, storeVars
<1> QED
  BY <1>1, <1>2 DEF Next

(* The three scripts implement the abstract specification: objects appear, *)
(* stay, are those wanted, and a run is finished only with all it needs.   *)
THEOREM Provides == Spec => Provisioned!Spec
<1>1. Init => Provisioned!Init
  BY DEF Init, Provisioned!Init, Objects, Run
<1>2. IInv /\ IInv' /\ [Next]_vars => [Provisioned!Next]_(Provisioned!provisionVars)
  <2> SUFFICES ASSUME IInv, IInv', [Next]_vars PROVE Provisioned!Next
    OBVIOUS
  <2>1. Objects(topics, storage, catalog) \subseteq Objects(topics', storage', catalog')
    BY StoresGrow DEF Objects
  <2>2. Objects(topics', storage', catalog') \subseteq Objects(Topic, 0..Folders, 0..Tables)
    BY DEF IInv, TypeOK, Objects
  <2>3. ASSUME NEW r \in Run, pc'[r] = "done"
        PROVE  (CASE r \in TopicRun   -> Objects(Topic, {}, {})
                  [] r \in StorageRun -> Objects({}, 0..Folders, {})
                  [] OTHER            -> Objects({}, {}, 0..Tables))
                 \subseteq Objects(topics', storage', catalog')
    <3>1. Ready(r)'
      BY <2>3 DEF IInv, DoneMeansReady
    <3>2. CASE r \in TopicRun
      BY <3>1, <3>2 DEF Ready, Objects
    <3>3. CASE r \in StorageRun /\ r \notin TopicRun
      BY <3>1, <3>3 DEF Ready, Objects
    <3>4. CASE r \notin StorageRun /\ r \notin TopicRun
      BY <3>1, <3>4 DEF Ready, Objects
    <3> QED
      BY <3>2, <3>3, <3>4
  <2> QED
    BY <2>1, <2>2, <2>3 DEF Provisioned!Next
<1> QED
  BY <1>1, <1>2, Inductive, PTL DEF Spec, Provisioned!Spec
=============================================================================

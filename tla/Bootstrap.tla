----------------------------- MODULE Bootstrap -----------------------------
(***************************************************************************)
(* The three scripts that make what the pipeline writes to: topics_setup   *)
(* (Kafka topics), s3_config (the MinIO bucket and its folder markers) and *)
(* iceberg_tables (the namespace and tables; the streaming job calls it at *)
(* every start).  Each looks for an object and then creates what it did not*)
(* see.  Runs may overlap, die anywhere and be started again.              *)
(*                                                                         *)
(* Kafka, MinIO and the SQL catalog are external: creating is atomic, and  *)
(* refused by the bucket and table stores when the object exists.  A table *)
(* keeps its metadata in the bucket, so it cannot be made before it.       *)
(***************************************************************************)
EXTENDS Naturals, FiniteSets

CONSTANTS
  Topic,        (* Names in TOPIC_SPECS.                                   *)
  Folders,      (* Number of FOLDER_PREFIXES.                              *)
  Tables,       (* Number of tables create_all_tables goes through.        *)
  TopicRun, StorageRun, TableRun,   (* Processes running each script.      *)
  MaxActive,    (* Bound: processes at work at once.                       *)
  MaxFaults     (* Bound: crashes and failed calls.                        *)

ASSUME BootstrapAssumption ==
  /\ Folders \in Nat /\ Tables \in Nat
  /\ TopicRun \cap StorageRun = {}
  /\ TopicRun \cap TableRun = {}
  /\ StorageRun \cap TableRun = {}
  /\ MaxActive \in Nat \ {0} /\ MaxFaults \in Nat

VARIABLES
  topics,       (* Topics of the broker.                                   *)
  storage,      (* 0 for the bucket, k for its k-th folder marker.         *)
  catalog,      (* 0 for the namespace, k for its k-th table.              *)
  pc,           (* What each process is doing.                             *)
  at,           (* The object its loop has reached.                        *)
  asked,        (* Topics it asked for and has no answer for.              *)
  orphans,      (* Requests of processes that are gone.                    *)
  excused,      (* History: a fault, another process in the same store or a*)
                (* missing bucket may make its run fail.                   *)
  faults        (* Counts towards MaxFaults.                               *)

storeVars == <<topics, storage, catalog>>
topicVars == <<asked, orphans>>
vars == <<storeVars, pc, at, topicVars, excused, faults>>

Run   == TopicRun \cup StorageRun \cup TableRun
Ended == {"off", "done", "failed"}
Phase == Ended \cup {"list", "await", "look", "make"}

Active == {p \in Run : pc[p] \notin Ended}

(* Processes whose look-ups one of p's can go stale against.               *)
Rivals(p) ==
  CASE p \in StorageRun -> StorageRun \ {p}
    [] p \in TableRun   -> TableRun \ {p}
    [] OTHER            -> {}

-----------------------------------------------------------------------------
Init ==
  /\ topics = {} /\ storage = {} /\ catalog = {}
  /\ pc = [p \in Run |-> "off"]
  /\ at = [p \in Run |-> 0]
  /\ asked = [p \in Run |-> {}]
  /\ orphans = {}
  /\ excused = [p \in Run |-> FALSE]
  /\ faults = 0

(* main of any of the scripts, run for the first time or again.            *)
Start(p) ==
  /\ pc[p] \in Ended
  /\ Cardinality(Active) < MaxActive
  /\ pc' = [pc EXCEPT ![p] = CASE p \in TopicRun   -> "list"
                               [] p \in StorageRun -> "look"
                               [] OTHER            -> "make"]
  /\ excused' = [q \in Run |->
       IF q = p THEN Rivals(p) \cap Active # {} \/ (p \in TableRun /\ 0 \notin storage)
                ELSE excused[q] \/ q \in Rivals(p) \cap Active]
  /\ UNCHANGED <<storeVars, at, topicVars, faults>>

(* The process dies, gives up on the broker (30 s), or a call other than   *)
(* a creation of what exists fails.  What it has asked for is on its way.  *)
Fault(p) ==
  /\ p \in Active
  /\ faults < MaxFaults /\ faults' = faults + 1
  /\ pc' = [pc EXCEPT ![p] = "failed"]
  /\ orphans' = orphans \cup asked[p]
  /\ asked' = [asked EXCEPT ![p] = {}]
  /\ at' = [at EXCEPT ![p] = 0]
  /\ excused' = [excused EXCEPT ![p] = TRUE]
  /\ UNCHANGED storeVars

(* The run goes on to another phase, or is over.                           *)
GoTo(p, phase) ==
  /\ pc' = [pc EXCEPT ![p] = phase]
  /\ UNCHANGED <<at, excused>>

Done(p) ==
  /\ pc' = [pc EXCEPT ![p] = "done"]
  /\ at' = [at EXCEPT ![p] = 0]
  /\ excused' = [excused EXCEPT ![p] = FALSE]

Raise(p) ==
  /\ pc' = [pc EXCEPT ![p] = "failed"]
  /\ at' = [at EXCEPT ![p] = 0]
  /\ UNCHANGED excused

(* The loop has dealt with one object: on to the next, up to the last.     *)
Advance(p, last) ==
  IF at[p] = last THEN Done(p)
  ELSE /\ pc' = [pc EXCEPT ![p] = "look"]
       /\ at' = [at EXCEPT ![p] = @ + 1]
       /\ UNCHANGED excused

-----------------------------------------------------------------------------
(* topics_setup                                                            *)

(* Mutant of ListTopics: any topic there is taken for all.                 *)
ListAnyTopic(p) ==
  /\ pc[p] = "list"
  /\ IF topics # {} THEN Done(p) /\ UNCHANGED asked
     ELSE GoTo(p, "await") /\ asked' = [asked EXCEPT ![p] = Topic \ topics]
  /\ UNCHANGED <<storeVars, orphans, faults>>

(* _existing_topics, once, then one request for all that were not seen.    *)
ListTopics(p) ==
  /\ pc[p] = "list"
  /\ IF Topic \subseteq topics THEN Done(p) /\ UNCHANGED asked
     ELSE GoTo(p, "await") /\ asked' = [asked EXCEPT ![p] = Topic \ topics]
  /\ UNCHANGED <<storeVars, orphans, faults>>

(* The broker makes a topic, or finds it made in the meantime.             *)
AnswerTopic(p, t) ==
  /\ t \in asked[p]
  /\ topics' = topics \cup {t}
  /\ asked' = [asked EXCEPT ![p] = @ \ {t}]
  /\ UNCHANGED <<storage, catalog, pc, at, orphans, excused, faults>>

AnswerOrphan(t) ==
  /\ t \in orphans
  /\ topics' = topics \cup {t}
  /\ orphans' = orphans \ {t}
  /\ UNCHANGED <<storage, catalog, pc, at, asked, excused, faults>>

(* Mutant of AwaitTopics: the futures are not waited for.                  *)
ForgetFutures(p) ==
  /\ pc[p] = "await"
  /\ orphans' = orphans \cup asked[p]
  /\ asked' = [asked EXCEPT ![p] = {}]
  /\ Done(p)
  /\ UNCHANGED <<storeVars, faults>>

(* Every future has its result; TOPIC_ALREADY_EXISTS is as good as made.   *)
AwaitTopics(p) ==
  /\ pc[p] = "await" /\ asked[p] = {}
  /\ Done(p)
  /\ UNCHANGED <<storeVars, topicVars, faults>>

-----------------------------------------------------------------------------
(* s3_config                                                               *)

(* head_bucket, then head_object for each folder.                          *)
HeadObject(p) ==
  /\ p \in StorageRun /\ pc[p] = "look"
  /\ IF at[p] \in storage THEN Advance(p, Folders) ELSE GoTo(p, "make")
  /\ UNCHANGED <<storeVars, topicVars, faults>>

(* create_bucket, refused when there is one by now.                        *)
CreateBucket(p) ==
  /\ p \in StorageRun /\ pc[p] = "make" /\ at[p] = 0
  /\ IF 0 \in storage THEN Raise(p) ELSE Advance(p, Folders)
  /\ storage' = storage \cup {0}
  /\ UNCHANGED <<topics, catalog, topicVars, faults>>

(* put_object: an empty marker over an empty marker does no harm.          *)
PutFolder(p) ==
  /\ p \in StorageRun /\ pc[p] = "make" /\ at[p] # 0
  /\ Advance(p, Folders)
  /\ storage' = storage \cup {at[p]}
  /\ UNCHANGED <<topics, catalog, topicVars, faults>>

-----------------------------------------------------------------------------
(* iceberg_tables                                                          *)

(* Mutant of CreateNamespace: NamespaceAlreadyExistsError is not caught.   *)
CreateNamespaceOnce(p) ==
  /\ p \in TableRun /\ pc[p] = "make" /\ at[p] = 0
  /\ IF 0 \in catalog THEN Raise(p) ELSE Advance(p, Tables)
  /\ catalog' = catalog \cup {0}
  /\ UNCHANGED <<topics, storage, topicVars, faults>>

(* create_namespace comes first, and an existing one is fine.              *)
CreateNamespace(p) ==
  /\ p \in TableRun /\ pc[p] = "make" /\ at[p] = 0
  /\ Advance(p, Tables)
  /\ catalog' = catalog \cup {0}
  /\ UNCHANGED <<topics, storage, topicVars, faults>>

(* Mutant of LoadTable: every table is created without a look.             *)
SkipLoad(p) ==
  /\ p \in TableRun /\ pc[p] = "look"
  /\ GoTo(p, "make")
  /\ UNCHANGED <<storeVars, topicVars, faults>>

(* _create_or_skip: load_table ...                                         *)
LoadTable(p) ==
  /\ p \in TableRun /\ pc[p] = "look"
  /\ IF at[p] \in catalog THEN Advance(p, Tables) ELSE GoTo(p, "make")
  /\ UNCHANGED <<storeVars, topicVars, faults>>

(* ... then create_table: its metadata goes to the bucket, and the catalog *)
(* refuses a second table of the name.  Neither error is caught.           *)
CreateTable(p) ==
  /\ p \in TableRun /\ pc[p] = "make" /\ at[p] # 0
  /\ IF 0 \notin storage \/ at[p] \in catalog
     THEN Raise(p) /\ UNCHANGED catalog
     ELSE Advance(p, Tables) /\ catalog' = catalog \cup {at[p]}
  /\ UNCHANGED <<topics, storage, topicVars, faults>>

-----------------------------------------------------------------------------
Work(p) ==
  \/ ListTopics(p) \/ AwaitTopics(p)
  \/ HeadObject(p) \/ CreateBucket(p) \/ PutFolder(p)
  \/ CreateNamespace(p) \/ LoadTable(p) \/ CreateTable(p)

Broker ==
  \/ \E p \in TopicRun, t \in Topic : AnswerTopic(p, t)
  \/ \E t \in Topic : AnswerOrphan(t)

Next ==
  \/ \E p \in Run : Start(p) \/ Work(p) \/ Fault(p)
  \/ Broker

Spec == Init /\ [][Next]_vars

(* Processes and the broker go on, and whoever needs the stack starts what *)
(* has not ended well once more (the streaming job does so by itself).     *)
StartAgain(p) == pc[p] # "done" /\ Start(p)

FairSpec ==
  /\ Spec
  /\ WF_vars(Broker)
  /\ \A p \in Run : WF_vars(Work(p)) /\ SF_vars(StartAgain(p))

-----------------------------------------------------------------------------
TypeOK ==
  /\ topics \subseteq Topic
  /\ storage \subseteq 0..Folders
  /\ catalog \subseteq 0..Tables
  /\ pc \in [Run -> Phase]
  /\ at \in [Run -> Nat]
  /\ \A p \in StorageRun : at[p] <= Folders
  /\ \A p \in TableRun : at[p] <= Tables
  /\ asked \in [Run -> SUBSET Topic]
  /\ orphans \subseteq Topic
  /\ excused \in [Run -> BOOLEAN]
  /\ faults \in 0..MaxFaults

(* All that a run is responsible for.                                      *)
Ready(p) ==
  CASE p \in TopicRun   -> Topic \subseteq topics
    [] p \in StorageRun -> 0..Folders \subseteq storage
    [] OTHER            -> 0..Tables \subseteq catalog

(* A run that ends without an error has left every object of its list, also*)
(* those it took from another run, from a look that was out of date or from*)
(* a run that died half-way.                                               *)
DoneMeansReady == \A p \in Run : pc[p] = "done" => Ready(p)

(* "Safe to run multiple times" (README, docstrings): whatever earlier runs*)
(* left, a run fails only by a fault of its own, a rival working on the    *)
(* same store meanwhile, or a bucket that nobody made before the tables;   *)
(* and racing runs of topics_setup do not even fail by that.               *)
OnlyExcusedRunsFail == \A p \in Run : pc[p] = "failed" => excused[p]

(* Objects of all three stores, named for the abstract specification.      *)
Objects(ts, ss, cs) == ({"topic"} \X ts) \cup ({"s3"} \X ss) \cup ({"iceberg"} \X cs)

Provisioned == INSTANCE Provision WITH
  Wanted   <- Objects(Topic, 0..Folders, 0..Tables),
  Needs    <- [p \in Run |-> CASE p \in TopicRun   -> Objects(Topic, {}, {})
                               [] p \in StorageRun -> Objects({}, 0..Folders, {})
                               [] OTHER            -> Objects({}, {}, 0..Tables)],
  there    <- Objects(topics, storage, catalog),
  finished <- {p \in Run : pc[p] = "done"}

(* The scripts, in any order and number, provide what they promise, and    *)
(* never take anything away; in the end everything is there.               *)
ImplementsProvision == Provisioned!LiveSpec

(* Races, missing buckets and crashes pass: from some time on no run fails,*)
(* though runs of all three scripts go on being started.                   *)
Settles == <>[](\A p \in Run : pc[p] # "failed")
=============================================================================

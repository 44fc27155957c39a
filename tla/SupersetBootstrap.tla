------------------------- MODULE SupersetBootstrap -------------------------
(***************************************************************************)
(* bootstrap_superset: registers the marts' database, a dataset per mart,  *)
(* the dashboard and its charts with Superset, each by looking for its name*)
(* and posting it if it was not seen, and lays the charts out at the end.  *)
(* It is started by hand, as often as somebody likes.                      *)
(*                                                                         *)
(* Superset is external: a request is done and answered in one step; a     *)
(* list shows one page in an order of its own; connection and dataset names*)
(* are unique, chart and dashboard names are not; what an object refers to *)
(* has to exist when it is posted, but may be deleted afterwards.          *)
(***************************************************************************)
EXTENDS Naturals, Sequences, FiniteSets, Functions

CONSTANTS
  Tables,       (* MART_TABLES, in order.                                  *)
  Charts,       (* slice_names of _chart_definitions, in order.            *)
  Source,       (* The table each chart's dataset_id is about.             *)
  Run,          (* Processes running the script.                           *)
  PageSize,     (* The page_size _find_id asks for (100).                  *)
  MaxId,        (* Bound: objects that are there or referred to.           *)
  MaxTrouble    (* Bound: crashes, and what other users make and delete.   *)

ASSUME SupersetAssumption ==
  /\ Tables \in Seq(STRING) /\ Charts \in Seq(STRING) \ {<<>>}
  /\ Source \in [Range(Charts) -> Range(Tables)] /\ Range(Source) = Range(Tables)
  /\ Range(Tables) \cap Range(Charts) = {}
  /\ {"database", "dashboard"} \cap (Range(Tables) \cup Range(Charts)) = {}
  /\ PageSize \in Nat \ {0} /\ MaxId \in Nat /\ MaxTrouble \in Nat

VARIABLES
  marts,        (* Mart tables dbt has built.                              *)
  objects,      (* Superset's objects by our names.                        *)
  others,       (* By resource, how many objects have other names.         *)
  pc,           (* What each run is doing.                                 *)
  at,           (* The object of Plan it has reached.                      *)
  got,          (* Its ids of the objects before that.                     *)
  spoiled,      (* History: what went on that a run cannot cope with.      *)
  trouble       (* Counts towards MaxTrouble.                              *)

runVars == <<pc, at, got>>
vars == <<marts, objects, others, runVars, spoiled, trouble>>

Name     == {"database", "dashboard"} \cup Range(Tables) \cup Range(Charts)
Resource == {"database", "dataset", "dashboard", "chart"}
Id       == 1..MaxId

ResourceOf(n) ==
  CASE n \in Range(Tables) -> "dataset" [] n \in Range(Charts) -> "chart" [] OTHER -> n

(* refs: the connection of a dataset, the dataset and dashboards of a      *)
(* chart.  shows: the charts in a dashboard's position_json.               *)
Object == [id : Id, name : Name, refs : SUBSET Id, shows : SUBSET Id]

Named(n)  == {o \in objects : o.name = n}
Exists(i) == \E o \in objects : o.id = i
Active    == {r \in Run : pc[r] \in {"look", "make"}}

(* An id nobody knows stands for the next one; ids are not used twice.     *)
Unused ==
  Id \ (UNION {{o.id} \cup o.refs \cup o.shows : o \in objects} \cup UNION {Range(got[r]) : r \in Run})

NewId == CHOOSE i \in Unused : TRUE

New(n, refs) == [id |-> NewId, name |-> n, refs |-> refs, shows |-> {}]

-----------------------------------------------------------------------------
(* The order of the _create calls.                                         *)
Plan == <<"database">> \o Tables \o <<"dashboard">> \o Charts

(* Mutant of Payload: charts are left for the layout to link.              *)
PayloadUnlinked(n, ids) ==
  CASE n \in Range(Tables) -> {ids["database"]}
    [] n \in Range(Charts) -> {ids[Source[n]]}
    [] OTHER               -> {}

(* The ids in a new object's payload.                                      *)
Payload(n, ids) ==
  CASE n \in Range(Tables) -> {ids["database"]}
    [] n \in Range(Charts) -> {ids[Source[n]], ids["dashboard"]}
    [] OTHER               -> {}

InResource(res) == {o \in objects : ResourceOf(o.name) = res}

Total(res) == Cardinality(InResource(res)) + others[res]

(* Our objects on the first page of a list: any that leave no room unused. *)
Page(res) ==
  {s \in SUBSET InResource(res) :
     IF Total(res) > PageSize
     THEN Cardinality(s) <= PageSize /\ PageSize <= Cardinality(s) + others[res]
     ELSE s = InResource(res)}

(* Superset refuses what has no table, a name that has to be unique, and a *)
(* reference to what is no longer there.                                   *)
Refused(n, refs) ==
  \/ n \in Range(Tables) \ marts
  \/ n = "database" /\ Named(n) # {}
  \/ n \in Range(Tables) /\ \E o \in Named(n) : o.refs = refs
  \/ \E i \in refs : ~Exists(i)

-----------------------------------------------------------------------------
Init ==
  /\ marts = {} /\ objects = {}
  /\ others = [res \in Resource |-> 0]
  /\ pc = [r \in Run |-> "off"]
  /\ at = [r \in Run |-> 1]
  /\ got = [r \in Run |-> <<>>]
  /\ spoiled = {}
  /\ trouble = 0

(* dbt builds a mart for the first time.                                   *)
BuildMart(t) ==
  /\ t \in Range(Tables) \ marts
  /\ marts' = marts \cup {t}
  /\ UNCHANGED <<objects, others, runVars, spoiled, trouble>>

Start(r) ==
  /\ r \notin Active
  /\ pc' = [pc EXCEPT ![r] = "look"]
  /\ spoiled' = IF Active = {} THEN spoiled ELSE spoiled \cup {"race"}
  /\ UNCHANGED <<marts, objects, others, at, got, trouble>>

(* Mutant of End: the ids of one run are still there in the next.          *)
EndKeepsIds(r, how) ==
  /\ pc' = [pc EXCEPT ![r] = how]
  /\ at' = [at EXCEPT ![r] = 1]
  /\ UNCHANGED got

(* The run is over, one way or the other.                                  *)
End(r, how) ==
  /\ pc' = [pc EXCEPT ![r] = how]
  /\ at' = [at EXCEPT ![r] = 1]
  /\ got' = [got EXCEPT ![r] = <<>>]

(* It has an id for the object it was at.                                  *)
Take(r, i) ==
  /\ pc' = [pc EXCEPT ![r] = "look"]
  /\ at' = [at EXCEPT ![r] = @ + 1]
  /\ got' = [got EXCEPT ![r] = [n \in DOMAIN @ \cup {Plan[at[r]]} |-> IF n = Plan[at[r]] THEN i ELSE @[n]]]

Overfull(n) == IF Total(ResourceOf(n)) > PageSize THEN {"page"} ELSE {}

(* Mutant of Look: the charts' name_key is one their items do not have.    *)
LookMissesCharts(r) ==
  LET n == Plan[at[r]] IN
  /\ pc[r] = "look" /\ at[r] <= Len(Plan)
  /\ \E page \in Page(ResourceOf(n)) :
       LET same == {o \in page : o.name = n /\ n \notin Range(Charts)} IN
       \/ same = {} /\ pc' = [pc EXCEPT ![r] = "make"] /\ UNCHANGED <<at, got>>
       \/ \E o \in same : Take(r, o.id)
  /\ spoiled' = spoiled \cup Overfull(n)
  /\ UNCHANGED <<marts, objects, others, trouble>>

(* Mutant of Look: the datasets' name_key is one their items do not have.  *)
LookMissesDatasets(r) ==
  LET n == Plan[at[r]] IN
  /\ pc[r] = "look" /\ at[r] <= Len(Plan)
  /\ \E page \in Page(ResourceOf(n)) :
       LET same == {o \in page : o.name = n /\ n \notin Range(Tables)} IN
       \/ same = {} /\ pc' = [pc EXCEPT ![r] = "make"] /\ UNCHANGED <<at, got>>
       \/ \E o \in same : Take(r, o.id)
  /\ spoiled' = spoiled \cup Overfull(n)
  /\ UNCHANGED <<marts, objects, others, trouble>>

(* _find_id: an object of the name, if the first page has one.             *)
Look(r) ==
  LET n == Plan[at[r]] IN
  /\ pc[r] = "look" /\ at[r] <= Len(Plan)
  /\ \E page \in Page(ResourceOf(n)) :
       LET same == {o \in page : o.name = n} IN
       \/ same = {} /\ pc' = [pc EXCEPT ![r] = "make"] /\ UNCHANGED <<at, got>>
       \/ \E o \in same : Take(r, o.id)
  /\ spoiled' = spoiled \cup Overfull(n)
  /\ UNCHANGED <<marts, objects, others, trouble>>

(* The POST of _create, and the RuntimeError if it is refused.             *)
Make(r) ==
  LET n    == Plan[at[r]]
      refs == Payload(n, got[r])
  IN
  /\ pc[r] = "make"
  /\ \/ /\ Refused(n, refs)
        /\ End(r, "failed")
        /\ UNCHANGED objects
     \/ /\ ~Refused(n, refs)
        /\ Unused # {}
        /\ objects' = objects \cup {New(n, refs)}
        /\ Take(r, NewId)
  /\ UNCHANGED <<marts, others, spoiled, trouble>>

(* Mutant of Layout: only charts that were not shown yet.                  *)
LayoutNew(r, d) == {got[r][n] : n \in Range(Charts)} \ d.shows

(* _dashboard_position: the charts of this run, new or reused.             *)
Layout(r, d) == {got[r][n] : n \in Range(Charts)}

(* The PUT replaces what the dashboard shows; it links no chart to it.     *)
PutLayout(r) ==
  LET mine == {o \in objects : o.id = got[r]["dashboard"]} IN
  /\ pc[r] = "look" /\ at[r] > Len(Plan)
  /\ \/ /\ mine = {}
        /\ End(r, "failed")
        /\ UNCHANGED objects
     \/ \E d \in mine :
          /\ objects' = (objects \ {d}) \cup {[d EXCEPT !.shows = Layout(r, d)]}
          /\ End(r, "done")
  /\ UNCHANGED <<marts, others, spoiled, trouble>>

-----------------------------------------------------------------------------
Trouble == trouble < MaxTrouble /\ trouble' = trouble + 1

(* The script dies, or a request fails for a reason of its own.            *)
Crash(r) ==
  /\ r \in Active
  /\ Trouble
  /\ End(r, "failed")
  /\ UNCHANGED <<marts, objects, others, spoiled>>

(* A user deletes one of our objects.  A connection with datasets cannot   *)
(* be; a dashboard's charts stay, without their link to it.                *)
Delete(o) ==
  LET referred == \E x \in objects : o.id \in x.refs IN
  /\ Trouble
  /\ o.name = "database" => ~referred
  /\ objects' = {[x EXCEPT !.refs = IF o.name = "dashboard" THEN @ \ {o.id} ELSE @] :
                   x \in objects \ {o}}
  /\ spoiled' = IF referred \/ Active # {} THEN spoiled \cup {"deleted"} ELSE spoiled
  /\ UNCHANGED <<marts, others, runVars>>

(* A user makes an object of another name ...                              *)
MakeOther(res) ==
  /\ Trouble
  /\ others' = [others EXCEPT ![res] = @ + 1]
  /\ UNCHANGED <<marts, objects, runVars, spoiled>>

(* ... or of one of ours: a dataset on another connection's table, say.    *)
MakeNamesake(n) ==
  /\ Trouble
  /\ n # "database"
  /\ Unused # {}
  /\ objects' = objects \cup {New(n, {})}
  /\ spoiled' = spoiled \cup {"namesake"}
  /\ UNCHANGED <<marts, others, runVars>>

Step(r) == Look(r) \/ Make(r) \/ PutLayout(r)

Next ==
  \/ \E r \in Run : Start(r) \/ Step(r) \/ Crash(r)
  \/ \E t \in Range(Tables) : BuildMart(t)
  \/ \E o \in objects : Delete(o)
  \/ \E res \in Resource : MakeOther(res)
  \/ \E n \in Name : MakeNamesake(n)

Spec == Init /\ [][Next]_vars

(* The DAG builds the marts in the end, requests are answered, and whoever *)
(* sees the script fail, or wants the dashboard, starts it again.          *)
StartAgain(r) == Active = {} /\ Start(r)

FairSpec ==
  /\ Spec
  /\ \A t \in Range(Tables) : WF_vars(BuildMart(t))
  /\ \A r \in Run : WF_vars(Step(r)) /\ SF_vars(StartAgain(r))

-----------------------------------------------------------------------------
TypeOK ==
  /\ marts \subseteq Range(Tables)
  /\ objects \subseteq Object
  /\ others \in [Resource -> 0..MaxTrouble]
  /\ pc \in [Run -> {"off", "look", "make", "done", "failed"}]
  /\ \A r \in Run :
       /\ at[r] \in 1..(Len(Plan) + 1)
       /\ DOMAIN got[r] = {Plan[k] : k \in 1..(at[r] - 1)}
       /\ \A n \in DOMAIN got[r] : got[r][n] \in Id
  /\ spoiled \subseteq {"race", "page", "deleted", "namesake"}
  /\ trouble \in 0..MaxTrouble

(* Running it again never doubles anything, wherever earlier runs died and *)
(* whatever was deleted in between: for that it takes two runs at once, a  *)
(* list of more than one page, or a namesake.                              *)
NoDuplicates ==
  spoiled \subseteq {"deleted"} =>
    \A o1, o2 \in objects : o1.name = o2.name => o1 = o2

(* The dashboard with all its charts: linked to it, in its layout, and each*)
(* on the dataset of its table on our connection.                          *)
Built(d) ==
  /\ d.name = "dashboard"
  /\ \A n \in Range(Charts) : \E c \in Named(n), t \in Named(Source[n]), b \in Named("database") :
       /\ c.id \in d.shows /\ d.id \in c.refs
       /\ t.id \in c.refs /\ b.id \in t.refs
  /\ \A i \in d.shows : \E c \in objects : c.id = i /\ d.id \in c.refs

(* A run that completes has built the whole dashboard, also when it had to *)
(* go on from a run that died or to replace what a user deleted, as long as*)
(* nothing else referred to that ("Idempotent: re-running reuses any       *)
(* objects that already exist" and the dashboard contains them).           *)
DoneMeansBuilt ==
  [][\A r \in Run : pc[r] # "done" /\ pc'[r] = "done" /\ spoiled = {} =>
       \E d \in objects' : Built(d)']_vars

(* Once it is built, running the script again changes nothing at all.      *)
RerunChangesNothing ==
  [][(\E d \in objects : Built(d)) /\ spoiled' = {} /\ trouble' = trouble
       => objects' = objects]_vars

(* Whatever crashed, raced or was deleted, a run completes in the end,     *)
(* unless a list outgrew its page: then what is there already but not seen *)
(* is posted and refused, over and over.                                   *)
EventuallyDone == <>("page" \in spoiled \/ \E r \in Run : pc[r] = "done")
=============================================================================

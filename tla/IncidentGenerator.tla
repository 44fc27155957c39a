------------------------- MODULE IncidentGenerator -------------------------
(***************************************************************************)
(* ingestion/simulator/incident_generator.py: the simulator draws an       *)
(* incident whose severity it fixes in advance, picks metrics meant to put *)
(* it in that tier, and produces it to the topic of that tier.             *)
(*                                                                         *)
(* round(random.uniform(lo, hi), 2) is any sampled value from lo to hi,    *)
(* both included.  Institution, systems and timestamps are left out.       *)
(***************************************************************************)
EXTENDS DoraRules, FiniteSets

CONSTANTS
  PctSample,    (* Percentages uniform may return, in hundredths.          *)
  EurSample,    (* Amounts uniform may return.                             *)
  MaxEvents     (* Bound: events of one run.                               *)

ASSUME GeneratorAssumption ==
  /\ PctSample \subseteq Nat
  /\ EurSample \subseteq Nat
  /\ MaxEvents \in Nat

VARIABLES
  pc,           (* "loop", "flush" (the finally block) or "stopped".       *)
  produced,     (* Number of events produced so far.                       *)
  queue,        (* Messages of the producer waiting for the broker.        *)
  topics        (* The source topics: the messages each one holds.         *)

vars == <<pc, produced, queue, topics>>

TopicMap == [minor    |-> "dora.incidents.minor",
             major    |-> "dora.incidents.major",
             critical |-> "dora.incidents.critical"]

Topic == {TopicMap[s] : s \in Severity}

NonCyberTypes == IncidentType \ {"cyber_attack"}

Percent(lo, hi) == {x \in PctSample : lo <= x /\ x <= hi}
Euros(lo, hi)   == {x \in EurSample : lo <= x /\ x <= hi}

Draw(types, pcts, euros, cross, providers, severity, hours) ==
  [incident_type: types, pct: pcts, eur: euros, cross_border: cross, provider: providers,
   severity: {severity}, required: {severity # "minor"}, deadline: {hours}]

AnyProvider == Provider \cup {None}

(* The recipes of _random_event, one for each trigger it chooses from.     *)
CriticalHighPct ==
  Draw(NonCyberTypes, Percent(2500, 8000), Euros(1000, 800000), BOOLEAN, AnyProvider, "critical", 4)

CriticalHighEur ==
  Draw(NonCyberTypes, Percent(50, 1500), Euros(1000000, 10000000), BOOLEAN, AnyProvider, "critical", 4)

CriticalCyber ==
  Draw({"cyber_attack"}, Percent(1000, 4500), Euros(50000, 600000), BOOLEAN, AnyProvider, "critical", 4)

CriticalCrossBorder ==
  Draw(NonCyberTypes, Percent(1000, 3500), Euros(20000, 400000), {TRUE}, AnyProvider, "critical", 4)

MajorPct ==
  Draw(NonCyberTypes, Percent(1000, 2490), Euros(500, 95000), {FALSE}, AnyProvider, "major", 72)

MajorEur ==
  Draw(NonCyberTypes, Percent(10, 990), Euros(100000, 999000), {FALSE}, AnyProvider, "major", 72)

MajorThirdParty ==
  Draw({"system_outage"}, Percent(10, 990), Euros(500, 95000), {FALSE}, Provider, "major", 72)

MinorWith(types, providers) ==
  Draw(types, Percent(0, 990), Euros(100, 95000), BOOLEAN, providers, "minor", None)

(* Mutant of MinorOutage: the provider of an outage is not dropped.        *)
MinorOutageWithProvider == MinorWith({"system_outage"}, AnyProvider)

MinorOutage == MinorWith({"system_outage"}, {None})

MinorOther == MinorWith(NonCyberTypes \ {"system_outage"}, AnyProvider)

(* _random_event                                                           *)
RandomEvent ==
  CriticalHighPct \cup CriticalHighEur \cup CriticalCyber \cup CriticalCrossBorder
    \cup MajorPct \cup MajorEur \cup MajorThirdParty \cup MinorOutage \cup MinorOther

-----------------------------------------------------------------------------
Init ==
  /\ pc = "loop"
  /\ produced = 0
  /\ queue = {}
  /\ topics = [t \in Topic |-> {}]

(* One turn of the loop: a message is its number, its topic and its event. *)
ProduceEvent(e) ==
  /\ pc = "loop" /\ produced < MaxEvents
  /\ produced' = produced + 1
  /\ queue' = queue \cup {<<produced', TopicMap[e.severity], e>>}
  /\ UNCHANGED <<pc, topics>>

(* The broker accepts a message; on an error _delivery_callback only logs. *)
Delivered(m) ==
  /\ pc # "stopped" /\ m \in queue
  /\ queue' = queue \ {m}
  /\ topics' = [topics EXCEPT ![m[2]] = @ \cup {m}]
  /\ UNCHANGED <<pc, produced>>

DeliveryError(m) ==
  /\ pc # "stopped" /\ m \in queue
  /\ queue' = queue \ {m}
  /\ UNCHANGED <<pc, produced, topics>>

(* Ctrl-C, or a BufferError of produce: the finally block flushes for up to*)
(* ten seconds, and what is still queued then is lost.                     *)
Interrupt ==
  /\ pc = "loop"
  /\ pc' = "flush"
  /\ UNCHANGED <<produced, queue, topics>>

Stop ==
  /\ pc = "flush"
  /\ pc' = "stopped"
  /\ queue' = {}
  /\ UNCHANGED <<produced, topics>>

Next ==
  \/ \E e \in RandomEvent : ProduceEvent(e)
  \/ \E m \in queue : Delivered(m) \/ DeliveryError(m)
  \/ Interrupt \/ Stop

Spec == Init /\ [][Next]_vars

-----------------------------------------------------------------------------
Message == (1..MaxEvents) \X Topic \X RandomEvent

TypeOK ==
  /\ pc \in {"loop", "flush", "stopped"}
  /\ produced \in 0..MaxEvents
  /\ queue \subseteq Message
  /\ topics \in [Topic -> SUBSET Message]

(* The classifier, run later by another process, agrees with the topic an  *)
(* event was routed to and with every classification field the simulator   *)
(* filled in: no range of _random_event leaves its tier or falls into one  *)
(* of a higher priority.                                                   *)
ClassifierAgrees ==
  \A t \in Topic : \A m \in topics[t] :
    /\ Classify(m[3]) = m[3]
    /\ t = TopicMap[Classify(m[3]).severity]
=============================================================================

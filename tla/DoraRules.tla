----------------------------- MODULE DoraRules -----------------------------
(***************************************************************************)
(* processing/dora_classifier.py and ingestion/simulator/schema.py: the    *)
(* BaFin Article 18 rules, the severity they give an incident, the duty to *)
(* notify that follows from it, and the reason recorded next to it, which  *)
(* re-evaluates the rules by itself.                                       *)
(*                                                                         *)
(* Percentages are counted in hundredths of a percent and money in euros;  *)
(* NaN is the float no comparison holds of, which the schema lets through. *)
(***************************************************************************)
EXTENDS Integers

CONSTANTS
  Thresholds,   (* The DORAThresholds instance the classifier is built with.*)
  Provider,     (* Names of ICT third-party providers.                     *)
  None,         (* Python's None.                                          *)
  NaN           (* Not a number.                                           *)

DORAThresholds ==
  [critical_client_pct: Int, critical_financial_eur: Int,
   critical_cyber_client_pct: Int, critical_cross_border_client_pct: Int,
   major_client_pct: Int, major_financial_eur: Int]

(* The official values, the defaults of the dataclass.                     *)
DefaultThresholds ==
  [critical_client_pct |-> 2500, critical_financial_eur |-> 1000000,
   critical_cyber_client_pct |-> 1000, critical_cross_border_client_pct |-> 1000,
   major_client_pct |-> 1000, major_financial_eur |-> 100000]

ASSUME RulesAssumption ==
  /\ Thresholds \in DORAThresholds
  /\ NaN \notin Int
  /\ None \notin Provider

IncidentType ==
  {"system_outage", "data_breach", "third_party_failure", "cyber_attack",
   "transaction_failure", "authentication_failure"}

Severity == {"minor", "major", "critical"}

(* IncidentEvent: the fields the rules read, and the three they fill, which*)
(* a message from the simulator already carries.                           *)
IncidentEvent ==
  [incident_type: IncidentType, pct: Int \cup {NaN}, eur: Int \cup {NaN},
   cross_border: BOOLEAN, provider: Provider \cup {None},
   severity: Severity \cup {None}, required: BOOLEAN \cup {None}, deadline: {4, 72, None}]

-----------------------------------------------------------------------------
(* Mutant of AtLeast: written as not (x < t), which NaN satisfies.         *)
NotBelow(x, t) == x = NaN \/ x >= t

(* Python's x >= t when x may be NaN.                                      *)
AtLeast(x, t) == x # NaN /\ x >= t

IsCriticalByClientPct(e) == AtLeast(e.pct, Thresholds.critical_client_pct)

IsCriticalByFinancialImpact(e) == AtLeast(e.eur, Thresholds.critical_financial_eur)

IsCriticalByCyberAttack(e) ==
  e.incident_type = "cyber_attack" /\ AtLeast(e.pct, Thresholds.critical_cyber_client_pct)

IsCriticalByCrossBorder(e) ==
  e.cross_border /\ AtLeast(e.pct, Thresholds.critical_cross_border_client_pct)

IsMajorByClientPct(e) == AtLeast(e.pct, Thresholds.major_client_pct)

IsMajorByFinancialImpact(e) == AtLeast(e.eur, Thresholds.major_financial_eur)

IsMajorByThirdPartyOutage(e) == e.provider # None /\ e.incident_type = "system_outage"

IsCritical(e) ==
  \/ IsCriticalByClientPct(e)   \/ IsCriticalByFinancialImpact(e)
  \/ IsCriticalByCyberAttack(e) \/ IsCriticalByCrossBorder(e)

IsMajor(e) ==
  IsMajorByClientPct(e) \/ IsMajorByFinancialImpact(e) \/ IsMajorByThirdPartyOutage(e)

DetermineSeverity(e) ==
  IF IsCritical(e) THEN "critical" ELSE IF IsMajor(e) THEN "major" ELSE "minor"

(* Mutants of Classify: a severity already set is kept; a duty already   *)
(* set is kept.                                                            *)
ClassifyUnlessSet(e) ==
  LET s == IF e.severity = None THEN DetermineSeverity(e) ELSE e.severity IN
  [e EXCEPT !.severity = s,
            !.required = (s # "minor"),
            !.deadline = CASE s = "critical" -> 4 [] s = "major" -> 72 [] s = "minor" -> None]

ClassifyKeepDuty(e) ==
  LET s == DetermineSeverity(e) IN
  [e EXCEPT !.severity = s,
            !.required = IF @ = None THEN s # "minor" ELSE @,
            !.deadline = CASE s = "critical" -> 4 [] s = "major" -> 72 [] s = "minor" -> None]

Classify(e) ==
  LET s == DetermineSeverity(e) IN
  [e EXCEPT !.severity = s,
            !.required = (s # "minor"),
            !.deadline = CASE s = "critical" -> 4 [] s = "major" -> 72 [] s = "minor" -> None]

Rule ==
  {"client_pct", "financial_impact", "cyber_attack", "cross_border", "third_party_outage", "none"}

(* Mutant of GetClassificationReason: one rule is missing in this chain.   *)
ReasonWithoutCrossBorder(e) ==
  IF IsCriticalByClientPct(e)            THEN <<"critical", "client_pct">>
  ELSE IF IsCriticalByFinancialImpact(e) THEN <<"critical", "financial_impact">>
  ELSE IF IsCriticalByCyberAttack(e)     THEN <<"critical", "cyber_attack">>
  ELSE IF IsMajorByClientPct(e)          THEN <<"major", "client_pct">>
  ELSE IF IsMajorByFinancialImpact(e)    THEN <<"major", "financial_impact">>
  ELSE IF IsMajorByThirdPartyOutage(e)   THEN <<"major", "third_party_outage">>
  ELSE <<"minor", "none">>

(* The tier and the rule a reason names; its wording is left out.          *)
GetClassificationReason(e) ==
  IF IsCriticalByClientPct(e)            THEN <<"critical", "client_pct">>
  ELSE IF IsCriticalByFinancialImpact(e) THEN <<"critical", "financial_impact">>
  ELSE IF IsCriticalByCyberAttack(e)     THEN <<"critical", "cyber_attack">>
  ELSE IF IsCriticalByCrossBorder(e)     THEN <<"critical", "cross_border">>
  ELSE IF IsMajorByClientPct(e)          THEN <<"major", "client_pct">>
  ELSE IF IsMajorByFinancialImpact(e)    THEN <<"major", "financial_impact">>
  ELSE IF IsMajorByThirdPartyOutage(e)   THEN <<"major", "third_party_outage">>
  ELSE <<"minor", "none">>

=============================================================================

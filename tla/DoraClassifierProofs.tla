------------------------ MODULE DoraClassifierProofs ------------------------
(***************************************************************************)
(* Theorems about the classifier for any thresholds and any incidents.     *)
(***************************************************************************)
EXTENDS DoraClassifier, TLAPS

(* The inductive invariant: what was done is what the loop does, incident  *)
(* by incident.                                                            *)
Done ==
  /\ incidents \in Seq(Event)
  /\ classified \in Seq(IncidentEvent)
  /\ reasons \in Seq(Severity \X Rule)
  /\ Len(reasons) = Len(classified)
  /\ Len(classified) <= Len(incidents)
  /\ \A i \in 1..Len(classified) : /\ classified[i] = Classify(incidents[i])
                                   /\ reasons[i] = GetClassificationReason(incidents[i])

-----------------------------------------------------------------------------
(* The two chains of rules agree on the tier of every incident.            *)
LEMMA ReasonAgrees ==
  ASSUME NEW e PROVE GetClassificationReason(e)[1] = DetermineSeverity(e)
<1>1. CASE IsCritical(e)
  <2>1. GetClassificationReason(e)[1] = "critical"
    BY <1>1 DEF IsCritical, GetClassificationReason
  <2>2. QED
    BY <1>1, <2>1 DEF DetermineSeverity
<1>2. CASE ~IsCritical(e) /\ IsMajor(e)
  <2>1. GetClassificationReason(e)[1] = "major"
    BY <1>2 DEF IsCritical, IsMajor, GetClassificationReason
  <2>2. QED
    BY <1>2, <2>1 DEF DetermineSeverity
<1>3. CASE ~IsCritical(e) /\ ~IsMajor(e)
  <2>1. GetClassificationReason(e)[1] = "minor"
    BY <1>3 DEF IsCritical, IsMajor, GetClassificationReason
  <2>2. QED
    BY <1>3, <2>1 DEF DetermineSeverity
<1>4. QED
  BY <1>1, <1>2, <1>3 DEF IsCritical, IsMajor

(* A reason is a tier and the name of a rule.                              *)
LEMMA ReasonType ==
  ASSUME NEW e PROVE GetClassificationReason(e) \in Severity \X Rule
BY DEF GetClassificationReason, Severity, Rule

(* Every incident gets one of the three tiers.                             *)
LEMMA SeverityType ==
  ASSUME NEW e PROVE DetermineSeverity(e) \in Severity
BY DEF DetermineSeverity, Severity

(* What classify writes, field by field.                                   *)
LEMMA ClassifyFields ==
  ASSUME NEW e \in IncidentEvent
  PROVE  /\ Classify(e) \in IncidentEvent
         /\ Classify(e).severity = DetermineSeverity(e)
         /\ Classify(e).required = (DetermineSeverity(e) # "minor")
         /\ Classify(e).deadline = CASE DetermineSeverity(e) = "critical" -> 4
                                     [] DetermineSeverity(e) = "major" -> 72
                                     [] DetermineSeverity(e) = "minor" -> None
<1> DEFINE s == DetermineSeverity(e)
<1>1. s \in {"minor", "major", "critical"}
  BY SeverityType DEF Severity
<1> HIDE DEF s
<1> DEFINE d == CASE s = "critical" -> 4 [] s = "major" -> 72 [] s = "minor" -> None
<1>2. d \in {4, 72, None}
  BY <1>1
<1> HIDE DEF d
<1>3. Classify(e) = [e EXCEPT !.severity = s, !.required = (s # "minor"), !.deadline = d]
  BY DEF Classify, s, d
<1>4. QED
  BY <1>1, <1>2, <1>3 DEF IncidentEvent, Severity, s, d

(* Each rule, once it holds, holds of every incident that is no better.    *)
LEMMA RulesMonotone ==
  ASSUME NEW a \in IncidentEvent, NEW b \in IncidentEvent, NoWorse(a, b)
  PROVE  (IsCritical(a) => IsCritical(b)) /\ (IsMajor(a) => IsMajor(b))
<1> USE RulesAssumption
<1>1. ASSUME NEW x \in Int \cup {NaN}, NEW y \in Int \cup {NaN}, NEW t \in Int, NoLarger(x, y)
      PROVE  AtLeast(x, t) => AtLeast(y, t)
  BY <1>1 DEF AtLeast, NoLarger, RulesAssumption
<1>2. /\ a.pct \in Int \cup {NaN} /\ b.pct \in Int \cup {NaN}
      /\ a.eur \in Int \cup {NaN} /\ b.eur \in Int \cup {NaN}
  BY DEF IncidentEvent
<1>3. /\ Thresholds.critical_client_pct \in Int
      /\ Thresholds.critical_financial_eur \in Int
      /\ Thresholds.critical_cyber_client_pct \in Int
      /\ Thresholds.critical_cross_border_client_pct \in Int
      /\ Thresholds.major_client_pct \in Int
      /\ Thresholds.major_financial_eur \in Int
  BY DEF RulesAssumption, DORAThresholds
<1>4. \A t \in Int : /\ AtLeast(a.pct, t) => AtLeast(b.pct, t)
                     /\ AtLeast(a.eur, t) => AtLeast(b.eur, t)
  BY <1>1, <1>2 DEF NoWorse
<1>5. IsCritical(a) => IsCritical(b)
  BY <1>3, <1>4 DEF IsCritical, IsCriticalByClientPct, IsCriticalByFinancialImpact,
                    IsCriticalByCyberAttack, IsCriticalByCrossBorder, NoWorse
<1>6. IsMajor(a) => IsMajor(b)
  BY <1>3, <1>4 DEF IsMajor, IsMajorByClientPct, IsMajorByFinancialImpact,
                    IsMajorByThirdPartyOutage, NoWorse
<1>7. QED
  BY <1>5, <1>6

(* So the severity of an incident that is no better is no lower.           *)
LEMMA SeverityIsMonotone ==
  ASSUME NEW a \in IncidentEvent, NEW b \in IncidentEvent, NoWorse(a, b)
  PROVE  Rank(DetermineSeverity(a)) <= Rank(DetermineSeverity(b))
BY RulesMonotone DEF DetermineSeverity, Rank

-----------------------------------------------------------------------------
(* Done is an invariant of the loop.                                       *)
THEOREM LoopInvariant == Spec => []Done
<1>1. Init => Done
  <2> SUFFICES ASSUME Init PROVE Done
    OBVIOUS
  <2>1. incidents \in Seq(Event)
    BY DEF Init
  <2>2. QED
    BY <2>1 DEF Init, Done
<1>2. Done /\ [Next]_vars => Done'
  <2> SUFFICES ASSUME Done, [Next]_vars PROVE Done'
    OBVIOUS
  <2>1. CASE ClassifyNext
    <3> DEFINE n == Len(classified) + 1
               e == incidents[n]
    <3>1. e \in IncidentEvent
      BY <2>1, ClassifierAssumption DEF ClassifyNext, Done, ClassifierAssumption
    <3>2. Classify(e) \in IncidentEvent /\ GetClassificationReason(e) \in Severity \X Rule
      BY <3>1, ClassifyFields, ReasonType
    <3>3. /\ classified' = Append(classified, Classify(e))
          /\ reasons' = Append(reasons, GetClassificationReason(e))
          /\ incidents' = incidents /\ Len(classified) < Len(incidents)
      BY <2>1 DEF ClassifyNext
    <3>4. QED
      BY <3>2, <3>3 DEF Done
  <2>2. CASE UNCHANGED vars
    BY <2>2 DEF vars, Done
  <2>3. QED
    BY <2>1, <2>2 DEF Next
<1>3. QED
  BY <1>1, <1>2, PTL DEF Spec

(* The recorded reason always names the tier the incident was given, for   *)
(* any thresholds.                                                         *)
THEOREM ReasonAlwaysNamesSeverity == Spec => []ReasonNamesSeverity
<1>1. Done => ReasonNamesSeverity
  <2> SUFFICES ASSUME Done, NEW i \in 1..Len(classified)
               PROVE  reasons[i][1] = classified[i].severity
    BY DEF Done, ReasonNamesSeverity
  <2>1. incidents[i] \in IncidentEvent
    BY ClassifierAssumption DEF Done, ClassifierAssumption
  <2>2. QED
    BY <2>1, ClassifyFields, ReasonAgrees DEF Done
<1>2. QED
  BY <1>1, LoopInvariant, PTL

(* A worse incident is never classified as less severe, for any thresholds.*)
THEOREM SeverityAlwaysMonotone == Spec => []SeverityMonotone
<1>1. Done => SeverityMonotone
  <2> SUFFICES ASSUME Done, NEW i \in 1..Len(classified), NEW j \in 1..Len(classified),
                      NoWorse(incidents[i], incidents[j])
               PROVE  Rank(classified[i].severity) <= Rank(classified[j].severity)
    BY DEF Done, SeverityMonotone
  <2>1. incidents[i] \in IncidentEvent /\ incidents[j] \in IncidentEvent
    BY ClassifierAssumption DEF Done, ClassifierAssumption
  <2>2. QED
    BY <2>1, ClassifyFields, SeverityIsMonotone DEF Done
<1>2. QED
  BY <1>1, LoopInvariant, PTL

(* Prefilled classification fields never show through, for any thresholds. *)
THEOREM PreassignedAlwaysIgnored == Spec => []PreassignedIgnored
<1>1. Done => PreassignedIgnored
  <2> SUFFICES ASSUME Done, NEW i \in 1..Len(classified), NEW j \in 1..Len(classified),
                      NoWorse(incidents[i], incidents[j]), NoWorse(incidents[j], incidents[i])
               PROVE  /\ classified[i].severity = classified[j].severity
                      /\ classified[i].required = classified[j].required
                      /\ classified[i].deadline = classified[j].deadline
    BY DEF Done, PreassignedIgnored
  <2>1. incidents[i] \in IncidentEvent /\ incidents[j] \in IncidentEvent
    BY ClassifierAssumption DEF Done, ClassifierAssumption
  <2>2. DetermineSeverity(incidents[i]) = DetermineSeverity(incidents[j])
    BY <2>1, RulesMonotone DEF DetermineSeverity
  <2>3. QED
    BY <2>1, <2>2, ClassifyFields DEF Done
<1>2. QED
  BY <1>1, LoopInvariant, PTL

(* What the loop has written so far is well typed.                         *)
THEOREM TypeCorrect == Spec => []TypeOK
<1>1. Done => TypeOK
  BY DEF Done, TypeOK
<1>2. QED
  BY <1>1, LoopInvariant, PTL

(* A row fails the validation only by its impact, for any thresholds.      *)
THEOREM OnlyImpactIsEverRejected == Spec => []OnlyImpactIsRejected
<1>1. Done => OnlyImpactIsRejected
  <2> SUFFICES ASSUME Done, NEW i \in 1..Len(classified),
                      ~Accepts(IcebergRow(classified[i]))
               PROVE  \/ incidents[i].pct # NaN /\ (incidents[i].pct < 0 \/ incidents[i].pct > 10000)
                      \/ incidents[i].eur # NaN /\ incidents[i].eur < 0
    BY DEF Done, OnlyImpactIsRejected
  <2> DEFINE e == incidents[i]
  <2>1. e \in IncidentEvent /\ classified[i] = Classify(e)
    BY ClassifierAssumption DEF Done, ClassifierAssumption
  <2>2. Classify(e).pct = e.pct /\ Classify(e).eur = e.eur
    BY <2>1 DEF Classify, IncidentEvent
  <2>3. SeverityInSet(IcebergRow(Classify(e))) /\ CriticalIsNotified(IcebergRow(Classify(e)))
    BY <2>1, ClassifyFields, SeverityType DEF SeverityInSet, CriticalIsNotified, IcebergRow
  <2>4. /\ IcebergRow(Classify(e)).clients_affected_pct = e.pct
        /\ IcebergRow(Classify(e)).financial_impact_eur = e.eur
    BY <2>2 DEF IcebergRow
  <2>5. ~PctBetween(IcebergRow(Classify(e))) \/ ~EurBetween(IcebergRow(Classify(e)))
    BY <2>1, <2>3 DEF Accepts
  <2>6. e.pct \in Int \cup {NaN} /\ e.eur \in Int \cup {NaN}
    BY <2>1 DEF IncidentEvent
  <2>7. CASE ~PctBetween(IcebergRow(Classify(e)))
    <3>1. e.pct # NaN /\ ~(0 <= e.pct /\ e.pct <= 10000)
      BY <2>4, <2>7 DEF PctBetween
    <3>2. e.pct \in Int
      BY <2>6, <3>1
    <3>3. e.pct < 0 \/ e.pct > 10000
      BY <3>1, <3>2
    <3>4. QED
      BY <3>1, <3>3
  <2>8. CASE ~EurBetween(IcebergRow(Classify(e)))
    <3>1. e.eur # NaN /\ ~(0 <= e.eur)
      BY <2>4, <2>8 DEF EurBetween
    <3>2. e.eur \in Int
      BY <2>6, <3>1
    <3>3. e.eur < 0
      BY <3>1, <3>2
    <3>4. QED
      BY <3>1, <3>3
  <2>9. QED
    BY <2>5, <2>7, <2>8
<1>2. QED
  BY <1>1, LoopInvariant, PTL
=============================================================================

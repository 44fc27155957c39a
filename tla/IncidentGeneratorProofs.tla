---------------------- MODULE IncidentGeneratorProofs ----------------------
(***************************************************************************)
(* Under the official thresholds the classifier agrees with the simulator, *)
(* whatever round(random.uniform(lo, hi), 2) returns from lo to hi.        *)
(***************************************************************************)
EXTENDS IncidentGenerator, TLAPS

(* An event that already carries what classify would write is unchanged.   *)
LEMMA ClassifyKeeps ==
  ASSUME NEW e \in IncidentEvent, NEW s \in {"minor", "major", "critical"},
         DetermineSeverity(e) = s, e.severity = s, e.required = (s # "minor"),
         s = "critical" => e.deadline = 4,
         s = "major" => e.deadline = 72,
         s = "minor" => e.deadline = None
  PROVE  Classify(e) = e
<1> DEFINE d == CASE s = "critical" -> 4 [] s = "major" -> 72 [] s = "minor" -> None
<1>1. e.deadline = d
  BY Zenon
<1>2. Classify(e) = [e EXCEPT !.severity = s, !.required = (s # "minor"), !.deadline = d]
  BY Zenon DEF Classify
<1> HIDE DEF d
<1>3. Classify(e) = [e EXCEPT !.severity = e.severity, !.required = e.required,
                              !.deadline = e.deadline]
  BY <1>1, <1>2, Zenon
<1>4. QED
  BY <1>3 DEF IncidentEvent

(* The values of the official thresholds.                                  *)
LEMMA OfficialValues ==
  ASSUME Thresholds = DefaultThresholds
  PROVE  /\ Thresholds.critical_client_pct = 2500
         /\ Thresholds.critical_financial_eur = 1000000
         /\ Thresholds.critical_cyber_client_pct = 1000
         /\ Thresholds.critical_cross_border_client_pct = 1000
         /\ Thresholds.major_client_pct = 1000
         /\ Thresholds.major_financial_eur = 100000
BY DEF DefaultThresholds

(* The ranges and sets the recipes draw from.                              *)
LEMMA DrawnSets ==
  /\ \A lo, hi : Percent(lo, hi) \subseteq Int /\ Euros(lo, hi) \subseteq Int
  /\ \A lo, hi : \A x \in Percent(lo, hi) \cup Euros(lo, hi) : lo <= x /\ x <= hi
  /\ NonCyberTypes \subseteq IncidentType /\ "cyber_attack" \notin NonCyberTypes
  /\ {"cyber_attack"} \subseteq IncidentType /\ {"system_outage"} \subseteq NonCyberTypes
  /\ NonCyberTypes \ {"system_outage"} \subseteq IncidentType
  /\ AnyProvider = Provider \cup {None} /\ None \notin Provider
<1>1. \A lo, hi : Percent(lo, hi) \subseteq Int /\ Euros(lo, hi) \subseteq Int
  <2>1. PctSample \subseteq Int /\ EurSample \subseteq Int
    BY GeneratorAssumption DEF GeneratorAssumption
  <2>2. \A lo, hi : Percent(lo, hi) \subseteq PctSample /\ Euros(lo, hi) \subseteq EurSample
    BY DEF Percent, Euros
  <2>3. QED
    BY <2>1, <2>2
<1>2. \A lo, hi : \A x \in Percent(lo, hi) \cup Euros(lo, hi) : lo <= x /\ x <= hi
  BY DEF Percent, Euros
<1>3. /\ NonCyberTypes \subseteq IncidentType /\ "cyber_attack" \notin NonCyberTypes
      /\ NonCyberTypes \ {"system_outage"} \subseteq IncidentType
  BY DEF NonCyberTypes
<1>4. {"cyber_attack"} \subseteq IncidentType /\ {"system_outage"} \subseteq NonCyberTypes
  BY DEF IncidentType, NonCyberTypes
<1>5. AnyProvider = Provider \cup {None} /\ None \notin Provider
  BY RulesAssumption DEF AnyProvider, RulesAssumption
<1>6. QED
  BY <1>1, <1>2, <1>3, <1>4, <1>5

(* A draw whose ranges put it in its own tier is left as it is.            *)
LEMMA DrawnIsKept ==
  ASSUME NEW types \in SUBSET IncidentType, NEW pcts \in SUBSET Int, NEW euros \in SUBSET Int,
         NEW cross \in SUBSET BOOLEAN, NEW providers \in SUBSET (Provider \cup {None}),
         NEW severity \in {"minor", "major", "critical"}, NEW hours \in {4, 72, None},
         severity = "critical" => hours = 4,
         severity = "major" => hours = 72,
         severity = "minor" => hours = None,
         NEW e \in Draw(types, pcts, euros, cross, providers, severity, hours),
         DetermineSeverity(e) = severity
  PROVE  Classify(e) = e
<1>1. e \in IncidentEvent
  BY DEF Draw, IncidentEvent, Severity
<1>2. e.severity = severity /\ e.required = (severity # "minor") /\ e.deadline = hours
  BY DEF Draw
<1>3. QED
  BY <1>1, <1>2, ClassifyKeeps, Zenon

(* The four triggers of a critical incident.                               *)
LEMMA CriticalDraw ==
  ASSUME NEW types \in SUBSET IncidentType, NEW pcts \in SUBSET Int, NEW euros \in SUBSET Int,
         NEW cross \in SUBSET BOOLEAN, NEW providers \in SUBSET (Provider \cup {None}),
         \/ \A x \in pcts : x >= Thresholds.critical_client_pct
         \/ \A x \in euros : x >= Thresholds.critical_financial_eur
         \/ /\ types = {"cyber_attack"}
            /\ \A x \in pcts : x >= Thresholds.critical_cyber_client_pct
         \/ /\ cross = {TRUE}
            /\ \A x \in pcts : x >= Thresholds.critical_cross_border_client_pct,
         NEW e \in Draw(types, pcts, euros, cross, providers, "critical", 4)
  PROVE  Classify(e) = e
<1>1. /\ e.incident_type \in types /\ e.pct \in pcts /\ e.eur \in euros
      /\ e.cross_border \in cross
  BY DEF Draw
<1>2. e.pct # NaN /\ e.eur # NaN
  BY <1>1, RulesAssumption DEF RulesAssumption
<1>3. IsCritical(e)
  BY <1>1, <1>2 DEF AtLeast, IsCritical, IsCriticalByClientPct, IsCriticalByFinancialImpact,
         IsCriticalByCyberAttack, IsCriticalByCrossBorder
<1>4. DetermineSeverity(e) = "critical"
  BY <1>3 DEF DetermineSeverity
<1>5. QED
  BY <1>4, DrawnIsKept

(* The three triggers of a major one, short of every critical one.         *)
LEMMA MajorDraw ==
  ASSUME NEW types \in SUBSET IncidentType, NEW pcts \in SUBSET Int, NEW euros \in SUBSET Int,
         NEW cross \in SUBSET BOOLEAN, NEW providers \in SUBSET (Provider \cup {None}),
         types \subseteq NonCyberTypes, cross = {FALSE},
         \A x \in pcts : ~(x >= Thresholds.critical_client_pct),
         \A x \in euros : ~(x >= Thresholds.critical_financial_eur),
         \/ \A x \in pcts : x >= Thresholds.major_client_pct
         \/ \A x \in euros : x >= Thresholds.major_financial_eur
         \/ types = {"system_outage"} /\ None \notin providers,
         NEW e \in Draw(types, pcts, euros, cross, providers, "major", 72)
  PROVE  Classify(e) = e
<1>1. /\ e.incident_type \in types /\ e.pct \in pcts /\ e.eur \in euros
      /\ e.cross_border \in cross /\ e.provider \in providers
  BY DEF Draw
<1>2. e.pct # NaN /\ e.eur # NaN
  BY <1>1, RulesAssumption DEF RulesAssumption
<1>3. ~IsCritical(e)
  BY <1>1, <1>2 DEF NonCyberTypes, AtLeast, IsCritical, IsCriticalByClientPct, IsCriticalByFinancialImpact,
         IsCriticalByCyberAttack, IsCriticalByCrossBorder
<1>4. IsMajor(e)
  BY <1>1, <1>2 DEF AtLeast, IsMajor, IsMajorByClientPct, IsMajorByFinancialImpact, IsMajorByThirdPartyOutage
<1>5. DetermineSeverity(e) = "major"
  BY <1>3, <1>4 DEF DetermineSeverity
<1>6. QED
  BY <1>5, DrawnIsKept

(* A minor draw stays below every threshold, and an outage has no provider.*)
LEMMA MinorDraw ==
  ASSUME NEW types \in SUBSET IncidentType, NEW pcts \in SUBSET Int, NEW euros \in SUBSET Int,
         NEW cross \in SUBSET BOOLEAN, NEW providers \in SUBSET (Provider \cup {None}),
         types \subseteq NonCyberTypes,
         "system_outage" \in types => providers = {None},
         \A x \in pcts : /\ ~(x >= Thresholds.critical_client_pct)
                         /\ ~(x >= Thresholds.critical_cross_border_client_pct)
                         /\ ~(x >= Thresholds.major_client_pct),
         \A x \in euros : /\ ~(x >= Thresholds.critical_financial_eur)
                          /\ ~(x >= Thresholds.major_financial_eur),
         NEW e \in Draw(types, pcts, euros, cross, providers, "minor", None)
  PROVE  Classify(e) = e
<1>1. /\ e.incident_type \in types /\ e.pct \in pcts /\ e.eur \in euros
      /\ e.cross_border \in cross /\ e.provider \in providers
  BY DEF Draw
<1>2. ~IsCritical(e)
  BY <1>1 DEF NonCyberTypes, AtLeast, IsCritical, IsCriticalByClientPct, IsCriticalByFinancialImpact,
         IsCriticalByCyberAttack, IsCriticalByCrossBorder
<1>3. ~IsMajor(e)
  BY <1>1 DEF AtLeast, IsMajor, IsMajorByClientPct, IsMajorByFinancialImpact, IsMajorByThirdPartyOutage
<1>4. DetermineSeverity(e) = "minor"
  BY <1>2, <1>3 DEF DetermineSeverity
<1>5. QED
  BY <1>4, DrawnIsKept

(* For every event _random_event can draw, of any samples.                 *)
THEOREM SimulatorAgrees ==
  ASSUME Thresholds = DefaultThresholds, NEW e \in RandomEvent
  PROVE  Classify(e) = e
<1>1. CASE e \in CriticalHighPct
  <2> DEFINE P == Percent(2500, 8000)
             E == Euros(1000, 800000)
  <2>1. e \in Draw(NonCyberTypes, P, E, BOOLEAN, AnyProvider, "critical", 4)
    BY <1>1, SMT DEF CriticalHighPct
  <2>2. /\ P \in SUBSET Int
        /\ E \in SUBSET Int
        /\ \A x \in P : x >= Thresholds.critical_client_pct
    BY DrawnSets, OfficialValues, SMT
  <2> HIDE DEF P, E
  <2>3. QED
    BY <2>1, <2>2, CriticalDraw, DrawnSets
<1>2. CASE e \in CriticalHighEur
  <2> DEFINE P == Percent(50, 1500)
             E == Euros(1000000, 10000000)
  <2>1. e \in Draw(NonCyberTypes, P, E, BOOLEAN, AnyProvider, "critical", 4)
    BY <1>2, SMT DEF CriticalHighEur
  <2>2. /\ P \in SUBSET Int
        /\ E \in SUBSET Int
        /\ \A x \in E : x >= Thresholds.critical_financial_eur
    BY DrawnSets, OfficialValues, SMT
  <2> HIDE DEF P, E
  <2>3. QED
    BY <2>1, <2>2, CriticalDraw, DrawnSets
<1>3. CASE e \in CriticalCyber
  <2> DEFINE P == Percent(1000, 4500)
             E == Euros(50000, 600000)
  <2>1. e \in Draw({"cyber_attack"}, P, E, BOOLEAN, AnyProvider, "critical", 4)
    BY <1>3, SMT DEF CriticalCyber
  <2>2. /\ P \in SUBSET Int
        /\ E \in SUBSET Int
        /\ \A x \in P : x >= Thresholds.critical_cyber_client_pct
    BY DrawnSets, OfficialValues, SMT
  <2> HIDE DEF P, E
  <2>3. QED
    BY <2>1, <2>2, CriticalDraw, DrawnSets
<1>4. CASE e \in CriticalCrossBorder
  <2> DEFINE P == Percent(1000, 3500)
             E == Euros(20000, 400000)
  <2>1. e \in Draw(NonCyberTypes, P, E, {TRUE}, AnyProvider, "critical", 4)
    BY <1>4, SMT DEF CriticalCrossBorder
  <2>2. /\ P \in SUBSET Int
        /\ E \in SUBSET Int
        /\ \A x \in P : x >= Thresholds.critical_cross_border_client_pct
    BY DrawnSets, OfficialValues, SMT
  <2> HIDE DEF P, E
  <2>3. QED
    BY <2>1, <2>2, CriticalDraw, DrawnSets
<1>5. CASE e \in MajorPct
  <2> DEFINE P == Percent(1000, 2490)
             E == Euros(500, 95000)
  <2>1. e \in Draw(NonCyberTypes, P, E, {FALSE}, AnyProvider, "major", 72)
    BY <1>5, SMT DEF MajorPct
  <2>2. /\ P \in SUBSET Int
        /\ E \in SUBSET Int
        /\ \A x \in P : ~(x >= Thresholds.critical_client_pct)
        /\ \A x \in E : ~(x >= Thresholds.critical_financial_eur)
        /\ \A x \in P : x >= Thresholds.major_client_pct
    BY DrawnSets, OfficialValues, SMT
  <2> HIDE DEF P, E
  <2>3. QED
    BY <2>1, <2>2, MajorDraw, DrawnSets
<1>6. CASE e \in MajorEur
  <2> DEFINE P == Percent(10, 990)
             E == Euros(100000, 999000)
  <2>1. e \in Draw(NonCyberTypes, P, E, {FALSE}, AnyProvider, "major", 72)
    BY <1>6, SMT DEF MajorEur
  <2>2. /\ P \in SUBSET Int
        /\ E \in SUBSET Int
        /\ \A x \in P : ~(x >= Thresholds.critical_client_pct)
        /\ \A x \in E : ~(x >= Thresholds.critical_financial_eur)
        /\ \A x \in E : x >= Thresholds.major_financial_eur
    BY DrawnSets, OfficialValues, SMT
  <2> HIDE DEF P, E
  <2>3. QED
    BY <2>1, <2>2, MajorDraw, DrawnSets
<1>7. CASE e \in MajorThirdParty
  <2> DEFINE P == Percent(10, 990)
             E == Euros(500, 95000)
  <2>1. e \in Draw({"system_outage"}, P, E, {FALSE}, Provider, "major", 72)
    BY <1>7, SMT DEF MajorThirdParty
  <2>2. /\ P \in SUBSET Int
        /\ E \in SUBSET Int
        /\ \A x \in P : ~(x >= Thresholds.critical_client_pct)
        /\ \A x \in E : ~(x >= Thresholds.critical_financial_eur)
    BY DrawnSets, OfficialValues, SMT
  <2> HIDE DEF P, E
  <2>3. QED
    BY <2>1, <2>2, MajorDraw, DrawnSets
<1>8. CASE e \in MinorOutage
  <2> DEFINE P == Percent(0, 990)
             E == Euros(100, 95000)
  <2>1. e \in Draw({"system_outage"}, P, E, BOOLEAN, {None}, "minor", None)
    BY <1>8, SMT DEF MinorOutage, MinorWith
  <2>2. /\ P \in SUBSET Int
        /\ E \in SUBSET Int
        /\ \A x \in P : /\ ~(x >= Thresholds.critical_client_pct)
                         /\ ~(x >= Thresholds.critical_cross_border_client_pct)
                         /\ ~(x >= Thresholds.major_client_pct)
        /\ \A x \in E : /\ ~(x >= Thresholds.critical_financial_eur)
                         /\ ~(x >= Thresholds.major_financial_eur)
    BY DrawnSets, OfficialValues, SMT
  <2> HIDE DEF P, E
  <2>3. QED
    BY <2>1, <2>2, MinorDraw, DrawnSets
<1>9. CASE e \in MinorOther
  <2> DEFINE P == Percent(0, 990)
             E == Euros(100, 95000)
  <2>1. e \in Draw(NonCyberTypes \ {"system_outage"}, P, E, BOOLEAN, AnyProvider, "minor", None)
    BY <1>9, SMT DEF MinorOther, MinorWith
  <2>2. /\ P \in SUBSET Int
        /\ E \in SUBSET Int
        /\ \A x \in P : /\ ~(x >= Thresholds.critical_client_pct)
                         /\ ~(x >= Thresholds.critical_cross_border_client_pct)
                         /\ ~(x >= Thresholds.major_client_pct)
        /\ \A x \in E : /\ ~(x >= Thresholds.critical_financial_eur)
                         /\ ~(x >= Thresholds.major_financial_eur)
    BY DrawnSets, OfficialValues, SMT
  <2> HIDE DEF P, E
  <2>3. QED
    BY <2>1, <2>2, MinorDraw, DrawnSets
<1>10. QED
  BY <1>1, <1>2, <1>3, <1>4, <1>5, <1>6, <1>7, <1>8, <1>9 DEF RandomEvent

-----------------------------------------------------------------------------
(* Messages, queued or delivered, are routed by the severity they carry.   *)
Routed ==
  /\ \A m \in queue : m[3] \in RandomEvent /\ m[2] = TopicMap[m[3].severity]
  /\ DOMAIN topics = Topic
  /\ \A t \in Topic : \A m \in topics[t] : m[3] \in RandomEvent /\ t = TopicMap[m[3].severity]

(* Routed is inductive.                                                    *)
THEOREM RoutedInvariant == Spec => []Routed
<1>1. Init => Routed
  BY DEF Init, Routed
<1>2. Routed /\ [Next]_vars => Routed'
  <2> SUFFICES ASSUME Routed, [Next]_vars PROVE Routed'
    OBVIOUS
  <2>1. CASE \E e \in RandomEvent : ProduceEvent(e)
    BY <2>1 DEF ProduceEvent, Routed
  <2>2. CASE \E m \in queue : Delivered(m)
    BY <2>2 DEF Delivered, Routed
  <2>3. CASE \E m \in queue : DeliveryError(m)
    BY <2>3 DEF DeliveryError, Routed
  <2>4. CASE Interrupt \/ Stop
    BY <2>4 DEF Interrupt, Stop, Routed
  <2>5. CASE UNCHANGED vars
    BY <2>5 DEF vars, Routed
  <2>6. QED
    BY <2>1, <2>2, <2>3, <2>4, <2>5 DEF Next
<1>3. QED
  BY <1>1, <1>2, PTL DEF Spec

(* On every topic, the classifier agrees with the routing and with every   *)
(* field the simulator filled in, for any samples and number of events.    *)
THEOREM ClassifierAlwaysAgrees ==
  ASSUME Thresholds = DefaultThresholds
  PROVE  Spec => []ClassifierAgrees
<1>1. Routed => ClassifierAgrees
  BY SimulatorAgrees DEF Routed, ClassifierAgrees
<1>2. QED
  BY <1>1, RoutedInvariant, PTL

(* What a recipe draws has the severity it was asked for, one of the three.*)
LEMMA SeverityAsked ==
  ASSUME NEW types, NEW pcts, NEW euros, NEW cross, NEW providers, NEW severity, NEW hours,
         NEW e \in Draw(types, pcts, euros, cross, providers, severity, hours)
  PROVE  e.severity = severity
BY SMT DEF Draw

LEMMA SeverityDrawn ==
  ASSUME NEW e \in RandomEvent
  PROVE  e.severity \in Severity
<1>1. e \in CriticalHighPct => e.severity = "critical"
  BY SeverityAsked, SMT DEF CriticalHighPct
<1>2. e \in CriticalHighEur => e.severity = "critical"
  BY SeverityAsked, SMT DEF CriticalHighEur
<1>3. e \in CriticalCyber => e.severity = "critical"
  BY SeverityAsked, SMT DEF CriticalCyber
<1>4. e \in CriticalCrossBorder => e.severity = "critical"
  BY SeverityAsked, SMT DEF CriticalCrossBorder
<1>5. e \in MajorPct => e.severity = "major"
  BY SeverityAsked, SMT DEF MajorPct
<1>6. e \in MajorEur => e.severity = "major"
  BY SeverityAsked, SMT DEF MajorEur
<1>7. e \in MajorThirdParty => e.severity = "major"
  BY SeverityAsked, SMT DEF MajorThirdParty
<1>8. e \in MinorOutage => e.severity = "minor"
  BY SeverityAsked, SMT DEF MinorOutage, MinorWith
<1>9. e \in MinorOther => e.severity = "minor"
  BY SeverityAsked, SMT DEF MinorOther, MinorWith
<1>10. QED
  BY <1>1, <1>2, <1>3, <1>4, <1>5, <1>6, <1>7, <1>8, <1>9, SMT DEF RandomEvent, Severity

(* Messages are numbered, routed to a topic that exists, and kept or lost  *)
(* whole, for any samples and number of events.                            *)
THEOREM TypeCorrect == Spec => []TypeOK
<1>1. Init => TypeOK
  BY GeneratorAssumption DEF Init, TypeOK, GeneratorAssumption
<1>2. TypeOK /\ [Next]_vars => TypeOK'
  <2> SUFFICES ASSUME TypeOK, [Next]_vars PROVE TypeOK'
    OBVIOUS
  <2>1. ASSUME NEW e \in RandomEvent, ProduceEvent(e) PROVE TypeOK'
    <3>1. produced' \in 1..MaxEvents
      BY <2>1, GeneratorAssumption DEF ProduceEvent, TypeOK, GeneratorAssumption
    <3>2. TopicMap[e.severity] \in Topic
      BY SeverityDrawn DEF Topic
    <3>3. <<produced', TopicMap[e.severity], e>> \in Message
      BY <3>1, <3>2 DEF Message
    <3>4. queue' \subseteq Message
      BY <2>1, <3>3 DEF ProduceEvent, TypeOK
    <3>5. QED
      BY <2>1, <3>1, <3>4 DEF ProduceEvent, TypeOK
  <2>2. ASSUME NEW m \in queue, Delivered(m) PROVE TypeOK'
    <3>1. m \in Message
      BY DEF TypeOK
    <3>2. topics' \in [Topic -> SUBSET Message]
      BY <2>2, <3>1 DEF Delivered, TypeOK
    <3>3. QED
      BY <2>2, <3>2 DEF Delivered, TypeOK
  <2>3. CASE \E m \in queue : DeliveryError(m)
    BY <2>3 DEF DeliveryError, TypeOK
  <2>4. CASE Interrupt \/ Stop
    BY <2>4 DEF Interrupt, Stop, TypeOK
  <2>5. CASE UNCHANGED vars
    BY <2>5 DEF vars, TypeOK
  <2>6. QED
    BY <2>1, <2>2, <2>3, <2>4, <2>5 DEF Next
<1>3. QED
  BY <1>1, <1>2, PTL DEF Spec
=============================================================================

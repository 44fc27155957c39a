----------------------- MODULE ComplianceMartsProofs -----------------------
(***************************************************************************)
(* Proofs about ComplianceMarts, for any groups, loads and clock: the      *)
(* verdicts of mart_sla_breach are exact up to the rounding, a breach is   *)
(* never taken back, and mart_bafin_report never contradicts it.  And about*)
(* VendorRisk, for any seed: tiers never fall, replays move none, and they *)
(* are what the enriched incidents give.                                   *)
(***************************************************************************)
EXTENDS VendorRisk, FiniteSetTheorems, TLAPS

(* A deadline is four hours, three days or NULL.                           *)
LEMMA DeadlineType ==
  ASSUME NEW r \in Incident
  PROVE  /\ DeadlineHours(r) \in {4, 72, None}
         /\ Reportable(r) => DeadlineHours(r) \in {4, 72} /\ DeadlineTimestamp(r) \in Nat
         /\ r.detected \in Nat
         /\ r.contained # None => r.contained \in Nat /\ r.detected <= r.contained
<1>1. DeadlineHours(r) \in {4, 72, None}
  BY DEF DeadlineHours
<1>2. r.detected \in Nat /\ (r.contained # None => r.contained \in Nat /\ r.detected <= r.contained)
  BY DEF Incident
<1>3. Reportable(r) => DeadlineHours(r) \in {4, 72}
  BY <1>1 DEF Reportable
<1>4. Reportable(r) => DeadlineTimestamp(r) \in Nat
  BY <1>2, <1>3 DEF DeadlineTimestamp
<1>. QED
  BY <1>1, <1>2, <1>3, <1>4

(* Rounded hours are natural numbers and do not fall as time passes.       *)
LEMMA HoursMonotone ==
  ASSUME NEW d \in Nat, NEW e \in Nat, d <= e
  PROVE  Hours(d) \in Nat /\ Hours(d) <= Hours(e)
BY DEF Hours

(* The verdict on a reportable row is well typed.                          *)
LEMMA VerdictType ==
  ASSUME NEW r \in Incident, Reportable(r), now \in Nat
  PROVE  Verdict(r) \in [breached: BOOLEAN, overdue: Nat \cup {None}]
<1>1. PICK h \in {4, 72} : DeadlineHours(r) = h
  BY DeadlineType
<1>3. CASE r.contained # None
  <2>1. ContainmentHours(r) \in Nat
    BY <1>3, DeadlineType, HoursMonotone DEF ContainmentHours
  <2>2. SlaBreached(r) \in BOOLEAN
    BY <1>1, <1>3, <2>1 DEF SlaBreached
  <2>3. HoursOverdue(r) \in Nat \cup {None}
    BY <1>1, <1>3, <2>1 DEF HoursOverdue
  <2>. QED
    BY <2>2, <2>3 DEF Verdict
<1>4. CASE r.contained = None
  <2>1. DeadlineTimestamp(r) \in Nat
    BY DeadlineType
  <2>2. now > DeadlineTimestamp(r) => Hours(now - DeadlineTimestamp(r)) \in Nat
    BY <2>1, HoursMonotone
  <2>3. SlaBreached(r) \in BOOLEAN
    BY <1>4, <2>1 DEF SlaBreached
  <2>4. HoursOverdue(r) \in Nat \cup {None}
    BY <1>4, <2>1, <2>2 DEF HoursOverdue
  <2>. QED
    BY <2>3, <2>4 DEF Verdict
<1>. QED
  BY <1>3, <1>4

-----------------------------------------------------------------------------
(* What a published verdict says for good: of a contained incident exactly *)
(* what the rounded hours say, of an open one that its deadline has passed.*)
ContainedVerdict(r) ==
  [breached |-> ContainmentHours(r) > 100 * DeadlineHours(r),
   overdue  |-> IF ContainmentHours(r) > 100 * DeadlineHours(r)
                THEN ContainmentHours(r) - 100 * DeadlineHours(r) ELSE None]

VerdictOf(k) ==
  LET r == register[k] IN
  /\ r.contained # None => breach[k] = ContainedVerdict(r)
  /\ r.contained = None /\ breach[k].breached =>
       /\ now > DeadlineTimestamp(r)
       /\ breach[k].overdue \in Nat
       /\ breach[k].overdue <= Hours(now - DeadlineTimestamp(r))

(* Rows among the first n, of a group, that are reportable or in time.     *)
ReportableUpTo(g, n) == {k \in 1..n : register[k].group = g /\ Reportable(register[k])}
WithinUpTo(g, n)     == {k \in 1..n : register[k].group = g /\ IsWithinDeadline(register[k])}

(* A published line is the line of the first seen rows, which stay.        *)
LineOf(g) ==
  /\ bafin[g].reportable = Cardinality(ReportableUpTo(g, seen))
  /\ bafin[g].within = Cardinality(WithinUpTo(g, seen))
  /\ bafin[g].status = ComplianceStatus(CompliancePct(bafin[g].within, bafin[g].reportable))

(* The inductive invariant: each mart still is what its build computed.    *)
IInv ==
  /\ TypeOK
  /\ \A k \in DOMAIN breach : VerdictOf(k)
  /\ \A g \in DOMAIN bafin : LineOf(g)

-----------------------------------------------------------------------------
(* A build of mart_bafin_report counts with natural numbers.               *)
LEMMA LineType ==
  ASSUME TypeOK, NEW g
  PROVE  /\ Line(g) \in ReportLine
         /\ ReportableIn(g) = ReportableUpTo(g, Len(register))
         /\ WithinIn(g) = WithinUpTo(g, Len(register))
<1>1. Row = 1..Len(register) /\ Len(register) \in Nat
  BY DEF TypeOK, Row
<1>2. /\ ReportableIn(g) = ReportableUpTo(g, Len(register))
      /\ WithinIn(g) = WithinUpTo(g, Len(register))
  BY <1>1 DEF ReportableIn, WithinIn, RowsIn, ReportableUpTo, WithinUpTo
<1>3. IsFiniteSet(1..Len(register))
  BY <1>1, FS_Interval
<1>4. IsFiniteSet(ReportableIn(g)) /\ IsFiniteSet(WithinIn(g))
  <2>1. ReportableIn(g) \subseteq 1..Len(register) /\ WithinIn(g) \subseteq 1..Len(register)
    BY <1>2 DEF ReportableUpTo, WithinUpTo
  <2>. QED
    BY <2>1, <1>3, FS_Subset
<1>5. Cardinality(ReportableIn(g)) \in Nat /\ Cardinality(WithinIn(g)) \in Nat
  BY <1>4, FS_CardinalityType
<1>6. ComplianceStatus(CompliancePct(Cardinality(WithinIn(g)), Cardinality(ReportableIn(g))))
        \in {"COMPLIANT", "AT_RISK", "NON_COMPLIANT"}
  BY DEF ComplianceStatus
<1>7. Line(g) \in ReportLine
  BY <1>5, <1>6 DEF Line, ReportLine
<1>. QED
  BY <1>2, <1>7

(* The rows already there keep their places when a load is appended.       *)
LEMMA AppendKeepsRows ==
  ASSUME TypeOK, NEW rows \in Load, AppendRows(rows)
  PROVE  /\ register' \in Seq(Incident)
         /\ Len(register') \in Nat /\ Len(register) <= Len(register') /\ Len(register') <= MaxRows
         /\ \A k \in 1..Len(register) : register'[k] = register[k]
<1>1. register \in Seq(Incident) /\ rows \in Seq(Incident)
  BY MartAssumption DEF TypeOK, MartAssumption
<1>2. register' = register \o rows /\ Len(register) + Len(rows) <= MaxRows
  BY DEF AppendRows
<1>. QED
  BY <1>1, <1>2

(* Every action keeps the state well typed.                                *)
LEMMA TypeStep == TypeOK /\ [Next]_vars => TypeOK'
<1>. SUFFICES ASSUME TypeOK, [Next]_vars PROVE TypeOK'
  OBVIOUS
<1>1. ASSUME NEW rows \in Load, AppendRows(rows) PROVE TypeOK'
  <2>1. UNCHANGED <<now, bafin, seen, breach>>
    BY <1>1 DEF AppendRows
  <2>2. /\ register' \in Seq(Incident) /\ Len(register') <= MaxRows
        /\ \A k \in 1..Len(register) : register'[k] = register[k]
        /\ Len(register) \in Nat /\ Len(register') \in Nat /\ Len(register) <= Len(register')
    BY <1>1, AppendKeepsRows DEF TypeOK
  <2>3. seen' \in 0..Len(register')
    BY <2>1, <2>2 DEF TypeOK
  <2>4. DOMAIN bafin' = {register'[k].group : k \in 1..seen'}
    <3>1. \A k \in 1..seen : register'[k] = register[k]
      BY <2>2 DEF TypeOK
    <3>. QED
      BY <3>1, <2>1 DEF TypeOK
  <2>5. DOMAIN breach' \subseteq {k \in Row' : Reportable(register'[k])}
    BY <2>1, <2>2 DEF TypeOK, Row
  <2>. QED
    BY <2>1, <2>2, <2>3, <2>4, <2>5 DEF TypeOK
<1>2. CASE Tick
  BY <1>2 DEF Tick, TypeOK, Row
<1>3. CASE BuildBafinReport
  <2>1. UNCHANGED <<now, register, breach>>
    BY <1>3 DEF BuildBafinReport
  <2>2. /\ bafin' = [g \in {register[k].group : k \in Row} |-> Line(g)]
        /\ seen' = Len(register)
    BY <1>3 DEF BuildBafinReport
  <2>3. Row = 1..Len(register) /\ Len(register) \in Nat
    BY DEF TypeOK, Row
  <2>4. DOMAIN bafin' = {register'[k].group : k \in 1..seen'} /\ seen' \in 0..Len(register')
    BY <2>1, <2>2, <2>3
  <2>5. \A g \in DOMAIN bafin' : bafin'[g] \in ReportLine
    BY <2>2, LineType
  <2>. QED
    BY <2>1, <2>4, <2>5 DEF TypeOK, Row
<1>4. CASE BuildSlaBreach
  <2>1. UNCHANGED <<now, register, bafin, seen>>
    BY <1>4 DEF BuildSlaBreach
  <2>2. breach' = [k \in {k \in Row : Reportable(register[k])} |-> Verdict(register[k])]
    BY <1>4 DEF BuildSlaBreach
  <2>3. now \in Nat
    BY MartAssumption DEF TypeOK, MartAssumption
  <2>4. \A k \in DOMAIN breach' : breach'[k] \in [breached: BOOLEAN, overdue: Nat \cup {None}]
    <3>. SUFFICES ASSUME NEW k \in DOMAIN breach'
                  PROVE  breach'[k] \in [breached: BOOLEAN, overdue: Nat \cup {None}]
      OBVIOUS
    <3>1. k \in Row /\ Reportable(register[k]) /\ breach'[k] = Verdict(register[k])
      BY <2>2
    <3>2. register[k] \in Incident
      BY <3>1 DEF TypeOK, Row
    <3>. QED
      BY <3>1, <3>2, <2>3, VerdictType
  <2>5. DOMAIN breach' \subseteq {k \in Row' : Reportable(register'[k])}
    BY <2>1, <2>2 DEF Row
  <2>. QED
    BY <2>1, <2>4, <2>5 DEF TypeOK
<1>5. CASE UNCHANGED vars
  BY <1>5 DEF vars, TypeOK, Row
<1>. QED
  BY <1>1, <1>2, <1>3, <1>4, <1>5 DEF Next

(* What a published verdict says holds on: rows do not change and time only*)
(* moves on.                                                               *)
LEMMA VerdictStep ==
  TypeOK /\ (\A k \in DOMAIN breach : VerdictOf(k)) /\ [Next]_vars
    => (\A k \in DOMAIN breach : VerdictOf(k))'
<1>. SUFFICES ASSUME TypeOK, \A k \in DOMAIN breach : VerdictOf(k), [Next]_vars,
                     NEW k \in DOMAIN breach'
              PROVE  VerdictOf(k)'
  OBVIOUS
<1>0. Row = 1..Len(register) /\ Len(register) \in Nat /\ now \in Nat
  BY MartAssumption DEF TypeOK, Row, MartAssumption
<1>1. ASSUME NEW rows \in Load, AppendRows(rows) PROVE VerdictOf(k)'
  <2>1. UNCHANGED <<now, breach>>
    BY <1>1 DEF AppendRows
  <2>2. k \in 1..Len(register)
    BY <2>1, <1>0 DEF TypeOK
  <2>3. register'[k] = register[k]
    BY <1>1, <2>2, AppendKeepsRows
  <2>. QED
    BY <2>1, <2>3 DEF VerdictOf
<1>2. CASE Tick
  <2>1. UNCHANGED <<register, breach>> /\ now' \in Nat /\ now' > now
    BY <1>2, MartAssumption DEF Tick, MartAssumption
  <2>2. register[k] \in Incident /\ Reportable(register[k])
    BY <2>1, <1>0 DEF TypeOK
  <2>3. DeadlineTimestamp(register[k]) \in Nat
    BY <2>2, DeadlineType
  <2>4. ASSUME now > DeadlineTimestamp(register[k])
        PROVE  /\ now' > DeadlineTimestamp(register[k])
               /\ Hours(now - DeadlineTimestamp(register[k])) \in Nat
               /\ Hours(now' - DeadlineTimestamp(register[k])) \in Nat
               /\ Hours(now - DeadlineTimestamp(register[k]))
                    <= Hours(now' - DeadlineTimestamp(register[k]))
    BY <2>1, <2>3, <2>4, <1>0 DEF Hours
  <2>5. VerdictOf(k)
    BY <2>1
  <2>. QED
    BY <2>1, <2>4, <2>5 DEF VerdictOf
<1>3. CASE BuildBafinReport
  BY <1>3 DEF BuildBafinReport, VerdictOf
<1>4. CASE BuildSlaBreach
  <2>1. UNCHANGED <<now, register>>
    BY <1>4 DEF BuildSlaBreach
  <2>2. /\ k \in Row /\ Reportable(register[k])
        /\ breach'[k] = Verdict(register[k])
    BY <1>4 DEF BuildSlaBreach
  <2>3. register[k] \in Incident
    BY <2>2, <1>0 DEF TypeOK
  <2>4. ASSUME register[k].contained # None PROVE breach'[k] = ContainedVerdict(register[k])
    BY <2>2, <2>4 DEF Verdict, SlaBreached, HoursOverdue, ContainedVerdict
  <2>5. ASSUME register[k].contained = None, breach'[k].breached
        PROVE  /\ now > DeadlineTimestamp(register[k])
               /\ breach'[k].overdue = Hours(now - DeadlineTimestamp(register[k]))
    <3>1. breach'[k].breached = SlaBreached(register[k])
      BY <2>2 DEF Verdict
    <3>2. SlaBreached(register[k])
      BY <3>1, <2>5, Zenon
    <3>3. now > DeadlineTimestamp(register[k])
      BY <3>2, <2>5 DEF SlaBreached
    <3>4. breach'[k].overdue = HoursOverdue(register[k])
      BY <2>2 DEF Verdict
    <3>. QED
      BY <3>3, <3>4, <2>5 DEF HoursOverdue
  <2>6. DeadlineTimestamp(register[k]) \in Nat
    BY <2>2, <2>3, DeadlineType
  <2>7. now > DeadlineTimestamp(register[k]) => Hours(now - DeadlineTimestamp(register[k])) \in Nat
    BY <2>6, <1>0, HoursMonotone
  <2>. QED
    BY <2>1, <2>4, <2>5, <2>7, <1>0 DEF VerdictOf
<1>5. CASE UNCHANGED vars
  BY <1>5 DEF vars, VerdictOf
<1>. QED
  BY <1>1, <1>2, <1>3, <1>4, <1>5 DEF Next

(* A published line goes on being the line of the rows it was computed     *)
(* from.                                                                   *)
LEMMA LineStep ==
  TypeOK /\ (\A g \in DOMAIN bafin : LineOf(g)) /\ [Next]_vars
    => (\A g \in DOMAIN bafin : LineOf(g))'
<1>. SUFFICES ASSUME TypeOK, \A g \in DOMAIN bafin : LineOf(g), [Next]_vars,
                     NEW g \in DOMAIN bafin'
              PROVE  LineOf(g)'
  OBVIOUS
<1>1. ASSUME NEW rows \in Load, AppendRows(rows) PROVE LineOf(g)'
  <2>1. UNCHANGED <<bafin, seen>>
    BY <1>1 DEF AppendRows
  <2>2. \A k \in 1..seen : register'[k] = register[k]
    BY <1>1, AppendKeepsRows DEF TypeOK
  <2>3. /\ ReportableUpTo(g, seen)' = ReportableUpTo(g, seen)
        /\ WithinUpTo(g, seen)' = WithinUpTo(g, seen)
    BY <2>1, <2>2 DEF ReportableUpTo, WithinUpTo
  <2>4. LineOf(g)
    BY <2>1
  <2>. QED
    BY <2>1, <2>3, <2>4 DEF LineOf
<1>2. CASE Tick
  BY <1>2 DEF Tick, LineOf, ReportableUpTo, WithinUpTo
<1>3. CASE BuildBafinReport
  <2>1. UNCHANGED register /\ seen' = Len(register) /\ bafin'[g] = Line(g)
    BY <1>3 DEF BuildBafinReport
  <2>2. /\ ReportableUpTo(g, seen)' = ReportableIn(g)
        /\ WithinUpTo(g, seen)' = WithinIn(g)
    BY <2>1, LineType DEF ReportableUpTo, WithinUpTo
  <2>3. /\ Line(g).reportable = Cardinality(ReportableIn(g))
        /\ Line(g).within = Cardinality(WithinIn(g))
        /\ Line(g).status = ComplianceStatus(CompliancePct(Line(g).within, Line(g).reportable))
    BY DEF Line
  <2>. QED
    BY <2>1, <2>2, <2>3 DEF LineOf
<1>4. CASE BuildSlaBreach
  BY <1>4 DEF BuildSlaBreach, LineOf, ReportableUpTo, WithinUpTo
<1>5. CASE UNCHANGED vars
  BY <1>5 DEF vars, LineOf, ReportableUpTo, WithinUpTo
<1>. QED
  BY <1>1, <1>2, <1>3, <1>4, <1>5 DEF Next

(* The marts start empty and every action preserves the invariant.         *)
THEOREM MartInvariance == Spec => []IInv
<1>1. Init => IInv
  <2>. SUFFICES ASSUME Init PROVE IInv
    OBVIOUS
  <2>1. TypeOK
    BY MartAssumption DEF Init, TypeOK, Row, MartAssumption
  <2>2. DOMAIN breach = {} /\ DOMAIN bafin = {}
    BY DEF Init
  <2>. QED
    BY <2>1, <2>2 DEF IInv
<1>2. IInv /\ [Next]_vars => IInv'
  BY TypeStep, VerdictStep, LineStep DEF IInv
<1>. QED
  BY <1>1, <1>2, PTL DEF Spec

(* The state of the marts is always well typed.                            *)
THEOREM MartTypeCorrect == Spec => []TypeOK
<1>1. IInv => TypeOK
  BY DEF IInv
<1>. QED
  BY <1>1, MartInvariance, PTL

-----------------------------------------------------------------------------
(* VerdictExact: mart_sla_breach is right about every contained incident,  *)
(* for any detection and containment times, up to half a hundredth hour.   *)
THEOREM VerdictsAreExact == Spec => []VerdictExact
<1>1. IInv => VerdictExact
  <2>. SUFFICES ASSUME IInv, NEW k \in DOMAIN breach, register[k].contained # None
                PROVE  LET r == register[k] IN
                       /\ r.contained <= DeadlineTimestamp(r) => ~breach[k].breached
                       /\ r.contained >= DeadlineTimestamp(r) + 18 => breach[k].breached
    BY DEF VerdictExact
  <2>1. register[k] \in Incident /\ Reportable(register[k])
    BY DEF IInv, TypeOK, Row
  <2>2. PICK h \in {4, 72} : DeadlineHours(register[k]) = h
    BY <2>1, DeadlineType
  <2>3. PICK d \in Nat, c \in Nat : register[k].detected = d /\ register[k].contained = c /\ d <= c
    BY <2>1, DeadlineType
  <2>4. breach[k].breached = (Hours(c - d) > 100 * h)
    BY <2>2, <2>3 DEF IInv, VerdictOf, ContainedVerdict, ContainmentHours
  <2>5. DeadlineTimestamp(register[k]) = d + 3600 * h
    BY <2>2, <2>3 DEF DeadlineTimestamp
  <2>6. /\ c <= d + 3600 * h => ~(Hours(c - d) > 100 * h)
        /\ c >= d + 3600 * h + 18 => Hours(c - d) > 100 * h
    BY <2>3, SMT DEF Hours
  <2>7. /\ register[k].contained <= DeadlineTimestamp(register[k]) => ~(Hours(c - d) > 100 * h)
        /\ register[k].contained >= DeadlineTimestamp(register[k]) + 18 => Hours(c - d) > 100 * h
    BY <2>3, <2>5, <2>6
  <2>. QED
    BY <2>4, <2>7, Zenon
<1>. QED
  BY <1>1, MartInvariance, PTL

(* BreachIsForGood: no rebuild, load or lapse of time takes a published    *)
(* breach back or makes it smaller.                                        *)
THEOREM BreachesAreForGood == Spec => BreachIsForGood
<1>1. IInv /\ IInv' /\ [Next]_vars =>
        [\A k \in DOMAIN breach : breach[k].breached =>
            /\ k \in DOMAIN breach' /\ breach'[k].breached
            /\ breach'[k].overdue >= breach[k].overdue]_vars
  <2>. SUFFICES ASSUME IInv, IInv', [Next]_vars, NEW k \in DOMAIN breach, breach[k].breached
                PROVE  /\ k \in DOMAIN breach' /\ breach'[k].breached
                       /\ breach'[k].overdue >= breach[k].overdue
    OBVIOUS
  <2>0. TypeOK /\ Row = 1..Len(register) /\ now \in Nat /\ VerdictOf(k)
    BY MartAssumption DEF IInv, TypeOK, Row, MartAssumption
  <2>1. register[k] \in Incident /\ Reportable(register[k]) /\ k \in Row
    BY <2>0 DEF TypeOK
  <2>2. PICK h \in {4, 72} : DeadlineHours(register[k]) = h
    BY <2>1, DeadlineType
  <2>3. breach[k].overdue \in Nat
    <3>1. CASE register[k].contained # None
      <4>1. PICK n \in Nat : ContainmentHours(register[k]) = n
        BY <3>1, <2>1, DeadlineType, HoursMonotone DEF ContainmentHours
      <4>2. breach[k] = ContainedVerdict(register[k])
        BY <3>1, <2>0 DEF VerdictOf
      <4>3. ContainedVerdict(register[k]).breached
        BY <4>2, Zenon
      <4>4. n > 100 * h
        BY <4>1, <4>3, <2>2 DEF ContainedVerdict
      <4>5. breach[k].overdue = ContainmentHours(register[k]) - 100 * DeadlineHours(register[k])
        BY <4>1, <4>2, <4>4, <2>2 DEF ContainedVerdict
      <4>. QED
        BY <4>1, <4>4, <4>5, <2>2
    <3>2. CASE register[k].contained = None
      BY <3>2, <2>0 DEF VerdictOf
    <3>. QED
      BY <3>1, <3>2
  <2>4. CASE breach' = breach
    BY <2>4, <2>3
  <2>5. CASE BuildSlaBreach
    <3>1. k \in DOMAIN breach' /\ breach'[k] = Verdict(register[k]) /\ UNCHANGED <<now, register>>
      BY <2>5, <2>1 DEF BuildSlaBreach
    <3>2. CASE register[k].contained # None
      <4>1. breach[k] = ContainedVerdict(register[k])
        BY <3>2, <2>0 DEF VerdictOf
      <4>2. breach'[k] = ContainedVerdict(register'[k])
        BY <3>1, <3>2 DEF IInv, VerdictOf
      <4>. QED
        BY <3>1, <4>1, <4>2, <2>3
    <3>3. CASE register[k].contained = None
      <4>1. /\ now > DeadlineTimestamp(register[k])
            /\ breach[k].overdue <= Hours(now - DeadlineTimestamp(register[k]))
        BY <3>3, <2>0 DEF VerdictOf
      <4>2. breach'[k].overdue = Hours(now - DeadlineTimestamp(register[k]))
        BY <3>1, <3>3, <4>1 DEF Verdict, HoursOverdue
      <4>3. breach'[k].breached = SlaBreached(register[k])
        BY <3>1 DEF Verdict
      <4>4. SlaBreached(register[k])
        BY <3>3, <4>1 DEF SlaBreached
      <4>5. Hours(now - DeadlineTimestamp(register[k])) \in Nat
        <5>1. DeadlineTimestamp(register[k]) \in Nat
          BY <2>1, DeadlineType
        <5>. QED
          BY <5>1, <4>1, <2>0, HoursMonotone
      <4>6. breach'[k].breached
        BY <4>3, <4>4, Zenon
      <4>. QED
        BY <3>1, <4>1, <4>2, <4>5, <4>6, <2>3
    <3>. QED
      BY <3>2, <3>3
  <2>. QED
    BY <2>4, <2>5 DEF Next, AppendRows, Tick, BuildBafinReport, vars
<1>. QED
  BY <1>1, MartInvariance, PTL DEF Spec, BreachIsForGood

(* NotBothWithinAndBreached: the two marts never contradict each other,    *)
(* whenever each of them was rebuilt.                                      *)
THEOREM MartsNeverContradict == Spec => []NotBothWithinAndBreached
<1>1. IInv => NotBothWithinAndBreached
  <2>. SUFFICES ASSUME IInv, NEW g \in DOMAIN bafin
                PROVE  bafin[g].within + Cardinality(Flagged(g)) <= bafin[g].reportable
    BY DEF NotBothWithinAndBreached
  <2>. DEFINE W == WithinUpTo(g, seen)
              R == ReportableUpTo(g, seen)
              F == Flagged(g)
  <2>1. seen \in Nat /\ seen <= Len(register) /\ Row = 1..Len(register)
        /\ Len(register) \in Nat /\ register \in Seq(Incident)
    BY DEF IInv, TypeOK, Row
  <2>2. bafin[g].reportable = Cardinality(R) /\ bafin[g].within = Cardinality(W)
    BY DEF IInv, LineOf
  <2>3. IsFiniteSet(R)
    <3>1. R \in SUBSET (1..seen)
      BY DEF ReportableUpTo
    <3>2. IsFiniteSet(1..seen)
      BY <2>1, FS_Interval
    <3>. HIDE DEF R
    <3>. QED
      BY <3>1, <3>2, FS_Subset
  <2>4. W \subseteq R
    BY DEF WithinUpTo, ReportableUpTo, IsWithinDeadline
  <2>5. F \subseteq R
    BY <2>1 DEF Flagged, ReportableUpTo, IInv, TypeOK
  <2>6. W \cap F = {}
    <3>. SUFFICES ASSUME NEW k \in W, k \in F PROVE FALSE
      OBVIOUS
    <3>1. /\ k \in DOMAIN breach /\ breach[k].breached
          /\ register[k] \in Incident /\ Reportable(register[k])
          /\ register[k].contained # None
          /\ ContainmentHours(register[k]) <= 100 * DeadlineHours(register[k])
      BY <2>1 DEF Flagged, WithinUpTo, IsWithinDeadline
    <3>2. breach[k] = ContainedVerdict(register[k])
      BY <3>1 DEF IInv, VerdictOf
    <3>3. ContainedVerdict(register[k]).breached
      BY <3>1, <3>2, Zenon
    <3>4. PICK n \in Nat : ContainmentHours(register[k]) = n
      BY <3>1, DeadlineType, HoursMonotone DEF ContainmentHours
    <3>5. PICK h \in {4, 72} : DeadlineHours(register[k]) = h
      BY <3>1, DeadlineType
    <3>6. n > 100 * h
      BY <3>3, <3>4, <3>5 DEF ContainedVerdict
    <3>. QED
      BY <3>1, <3>4, <3>5, <3>6
  <2>. HIDE DEF W, R, F
  <2>7. IsFiniteSet(W) /\ IsFiniteSet(F)
    BY <2>3, <2>4, <2>5, FS_Subset
  <2>8. Cardinality(W \cup F) = Cardinality(W) + Cardinality(F)
    <3>1. Cardinality(W \cup F) = Cardinality(W) + Cardinality(F) - Cardinality(W \cap F)
      BY <2>7, FS_Union
    <3>2. Cardinality(W \cap F) = 0
      BY <2>6, FS_EmptySet
    <3>. QED
      BY <3>1, <3>2, <2>7, FS_CardinalityType
  <2>9. Cardinality(W \cup F) <= Cardinality(R)
    BY <2>3, <2>4, <2>5, FS_Subset
  <2>. QED
    BY <2>2, <2>8, <2>9 DEF F
<1>. QED
  BY <1>1, MartInvariance, PTL

(* A quotient is at least c only if the dividend is at least c times the   *)
(* divisor.                                                                *)
LEMMA QuotientBound ==
  ASSUME NEW x \in Nat, NEW y \in Nat \ {0}, NEW c \in Nat, x \div y >= c
  PROVE  x >= c * y
<1>1. PICK q \in Nat : q = x \div y
  OBVIOUS
<1>2. x >= y * q
  BY <1>1
<1>3. PICK n \in Nat : q = c + n
  BY <1>1
<1>4. y * q = c * y + n * y /\ n * y >= 0
  BY <1>3
<1>. QED
  BY <1>2, <1>4

(* A status other than NON_COMPLIANT, or COMPLIANT, needs its rate.        *)
LEMMA StatusBound ==
  ASSUME NEW w \in Nat, NEW t \in Nat \ {0}
  PROVE  LET status == ComplianceStatus(CompliancePct(w, t)) IN
         /\ status # "NON_COMPLIANT" => 20000 * w >= 15999 * t
         /\ status = "COMPLIANT" => 20000 * w >= 18999 * t
<1>. DEFINE q == (20000 * w + t) \div (2 * t)
<1>1. q \in Int
  OBVIOUS
<1>2. CompliancePct(w, t) = q /\ q # None
  BY <1>1, MartAssumption DEF CompliancePct, MartAssumption
<1>3. 20000 * w + t \in Nat /\ 2 * t \in Nat \ {0}
  OBVIOUS
<1>4. q >= 8000 => 20000 * w + t >= 8000 * (2 * t)
  BY <1>3, QuotientBound
<1>5. q >= 9500 => 20000 * w + t >= 9500 * (2 * t)
  BY <1>3, QuotientBound
<1>. HIDE DEF q
<1>6. ComplianceStatus(q) # "NON_COMPLIANT" => q >= 8000
  BY <1>1, <1>2 DEF ComplianceStatus
<1>7. ComplianceStatus(q) = "COMPLIANT" => q >= 9500
  BY <1>1, <1>2 DEF ComplianceStatus
<1>8. ComplianceStatus(CompliancePct(w, t)) # "NON_COMPLIANT" => 20000 * w >= 15999 * t
  BY <1>2, <1>4, <1>6
<1>9. ComplianceStatus(CompliancePct(w, t)) = "COMPLIANT" => 20000 * w >= 18999 * t
  BY <1>2, <1>5, <1>7
<1>. QED
  BY <1>8, <1>9

(* BreachesAlerted: what mart_sla_breach flags shows in the status, for any*)
(* number of rows.                                                         *)
THEOREM BreachesAreAlerted == Spec => []BreachesAlerted
<1>1. IInv /\ NotBothWithinAndBreached => BreachesAlerted
  <2>. SUFFICES ASSUME IInv, NotBothWithinAndBreached, NEW g \in DOMAIN bafin
                PROVE
                  /\ 20000 * Cardinality(Flagged(g)) > 4001 * bafin[g].reportable
                       => bafin[g].status = "NON_COMPLIANT"
                  /\ 20000 * Cardinality(Flagged(g)) > 1001 * bafin[g].reportable
                       => bafin[g].status # "COMPLIANT"
    BY DEF BreachesAlerted
  <2>. DEFINE b == Cardinality(Flagged(g))
  <2>1. PICK w \in Nat, t \in Nat : bafin[g].within = w /\ bafin[g].reportable = t
    BY DEF IInv, TypeOK, ReportLine
  <2>2. b \in Nat
    <3>1. seen \in Nat /\ Flagged(g) \in SUBSET (1..seen)
      BY DEF Flagged, IInv, TypeOK, Row
    <3>2. IsFiniteSet(1..seen)
      BY <3>1, FS_Interval
    <3>. QED
      BY <3>1, <3>2, FS_Subset, FS_CardinalityType
  <2>3. w + b <= t
    BY <2>1 DEF NotBothWithinAndBreached
  <2>4. bafin[g].status = ComplianceStatus(CompliancePct(w, t))
    BY <2>1 DEF IInv, LineOf
  <2>. HIDE DEF b
  <2>5. CASE t = 0
    BY <2>1, <2>2, <2>3, <2>5 DEF b
  <2>6. CASE t # 0
    <3>1. /\ bafin[g].status # "NON_COMPLIANT" => 20000 * w >= 15999 * t
          /\ bafin[g].status = "COMPLIANT" => 20000 * w >= 18999 * t
      BY <2>4, <2>6, StatusBound
    <3>2. 20000 * b > 4001 * t => ~(20000 * w >= 15999 * t)
      BY <2>1, <2>2, <2>3, SMT
    <3>3. 20000 * b > 1001 * t => ~(20000 * w >= 18999 * t)
      BY <2>1, <2>2, <2>3, SMT
    <3>. QED
      BY <2>1, <3>1, <3>2, <3>3 DEF b
  <2>. QED
    BY <2>5, <2>6
<1>. QED
  BY <1>1, MartInvariance, MartsNeverContradict, PTL
-----------------------------------------------------------------------------
(* mart_vendor_risk: what of it is a function of the set of rows it was     *)
(* computed from.                                                          *)

ProvidersOf(rows) == {r.provider : r \in rows} \ {None}

ExposedOf(rows, p) == {InstitutionOf[r.group] : r \in {r \in rows : r.provider = p}}

(* Columns exposed and tier of a line are those of these rows.             *)
Shows(line, rows, p) ==
  /\ line.exposed = Cardinality(ExposedOf(rows, p))
  /\ line.tier = Tier(Cardinality(ExposedOf(rows, p)), Joined(p).critical)

(* The register of vendors shows what it was told, all of it stored rows.  *)
RiskInv ==
  /\ told \subseteq Range(register)
  /\ DOMAIN risk = ProvidersOf(told)
  /\ \A p \in DOMAIN risk : Shows(risk[p], told, p)

(* A process has read the whole vendor list, or nothing.                   *)
ReferenceInv == reference \in {None, <<>>, StgIctVendors}

(* A rebuild looks at the rows, not at how often and where they are stored.*)
LEMMA RiskOfRows ==
  /\ Providers = ProvidersOf(Range(register))
  /\ \A p : Shows(RiskLine(p), Range(register), p)
<1>1. Providers = ProvidersOf(Range(register))
  BY DEF Providers, ProvidersOf, Row, Range
<1>2. ASSUME NEW p PROVE Shows(RiskLine(p), Range(register), p)
  <2>1. Exposed(p) = ExposedOf(Range(register), p)
    BY DEF Exposed, ExposedOf, RowsWith, Row, Range
  <2>. QED
    BY <2>1 DEF RiskLine, Shows
<1>. QED
  BY <1>1, <1>2

(* Finitely many rows are stored.                                          *)
LEMMA RowsFinite ==
  ASSUME register \in Seq(Incident)
  PROVE  IsFiniteSet(Range(register))
<1>1. IsFiniteSet(1..Len(register))
  BY FS_Interval
<1>2. register \in Surjection(1..Len(register), Range(register))
  BY DEF Surjection, Range
<1>. QED
  BY <1>1, <1>2, FS_Surjection

(* A set of stored rows is of finitely many institutions; of more rows     *)
(* there are no fewer.                                                     *)
LEMMA InstitutionsMonotone ==
  ASSUME register \in Seq(Incident), NEW few, NEW many,
         few \subseteq many, many \subseteq Range(register)
  PROVE  LET m == Cardinality({InstitutionOf[r.group] : r \in few})
             n == Cardinality({InstitutionOf[r.group] : r \in many})
         IN  m \in Nat /\ n \in Nat /\ m <= n
<1>. DEFINE S == {InstitutionOf[r.group] : r \in few}
            T == {InstitutionOf[r.group] : r \in many}
            f == [r \in many |-> InstitutionOf[r.group]]
<1>1. IsFiniteSet(many)
  BY RowsFinite, FS_Subset
<1>2. f \in Surjection(many, T)
  BY DEF Surjection
<1>3. IsFiniteSet(T)
  BY <1>1, <1>2, FS_Surjection
<1>4. S \subseteq T
  OBVIOUS
<1>. QED
  BY <1>3, <1>4, FS_Subset, FS_CardinalityType

(* More institutions, or a designation, never lower a tier.                *)
LEMMA TierMonotone ==
  ASSUME NEW m \in Nat, NEW n \in Nat, m <= n, NEW c, NEW d, c => d
  PROVE  /\ Rank(Tier(m, c)) \in Nat /\ Rank(Tier(n, d)) \in Nat
         /\ Rank(Tier(m, c)) <= Rank(Tier(n, d))
<1>1. Rank("LOW") = 0 /\ Rank("MEDIUM") = 1 /\ Rank("HIGH") = 2
  BY DEF Rank
<1>2. CASE d
  <2>1. Tier(n, d) = "HIGH"
    BY <1>2 DEF Tier
  <2>2. Tier(m, c) \in {"LOW", "MEDIUM", "HIGH"}
    BY DEF Tier
  <2>. QED
    BY <1>1, <2>1, <2>2
<1>3. CASE ~d
  <2>1. Rank(Tier(m, c)) = IF m >= 5 THEN 2 ELSE IF m >= 2 THEN 1 ELSE 0
    BY <1>1, <1>3 DEF Tier
  <2>2. Rank(Tier(n, d)) = IF n >= 5 THEN 2 ELSE IF n >= 2 THEN 1 ELSE 0
    BY <1>1, <1>3 DEF Tier
  <2>. QED
    BY <2>1, <2>2
<1>. QED
  BY <1>2, <1>3

(* The third mart, and who reads the seed, leave the other two alone.      *)
LEMMA VendorSpecIsSpec == VendorSpec => Spec
<1>1. VendorInit => Init
  BY DEF VendorInit
<1>2. [VendorNext]_<<vars, vendorVars>> => [Next]_vars
  BY DEF VendorNext, BuildVendorRisk, LoadVendorReference, StartProcess, Deploy
<1>. QED
  BY <1>1, <1>2, PTL DEF VendorSpec, Spec

(* Rows stay where they are, so that what was told is told for good.       *)
LEMMA RowsStay ==
  ASSUME TypeOK, [Next]_vars
  PROVE  Range(register) \subseteq Range(register')
<1>1. ASSUME NEW rows \in Load, AppendRows(rows) PROVE Range(register) \subseteq Range(register')
  <2>1. /\ register' \in Seq(Incident) /\ Len(register) <= Len(register')
        /\ \A k \in 1..Len(register) : register'[k] = register[k]
    BY <1>1, AppendKeepsRows
  <2>2. register \in Seq(Incident)
    BY DEF TypeOK
  <2>. QED
    BY <2>1, <2>2 DEF Range
<1>2. CASE UNCHANGED register
  BY <1>2
<1>. QED
  BY <1>1, <1>2 DEF Next, vars, Tick, BuildBafinReport, BuildSlaBreach

(* The register of vendors starts empty and every step keeps RiskInv; a    *)
(* process starts with nothing and keeps what it read.                     *)
THEOREM RiskInvariance == VendorSpec => [](TypeOK /\ RiskInv /\ ReferenceInv)
<1>1. VendorInit => RiskInv /\ ReferenceInv
  <2>. SUFFICES ASSUME VendorInit PROVE RiskInv /\ ReferenceInv
    OBVIOUS
  <2>1. told = {} /\ risk = <<>> /\ reference = None
    BY DEF VendorInit
  <2>2. ProvidersOf({}) = {}
    BY DEF ProvidersOf
  <2>. QED
    BY <2>1, <2>2 DEF RiskInv, ReferenceInv
<1>2. TypeOK /\ RiskInv /\ [VendorNext]_<<vars, vendorVars>> => RiskInv'
  <2>. SUFFICES ASSUME TypeOK, RiskInv, [VendorNext]_<<vars, vendorVars>> PROVE RiskInv'
    OBVIOUS
  <2>1. CASE [Next]_vars /\ UNCHANGED <<risk, told>>
    <3>1. told' \subseteq Range(register')
      BY <2>1, RowsStay DEF RiskInv
    <3>2. DOMAIN risk' = ProvidersOf(told') /\ \A p \in DOMAIN risk' : Shows(risk'[p], told', p)
      BY <2>1 DEF RiskInv
    <3>. QED
      BY <3>1, <3>2 DEF RiskInv, ProvidersOf, Shows, ExposedOf, Joined, StgIctVendors
  <2>2. CASE BuildVendorRisk
    <3>1. register' = register /\ told' = Range(register)
      BY <2>2 DEF BuildVendorRisk, vars
    <3>2. DOMAIN risk' = ProvidersOf(told') /\ \A p \in DOMAIN risk' : Shows(risk'[p], told', p)
      BY <2>2, <3>1, RiskOfRows DEF BuildVendorRisk
    <3>. QED
      BY <3>1, <3>2 DEF RiskInv, ProvidersOf, Shows, ExposedOf, Joined, StgIctVendors
  <2>. QED
    BY <2>1, <2>2 DEF VendorNext, vendorVars, LoadVendorReference, StartProcess, Deploy
<1>3. ReferenceInv /\ [VendorNext]_<<vars, vendorVars>> => ReferenceInv'
  <2>1. VendorReference \in {<<>>, StgIctVendors}
    BY DEF VendorReference, StgIctVendors
  <2>2. ReferenceInv' <=> reference' \in {None, <<>>, StgIctVendors}
    BY DEF ReferenceInv, StgIctVendors
  <2>. QED
    BY <2>1, <2>2
    DEF ReferenceInv, VendorNext, vendorVars, BuildVendorRisk, LoadVendorReference, StartProcess, Deploy
<1>4. VendorSpec => []TypeOK
  BY VendorSpecIsSpec, MartTypeCorrect, PTL
<1>. QED
  BY <1>1, <1>2, <1>3, <1>4, PTL DEF VendorSpec

(* A step rebuilds the register of vendors from all rows, or leaves it.    *)
LEMMA RebuiltOrKept ==
  ASSUME [VendorNext]_<<vars, vendorVars>>
  PROVE  \/ /\ DOMAIN risk' = ProvidersOf(Range(register))
            /\ \A p \in DOMAIN risk' : Shows(risk'[p], Range(register), p)
         \/ risk' = risk
<1>1. CASE BuildVendorRisk
  BY <1>1, RiskOfRows DEF BuildVendorRisk
<1>2. CASE risk' = risk
  BY <1>2
<1>. QED
  BY <1>1, <1>2 DEF VendorNext, vendorVars, LoadVendorReference, StartProcess, Deploy

(* No load, rebuild or lapse of time lowers a provider's tier or takes the *)
(* provider out of the register, for any seed and any institutions.        *)
THEOREM TiersNeverFall == VendorSpec => TierNeverFalls
<1>. DEFINE Kept(p) == /\ p \in DOMAIN risk'
                       /\ risk'[p].exposed >= risk[p].exposed
                       /\ Rank(risk'[p].tier) >= Rank(risk[p].tier)
<1>1. TypeOK /\ RiskInv /\ [VendorNext]_<<vars, vendorVars>>
        => [\A p \in DOMAIN risk : Kept(p)]_<<vars, vendorVars>>
  <2>. SUFFICES ASSUME TypeOK, RiskInv, [VendorNext]_<<vars, vendorVars>>, NEW p \in DOMAIN risk
                PROVE  Kept(p)
    OBVIOUS
  <2>. DEFINE c == Joined(p).critical
              m == Cardinality(ExposedOf(told, p))
              n == Cardinality(ExposedOf(Range(register), p))
  <2>1. register \in Seq(Incident) /\ told \subseteq Range(register)
    BY DEF TypeOK, RiskInv
  <2>2. p \in ProvidersOf(told) /\ risk[p].exposed = m /\ risk[p].tier = Tier(m, c)
    BY DEF RiskInv, Shows
  <2>3. m \in Nat /\ n \in Nat /\ m <= n
    BY <2>1, InstitutionsMonotone DEF ExposedOf
  <2>4. /\ Rank(Tier(m, c)) \in Nat /\ Rank(Tier(n, c)) \in Nat
        /\ Rank(Tier(m, c)) <= Rank(Tier(n, c))
    BY <2>3, TierMonotone
  <2>5. CASE /\ DOMAIN risk' = ProvidersOf(Range(register))
             /\ \A q \in DOMAIN risk' : Shows(risk'[q], Range(register), q)
    <3>1. p \in DOMAIN risk'
      BY <2>1, <2>2, <2>5 DEF ProvidersOf
    <3>2. risk'[p].exposed = n /\ risk'[p].tier = Tier(n, c)
      BY <2>5, <3>1 DEF Shows
    <3>. QED
      BY <2>2, <2>3, <2>4, <3>1, <3>2
  <2>6. CASE risk' = risk
    BY <2>2, <2>3, <2>4, <2>6
  <2>. QED
    BY <2>5, <2>6, RebuiltOrKept
<1>. QED
  BY <1>1, RiskInvariance, PTL DEF VendorSpec, TierNeverFalls

(* Rows stored once more change no vendor's exposure and no tier, though   *)
(* they change the other columns, for any seed and any number of copies.   *)
THEOREM ReplaysNeverCount == VendorSpec => ReplaysDoNotCount
<1>. DEFINE Same == /\ DOMAIN risk' = DOMAIN risk
                    /\ \A p \in DOMAIN risk :
                         /\ risk'[p].exposed = risk[p].exposed
                         /\ risk'[p].tier = risk[p].tier
<1>1. RiskInv /\ [VendorNext]_<<vars, vendorVars>>
        => [told = Range(register) => Same]_<<vars, vendorVars>>
  <2>. SUFFICES ASSUME RiskInv, [VendorNext]_<<vars, vendorVars>>, told = Range(register)
                PROVE  Same
    OBVIOUS
  <2>1. CASE risk' = risk
    BY <2>1
  <2>2. CASE /\ DOMAIN risk' = ProvidersOf(Range(register))
             /\ \A q \in DOMAIN risk' : Shows(risk'[q], Range(register), q)
    BY <2>2 DEF RiskInv, Shows
  <2>. QED
    BY <2>1, <2>2, RebuiltOrKept
<1>. QED
  BY <1>1, RiskInvariance, PTL DEF VendorSpec, ReplaysDoNotCount

(* The flag enrich_event attaches.                                         *)
LEMMA FlagOfEvent ==
  ASSUME NEW p, p # None
  PROVE  EnrichEvent(p).known /\ EnrichEvent(p).critical
           <=> Trimmed[p] \in DOMAIN reference /\ reference[Trimmed[p]].critical
BY DEF EnrichEvent

(* Whatever the seed, the names and the institutions are, the tier shown is*)
(* the one the enriched incidents give, but for names with blanks around   *)
(* them and a file that was missed, each of which errs in one direction.   *)
THEOREM TiersAreAsEnriched == VendorSpec => []TierAsEnriched
<1>1. TypeOK /\ RiskInv /\ ReferenceInv => TierAsEnriched
  <2>. SUFFICES ASSUME TypeOK, RiskInv, ReferenceInv, reference # None, NEW p \in DOMAIN risk
                PROVE
                  /\ DOMAIN reference # {} => Rank(risk[p].tier) <= Rank(TierOfEnriched(p))
                  /\ (\A r \in ToldOf(p) : r.provider = Trimmed[p])
                       => Rank(risk[p].tier) >= Rank(TierOfEnriched(p))
    BY DEF TierAsEnriched
  <2>. DEFINE own    == {r \in told : r.provider = p}
              m      == Cardinality({InstitutionOf[r.group] : r \in own})
              n      == Cardinality({InstitutionOf[r.group] : r \in ToldOf(p)})
              joined == Joined(p).critical
              flag   == EnrichEvent(p).known /\ EnrichEvent(p).critical
  <2>1. register \in Seq(Incident) /\ told \subseteq Range(register)
    BY DEF TypeOK, RiskInv
  <2>2. p # None /\ \E r \in told : r.provider = p
    BY DEF RiskInv, ProvidersOf
  <2>3. risk[p].tier = Tier(m, joined) /\ TierOfEnriched(p) = Tier(n, flag)
    BY DEF RiskInv, Shows, ExposedOf, TierOfEnriched
  <2>4. own \subseteq ToldOf(p) /\ ToldOf(p) \subseteq Range(register)
    BY <2>1, <2>2 DEF ToldOf
  <2>5. m \in Nat /\ n \in Nat /\ m <= n
    BY <2>1, <2>4, InstitutionsMonotone
  <2>6. flag <=> Trimmed[p] \in DOMAIN reference /\ reference[Trimmed[p]].critical
    BY <2>2, FlagOfEvent
  <2>7. joined <=> p \in DOMAIN StgIctVendors /\ StgIctVendors[p].critical
    BY DEF Joined
  <2>8. ASSUME DOMAIN reference # {} PROVE joined => flag
    <3>1. reference = StgIctVendors
      BY <2>8 DEF ReferenceInv
    <3>2. p \in DOMAIN StgIctVendors => Trimmed[p] = p
      BY VendorAssumption DEF StgIctVendors, VendorAssumption
    <3>. QED
      BY <2>6, <2>7, <3>1, <3>2
  <2>9. ASSUME \A r \in ToldOf(p) : r.provider = Trimmed[p] PROVE n = m /\ (flag => joined)
    <3>1. Trimmed[p] = p
      BY <2>2, <2>9 DEF ToldOf
    <3>2. ToldOf(p) = own
      BY <2>2, <2>9, <3>1 DEF ToldOf
    <3>3. Trimmed[p] \in DOMAIN reference => reference = StgIctVendors
      BY DEF ReferenceInv
    <3>. QED
      BY <2>6, <2>7, <3>1, <3>2, <3>3
  <2>. HIDE DEF m, n, joined, flag
  <2>10. DOMAIN reference # {} => Rank(Tier(m, joined)) <= Rank(Tier(n, flag))
    BY <2>5, <2>8, TierMonotone
  <2>11. (\A r \in ToldOf(p) : r.provider = Trimmed[p]) => Rank(Tier(m, joined)) >= Rank(Tier(n, flag))
    BY <2>5, <2>9, TierMonotone
  <2>. QED
    BY <2>3, <2>10, <2>11
<1>. QED
  BY <1>1, RiskInvariance, PTL
=============================================================================

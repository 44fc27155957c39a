-------------------------- MODULE ComplianceMarts --------------------------
(***************************************************************************)
(* The dbt models over dora.incidents_classified: the view                 *)
(* int_dora_classified computes each incident's BaFin deadline and whether *)
(* it was met, and the tables mart_bafin_report and mart_sla_breach are    *)
(* rebuilt from it, each at a moment of its own: dbt replaces them one by  *)
(* one, and a run that fails half-way leaves one older than the other.     *)
(*                                                                         *)
(* Time is in seconds, containment in hundredths of an hour and rates in   *)
(* hundredths of a percent, the precision the SQL rounds to.  SQL NULL is  *)
(* None.                                                                   *)
(***************************************************************************)
EXTENDS Integers, Sequences, FiniteSets, Functions

CONSTANTS
  Group,        (* Pairs of reporting month and institution.               *)
  Provider,     (* ICT third parties an incident may name.                 *)
  Instant,      (* Bound: the moments the clock is looked at.              *)
  Load,         (* Bound: the row sequences one sync may append.           *)
  None,         (* NULL.                                                   *)
  MaxRows       (* Bound: rows of the register.                            *)

Severity == {"minor", "major", "critical"}

(* The columns of stg_incidents the models below look at.                  *)
Incident ==
  {r \in [group: Group, severity: Severity, provider: Provider \cup {None}, impact: Nat,
          occurred: Nat, detected: Nat, contained: Nat \cup {None}] :
     r.contained # None => r.detected <= r.contained}

ASSUME MartAssumption ==
  /\ Instant \subseteq Nat
  /\ Load \subseteq Seq(Incident)
  /\ None \notin Int \cup BOOLEAN
  /\ MaxRows \in Nat

VARIABLES
  now,          (* current_timestamp.                                      *)
  register,     (* dora.incidents_classified in Postgres.                  *)
  bafin,        (* mart_bafin_report: by group, its counts and status.     *)
  seen,         (* History: how many rows bafin was computed from.         *)
  breach        (* mart_sla_breach: by row, its verdict.                   *)

vars == <<now, register, bafin, seen, breach>>

Row == DOMAIN register

-----------------------------------------------------------------------------
(* int_dora_classified                                                     *)

(* Mutant of Hours: extract(hour from d) leaves the days out.              *)
HoursOfDay(d) == ((d % 86400) + 18) \div 36

(* round(extract(epoch from d) / 3600.0, 2), in hundredths.                *)
Hours(d) == (d + 18) \div 36

(* What the classifier stored with a severity.                             *)
DeadlineHours(r) ==
  CASE r.severity = "critical" -> 4
    [] r.severity = "major"    -> 72
    [] OTHER                   -> None

Reportable(r) == DeadlineHours(r) # None

DeadlineTimestamp(r) == r.detected + 3600 * DeadlineHours(r)

(* Mutant of ContainmentHours: cut to whole hours.                         *)
WholeHours(r) == 100 * ((r.contained - r.detected) \div 3600)

ContainmentHours(r) == Hours(r.contained - r.detected)

(* Mutant of IsWithinDeadline: an incident still open is within it so far. *)
NotYetOverdue(r) ==
  /\ Reportable(r)
  /\ IF r.contained = None THEN now <= DeadlineTimestamp(r)
                           ELSE ContainmentHours(r) <= 100 * DeadlineHours(r)

IsWithinDeadline(r) ==
  /\ Reportable(r)
  /\ r.contained # None
  /\ ContainmentHours(r) <= 100 * DeadlineHours(r)

(* Mutant of SlaBreached: an open incident has no verdict.                 *)
BreachedWhenContained(r) ==
  r.contained # None /\ ContainmentHours(r) > 100 * DeadlineHours(r)

(* sla_breached of a reportable row.                                       *)
SlaBreached(r) ==
  IF r.contained # None THEN ContainmentHours(r) > 100 * DeadlineHours(r)
                        ELSE now > DeadlineTimestamp(r)

HoursOverdue(r) ==
  IF r.contained # None
  THEN IF ContainmentHours(r) > 100 * DeadlineHours(r)
       THEN ContainmentHours(r) - 100 * DeadlineHours(r) ELSE None
  ELSE IF now > DeadlineTimestamp(r)
       THEN Hours(now - DeadlineTimestamp(r)) ELSE None

-----------------------------------------------------------------------------
(* mart_bafin_report                                                       *)

RowsIn(g)       == {k \in Row : register[k].group = g}
ReportableIn(g) == {k \in RowsIn(g) : Reportable(register[k])}
WithinIn(g)     == {k \in RowsIn(g) : IsWithinDeadline(register[k])}

(* Mutant of CompliancePct: rounded to whole percents.                     *)
WholePct(within, total) ==
  IF total = 0 THEN None ELSE 100 * ((200 * within + total) \div (2 * total))

(* round(100.0 * within / nullif(total, 0), 2), in hundredths.             *)
CompliancePct(within, total) ==
  IF total = 0 THEN None ELSE (20000 * within + total) \div (2 * total)

ComplianceStatus(pct) ==
  IF pct = None \/ pct >= 9500 THEN "COMPLIANT"
  ELSE IF pct >= 8000 THEN "AT_RISK" ELSE "NON_COMPLIANT"

(* The report's line for a group.                                          *)
Line(g) ==
  LET reportable == Cardinality(ReportableIn(g))
      within     == Cardinality(WithinIn(g))
  IN [reportable |-> reportable, within |-> within,
      status |-> ComplianceStatus(CompliancePct(within, reportable))]

(* The line of a reportable row in mart_sla_breach.                        *)
Verdict(r) == [breached |-> SlaBreached(r), overdue |-> HoursOverdue(r)]

-----------------------------------------------------------------------------
Init ==
  /\ now \in Instant
  /\ register = <<>>
  /\ bafin = <<>>
  /\ seen = 0
  /\ breach = <<>>

(* sync_iceberg_to_postgres appends rows; none is ever updated.  Incidents *)
(* are reported after their detection; the simulator may also announce a   *)
(* containment that is still to come.                                      *)
AppendRows(rows) ==
  /\ Len(register) + Len(rows) <= MaxRows
  /\ \A n \in DOMAIN rows : rows[n].detected <= now
  /\ register' = register \o rows
  /\ UNCHANGED <<now, bafin, seen, breach>>

Tick ==
  /\ now' \in {t \in Instant : t > now}
  /\ UNCHANGED <<register, bafin, seen, breach>>

(* dbt run mart_bafin_report: one line for every group with a row.         *)
BuildBafinReport ==
  /\ bafin' = [g \in {register[k].group : k \in Row} |-> Line(g)]
  /\ seen' = Len(register)
  /\ UNCHANGED <<now, register, breach>>

(* dbt run mart_sla_breach: one line for every reportable row.             *)
BuildSlaBreach ==
  /\ breach' = [k \in {k \in Row : Reportable(register[k])} |-> Verdict(register[k])]
  /\ UNCHANGED <<now, register, bafin, seen>>

Next ==
  \/ \E rows \in Load : AppendRows(rows)
  \/ Tick
  \/ BuildBafinReport
  \/ BuildSlaBreach

Spec == Init /\ [][Next]_vars

(* Time passes and the DAG goes on rebuilding the mart.                    *)
FairSpec == Spec /\ WF_vars(Tick) /\ WF_vars(BuildSlaBreach)

-----------------------------------------------------------------------------
ReportLine ==
  [reportable: Nat, within: Nat, status: {"COMPLIANT", "AT_RISK", "NON_COMPLIANT"}]

TypeOK ==
  /\ now \in Instant
  /\ register \in Seq(Incident)
  /\ Len(register) <= MaxRows
  /\ seen \in 0..Len(register)
  /\ DOMAIN bafin = {register[k].group : k \in 1..seen}
  /\ \A g \in DOMAIN bafin : bafin[g] \in ReportLine
  /\ DOMAIN breach \subseteq {k \in Row : Reportable(register[k])}
  /\ \A k \in DOMAIN breach :
       breach[k] \in [breached: BOOLEAN, overdue: Nat \cup {None}]

(* The verdict on a contained incident is right but for the rounding:      *)
(* contained in time is never a breach, half a hundredth of an hour late   *)
(* always is.  (int_dora_classified compares containment_hours after round)*)
VerdictExact ==
  \A k \in DOMAIN breach :
    LET r == register[k] IN
    r.contained # None =>
      /\ r.contained <= DeadlineTimestamp(r) => ~breach[k].breached
      /\ r.contained >= DeadlineTimestamp(r) + 18 => breach[k].breached

(* A breach once published stays published and never shrinks: no rebuild,  *)
(* load or lapse of time clears it.  (sla_breached, hours_overdue are      *)
(* recomputed from current_timestamp at every rebuild)                     *)
BreachIsForGood ==
  [][\A k \in DOMAIN breach : breach[k].breached =>
       /\ k \in DOMAIN breach' /\ breach'[k].breached
       /\ breach'[k].overdue >= breach[k].overdue]_vars

(* Rows the two marts both know, of a group, that are flagged as breached. *)
Flagged(g) ==
  {k \in DOMAIN breach : k <= seen /\ register[k].group = g /\ breach[k].breached}

(* The two marts never contradict each other, though each was computed at  *)
(* a moment of its own: what one flags as a breach, the other, older or    *)
(* newer, does not count as contained within the deadline.                 *)
NotBothWithinAndBreached ==
  \A g \in DOMAIN bafin : bafin[g].within + Cardinality(Flagged(g)) <= bafin[g].reportable

(* The alert cannot miss what mart_sla_breach shows: a group with more than*)
(* 20 % of its reportable rows flagged is NON_COMPLIANT, with more than 5 %*)
(* at least AT_RISK, up to what the rate's rounding hides (0.005 %).       *)
BreachesAlerted ==
  \A g \in DOMAIN bafin :
    /\ 20000 * Cardinality(Flagged(g)) > 4001 * bafin[g].reportable
         => bafin[g].status = "NON_COMPLIANT"
    /\ 20000 * Cardinality(Flagged(g)) > 1001 * bafin[g].reportable
         => bafin[g].status # "COMPLIANT"

(* A reportable incident that is not contained is flagged in the end,      *)
(* whatever its deadline was when it arrived.                              *)
OpenIncidentsFlagged ==
  \A r \in {r \in UNION {Range(rows) : rows \in Load} : Reportable(r) /\ r.contained = None} :
    (\E k \in Row : register[k] = r)
      ~> (\E k \in DOMAIN breach : register[k] = r /\ breach[k].breached)
=============================================================================

---------------------------- MODULE QualitySuite ----------------------------
(***************************************************************************)
(* The row classified_to_iceberg_row stores for an incident and what the   *)
(* Great Expectations suite dora_incidents_quality asks of every row.  One *)
(* row it rejects fails the validation of the whole table, for good.       *)
(*                                                                         *)
(* Identifiers, institution and times are there in every incident that     *)
(* parsed and are left out, and so are the expectations that they be there.*)
(***************************************************************************)
EXTENDS DoraRules

(* classified_to_iceberg_row: the columns the suite looks into.            *)
IcebergRow(e) ==
  [clients_affected_pct |-> e.pct, financial_impact_eur |-> e.eur,
   dora_severity |-> e.severity, bafin_notification_required |-> e.required]

(* expect_column_values_to_be_between: pandas takes NaN for a missing value*)
(* and the expectation skips it.                                           *)
PctBetween(row) ==
  LET pct == row.clients_affected_pct
  IN  pct = NaN \/ (0 <= pct /\ pct <= 10000)
EurBetween(row) ==
  LET eur == row.financial_impact_eur
  IN  eur = NaN \/ 0 <= eur

(* dora_severity is never null and one of the three.                       *)
SeverityInSet(row) == row.dora_severity \in Severity

(* Every critical row has to be notified.                                  *)
CriticalIsNotified(row) ==
  row.dora_severity = "critical" => row.bafin_notification_required = TRUE

Accepts(row) ==
  PctBetween(row) /\ EurBetween(row) /\ SeverityInSet(row) /\ CriticalIsNotified(row)
=============================================================================

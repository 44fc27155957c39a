-------------------------- MODULE IncidentRegister --------------------------
(***************************************************************************)
(* What the orchestrated half of the pipeline promises to the regulator,   *)
(* with every trace of Airflow, containers, watermarks and views removed:  *)
(* rows arrive, a table takes them over, marts show what the table holds,  *)
(* and a run reports.  A writer nobody watches weakens the promise, but not*)
(* as far as the marts: what they show they never lose.                    *)
(***************************************************************************)
EXTENDS Naturals, Sequences

CONSTANT
  Mart        (* What shows the table.                                     *)

VARIABLES
  arrived,    (* Of each row, in order of arrival, whether it is valid.    *)
  table,      (* The rows taken over.                                      *)
  shown,      (* By mart, the rows it shows.                               *)
  reports,    (* Reports of the current run.                               *)
  disturbed   (* A writer nobody watches has touched the table.            *)

registerVars == <<arrived, table, shown, reports, disturbed>>

Init ==
  /\ arrived = <<>>
  /\ table = {}
  /\ shown = [m \in Mart |-> {}]
  /\ reports = 0
  /\ disturbed = FALSE

Arrive ==
  /\ \E ok \in BOOLEAN : arrived' = Append(arrived, ok)
  /\ UNCHANGED <<table, shown, reports, disturbed>>

(* The table only grows.                                                   *)
Copy ==
  /\ table \subseteq table' /\ table' \subseteq DOMAIN arrived
  /\ UNCHANGED <<arrived, shown, reports, disturbed>>

(* Another writer may set it back too, until a mart shows something.       *)
Disturb ==
  /\ table \subseteq table' \/ \A m \in Mart : shown[m] = {}
  /\ table' \subseteq DOMAIN arrived
  /\ disturbed' = TRUE
  /\ UNCHANGED <<arrived, shown, reports>>

(* A mart shows the whole table, and a valid one.                          *)
Show(m) ==
  /\ disturbed \/ \A i \in table : arrived[i]
  /\ shown' = [shown EXCEPT ![m] = table]
  /\ UNCHANGED <<arrived, table, reports, disturbed>>

BeginRun == reports' = 0 /\ UNCHANGED <<arrived, table, shown, disturbed>>

(* A run reports once every mart shows the table of that moment.           *)
Report ==
  /\ disturbed \/ \A m \in Mart : shown[m] = table
  /\ reports' = reports + 1
  /\ UNCHANGED <<arrived, table, shown, disturbed>>

Next ==
  \/ Arrive \/ Copy \/ Disturb
  \/ \E m \in Mart : Show(m)
  \/ BeginRun \/ Report

Spec == Init /\ [][Next]_registerVars
=============================================================================

-------------------------- MODULE MCDoraClassifier --------------------------
(***************************************************************************)
(* DoraClassifier on incidents at and next to every threshold, and with an *)
(* impact that is out of range.                                            *)
(***************************************************************************)
EXTENDS DoraClassifier

(* Incidents that arrive unclassified, or filled in as minor.              *)
EventsWith(types, pcts, euros) ==
  {[incident_type |-> t, pct |-> p, eur |-> m, cross_border |-> x, provider |-> v,
    severity |-> f, required |-> IF f = None THEN None ELSE FALSE, deadline |-> None] :
     t \in types,
     p \in pcts,
     m \in euros,
     x \in BOOLEAN,
     v \in Provider \cup {None},
     f \in {None, "minor"}}

MCEvent ==
  EventsWith({"system_outage", "cyber_attack", "data_breach"},
             {NaN, 999, 1000, 2499, 2500}, {NaN, 99999, 100000, 1000000})
    \cup EventsWith({"cyber_attack"}, {-1, 0, 10000, 10001}, {-1, 0})
=============================================================================

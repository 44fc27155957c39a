--------------------------- MODULE DoraClassifier ---------------------------
(***************************************************************************)
(* classify_batch of processing/dora_classifier.py, and the loop of        *)
(* process_batch in processing/streaming_job.py: each incident of a batch  *)
(* is classified, and the reason for it evaluated a second time.           *)
(***************************************************************************)
EXTENDS QualitySuite, Sequences

CONSTANTS
  Event,        (* The IncidentEvents a batch may hold.                    *)
  BatchSize     (* Bound: incidents in a batch.                            *)

ASSUME ClassifierAssumption ==
  /\ Event \subseteq IncidentEvent
  /\ BatchSize \in Nat

VARIABLES
  incidents,    (* classify_batch's argument; process_batch's parsed rows. *)
  classified,   (* The incidents classified so far, in order.              *)
  reasons       (* The reason recorded next to each of them.               *)

vars == <<incidents, classified, reasons>>

-----------------------------------------------------------------------------
Init ==
  /\ incidents \in UNION {[1..n -> Event] : n \in 0..BatchSize}
  /\ classified = <<>>
  /\ reasons = <<>>

(* One turn of the loop: both evaluations read the incident as it came.    *)
ClassifyNext ==
  /\ Len(classified) < Len(incidents)
  /\ LET e == incidents[Len(classified) + 1] IN
       /\ classified' = Append(classified, Classify(e))
       /\ reasons' = Append(reasons, GetClassificationReason(e))
  /\ UNCHANGED incidents

Next == ClassifyNext

Spec == Init /\ [][Next]_vars

-----------------------------------------------------------------------------
Rank(s) == CASE s = "minor" -> 1 [] s = "major" -> 2 [] s = "critical" -> 3

(* a is reported with at most the impact of b: no larger metric (a metric  *)
(* that is NaN counts as below every number) and no circumstance b lacks.  *)
NoLarger(x, y) == x = NaN \/ (y # NaN /\ x <= y)

NoWorse(a, b) ==
  /\ a.incident_type = b.incident_type
  /\ NoLarger(a.pct, b.pct) /\ NoLarger(a.eur, b.eur)
  /\ a.cross_border => b.cross_border
  /\ a.provider # None => b.provider # None

TypeOK ==
  /\ classified \in Seq(IncidentEvent)
  /\ reasons \in Seq(Severity \X Rule)
  /\ Len(reasons) = Len(classified)

(* The reason, evaluated by its own chain of rules, always names the tier  *)
(* the incident was given: the two chains never part, for any thresholds.  *)
ReasonNamesSeverity ==
  \A i \in DOMAIN classified : reasons[i][1] = classified[i].severity

(* A worse incident is never classified as less severe, whatever the order *)
(* the thresholds are configured in.                                       *)
SeverityMonotone ==
  \A i, j \in DOMAIN classified :
    NoWorse(incidents[i], incidents[j]) =>
      Rank(classified[i].severity) <= Rank(classified[j].severity)

(* What a producer filled into the classification fields has no effect:    *)
(* incidents that agree on the rest leave the classifier alike.            *)
PreassignedIgnored ==
  \A i, j \in DOMAIN classified :
    NoWorse(incidents[i], incidents[j]) /\ NoWorse(incidents[j], incidents[i])
      => /\ classified[i].severity = classified[j].severity
         /\ classified[i].required = classified[j].required
         /\ classified[i].deadline = classified[j].deadline

(* The classifier never makes a row the validation rejects, whatever the   *)
(* thresholds and whatever a producer filled in: only an impact out of its *)
(* range, which the schema lets through, fails the table.                  *)
OnlyImpactIsRejected ==
  \A i \in DOMAIN classified :
    ~Accepts(IcebergRow(classified[i])) =>
      \/ incidents[i].pct # NaN /\ (incidents[i].pct < 0 \/ incidents[i].pct > 10000)
      \/ incidents[i].eur # NaN /\ incidents[i].eur < 0
=============================================================================

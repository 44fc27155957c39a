-------------------------- MODULE AtLeastOnceFeed --------------------------
(***************************************************************************)
(* What the streaming job promises to whoever reads its tables, with every *)
(* trace of Spark, offsets and batches removed: records are published, the *)
(* readable ones are stored, and a record is acknowledged (never asked for *)
(* again) only once it is stored or known to be malformed.                 *)
(***************************************************************************)

VARIABLES
  published,   (* Records the source topics hold.                          *)
  malformed,   (* The published records that no parser accepts.            *)
  stored,      (* Records with a row in every table of the sink.           *)
  acked        (* Records the consumer has acknowledged to the source.     *)

feedVars == <<published, malformed, stored, acked>>

Init ==
  /\ published = {}
  /\ malformed = {}
  /\ stored = {}
  /\ acked = {}

(* New records appear, some of them malformed.                             *)
Publish ==
  /\ published \subseteq published'
  /\ malformed \subseteq malformed'
  /\ malformed' \ malformed \subseteq published' \ published
  /\ UNCHANGED <<stored, acked>>

(* Readable records are stored; storing one again is allowed.              *)
Store ==
  /\ stored \subseteq stored'
  /\ stored' \subseteq published \ malformed
  /\ UNCHANGED <<published, malformed, acked>>

(* Only what is stored or malformed may be acknowledged.                   *)
Acknowledge ==
  /\ acked \subseteq acked'
  /\ acked' \subseteq stored \cup malformed
  /\ UNCHANGED <<published, malformed, stored>>

Next == Publish \/ Store \/ Acknowledge

Spec == Init /\ [][Next]_feedVars
=============================================================================

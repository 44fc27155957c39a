--------------------------- MODULE MCStreamingJob ---------------------------
(***************************************************************************)
(* StreamingJob on a small instance.                                       *)
(***************************************************************************)
EXTENDS StreamingJob, TLC

(* Partitions are interchangeable: no action or safety property names one. *)
PartitionSymmetry == Permutations(Partition)
=============================================================================

--------------------------- MODULE MCIcebergSync ---------------------------
(***************************************************************************)
(* IcebergSync on a small instance.                                        *)
(***************************************************************************)
EXTENDS IcebergSync, TLC

AttemptSymmetry == Permutations(Attempt)
=============================================================================

--------------------------- MODULE MCPipelineDag ---------------------------
(***************************************************************************)
(* PipelineDag on a small instance.                                        *)
(***************************************************************************)
EXTENDS PipelineDag
=============================================================================

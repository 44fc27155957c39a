---------------------------- MODULE MCBootstrap ----------------------------
(***************************************************************************)
(* Bootstrap on a small instance: two topics, the bucket with one folder,  *)
(* the namespace with two tables; runs of s3_config and of iceberg_tables  *)
(* race each other, a run of topics_setup races the requests that an       *)
(* earlier one left behind.                                                *)
(***************************************************************************)
EXTENDS Bootstrap
=============================================================================

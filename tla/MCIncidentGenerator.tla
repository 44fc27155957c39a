------------------------ MODULE MCIncidentGenerator ------------------------
(***************************************************************************)
(* IncidentGenerator with samples at both ends of every range it draws     *)
(* from and next to every threshold.                                       *)
(***************************************************************************)
EXTENDS IncidentGenerator

MCPctSample == {0, 10, 50, 990, 1000, 1500, 2490, 2500, 3500, 4500, 8000}

MCEurSample ==
  {100, 500, 1000, 20000, 50000, 95000, 100000, 400000, 600000, 800000, 999000,
   1000000, 10000000}
=============================================================================

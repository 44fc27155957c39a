------------------------ MODULE MCSupersetBootstrap ------------------------
(***************************************************************************)
(* SupersetBootstrap on a small instance: one mart, two charts, two runs,  *)
(* and pages that hold the charts of one bootstrap and no more.  Of what   *)
(* happens once a list has outgrown its page nothing is claimed: behaviours*)
(* end there.  Trouble a run cannot cope with counts twice.                *)
(***************************************************************************)
EXTENDS SupersetBootstrap

MCTables == <<"mart">>
MCCharts == <<"chart1", "chart2">>
MCSource == [c \in {"chart1", "chart2"} |-> "mart"]

InBounds ==
  /\ "page" \notin spoiled
  /\ trouble' + Cardinality(spoiled' \ {"page"}) <= MaxTrouble

MCNext == Next /\ InBounds

MCSpec ==
  /\ Init /\ [][MCNext]_vars
  /\ \A t \in Range(Tables) : WF_vars(BuildMart(t) /\ InBounds)
  /\ \A r \in Run : WF_vars(Step(r) /\ InBounds) /\ SF_vars(StartAgain(r) /\ InBounds)
=============================================================================

------------------------- MODULE MCComplianceMarts -------------------------
(***************************************************************************)
(* ComplianceMarts on small instances.  The critical deadline is 14400 s   *)
(* and the major one 259200 s after detection; containment is tried just   *)
(* before, ten seconds and half a hundredth of an hour after it.           *)
(*                                                                         *)
(* A behaviour is about one of four things: up to SingleMax rows of any    *)
(* kind, one by one over the whole clock; registers of up to MaxRows rows  *)
(* around the thresholds of the rates, on two moments of it; or rows of one*)
(* provider, a last one of any other, from up to five institutions and now *)
(* or a quarter later; or few of these, with the seed file there or not and*)
(* processes that start and read it.                                       *)
(***************************************************************************)
EXTENDS VendorRisk, SequencesExt

CONSTANTS SingleMax, SmallMax, VendorMax, ReaderMax

(* Months and institutions: 2 is another month of the institution of 1.    *)
MCGroup == 1..6
MCInstitution == 2..6
MCInstitutionOf == [g \in MCGroup |-> IF g = 1 THEN 2 ELSE g]

(* The seed; some of the simulator's THIRD_PARTY_PROVIDERS, and names other*)
(* producers may write.                                                    *)
MCVendor ==
  {"AWS", "Azure", "GCP", "SAP", "Salesforce", "Oracle", "IBM", "Temenos", "Finastra", "Mambu",
   "Thought Machine", "SWIFT", "SIX Group", "Deutsche Boerse", "Broadridge", "Google Cloud", "Murex"}

MCDesignated ==
  MCVendor \ {"Salesforce", "Mambu", "Thought Machine", "Broadridge", "Murex"}

MCProvider ==
  {"AWS", "Google Cloud", "SAP", "Salesforce", "Murex", "SAP ", "Murex ", "Acme"}

MCTrimmed ==
  [name \in MCVendor \cup MCProvider |->
     CASE name = "SAP " -> "SAP" [] name = "Murex " -> "Murex" [] OTHER -> name]

LaterQuarter == 7862400
MCInstant == {0, 40, 14400, 14500, 100810, 260000, LaterQuarter}
RateInstant == {0, 14500}

MCIncident(severities, detected, contained) ==
  {r \in [group: {1}, severity: severities, provider: {None}, impact: {0},
          occurred: {0}, detected: detected, contained: contained] :
     r.contained # None => r.detected <= r.contained}

(* Every kind of row, one at a time.                                       *)
SingleRows ==
  {<<r>> : r \in MCIncident(Severity, {0, 40}, {None, 14400, 14410, 14418, 259500})}

(* Rates around the two thresholds: 19 rows of 20 in time are 95 %, 18 of  *)
(* 19 are 94.74 %, 4 of 5 are 80 %.                                        *)
Critical(g, contained) ==
  [group |-> g, severity |-> "critical", provider |-> None, impact |-> 0,
   occurred |-> 0, detected |-> 0, contained |-> contained]

SixteenInTime == [k \in 1..16 |-> Critical(1, 14400)]

RateLoads ==
  {SixteenInTime,
   <<Critical(1, 14400), Critical(1, 14400), Critical(1, 14418)>>,
   <<Critical(1, 14400), Critical(1, None), [Critical(1, None) EXCEPT !.severity = "minor"]>>,
   <<Critical(1, 14400), Critical(3, None), Critical(3, 14418)>>}

(* One incident of each provider, and a provider that is not designated    *)
(* over all institutions.                                                  *)
Outage(g, p) ==
  [group |-> g, severity |-> "minor", provider |-> p, impact |-> 1000 * g,
   occurred |-> 0, detected |-> 0, contained |-> 3600]

VendorLoads ==
  {<<Outage(6, p)>> : p \in MCProvider} \cup {<<Outage(g, "Murex")>> : g \in MCGroup}
    \cup {<<Outage(2, "Murex ")>>}

MCLoad == SingleRows \cup RateLoads \cup VendorLoads

-----------------------------------------------------------------------------
VARIABLE about      (* What the behaviour is about.                        *)

mcvars == <<vars, vendorVars, about>>

MCInit ==
  /\ VendorInit
  /\ about \in {"singles", "rates", "vendors", "readers"}
  /\ about # "singles" => now = 0
  /\ about # "readers" => seedFile

(* Rows of one provider by these names, and a last one of any.             *)
OneVendor(names, rows) ==
  \A k \in DOMAIN rows :
    /\ rows[k].provider # None
    /\ k < Len(rows) => rows[k].provider \in names /\ rows[k].group <= rows[k + 1].group

InBounds ==
  /\ UNCHANGED about
  /\ about = "singles" =>
       /\ Len(register') <= SingleMax
       /\ now' # LaterQuarter
       /\ \A k \in DOMAIN register' : <<register'[k]>> \in SingleRows
       /\ UNCHANGED vendorVars
  /\ about = "rates" =>
       /\ now' \in RateInstant
       /\ Len(register') # Len(register) + 1
       /\ Len(register') > SmallMax => IsPrefix(SixteenInTime, register')
       /\ UNCHANGED vendorVars
  /\ about = "vendors" =>
       /\ now' \in {0, LaterQuarter}
       /\ Len(register') <= VendorMax /\ OneVendor({"Murex"}, register')
       /\ register' # <<>> => reference' # None
       /\ UNCHANGED <<bafin, seen, breach, seedFile>>
  /\ about = "readers" =>
       /\ now' = 0
       /\ Len(register') <= ReaderMax /\ OneVendor({"Murex", "Murex "}, register')
       /\ UNCHANGED <<bafin, seen, breach>>

MCNext == VendorNext /\ InBounds

MCSpec ==
  /\ MCInit /\ [][MCNext]_mcvars
  /\ WF_mcvars(Tick /\ UNCHANGED vendorVars /\ InBounds)
  /\ WF_mcvars(BuildSlaBreach /\ UNCHANGED vendorVars /\ InBounds)
=============================================================================

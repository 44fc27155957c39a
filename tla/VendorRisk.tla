----------------------------- MODULE VendorRisk -----------------------------
(***************************************************************************)
(* The vendor side of the project: the reference list (the seed            *)
(* ict_vendors), its two readers, and mart_vendor_risk, the third mart,    *)
(* rebuilt at moments of its own from the rows ComplianceMarts has too.    *)
(*                                                                         *)
(* One reader is dbt: stg_ict_vendors trims the seed's names, and          *)
(* int_dora_classified joins it to every incident by the provider's name as*)
(* the incident has it.  The other is processing/enrichment.py: a process  *)
(* reads the file once, if it is there, and trims both names.  Of a        *)
(* vendor's attributes the one a tier depends on is kept.                  *)
(***************************************************************************)
EXTENDS ComplianceMarts, FiniteSetsExt

CONSTANTS
  Vendor,         (* The names in the seed ict_vendors.                    *)
  Designated,     (* Those with dora_designated_critical = true.           *)
  Trimmed,        (* A name without the blanks around it.                  *)
  Institution,
  InstitutionOf   (* The institution of a group.                           *)

(* A trimmed name stays as it is, and names are a key of the vendor list   *)
(* (tested in staging/schema.yml).                                         *)
ASSUME VendorAssumption ==
  /\ Designated \subseteq Vendor
  /\ \A name \in Vendor \cup Provider : Trimmed[Trimmed[name]] = Trimmed[name]
  /\ \A v, w \in Vendor : Trimmed[v] = Trimmed[w] => v = w
  /\ InstitutionOf \in [Group -> Institution]

VARIABLES
  risk,           (* mart_vendor_risk: by provider, its line.              *)
  told,           (* History: the rows risk was computed from.             *)
  seedFile,       (* The seed lies where enrichment.py looks for it.       *)
  reference       (* What its process keeps of it; None before first use.  *)

vendorVars == <<risk, told, seedFile, reference>>

-----------------------------------------------------------------------------
(* The readers of the seed                                                 *)

IsDesignated(name) == \E v \in Designated : Trimmed[v] = name

StgIctVendors == [name \in {Trimmed[v] : v \in Vendor} |-> [critical |-> IsDesignated(name)]]

(* The vendor columns of an incident: a left join, a missing flag is false.*)
Joined(p) ==
  IF p \in DOMAIN StgIctVendors THEN StgIctVendors[p] ELSE [critical |-> FALSE]

(* Mutant of VendorReference: a list from before the last vendors came.    *)
FormerReference ==
  IF seedFile
  THEN [name \in {Trimmed[v] : v \in Vendor} \ {"Google Cloud", "Murex"} |->
          [critical |-> IsDesignated(name)]]
  ELSE <<>>

(* _load_vendor_reference: without the file, nothing.                      *)
VendorReference ==
  IF seedFile
  THEN [name \in {Trimmed[v] : v \in Vendor} |-> [critical |-> IsDesignated(name)]]
  ELSE <<>>

(* enrich_event: what it adds to an incident of provider p, None if none.  *)
EnrichEvent(p) ==
  IF p # None /\ Trimmed[p] \in DOMAIN reference
  THEN [known |-> TRUE, critical |-> reference[Trimmed[p]].critical]
  ELSE [known |-> FALSE]

-----------------------------------------------------------------------------
(* mart_vendor_risk                                                        *)

RowsWith(p) == {k \in Row : register[k].provider = p}

(* current_date - interval '90 days'.                                      *)
WindowStart == 86400 * (now \div 86400) - 90 * 86400

OfLate(p) == {k \in RowsWith(p) : register[k].occurred >= WindowStart}

(* Mutant of Exposed: the filter on the last 90 days reaches all columns.  *)
ExposedOfLate(p) == {InstitutionOf[register[k].group] : k \in OfLate(p)}

(* Mutant of Exposed: count(institution_id) without the distinct.          *)
ExposedTimes(p) == RowsWith(p)

(* The distinct institutions with an incident of provider p.               *)
Exposed(p) == {InstitutionOf[register[k].group] : k \in RowsWith(p)}

(* round(avg(financial_impact_eur), 2), in cents.                          *)
AverageImpact(p) ==
  LET total == MapThenSumSet(LAMBDA k : register[k].impact, RowsWith(p))
      count == Cardinality(RowsWith(p))
  IN  (200 * total + count) \div (2 * count)

Tier(exposed, critical) ==
  IF exposed >= 5 \/ critical THEN "HIGH"
  ELSE IF exposed >= 2 THEN "MEDIUM" ELSE "LOW"

RiskLine(p) ==
  LET exposed == Cardinality(Exposed(p))
  IN  [recent  |-> Cardinality(OfLate(p)),
       average |-> AverageImpact(p),
       exposed |-> exposed,
       tier    |-> Tier(exposed, Joined(p).critical)]

Providers == {register[k].provider : k \in Row} \ {None}

-----------------------------------------------------------------------------
VendorInit ==
  /\ Init
  /\ risk = <<>>
  /\ told = {}
  /\ seedFile \in BOOLEAN
  /\ reference = None

(* dbt run mart_vendor_risk: one line for every provider of an incident.   *)
BuildVendorRisk ==
  /\ risk' = [p \in Providers |-> RiskLine(p)]
  /\ told' = Range(register)
  /\ UNCHANGED <<vars, seedFile, reference>>

(* The first event a process enriches: what it finds is kept (lru_cache).  *)
LoadVendorReference ==
  /\ reference = None
  /\ reference' = VendorReference
  /\ UNCHANGED <<vars, risk, told, seedFile>>

(* A new process that enriches events.                                     *)
StartProcess ==
  /\ reference # None
  /\ reference' = None
  /\ UNCHANGED <<vars, risk, told, seedFile>>

(* Whoever lays out the files brings the seed, or leaves it out.           *)
Deploy ==
  /\ seedFile' = ~seedFile
  /\ UNCHANGED <<vars, risk, told, reference>>

VendorNext ==
  \/ Next /\ UNCHANGED vendorVars
  \/ BuildVendorRisk
  \/ LoadVendorReference
  \/ StartProcess
  \/ Deploy

VendorSpec == VendorInit /\ [][VendorNext]_<<vars, vendorVars>>

-----------------------------------------------------------------------------
Rank(tier) == CASE tier = "LOW" -> 0 [] tier = "MEDIUM" -> 1 [] tier = "HIGH" -> 2

(* Once in the register a provider stays there and its tier never falls:   *)
(* time, loads and rebuilds in any order only add to its exposure.         *)
(* (mart_vendor_risk replaces its table from the whole incident history)   *)
TierNeverFalls ==
  [][\A p \in DOMAIN risk :
       /\ p \in DOMAIN risk'
       /\ risk'[p].exposed >= risk[p].exposed
       /\ Rank(risk'[p].tier) >= Rank(risk[p].tier)]_<<vars, vendorVars>>

(* Incidents the streaming job appended once more, after a crash, weigh in *)
(* the counts of the last 90 days and in the averages, which are over rows;*)
(* but they bring no provider into the register of vendors, and change     *)
(* nobody's exposure or tier, at whatever later time it is rebuilt.        *)
ReplaysDoNotCount ==
  [][told = Range(register) =>
       /\ DOMAIN risk' = DOMAIN risk
       /\ \A p \in DOMAIN risk :
            /\ risk'[p].exposed = risk[p].exposed
            /\ risk'[p].tier = risk[p].tier]_<<vars, vendorVars>>

(* The rows behind the mart that name vendor p, with blanks or without.    *)
ToldOf(p) == {r \in told : r.provider # None /\ Trimmed[r.provider] = Trimmed[p]}

(* The tier those incidents give as enrichment.py shows them: institutions *)
(* by the trimmed name, the flag it would attach.                          *)
TierOfEnriched(p) ==
  LET event == EnrichEvent(p)
  IN  Tier(Cardinality({InstitutionOf[r.group] : r \in ToldOf(p)}), event.known /\ event.critical)

(* The two readers of the seed part at names with blanks and at a missing  *)
(* file, and in one direction each.  The register of vendors never says    *)
(* more than the enriched incidents do, unless their process missed the    *)
(* file; it says less only of a vendor that some incident names with blanks*)
(* around: such an incident gets a line of its own, and no vendor's flag.  *)
TierAsEnriched ==
  reference # None =>
    \A p \in DOMAIN risk :
      /\ DOMAIN reference # {} => Rank(risk[p].tier) <= Rank(TierOfEnriched(p))
      /\ (\A r \in ToldOf(p) : r.provider = Trimmed[p])
           => Rank(risk[p].tier) >= Rank(TierOfEnriched(p))
=============================================================================

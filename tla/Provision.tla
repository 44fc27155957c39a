----------------------------- MODULE Provision -----------------------------
(***************************************************************************)
(* What the bootstrap scripts promise the rest of the stack, with every    *)
(* look-up, request and race removed: wanted objects appear and stay, and a*)
(* run that says it is finished has left all it is responsible for.        *)
(***************************************************************************)

CONSTANTS
  Run,          (* Runs of bootstrap scripts.                              *)
  Wanted,       (* The objects the stack needs.                            *)
  Needs         (* Those a run is responsible for.                         *)

VARIABLES
  there,        (* Objects that exist.                                     *)
  finished      (* Runs that have ended well, and not been started again.  *)

provisionVars == <<there, finished>>

Init == there = {} /\ finished = {}

Next ==
  /\ there \subseteq there' /\ there' \subseteq Wanted
  /\ finished' \subseteq Run
  /\ \A r \in finished' \ finished : Needs[r] \subseteq there'

Spec == Init /\ [][Next]_provisionVars

(* In the end everything is there.                                         *)
LiveSpec == Spec /\ <>[](there = Wanted)
=============================================================================

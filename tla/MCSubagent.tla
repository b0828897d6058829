----------------------------- MODULE MCSubagent -----------------------------
(***************************************************************************)
(* Instances of Subagent for TLC.                                          *)
(***************************************************************************)
EXTENDS Subagent

(* One task at most reports to its channel: no action reads `notices`,    *)
(* and what is published about one task is no business of another's.       *)
OneReports == Cardinality({id \in Ids : status[id] # "absent" /\ ~silent[id]}) <= 1
=============================================================================

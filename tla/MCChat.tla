------------------------------- MODULE MCChat -------------------------------
(***************************************************************************)
(* The two directions of a Telegram chat, checked by one run.  They meet   *)
(* only in the agent's turn, of which either has its own picture; so a     *)
(* behaviour is one of the one or of the other, and `part` tells which.    *)
(***************************************************************************)
EXTENDS Inbound, Delivery

MCRegistry == <<[name |-> "telegram", account |-> "bot"]>>

VARIABLE part

MCInit == part \in {"in", "out"} /\ InboundInit /\ DeliveryInit
MCNext ==
  /\ UNCHANGED part
  /\ \/ part = "in" /\ InboundNext /\ UNCHANGED dVars
     \/ part = "out" /\ DeliveryNext /\ UNCHANGED inVars
MCSpec == MCInit /\ [][MCNext]_<<part, inVars, dVars>>
=============================================================================

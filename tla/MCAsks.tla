------------------------------- MODULE MCAsks -------------------------------
(***************************************************************************)
(* What must eventually happen to questions and to messages, checked by    *)
(* one run.  Approval and Inbound share no state: a behaviour is one of    *)
(* the one or of the other, and `part` tells which.  In the initial state  *)
(* of Approval fairness demands no step, so its fairness asks nothing of   *)
(* the other behaviours; Inbound polls from the start.                     *)
(***************************************************************************)
EXTENDS Approval, Inbound

VARIABLE part

MCVars == <<part, vars, inVars>>
MCInit == part \in {"asks", "inbound"} /\ Init /\ InboundInit
MCNext ==
  /\ UNCHANGED part
  /\ \/ part = "asks" /\ Next /\ UNCHANGED inVars
     \/ part = "inbound" /\ InboundNext /\ UNCHANGED vars
MCFair ==
  /\ MCInit /\ [][MCNext]_MCVars
  /\ FairWaits /\ FairRelay
  /\ \A b \in Buffers : WF_inVars(part = "inbound" /\ Matures(b))
  /\ \A t \in Threads : WF_inVars(part = "inbound" /\ Process(t))
  /\ WF_inVars(part = "inbound" /\ Dispatch)
  /\ WF_inVars(part = "inbound" /\ SessionSteps)
=============================================================================

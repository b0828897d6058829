------------------------------ MODULE Decision ------------------------------
(***************************************************************************)
(* What the asker of request_approval is promised: a question is decided   *)
(* once and for ever, and it is decided in favour only if the human said   *)
(* so.  Approval implements this specification.                            *)
(***************************************************************************)
CONSTANT Questions

VARIABLES
  decision,  \* of each question: "unasked", "open", "go" or "stop"
  consent    \* the questions to which the human has said yes

decisionVars == <<decision, consent>>

DecisionInit ==
  /\ decision = [q \in Questions |-> "unasked"]
  /\ consent = {}

Ask(q) ==
  /\ decision[q] = "unasked"
  /\ decision' = [decision EXCEPT ![q] = "open"]
  /\ UNCHANGED consent

SayYes(q) ==
  /\ decision[q] # "unasked"
  /\ consent' = consent \cup {q}
  /\ UNCHANGED decision

Decide(q) ==
  /\ decision[q] = "open"
  /\ \E d \in {"go", "stop"} :
       /\ d = "go" => q \in consent
       /\ decision' = [decision EXCEPT ![q] = d]
  /\ UNCHANGED consent

DecisionStep == \E q \in Questions : Ask(q) \/ SayYes(q) \/ Decide(q)

DecisionSpec == DecisionInit /\ [][DecisionStep]_decisionVars
=============================================================================

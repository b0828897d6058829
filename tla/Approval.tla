------------------------------ MODULE Approval ------------------------------
(***************************************************************************)
(* Human approval: src/approval.rs and the tools request_approval and      *)
(* approval_respond.  An asker registers a question and waits on a oneshot *)
(* channel with a timer; the human's reply arrives as a chat message and   *)
(* is relayed by the agent of the chat's session, one turn at a time; the  *)
(* asker may be aborted while it waits.  The map of pending approvals is   *)
(* behind a mutex, so register and respond are one step each.              *)
(*                                                                         *)
(* Both tools are given to subagents and to session agents alike, so an    *)
(* asker is either a subagent or a turn of the very session that relays    *)
(* replies.  The relaying agent is taken to pass on what the human said.   *)
(***************************************************************************)
EXTENDS Naturals, Sequences, FiniteSets

CONSTANT MaxAsks   \* bound of the model: how many approval ids are handed out

ASSUME AsksAssumption == MaxAsks \in Nat

Ids == 1 .. MaxAsks
Free == 0          \* no asker holds the session's turn

Asker == {"none", "subagent", "turn"}
Wait == {"none", "waiting", "expired", "approved", "denied", "timedout", "aborted"}
Channel == {"empty", "yes", "no"}
Reply == [id : Ids, yes : BOOLEAN]

VARIABLES
  nextId,   \* ApprovalManager.next_id
  pending,  \* the keys of ApprovalManager.pending
  asker,    \* who asked
  wait,     \* where request_approval's execute is for each id
  channel,  \* the oneshot channel of each id, as its receiver sees it
  turn,     \* the asker that holds the session's turn, or Free
  inbox,    \* replies of the human that no turn has relayed yet
  said,     \* every reply the human has sent
  acks      \* what approval_respond told the relaying agent about each id

vars == <<nextId, pending, asker, wait, channel, turn, inbox, said, acks>>

Init ==
  /\ nextId = 1
  /\ pending = {}
  /\ asker = [id \in Ids |-> "none"]
  /\ wait = [id \in Ids |-> "none"]
  /\ channel = [id \in Ids |-> "empty"]
  /\ turn = Free
  /\ inbox = {}
  /\ said = {}
  /\ acks = [id \in Ids |-> <<>>]

-----------------------------------------------------------------------------
(* request_approval. *)

(* A slip: the id counter is not advanced. *)
RegisterSameId(who) ==
  /\ nextId \in Ids
  /\ UNCHANGED nextId
  /\ pending' = pending \cup {nextId}
  /\ asker' = [asker EXCEPT ![nextId] = who]
  /\ wait' = [wait EXCEPT ![nextId] = "waiting"]
  /\ UNCHANGED <<channel, inbox, said, acks>>

(* register: a fresh id, a channel and an entry. *)
Register(who) ==
  /\ nextId \in Ids
  /\ nextId' = nextId + 1
  /\ pending' = pending \cup {nextId}
  /\ asker' = [asker EXCEPT ![nextId] = who]
  /\ wait' = [wait EXCEPT ![nextId] = "waiting"]
  /\ UNCHANGED <<channel, inbox, said, acks>>

AskFromSubagent == Register("subagent") /\ UNCHANGED turn

(* A turn of the session asks; it keeps the session's lock while it waits. *)
AskFromTurn == turn = Free /\ Register("turn") /\ turn' = nextId

(* A slip: the turn's lock is not given back. *)
KeepTurn(id) == UNCHANGED turn
(* The asker is done waiting: a turn goes on and ends. *)
ReleaseTurn(id) == turn' = IF turn = id THEN Free ELSE turn

(* A slip: a denial does not wake the asker. *)
WokenByYes(id) == channel[id] = "yes"
Woken(id) == channel[id] # "empty"

(* timeout() polls the receiver first: an answer in the channel wins. *)
Answered(id) ==
  /\ wait[id] = "waiting"
  /\ Woken(id)
  /\ wait' = [wait EXCEPT ![id] = IF channel[id] = "yes" THEN "approved" ELSE "denied"]
  /\ ReleaseTurn(id)
  /\ UNCHANGED <<nextId, pending, asker, channel, inbox, said, acks>>

(* The timer fires with nothing in the channel; the receiver is dropped. *)
TimerFires(id) ==
  /\ wait[id] = "waiting"
  /\ channel[id] = "empty"
  /\ wait' = [wait EXCEPT ![id] = "expired"]
  /\ UNCHANGED <<nextId, pending, asker, channel, turn, inbox, said, acks>>

RemoveEntry(id) == pending' = pending \ {id}

(* Then the tool denies its own entry, which may be gone already, and      *)
(* returns a denial.                                                       *)
CleanUp(id) ==
  /\ wait[id] = "expired"
  /\ wait' = [wait EXCEPT ![id] = "timedout"]
  /\ RemoveEntry(id)
  /\ ReleaseTurn(id)
  /\ UNCHANGED <<nextId, asker, channel, inbox, said, acks>>

(* The future is dropped at its await: the subagent was cancelled or ran   *)
(* for an hour, or the turn belongs to a cron job that timed out.          *)
Abort(id) ==
  /\ wait[id] = "waiting"
  /\ wait' = [wait EXCEPT ![id] = "aborted"]
  /\ ReleaseTurn(id)
  /\ UNCHANGED <<nextId, pending, asker, channel, inbox, said, acks>>

-----------------------------------------------------------------------------
(* The human and approval_respond. *)

(* The human reads the notice and replies, possibly both ways. *)
HumanReplies(r) ==
  /\ wait[r.id] # "none"
  /\ r \notin said
  /\ said' = said \cup {r}
  /\ inbox' = inbox \cup {r}
  /\ UNCHANGED <<nextId, pending, asker, wait, channel, turn, acks>>

(* A send to a dropped receiver is ignored. *)
Send(id, value) ==
  channel' = [channel EXCEPT ![id] = IF wait[id] = "waiting" THEN value ELSE @]

(* A slip: a no is sent as a yes. *)
SendYes(id, yes) == Send(id, "yes")
SendAnswer(id, yes) == Send(id, IF yes THEN "yes" ELSE "no")

(* respond: the entry is removed and its channel used, under the lock, and *)
(* the caller is told that the approval was given or denied.               *)
Respond(id, yes) ==
  /\ id \in pending
  /\ RemoveEntry(id)
  /\ SendAnswer(id, yes)
  /\ acks' = [acks EXCEPT ![id] = Append(@, IF yes THEN "approved" ELSE "denied")]

(* The session takes up a reply when no turn holds its lock. *)
Relay(r) ==
  /\ r \in inbox
  /\ turn = Free
  /\ inbox' = inbox \ {r}
  /\ \/ Respond(r.id, r.yes)
     \/ /\ r.id \notin pending      \* "not found (already answered or expired)"
        /\ UNCHANGED <<pending, channel, acks>>
  /\ UNCHANGED <<nextId, asker, wait, turn, said>>

-----------------------------------------------------------------------------
Next ==
  \/ AskFromSubagent
  \/ AskFromTurn
  \/ \E id \in Ids : Answered(id)
  \/ \E id \in Ids : TimerFires(id)
  \/ \E id \in Ids : CleanUp(id)
  \/ \E id \in Ids : Abort(id)
  \/ \E r \in Reply : HumanReplies(r)
  \/ \E r \in Reply : Relay(r)

Spec == Init /\ [][Next]_vars

(* Timers fire and woken tools run on; tokio's mutex is fair, so a message *)
(* that waits for the session's turn gets it.                              *)
FairWaits == \A id \in Ids : WF_vars(Answered(id) \/ TimerFires(id) \/ CleanUp(id))
FairRelay == \A r \in Reply : SF_vars(Relay(r))
FairSpec == Spec /\ FairWaits /\ FairRelay

-----------------------------------------------------------------------------
(* Invariants. *)

(* Types; ids are handed out once. *)
TypeOK ==
  /\ nextId \in Nat \ {0}
  /\ pending \subseteq Ids
  /\ asker \in [Ids -> Asker]
  /\ wait \in [Ids -> Wait]
  /\ channel \in [Ids -> Channel]
  /\ turn \in Ids \cup {Free}
  /\ said \in SUBSET Reply
  /\ inbox \subseteq said
  /\ acks \in [Ids -> Seq({"approved", "denied"})]
  /\ \A id \in Ids : id >= nextId =>
       /\ wait[id] = "none" /\ id \notin pending
       /\ asker[id] = "none" /\ channel[id] = "empty" /\ acks[id] = <<>>

(* A tool that waits can still be answered: its entry is in the map or its *)
(* answer is in the channel, whatever other askers and relays do; and the  *)
(* tool leaves no entry behind unless it was aborted.                      *)
WaitersReachable ==
  \A id \in Ids :
    /\ wait[id] = "waiting" => (id \in pending <=> channel[id] = "empty")
    /\ wait[id] \in {"approved", "denied", "timedout"} => id \notin pending

(* The relaying agent hears of at most one success per question, and the   *)
(* answer on its way to the asker, or acted on by it, is the one that the  *)
(* relaying agent was told.                                                *)
OneAck ==
  \A id \in Ids :
    /\ Len(acks[id]) <= 1
    /\ id \in pending => acks[id] = <<>>
AskerAgreesWithAck ==
  \A id \in Ids :
    /\ wait[id] \in {"approved", "denied"} => acks[id] = <<wait[id]>>
    /\ channel[id] = "yes" => acks[id] = <<"approved">>
    /\ channel[id] = "no" => acks[id] = <<"denied">>

AnswersAgree == OneAck /\ AskerAgreesWithAck

(* The asker goes ahead only if the human said yes to this very question. *)
GoAheadOnlyOnYes ==
  \A id \in Ids :
    wait[id] = "approved" \/ channel[id] = "yes" => [id |-> id, yes |-> TRUE] \in said

(* The turn is held by a turn that waits, and by no other. *)
TurnHeldByWaiter ==
  \A id \in Ids : turn = id <=> asker[id] = "turn" /\ wait[id] \in {"waiting", "expired"}

-----------------------------------------------------------------------------
(* The asker's view is a Decision: decided once, in favour only on a yes.  *)

DecisionOf(w) ==
  CASE w = "none" -> "unasked"
    [] w \in {"waiting", "expired"} -> "open"
    [] w = "approved" -> "go"
    [] OTHER -> "stop"

Asked == INSTANCE Decision WITH
  Questions <- Ids,
  decision <- [id \in Ids |-> DecisionOf(wait[id])],
  consent <- {id \in Ids : [id |-> id, yes |-> TRUE] \in said}

(* Whatever answers, timers, aborts and relays do to one another, a        *)
(* question is decided once, and in favour only after the human's yes.     *)
ImplementsDecision == Asked!DecisionSpec

-----------------------------------------------------------------------------
(* Liveness. *)

(* "The tool suspends until the human responds or the timeout expires":    *)
(* no question is waited for for ever, and the session's turn comes free,  *)
(* so every reply of the human is relayed.                                 *)
AsksEnd == \A id \in Ids : wait[id] \in {"waiting", "expired"} ~> wait[id] \notin {"waiting", "expired"}
RepliesRelayed == \A r \in Reply : r \in inbox ~> r \notin inbox
=============================================================================

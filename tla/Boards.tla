------------------------------- MODULE Boards -------------------------------
(***************************************************************************)
(* Two boards in memory that agents share: the mailboxes by which agents   *)
(* pass messages on (agent_mailbox.rs, agent_post, agent_recv), and the    *)
(* todo list (tools/todo.rs), of which there is one for all sessions.      *)
(*                                                                         *)
(* A message is its number in the order of posting.  Both boards are lost  *)
(* when the process ends.                                                  *)
(***************************************************************************)
EXTENDS Naturals, SequencesExt, Selection

CONSTANTS
  Boxes,      \* names of mailboxes
  TodoIds,    \* ids of todo items an agent writes, unusable ones among them
  BadIds,     \* "" and "?", which stands for an id not given
  MaxPosts    \* bound on the messages posted

VARIABLES
  boxes,  \* per name, the messages that wait
  taken,  \* history: per name, the messages handed out
  posts,  \* messages posted so far
  todos   \* the items, in their order

boardVars == <<boxes, taken, posts, todos>>

BoardsInit ==
  /\ boxes = [b \in Boxes |-> << >>]
  /\ taken = [b \in Boxes |-> << >>]
  /\ posts = 0
  /\ todos = << >>

-----------------------------------------------------------------------------
\* A box is made at its first message.
Post(b) ==
  /\ posts < MaxPosts
  /\ posts' = posts + 1
  /\ boxes' = [boxes EXCEPT ![b] = Append(@, posts + 1)]
  /\ UNCHANGED <<taken, todos>>

(* A slip: two calls of peek and drain in place of one under the lock, and a *)
(* message posted in between is drained unseen.                              *)
RecvUnlocked(b, limit) ==
  LET n == IF limit < Len(boxes[b]) THEN limit ELSE Len(boxes[b])
  IN /\ taken' = [taken EXCEPT ![b] = @ \o SubSeq(boxes[b], 1, n)]
     /\ \E late \in 0..1 : boxes' = [boxes EXCEPT ![b] = SubSeq(@, n + 1 + late, Len(@))]
     /\ UNCHANGED <<posts, todos>>

\* The oldest `limit` messages.
Recv(b, limit) ==
  LET n == IF limit < Len(boxes[b]) THEN limit ELSE Len(boxes[b])
  IN /\ taken' = [taken EXCEPT ![b] = @ \o SubSeq(boxes[b], 1, n)]
     /\ boxes' = [boxes EXCEPT ![b] = SubSeq(@, n + 1, Len(@))]
     /\ UNCHANGED <<posts, todos>>

\* A name that is blank, or a message that is missing, is refused.
AgentPost == \E b \in Boxes : Post(b)

\* The limit is cut at the top alone, so that 0 takes nothing, and neither does
\* a call with peek.  What is said to remain is counted under the lock once more.
AgentRecv == \E b \in Boxes, limit \in 0..2 : Recv(b, limit)

-----------------------------------------------------------------------------
Valid == {"pending", "in_progress", "completed", "cancelled"}
Raw == [id : TodoIds, content : {"text", "none"}, status : {"completed", "Done"}]

NormalizeStatus(raw) == IF raw \in Valid THEN raw ELSE "pending"
Read(raw) == [raw EXCEPT !.status = NormalizeStatus(@)]

Ids(items) == {items[i].id : i \in DOMAIN items}
IndexOf(items, id) == CHOOSE i \in DOMAIN items : items[i].id = id

\* The last item of an id wins.  The items come back out of a HashMap, in any
\* order.
LastOf(written, id) ==
  Read(written[CHOOSE i \in DOMAIN written :
                 written[i].id = id /\ \A j \in i+1..Len(written) : written[j].id # id])

(* A slip: items are taken as they come. *)
AsTheyCome(written) == {[i \in DOMAIN written |-> Read(written[i])]}

Deduped(written) ==
  {[i \in DOMAIN order |-> LastOf(written, order[i])]
     : order \in SetToSeqs(Ids(written) \ BadIds)}

\* A content that was not given leaves the old one; a status that was not
\* given is "pending" by now, and sets an item that was done back to that.
MergeItem(old, new) ==
  [old EXCEPT !.content = IF new.content = "none" THEN @ ELSE new.content, !.status = new.status]

\* What is new is appended, and not looked up by those that follow.
Merge(incoming) ==
  [i \in DOMAIN todos |->
     IF todos[i].id \in Ids(incoming)
     THEN MergeItem(todos[i], incoming[IndexOf(incoming, todos[i].id)]) ELSE todos[i]]
    \o Picked(incoming, {i \in DOMAIN incoming : incoming[i].id \notin Ids(todos)})

Write(written, merge) ==
  \E incoming \in Deduped(written) :
    todos' = IF merge THEN Merge(incoming) ELSE incoming

\* todo_write fails on an empty array; todo_read changes nothing.
TodoWrite ==
  /\ \E written \in UNION {[1..n -> Raw] : n \in 1..2}, merge \in BOOLEAN : Write(written, merge)
  /\ UNCHANGED <<boxes, taken, posts>>

BoardsNext == AgentPost \/ AgentRecv \/ TodoWrite

BoardsSpec == BoardsInit /\ [][BoardsNext]_boardVars

-----------------------------------------------------------------------------
\* Every message of a mailbox is handed out once, to one of its readers, and
\* the oldest first, and none is lost between them; and no todo item is on the
\* list twice, though a merge looks up only what was there before it.
NothingTwice ==
  /\ \A b \in Boxes :
       LET all == taken[b] \o boxes[b]
       IN \A i \in 1..Len(all)-1 : all[i] < all[i+1]
  /\ UNION {Range(taken[b]) \union Range(boxes[b]) : b \in Boxes} = 1..posts
  /\ \A i, j \in DOMAIN todos : todos[i].id = todos[j].id => i = j
=============================================================================

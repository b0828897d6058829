------------------------------ MODULE Inbound ------------------------------
(***************************************************************************)
(* The way of a Telegram update to the agent: the poll loop of             *)
(* channel_loop.rs or the webhook of gateway.rs, the debounce buffers of   *)
(* telegram.rs, the inbound queue of bus.rs, the inbound dispatcher of     *)
(* daemon.rs and the turn lock of session.rs.                              *)
(*                                                                         *)
(* An update is told by its chat, its forum topic, and what process_update *)
(* does with it.  Its id is its place among the updates sent.  A message   *)
(* is the sequence of the updates merged into it; the first one gives it   *)
(* its chat.  The clock is told by the buffers that have been quiet long   *)
(* enough.                                                                 *)
(***************************************************************************)
EXTENDS Routing, SequencesExt, Selection

CONSTANTS
  Chats,      \* chat ids
  Topics,     \* message_thread_id of a message, NONE outside a topic
  Webhook,    \* TRUE: updates are pushed to the gateway; FALSE: they are polled
  Threads,    \* threads that process updates: the poll loop, or webhook handlers
  Capacity,   \* QUEUE_CAPACITY of the inbound queue
  MaxUpdates, \* bound of the model: updates sent
  MaxCrashes  \* bound of the model: restarts of the process

\* NONE is no message; channel_loop.rs runs one poll loop.
ASSUME MessageAssumption ==
  /\ NONE \notin Seq(Nat) /\ Webhook \in BOOLEAN
  /\ Webhook \/ \A t, u \in Threads : t = u

(* "short" goes straight on (a callback too), "long" (> 500 bytes) and     *)
(* "album" are buffered, "junk" is not allowed, empty or of another type.  *)
Kinds == {"short", "long", "album", "junk"}
Updates == [chat : Chats, topic : Topics, kind : Kinds]

\* Long texts are gathered by chat alone, albums by media_group_id.
Buffers == ({"text"} \X Chats) \cup ({"album"} \X Chats \X Topics)
BufferOf(u) == IF u.kind = "long" THEN <<"text", u.chat>>
               ELSE <<"album", u.chat, u.topic>>

VARIABLES
  sent,      \* updates the users have sent, by id
  asked,     \* polled: the highest offset the server has seen; pushed: ids pushed
  offset,    \* last_update_id, the next update to request
  stored,    \* last_update_id of the offset file
  buffered,   \* pending_media and pending_text
  quiet,     \* buffers whose last message is old enough
  phase,     \* what each thread is doing
  batch,     \* the messages it has to publish
  inbound,   \* the inbound queue
  spawned,   \* tasks of the dispatcher that wait for the turn lock
  serving,   \* the message each session's turn is about, or NONE
  handled,   \* history: messages whose turn has ended
  forgotten, \* history: updates a restart has found in memory, see Restart
  crashes    \* history: restarts so far

inVars == <<sent, asked, offset, stored, buffered, quiet, phase, batch, inbound,
            spawned, serving, handled, forgotten, crashes>>

ChatOf(m) == sent[m[1]].chat

(* The metadata of a Telegram message names its account and no peer; the   *)
(* session comes from the route, the session_key of the message is unused. *)
RouteInput(chat) == [channel |-> "telegram", account |-> "bot", peer |-> NONE,
                     parent |-> NONE, guild |-> NONE, team |-> NONE, roles |-> {}]
SessionOf(chat) ==
    ResolveRoute(RouteInput(chat), <<>>, <<>>, "per_channel_peer", <<>>).session
Sessions == {SessionOf(c) : c \in Chats}

InboundInit ==
    /\ sent = <<>> /\ asked = {} /\ offset = 0 /\ stored = 0
    /\ buffered = [b \in Buffers |-> <<>>] /\ quiet = {}
    /\ phase = [t \in Threads |-> "poll"] /\ batch = [t \in Threads |-> <<>>]
    /\ inbound = <<>> /\ spawned = {} /\ serving = [s \in Sessions |-> NONE]
    /\ handled = <<>> /\ forgotten = {} /\ crashes = 0

UserSends(u) ==
    /\ Len(sent) < MaxUpdates
    /\ sent' = Append(sent, u)
    /\ UNCHANGED <<asked, offset, stored, buffered, quiet, phase, batch, inbound,
                   spawned, serving, handled, forgotten, crashes>>

-----------------------------------------------------------------------------
(* process_update on the updates ids, in order.                            *)
Direct(ids) == Picked(ids, {k \in DOMAIN ids : sent[ids[k]].kind = "short"})
Buffered(ids, b) ==
    Picked(ids, {k \in DOMAIN ids :
                   sent[ids[k]].kind \in {"long", "album"} /\ BufferOf(sent[ids[k]]) = b})
AfterUpdates(ids) == [b \in Buffers |-> buffered[b] \o Buffered(ids, b)]
StillQuiet(ids) == {b \in quiet : Buffered(ids, b) = <<>>}
OffsetAfter(ids) ==
    IF ids # <<>> /\ Last(ids) >= offset THEN Last(ids) + 1 ELSE offset

(* flush_pending_inbound: albums, then texts, each in the order of a hash  *)
(* map; a buffer becomes one message.                                      *)
FlushOrders(ripe) ==
    {a \o b : a \in SetToSeqs({k \in ripe : k[1] = "album"}),
              b \in SetToSeqs({k \in ripe : k[1] = "text"})}
Emptied(buf, ripe) == [b \in Buffers |-> IF b \in ripe THEN <<>> ELSE buf[b]]

\* Two or three seconds pass without another message for the buffer.
Matures(b) ==
    /\ buffered[b] # <<>> /\ b \notin quiet
    /\ quiet' = quiet \cup {b}
    /\ UNCHANGED <<sent, asked, offset, stored, buffered, phase, batch, inbound,
                   spawned, serving, handled, forgotten, crashes>>

(* The server hands out what no earlier request has confirmed; updates     *)
(* below the offset of a request are gone for good.                        *)
Available ==
    Picked([i \in DOMAIN sent |-> i], {i \in DOMAIN sent : i >= offset /\ i \notin asked})

\* poll_updates: one request, its updates, the buffers that are ripe.
Poll(t) ==
    /\ ~Webhook /\ phase[t] = "poll"
    /\ LET ids  == Available
           buf  == AfterUpdates(ids)
           ripe == StillQuiet(ids)
       IN  /\ \E order \in FlushOrders(ripe) :
                batch' = [batch EXCEPT ![t] = [i \in DOMAIN Direct(ids) |-> <<Direct(ids)[i]>>]
                                              \o [i \in DOMAIN order |-> buf[order[i]]]]
           /\ buffered' = Emptied(buf, ripe)
           /\ quiet' = {}
           /\ offset' = OffsetAfter(ids)
    /\ asked' = asked \cup {i \in DOMAIN sent : i < offset}
    /\ phase' = [phase EXCEPT ![t] = "publish"]
    /\ UNCHANGED <<sent, stored, inbound, spawned, serving, handled, forgotten, crashes>>

\* process_webhook_update on a pushed update; handlers run side by side.
Push(t, i) ==
    /\ Webhook /\ phase[t] = "poll" /\ i \in DOMAIN sent \ asked
    /\ asked' = asked \cup {i}
    /\ offset' = OffsetAfter(<<i>>)
    /\ buffered' = AfterUpdates(<<i>>)
    /\ quiet' = StillQuiet(<<i>>)
    /\ batch' = [batch EXCEPT ![t] = IF Direct(<<i>>) = <<>> THEN <<>> ELSE <<<<i>>>>]
    /\ phase' = [phase EXCEPT ![t] = "flush"]
    /\ UNCHANGED <<sent, stored, inbound, spawned, serving, handled, forgotten, crashes>>

Flush(t) ==
    /\ phase[t] = "flush"
    /\ \E order \in FlushOrders(quiet) :
         batch' = [batch EXCEPT ![t] = @ \o [i \in DOMAIN order |-> buffered[order[i]]]]
    /\ buffered' = Emptied(buffered, quiet)
    /\ quiet' = {}
    /\ phase' = [phase EXCEPT ![t] = "publish"]
    /\ UNCHANGED <<sent, asked, offset, stored, inbound, spawned, serving, handled,
                   forgotten, crashes>>

\* publish_inbound blocks while the queue is full.
PublishInbound(t) ==
    /\ phase[t] = "publish" /\ batch[t] # <<>> /\ Len(inbound) < Capacity
    /\ inbound' = Append(inbound, Head(batch[t]))
    /\ batch' = [batch EXCEPT ![t] = Tail(@)]
    /\ UNCHANGED <<sent, asked, offset, stored, buffered, quiet, phase, spawned, serving,
                   handled, forgotten, crashes>>

(* A slip: the offset is stored while messages wait for the queue. *)
PersistEarly(t) ==
    /\ phase[t] = "publish"
    /\ stored' \in IF ~Webhook /\ offset > stored THEN {stored, offset} ELSE {stored}
    /\ phase' = [phase EXCEPT ![t] = IF batch[t] = <<>> THEN "poll" ELSE @]
    /\ UNCHANGED <<sent, asked, offset, buffered, quiet, batch, inbound, spawned, serving,
                   handled, forgotten, crashes>>
(* The poll loop writes the offset, if it has advanced and the disk takes  *)
(* it; a webhook handler just returns.                                     *)
Persist(t) ==
    /\ phase[t] = "publish" /\ batch[t] = <<>>
    /\ stored' \in IF ~Webhook /\ offset > stored THEN {stored, offset} ELSE {stored}
    /\ phase' = [phase EXCEPT ![t] = "poll"]
    /\ UNCHANGED <<sent, asked, offset, buffered, quiet, batch, inbound, spawned, serving,
                   handled, forgotten, crashes>>

-----------------------------------------------------------------------------
(* A slip: the message is lost. *)
DispatchNothing ==
    /\ inbound # <<>>
    /\ inbound' = Tail(inbound)
    /\ UNCHANGED <<sent, asked, offset, stored, buffered, quiet, phase, batch, spawned,
                   serving, handled, forgotten, crashes>>
\* inbound_dispatcher_thread: one task per message.
Dispatch ==
    /\ inbound # <<>>
    /\ spawned' = spawned \cup {Head(inbound)}
    /\ inbound' = Tail(inbound)
    /\ UNCHANGED <<sent, asked, offset, stored, buffered, quiet, phase, batch, serving,
                   handled, forgotten, crashes>>

\* process_message_stream: the tasks reach the lock of the session in any order.
BeginTurn(m) ==
    /\ m \in spawned /\ serving[SessionOf(ChatOf(m))] = NONE
    /\ spawned' = spawned \ {m}
    /\ serving' = [serving EXCEPT ![SessionOf(ChatOf(m))] = m]
    /\ UNCHANGED <<sent, asked, offset, stored, buffered, quiet, phase, batch, inbound,
                   handled, forgotten, crashes>>

EndTurn(s) ==
    /\ serving[s] # NONE
    /\ handled' = Append(handled, serving[s])
    /\ serving' = [serving EXCEPT ![s] = NONE]
    /\ UNCHANGED <<sent, asked, offset, stored, buffered, quiet, phase, batch, inbound,
                   spawned, forgotten, crashes>>

InQueues ==
    ToSet(inbound) \cup spawned \cup ({serving[s] : s \in Sessions} \ {NONE})
InBatches == UNION {ToSet(batch[t]) : t \in Threads}
Waiting == UNION {ToSet(buffered[b]) : b \in Buffers}

(* The single messages of a polled batch are the server's to send once     *)
(* more; the buffers, the queue, the tasks and the turns nobody makes good. *)
LostInHand == {i \in UNION {ToSet(m) : m \in InBatches} : Webhook \/ sent[i].kind # "short"}
LostAtRestart == Waiting \cup LostInHand \cup UNION {ToSet(m) : m \in InQueues}

(* Everything in memory is gone; the poll loop starts from the file.       *)
Restart ==
    /\ crashes < MaxCrashes
    /\ crashes' = crashes + 1
    /\ forgotten' = forgotten \cup LostAtRestart
    /\ offset' = IF Webhook THEN 0 ELSE stored
    /\ buffered' = [b \in Buffers |-> <<>>] /\ quiet' = {}
    /\ phase' = [t \in Threads |-> "poll"] /\ batch' = [t \in Threads |-> <<>>]
    /\ inbound' = <<>> /\ spawned' = {} /\ serving' = [s \in Sessions |-> NONE]
    /\ UNCHANGED <<sent, asked, stored, handled>>

Process(t) == Poll(t) \/ Flush(t) \/ PublishInbound(t) \/ Persist(t) \/ \E i \in DOMAIN sent : Push(t, i)
SessionSteps == (\E m \in spawned : BeginTurn(m)) \/ (\E s \in Sessions : EndTurn(s))

InboundNext ==
    \/ \E u \in Updates : UserSends(u)
    \/ \E b \in Buffers : Matures(b)
    \/ \E t \in Threads : Process(t)
    \/ Dispatch
    \/ SessionSteps
    \/ Restart

(* The clock runs, the server answers, the threads of the process run and  *)
(* turns end.                                                              *)
InboundFairness ==
    /\ \A b \in Buffers : WF_inVars(Matures(b))
    /\ \A t \in Threads : WF_inVars(Process(t))
    /\ WF_inVars(Dispatch)
    /\ WF_inVars(SessionSteps)

InboundSpec == InboundInit /\ [][InboundNext]_inVars
InboundFair == InboundSpec /\ InboundFairness

-----------------------------------------------------------------------------
Held == Waiting \cup UNION {ToSet(m) : m \in InQueues \cup InBatches}
Taken == UNION {ToSet(m) : m \in ToSet(handled)}
Wanted(i) == sent[i].kind # "junk"

(* What the server will not hand out again is held or has had its turn;    *)
(* within a life nothing is lost, and a restart loses what it finds in the *)
(* buffers, the queue, the tasks and the turns, and of a batch that is     *)
(* being published no single message that was polled.                      *)
(* telegram.rs process_update advances the offset before the buffers are   *)
(* flushed; channel_loop.rs stores it after the batch has been published.  *)
AcknowledgedIsKept ==
    \A i \in DOMAIN sent :
        Wanted(i) /\ (i \in asked \/ i < stored) =>
          i \in Held \cup Taken \cup forgotten

(* Every update is in one place and once in it, but that a restart may     *)
(* give it one turn more: what was served before the file knew of it.      *)
Places(i) ==
    Cardinality({m \in InQueues \cup InBatches : i \in ToSet(m)})
    + Cardinality({k \in DOMAIN handled : i \in ToSet(handled[k])})
    + Cardinality({b \in Buffers : i \in ToSet(buffered[b])})
OnePlaceEach ==
    \A i \in DOMAIN sent : Places(i) <= 1 + crashes

(* The parts of a merged message were sent to one chat, in this order.     *)
MergedInOrder ==
    \A m \in InQueues \cup InBatches \cup ToSet(handled) :
        \A j, k \in DOMAIN m :
            j < k => m[j] < m[k] /\ sent[m[j]].chat = sent[m[k]].chat

(* While the process lives an update that Telegram will not send again is  *)
(* not lost on its way to a turn, and a restart does not lose the single   *)
(* messages polled but not yet in the queue; every update is in one place, *)
(* and merged only with what came before it from its chat (telegram.rs,    *)
(* channel_loop.rs, bus.rs).                                               *)
MessagesKept == AcknowledgedIsKept /\ OnePlaceEach /\ MergedInOrder

(* Every message a user sends gets its turn, while the process lives.      *)
EveryMessageHandled ==
    \A i \in 1..MaxUpdates :
        (Len(sent) >= i /\ sent[i].kind # "junk") ~> (i \in Taken \/ crashes > 0)
=============================================================================

------------------------------ MODULE Delivery ------------------------------
(***************************************************************************)
(* The way of a reply to the screen of a Telegram chat: the turn's stream  *)
(* callback and its final text (daemon.rs), the outbound queue (bus.rs),   *)
(* the one outbound dispatcher (channels/dispatch.rs), and the draft,      *)
(* edit, split and attachment code of telegram.rs.                         *)
(*                                                                         *)
(* telegram.rs keys its maps by chat, and chats meet only in the queue:    *)
(* the module follows one chat.  A text is the sequence of its pieces; a   *)
(* streamed piece is <<turn, "piece", i>>, a part of a final text          *)
(* <<turn, "part", i>>.  Markup and wording are left out.                  *)
(***************************************************************************)
EXTENDS Naturals, Sequences, FiniteSets, SequencesExt

CONSTANTS
  Turns,     \* turns of the agent in this chat, each with one final text
  Notes,     \* finals of others: cron jobs, subagents, approvals
  Registry,  \* registered channels, a sequence of [name, account]
  QueueCapacity, \* QUEUE_CAPACITY of the outbound queue
  NoAccount, \* a message without an account id
  MaxPieces, \* bound of the model: chunks a turn publishes
  MaxFaults  \* bound of the model: requests that go wrong

ASSUME DeliveryAssumption == Turns \cap Notes = {}

Finals == Turns \cup Notes
(* "silent" is an empty text or one with [NO_REPLY]; "long" needs two      *)
(* messages; "file" has an attachment behind its text.                     *)
FinalKinds == {"text", "long", "file", "silent"}

-----------------------------------------------------------------------------
(* One call of the Bot API, and the chain of calls for one message.        *)
MAX_RETRIES == 3
Answers == {"ok", "parse", "thread", "refused", "down", "lost"}

(* try_send_with_flood_retry: floods answers 429 come before the answer;   *)
(* an edit gives up at once when it is told to wait more than 5 seconds.   *)
AfterFloods(answer, floods, slow, edit) ==
    IF (edit /\ slow /\ floods > 0) \/ floods > MAX_RETRIES THEN "down" ELSE answer
Replies(edit) == {AfterFloods(a, f, s, edit) :
                    a \in Answers, f \in 0..(MAX_RETRIES + 1), s \in BOOLEAN}

(* What a call comes to: whether it returns Ok, whether with an id, and    *)
(* whether the text is on the screen ("lost" is a request that worked and  *)
(* whose answer never came; "not modified" is an edit that worked).        *)
Outcome(ok, id, shown) == [ok |-> ok, id |-> id, shown |-> shown]
Sent == Outcome(TRUE, TRUE, TRUE)
Failed(a) == Outcome(FALSE, FALSE, a = "lost")

(* send_message_formatted: MarkdownV2, then HTML, then plain text.  A      *)
(* forum topic that is gone is tried again without the topic; after plain  *)
(* text that second try counts as sent, with no id, whatever it answers.   *)
WithoutTopic(a, mode) ==
    IF a = "ok" THEN Sent
    ELSE IF mode = "plain" /\ a \notin {"down", "lost"} THEN Outcome(TRUE, FALSE, FALSE)
    ELSE Failed(a)
NextMode(mode) == IF mode = "MarkdownV2" THEN "HTML" ELSE "plain"
Formatted(edit) ==
    LET tried[mode \in {"MarkdownV2", "HTML", "plain"}] ==
          UNION { IF a = "ok" THEN {Sent}
                  ELSE IF a = "thread" /\ ~edit THEN {WithoutTopic(b, mode) : b \in Replies(edit)}
                  ELSE IF a = "parse" /\ mode # "plain" THEN tried[NextMode(mode)]
                  ELSE {Failed(a)}
                : a \in Replies(edit) }
    IN  tried["MarkdownV2"]

NewOutcomes  == Formatted(FALSE)
EditOutcomes == Formatted(TRUE)
Cost(o) == IF o = Sent THEN 0 ELSE 1

(* dispatch_message: the channel of the message, 0 when there is none.  An *)
(* account that is only the channel's name is forgiven while the channel   *)
(* has a single account.                                                   *)
FindChannel(name, account) ==
    LET named == {i \in DOMAIN Registry : Registry[i].name = name}
        exact == {i \in named : Registry[i].account = account}
        hit   == IF account = NoAccount THEN named
                 ELSE IF exact # {} THEN exact
                 ELSE IF account = name /\ Cardinality(named) = 1 THEN named
                 ELSE {}
    IN  IF hit = {} THEN 0 ELSE CHOOSE i \in hit : \A j \in hit : i <= j

-----------------------------------------------------------------------------
VARIABLES
  turns,    \* "new", "running", "ended" (the session is free again), "replied"
  pieces,   \* chunks each turn has published
  out,      \* the outbound queue
  draft,    \* draft_buffers: text streamed since the last final
  stream,   \* active_streams: place of the streamed message, 0 if none
  screen,   \* the messages of the chat, each its text
  typing,   \* typing_stops: the heartbeat that can be stopped, or NoAccount
  beats,    \* heartbeat threads that run
  poller,   \* the poll loop between publishing a message and its typing notice
  log,      \* history: the finals dispatched, in order, and what became of them
  faults    \* requests that have gone wrong

dVars == <<turns, pieces, out, draft, stream, screen, typing, beats, poller, log, faults>>
chatVars == <<draft, stream, screen, typing, beats, log, faults>>

DeliveryInit ==
    /\ turns = [t \in Turns |-> "new"] /\ pieces = [t \in Turns |-> 0]
    /\ out = <<>> /\ draft = <<>> /\ stream = 0 /\ screen = <<>>
    /\ typing = NoAccount /\ beats = {} /\ poller = <<"idle">>
    /\ log = <<>> /\ faults = 0

(* The poll loop publishes a message, and only then sends the typing       *)
(* notice: by then its turn may be over.                                   *)
Arrive(t) ==
    /\ poller = <<"idle">> /\ turns[t] = "new"
    /\ turns' = [turns EXCEPT ![t] = "queued"]
    /\ poller' = <<"typing", t>>
    /\ UNCHANGED <<pieces, out, chatVars>>

SendTyping ==
    /\ poller[1] = "typing"
    /\ IF typing # NoAccount
       THEN poller' = <<"idle">> /\ UNCHANGED beats
       ELSE poller' = <<"insert", poller[2]>> /\ beats' = beats \cup {poller[2]}
    /\ UNCHANGED <<turns, pieces, out, draft, stream, screen, typing, log, faults>>

InsertTyping ==
    /\ poller[1] = "insert"
    /\ typing' = poller[2] /\ poller' = <<"idle">>
    /\ UNCHANGED <<turns, pieces, out, draft, stream, screen, beats, log, faults>>

\* The turn lock of the session lets one turn run.
Begin(t) ==
    /\ turns[t] = "queued" /\ \A u \in Turns : turns[u] # "running"
    /\ turns' = [turns EXCEPT ![t] = "running"]
    /\ UNCHANGED <<pieces, out, poller, chatVars>>

\* publish_outbound blocks while the queue is full.
Publish(m) == Len(out) < QueueCapacity /\ out' = Append(out, m)

\* stream_cb: a delta at most every 200 ms.
Stream(t) ==
    /\ turns[t] = "running" /\ pieces[t] < MaxPieces
    /\ pieces' = [pieces EXCEPT ![t] = @ + 1]
    /\ Publish([stage |-> "chunk", of |-> t, account |-> "bot",
                text |-> <<<<t, "piece", pieces[t] + 1>>>>])
    /\ UNCHANGED <<turns, poller, chatVars>>

(* process_message_stream returns and frees the session before the task    *)
(* publishes the answer.                                                   *)
End(t) ==
    /\ turns[t] = "running"
    /\ turns' = [turns EXCEPT ![t] = "ended"]
    /\ UNCHANGED <<pieces, out, poller, chatVars>>

FinalOf(f, kind, account) ==
    [stage |-> kind, of |-> f, account |-> account,
     text |-> [i \in 1..(CASE kind = "silent" -> 0 [] kind = "long" -> 2 [] OTHER -> 1)
                  |-> <<f, "part", i>>]]

PublishReply(t) ==
    /\ turns[t] = "ended"
    /\ turns' = [turns EXCEPT ![t] = "replied"]
    /\ \E k \in FinalKinds : Publish(FinalOf(t, k, "bot"))
    /\ UNCHANGED <<pieces, poller, chatVars>>

Note(n, account) ==
    /\ \A i \in DOMAIN log : log[i].of # n
    /\ \A i \in DOMAIN out : out[i].of # n
    /\ Publish(FinalOf(n, "text", account))
    /\ UNCHANGED <<turns, pieces, poller, chatVars>>

-----------------------------------------------------------------------------
Top == Head(out)
Dequeue == out' = Tail(out) /\ UNCHANGED <<turns, pieces, poller>>
Spend(n) == faults' = faults + n /\ faults + n <= MaxFaults

(* send_stream_chunk: the draft grows; when it is due it is sent or edits  *)
(* the streamed message, errors ignored.                                   *)
DispatchChunk ==
    /\ out # <<>> /\ Top.stage = "chunk"
    /\ Dequeue
    /\ draft' = draft \o Top.text
    /\ \/ UNCHANGED <<stream, screen, faults>>       \* not due yet
       \/ /\ stream # 0
          /\ \E o \in EditOutcomes :
               /\ screen' = IF o.shown THEN [screen EXCEPT ![stream] = draft'] ELSE screen
               /\ Spend(Cost(o))
          /\ UNCHANGED stream
       \/ /\ stream = 0
          /\ \E o \in NewOutcomes :
               /\ screen' = IF o.shown THEN Append(screen, draft') ELSE screen
               /\ stream' = IF o.ok /\ o.id THEN Len(screen') ELSE 0
               /\ Spend(Cost(o))
    /\ UNCHANGED <<typing, beats, log>>

(* Sending one text of a final, from where the call has got to: the first  *)
(* takes over the streamed message and its failure is ignored; the first   *)
(* that cannot be sent as a message of its own ends the call.              *)
Progress(scr, edit, ok, n) == [screen |-> scr, edit |-> edit, ok |-> ok, faults |-> n]
SendText(at, text) ==
    IF ~at.ok THEN {at}
    ELSE { Progress(IF ~o.shown THEN at.screen
                    ELSE IF at.edit # 0 THEN [at.screen EXCEPT ![at.edit] = <<text>>]
                    ELSE Append(at.screen, <<text>>),
                    0, o.ok \/ at.edit # 0, at.faults + Cost(o))
         : o \in IF at.edit # 0 THEN EditOutcomes ELSE NewOutcomes }
SendTexts(at, texts) ==
    LET sent[n \in 0 .. Len(texts)] ==
          IF n = 0 THEN {at} ELSE UNION {SendText(p, texts[n]) : p \in sent[n - 1]}
    IN  sent[Len(texts)]

(* send_attachment_with_fallback: anything but a document is tried again   *)
(* as a document; a failure is told in a message of its own.               *)
SendFile(at, f) ==
    LET shown(p)  == Progress(Append(p.screen, <<<<f, "file", 1>>>>), p.edit, p.ok, p.faults)
        failed(p) == Progress(p.screen, p.edit, FALSE, p.faults + 1)
        anew(p)   == Progress(p.screen, p.edit, TRUE, p.faults)
        try(p)    == {shown(p), failed(p), failed(shown(p))}
        again(p)  == IF p.ok THEN {p} ELSE try(anew(p))
        told(p)   == IF p.ok THEN {p} ELSE SendText(anew(p), <<f, "failure", 1>>)
    IN  UNION {told(r) : r \in UNION {again(q) : q \in try(at)}}

(* A slip: the streamed message is not forgotten. *)
ForgetDraftOnly == draft' = <<>> /\ UNCHANGED stream
ForgetStream == draft' = <<>> /\ stream' = 0

\* do_send_message.
DispatchFinal ==
    /\ out # <<>> /\ Top.stage # "chunk" /\ FindChannel("telegram", Top.account) = 1
    /\ Dequeue
    /\ ForgetStream
    /\ typing' = NoAccount /\ beats' = beats \ {typing}
    /\ \E r \in SendTexts(Progress(screen, stream, TRUE, faults), Top.text) :
         \E s \in IF r.ok /\ Top.stage = "file" THEN SendFile(r, Top.of) ELSE {r} :
            /\ s.faults <= MaxFaults
            /\ screen' = s.screen /\ faults' = s.faults
            /\ log' = Append(log, [of |-> Top.of, ok |-> s.ok, stage |-> Top.stage])

\* No channel of that name and account: the message is counted and dropped.
DispatchNowhere ==
    /\ out # <<>> /\ Top.stage # "chunk" /\ FindChannel("telegram", Top.account) # 1
    /\ Dequeue
    /\ log' = Append(log, [of |-> Top.of, ok |-> FALSE, stage |-> "dropped"])
    /\ UNCHANGED <<draft, stream, screen, typing, beats, faults>>

DeliveryNext ==
    \/ \E t \in Turns : Arrive(t) \/ Begin(t) \/ Stream(t) \/ End(t) \/ PublishReply(t)
    \/ SendTyping \/ InsertTyping
    \/ \E n \in Notes, a \in {NoAccount, "other"} : Note(n, a)
    \/ DispatchChunk \/ DispatchFinal \/ DispatchNowhere

DeliverySpec == DeliveryInit /\ [][DeliveryNext]_dVars
-----------------------------------------------------------------------------
Shown(token) == {i \in DOMAIN screen : token \in ToSet(screen[i])}
PartsOf(f) == {<<f, "part", i>> : i \in 1..2}
PartPlaces(f) == UNION {Shown(p) : p \in PartsOf(f)}

(* A streamed draft is always the newest message of the chat, so an edit   *)
(* never rewrites something older (telegram.rs, active_streams).           *)
DraftIsNewest == stream \in {0, Len(screen)}

(* A part of a final text is shown at most once, whatever gets lost on the *)
(* way (the fallback chain and the splits repeat nothing that may have     *)
(* been delivered).                                                        *)
EachPartOnce ==
    \A f \in Finals : \A i, j \in PartPlaces(f) :
        screen[i] = screen[j] => i = j

(* Final texts stand on the screen in the order they were dispatched, also *)
(* when one of them took over the draft of another's turn.                 *)
FinalsInOrder ==
    \A k, l \in DOMAIN log : k < l =>
        \A i \in PartPlaces(log[k].of), j \in PartPlaces(log[l].of) : i < j

(* Whatever requests fail, final texts are shown in order and nothing of   *)
(* them twice (do_send_message, dispatch_message).                         *)
FinalsShown == FinalsInOrder /\ EachPartOnce /\ DraftIsNewest
=============================================================================

-------------------------------- MODULE Wire --------------------------------
(***************************************************************************)
(* What the provider clients make of a conversation and of an answer: the  *)
(* bodies of requests (openai.rs, gemini.rs, anthropic.rs, ollama.rs), and *)
(* the reply put together from the events of a stream (openai.rs, sse.rs). *)
(*                                                                         *)
(* A text is a sequence of pieces.  The tags of a block of thoughts may be *)
(* cut by the end of an event: "<th" "ink>" opens it, "</th" "ink>" closes *)
(* it, and any other piece is "text".                                      *)
(***************************************************************************)
EXTENDS Naturals, Sequences, FiniteSets, SequencesExt, Selection

CONSTANTS
  Kinds,       \* messages of a history: [role, calls, answers, size]
  NoToolCall,  \* answers of a message without tool_call_id
  MaxPayload,  \* MAX_PAYLOAD_SIZE_BYTES
  Models,      \* models of the gateway
  Builtin,     \* DEFAULT_FREE_MODELS
  MaxHistory,  \* bound of the model: messages of a history
  MaxPieces,   \* bound of the model: pieces of a streamed text
  MaxFragments \* bound of the model: fragments of arguments in a stream

ASSUME WireAssumption ==
    /\ \A k \in Kinds : k.size \in Nat \ {0}
    /\ IsFiniteSet(Models) /\ Builtin \in Seq(Models) /\ IsInjective(Builtin)
    /\ MaxPieces \in Nat

VARIABLES
  history,  \* the messages of a ChatRequest
  wire,     \* the request built last: [by, body], or [by, error]
  listing,  \* the free models the gateway lists, none if it cannot be reached
  chain,    \* models asked for one request, and whether they answered
  written,     \* the text the service has sent
  held,     \* ThinkStripper.buffer
  inThink,  \* ThinkStripper.in_think
  content,  \* full_content: positions in `written`
  thoughts, \* full_reasoning: positions in `written`
  toolCalls,\* tool_calls, each with the fragments of its arguments
  cutClose, \* history: a closing tag came in two events
  answer,   \* where the answer is: "idle", "open", "done", "panicked"
  parts,    \* the parts of a Gemini answer
  sigSeen,  \* turn_thought_signature is there
  signed    \* the calls of the answer: whether each has a signature

requestVars == <<history, wire, listing, chain>>
answerVars  == <<written, held, inThink, content, thoughts, toolCalls, cutClose, answer>>
geminiVars  == <<parts, sigSeen, signed>>
wireVars    == <<requestVars, answerVars, geminiVars>>

NothingSent == [by |-> "none", body |-> <<>>]

WireInit ==
    /\ history = <<>> /\ wire = NothingSent
    /\ listing = {} /\ chain = <<>>
    /\ written = <<>> /\ held = <<>> /\ inThink = FALSE /\ content = <<>>
    /\ thoughts = <<>> /\ toolCalls = <<>> /\ cutClose = FALSE /\ answer = "idle"
    /\ parts = <<>> /\ sigSeen = FALSE /\ signed = <<>>

\* The agent's history: a result follows a message that asked for it.
AddMessage(k) ==
    /\ Len(history) < MaxHistory
    /\ k.role = "system" => history = <<>>
    /\ k.answers # NoToolCall => \E i \in DOMAIN history : k.answers \in history[i].calls
    /\ history' = Append(history, k)
    /\ wire' = NothingSent
    /\ UNCHANGED <<listing, chain, answerVars, geminiVars>>

-----------------------------------------------------------------------------
(* The OpenAI-compatible client, and Ollama's.                             *)

HasSystem == history # <<>> /\ history[1].role = "system"
SystemPart == IF HasSystem THEN {1} ELSE {}

\* estimate_payload_bytes
Estimate(part) == SumFunctionOnSet([i \in DOMAIN history |-> history[i].size], part)

(* A slip: the oldest messages are kept, not the newest. *)
TruncatedNewest == SystemPart \cup {i \in DOMAIN history \ SystemPart :
    i = Len(history) \/ Estimate(SystemPart \cup (1..i)) <= MaxPayload}
\* truncate_messages_by_payload: the system prompt, and from the newest message
\* back those that fit; the newest is kept even if it does not.
Truncated == SystemPart \cup {i \in DOMAIN history \ SystemPart :
    i = Len(history) \/ Estimate(SystemPart \cup (i..Len(history))) <= MaxPayload}
FitPart == IF Estimate(DOMAIN history) > MaxPayload THEN Truncated ELSE DOMAIN history

\* prepare_messages: one message each, with its calls and the call it answers.
InOrder(part) == Picked([i \in DOMAIN history |-> i], part)
Prepared(part) ==
    [k \in DOMAIN InOrder(part) |->
        LET m == history[InOrder(part)[k]]
        IN  [role |-> m.role, calls |-> m.calls, answers |-> m.answers, parts |-> <<InOrder(part)[k]>>]]

OpenAiRequest ==
    /\ history # <<>>
    /\ wire' = IF Estimate(FitPart) <= MaxPayload THEN [by |-> "openai", body |-> Prepared(FitPart)]
               ELSE [by |-> "too large", body |-> <<>>]
    /\ UNCHANGED <<history, listing, chain, answerVars, geminiVars>>

\* Ollama's prepare_messages leaves out calls and what a result answers.
OllamaRequest ==
    /\ history # <<>>
    /\ wire' = [by |-> "ollama", body |-> [i \in DOMAIN history |->
                 [role |-> history[i].role, calls |-> {}, answers |-> NoToolCall, parts |-> <<i>>]]]
    /\ UNCHANGED <<history, listing, chain, answerVars, geminiVars>>

-----------------------------------------------------------------------------
(* Gemini and Anthropic take the system prompt out of the messages.        *)

Spoken == InOrder({i \in DOMAIN history : history[i].role # "system"})

GeminiRole(m) == IF m.role = "assistant" THEN "model" ELSE "user"

(* A slip: a message joins the group before it only if its own role, not   *)
(* the one it is mapped to, is that of the message before.                 *)
JoinsByRole(groups, i) ==
    groups # <<>> /\ history[Last(Last(groups).parts)].role = history[i].role
\* Consecutive messages of one role are one content.
Joins(groups, i) == groups # <<>> /\ Last(groups).role = GeminiRole(history[i])
Grouped(groups, i) ==
    IF Joins(groups, i) THEN [groups EXCEPT ![Len(groups)].parts = Append(@, i)]
    ELSE Append(groups, [role |-> GeminiRole(history[i]), parts |-> <<i>>])
Contents ==
    LET grouped[n \in 0..Len(Spoken)] ==
          IF n = 0 THEN <<>> ELSE Grouped(grouped[n - 1], Spoken[n])
    IN  grouped[Len(Spoken)]

GeminiRequest ==
    /\ history # <<>>
    /\ wire' = [by |-> "gemini", body |-> Contents]
    /\ UNCHANGED <<history, listing, chain, answerVars, geminiVars>>

\* The roles of the messages are passed on as they are, "tool" too.
AnthropicRequest ==
    /\ history # <<>>
    /\ wire' = [by |-> "anthropic", body |-> [k \in DOMAIN Spoken |->
                 [role |-> history[Spoken[k]].role, calls |-> {}, answers |-> NoToolCall,
                  parts |-> <<Spoken[k]>>]]]
    /\ UNCHANGED <<history, listing, chain, answerVars, geminiVars>>

(* KiloCodeProvider: the model of the request, then the free models.       *)

\* fetch_kilocode_free_models, sorted and each once; the built-in ones if it fails.
FreeModels == IF listing = {} THEN Builtin ELSE SetToSeq(listing)
Others(primary) == Picked(FreeModels, {i \in DOMAIN FreeModels : FreeModels[i] # primary})

CreateKiloCode(listed) ==
    /\ chain = <<>> /\ listing = {}
    /\ listing' = listed
    /\ UNCHANGED <<history, wire, chain, answerVars, geminiVars>>

AskModel(primary, ok) ==
    /\ chain # <<>> => ~Last(chain).ok /\ chain[1].model = primary
    /\ Len(chain) <= Len(Others(primary))
    /\ chain' = Append(chain, [ok |-> ok,
          model |-> IF chain = <<>> THEN primary ELSE Others(primary)[Len(chain)]])
    /\ UNCHANGED <<history, wire, listing, answerVars, geminiVars>>

-----------------------------------------------------------------------------
(* Tags within a text.                                                     *)

TagAt(t, half, i) == i < Len(t) /\ t[i] = half /\ t[i + 1] = "ink>"
Tags(t, half) == {i \in DOMAIN t : TagAt(t, half, i)}
Earliest(S) == CHOOSE i \in S : \A j \in S : i <= j
Run(first, last) == [k \in 1..(last + 1 - first) |-> first + k - 1]
ClosesFirst(t) == Tags(t, "<th") # {} /\ \E j \in Tags(t, "</th") : \A i \in Tags(t, "<th") : j < i

\* extract_reasoning, on the text of an answer that is not streamed.
Extracted(t) ==
    LET open == Earliest(Tags(t, "<th")) close == Earliest(Tags(t, "</th"))
    IN  IF Tags(t, "<th") = {} THEN Run(1, Len(t))
        ELSE IF Tags(t, "</th") = {} THEN Run(1, open - 1)
        ELSE Run(1, open - 1) \o Run(close + 2, Len(t))

\* chat: a closing tag before the opening one makes the slice of thoughts panic.
ChatAnswer(t) ==
    /\ answer = "idle"
    /\ written' = t
    /\ IF ClosesFirst(t) THEN answer' = "panicked" /\ UNCHANGED content
       ELSE answer' = "done" /\ content' = Extracted(t)
    /\ UNCHANGED <<requestVars, geminiVars, held, inThink, thoughts, toolCalls, cutClose>>

-----------------------------------------------------------------------------
(* ThinkStripper.process on the buffer b, which ends at position `upto` of *)
(* the text: what is shown and what is a thought, tag by tag.              *)

Scan(in, inTag, shown, thought) == [in |-> in, inTag |-> inTag, shown |-> shown, thought |-> thought]
ReadPiece(s, b, i, position) ==
    IF s.inTag THEN Scan(s.in, FALSE, s.shown, s.thought)
    ELSE IF TagAt(b, IF s.in THEN "</th" ELSE "<th", i) THEN Scan(~s.in, TRUE, s.shown, s.thought)
    ELSE IF s.in THEN Scan(s.in, FALSE, s.shown, Append(s.thought, position))
    ELSE Scan(s.in, FALSE, Append(s.shown, position), s.thought)
Scanned(b, upto) ==
    LET scanned[i \in 0..Len(b)] ==
          IF i = 0 THEN Scan(inThink, FALSE, <<>>, <<>>)
          ELSE ReadPiece(scanned[i - 1], b, i, upto - Len(b) + i)
    IN  scanned[Len(b)]

(* A slip: half an opening tag at the end of an event is shown at once. *)
HoldsNothing(b, in) == FALSE
\* Half an opening tag is kept for the next event, half a closing one is not.
HoldsBack(b, in) == ~in /\ b # <<>> /\ Last(b) = "<th"

StreamBegin ==
    /\ answer = "idle"
    /\ answer' = "open"
    /\ UNCHANGED <<requestVars, geminiVars, written, held, inThink, content, thoughts, toolCalls, cutClose>>

ContentDelta(pieces) ==
    LET b == held \o pieces
        upto == Len(written) + Len(pieces)
        whole == Scanned(b, upto)
        less == Scanned(Front(b), upto - 1)
        got == IF HoldsBack(b, whole.in) THEN less ELSE whole
    IN  /\ answer = "open"
        /\ written' = written \o pieces
        /\ held' = IF HoldsBack(b, whole.in) THEN <<"<th">> ELSE <<>>
        /\ inThink' = got.in
        /\ content' = content \o got.shown
        /\ thoughts' = thoughts \o got.thought
        /\ cutClose' = (cutClose \/ (inThink /\ written # <<>> /\ Last(written) = "</th" /\ Head(pieces) = "ink>"))
        /\ UNCHANGED <<requestVars, geminiVars, toolCalls, answer>>

\* A fragment of the arguments of the call with this index; calls before it may be hollow.
ToolCallDelta(index) ==
    /\ answer = "open" /\ FoldLeft(+, 0, toolCalls) < MaxFragments
    /\ toolCalls' = [i \in 1..(IF index > Len(toolCalls) THEN index ELSE Len(toolCalls)) |->
                   (IF i <= Len(toolCalls) THEN toolCalls[i] ELSE 0) + (IF i = index THEN 1 ELSE 0)]
    /\ UNCHANGED <<requestVars, geminiVars, written, held, inThink, content, thoughts, cutClose, answer>>

\* [DONE], the end of the body or a failed read: the reply is what there is.
StreamEnd ==
    /\ answer = "open"
    /\ answer' = "done"
    /\ UNCHANGED <<requestVars, geminiVars, written, held, inThink, content, thoughts, toolCalls, cutClose>>

-----------------------------------------------------------------------------
(* The calls of a Gemini answer, whose parts may carry a signature.        *)

CallsIn(ps) == Cardinality({i \in DOMAIN ps : ps[i].call})
AnySigned(ps) == \E i \in DOMAIN ps : ps[i].sig

\* A call has its own signature, or the last one of the turn up to this event.
SignedBy(ps) == [i \in 1..CallsIn(ps) |-> sigSeen \/ AnySigned(ps)]
GeminiEvent(ps) ==
    /\ parts' = parts \o ps
    /\ sigSeen' = (sigSeen \/ AnySigned(ps))
    /\ signed' = signed \o SignedBy(ps)
    /\ UNCHANGED <<requestVars, answerVars>>

\* parse_response looks for a signature in the whole answer first.
SignedAtOnce(ps) == [i \in 1..CallsIn(ps) |-> AnySigned(ps)]

-----------------------------------------------------------------------------
Pieces == {"text", "<th", "</th", "ink>"}
\* What a service writes next, if no more than `room` pieces or parts of it.
TextEvents(room) == UNION {[1..n -> Pieces] : n \in 1..room}
GeminiEvents(room) == UNION {[1..n -> [call : BOOLEAN, sig : BOOLEAN]] : n \in 1..room}

RequestNext ==
    \/ \E k \in Kinds : AddMessage(k)
    \/ OpenAiRequest \/ OllamaRequest \/ GeminiRequest \/ AnthropicRequest
AnswerNext ==
    \/ \E t \in TextEvents(MaxPieces) : ChatAnswer(t)
    \/ StreamBegin \/ StreamEnd
    \/ \E e \in TextEvents(MaxPieces - Len(written)) : ContentDelta(e)
    \/ \E i \in 1..2 : ToolCallDelta(i)
GeminiNext == \E ps \in GeminiEvents(MaxPieces - Len(parts)) : GeminiEvent(ps)
ModelNext == \/ \E listed \in SUBSET Models : CreateKiloCode(listed)
             \/ \E m \in Models, ok \in BOOLEAN : AskModel(m, ok)

\* A behaviour follows requests, a stream, a Gemini answer, or a chain of models.
WireNext ==
    LET requested == history # <<>>
        listed == chain # <<>> \/ listing # {}
        heard == answer # "idle"
        gemini == parts # <<>>
    IN  \/ ~listed /\ ~heard /\ ~gemini /\ RequestNext
        \/ ~listed /\ ~requested /\ ~gemini /\ AnswerNext
        \/ ~listed /\ ~requested /\ ~heard /\ GeminiNext
        \/ ~requested /\ ~heard /\ ~gemini /\ ModelNext

WireSpec == WireInit /\ [][WireNext]_wireVars

-----------------------------------------------------------------------------
(* A request keeps the order of the conversation and as much of it as it   *)
(* may.  Gemini gets every message but the system prompt, in contents      *)
(* whose roles alternate.  An OpenAI-compatible service gets a request     *)
(* that fits, with the system prompt and the newest message, and a result  *)
(* without its call only where the call would not fit.  And a request is   *)
(* not put to the same model twice.                                        *)
GeminiKeepsOrder ==
    wire.by = "gemini" =>
        /\ \A k \in 2..Len(wire.body) : wire.body[k].role # wire.body[k - 1].role
        /\ FlattenSeq([k \in DOMAIN wire.body |-> wire.body[k].parts]) = Spoken
Sent == {wire.body[k].parts[1] : k \in DOMAIN wire.body}
Fits(i) == Estimate(SystemPart \cup (i..Len(history))) <= MaxPayload
OpenAiFits ==
    wire.by = "openai" =>
        /\ Estimate(Sent) <= MaxPayload
        /\ SystemPart \cup {Len(history)} \subseteq Sent
        /\ \A i \in Sent, j \in DOMAIN history :
             history[i].answers \in history[j].calls /\ Fits(j) => j \in Sent
AskedOnce == IsInjective([i \in DOMAIN chain |-> chain[i].model])

(* The reply of a stream, however the service cuts it into events, is what *)
(* the reply would be had it come at once - unless there are several       *)
(* blocks of thoughts, of which an answer at once strips only the first; a *)
(* closing tag came in two events, which the stream misses; the text ends  *)
(* on half an opening tag, which the stream keeps; or, of Gemini, a call   *)
(* came in an event before the first signature.                            *)
OneBlock(t) == Cardinality(Tags(t, "<th")) <= 1 /\ ~ClosesFirst(t)
FirstSigned == Earliest({i \in DOMAIN parts : parts[i].sig})
StreamAgrees ==
    answer = "done" /\ OneBlock(written) /\ ~cutClose /\ held = <<>> => content = Extracted(written)
SignedAgrees ==
    \A i \in DOMAIN signed : ~signed[i] /\ SignedAtOnce(parts)[i] =>
        i <= CallsIn(SubSeq(parts, 1, FirstSigned - 1))

(* What a provider sends and shows is the conversation (providers).        *)
WireIsFaithful == GeminiKeepsOrder /\ OpenAiFits /\ AskedOnce /\ StreamAgrees /\ SignedAgrees
=============================================================================

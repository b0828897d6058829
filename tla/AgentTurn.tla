------------------------------ MODULE AgentTurn ------------------------------
(***************************************************************************)
(* The turns of one agent, src/agent/mod.rs: turn and turn_stream.  A turn *)
(* appends the request, shortens the history where it must, then asks the  *)
(* model and runs the tools it calls until it answers, gives up or has     *)
(* used its iterations.  The session's lock keeps turns apart, so the      *)
(* hazard is a long sequence of legal steps: what the provider is sent     *)
(* must pair every tool result with its call after any of them.            *)
(*                                                                         *)
(* Replies of the model, sizes and the choice of the provider are inputs.  *)
(***************************************************************************)
EXTENDS Compaction

CONSTANTS
  Replies,     \* the sequences of tools (name and arguments) a reply may call
  MaxTurns,    \* bound: turns in a run
  MaxHistory,  \* max_history_messages
  MaxIterations, \* max_tool_iterations
  MaxRetries,  \* MAX_SAME_TOOL_RETRIES
  Fragile,     \* the tools whose tasks may die
  KeepRecent,  \* keep_recent of the legacy compaction
  WindowOver,  \* select_context_window slices longer histories,
  WindowKeep   \* to so many messages

ASSUME IterationsAssumption == MaxIterations \in Nat /\ MaxRetries \in Nat
ASSUME TurnsAssumption == MaxTurns \in Nat
ASSUME RepliesAssumption == \A reply \in Replies : reply \in Seq(ToSet(reply))
ASSUME HistoryAssumption == MaxHistory \in Nat /\ KeepRecent \in Nat
ASSUME WindowAssumption == WindowKeep \in Nat /\ WindowOver \in Nat /\ WindowKeep <= WindowOver

VARIABLES
  history,
  pc,          \* idle, preflight, ask, settle, or the process has aborted
  passes,      \* preflight compressions of this turn
  iterations,
  nudges,      \* follow_through_nudge_count and empty_response_nudge_count
  tried,       \* tool_call_counts
  spoke,       \* accumulated_text is not empty
  native,      \* the provider takes results as tool messages
  streak,      \* ineffective_compression_count, up to the 2 it is compared with
  turns        \* history variable: turns begun

turnVars == <<passes, iterations, nudges, tried, spoke, native>>
vars == <<history, pc, turnVars, streak, turns>>

Tools == UNION { ToSet(r) : r \in Replies }

Init ==
  /\ history = <<>>
  /\ pc = "idle"
  /\ passes = 0
  /\ iterations = 0
  /\ nudges = [follow |-> 0, empty |-> 0]
  /\ tried = [t \in Tools |-> 0]
  /\ spoke = FALSE
  /\ native = TRUE
  /\ streak = 0
  /\ turns = 0

-----------------------------------------------------------------------------
(* The start of a turn.                                                    *)

Prompted(h) == IF HasSystem(h) THEN h ELSE <<Plain("system", "prompt")>> \o h

Asked == Trim(Append(Prompted(history), Plain("user", "request")), MaxHistory)

Begin(provider) ==
  /\ pc = "idle" /\ turns < MaxTurns
  /\ turns' = turns + 1
  /\ passes' = 0
  /\ iterations' = 0
  /\ nudges' = [follow |-> 0, empty |-> 0]
  /\ tried' = [t \in Tools |-> 0]
  /\ spoke' = FALSE
  /\ native' = provider
  /\ UNCHANGED streak

(* turn: preflight compression if the history is long and over the token   *)
(* threshold, which is an input.                                           *)
Turn(provider, over) ==
  /\ Begin(provider)
  /\ history' = Asked
  /\ pc' = IF over /\ ~TooShort(Asked) /\ streak < 2 THEN "preflight" ELSE "ask"

(* turn_stream: the legacy compaction, if its triggers and cooldown allow. *)
TurnStream(provider, compact) ==
  /\ Begin(provider)
  /\ history' = IF compact THEN LegacyCompacted(Asked, KeepRecent) ELSE Asked
  /\ pc' = "ask"

(* One call of compress, up to the choice of what comes after it.          *)
Compress(walk, effective) ==
  IF Overruns(history, walk) THEN UNCHANGED <<history, streak>>
  ELSE /\ history' = Compressed(history, walk)
       /\ streak' = IF TooShort(history) THEN streak
                    ELSE IF effective THEN 0 ELSE Min({streak + 1, 2})

WalksNow == IF TooShort(history) THEN {0} ELSE Walks(history)

(* Up to three passes, while they shorten the history and it is still over *)
(* the threshold.                                                          *)
Preflight(walk, effective, under) ==
  /\ pc = "preflight"
  /\ Compress(walk, effective)
  /\ pc' = IF Overruns(history, walk) THEN "aborted"
           ELSE IF Len(history') >= Len(history) \/ under \/ passes = 2 THEN "ask"
           ELSE "preflight"
  /\ passes' = passes + 1
  /\ UNCHANGED <<iterations, nudges, tried, spoke, native, turns>>

-----------------------------------------------------------------------------
(* The loop.                                                               *)

(* The turn returns without a message of the model: the iterations are     *)
(* used up, the provider failed three times, or the response is cached.    *)
GiveUp ==
  /\ pc = "ask"
  /\ pc' = "idle"
  /\ UNCHANGED <<history, turnVars, streak, turns>>

(* The model answers in text: something worth showing, a promise to act,   *)
(* or nothing of value.  Promises and empty answers are nudged, twice and  *)
(* once; a promise not if it repeats the assistant message before it.      *)
Repeatable == Len(history) >= 2 /\ history[Len(history) - 1].role = "assistant"

NudgesPromise(text, repeated) ==
  /\ text = "promise" /\ ~repeated
  /\ nudges.follow < 2
  /\ iterations < MaxIterations - 1

(* As it would be without the cap of one.                                  *)
NudgesEmptyAgain(text) == text = "empty" /\ ~spoke

NudgesEmpty(text) == text = "empty" /\ ~spoke /\ nudges.empty < 1

Answer(text, repeated) ==
  LET said == Append(history, Plain("assistant", "answer"))
      kind == IF NudgesPromise(text, repeated) THEN "follow" ELSE "empty"
  IN
  /\ pc = "ask" /\ iterations < MaxIterations
  /\ repeated => Repeatable
  /\ spoke' = (spoke \/ text # "empty")
  /\ IF NudgesPromise(text, repeated) \/ NudgesEmpty(text)
     THEN /\ history' = Append(said, Plain("user", "nudge"))
          /\ nudges' = [nudges EXCEPT ![kind] = @ + 1]
          /\ iterations' = iterations + 1
          /\ pc' = "ask"
     ELSE /\ history' = said
          /\ pc' = "idle"
          /\ UNCHANGED <<nudges, iterations>>
  /\ UNCHANGED <<passes, tried, native, streak, turns>>

(* The calls of a reply: in the message's tool_calls, with ids or, from    *)
(* some providers, empty ones; or written in its text, as XML without ids  *)
(* or as JSON with them.                                                   *)
Styles == {"native", "blank", "xml", "json"}

NewestId == Max(Called(history) \cup Answered(history) \cup {Blank})

CallsOf(reply, style) ==
  LET newest == NewestId
      Id(k) == CASE style = "blank" -> Blank
                 [] style = "xml" -> NoId
                 [] OTHER -> newest + k
  IN  [k \in DOMAIN reply |-> [tool |-> reply[k], id |-> Id(k)]]

(* Tool call deduplication: only the first call of each tool is run.       *)
Deduped(calls) ==
  Picked(calls, { k \in DOMAIN calls : \A j \in 1 .. k - 1 : calls[j].tool # calls[k].tool })

(* Results in the order of the calls; calls whose task died get one at the *)
(* end, unless a result has their id or they have none.                    *)
ResultsOf(run, died) ==
  LET alive == { k \in DOMAIN run : run[k].tool \notin died }
      lost == { k \in DOMAIN run \ alive : /\ run[k].id # NoId
                                          /\ \A l \in alive : run[l].id # run[k].id }
      all == Picked(run, alive) \o Picked(run, lost)
  IN  [k \in DOMAIN all |-> Result("result", all[k].id)]

(* The model calls tools.  A call made too often stops the whole reply     *)
(* with a message to the model; otherwise the tools run and their results  *)
(* are appended, as tool messages or in one user message.                  *)
Call(reply, style, talks, died) ==
  LET calls == CallsOf(reply, style)
      run == Deduped(calls)
      said == IF style \in {"native", "blank"}
              THEN [Plain("assistant", "calls") EXCEPT !.calls = calls]
              ELSE Plain("assistant", style)
  IN
  /\ pc = "ask" /\ iterations < MaxIterations
  /\ tried' = [t \in Tools |-> IF t \in ToSet(reply) THEN Min({tried[t] + 1, MaxRetries + 1})
                                                     ELSE tried[t]]
  /\ spoke' = (spoke \/ talks)
  /\ IF \E t \in ToSet(reply) : tried'[t] > MaxRetries
     THEN /\ history' = history \o <<said, Plain("user", "blocked")>>
          /\ iterations' = iterations + 1
          /\ pc' = "ask"
     ELSE /\ history' = Append(history, said) \o
               (IF native THEN ResultsOf(run, died) ELSE <<Plain("user", "results")>>)
          /\ pc' = "settle"
          /\ UNCHANGED iterations
  /\ UNCHANGED <<passes, nudges, native, streak, turns>>

(* As it would be if a compression did not count as an iteration.          *)
SettleAfresh(over, walk, effective) ==
  /\ pc = "settle"
  /\ IF over /\ streak < 2
     THEN /\ Compress(walk, effective)
          /\ pc' = (IF Overruns(history, walk) THEN "aborted" ELSE "ask")
          /\ UNCHANGED iterations
     ELSE /\ pc' = "ask"
          /\ iterations' = iterations + 1
          /\ UNCHANGED <<history, streak>>
  /\ UNCHANGED <<passes, nudges, tried, spoke, native, turns>>

(* Compression after the tools, if the last prompt was over the threshold. *)
Settle(over, walk, effective) ==
  /\ pc = "settle"
  /\ IF over /\ streak < 2
     THEN /\ Compress(walk, effective)
          /\ pc' = IF Overruns(history, walk) THEN "aborted" ELSE "ask"
     ELSE /\ UNCHANGED <<history, streak>>
          /\ pc' = "ask"
  /\ iterations' = iterations + 1
  /\ UNCHANGED <<passes, nudges, tried, spoke, native, turns>>

(* /new and /reset: reset_history, which leaves the compressor as it is.   *)
Reset ==
  /\ pc = "idle" /\ history # <<>>
  /\ history' = <<>>
  /\ UNCHANGED <<pc, turnVars, streak, turns>>

-----------------------------------------------------------------------------

InTurn ==
  \/ \E walk \in WalksNow, effective, under \in BOOLEAN : Preflight(walk, effective, under)
  \/ GiveUp
  \/ \E text \in {"final", "promise", "empty"}, repeated \in BOOLEAN : Answer(text, repeated)
  \/ \E reply \in Replies, style \in Styles, talks \in BOOLEAN :
       \E died \in SUBSET (ToSet(reply) \cap Fragile) : Call(reply, style, talks, died)
  \/ \E walk \in WalksNow, over, effective \in BOOLEAN : Settle(over, walk, effective)

Next ==
  \/ \E provider, over \in BOOLEAN : Turn(provider, over)
  \/ \E provider, compact \in BOOLEAN : TurnStream(provider, compact)
  \/ Reset
  \/ InTurn

Spec == Init /\ [][Next]_vars

-----------------------------------------------------------------------------
(* Types of the agent's state and of the messages in its history.          *)
MessageOK(m) ==
  /\ m.role \in {"system", "user", "assistant", "tool"}
  /\ m.calls # <<>> => m.role = "assistant"
  /\ m.id # NoId => m.role = "tool"

TypeOK ==
  /\ \A i \in DOMAIN history : MessageOK(history[i])
  /\ HasSystem(history) \/ history = <<>>
  /\ pc \in {"idle", "preflight", "ask", "settle", "aborted"}
  /\ passes \in 0 .. 3
  /\ iterations \in 0 .. MaxIterations
  /\ nudges \in [follow : 0 .. 2, empty : 0 .. 1]
  /\ tried \in [Tools -> 0 .. MaxRetries + 1]
  /\ spoke \in BOOLEAN /\ native \in BOOLEAN
  /\ streak \in 0 .. 2
  /\ turns \in 0 .. MaxTurns

(* select_context_window: a trivial follow-up is sent with the last        *)
(* messages only.                                                          *)
Window(h) ==
  IF Len(h) <= WindowOver THEN h
  ELSE Sanitize((IF HasSystem(h) THEN <<h[1]>> ELSE <<>>)
                  \o SubSeq(h, Len(h) - WindowKeep + 1, Len(h)))

(* What the next request may send: the history, or its window if it is the *)
(* first of the turn.                                                      *)
Sendable == {history} \cup (IF iterations = 0 THEN {Window(history)} ELSE {})

(* Every tool result that names a call stands behind the assistant message *)
(* that made the call, with nothing but other results between them, in     *)
(* whatever is sent to the provider after any sequence of cuts, repairs    *)
(* and failed tools.                                                       *)
FollowsItsCall(h, i) ==
  LET j == SelectLastInSubSeq(h, 1, i, LAMBDA m : ~IsTool(m))
  IN  h[j].kind = "json" \/ h[i].id \in { c.id : c \in ToSet(h[j].calls) }

ResultsFollowCalls ==
  pc = "ask" => \A h \in Sendable : \A i \in DOMAIN h :
                  IsTool(h[i]) /\ h[i].id # NoId => FollowsItsCall(h, i)

(* A compression keeps the last message of the user's side and the         *)
(* conversation that follows it, unless the protected head reaches up to   *)
(* that message.                                                           *)
IsAsk(m) == IsUser(m) /\ m.kind # "summary"
LastAsk(h) == SelectLastInSeq(h, IsAsk)
SinceAsk(h) == Picked(h, { i \in DOMAIN h : i >= LastAsk(h) /\ ~IsTool(h[i]) })

LatestUserKept ==
  [][(pc \in {"preflight", "settle"} /\ LastAsk(history) > HeadEnd(history) + 1)
       => SinceAsk(history') = SinceAsk(history)]_vars

(* The one kind of history for which compress slices out of bounds, and    *)
(* with panic = "abort" ends the daemon: nothing but tool results behind   *)
(* the head, as after a first reply with five calls or more.               *)
AbortsOnlyOnResults ==
  pc = "aborted" => \A i \in ProtectFirst + 1 .. Len(history) : IsTool(history[i])

(* Every step of a turn uses up a budget that only a new turn restores,    *)
(* so that nudges, blocked calls, preflight passes and failing tools       *)
(* cannot keep a turn going for ever.                                      *)
Budget == 2 * (MaxIterations - iterations)
            + CASE pc = "preflight" -> 4 - passes
                [] pc = "ask" -> 1
                [] OTHER -> 0

TurnAdvances ==
  [][pc \notin {"idle", "aborted"} =>
       \/ pc' \in {"idle", "aborted"}
       \/ Budget' >= 0 /\ Budget' < Budget]_vars

-----------------------------------------------------------------------------
(* What the source says and the code does not keep: the summary tells the  *)
(* model to "Respond ONLY to the latest user message that appears AFTER    *)
(* this summary", so when the model is asked there is such a message.      *)
RequestAfterSummary ==
  pc = "ask" => \A i \in DOMAIN history : history[i].kind = "summary" =>
                  \E j \in i + 1 .. Len(history) : IsUser(history[j])

=============================================================================

---------------------------- MODULE StreamedTurn ----------------------------
(***************************************************************************)
(* What a streamed turn returns (Agent::turn_stream): the cache of answers *)
(* and the cache of tool results, the retries, the nudges, the breaker of  *)
(* repeated calls and the text put together over the rounds.  AgentTurn    *)
(* has what the rounds do to the history; here the history is what a turn  *)
(* looks back at, and the key of the answers (response_cache.rs).          *)
(***************************************************************************)
EXTENDS Wording, Sequences

CONSTANTS
  Questions,    \* messages of the user
  Sayings,      \* texts of the model
  NoContent,    \* an answer whose content is missing
  ToolNames,    \* tools of the agent, each called with one set of arguments
  NativeModels, \* models whose provider has supports_native_tools
  MaxRetries,   \* MAX_SAME_TOOL_RETRIES
  MaxRounds,    \* max_tool_iterations
  NudgeEvery,   \* memory_nudge_interval and skill_nudge_interval
  MaxPast,      \* bound of the model: messages before a turn
  MaxMinutes    \* bound of the model: minutes

\* The texts of the agent itself are told apart from the model's.
ASSUME TurnAssumption ==
    /\ IsFiniteSet(ToolNames) /\ MaxRounds \in Nat /\ MaxRetries \in Nat
    /\ {"error", "limit", "completed"} \cap Sayings = {}

VARIABLES
  past,         \* the history: [role, text]; its system prompt has the minute
  talk,         \* the turn: see Quiet
  answers,      \* response_cache: history and model, and the text
  fresh,        \* tool_cache: calls whose result is younger than its ttl
  sinceMemory,  \* turns_since_memory
  sinceSkill,   \* iters_since_skill
  cooled,       \* the last review is over 300 s ago
  minute

talkVars == <<past, talk, answers, fresh, sinceMemory, sinceSkill, cooled, minute>>

Cacheable == {"file_read"}
Quiet == [at |-> "idle", since |-> 0, model |-> "default", round |-> 0, acc |-> <<>>, follow |-> 0,
          empty |-> 0, tries |-> [c \in ToolNames |-> 0], ran |-> [c \in ToolNames |-> 0],
          reply |-> <<>>, hit |-> FALSE]

TalkInit ==
    /\ past = <<>> /\ talk = Quiet /\ answers = {} /\ fresh = {}
    /\ sinceMemory = 0 /\ sinceSkill = 0 /\ cooled = TRUE /\ minute = 0

Said(role, text) == [role |-> role, text |-> text]
Low(t) == t = NoContent \/ IsLowValue(t)
Return(reply) == talk' = [talk EXCEPT !.at = "done", !.reply = reply]

-----------------------------------------------------------------------------
\* The slash command /reset: answered without a turn.
SlashReset ==
    /\ talk.at # "round"
    /\ past' = <<>>
    /\ talk' = Quiet
    /\ UNCHANGED <<answers, fresh, sinceMemory, sinceSkill, cooled, minute>>

\* The message is routed and put behind the prompt, whose time is made fresh.
TurnBegin(q) ==
    /\ talk.at # "round" /\ Len(past) < MaxPast
    /\ past' = <<Said("system", minute)>> \o (IF past = <<>> THEN past ELSE Tail(past))
                 \o <<Said("user", q)>>
    /\ talk' = [Quiet EXCEPT !.at = "round", !.model = RouteModel(q), !.since = Len(past')]
    /\ sinceMemory' = Min({sinceMemory + 1, NudgeEvery})
    /\ UNCHANGED <<answers, fresh, sinceSkill, cooled, minute>>

\* compute_key: the messages and the model.
CacheKey == [of |-> past, model |-> talk.model]
CachedFor(key) == {a \in answers : a.key = key}

\* An answer to the same messages returns at once, and is not put in the history.
CacheHit ==
    /\ talk.at = "round" /\ talk.round = 0 /\ MaxRounds > 0
    /\ \E a \in CachedFor(CacheKey) :
         talk' = [talk EXCEPT !.at = "done", !.reply = <<a.text>>, !.hit = TRUE]
    /\ UNCHANGED <<past, answers, fresh, sinceMemory, sinceSkill, cooled, minute>>

Asking == /\ talk.at = "round" /\ talk.round < MaxRounds
          /\ talk.round > 0 \/ CachedFor(CacheKey) = {}

\* Three attempts failed: what was said so far and the error.
AskFails ==
    /\ Asking
    /\ Return(Append(talk.acc, "error"))
    /\ UNCHANGED <<past, answers, fresh, sinceMemory, sinceSkill, cooled, minute>>

\* iterations_exhausted_summary, which has a text for its own failure.
RoundsExhausted ==
    /\ talk.at = "round" /\ talk.round >= MaxRounds
    /\ Return(Append(talk.acc, "limit"))
    /\ UNCHANGED <<past, answers, fresh, sinceMemory, sinceSkill, cooled, minute>>

-----------------------------------------------------------------------------
\* spawn_background_review_if_needed
ReviewDue ==
    IF ~cooled THEN UNCHANGED <<sinceMemory, sinceSkill, cooled>>
    ELSE /\ sinceMemory' = IF sinceMemory >= NudgeEvery THEN 0 ELSE sinceMemory
         /\ sinceSkill' = IF sinceSkill >= NudgeEvery THEN 0 ELSE sinceSkill
         /\ cooled' = (sinceMemory < NudgeEvery /\ sinceSkill < NudgeEvery)

\* Text of any kind is kept for the reply, unless it says nothing.
Accumulated(t) == IF Low(t) THEN talk.acc ELSE Append(talk.acc, t)

\* A promise is followed up twice at most, unless it only repeats itself.
NudgesFollow(t, h) ==
    /\ talk.follow < 2 /\ talk.round < Minus(MaxRounds, 1)
    /\ Promises(t, ToolNames)
    /\ ~(Len(h) >= 3 /\ h[Len(h) - 2] = Said("assistant", t))
(* A slip: only the first answer of a turn is asked for again. *)
NudgesEmptyFirst(acc, t) == acc = <<>> /\ Low(t) /\ talk.empty < 1 /\ talk.round = 0
\* Nothing said in the whole turn is asked for again, once.
NudgesEmpty(acc, t) == acc = <<>> /\ Low(t) /\ talk.empty < 1

NextRound(h, acc, follow, empty) ==
    /\ past' = h
    /\ talk' = [talk EXCEPT !.round = @ + 1, !.acc = acc, !.follow = @ + follow, !.empty = @ + empty]
    /\ UNCHANGED <<sinceMemory, sinceSkill, cooled>>

\* The text of a finished turn.
FinalText(acc, t, h) ==
    IF acc # <<>> THEN acc
    ELSE IF Low(t) /\ \E i \in DOMAIN h : h[i].role = "tool" THEN <<"completed">> ELSE <<t>>

(* An answer without calls.  It is cached before it is known whether it is *)
(* the last one, under the history it answers (which nothing looks up when *)
(* it ends with a nudge or a result: those are left out); `broken` has     *)
(* tool markup that no call can be read from.                              *)
Speak(t, broken) ==
    LET h   == Append(past, Said("assistant", t))
        acc == Accumulated(t)
    IN  /\ Asking
        /\ answers' = IF broken \/ t = NoContent \/ talk.round > 0 THEN answers
                      ELSE (answers \ CachedFor(CacheKey)) \cup {[key |-> CacheKey, text |-> t]}
        /\ UNCHANGED <<fresh, minute>>
        /\ \/ /\ NudgesFollow(t, h)
              /\ NextRound(Append(h, Said("user", "act")), acc, 1, 0)
           \/ /\ ~NudgesFollow(t, h) /\ NudgesEmpty(acc, t)
              /\ NextRound(Append(h, Said("user", "say")), acc, 0, 1)
           \/ /\ ~NudgesFollow(t, h) /\ ~NudgesEmpty(acc, t)
              /\ past' = h
              /\ Return(FinalText(acc, t, h))
              /\ ReviewDue

-----------------------------------------------------------------------------
(* A slip: calls are counted within a round only. *)
CountedAfresh(calls) == [c \in ToolNames |-> IF c \in calls THEN 1 ELSE 0]
\* The breaker counts over the rounds of the turn.
Counted(calls) == [c \in ToolNames |-> talk.tries[c] + IF c \in calls THEN 1 ELSE 0]

\* Calls from the cache are not run; what failed with an error is not cached.
RunsOf(calls) == {c \in calls : c \notin Cacheable \cap fresh}
ResultMessages(calls) ==
    IF talk.model \in NativeModels THEN [i \in 1..Cardinality(calls) |-> Said("tool", "result")]
    ELSE <<Said("user", "results")>>

\* An answer with calls, the same ones only once: they run, unless one of them is blocked.
CallTools(t, calls, failed) ==
    LET h     == Append(past, Said("assistant", t))
        tries == Counted(calls)
        acc   == Accumulated(t)
        blocked == {c \in calls : tries[c] > MaxRetries}
    IN  /\ Asking
        /\ UNCHANGED <<answers, cooled, minute>>
        /\ \/ /\ blocked # {} /\ failed = {}
              /\ past' = Append(h, Said("user", "blocked"))
              /\ talk' = [talk EXCEPT !.round = @ + 1, !.acc = acc, !.tries = tries]
              /\ UNCHANGED <<fresh, sinceMemory, sinceSkill>>
           \/ /\ blocked = {} /\ failed \subseteq RunsOf(calls)
              /\ past' = h \o ResultMessages(calls)
              /\ talk' = [talk EXCEPT !.round = @ + 1, !.acc = acc, !.tries = tries,
                            !.ran = [c \in ToolNames |-> @[c] + IF c \in RunsOf(calls) THEN 1 ELSE 0]]
              /\ fresh' = fresh \cup ((calls \cap Cacheable) \ failed)
              /\ sinceMemory' = IF "memory_store" \in calls THEN 0 ELSE sinceMemory
              /\ sinceSkill' = IF "skill_manage" \in calls THEN 0 ELSE Min({sinceSkill + 1, NudgeEvery})

\* Results of file_read live for a minute; the time in the prompt makes answers
\* of an earlier minute those of other histories.
MinutePasses ==
    /\ minute < MaxMinutes /\ talk.at # "round"
    /\ minute' = minute + 1 /\ answers' = {} /\ fresh' = {} /\ cooled' = TRUE
    /\ UNCHANGED <<past, talk, sinceMemory, sinceSkill>>

TalkNext ==
    \/ SlashReset \/ CacheHit \/ AskFails \/ RoundsExhausted \/ MinutePasses
    \/ \E q \in Questions : TurnBegin(q)
    \/ talk.at = "round" /\ \E t \in Sayings :
         \/ \E broken \in BOOLEAN : Speak(t, broken)
         \/ \E calls \in SUBSET ToolNames \ {{}}, failed \in SUBSET ToolNames : CallTools(t, calls, failed)

TalkSpec == TalkInit /\ [][TalkNext]_talkVars
-----------------------------------------------------------------------------
InTurn == {past[i] : i \in talk.since + 1 .. Len(past)}

\* Whatever the model said in a turn that was not empty is in its reply, also
\* when a provider or the limit of rounds ends it; and a reply says nothing
\* only after the model was asked for an answer, unless it came from the cache.
RepliesInFull ==
    talk.at = "done" /\ ~talk.hit =>
      /\ \A m \in InTurn : m.role = "assistant" /\ ~Low(m.text) => m.text \in ToSet(talk.reply)
      /\ (\A t \in ToSet(talk.reply) : t \in Sayings /\ Low(t)) => Said("user", "say") \in InTurn

\* A turn runs a tool with the same arguments MaxRetries times at most,
\* whatever other calls, blocked rounds and nudges come in between.
SameCallBounded == \A c \in ToolNames : talk.ran[c] <= MaxRetries

\* What a streamed turn owes its caller (turn_stream).
TurnAnswers == RepliesInFull /\ SameCallBounded
=============================================================================

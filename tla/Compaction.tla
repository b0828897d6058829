----------------------------- MODULE Compaction -----------------------------
(***************************************************************************)
(* What src/agent/compaction.rs does to a conversation history: the repair *)
(* of tool calls without results, the trimming of its start, and the two   *)
(* compactions that put a summary in place of a middle part.               *)
(*                                                                         *)
(* A message keeps what these functions look at: its role, the tool calls  *)
(* it makes and the call it answers.  Contents and their sizes are left    *)
(* out; where a token budget ends is an input.  A cut is the number of     *)
(* messages before it, the index of the source.                            *)
(***************************************************************************)
EXTENDS Integers, SequencesExt, Selection

CONSTANT ProtectFirst  \* CompactionConfig.protect_first_n

ASSUME ProtectFirstAssumption == ProtectFirst \in Nat \ {0}

(* A tool call has an id of its own, or the empty one when the provider    *)
(* sent none.  A message that answers no call has no id at all.            *)
Blank == 0
NoId == -1

Plain(role, kind) == [role |-> role, kind |-> kind, calls |-> <<>>, id |-> NoId]
Result(kind, id) == [Plain("tool", kind) EXCEPT !.id = id]

IsTool(m) == m.role = "tool"
IsUser(m) == m.role = "user"
HasSystem(h) == h # <<>> /\ h[1].role = "system"

CallIds(m) == { m.calls[k].id : k \in DOMAIN m.calls } \ {Blank}
Called(h) == UNION { CallIds(h[i]) : i \in DOMAIN h }
Answered(h) == { h[i].id : i \in { j \in DOMAIN h : IsTool(h[j]) } } \ {NoId}

(* The calls of a message that have one of these ids, answered by a stub   *)
(* each.                                                                   *)
StubsFor(m, missing) ==
  LET open == Picked(m.calls, { k \in DOMAIN m.calls : m.calls[k].id \in missing })
  IN  [k \in DOMAIN open |-> Result("stub", open[k].id)]

(* The messages that answer none of these ids.                             *)
Without(h, orphaned) ==
  Picked(h, { i \in DOMAIN h : ~(IsTool(h[i]) /\ h[i].id \in orphaned) })

(* As it would be without the first half of the repair.                    *)
SanitizeStubsOnly(h) ==
  LET missing == Called(h) \ Answered(h)
  IN  FlattenSeq([i \in DOMAIN h |-> <<h[i]>> \o StubsFor(h[i], missing)])

(* As it would be without the second half.                                 *)
SanitizeOrphansOnly(h) == Without(h, Answered(h) \ Called(h))

(* sanitize_tool_pairs: results of calls that are gone are dropped, and    *)
(* calls without a result get a stub right behind the message that made    *)
(* them.                                                                   *)
Sanitize(h) ==
  LET kept == Without(h, Answered(h) \ Called(h))
      missing == Called(h) \ Answered(h)
  IN  FlattenSeq([i \in DOMAIN kept |-> <<kept[i]>> \o StubsFor(kept[i], missing)])

(* trim_history: the system prompt and the last max messages stay.         *)
Trim(h, max) ==
  LET start == IF HasSystem(h) THEN 1 ELSE 0
      excess == Len(h) - start - max
  IN  IF excess <= 0 THEN h
      ELSE Sanitize(SubSeq(h, 1, start) \o SubSeq(h, start + excess + 1, Len(h)))

(* align_boundary_forward: a cut is moved behind the results it splits.    *)
AlignForward(h, cut) ==
  Min({ c \in cut .. Len(h) : c = Len(h) \/ ~IsTool(h[c + 1]) })

(* align_boundary_backward: a cut is moved before the calls whose results  *)
(* it splits.                                                              *)
AlignBackward(h, cut) ==
  IF cut = 0 \/ cut >= Len(h) THEN cut
  ELSE LET check == Max({ c \in 0 .. cut - 1 : c = 0 \/ ~IsTool(h[c + 1]) })
       IN  IF h[check + 1].calls # <<>> THEN check ELSE cut

(* As it would be if the tail kept its token budget only.                  *)
KeepLastUserNot(h, cut, head) == cut

(* ensure_last_user_message_in_tail                                        *)
KeepLastUser(h, cut, head) ==
  LET last == SelectLastInSubSeq(h, head + 1, Len(h), IsUser)
  IN  IF last # 0 /\ last - 1 < cut THEN Max({last - 1, head + 1}) ELSE cut

HeadEnd(h) == AlignForward(h, ProtectFirst)
MinTail(h) == Max({0, Min({3, Len(h) - (HeadEnd(h) + 1)})})

(* Where the walk back over the tail's token budget can stop.              *)
Walks(h) == HeadEnd(h) .. Min({Len(h), Len(h) - MinTail(h) + 1})

(* As it would be if the least cut were behind the minimum of compress.    *)
TailCutAhead(h, walk) ==
  LET head == HeadEnd(h)
      cut == Min({walk, Len(h) - MinTail(h)})
  IN  Max({KeepLastUser(h, AlignBackward(h, cut), head), head + 4})

(* find_tail_cut_by_tokens, for a budget that ends at walk.                *)
TailCut(h, walk) ==
  LET head == HeadEnd(h)
      fallback == Len(h) - MinTail(h)
      capped == Min({walk, fallback})
      cut == IF capped <= head THEN Max({fallback, head + 1}) ELSE capped
  IN  Max({KeepLastUser(h, AlignBackward(h, cut), head), head + 1})

TooShort(h) == Len(h) <= ProtectFirst + 4

(* The slice messages[compress_start..compress_end] is out of bounds.      *)
Overruns(h, walk) == ~TooShort(h) /\ TailCut(h, walk) > Len(h)

(* The summary takes a role that neither neighbour has, or is merged into  *)
(* the message behind it.                                                  *)
SummaryOf(h, cut) ==
  LET before == h[HeadEnd(h)].role
      after == IF cut < Len(h) THEN h[cut + 1].role ELSE "user"
      first == IF before \in {"assistant", "tool"} THEN "user" ELSE "assistant"
      other == IF first = "user" THEN "assistant" ELSE "user"
  IN  CASE first # after -> <<Plain(first, "summary")>>
        [] first = after /\ other # before -> <<Plain(other, "summary")>>
        [] OTHER -> <<>>

(* ContextCompressor::compress, for a history it does not overrun.         *)
Compressed(h, walk) ==
  IF TooShort(h) THEN Sanitize(h)
  ELSE LET cut == TailCut(h, walk)
       IN  Sanitize(SubSeq(h, 1, HeadEnd(h)) \o SummaryOf(h, cut)
                      \o SubSeq(h, cut + 1, Len(h)))

(* auto_compact_history_legacy once it is triggered: what is older than    *)
(* the last keep messages goes into the system prompt, and the rest starts *)
(* at a user message.                                                      *)
LegacyCompacted(h, keep) ==
  LET start == IF HasSystem(h) THEN 1 ELSE 0
      compact == Max({Len(h) - start - keep, 0})
      ends == { c \in start + compact .. Len(h) - 1 : IsUser(h[c + 1]) }
  IN  IF compact = 0 \/ ends = {} THEN h
      ELSE Sanitize(<<IF HasSystem(h) THEN h[1] ELSE Plain("system", "prompt")>>
                      \o SubSeq(h, Min(ends) + 1, Len(h)))

=============================================================================

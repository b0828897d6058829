--------------------------- MODULE AgentTurnProofs ---------------------------
(***************************************************************************)
(* A turn of the agent ends, for every limit on its iterations: each of    *)
(* its steps uses up a budget.  And whatever cuts, repairs and failed      *)
(* tools it goes through, every result stands behind its call in what the  *)
(* provider is sent: the invariant is that no two messages make calls with *)
(* the same id and that a result stands behind its call as long as the     *)
(* call is there, which every cut keeps and the repair after it completes. *)
(* And a compression keeps what was said since the latest message of the   *)
(* user's side, from an invariant on where such messages stand.            *)
(***************************************************************************)
EXTENDS AgentTurn, SelectionLemmas

Phases == {"idle", "preflight", "ask", "settle", "aborted"}

(* What the budget stands on: the loop is entered and tools are settled    *)
(* only with an iteration left, and a third preflight pass is the last.    *)
LoopInv ==
  /\ pc \in Phases
  /\ iterations \in Nat /\ iterations <= MaxIterations
  /\ passes \in Nat /\ passes <= 3
  /\ pc = "settle" => iterations < MaxIterations
  /\ pc = "preflight" => passes < 3

LEMMA InitLoop == Init => LoopInv
BY IterationsAssumption DEF Init, LoopInv, Phases

LEMMA StepLoop == LoopInv /\ [Next]_vars => LoopInv'
<1> SUFFICES ASSUME LoopInv, [Next]_vars PROVE LoopInv'
  OBVIOUS
<1> USE IterationsAssumption DEF LoopInv, Phases
<1>1. ASSUME NEW provider \in BOOLEAN, NEW over \in BOOLEAN, Turn(provider, over)
      PROVE  LoopInv'
  BY <1>1 DEF Turn, Begin
<1>2. ASSUME NEW provider \in BOOLEAN, NEW compact \in BOOLEAN, TurnStream(provider, compact)
      PROVE  LoopInv'
  BY <1>2 DEF TurnStream, Begin
<1>3. CASE Reset
  BY <1>3 DEF Reset, turnVars
<1>4. ASSUME NEW walk, NEW effective, NEW under, Preflight(walk, effective, under)
      PROVE  LoopInv'
  <2>1. pc' \in {"aborted", "ask", "preflight"} /\ (pc' = "preflight" => passes # 2)
    BY <1>4 DEF Preflight
  <2>2. passes < 3 /\ passes' = passes + 1 /\ iterations' = iterations
    BY <1>4 DEF Preflight
  <2> QED BY <2>1, <2>2
<1>5. CASE GiveUp
  BY <1>5 DEF GiveUp, turnVars
<1>6. ASSUME NEW text, NEW repeated, Answer(text, repeated)
      PROVE  LoopInv'
  BY <1>6 DEF Answer
<1>7. ASSUME NEW reply, NEW style, NEW talks, NEW died, Call(reply, style, talks, died)
      PROVE  LoopInv'
  <2>1. pc = "ask" /\ iterations < MaxIterations /\ passes' = passes
    BY <1>7, Zenon DEF Call
  <2>2. \/ iterations' = iterations + 1 /\ pc' = "ask"
        \/ iterations' = iterations /\ pc' = "settle"
    BY <1>7, Zenon DEF Call
  <2> QED BY <2>1, <2>2
<1>8. ASSUME NEW walk, NEW over, NEW effective, Settle(over, walk, effective)
      PROVE  LoopInv'
  BY <1>8 DEF Settle
<1>9. CASE UNCHANGED vars
  BY <1>9 DEF vars, turnVars
<1> QED BY <1>1, <1>2, <1>3, <1>4, <1>5, <1>6, <1>7, <1>8, <1>9 DEF Next, InTurn

(* Every step of a turn uses up its budget or ends it: the nudges of       *)
(* turn, its blocked calls and its compressions cannot go on for ever.     *)
THEOREM TurnsAdvance == Spec => TurnAdvances
<1>1. ASSUME LoopInv, [Next]_vars, pc \notin {"idle", "aborted"}
      PROVE  pc' \in {"idle", "aborted"} \/ (Budget' >= 0 /\ Budget' < Budget)
             \/ UNCHANGED vars
  <2> USE <1>1, IterationsAssumption DEF LoopInv, Phases, Budget
  <2>1. ASSUME NEW walk, NEW effective, NEW under, Preflight(walk, effective, under)
        PROVE  pc' = "aborted" \/ (Budget' >= 0 /\ Budget' < Budget)
    <3>1. pc' \in {"aborted", "ask", "preflight"} /\ (pc' = "preflight" => passes # 2)
      BY <2>1 DEF Preflight
    <3>2. pc = "preflight" /\ passes' = passes + 1 /\ iterations' = iterations
      BY <2>1 DEF Preflight
    <3> QED BY <3>1, <3>2
  <2>2. CASE GiveUp
    BY <2>2 DEF GiveUp
  <2>3. ASSUME NEW text, NEW repeated, Answer(text, repeated)
        PROVE  pc' = "idle" \/ (Budget' >= 0 /\ Budget' < Budget)
    <3>1. pc = "ask" /\ iterations < MaxIterations
      BY <2>3 DEF Answer
    <3>2. pc' = "idle" \/ (iterations' = iterations + 1 /\ pc' = "ask")
      BY <2>3 DEF Answer
    <3> QED BY <3>1, <3>2
  <2>4. ASSUME NEW reply, NEW style, NEW talks, NEW died, Call(reply, style, talks, died)
        PROVE  Budget' >= 0 /\ Budget' < Budget
    <3>1. pc = "ask" /\ iterations < MaxIterations
      BY <2>4, Zenon DEF Call
    <3>2. \/ iterations' = iterations + 1 /\ pc' = "ask"
          \/ iterations' = iterations /\ pc' = "settle"
      BY <2>4, Zenon DEF Call
    <3> QED BY <3>1, <3>2
  <2>5. ASSUME NEW walk, NEW over, NEW effective, Settle(over, walk, effective)
        PROVE  pc' = "aborted" \/ (Budget' >= 0 /\ Budget' < Budget)
    <3>1. pc = "settle" /\ pc' \in {"aborted", "ask"} /\ iterations' = iterations + 1
      BY <2>5 DEF Settle
    <3> QED BY <3>1
  <2>6. CASE Reset
    BY <2>6 DEF Reset
  <2>7. ASSUME NEW provider \in BOOLEAN, Begin(provider)
        PROVE  FALSE
    BY <2>7 DEF Begin
  <2> QED
    BY <2>1, <2>2, <2>3, <2>4, <2>5, <2>6, <2>7 DEF Next, InTurn, Turn, TurnStream
<1> QED BY <1>1, InitLoop, StepLoop, PTL DEF Spec, TurnAdvances

-----------------------------------------------------------------------------
(* Histories.                                                              *)

Roles == {"system", "user", "assistant", "tool"}
Kinds == {"prompt", "request", "answer", "nudge", "calls", "json", "xml", "blocked",
          "result", "results", "summary", "stub"}
Calling == [tool : Tools, id : Nat]
Messages == [role : Roles, kind : Kinds, calls : Seq(Calling), id : Int]

(* The history is a sequence of messages: only the model calls tools, and  *)
(* only a result answers a call.                                           *)
Wellformed(h) ==
  /\ h \in Seq(Messages)
  /\ \A i \in 1 .. Len(h) : MessageOK(h[i])

Calls(m, id) == \E k \in DOMAIN m.calls : m.calls[k].id = id

(* The results behind message j, with nothing but results between.         *)
Leads(h, j, i) ==
  /\ j \in 1 .. i - 1 /\ ~IsTool(h[j])
  /\ \A k \in j + 1 .. i : IsTool(h[k])

Led(h, i) == \E j \in 1 .. Len(h) : Leads(h, j, i) /\ h[i].id \in CallIds(h[j])

(* A result whose call is in the history stands behind it.                 *)
Loose(h) ==
  \A i \in 1 .. Len(h) : IsTool(h[i]) /\ h[i].id \in Called(h) => Led(h, i)

(* A result that names a call stands behind the message that made it,      *)
(* which may have made it in its text.                                     *)
Paired(h) ==
  \A i \in 1 .. Len(h) : IsTool(h[i]) /\ h[i].id # NoId =>
    \E j \in 1 .. Len(h) : Leads(h, j, i) /\ (h[j].kind = "json" \/ Calls(h[j], h[i].id))

(* No two messages make a call with the same id.                           *)
Distinct(h) ==
  \A i, j \in 1 .. Len(h) : \A id \in CallIds(h[i]) : id \in CallIds(h[j]) => i = j

LEMMA InCallIds ==
  ASSUME NEW m, NEW id
  PROVE  id \in CallIds(m) <=> id # Blank /\ Calls(m, id)
BY Zenon DEF CallIds, Calls

LEMMA InCalled ==
  ASSUME NEW S, NEW h \in Seq(S), NEW id
  PROVE  id \in Called(h) <=> \E i \in 1 .. Len(h) : id \in CallIds(h[i])
<1>1. DOMAIN h = 1 .. Len(h)
  OBVIOUS
<1> QED
  BY <1>1, Zenon DEF Called

LEMMA InAnswered ==
  ASSUME NEW S, NEW h \in Seq(S), NEW id
  PROVE  id \in Answered(h) <=> id # NoId /\ \E i \in 1 .. Len(h) : IsTool(h[i]) /\ h[i].id = id
<1>1. DOMAIN h = 1 .. Len(h)
  OBVIOUS
<1> QED
  BY <1>1, Zenon DEF Answered

LEMMA ToolsCallNothing ==
  ASSUME NEW m \in Messages, MessageOK(m)
  PROVE  /\ IsTool(m) => CallIds(m) = {}
         /\ m.role # "assistant" => CallIds(m) = {}
         /\ \A id \in CallIds(m) : id \in Nat /\ id # Blank
<1>1. m.calls \in Seq(Calling) /\ m.role \in Roles
  BY DEF Messages
<1>2. m.role # "assistant" => CallIds(m) = {}
  BY <1>1, InCallIds DEF MessageOK, Calls
<1>3. ASSUME NEW id \in CallIds(m) PROVE id \in Nat /\ id # Blank
  <2>1. PICK k \in DOMAIN m.calls : m.calls[k].id = id
    BY InCallIds, Zenon DEF Calls
  <2>2. m.calls[k] \in Calling
    BY <1>1
  <2> QED BY <2>1, <2>2, InCallIds DEF Calling
<1> QED BY <1>2, <1>3 DEF IsTool

-----------------------------------------------------------------------------
(* sanitize_tool_pairs.                                                    *)

(* The k-th message of s is the one of h at from[k], or a stub for a call  *)
(* of that message; what is not a result stays.                            *)
Repairs(from, own, s, h) ==
  /\ from \in [1 .. Len(s) -> 1 .. Len(h)] /\ own \in [1 .. Len(s) -> BOOLEAN]
  /\ \A k \in 1 .. Len(s) :
       /\ own[k] => /\ s[k] = h[from[k]]
                    /\ IsTool(s[k]) => s[k].id \notin Answered(h) \ Called(h)
       /\ ~own[k] => /\ IsTool(s[k]) /\ s[k].calls = <<>>
                     /\ s[k].id \in CallIds(h[from[k]])
  /\ \A k, l \in 1 .. Len(s) : k < l => from[k] < from[l] \/ (from[k] = from[l] /\ ~own[l])
  /\ \A i \in 1 .. Len(h) : ~IsTool(h[i]) => \E k \in 1 .. Len(s) : from[k] = i /\ own[k]

LEMMA NoCalls == <<>> \in Seq(Calling)
OBVIOUS

LEMMA PlainIs ==
  ASSUME NEW role \in Roles, NEW kind \in Kinds
  PROVE  /\ Plain(role, kind) = [role |-> role, kind |-> kind, calls |-> <<>>, id |-> NoId]
         /\ Plain(role, kind) \in Messages /\ MessageOK(Plain(role, kind))
<1> DEFINE none == <<>>
<1>1. none \in Seq(Calling) /\ NoId \in Int /\ none = <<>>
  BY NoCalls DEF NoId
<1>2. Plain(role, kind) = [role |-> role, kind |-> kind, calls |-> none, id |-> NoId]
  BY DEF Plain
<1> HIDE DEF none
<1>3. Plain(role, kind) \in Messages
  BY <1>1, <1>2 DEF Messages
<1>4. MessageOK(Plain(role, kind))
  BY <1>1, <1>2 DEF MessageOK, Roles
<1> QED BY <1>1, <1>2, <1>3, <1>4, Zenon

LEMMA ResultIs ==
  ASSUME NEW kind \in Kinds, NEW id \in Int
  PROVE  /\ Result(kind, id) = [role |-> "tool", kind |-> kind, calls |-> <<>>, id |-> id]
         /\ Result(kind, id) \in Messages /\ MessageOK(Result(kind, id))
         /\ IsTool(Result(kind, id)) /\ Result(kind, id).calls = <<>> /\ Result(kind, id).id = id
<1> DEFINE none == <<>>
<1>1. none \in Seq(Calling) /\ none = <<>> /\ "tool" \in Roles
  BY NoCalls DEF Roles
<1>2. Result(kind, id) = [role |-> "tool", kind |-> kind, calls |-> none, id |-> id]
  BY DEF Result, Plain
<1> HIDE DEF none
<1>3. Result(kind, id) \in Messages
  BY <1>1, <1>2 DEF Messages
<1>4. MessageOK(Result(kind, id)) /\ IsTool(Result(kind, id)) /\ Result(kind, id).calls = none
      /\ Result(kind, id).id = id
  BY <1>1, <1>2 DEF MessageOK, Roles, IsTool
<1> QED BY <1>1, <1>2, <1>3, <1>4, Zenon

LEMMA CallsAre ==
  ASSUME NEW kind \in Kinds, NEW calls \in Seq(Calling)
  PROVE  LET m == [Plain("assistant", kind) EXCEPT !.calls = calls]
         IN  /\ m = [role |-> "assistant", kind |-> kind, calls |-> calls, id |-> NoId]
             /\ m \in Messages /\ MessageOK(m) /\ ~IsTool(m) /\ m.calls = calls
<1> DEFINE m == [Plain("assistant", kind) EXCEPT !.calls = calls]
<1>1. m = [role |-> "assistant", kind |-> kind, calls |-> calls, id |-> NoId]
  BY DEF Plain
<1> HIDE DEF m
<1>2. "assistant" \in Roles /\ NoId \in Int
  BY DEF Roles, NoId
<1>3. m \in Messages
  BY <1>1, <1>2 DEF Messages
<1>4. MessageOK(m) /\ ~IsTool(m) /\ m.calls = calls
  BY <1>1 DEF MessageOK, IsTool
<1> QED BY <1>1, <1>3, <1>4 DEF m

LEMMA StubsAre ==
  ASSUME NEW m \in Messages, NEW missing, MessageOK(m), Blank \notin missing
  PROVE  /\ StubsFor(m, missing) \in Seq(Messages)
         /\ \A k \in 1 .. Len(StubsFor(m, missing)) :
              /\ MessageOK(StubsFor(m, missing)[k])
              /\ IsTool(StubsFor(m, missing)[k])
              /\ StubsFor(m, missing)[k].calls = <<>>
              /\ StubsFor(m, missing)[k].id \in CallIds(m)
<1> DEFINE I == { k \in DOMAIN m.calls : m.calls[k].id \in missing }
           open == Picked(m.calls, I)
           stubs == [k \in DOMAIN open |-> Result("stub", open[k].id)]
<1>0. StubsFor(m, missing) = stubs
  BY Zenon DEF StubsFor
<1>1. m.calls \in Seq(Calling)
  BY DEF Messages
<1>2. open \in Seq(Calling) /\ \E at : Enumerates(at, open, m.calls, I, Len(m.calls))
  BY <1>1, PickedMap
<1>3. PICK at : Enumerates(at, open, m.calls, I, Len(m.calls))
  BY <1>2
<1>4. ASSUME NEW k \in 1 .. Len(open)
      PROVE  open[k].id \in CallIds(m) /\ open[k] \in Calling
  <2>1. at[k] \in I /\ open[k] = m.calls[at[k]]
    BY <1>3, Zenon DEF Enumerates
  <2>2. open[k].id # Blank /\ Calls(m, open[k].id)
    BY <2>1, Zenon DEF Calls
  <2> QED BY <1>2, <2>2, InCallIds
<1> HIDE DEF open
<1>5. Len(stubs) = Len(open) /\ \A k \in 1 .. Len(open) : stubs[k] = Result("stub", open[k].id)
  BY <1>2
<1>6. DOMAIN stubs = 1 .. Len(open) /\ Len(open) \in Nat
  BY <1>2
<1>7. ASSUME NEW k \in 1 .. Len(open)
      PROVE  stubs[k] \in Messages /\ MessageOK(stubs[k]) /\ IsTool(stubs[k])
             /\ stubs[k].calls = <<>> /\ stubs[k].id \in CallIds(m)
  <2> DEFINE id == open[k].id
  <2>1. id \in Nat /\ id \in CallIds(m) /\ stubs[k] = Result("stub", id)
    BY <1>4, <1>5 DEF Calling
  <2> HIDE DEF id
  <2>2. id \in Int
    BY <2>1
  <2>a. "stub" \in Kinds
    BY DEF Kinds
  <2>3. /\ Result("stub", id) \in Messages /\ MessageOK(Result("stub", id))
        /\ IsTool(Result("stub", id)) /\ Result("stub", id).calls = <<>>
        /\ Result("stub", id).id = id
    BY <2>2, <2>a, ResultIs, Zenon
  <2> QED BY <2>1, <2>3, Zenon
<1> QED
  BY <1>0, <1>5, <1>6, <1>7

LEMMA WithoutIs ==
  ASSUME NEW h, Wellformed(h), NEW orphaned
  PROVE  /\ Wellformed(Without(h, orphaned))
         /\ \E at : Enumerates(at, Without(h, orphaned), h,
                      { i \in 1 .. Len(h) : ~(IsTool(h[i]) /\ h[i].id \in orphaned) }, Len(h))
<1> DEFINE I == { i \in 1 .. Len(h) : ~(IsTool(h[i]) /\ h[i].id \in orphaned) }
           q == Without(h, orphaned)
<1>1. h \in Seq(Messages) /\ DOMAIN h = 1 .. Len(h)
  BY DEF Wellformed
<1>2. q = Picked(h, I)
  BY <1>1, Zenon DEF Without
<1> HIDE DEF q, I
<1>3. q \in Seq(Messages) /\ \E at : Enumerates(at, q, h, I, Len(h))
  BY <1>1, <1>2, PickedMap
<1>4. PICK at : Enumerates(at, q, h, I, Len(h))
  BY <1>3
<1>5. ASSUME NEW k \in 1 .. Len(q) PROVE MessageOK(q[k])
  <2>1. at[k] \in 1 .. Len(h) /\ q[k] = h[at[k]]
    BY <1>4, Zenon DEF Enumerates
  <2> QED BY <2>1, Zenon DEF Wellformed
<1> QED
  BY <1>3, <1>5, Zenon DEF Wellformed, q, I

LEMMA SanitizeMap ==
  ASSUME NEW h, Wellformed(h)
  PROVE  /\ Wellformed(Sanitize(h))
         /\ \E from, own : Repairs(from, own, Sanitize(h), h)
<1> DEFINE orphaned == Answered(h) \ Called(h)
           missing == Called(h) \ Answered(h)
           I == { i \in 1 .. Len(h) : ~(IsTool(h[i]) /\ h[i].id \in orphaned) }
           kept == Without(h, orphaned)
           seqs == [i \in DOMAIN kept |-> <<kept[i]>> \o StubsFor(kept[i], missing)]
           s == Sanitize(h)
<1>1. s = FlattenSeq(seqs)
  BY Zenon DEF Sanitize
<1>2. Wellformed(kept)
  BY WithoutIs, Zenon
<1>3. PICK at : Enumerates(at, kept, h, I, Len(h))
  BY WithoutIs, Zenon
<1>4. h \in Seq(Messages) /\ kept \in Seq(Messages) /\ DOMAIN kept = 1 .. Len(kept)
      /\ Len(kept) \in Nat /\ \A i \in 1 .. Len(kept) : kept[i] \in Messages /\ MessageOK(kept[i])
  <2> HIDE DEF kept
  <2> QED BY <1>2 DEF Wellformed
<1>5. Blank \notin missing
  BY <1>4, InCalled, InCallIds
<1> HIDE DEF s, kept, missing, orphaned
<1>6. ASSUME NEW i \in 1 .. Len(kept)
      PROVE  /\ seqs[i] \in Seq(Messages) /\ Len(seqs[i]) > 0 /\ seqs[i][1] = kept[i]
             /\ \A o \in 1 .. Len(seqs[i]) : o # 1 =>
                  /\ MessageOK(seqs[i][o]) /\ IsTool(seqs[i][o]) /\ seqs[i][o].calls = <<>>
                  /\ seqs[i][o].id \in CallIds(kept[i])
  <2> DEFINE stubs == StubsFor(kept[i], missing)
  <2>1. seqs[i] = <<kept[i]>> \o stubs
    BY <1>4
  <2>2. /\ stubs \in Seq(Messages)
        /\ \A k \in 1 .. Len(stubs) :
              /\ MessageOK(stubs[k]) /\ IsTool(stubs[k]) /\ stubs[k].calls = <<>>
              /\ stubs[k].id \in CallIds(kept[i])
    BY <1>4, <1>5, StubsAre, Zenon
  <2> HIDE DEF stubs, seqs
  <2>3. /\ seqs[i] \in Seq(Messages) /\ Len(seqs[i]) = 1 + Len(stubs) /\ seqs[i][1] = kept[i]
        /\ \A o \in 2 .. Len(seqs[i]) : seqs[i][o] = stubs[o - 1] /\ o - 1 \in 1 .. Len(stubs)
    BY <1>4, <2>1, <2>2
  <2> QED BY <2>2, <2>3
<1>7. seqs \in Seq(Seq(Messages)) /\ Len(seqs) = Len(kept)
  <2>1. seqs = [i \in 1 .. Len(kept) |-> seqs[i]]
    BY <1>4, Zenon
  <2> HIDE DEF seqs
  <2> QED BY <1>4, <1>6, <2>1
<1> HIDE DEF seqs
<1>8. s \in Seq(Messages)
  BY <1>1, <1>7, FlattenMap
<1>9. PICK of, off : Flattens(of, off, s, seqs, Len(kept))
  BY <1>1, <1>7, FlattenMap
<1> DEFINE L == Len(s)
           from == [k \in 1 .. L |-> at[of[k]]]
           own == [k \in 1 .. L |-> off[k] = 1]
<1>10. /\ \A k \in 1 .. L : of[k] \in 1 .. Len(kept) /\ off[k] \in 1 .. Len(seqs[of[k]])
                            /\ s[k] = seqs[of[k]][off[k]] /\ off[k] \in Nat
       /\ \A k, l \in 1 .. L : k < l => of[k] < of[l] \/ (of[k] = of[l] /\ off[k] < off[l])
       /\ \A i \in 1 .. Len(kept) : \A o \in 1 .. Len(seqs[i]) :
            \E k \in 1 .. L : of[k] = i /\ off[k] = o
  BY <1>9 DEF Flattens
<1>11. /\ \A i \in 1 .. Len(kept) : at[i] \in 1 .. Len(h) /\ at[i] \in I /\ kept[i] = h[at[i]]
       /\ \A k, l \in 1 .. Len(kept) : k < l => at[k] < at[l]
       /\ \A i \in 1 .. Len(h) : i \in I => \E k \in 1 .. Len(kept) : at[k] = i
  BY <1>3 DEF Enumerates
<1>12. \A k \in 1 .. L : from[k] = at[of[k]] /\ own[k] = (off[k] = 1)
  OBVIOUS
<1>13. from \in [1 .. L -> 1 .. Len(h)] /\ own \in [1 .. L -> BOOLEAN]
  BY <1>10, <1>11
<1> HIDE DEF L, from, own, I
<1>14. ASSUME NEW k \in 1 .. L
       PROVE  /\ own[k] => /\ s[k] = h[from[k]]
                           /\ IsTool(s[k]) => s[k].id \notin orphaned
              /\ ~own[k] => /\ IsTool(s[k]) /\ s[k].calls = <<>> /\ MessageOK(s[k])
                            /\ s[k].id \in CallIds(h[from[k]])
  <2>1. of[k] \in 1 .. Len(kept) /\ off[k] \in 1 .. Len(seqs[of[k]]) /\ s[k] = seqs[of[k]][off[k]]
    BY <1>10
  <2>2. kept[of[k]] = h[from[k]] /\ from[k] \in I
    BY <1>11, <1>12, <2>1, Zenon
  <2>3. CASE off[k] = 1
    <3>1. own[k] /\ s[k] = h[from[k]]
      BY <1>6, <1>12, <2>1, <2>2, <2>3, Zenon
    <3> QED BY <2>2, <3>1, Zenon DEF I
  <2>4. CASE off[k] # 1
    <3>1. ~own[k]
      BY <1>12, <2>4, Zenon
    <3> QED BY <1>6, <2>1, <2>2, <2>4, <3>1, Zenon
  <2> QED BY <2>3, <2>4
<1>15. ASSUME NEW k \in 1 .. L, NEW l \in 1 .. L, k < l
       PROVE  from[k] < from[l] \/ (from[k] = from[l] /\ ~own[l])
  <2>1. of[k] < of[l] \/ (of[k] = of[l] /\ off[k] < off[l])
    BY <1>10, <1>15
  <2>2. CASE of[k] < of[l]
    BY <1>10, <1>11, <1>12, <2>2
  <2>3. CASE of[k] = of[l] /\ off[k] < off[l]
    <3>1. off[k] \in 1 .. Len(seqs[of[k]]) /\ off[l] \in Nat
      BY <1>10
    <3>2. off[l] # 1
      BY <2>3, <3>1
    <3> QED BY <1>12, <2>3, <3>2, Zenon
  <2> QED BY <2>1, <2>2, <2>3
<1>16. ASSUME NEW i \in 1 .. Len(h), ~IsTool(h[i])
       PROVE  \E k \in 1 .. L : from[k] = i /\ own[k]
  <2>1. i \in I
    BY <1>16, Zenon DEF I
  <2>2. PICK j \in 1 .. Len(kept) : at[j] = i
    BY <1>11, <2>1, Zenon
  <2>3. 1 \in 1 .. Len(seqs[j])
    BY <1>6
  <2>4. PICK k \in 1 .. L : of[k] = j /\ off[k] = 1
    BY <1>10, <2>3, Zenon
  <2> QED BY <1>12, <2>2, <2>4, Zenon
<1>17. Repairs(from, own, s, h)
  BY <1>13, <1>14, <1>15, <1>16, Zenon DEF Repairs, L, orphaned
<1>18. ASSUME NEW k \in 1 .. Len(s) PROVE MessageOK(s[k])
  <2>1. k \in 1 .. L
    BY DEF L
  <2>2. CASE own[k]
    BY <1>13, <1>14, <2>1, <2>2, Zenon DEF Wellformed
  <2>3. CASE ~own[k]
    BY <1>14, <2>1, <2>3, Zenon
  <2> QED BY <2>2, <2>3
<1> QED
  BY <1>8, <1>17, <1>18, Zenon DEF Wellformed, s

(* What is needed of a history that is to be repaired.                     *)
Mendable(h) == Wellformed(h) /\ Loose(h) /\ Distinct(h)

(* What holds of a history at all times.                                   *)
Mended(h) == Mendable(h) /\ Paired(h)

(* A result of the repaired history whose call was led by message p, or a  *)
(* stub for a call of p, is led by p again.                                *)
LEMMA StillLed ==
  ASSUME NEW h, Wellformed(h), NEW s, Wellformed(s), NEW from, NEW own, Repairs(from, own, s, h),
         NEW k \in 1 .. Len(s), IsTool(s[k]), NEW p \in 1 .. Len(h), ~IsTool(h[p]),
         s[k].id \in CallIds(h[p]),
         p <= from[k], ~own[k] \/ p < from[k],
         \A i \in p + 1 .. from[k] : IsTool(h[i])
  PROVE  Led(s, k)
<1>1. /\ from \in [1 .. Len(s) -> 1 .. Len(h)]
      /\ \A l, m \in 1 .. Len(s) : l < m => from[l] < from[m] \/ (from[l] = from[m] /\ ~own[m])
      /\ \A l \in 1 .. Len(s) : own[l] => s[l] = h[from[l]]
      /\ \A l \in 1 .. Len(s) : ~own[l] => IsTool(s[l])
  BY DEF Repairs
<1>2. Len(s) \in Nat /\ Len(h) \in Nat
  BY DEF Wellformed
<1>3. PICK l \in 1 .. Len(s) : from[l] = p /\ own[l]
  BY Zenon DEF Repairs
<1>4. s[l] = h[p]
  BY <1>1, <1>3, Zenon
<1>5. l < k
  <2>1. l # k
    BY <1>4, Zenon
  <2>2. CASE k < l
    <3>1. from[k] < from[l] \/ (from[k] = from[l] /\ ~own[l])
      BY <1>1, <2>2
    <3> QED BY <1>1, <1>2, <1>3, <3>1
  <2> QED BY <2>1, <2>2
<1>6. ASSUME NEW m \in l + 1 .. k PROVE IsTool(s[m])
  <2>1. m \in 1 .. Len(s) /\ l < m
    BY <1>2
  <2>2. CASE ~own[m]
    BY <1>1, <2>1, <2>2, Zenon
  <2>3. CASE own[m]
    <3>1. from[l] < from[m]
      BY <1>1, <2>1, <2>3
    <3>2. m = k \/ from[m] < from[k] \/ from[m] = from[k]
      BY <1>1, <2>1
    <3>3. from[m] \in p + 1 .. from[k]
      BY <1>1, <1>3, <2>1, <3>1, <3>2
    <3>4. IsTool(h[from[m]])
      BY <3>3
    <3> QED BY <1>1, <2>1, <2>3, <3>4, Zenon
  <2> QED BY <2>2, <2>3
<1>7. Leads(s, l, k)
  BY <1>4, <1>5, <1>6 DEF Leads
<1> QED
  BY <1>4, <1>7, Zenon DEF Led

(* The repair leaves every result that names a call behind a message that  *)
(* makes this call.                                                        *)
LEMMA SanitizePairs ==
  ASSUME NEW h, Mendable(h)
  PROVE  /\ Mended(Sanitize(h))
         /\ \A k \in 1 .. Len(Sanitize(h)) :
              IsTool(Sanitize(h)[k]) /\ Sanitize(h)[k].id # NoId => Led(Sanitize(h), k)
<1> DEFINE s == Sanitize(h)
<1>1. Wellformed(h) /\ Wellformed(s) /\ Loose(h) /\ Distinct(h)
  BY SanitizeMap DEF Mendable
<1>2. PICK from, own : Repairs(from, own, s, h)
  BY <1>1, SanitizeMap, Zenon
<1>3. h \in Seq(Messages) /\ s \in Seq(Messages)
  BY <1>1 DEF Wellformed
<1> HIDE DEF s
<1>4. \A i \in 1 .. Len(h) : h[i] \in Messages /\ MessageOK(h[i])
  BY <1>1 DEF Wellformed
<1>5. ASSUME NEW k \in 1 .. Len(s), IsTool(s[k]), s[k].id # NoId
      PROVE  Led(s, k)
  <2>0. from[k] \in 1 .. Len(h) /\ own[k] \in BOOLEAN
    BY <1>2, Zenon DEF Repairs
  <2>1. CASE own[k]
    <3>1. s[k] = h[from[k]] /\ s[k].id \notin Answered(h) \ Called(h)
      BY <1>2, <1>5, <2>1, Zenon DEF Repairs
    <3>2. s[k].id \in Answered(h)
      BY <1>3, <1>5, <2>0, <3>1, InAnswered, Zenon
    <3>3. Led(h, from[k])
      BY <1>1, <1>5, <2>0, <3>1, <3>2, Zenon DEF Loose
    <3>4. PICK p \in 1 .. Len(h) : Leads(h, p, from[k]) /\ h[from[k]].id \in CallIds(h[p])
      BY <3>3, Zenon DEF Led
    <3>5. p <= from[k] /\ p < from[k] /\ ~IsTool(h[p]) /\ \A i \in p + 1 .. from[k] : IsTool(h[i])
      BY <2>0, <3>4 DEF Leads
    <3> QED BY <1>1, <1>2, <1>5, <3>1, <3>4, <3>5, StillLed, Zenon
  <2>2. CASE ~own[k]
    <3>1. s[k].id \in CallIds(h[from[k]])
      BY <1>2, <2>2, Zenon DEF Repairs
    <3>2. ~IsTool(h[from[k]])
      BY <1>4, <2>0, <3>1, ToolsCallNothing
    <3>3. from[k] <= from[k] /\ \A i \in from[k] + 1 .. from[k] : IsTool(h[i])
      BY <2>0
    <3> QED BY <1>1, <1>2, <1>5, <2>0, <2>2, <3>1, <3>2, <3>3, StillLed, Zenon
  <2> QED BY <2>0, <2>1, <2>2
<1>6. ASSUME NEW k \in 1 .. Len(s), NEW id \in CallIds(s[k])
      PROVE  own[k] /\ s[k] = h[from[k]] /\ from[k] \in 1 .. Len(h)
  <2>1. own[k]
    <3> SUFFICES ASSUME ~own[k] PROVE FALSE
      OBVIOUS
    <3>1. IsTool(s[k])
      BY <1>2, Zenon DEF Repairs
    <3>2. s[k] \in Messages /\ MessageOK(s[k])
      BY <1>1, <1>3 DEF Wellformed
    <3> QED BY <3>1, <3>2, ToolsCallNothing
  <2> QED BY <1>2, <2>1, Zenon DEF Repairs
<1>7. Distinct(s)
  <2> SUFFICES ASSUME NEW i \in 1 .. Len(s), NEW j \in 1 .. Len(s),
                      NEW id \in CallIds(s[i]), id \in CallIds(s[j])
               PROVE  i = j
    BY Zenon DEF Distinct
  <2>1. /\ own[i] /\ s[i] = h[from[i]] /\ from[i] \in 1 .. Len(h)
        /\ own[j] /\ s[j] = h[from[j]] /\ from[j] \in 1 .. Len(h)
    BY <1>6, Zenon
  <2>2. from[i] = from[j]
    BY <1>1, <2>1, Zenon DEF Distinct
  <2>3. \A l, m \in 1 .. Len(s) : l < m => from[l] < from[m] \/ (from[l] = from[m] /\ ~own[m])
    BY <1>2, Zenon DEF Repairs
  <2>4. ~(i < j) /\ ~(j < i)
    BY <2>1, <2>2, <2>3
  <2> QED BY <2>4
<1>8. Loose(s)
  <2> SUFFICES ASSUME NEW i \in 1 .. Len(s), IsTool(s[i]), s[i].id \in Called(s)
               PROVE  Led(s, i)
    BY Zenon DEF Loose
  <2>1. PICK j \in 1 .. Len(s) : s[i].id \in CallIds(s[j])
    BY <1>3, InCalled, Zenon
  <2>2. s[i].id \in Nat
    BY <1>1, <1>3, <2>1, ToolsCallNothing DEF Wellformed
  <2> QED BY <1>5, <2>2 DEF NoId
<1>9. Paired(s)
  <2> SUFFICES ASSUME NEW i \in 1 .. Len(s), IsTool(s[i]), s[i].id # NoId
               PROVE  \E j \in 1 .. Len(s) : Leads(s, j, i) /\ Calls(s[j], s[i].id)
    BY Zenon DEF Paired
  <2>1. PICK j \in 1 .. Len(s) : Leads(s, j, i) /\ s[i].id \in CallIds(s[j])
    BY <1>5, Zenon DEF Led
  <2> QED BY <2>1, InCallIds, Zenon
<1> QED
  BY <1>1, <1>5, <1>7, <1>8, <1>9, Zenon DEF Mended, Mendable, s

-----------------------------------------------------------------------------
(* Cuts.                                                                   *)

Spliced(h, a, mid, b) == SubSeq(h, 1, a) \o mid \o SubSeq(h, b + 1, Len(h))

(* g is h with the messages behind a and up to b replaced by mid, which    *)
(* calls no tool and is no result.                                         *)
Cuts(g, h, a, mid, b) ==
  /\ a \in 0 .. Len(h) /\ b \in a .. Len(h)
  /\ mid \in Seq(Messages)
  /\ \A i \in 1 .. Len(mid) : MessageOK(mid[i]) /\ ~IsTool(mid[i]) /\ CallIds(mid[i]) = {}
  /\ g = Spliced(h, a, mid, b)

(* The results of what is before a end there.                              *)
CleanHead(h, a) ==
  \/ a = Len(h)
  \/ ~IsTool(h[a + 1])
  \/ \A i \in 1 .. a : CallIds(h[i]) = {}

AsSpliced(g, h, a, M, mid, b) ==
  /\ Len(g) = a + M + (Len(h) - b)
  /\ \A i \in 1 .. a : g[i] = h[i]
  /\ \A i \in a + 1 .. a + M : g[i] = mid[i - a]
  /\ \A i \in a + M + 1 .. Len(g) : g[i] = h[i - (a + M) + b]

LEMMA CutIs ==
  ASSUME NEW S, NEW h \in Seq(S), NEW mid \in Seq(S), NEW a \in 0 .. Len(h), NEW b \in a .. Len(h),
         NEW g, g = Spliced(h, a, mid, b)
  PROVE  g \in Seq(S) /\ AsSpliced(g, h, a, Len(mid), mid, b)
<1> DEFINE x == SubSeq(h, 1, a)  y == SubSeq(h, b + 1, Len(h))
<1>1. x \in Seq(S) /\ Len(x) = a /\ \A i \in 1 .. a : x[i] = h[i]
  OBVIOUS
<1>2. y \in Seq(S) /\ Len(y) = Len(h) - b /\ \A i \in 1 .. Len(h) - b : y[i] = h[b + i]
  OBVIOUS
<1> HIDE DEF x, y
<1> DEFINE z == x \o mid
<1>3. /\ z \in Seq(S) /\ Len(z) = a + Len(mid)
      /\ \A i \in 1 .. a : z[i] = h[i]
      /\ \A i \in a + 1 .. a + Len(mid) : z[i] = mid[i - a]
  BY <1>1
<1> HIDE DEF z
<1>4. g = z \o y
  BY Zenon DEF x, y, z, Spliced
<1>5. /\ g \in Seq(S) /\ Len(g) = Len(z) + Len(y)
      /\ \A i \in 1 .. Len(z) : g[i] = z[i]
      /\ \A i \in Len(z) + 1 .. Len(z) + Len(y) : g[i] = y[i - Len(z)]
  <2>1. z \in Seq(S) /\ y \in Seq(S)
    BY <1>2, <1>3
  <2> QED BY <1>4, <2>1, ConcatIs
<1> DEFINE M == Len(mid)  N == Len(h)  Z == Len(z)  Y == Len(y)
<1>6. M \in Nat /\ N \in Nat /\ a \in 0 .. N /\ b \in a .. N /\ Z = a + M /\ Y = N - b
  BY <1>2, <1>3
<1>7. /\ \A i \in 1 .. a : z[i] = h[i]
      /\ \A i \in a + 1 .. a + M : z[i] = mid[i - a]
      /\ \A i \in 1 .. N - b : y[i] = h[b + i]
      /\ g \in Seq(S) /\ Len(g) = Z + Y
      /\ \A i \in 1 .. Z : g[i] = z[i]
      /\ \A i \in Z + 1 .. Z + Y : g[i] = y[i - Z]
  BY <1>2, <1>3, <1>5, Zenon
<1> HIDE DEF M, N, Z, Y
<1>8. /\ \A i \in 1 .. a : g[i] = h[i]
      /\ \A i \in a + 1 .. a + M : g[i] = mid[i - a]
  <2>1. \A i \in 1 .. a : i \in 1 .. Z
    BY <1>6
  <2>2. \A i \in a + 1 .. a + M : i \in 1 .. Z
    BY <1>6
  <2> QED BY <1>7, <2>1, <2>2, Zenon
<1>9. \A i \in a + M + 1 .. Len(g) : g[i] = h[i - (a + M) + b]
  <2> TAKE i \in a + M + 1 .. Len(g)
  <2>1. i \in Z + 1 .. Z + Y /\ i - Z \in 1 .. N - b /\ b + (i - Z) = i - (a + M) + b
    BY <1>6, <1>7
  <2> QED BY <1>7, <2>1
<1>10. Len(g) = a + M + (N - b)
  BY <1>6, <1>7
<1> QED
  BY <1>7, <1>8, <1>9, <1>10, Zenon DEF M, N, AsSpliced

(* A cut that does not split the results of the last call before it loses  *)
(* no call whose result it keeps, unless it loses all calls of this id.    *)
LEMMA CutLoose ==
  ASSUME NEW h, Mendable(h), NEW g, NEW a, NEW mid, NEW b, Cuts(g, h, a, mid, b), CleanHead(h, a)
  PROVE  Mendable(g)
<1> DEFINE M == Len(mid)  N == Len(h)
           src == [i \in 1 .. Len(g) |-> IF i <= a THEN i ELSE i - (a + M) + b]
           Kept(i) == i \in 1 .. a \/ i \in a + M + 1 .. Len(g)
<1>1. /\ h \in Seq(Messages) /\ mid \in Seq(Messages) /\ M \in Nat /\ N \in Nat
      /\ a \in 0 .. N /\ b \in a .. N
      /\ \A i \in 1 .. M : MessageOK(mid[i]) /\ ~IsTool(mid[i]) /\ CallIds(mid[i]) = {}
      /\ \A i \in 1 .. N : MessageOK(h[i])
  <2>1. h \in Seq(Messages) /\ mid \in Seq(Messages) /\ a \in 0 .. N /\ b \in a .. N
    BY Zenon DEF Cuts, Mendable, Wellformed
  <2>2. /\ \A i \in 1 .. M : MessageOK(mid[i]) /\ ~IsTool(mid[i]) /\ CallIds(mid[i]) = {}
        /\ \A i \in 1 .. N : MessageOK(h[i])
    BY Zenon DEF Cuts, Mendable, Wellformed
  <2>3. M \in Nat /\ N \in Nat
    BY <2>1
  <2> QED BY <2>1, <2>2, <2>3, Zenon
<1>2. /\ g \in Seq(Messages) /\ Len(g) = a + M + (N - b)
      /\ \A i \in 1 .. a : g[i] = h[i]
      /\ \A i \in a + 1 .. a + M : g[i] = mid[i - a]
      /\ \A i \in a + M + 1 .. Len(g) : g[i] = h[i - (a + M) + b]
  <2>1. /\ h \in Seq(Messages) /\ mid \in Seq(Messages) /\ a \in 0 .. Len(h) /\ b \in a .. Len(h)
        /\ g = Spliced(h, a, mid, b)
    BY <1>1, Zenon DEF Cuts
  <2>2. g \in Seq(Messages) /\ AsSpliced(g, h, a, M, mid, b)
    BY <2>1, CutIs
  <2> QED BY <2>2, Zenon DEF AsSpliced
<1>3. \A i \in 1 .. Len(g) : src[i] = IF i <= a THEN i ELSE i - (a + M) + b
  OBVIOUS
<1> HIDE DEF src, M, N
<1>4. \A i \in 1 .. Len(g) : Kept(i) => /\ src[i] \in 1 .. N /\ g[i] = h[src[i]]
                                        /\ (i <= a /\ src[i] = i) \/ (i > a /\ src[i] = i - (a + M) + b)
  BY <1>1, <1>2, <1>3
<1>5. \A i \in 1 .. Len(g) : ~Kept(i) => /\ MessageOK(g[i]) /\ ~IsTool(g[i]) /\ CallIds(g[i]) = {}
                                         /\ i \in a + 1 .. a + M
  <2> TAKE i \in 1 .. Len(g)
  <2> HAVE ~Kept(i)
  <2>1. i \in a + 1 .. a + M /\ i - a \in 1 .. M
    BY <1>1, <1>2
  <2> QED BY <1>1, <1>2, <2>1
<1>6. \A i, j \in 1 .. Len(g) : Kept(i) /\ Kept(j) /\ src[i] = src[j] => i = j
  BY <1>1, <1>2, <1>4
<1>7. Wellformed(g)
  <2>1. \A i \in 1 .. Len(g) : MessageOK(g[i])
    BY <1>1, <1>4, <1>5
  <2> QED BY <1>2, <2>1 DEF Wellformed
<1>8. Distinct(g)
  <2> SUFFICES ASSUME NEW i \in 1 .. Len(g), NEW j \in 1 .. Len(g),
                      NEW id \in CallIds(g[i]), id \in CallIds(g[j])
               PROVE  i = j
    BY Zenon DEF Distinct
  <2> HIDE DEF Kept
  <2>1. Kept(i) /\ Kept(j)
    BY <1>5, Zenon
  <2>2. src[i] = src[j]
    BY <1>4, <2>1, Zenon DEF Mendable, Distinct, N
  <2> QED BY <1>6, <2>1, <2>2, Zenon
<1>9. Loose(g)
  <2> SUFFICES ASSUME NEW i \in 1 .. Len(g), IsTool(g[i]), g[i].id \in Called(g)
               PROVE  Led(g, i)
    BY Zenon DEF Loose
  <2>1. PICK c \in 1 .. Len(g) : g[i].id \in CallIds(g[c])
    BY <1>2, InCalled, Zenon
  <2>2. Kept(i) /\ Kept(c)
    <3> HIDE DEF Kept
    <3> QED BY <1>5, <2>1, Zenon
  <2> DEFINE id == g[i].id  I == src[i]  C == src[c]
  <2>3. I \in 1 .. N /\ C \in 1 .. N /\ g[i] = h[I] /\ g[c] = h[C] /\ id \in CallIds(h[C])
    BY <1>4, <2>1, <2>2
  <2>4. id \in Called(h)
    BY <1>1, <2>3, InCalled, Zenon DEF N
  <2>5. Led(h, I)
    BY <2>3, <2>4, Zenon DEF Mendable, Loose, N
  <2>6. PICK p \in 1 .. N : Leads(h, p, I) /\ id \in CallIds(h[p])
    BY <2>3, <2>5, Zenon DEF Led, N
  <2>7. p = C
    BY <2>3, <2>6, Zenon DEF Mendable, Distinct, N
  <2>8. p \in 1 .. I - 1 /\ ~IsTool(h[p]) /\ \A k \in p + 1 .. I : IsTool(h[k])
    BY <2>6 DEF Leads
  <2>9. c <= a => i <= a
    <3> SUFFICES ASSUME c <= a, i > a PROVE FALSE
      BY <1>1
    <3>1. p = c /\ I = i - (a + M) + b /\ i \in a + M + 1 .. Len(g)
      BY <1>1, <1>4, <2>2, <2>7
    <3>2. a + 1 \in p + 1 .. I /\ a # N
      BY <1>1, <1>2, <2>3, <3>1
    <3>3. IsTool(h[a + 1])
      BY <2>8, <3>2
    <3>4. p \in 1 .. a
      BY <3>1
    <3> QED BY <2>6, <3>2, <3>3, <3>4 DEF CleanHead, N
  <2>10. c < i
    BY <1>1, <1>2, <1>4, <2>2, <2>3, <2>7, <2>8, <2>9
  <2>13. ASSUME NEW k \in c + 1 .. i PROVE Kept(k) /\ src[k] \in p + 1 .. I
    <3>1. k \in 1 .. Len(g) /\ (k <= a \/ k > a + M) /\ (c <= a => k <= a)
      BY <1>1, <1>2, <2>2, <2>9
    <3>2. Kept(k)
      BY <1>1, <1>2, <3>1
    <3>3. CASE i <= a
      BY <1>1, <1>4, <2>2, <2>7, <3>1, <3>2, <3>3
    <3>4. CASE i > a
      <4>1. c > a /\ k > a
        BY <1>1, <2>9, <3>4
      <4> QED BY <1>1, <1>4, <2>2, <2>7, <3>1, <3>2, <3>4, <4>1
    <3> QED BY <1>1, <3>3, <3>4
  <2>11. \A k \in c + 1 .. i : IsTool(g[k])
    <3> TAKE k \in c + 1 .. i
    <3>1. k \in 1 .. Len(g)
      BY <1>2
    <3> QED BY <1>4, <2>8, <2>13, <3>1
  <2>12. Leads(g, c, i)
    BY <2>3, <2>7, <2>8, <2>10, <2>11 DEF Leads
  <2> QED BY <2>1, <2>12, Zenon DEF Led
<1> QED
  BY <1>7, <1>8, <1>9 DEF Mendable

-----------------------------------------------------------------------------
(* Where compress cuts.                                                    *)

LEMMA ForwardIs ==
  ASSUME NEW S, NEW h \in Seq(S), NEW cut \in 0 .. Len(h)
  PROVE  /\ AlignForward(h, cut) \in cut .. Len(h)
         /\ AlignForward(h, cut) = Len(h) \/ ~IsTool(h[AlignForward(h, cut) + 1])
         /\ \A c \in cut .. AlignForward(h, cut) - 1 : IsTool(h[c + 1])
<1> DEFINE T == { c \in cut .. Len(h) : c = Len(h) \/ ~IsTool(h[c + 1]) }
           m == AlignForward(h, cut)
<1>1. Len(h) \in T /\ T \in SUBSET Int /\ \A c \in T : cut <= c
  OBVIOUS
<1>2. m = Min(T)
  BY Zenon DEF AlignForward
<1>3. cut \in Int
  OBVIOUS
<1> HIDE DEF m
<1>4. m \in T /\ \A c \in T : m <= c
  <2> HIDE DEF T
  <2>1. T # {}
    BY <1>1
  <2> QED BY <1>1, <1>2, <1>3, <2>1, MinIs
<1>5. ASSUME NEW c \in cut .. m - 1 PROVE IsTool(h[c + 1])
  <2>1. m \in cut .. Len(h)
    BY <1>4
  <2>2. c \in cut .. Len(h) /\ c < m /\ Len(h) \in Int
    BY <2>1
  <2>3. c \notin T
    <3> HIDE DEF T
    <3> QED BY <1>4, <2>1, <2>2
  <2> QED BY <2>2, <2>3
<1> QED
  BY <1>4, <1>5 DEF m

LEMMA HeadIs ==
  ASSUME NEW h, Wellformed(h), ~TooShort(h)
  PROVE  /\ HeadEnd(h) \in ProtectFirst .. Len(h) /\ Len(h) \in Nat
         /\ HeadEnd(h) = Len(h) \/ ~IsTool(h[HeadEnd(h) + 1])
         /\ \A c \in ProtectFirst .. HeadEnd(h) - 1 : IsTool(h[c + 1])
<1>1. h \in Seq(Messages) /\ ProtectFirst \in 0 .. Len(h) /\ Len(h) \in Nat
  BY ProtectFirstAssumption DEF Wellformed, TooShort
<1> QED
  BY <1>1, ForwardIs DEF HeadEnd

LEMMA BackwardIs ==
  ASSUME NEW S, NEW h \in Seq(S), NEW cut \in Int, cut >= 0
  PROVE  AlignBackward(h, cut) \in Int /\ AlignBackward(h, cut) <= cut
<1> DEFINE T == { c \in 0 .. cut - 1 : c = 0 \/ ~IsTool(h[c + 1]) }
<1>1. cut = 0 \/ cut >= Len(h) => AlignBackward(h, cut) = cut
  BY Zenon DEF AlignBackward
<1>2. ~(cut = 0 \/ cut >= Len(h)) => AlignBackward(h, cut) \in {Max(T), cut}
  BY Zenon DEF AlignBackward
<1>3. ASSUME cut # 0 PROVE Max(T) \in 0 .. cut - 1
  <2>1. 0 \in T /\ T \in SUBSET Int /\ \A c \in T : c <= cut - 1
    BY <1>3
  <2>2. T \subseteq 0 .. cut - 1 /\ cut - 1 \in Int
    OBVIOUS
  <2> HIDE DEF T
  <2>3. T # {}
    BY <2>1
  <2>4. Max(T) \in T
    BY <2>1, <2>2, <2>3, MaxIs
  <2> QED BY <2>2, <2>4
<1> QED
  BY <1>1, <1>2, <1>3

LEMMA KeepIs ==
  ASSUME NEW S, NEW h \in Seq(S), NEW cut \in Int, NEW head \in Nat
  PROVE  /\ KeepLastUser(h, cut, head) \in Int
         /\ head < Len(h) /\ cut <= Len(h) => KeepLastUser(h, cut, head) <= Len(h)
<1> DEFINE last == SelectLastInSubSeq(h, head + 1, Len(h), IsUser)
           I == { i \in head + 1 .. Len(h) : IsUser(h[i]) }
<1>1. last = IF I # {} THEN Max(I) ELSE 0
  BY Zenon DEF SelectLastInSubSeq
<1>2. last \in Int /\ last <= Len(h)
  <2>1. I \in SUBSET Int /\ Len(h) \in Int /\ (\A i \in I : i <= Len(h)) /\ Len(h) >= 0
    OBVIOUS
  <2> HIDE DEF I, last
  <2>2. CASE I # {}
    <3>1. Max(I) \in I
      BY <2>1, <2>2, MaxIs
    <3> QED BY <1>1, <2>1, <2>2, <3>1
  <2> QED BY <1>1, <2>1, <2>2
<1>3. KeepLastUser(h, cut, head)
        = IF last # 0 /\ last - 1 < cut THEN Max({last - 1, head + 1}) ELSE cut
  BY Zenon DEF KeepLastUser
<1> HIDE DEF last
<1>4. last - 1 \in Int /\ head + 1 \in Int
  BY <1>2
<1>5. Max({last - 1, head + 1}) = IF last - 1 >= head + 1 THEN last - 1 ELSE head + 1
  BY <1>4, MaxOfTwo
<1> QED
  BY <1>2, <1>3, <1>5

(* Where the tail starts: behind the head by a message at least, and       *)
(* within the history unless all behind the head are results.              *)
LEMMA TailIs ==
  ASSUME NEW h, Wellformed(h), ~TooShort(h), NEW walk \in Int
  PROVE  /\ TailCut(h, walk) \in Int /\ TailCut(h, walk) > HeadEnd(h)
         /\ TailCut(h, walk) > Len(h) => HeadEnd(h) = Len(h)
<1> DEFINE head == HeadEnd(h)
           fallback == Len(h) - MinTail(h)
           capped == Min({walk, fallback})
           cut == IF capped <= head THEN Max({fallback, head + 1}) ELSE capped
           back == AlignBackward(h, cut)
           keep == KeepLastUser(h, back, head)
<1>1. h \in Seq(Messages) /\ head \in Nat /\ head <= Len(h) /\ Len(h) \in Nat
  BY HeadIs, ProtectFirstAssumption DEF Wellformed
<1>2. TailCut(h, walk) = Max({keep, head + 1})
  BY Zenon DEF TailCut
<1>3. MinTail(h) \in Nat
  <2> DEFINE x == Len(h) - (head + 1)  y == Min({3, x})
  <2>1. x \in Int
    BY <1>1
  <2>2. MinTail(h) = Max({0, y})
    BY Zenon DEF MinTail
  <2> HIDE DEF x
  <2>3. y \in Int
    BY <2>1, MinOfTwo
  <2> HIDE DEF y
  <2>4. Max({0, y}) = IF 0 >= y THEN 0 ELSE y
    BY <2>3, MaxOfTwo
  <2> QED BY <2>2, <2>3, <2>4
<1>4. fallback \in Int /\ fallback <= Len(h)
  BY <1>1, <1>3
<1> HIDE DEF fallback, head
<1>5. capped = IF walk <= fallback THEN walk ELSE fallback
  BY <1>4, MinOfTwo
<1>6. capped \in Int /\ capped <= fallback
  BY <1>4, <1>5
<1> HIDE DEF capped
<1>7. head + 1 \in Int
  BY <1>1
<1>8. Max({fallback, head + 1}) = IF fallback >= head + 1 THEN fallback ELSE head + 1
  BY <1>4, <1>7, MaxOfTwo
<1>9. cut \in Int /\ cut > head /\ (head < Len(h) => cut <= Len(h))
  BY <1>1, <1>4, <1>6, <1>8
<1> HIDE DEF cut
<1>10. back \in Int /\ back <= cut
  BY <1>1, <1>9, BackwardIs
<1> HIDE DEF back
<1>11. keep \in Int /\ (head < Len(h) /\ back <= Len(h) => keep <= Len(h))
  BY <1>1, <1>10, KeepIs
<1> HIDE DEF keep
<1>12. Max({keep, head + 1}) = IF keep >= head + 1 THEN keep ELSE head + 1
  BY <1>7, <1>11, MaxOfTwo
<1>13. /\ TailCut(h, walk) \in Int /\ TailCut(h, walk) > head
       /\ TailCut(h, walk) > Len(h) => head = Len(h)
  BY <1>1, <1>2, <1>9, <1>10, <1>11, <1>12
<1> QED
  BY <1>13 DEF head

-----------------------------------------------------------------------------
(* What each function does to a history.                                   *)

(* A repaired cut is in order again.                                       *)
LEMMA CutMends ==
  ASSUME NEW h, Mendable(h), NEW a, NEW mid, NEW b,
         Cuts(Spliced(h, a, mid, b), h, a, mid, b), CleanHead(h, a)
  PROVE  Mended(Sanitize(Spliced(h, a, mid, b)))
BY CutLoose, SanitizePairs, Zenon

(* A message that is no result and calls nothing, and several of them.     *)
Quiet(m) == m \in Messages /\ MessageOK(m) /\ ~IsTool(m) /\ CallIds(m) = {}

LEMMA PlainQuiet ==
  ASSUME NEW role \in Roles, NEW kind \in Kinds, role # "tool"
  PROVE  Quiet(Plain(role, kind))
<1> DEFINE m == Plain(role, kind)
<1>1. m = [role |-> role, kind |-> kind, calls |-> <<>>, id |-> NoId] /\ m \in Messages
      /\ MessageOK(m)
  BY PlainIs
<1> HIDE DEF m
<1>2. ~IsTool(m) /\ m.calls = <<>>
  BY <1>1 DEF IsTool
<1>3. CallIds(m) = {}
  BY <1>2, InCallIds DEF Calls
<1> QED BY <1>1, <1>2, <1>3 DEF Quiet, m

LEMMA SystemQuiet ==
  ASSUME NEW h, Wellformed(h), HasSystem(h)
  PROVE  Len(h) > 0 /\ Quiet(h[1])
<1>1. h \in Seq(Messages) /\ h # <<>> /\ h[1].role = "system"
  BY DEF Wellformed, HasSystem
<1>2. Len(h) > 0 /\ 1 \in 1 .. Len(h) /\ h[1] \in Messages
  BY <1>1
<1>3. MessageOK(h[1])
  BY <1>2 DEF Wellformed
<1> QED
  BY <1>1, <1>2, <1>3, ToolsCallNothing DEF Quiet, IsTool

LEMMA NoneQuiet == <<>> \in Seq(Messages) /\ \A i \in 1 .. Len(<<>>) : Quiet(<<>>[i])
OBVIOUS

LEMMA OneQuiet ==
  ASSUME NEW m, Quiet(m)
  PROVE  <<m>> \in Seq(Messages) /\ \A i \in 1 .. Len(<<m>>) : Quiet(<<m>>[i])
<1>1. m \in Messages
  BY DEF Quiet
<1>2. <<m>> \in Seq(Messages) /\ Len(<<m>>) = 1 /\ <<m>>[1] = m
  BY <1>1
<1> QED BY <1>2

LEMMA QuietCuts ==
  ASSUME NEW h, Wellformed(h), NEW a \in 0 .. Len(h), NEW b \in a .. Len(h), NEW mid \in Seq(Messages),
         \A i \in 1 .. Len(mid) : Quiet(mid[i])
  PROVE  Cuts(Spliced(h, a, mid, b), h, a, mid, b)
BY Zenon DEF Cuts, Quiet

(* A message of the user or of the model in front of a history or behind   *)
(* it.                                                                     *)
LEMMA EnterKeeps ==
  ASSUME NEW h, Mended(h), NEW m, Quiet(m)
  PROVE  Mended(Append(h, m)) /\ Mended(<<m>> \o h)
<1>1. Mendable(h) /\ Wellformed(h) /\ h \in Seq(Messages) /\ m \in Messages /\ Paired(h)
  BY DEF Mended, Mendable, Wellformed, Quiet
<1> DEFINE N == Len(h)
<1>2. N \in Nat /\ N \in 0 .. N /\ N \in N .. N /\ 0 \in 0 .. N /\ 0 \in 0 .. 0
  BY <1>1
<1>3. Append(h, m) = Spliced(h, N, <<m>>, N)
  BY <1>1 DEF Spliced
<1>4. <<m>> \o h = Spliced(h, 0, <<m>>, 0)
  BY <1>1 DEF Spliced
<1>5. CleanHead(h, N) /\ CleanHead(h, 0)
  BY <1>2 DEF CleanHead
<1>6. Mendable(Append(h, m)) /\ Mendable(<<m>> \o h)
  BY <1>1, <1>2, <1>3, <1>4, <1>5, OneQuiet, QuietCuts, CutLoose
<1>7. Paired(Append(h, m))
  <2> DEFINE g == Append(h, m)
  <2>1. Len(g) = N + 1 /\ g[N + 1] = m /\ \A i \in 1 .. N : g[i] = h[i]
    BY <1>1
  <2> HIDE DEF g
  <2> SUFFICES ASSUME NEW i \in 1 .. Len(g), IsTool(g[i]), g[i].id # NoId
               PROVE  \E j \in 1 .. Len(g) : Leads(g, j, i) /\ (g[j].kind = "json" \/ Calls(g[j], g[i].id))
    BY Zenon DEF Paired, g
  <2>2. i \in 1 .. N
    BY <1>2, <2>1 DEF Quiet
  <2>3. PICK j \in 1 .. N : Leads(h, j, i) /\ (h[j].kind = "json" \/ Calls(h[j], h[i].id))
    BY <1>1, <2>1, <2>2, Zenon DEF Paired
  <2>4. g[j] = h[j] /\ g[i] = h[i] /\ j \in 1 .. Len(g)
    BY <1>2, <2>1, <2>2
  <2>5. j \in 1 .. i - 1 /\ ~IsTool(h[j]) /\ \A k \in j + 1 .. i : IsTool(h[k]) /\ k \in 1 .. N
    BY <1>2, <2>2, <2>3 DEF Leads
  <2>6. Leads(g, j, i)
    BY <2>1, <2>4, <2>5, Zenon DEF Leads
  <2> QED BY <2>3, <2>4, <2>6, Zenon
<1>8. Paired(<<m>> \o h)
  <2> DEFINE g == <<m>> \o h
  <2>1. Len(g) = N + 1 /\ g[1] = m /\ \A i \in 2 .. N + 1 : g[i] = h[i - 1] /\ i - 1 \in 1 .. N
    BY <1>1
  <2> HIDE DEF g
  <2> SUFFICES ASSUME NEW i \in 1 .. Len(g), IsTool(g[i]), g[i].id # NoId
               PROVE  \E j \in 1 .. Len(g) : Leads(g, j, i) /\ (g[j].kind = "json" \/ Calls(g[j], g[i].id))
    BY Zenon DEF Paired, g
  <2>2. i \in 2 .. N + 1
    BY <1>2, <2>1 DEF Quiet
  <2>3. PICK j \in 1 .. N : Leads(h, j, i - 1) /\ (h[j].kind = "json" \/ Calls(h[j], h[i - 1].id))
    BY <1>1, <2>1, <2>2, Zenon DEF Paired
  <2> DEFINE J == j + 1
  <2>4. J \in 2 .. N + 1 /\ J - 1 = j /\ J \in 1 .. Len(g) /\ g[J] = h[j] /\ g[i] = h[i - 1]
    BY <1>2, <2>1, <2>2
  <2>5. J \in 1 .. i - 1 /\ ~IsTool(h[j])
        /\ \A k \in J + 1 .. i : k - 1 \in j + 1 .. i - 1 /\ k \in 2 .. N + 1
    BY <1>2, <2>2, <2>3 DEF Leads
  <2> HIDE DEF J
  <2>6. \A k \in J + 1 .. i : IsTool(g[k])
    <3> TAKE k \in J + 1 .. i
    <3>1. k - 1 \in j + 1 .. i - 1 /\ k \in 2 .. N + 1
      BY <2>5
    <3>2. IsTool(h[k - 1])
      BY <2>3, <3>1, Zenon DEF Leads
    <3> QED BY <2>1, <3>1, <3>2, Zenon
  <2>7. Leads(g, J, i)
    BY <2>4, <2>5, <2>6, Zenon DEF Leads
  <2> QED BY <2>3, <2>4, <2>7, Zenon
<1> QED
  BY <1>6, <1>7, <1>8 DEF Mended

LEMMA TrimMends ==
  ASSUME NEW h, Mended(h), NEW max \in Nat
  PROVE  Mended(Trim(h, max))
<1> DEFINE start == IF HasSystem(h) THEN 1 ELSE 0
           excess == Len(h) - start - max
           b == start + excess
<1>1. Wellformed(h) /\ Mendable(h) /\ h \in Seq(Messages)
  BY DEF Mended, Mendable, Wellformed
<1>2. start \in 0 .. Len(h) /\ Len(h) \in Nat /\ (start = 0 \/ (start = 1 /\ HasSystem(h)))
  BY <1>1, SystemQuiet
<1>3. CASE excess <= 0
  <2>1. Trim(h, max) = h
    BY <1>3, Zenon DEF Trim
  <2> QED BY <2>1
<1>4. CASE ~(excess <= 0)
  <2>1. Trim(h, max) = Sanitize(SubSeq(h, 1, start) \o SubSeq(h, b + 1, Len(h)))
    BY <1>4, Zenon DEF Trim
  <2>2. CleanHead(h, start)
    <3>1. start = 1 => CallIds(h[1]) = {}
      BY <1>1, <1>2, SystemQuiet DEF Quiet
    <3> HIDE DEF start
    <3>2. \A i \in 1 .. start : CallIds(h[i]) = {}
      BY <1>2, <3>1
    <3> QED BY <3>2, Zenon DEF CleanHead
  <2> HIDE DEF start
  <2>3. b \in start .. Len(h)
    BY <1>2, <1>4
  <2> HIDE DEF b
  <2>4. SubSeq(h, 1, start) \o SubSeq(h, b + 1, Len(h)) = Spliced(h, start, <<>>, b)
    BY <1>1, <1>2 DEF Spliced
  <2>5. Cuts(Spliced(h, start, <<>>, b), h, start, <<>>, b)
    BY <1>1, <1>2, <2>3, NoneQuiet, QuietCuts
  <2> QED BY <1>1, <2>1, <2>2, <2>4, <2>5, CutMends, Zenon
<1> QED BY <1>3, <1>4

LEMMA SummaryQuiet ==
  ASSUME NEW h, NEW cut
  PROVE  SummaryOf(h, cut) \in Seq(Messages)
         /\ \A i \in 1 .. Len(SummaryOf(h, cut)) : Quiet(SummaryOf(h, cut)[i])
<1>1. Quiet(Plain("user", "summary")) /\ Quiet(Plain("assistant", "summary"))
  BY PlainQuiet DEF Roles, Kinds
<1>2. SummaryOf(h, cut) \in {<<>>, <<Plain("user", "summary")>>, <<Plain("assistant", "summary")>>}
  <2> DEFINE before == h[HeadEnd(h)].role
             after == IF cut < Len(h) THEN h[cut + 1].role ELSE "user"
             first == IF before \in {"assistant", "tool"} THEN "user" ELSE "assistant"
             other == IF first = "user" THEN "assistant" ELSE "user"
  <2>1. SummaryOf(h, cut) = CASE first # after -> <<Plain(first, "summary")>>
                              [] first = after /\ other # before -> <<Plain(other, "summary")>>
                              [] OTHER -> <<>>
    BY Zenon DEF SummaryOf
  <2>2. first \in {"user", "assistant"} /\ other \in {"user", "assistant"}
    OBVIOUS
  <2> HIDE DEF first, other, after, before
  <2>3. SummaryOf(h, cut) \in {<<>>, <<Plain(first, "summary")>>, <<Plain(other, "summary")>>}
    BY <2>1
  <2> QED BY <2>2, <2>3
<1> QED
  BY <1>1, <1>2, OneQuiet, NoneQuiet, Zenon

LEMMA CompressedMends ==
  ASSUME NEW h, Mended(h), NEW walk \in Int, ~Overruns(h, walk)
  PROVE  Mended(Compressed(h, walk))
<1>1. Wellformed(h) /\ Mendable(h) /\ h \in Seq(Messages)
  BY DEF Mended, Mendable, Wellformed
<1>2. CASE TooShort(h)
  <2>1. Compressed(h, walk) = Sanitize(h)
    BY <1>2, Zenon DEF Compressed
  <2> QED BY <1>1, <2>1, SanitizePairs, Zenon
<1>3. CASE ~TooShort(h)
  <2> DEFINE a == HeadEnd(h)  b == TailCut(h, walk)  mid == SummaryOf(h, b)
  <2>1. Compressed(h, walk) = Sanitize(Spliced(h, a, mid, b))
    BY <1>3, Zenon DEF Compressed, Spliced
  <2>2. a \in 0 .. Len(h) /\ (a = Len(h) \/ ~IsTool(h[a + 1]))
    BY <1>1, <1>3, HeadIs, ProtectFirstAssumption
  <2>3. b \in Int /\ b > a /\ ~(b > Len(h))
    BY <1>1, <1>3, TailIs DEF Overruns
  <2> HIDE DEF a, b
  <2>4. b \in a .. Len(h)
    BY <2>2, <2>3
  <2>5. mid \in Seq(Messages) /\ \A i \in 1 .. Len(mid) : Quiet(mid[i])
    BY SummaryQuiet
  <2> HIDE DEF mid
  <2>6. CleanHead(h, a)
    BY <2>2 DEF CleanHead
  <2>7. Cuts(Spliced(h, a, mid, b), h, a, mid, b)
    BY <1>1, <2>2, <2>4, <2>5, QuietCuts
  <2> QED BY <1>1, <2>1, <2>6, <2>7, CutMends, Zenon
<1> QED BY <1>2, <1>3

(* A history that is cut from its start, behind one message at most.       *)
LEMMA TailMends ==
  ASSUME NEW h, Mended(h), NEW b \in 0 .. Len(h), NEW mid \in Seq(Messages),
         \A i \in 1 .. Len(mid) : Quiet(mid[i])
  PROVE  /\ Mended(Sanitize(mid \o SubSeq(h, b + 1, Len(h))))
         /\ \A g : g = Sanitize(mid \o SubSeq(h, b + 1, Len(h))) =>
              \A k \in 1 .. Len(g) : IsTool(g[k]) /\ g[k].id # NoId => Led(g, k)
<1>1. Wellformed(h) /\ Mendable(h) /\ h \in Seq(Messages) /\ Len(h) \in Nat
  BY DEF Mended, Mendable, Wellformed
<1>2. mid \o SubSeq(h, b + 1, Len(h)) = Spliced(h, 0, mid, b)
  BY <1>1 DEF Spliced
<1>3. 0 \in 0 .. Len(h) /\ CleanHead(h, 0)
  BY <1>1 DEF CleanHead
<1>4. Cuts(Spliced(h, 0, mid, b), h, 0, mid, b)
  BY <1>1, <1>3, QuietCuts
<1>5. Mendable(Spliced(h, 0, mid, b))
  BY <1>1, <1>3, <1>4, CutLoose, Zenon
<1> QED
  BY <1>2, <1>5, SanitizePairs, Zenon

LEMMA LegacyMends ==
  ASSUME NEW h, Mended(h), NEW keep \in Nat
  PROVE  Mended(LegacyCompacted(h, keep))
<1> DEFINE start == IF HasSystem(h) THEN 1 ELSE 0
           compact == Max({Len(h) - start - keep, 0})
           ends == { c \in start + compact .. Len(h) - 1 : IsUser(h[c + 1]) }
           first == IF HasSystem(h) THEN h[1] ELSE Plain("system", "prompt")
           b == Min(ends)
<1>1. Wellformed(h) /\ h \in Seq(Messages) /\ Len(h) \in Nat
  BY DEF Mended, Mendable, Wellformed
<1>2. CASE compact = 0 \/ ends = {}
  <2>1. LegacyCompacted(h, keep) = h
    BY <1>2, Zenon DEF LegacyCompacted
  <2> QED BY <2>1
<1>3. CASE ~(compact = 0 \/ ends = {})
  <2>1. LegacyCompacted(h, keep) = Sanitize(<<first>> \o SubSeq(h, b + 1, Len(h)))
    BY <1>3, Zenon DEF LegacyCompacted
  <2>2. Quiet(first)
    <3>1. Quiet(Plain("system", "prompt"))
      BY PlainQuiet DEF Roles, Kinds
    <3> QED BY <1>1, <3>1, SystemQuiet
  <2>3. start \in Nat
    OBVIOUS
  <2> HIDE DEF first, start
  <2>4. compact \in Nat
    <3> DEFINE x == Len(h) - start - keep
    <3>1. x \in Int
      BY <1>1, <2>3
    <3> HIDE DEF x
    <3>2. Max({x, 0}) = IF x >= 0 THEN x ELSE 0
      BY <3>1, MaxOfTwo
    <3> QED BY <3>1, <3>2 DEF x
  <2> HIDE DEF compact
  <2>5. ends \subseteq 0 .. Len(h) - 1
    BY <1>1, <2>3, <2>4
  <2> HIDE DEF ends
  <2>6. b \in 0 .. Len(h)
    <3>1. b \in ends
      BY <1>1, <1>3, <2>5, MinIs
    <3> HIDE DEF b
    <3> QED BY <1>1, <2>5, <3>1
  <2> HIDE DEF b
  <2>7. <<first>> \in Seq(Messages) /\ \A i \in 1 .. Len(<<first>>) : Quiet(<<first>>[i])
    BY <2>2, OneQuiet, Zenon
  <2> QED BY <2>1, <2>6, <2>7, TailMends, Zenon
<1> QED BY <1>2, <1>3

(* What the window shows is in order, too.                                 *)
LEMMA WindowPaired ==
  ASSUME NEW h, Mended(h)
  PROVE  Mended(Window(h))
<1> DEFINE mid == IF HasSystem(h) THEN <<h[1]>> ELSE <<>>
           b == Len(h) - WindowKeep
<1>1. Wellformed(h) /\ h \in Seq(Messages) /\ Len(h) \in Nat
  BY DEF Mended, Mendable, Wellformed
<1>2. CASE Len(h) <= WindowOver
  <2>1. Window(h) = h
    BY <1>2, Zenon DEF Window
  <2> QED BY <2>1
<1>3. CASE ~(Len(h) <= WindowOver)
  <2>1. Window(h) = Sanitize(mid \o SubSeq(h, b + 1, Len(h)))
    BY <1>3, Zenon DEF Window
  <2>2. mid \in Seq(Messages) /\ \A i \in 1 .. Len(mid) : Quiet(mid[i])
    BY <1>1, SystemQuiet, OneQuiet, NoneQuiet, Zenon
  <2> HIDE DEF mid
  <2>3. b \in 0 .. Len(h)
    <3> DEFINE N == Len(h)
    <3>1. N \in Nat /\ ~(N <= WindowOver)
      BY <1>1, <1>3
    <3> HIDE DEF N
    <3>2. N - WindowKeep \in 0 .. N
      BY <3>1, WindowAssumption
    <3> QED BY <3>2, Zenon DEF N
  <2> HIDE DEF b
  <2> QED BY <2>1, <2>2, <2>3, TailMends, Zenon
<1> QED BY <1>2, <1>3

-----------------------------------------------------------------------------
(* Replies.                                                                *)

(* What a reply leaves: the message that makes its calls and the results,  *)
(* the ids of both newer than newest.                                      *)
Replied(h, said, results) == Append(h, said) \o results

LEMMA CallKeeps ==
  ASSUME NEW h, Mended(h), NEW newest \in Nat,
         \A id \in Called(h) \cup Answered(h) : id <= newest,
         NEW said \in Messages, MessageOK(said), ~IsTool(said),
         \A id \in CallIds(said) : id > newest,
         NEW results \in Seq(Messages),
         \A k \in 1 .. Len(results) :
           /\ IsTool(results[k]) /\ MessageOK(results[k])
           /\ results[k].id # NoId => said.kind = "json" \/ Calls(said, results[k].id)
           /\ results[k].id \in CallIds(said) \cup {NoId, Blank} \/ results[k].id > newest,
         NEW g, g = Replied(h, said, results)
  PROVE  Mended(g)
<1> DEFINE N == Len(h)  R == Len(results)
<1>1. /\ h \in Seq(Messages) /\ N \in Nat /\ R \in Nat /\ Wellformed(h) /\ Loose(h)
      /\ Distinct(h) /\ Paired(h)
  BY DEF Mended, Mendable, Wellformed
<1>2. /\ g \in Seq(Messages) /\ Len(g) = N + 1 + R
      /\ \A i \in 1 .. N : g[i] = h[i]
      /\ g[N + 1] = said
      /\ \A i \in N + 2 .. N + 1 + R : g[i] = results[i - (N + 1)] /\ i - (N + 1) \in 1 .. R
  <2> DEFINE q == Append(h, said)
  <2>1. q \in Seq(Messages) /\ Len(q) = N + 1 /\ (\A i \in 1 .. N : q[i] = h[i]) /\ q[N + 1] = said
    BY <1>1
  <2>2. g = q \o results
    BY Zenon DEF Replied
  <2> HIDE DEF q
  <2>3. /\ g \in Seq(Messages) /\ Len(g) = Len(q) + Len(results)
        /\ \A i \in 1 .. Len(q) : g[i] = q[i]
        /\ \A i \in Len(q) + 1 .. Len(q) + Len(results) : g[i] = results[i - Len(q)]
    <3>1. q \in Seq(Messages)
      BY <2>1
    <3> QED BY <2>2, <3>1, ConcatIs
  <2> QED BY <1>1, <2>1, <2>3
<1> HIDE DEF N, R
<1>3. \A i \in 1 .. Len(g) : i \in 1 .. N \/ i = N + 1 \/ i \in N + 2 .. N + 1 + R
  BY <1>1, <1>2
<1>4. \A i \in 1 .. N : i \in 1 .. Len(g) /\ h[i] \in Messages /\ MessageOK(h[i])
  BY <1>1, <1>2 DEF Wellformed, N
<1>5. N + 1 \in 1 .. Len(g)
  BY <1>1, <1>2
<1>6. \A i \in N + 2 .. N + 1 + R :
        /\ g[i] \in Messages /\ IsTool(g[i]) /\ MessageOK(g[i]) /\ CallIds(g[i]) = {}
        /\ g[i].id # NoId => said.kind = "json" \/ Calls(said, g[i].id)
        /\ g[i].id \in CallIds(said) \cup {NoId, Blank} \/ g[i].id > newest
  <2> TAKE i \in N + 2 .. N + 1 + R
  <2> DEFINE k == i - (N + 1)
  <2>1. k \in 1 .. Len(results) /\ g[i] = results[k]
    BY <1>2 DEF R
  <2> HIDE DEF k
  <2>2. results[k] \in Messages
    BY <2>1
  <2>3. /\ IsTool(results[k]) /\ MessageOK(results[k])
        /\ results[k].id # NoId => said.kind = "json" \/ Calls(said, results[k].id)
        /\ results[k].id \in CallIds(said) \cup {NoId, Blank} \/ results[k].id > newest
    BY <2>1
  <2>4. CallIds(results[k]) = {}
    BY <2>2, <2>3, ToolsCallNothing
  <2> QED BY <2>1, <2>2, <2>3, <2>4, Zenon
<1>7. Wellformed(g)
  <2>1. \A i \in 1 .. Len(g) : MessageOK(g[i])
    BY <1>2, <1>3, <1>4, <1>6, Zenon
  <2> QED BY <1>2, <2>1 DEF Wellformed
<1>8. \A i \in 1 .. Len(g) : \A id \in CallIds(g[i]) :
        /\ id \in Nat /\ id # Blank
        /\ \/ i \in 1 .. N /\ id \in CallIds(h[i]) /\ id \in Called(h) /\ id <= newest
           \/ i = N + 1 /\ id \in CallIds(said) /\ id > newest
  <2> TAKE i \in 1 .. Len(g)
  <2> TAKE id \in CallIds(g[i])
  <2>1. id \in Nat /\ id # Blank
    <3>1. g[i] \in Messages /\ MessageOK(g[i])
      BY <1>7 DEF Wellformed
    <3> QED BY <3>1, ToolsCallNothing
  <2>2. CASE i \in 1 .. N
    <3>1. id \in Called(h)
      BY <1>1, <1>2, <2>2, InCalled, Zenon DEF N
    <3> QED BY <1>2, <2>1, <2>2, <3>1
  <2>3. CASE i = N + 1
    BY <1>2, <2>1, <2>3
  <2>4. CASE i \in N + 2 .. N + 1 + R
    BY <1>6, <2>4, Zenon
  <2> QED BY <1>3, <2>2, <2>3, <2>4, Zenon
<1>9. Distinct(g)
  <2> SUFFICES ASSUME NEW i \in 1 .. Len(g), NEW j \in 1 .. Len(g),
                      NEW id \in CallIds(g[i]), id \in CallIds(g[j])
               PROVE  i = j
    BY Zenon DEF Distinct
  <2>1. CASE i \in 1 .. N /\ j \in 1 .. N
    BY <1>1, <1>2, <2>1, Zenon DEF Distinct, N
  <2>2. CASE ~(i \in 1 .. N /\ j \in 1 .. N)
    <3> DEFINE A(x) == x \in 1 .. N /\ id \in Called(h) /\ id <= newest
               B(x) == x = N + 1 /\ id > newest
    <3>1. (A(i) \/ B(i)) /\ (A(j) \/ B(j)) /\ id \in Nat
      BY <1>8, Zenon
    <3> QED BY <2>2, <3>1
  <2> QED BY <2>1, <2>2
<1>10. ASSUME NEW i \in 1 .. N, NEW j \in 1 .. N, Leads(h, j, i)
       PROVE  Leads(g, j, i)
  <2>1. j \in 1 .. i - 1 /\ ~IsTool(h[j]) /\ \A k \in j + 1 .. i : IsTool(h[k]) /\ k \in 1 .. N
    BY <1>1, <1>10 DEF Leads
  <2> QED BY <1>2, <2>1, Zenon DEF Leads
<1>11. ASSUME NEW i \in N + 2 .. N + 1 + R
       PROVE  Leads(g, N + 1, i)
  <2>1. N + 1 \in 1 .. i - 1 /\ \A k \in N + 1 + 1 .. i : k \in N + 2 .. N + 1 + R
    BY <1>1
  <2> QED BY <1>2, <1>6, <2>1, Zenon DEF Leads
<1>12. Loose(g)
  <2> SUFFICES ASSUME NEW i \in 1 .. Len(g), IsTool(g[i]), g[i].id \in Called(g)
               PROVE  Led(g, i)
    BY Zenon DEF Loose
  <2> DEFINE id == g[i].id
  <2>1. PICK c \in 1 .. Len(g) : id \in CallIds(g[c])
    BY <1>2, InCalled, Zenon
  <2>2. id \in Nat /\ id # Blank /\ id # NoId
    <3>1. id \in Nat /\ id # Blank
      BY <1>8, <2>1, Zenon
    <3> HIDE DEF id
    <3> QED BY <3>1 DEF NoId
  <2>3. \/ id \in Called(h) /\ id <= newest
        \/ id \in CallIds(said) /\ id > newest
    BY <1>8, <2>1, Zenon
  <2>4. CASE i \in 1 .. N
    <3>1. id \in Answered(h)
      BY <1>1, <1>2, <2>2, <2>4, InAnswered, Zenon DEF N
    <3>2. id <= newest
      BY <3>1
    <3>3. id \in Called(h)
      BY <2>2, <2>3, <3>2
    <3>4. Led(h, i)
      BY <1>1, <1>2, <2>4, <3>3, Zenon DEF Loose, N
    <3>5. PICK j \in 1 .. N : Leads(h, j, i) /\ id \in CallIds(h[j])
      BY <1>2, <2>4, <3>4, Zenon DEF Led, N
    <3> QED BY <1>2, <1>4, <1>10, <2>4, <3>5, Zenon DEF Led
  <2>5. CASE i \in N + 2 .. N + 1 + R
    <3>1. id \in CallIds(said)
      <4>1. id \in CallIds(said) \cup {NoId, Blank} \/ id > newest
        BY <1>6, <2>5, Zenon
      <4> QED BY <2>2, <2>3, <4>1
    <3> QED BY <1>2, <1>5, <1>11, <2>5, <3>1, Zenon DEF Led
  <2> QED BY <1>2, <1>3, <2>4, <2>5, Zenon
<1>13. Paired(g)
  <2> SUFFICES ASSUME NEW i \in 1 .. Len(g), IsTool(g[i]), g[i].id # NoId
               PROVE  \E j \in 1 .. Len(g) : Leads(g, j, i) /\ (g[j].kind = "json" \/ Calls(g[j], g[i].id))
    BY Zenon DEF Paired
  <2>1. CASE i \in 1 .. N
    <3>1. PICK j \in 1 .. N : Leads(h, j, i) /\ (h[j].kind = "json" \/ Calls(h[j], h[i].id))
      BY <1>1, <1>2, <2>1, Zenon DEF Paired, N
    <3> QED BY <1>2, <1>4, <1>10, <2>1, <3>1, Zenon
  <2>2. CASE i \in N + 2 .. N + 1 + R
    BY <1>2, <1>5, <1>6, <1>11, <2>2, Zenon
  <2> QED BY <1>2, <1>3, <2>1, <2>2, Zenon
<1> QED BY <1>7, <1>9, <1>12, <1>13 DEF Mended, Mendable

-----------------------------------------------------------------------------
(* Fresh ids.                                                              *)

LEMMA IdsBounded ==
  ASSUME NEW m \in Messages
  PROVE  \E b \in Nat : m.id <= b /\ \A id \in CallIds(m) : id <= b
<1> DEFINE calls == m.calls
           Bound(n, b) == \A k \in 1 .. n : calls[k].id <= b
           T == { n \in Nat : n <= Len(calls) => \E b \in Nat : Bound(n, b) }
<1>1. calls \in Seq(Calling) /\ m.id \in Int
  BY DEF Messages
<1> HIDE DEF calls
<1>2. 0 \in T
  <2>1. Bound(0, 0)
    OBVIOUS
  <2> QED BY <2>1
<1>3. ASSUME NEW n \in Nat, n \in T PROVE n + 1 \in T
  <2>0. n + 1 \in Nat
    OBVIOUS
  <2> SUFFICES ASSUME n + 1 <= Len(calls) PROVE \E b \in Nat : Bound(n + 1, b)
    BY <2>0, Zenon
  <2>a. n <= Len(calls)
    BY <1>1
  <2>1. PICK b \in Nat : Bound(n, b)
    BY <1>3, <2>a, Zenon
  <2>2. calls[n + 1].id \in Nat
    <3>1. calls[n + 1] \in Calling
      BY <1>1
    <3> QED BY <3>1 DEF Calling
  <2> DEFINE d == IF calls[n + 1].id <= b THEN b ELSE calls[n + 1].id
  <2>3. ASSUME NEW k \in 1 .. n + 1 PROVE calls[k].id <= d
    <3>1. CASE k = n + 1
      BY <2>2, <3>1
    <3>2. CASE k \in 1 .. n
      <4>1. calls[k].id <= b
        BY <2>1, <3>2
      <4>2. calls[k].id \in Nat
        <5>1. calls[k] \in Calling
          BY <1>1
        <5> QED BY <5>1 DEF Calling
      <4> QED BY <2>2, <4>1, <4>2
    <3> QED BY <3>1, <3>2
  <2>4. d \in Nat
    BY <2>2
  <2> QED BY <2>3, <2>4
<1> HIDE DEF T
<1>4. Len(calls) \in T
  BY <1>1, <1>2, <1>3, Induction
<1>5. PICK b \in Nat : \A k \in 1 .. Len(calls) : calls[k].id <= b
  BY <1>1, <1>4 DEF T
<1> DEFINE d == IF m.id <= b THEN b ELSE m.id
<1>6. d \in Nat /\ m.id <= d /\ b <= d
  BY <1>1
<1>7. ASSUME NEW id \in CallIds(m) PROVE id <= d
  <2>1. PICK k \in DOMAIN m.calls : m.calls[k].id = id
    BY InCallIds, Zenon DEF Calls
  <2>2. k \in 1 .. Len(calls) /\ calls[k].id = id
    BY <1>1, <2>1 DEF calls
  <2>3. calls[k].id \in Nat
    <3>1. calls[k] \in Calling
      BY <1>1, <2>2
    <3> QED BY <3>1 DEF Calling
  <2>4. calls[k].id <= b
    BY <1>5, <2>2
  <2> QED BY <1>6, <2>2, <2>3, <2>4
<1> QED BY <1>6, <1>7

LEMMA NewestIs ==
  ASSUME NEW h, Wellformed(h)
  PROVE  LET newest == Max(Called(h) \cup Answered(h) \cup {Blank})
         IN  newest \in Nat /\ \A id \in Called(h) \cup Answered(h) : id <= newest
<1> DEFINE U == Called(h) \cup Answered(h) \cup {Blank}
           Bound(n, b) == \A k \in 1 .. n : h[k].id <= b /\ \A id \in CallIds(h[k]) : id <= b
           T == { n \in Nat : n <= Len(h) => \E b \in Nat : Bound(n, b) }
<1>1. h \in Seq(Messages) /\ \A k \in 1 .. Len(h) : MessageOK(h[k])
  BY DEF Wellformed
<1>a. \A k \in 1 .. Len(h) : h[k].id \in Int /\ \A id \in CallIds(h[k]) : id \in Nat
  <2> TAKE k \in 1 .. Len(h)
  <2>1. h[k] \in Messages /\ MessageOK(h[k])
    BY <1>1
  <2> QED BY <2>1, ToolsCallNothing DEF Messages
<1>2. 0 \in T
  <2>1. Bound(0, 0)
    OBVIOUS
  <2> QED BY <2>1
<1>3. ASSUME NEW n \in Nat, n \in T PROVE n + 1 \in T
  <2> SUFFICES ASSUME n + 1 <= Len(h) PROVE \E b \in Nat : Bound(n + 1, b)
    OBVIOUS
  <2>a. n <= Len(h)
    BY <1>1
  <2>1. PICK b \in Nat : Bound(n, b)
    BY <1>3, <2>a, Zenon
  <2>2. PICK c \in Nat : h[n + 1].id <= c /\ \A id \in CallIds(h[n + 1]) : id <= c
    <3>1. h[n + 1] \in Messages
      BY <1>1
    <3> QED BY <3>1, IdsBounded
  <2> DEFINE d == IF c <= b THEN b ELSE c
  <2>4. d \in Nat /\ b <= d /\ c <= d
    OBVIOUS
  <2> HIDE DEF d
  <2>3. ASSUME NEW k \in 1 .. n + 1
        PROVE  h[k].id <= d /\ \A id \in CallIds(h[k]) : id <= d
    <3>0. k \in 1 .. Len(h)
      BY <1>1
    <3>4. PICK e \in Nat : e <= d /\ h[k].id <= e /\ \A id \in CallIds(h[k]) : id <= e
      BY <2>1, <2>2, <2>4
    <3> QED BY <1>a, <2>4, <3>0, <3>4
  <2> QED BY <2>3, <2>4
<1> HIDE DEF T
<1>4. Len(h) \in T
  BY <1>1, <1>2, <1>3, Induction
<1>5. PICK b \in Nat : \A k \in 1 .. Len(h) : h[k].id <= b /\ \A id \in CallIds(h[k]) : id <= b
  BY <1>1, <1>4 DEF T
<1>6. ASSUME NEW id \in U PROVE id \in Int /\ id <= b
  <2>1. CASE id \in Called(h)
    <3>1. PICK k \in 1 .. Len(h) : id \in CallIds(h[k])
      BY <1>1, <2>1, InCalled, Zenon
    <3> QED BY <1>5, <1>a, <3>1
  <2>2. CASE id \in Answered(h)
    <3>1. PICK k \in 1 .. Len(h) : h[k].id = id
      BY <1>1, <2>2, InAnswered, Zenon
    <3> QED BY <1>5, <1>a, <3>1
  <2>3. CASE id = Blank
    BY <2>3 DEF Blank
  <2> QED BY <2>1, <2>2, <2>3
<1>7. Blank \in U /\ Blank = 0
  BY DEF Blank
<1>8. \A id \in Called(h) \cup Answered(h) : id \in U
  OBVIOUS
<1> HIDE DEF U
<1>9. Max(U) \in U /\ \A id \in U : id <= Max(U)
  <2>1. U \in SUBSET Int /\ U # {} /\ b \in Int /\ \A id \in U : id <= b
    BY <1>6, <1>7
  <2> QED BY <2>1, MaxIs
<1>10. Max(U) \in Nat
  <2>1. Max(U) \in Int /\ 0 <= Max(U)
    BY <1>6, <1>7, <1>9
  <2> QED BY <2>1
<1> QED
  BY <1>8, <1>9, <1>10 DEF U

(* The results of a reply answer calls of it.                              *)
LEMMA ResultsAre ==
  ASSUME NEW C, NEW calls \in Seq(C), \A c \in C : c.id \in Int, NEW died
  PROVE  /\ ResultsOf(Deduped(calls), died) \in Seq(Messages)
         /\ \A k \in 1 .. Len(ResultsOf(Deduped(calls), died)) :
              \E c \in C : LET m == ResultsOf(Deduped(calls), died)[k]
                           IN  IsTool(m) /\ MessageOK(m) /\ m.id = c.id
<1> DEFINE run == Deduped(calls)
           alive == { k \in DOMAIN run : run[k].tool \notin died }
           lost == { k \in DOMAIN run \ alive : /\ run[k].id # NoId
                                                /\ \A l \in alive : run[l].id # run[k].id }
           all == Picked(run, alive) \o Picked(run, lost)
           results == [k \in DOMAIN all |-> Result("result", all[k].id)]
<1>1. run \in Seq(C)
  BY PickedMap DEF Deduped
<1>2. ResultsOf(run, died) = results
  BY Zenon DEF ResultsOf
<1> HIDE DEF run
<1>3. Picked(run, alive) \in Seq(C) /\ Picked(run, lost) \in Seq(C)
  BY <1>1, PickedMap
<1>4. all \in Seq(C)
  BY <1>3
<1> HIDE DEF all
<1>5. ASSUME NEW k \in 1 .. Len(all)
      PROVE  /\ results[k] \in Messages /\ IsTool(results[k]) /\ MessageOK(results[k])
             /\ all[k] \in C /\ results[k].id = all[k].id
  <2> DEFINE id == all[k].id  m == Result("result", id)
  <2>1. all[k] \in C /\ id \in Int /\ results[k] = m
    BY <1>4
  <2>2. "result" \in Kinds
    BY DEF Kinds
  <2> HIDE DEF results, id
  <2>3. m \in Messages /\ IsTool(m) /\ MessageOK(m) /\ m.id = id
    BY <2>1, <2>2, ResultIs, Zenon
  <2> HIDE DEF m
  <2> QED BY <2>1, <2>3, Zenon DEF id
<1>6. results \in Seq(Messages) /\ Len(results) = Len(all)
  <2>1. results = [k \in 1 .. Len(all) |-> results[k]] /\ Len(all) \in Nat
    BY <1>4
  <2> HIDE DEF results
  <2> QED BY <1>5, <2>1
<1> HIDE DEF results
<1> QED
  BY <1>2, <1>5, <1>6, Zenon DEF run

LEMMA CallsOfAre ==
  ASSUME NEW reply \in Replies, NEW style \in Styles, NEW newest \in Nat, newest = NewestId
  PROVE  /\ CallsOf(reply, style) \in Seq([tool : Tools, id : Int])
         /\ \A k \in DOMAIN CallsOf(reply, style) :
              CASE style = "blank" -> CallsOf(reply, style)[k].id = Blank
                [] style = "xml" -> CallsOf(reply, style)[k].id = NoId
                [] OTHER -> CallsOf(reply, style)[k].id \in Nat /\ CallsOf(reply, style)[k].id > newest
<1> DEFINE Id(k) == CASE style = "blank" -> Blank
                      [] style = "xml" -> NoId
                      [] OTHER -> newest + k
           calls == [k \in DOMAIN reply |-> [tool |-> reply[k], id |-> Id(k)]]
<1>1. CallsOf(reply, style) = calls
  BY Zenon DEF CallsOf
<1>2. reply \in Seq(ToSet(reply))
  BY RepliesAssumption
<1>3. DOMAIN reply = 1 .. Len(reply) /\ Len(reply) \in Nat
  BY <1>2
<1>4. \A k \in 1 .. Len(reply) : reply[k] \in Tools
  <2>1. \A k \in 1 .. Len(reply) : reply[k] \in ToSet(reply)
    BY <1>2
  <2> QED BY <2>1, Zenon DEF Tools
<1>5. \A k \in 1 .. Len(reply) : Id(k) \in Int
  BY DEF Blank, NoId
<1>6. \A k \in 1 .. Len(reply) : [tool |-> reply[k], id |-> Id(k)] \in [tool : Tools, id : Int]
  <2> HIDE DEF Id
  <2> QED BY <1>4, <1>5
<1>7. calls \in Seq([tool : Tools, id : Int]) /\ DOMAIN calls = 1 .. Len(reply)
      /\ \A k \in 1 .. Len(reply) : calls[k].id = Id(k)
  <2> HIDE DEF Id
  <2> QED BY <1>3, <1>6
<1> HIDE DEF calls
<1>8. ASSUME NEW k \in DOMAIN calls
      PROVE  CASE style = "blank" -> calls[k].id = Blank
               [] style = "xml" -> calls[k].id = NoId
               [] OTHER -> calls[k].id \in Nat /\ calls[k].id > newest
  <2>1. calls[k].id = Id(k) /\ k \in 1 .. Len(reply)
    BY <1>7
  <2> QED BY <2>1
<1> QED
  BY <1>1, <1>7, <1>8, Zenon

LEMMA CallMends ==
  ASSUME NEW reply \in Replies, NEW style \in Styles, NEW died, Mended(history),
         NEW said, said = IF style \in {"native", "blank"}
                          THEN [Plain("assistant", "calls") EXCEPT !.calls = CallsOf(reply, style)]
                          ELSE Plain("assistant", style)
  PROVE  /\ Mended(Append(history, said) \o ResultsOf(Deduped(CallsOf(reply, style)), died))
         /\ Mended(Append(history, said))
         /\ said \in Messages /\ ~IsTool(said)
         /\ ResultsOf(Deduped(CallsOf(reply, style)), died) \in Seq(Messages)
         /\ \A k \in 1 .. Len(ResultsOf(Deduped(CallsOf(reply, style)), died)) :
              IsTool(ResultsOf(Deduped(CallsOf(reply, style)), died)[k])
<1> DEFINE calls == CallsOf(reply, style)  newest == NewestId
           results == ResultsOf(Deduped(calls), died)
<1>1. Wellformed(history)
  BY DEF Mended, Mendable
<1>2. newest \in Nat /\ \A id \in Called(history) \cup Answered(history) : id <= newest
  BY <1>1, NewestIs DEF NewestId
<1>3. /\ calls \in Seq([tool : Tools, id : Int])
      /\ \A k \in DOMAIN calls :
              CASE style = "blank" -> calls[k].id = Blank
                [] style = "xml" -> calls[k].id = NoId
                [] OTHER -> calls[k].id \in Nat /\ calls[k].id > newest
  BY <1>2, CallsOfAre
<1>9. /\ DOMAIN calls = 1 .. Len(calls) /\ Len(calls) \in Nat
      /\ \A k \in DOMAIN calls : calls[k] \in [tool : Tools, id : Int]
  <2>1. calls \in Seq([tool : Tools, id : Int])
    BY <1>3, Zenon
  <2> HIDE DEF calls
  <2> QED BY <2>1, SeqIs, Zenon
<1> HIDE DEF newest
<1> DEFINE C == { c \in [tool : Tools, id : Int] : \E k \in DOMAIN calls : c = calls[k] }
<1>4. results \in Seq(Messages)
      /\ \A k \in 1 .. Len(results) :
           \E c \in C : IsTool(results[k]) /\ MessageOK(results[k]) /\ results[k].id = c.id
  <2> HIDE DEF calls
  <2>1. calls \in Seq(C)
    <3>1. \A k \in 1 .. Len(calls) : calls[k] \in C
      BY <1>9, Zenon
    <3>2. calls = [k \in 1 .. Len(calls) |-> calls[k]] /\ Len(calls) \in Nat
      BY <1>3
    <3> HIDE DEF C
    <3> QED BY <3>1, <3>2
  <2>2. \A c \in C : c.id \in Int
    OBVIOUS
  <2> HIDE DEF C
  <2> QED BY <2>1, <2>2, ResultsAre, Zenon
<1> HIDE DEF results, calls
<1>5. \A k \in 1 .. Len(results) :
        IsTool(results[k]) /\ MessageOK(results[k]) /\ \E n \in DOMAIN calls : results[k].id = calls[n].id
  BY <1>4
<1>6. said \in Messages /\ MessageOK(said) /\ ~IsTool(said) /\ (\A id \in CallIds(said) : id > newest)
      /\ \A n \in DOMAIN calls :
           /\ calls[n].id # NoId => said.kind = "json" \/ Calls(said, calls[n].id)
           /\ calls[n].id \in CallIds(said) \cup {NoId, Blank} \/ calls[n].id > newest
  <2>1. CASE style \in {"native", "blank"}
    <3>1. \A k \in DOMAIN calls : calls[k] \in Calling /\ (calls[k].id = Blank \/ calls[k].id > newest)
      <4> TAKE k \in DOMAIN calls
      <4>1. calls[k] \in [tool : Tools, id : Int]
        BY <1>9, Zenon
      <4>2. calls[k].id \in Nat /\ (calls[k].id = Blank \/ calls[k].id > newest)
        BY <1>3, <2>1 DEF Blank
      <4> QED BY <4>1, <4>2 DEF Calling
    <3>2. calls \in Seq(Calling)
      <4>1. calls = [k \in 1 .. Len(calls) |-> calls[k]] /\ Len(calls) \in Nat /\ DOMAIN calls = 1 .. Len(calls)
        BY <1>3
      <4> QED BY <3>1, <4>1
    <3>3. "calls" \in Kinds
      BY DEF Kinds
    <3>4. said \in Messages /\ MessageOK(said) /\ ~IsTool(said) /\ said.calls = calls
      BY <2>1, <3>2, <3>3, CallsAre, Zenon DEF calls
    <3>5. \A n \in DOMAIN calls : Calls(said, calls[n].id)
      BY <3>4, Zenon DEF Calls
    <3>6. \A id \in CallIds(said) : id > newest
      <4> TAKE id \in CallIds(said)
      <4>1. PICK n \in DOMAIN calls : calls[n].id = id
        BY <3>4, InCallIds, Zenon DEF Calls
      <4>2. id # Blank
        BY InCallIds, Zenon
      <4> QED BY <3>1, <4>1, <4>2, Zenon
    <3>7. \A n \in DOMAIN calls : calls[n].id = Blank \/ calls[n].id \in CallIds(said)
      BY <3>5, InCallIds, Zenon
    <3> QED BY <3>4, <3>5, <3>6, <3>7, Zenon
  <2>2. CASE style \in {"xml", "json"}
    <3>1. said = Plain("assistant", style) /\ style \in Kinds /\ "assistant" \in Roles
      BY <2>2 DEF Kinds, Roles
    <3>2. Quiet(said) /\ said.kind = style
      BY <3>1, PlainQuiet, PlainIs
    <3>3. \A n \in DOMAIN calls : IF style = "xml" THEN calls[n].id = NoId ELSE calls[n].id > newest
      BY <1>3, <2>2
    <3> HIDE DEF calls
    <3>4. \A n \in DOMAIN calls :
           /\ calls[n].id # NoId => said.kind = "json" \/ Calls(said, calls[n].id)
           /\ calls[n].id \in CallIds(said) \cup {NoId, Blank} \/ calls[n].id > newest
      BY <2>2, <3>2, <3>3
    <3> QED BY <3>2, <3>4, Zenon DEF Quiet
  <2> QED BY <2>1, <2>2 DEF Styles
<1>7. Mended(Replied(history, said, results))
  <2>1. \A k \in 1 .. Len(results) :
           /\ IsTool(results[k]) /\ MessageOK(results[k])
           /\ results[k].id # NoId => said.kind = "json" \/ Calls(said, results[k].id)
           /\ results[k].id \in CallIds(said) \cup {NoId, Blank} \/ results[k].id > newest
    BY <1>5, <1>6, Zenon
  <2> QED BY <1>2, <1>4, <1>6, <2>1, CallKeeps, Zenon
<1>8. Mended(Replied(history, said, <<>>)) /\ Replied(history, said, <<>>) = Append(history, said)
  <2> DEFINE none == <<>>
  <2>1. Replied(history, said, <<>>) = Append(history, said)
    BY <1>1, <1>6 DEF Replied, Wellformed
  <2>2. none \in Seq(Messages) /\ \A k \in 1 .. Len(none) : FALSE
    OBVIOUS
  <2> HIDE DEF none
  <2>3. Mended(Replied(history, said, none))
    BY <1>2, <1>6, <2>2, CallKeeps, Zenon
  <2> QED BY <2>1, <2>3 DEF none
<1> QED
  BY <1>4, <1>5, <1>6, <1>7, <1>8, Zenon DEF Replied, results, calls

-----------------------------------------------------------------------------
(* The turns.                                                              *)

OnlyResults(h) == \A i \in ProtectFirst + 1 .. Len(h) : IsTool(h[i])

HistoryInv ==
  /\ pc \in Phases
  /\ Mended(history)
  /\ pc = "aborted" => OnlyResults(history)

LEMMA EmptyMended == Mended(<<>>)
<1> DEFINE none == <<>>
<1>1. none \in Seq(Messages) /\ Len(none) = 0
  OBVIOUS
<1> HIDE DEF none
<1>2. Mended(none)
  BY <1>1 DEF Mended, Mendable, Wellformed, Loose, Distinct, Paired
<1> QED BY <1>2 DEF none

LEMMA InitHistory == Init => HistoryInv
BY EmptyMended DEF Init, HistoryInv, Phases

LEMMA AskedMends ==
  ASSUME Mended(history)
  PROVE  Mended(Asked)
<1>1. Quiet(Plain("user", "request")) /\ Quiet(Plain("system", "prompt"))
  BY PlainQuiet DEF Roles, Kinds
<1>2. Mended(Prompted(history))
  BY <1>1, EnterKeeps, Zenon DEF Prompted
<1>3. Mended(Append(Prompted(history), Plain("user", "request")))
  BY <1>1, <1>2, EnterKeeps, Zenon
<1> QED BY <1>3, HistoryAssumption, TrimMends DEF Asked

(* One call of compress, in a turn that is not aborted yet.                *)
LEMMA CompressMends ==
  ASSUME Mended(history), NEW walk \in Int, NEW effective, Compress(walk, effective)
  PROVE  /\ Mended(history')
         /\ Overruns(history, walk) => OnlyResults(history')
<1>1. CASE Overruns(history, walk)
  <2>1. history' = history
    BY <1>1, Zenon DEF Compress
  <2>2. Wellformed(history) /\ ~TooShort(history) /\ TailCut(history, walk) > Len(history)
    BY <1>1 DEF Mended, Mendable, Overruns
  <2>3. HeadEnd(history) = Len(history) /\ Len(history) \in Nat
    BY <2>2, HeadIs, TailIs
  <2>4. ASSUME NEW i \in ProtectFirst + 1 .. Len(history) PROVE IsTool(history[i])
    <3> DEFINE c == i - 1
    <3>1. c \in ProtectFirst .. Len(history) - 1 /\ c + 1 = i
      BY <2>3, ProtectFirstAssumption
    <3> HIDE DEF c
    <3>2. IsTool(history[c + 1])
      BY <2>2, <2>3, <3>1, HeadIs, Zenon
    <3> QED BY <3>1, <3>2, Zenon
  <2>5. OnlyResults(history)
    BY <2>4, Zenon DEF OnlyResults
  <2> QED BY <2>1, <2>5, Zenon
<1>2. CASE ~Overruns(history, walk)
  <2>1. history' = Compressed(history, walk)
    BY <1>2, Zenon DEF Compress
  <2> QED BY <1>2, <2>1, CompressedMends, Zenon
<1> QED BY <1>1, <1>2

LEMMA WalksAre ==
  ASSUME Mended(history), NEW walk \in WalksNow
  PROVE  walk \in Int
<1>1. CASE TooShort(history)
  BY <1>1 DEF WalksNow
<1>2. CASE ~TooShort(history)
  <2>1. walk \in Walks(history)
    BY <1>2, Zenon DEF WalksNow
  <2> QED BY <2>1 DEF Walks
<1> QED BY <1>1, <1>2

LEMMA StepHistory == HistoryInv /\ [Next]_vars => HistoryInv'
<1> SUFFICES ASSUME HistoryInv, [Next]_vars PROVE HistoryInv'
  OBVIOUS
<1>0. pc \in Phases /\ Mended(history) /\ (pc = "aborted" => OnlyResults(history))
  BY DEF HistoryInv
<1>1. ASSUME NEW provider \in BOOLEAN, NEW over \in BOOLEAN, Turn(provider, over)
      PROVE  HistoryInv'
  <2>1. history' = Asked /\ pc' \in {"preflight", "ask"}
    BY <1>1 DEF Turn
  <2>2. Mended(history')
    BY <1>0, <2>1, AskedMends, Zenon
  <2> QED BY <2>1, <2>2 DEF HistoryInv, Phases
<1>2. ASSUME NEW provider \in BOOLEAN, NEW compact \in BOOLEAN, TurnStream(provider, compact)
      PROVE  HistoryInv'
  <2>1. history' \in {Asked, LegacyCompacted(Asked, KeepRecent)} /\ pc' = "ask"
    BY <1>2 DEF TurnStream
  <2>2. Mended(Asked) /\ KeepRecent \in Nat
    BY <1>0, HistoryAssumption, AskedMends, Zenon
  <2>3. Mended(history')
    BY <2>1, <2>2, LegacyMends, Zenon
  <2> QED BY <2>1, <2>3 DEF HistoryInv, Phases
<1>3. CASE Reset
  <2>1. history' = <<>> /\ pc' = "idle"
    BY <1>3 DEF Reset
  <2> QED BY <2>1, EmptyMended, Zenon DEF HistoryInv, Phases
<1>4. ASSUME NEW walk \in WalksNow, NEW effective, NEW under, Preflight(walk, effective, under)
      PROVE  HistoryInv'
  <2>1. Compress(walk, effective) /\ pc' \in Phases
        /\ (pc' = "aborted" => Overruns(history, walk))
    BY <1>4 DEF Preflight, Phases
  <2> QED BY <1>0, <2>1, WalksAre, CompressMends, Zenon DEF HistoryInv
<1>5. CASE GiveUp
  BY <1>0, <1>5, Zenon DEF GiveUp, HistoryInv, Phases
<1>6. ASSUME NEW text, NEW repeated, Answer(text, repeated)
      PROVE  HistoryInv'
  <2> DEFINE said == Append(history, Plain("assistant", "answer"))
  <2>1. Quiet(Plain("user", "nudge")) /\ Quiet(Plain("assistant", "answer"))
    BY PlainQuiet DEF Roles, Kinds
  <2>2. Mended(said) /\ Mended(Append(said, Plain("user", "nudge")))
    BY <1>0, <2>1, EnterKeeps, Zenon
  <2>3. history' \in {said, Append(said, Plain("user", "nudge"))} /\ pc' \in {"ask", "idle"}
    BY <1>6, Zenon DEF Answer
  <2> QED BY <2>2, <2>3, Zenon DEF HistoryInv, Phases
<1>7. ASSUME NEW reply \in Replies, NEW style \in Styles, NEW talks, NEW died,
             Call(reply, style, talks, died)
      PROVE  HistoryInv'
  <2> DEFINE calls == CallsOf(reply, style)
             said == IF style \in {"native", "blank"}
                       THEN [Plain("assistant", "calls") EXCEPT !.calls = calls]
                       ELSE Plain("assistant", style)
             results == ResultsOf(Deduped(calls), died)
  <2>1. Mended(Append(history, said) \o results) /\ Mended(Append(history, said))
    BY <1>0, CallMends, Zenon
  <2>2. Quiet(Plain("user", "blocked")) /\ Quiet(Plain("user", "results"))
    BY PlainQuiet DEF Roles, Kinds
  <2>3. /\ Mended(Append(Append(history, said), Plain("user", "blocked")))
        /\ Mended(Append(Append(history, said), Plain("user", "results")))
    BY <2>1, <2>2, EnterKeeps, Zenon
  <2>4. /\ pc' \in {"ask", "settle"}
        /\ \/ history' = history \o <<said, Plain("user", "blocked")>>
           \/ history' = Append(history, said) \o results
           \/ history' = Append(history, said) \o <<Plain("user", "results")>>
    BY <1>7, Zenon DEF Call
  <2>5. said \in Messages /\ history \in Seq(Messages)
    <3>1. \A m : history \in Seq(Messages)
      BY <1>0 DEF Mended, Mendable, Wellformed
    <3>2. Append(history, said) \in Seq(Messages)
      BY <2>1, Zenon DEF Mended, Mendable, Wellformed
    <3> HIDE DEF said
    <3> QED BY <3>1, <3>2
  <2> HIDE DEF said, results
  <2>6. /\ history \o <<said, Plain("user", "blocked")>>
             = Append(Append(history, said), Plain("user", "blocked"))
        /\ Append(history, said) \o <<Plain("user", "results")>>
             = Append(Append(history, said), Plain("user", "results"))
    <3>1. Plain("user", "blocked") \in Messages /\ Plain("user", "results") \in Messages
      BY <2>2, Zenon DEF Quiet
    <3> QED BY <2>5, <3>1
  <2>7. Mended(history')
    BY <2>1, <2>3, <2>4, <2>6, Zenon
  <2> QED BY <2>4, <2>7 DEF HistoryInv, Phases
<1>8. ASSUME NEW walk \in WalksNow, NEW over, NEW effective, Settle(over, walk, effective)
      PROVE  HistoryInv'
  <2>1. CASE Compress(walk, effective) /\ pc' = IF Overruns(history, walk) THEN "aborted" ELSE "ask"
    <3>1. pc' \in Phases /\ (pc' = "aborted" => Overruns(history, walk))
      BY <2>1 DEF Phases
    <3> QED BY <1>0, <2>1, <3>1, WalksAre, CompressMends, Zenon DEF HistoryInv
  <2>2. CASE history' = history /\ pc' = "ask"
    BY <1>0, <2>2 DEF HistoryInv, Phases
  <2> QED BY <1>8, <2>1, <2>2 DEF Settle
<1>9. CASE UNCHANGED vars
  BY <1>9, <1>0, Zenon DEF vars, HistoryInv
<1> QED
  BY <1>1, <1>2, <1>3, <1>4, <1>5, <1>6, <1>7, <1>8, <1>9 DEF Next, InTurn

(* The result and the message that leads it are what the property asks.    *)
LEMMA PairedFollows ==
  ASSUME NEW h, Mended(h), NEW i \in DOMAIN h, IsTool(h[i]), h[i].id # NoId
  PROVE  FollowsItsCall(h, i)
<1>1. h \in Seq(Messages) /\ Paired(h) /\ DOMAIN h = 1 .. Len(h)
  BY DEF Mended, Mendable, Wellformed
<1>2. PICK j \in 1 .. Len(h) : Leads(h, j, i) /\ (h[j].kind = "json" \/ Calls(h[j], h[i].id))
  BY <1>1, Zenon DEF Paired
<1> DEFINE I == { k \in 1 .. i : ~IsTool(h[k]) }
           last == SelectLastInSubSeq(h, 1, i, LAMBDA m : ~IsTool(m))
<1>3. i \in 1 .. Len(h) /\ j \in I /\ \A k \in I : k <= j
  BY <1>1, <1>2 DEF Leads
<1>4. last = IF I # {} THEN Max(I) ELSE 0
  BY Zenon DEF SelectLastInSubSeq
<1>5. last = j
  <2>1. I \in SUBSET Int /\ I # {} /\ j \in Int
    BY <1>3
  <2> HIDE DEF I
  <2>2. Max(I) \in I /\ \A k \in I : k <= Max(I)
    BY <1>3, <2>1, MaxIs
  <2>3. Max(I) = j
    <3> DEFINE m == Max(I)
    <3>1. m \in Int /\ m <= j /\ j <= m
      BY <1>3, <2>1, <2>2
    <3> HIDE DEF m
    <3>2. m = j
      BY <2>1, <3>1
    <3> QED BY <3>2 DEF m
  <2> QED BY <1>4, <2>1, <2>3
<1>6. h[j].kind = "json" \/ h[i].id \in { c.id : c \in ToSet(h[j].calls) }
  BY <1>2, Zenon DEF Calls, ToSet
<1> QED
  BY <1>5, <1>6, Zenon DEF FollowsItsCall

(* Every tool result that names a call stands behind the message that made *)
(* the call in whatever the provider is sent, after any sequence of cuts,  *)
(* repairs, deduplicated calls and dead tools.                             *)
THEOREM PairsResults == Spec => []ResultsFollowCalls
<1>1. ASSUME HistoryInv PROVE ResultsFollowCalls
  <2>1. \A h \in Sendable : Mended(h)
    BY <1>1, WindowPaired, Zenon DEF HistoryInv, Sendable
  <2> QED BY <2>1, PairedFollows, Zenon DEF ResultsFollowCalls
<1> QED BY <1>1, InitHistory, StepHistory, PTL DEF Spec

(* compress ends the process on no history but one that has nothing but    *)
(* results behind the protected head.                                      *)
THEOREM AbortsRarely == Spec => []AbortsOnlyOnResults
<1>1. HistoryInv => AbortsOnlyOnResults
  BY DEF HistoryInv, AbortsOnlyOnResults, OnlyResults
<1> QED BY <1>1, InitHistory, StepHistory, PTL DEF Spec

-----------------------------------------------------------------------------
(* The last message of the user's side.                                    *)

LEMMA LastAskIs ==
  ASSUME NEW S, NEW h \in Seq(S)
  PROVE  /\ LastAsk(h) \in 0 .. Len(h)
         /\ LastAsk(h) # 0 => IsAsk(h[LastAsk(h)])
         /\ \A i \in 1 .. Len(h) : IsAsk(h[i]) => i <= LastAsk(h)
<1> DEFINE I == { i \in 1 .. Len(h) : IsAsk(h[i]) }  L == LastAsk(h)
<1>1. L = IF I # {} THEN Max(I) ELSE 0
  BY Zenon DEF LastAsk, SelectLastInSeq
<1>2. I \subseteq 1 .. Len(h) /\ Len(h) \in Nat
  OBVIOUS
<1>3. CASE I = {}
  <2>1. L = 0
    BY <1>1, <1>3
  <2>2. \A i \in 1 .. Len(h) : ~IsAsk(h[i])
    BY <1>3
  <2> HIDE DEF L, I
  <2> QED BY <1>2, <2>1, <2>2 DEF L
<1>4. CASE I # {}
  <2>1. L = Max(I)
    BY <1>1, <1>4
  <2>2. L \in I /\ \A i \in I : i <= L
    <3> HIDE DEF I, L
    <3>1. I \in SUBSET Int /\ Len(h) \in Int /\ \A i \in I : i <= Len(h)
      BY <1>2
    <3>2. Max(I) \in I /\ \A i \in I : i <= Max(I)
      BY <1>4, <3>1, MaxIs
    <3> QED BY <2>1, <3>2
  <2> HIDE DEF L
  <2>3. L \in 1 .. Len(h) /\ IsAsk(h[L])
    BY <2>2
  <2> QED BY <1>2, <2>2, <2>3 DEF L
<1> QED BY <1>3, <1>4

LEMMA LastAskAt ==
  ASSUME NEW S, NEW h \in Seq(S), NEW L \in 0 .. Len(h), L # 0 => IsAsk(h[L]),
         \A i \in 1 .. Len(h) : IsAsk(h[i]) => i <= L
  PROVE  LastAsk(h) = L
<1> DEFINE M == LastAsk(h)
<1>1. /\ M \in 0 .. Len(h) /\ (M # 0 => IsAsk(h[M]))
      /\ \A i \in 1 .. Len(h) : IsAsk(h[i]) => i <= M
  BY LastAskIs
<1> HIDE DEF M
<1>2. M <= L /\ L <= M
  BY <1>1
<1> QED BY <1>1, <1>2 DEF M

-----------------------------------------------------------------------------
(* The repair keeps what is no result, in its order.                       *)

LEMMA RepairsKeep ==
  ASSUME NEW h, Wellformed(h), NEW s, NEW from, NEW own, Repairs(from, own, s, h)
  PROVE  /\ \A k \in 1 .. Len(s) : from[k] \in 1 .. Len(h)
         /\ \A k \in 1 .. Len(s) : ~IsTool(s[k]) => own[k]
         /\ \A k \in 1 .. Len(s) : own[k] => s[k] = h[from[k]]
         /\ \A k, l \in 1 .. Len(s) : k < l /\ own[l] => from[k] < from[l]
         /\ \A k, l \in 1 .. Len(s) : k < l => from[k] <= from[l]
         /\ \A i \in 1 .. Len(h) : ~IsTool(h[i]) =>
              \E k \in 1 .. Len(s) : from[k] = i /\ own[k] /\ s[k] = h[i]
<1>1. /\ \A k \in 1 .. Len(s) : from[k] \in 1 .. Len(h) /\ own[k] \in BOOLEAN
      /\ \A k \in 1 .. Len(s) : (own[k] => s[k] = h[from[k]]) /\ (~own[k] => IsTool(s[k]))
      /\ \A k, l \in 1 .. Len(s) : k < l => from[k] < from[l] \/ (from[k] = from[l] /\ ~own[l])
      /\ \A i \in 1 .. Len(h) : ~IsTool(h[i]) => \E k \in 1 .. Len(s) : from[k] = i /\ own[k]
  BY Zenon DEF Repairs
<1>2. ASSUME NEW k \in 1 .. Len(s), NEW l \in 1 .. Len(s), k < l PROVE from[k] <= from[l]
  BY <1>1, <1>2
<1>3. ASSUME NEW k \in 1 .. Len(s), NEW l \in 1 .. Len(s), k < l, own[l] PROVE from[k] < from[l]
  BY <1>1, <1>3, Zenon
<1>4. ASSUME NEW i \in 1 .. Len(h), ~IsTool(h[i])
      PROVE  \E k \in 1 .. Len(s) : from[k] = i /\ own[k] /\ s[k] = h[i]
  <2>1. PICK k \in 1 .. Len(s) : from[k] = i /\ own[k]
    BY <1>1, <1>4, Zenon
  <2> QED BY <1>1, <2>1, Zenon
<1>5. \A k \in 1 .. Len(s) : ~IsTool(s[k]) => own[k]
  BY <1>1, Zenon
<1>6. /\ \A k \in 1 .. Len(s) : from[k] \in 1 .. Len(h)
      /\ \A k \in 1 .. Len(s) : own[k] => s[k] = h[from[k]]
  BY <1>1, Zenon
<1> QED BY <1>2, <1>3, <1>4, <1>5, <1>6

LEMMA SanitizeKeepsSince ==
  ASSUME NEW h, Wellformed(h)
  PROVE  SinceAsk(Sanitize(h)) = SinceAsk(h)
<1> DEFINE s == Sanitize(h)  L == LastAsk(h)
<1>1. Wellformed(s) /\ h \in Seq(Messages) /\ s \in Seq(Messages)
  BY SanitizeMap DEF Wellformed
<1>2. PICK from, own : Repairs(from, own, s, h)
  BY SanitizeMap, Zenon
<1>3. /\ L \in 0 .. Len(h) /\ (L # 0 => IsAsk(h[L]))
      /\ \A i \in 1 .. Len(h) : IsAsk(h[i]) => i <= L
  BY <1>1, LastAskIs
<1> HIDE DEF s, L
<1>4. /\ \A k \in 1 .. Len(s) : from[k] \in 1 .. Len(h)
      /\ \A k \in 1 .. Len(s) : ~IsTool(s[k]) => own[k]
      /\ \A k \in 1 .. Len(s) : own[k] => s[k] = h[from[k]]
      /\ \A k, l \in 1 .. Len(s) : k < l /\ own[l] => from[k] < from[l]
      /\ \A i \in 1 .. Len(h) : ~IsTool(h[i]) =>
           \E k \in 1 .. Len(s) : from[k] = i /\ own[k] /\ s[k] = h[i]
  BY <1>2, RepairsKeep
<1>5. \A m : IsAsk(m) => ~IsTool(m)
  BY DEF IsAsk, IsUser, IsTool
<1>6. PICK at \in 0 .. Len(s) : /\ at = 0 => L = 0
                                /\ at # 0 => from[at] = L /\ own[at] /\ s[at] = h[L] /\ L # 0
  <2>1. CASE L = 0
    <3>1. 0 \in 0 .. Len(s)
      BY <1>1
    <3> QED BY <2>1, <3>1
  <2>2. CASE L # 0
    <3>1. L \in 1 .. Len(h)
      BY <1>3, <2>2
    <3>2. PICK k \in 1 .. Len(s) : from[k] = L /\ own[k] /\ s[k] = h[L]
      BY <1>3, <1>4, <1>5, <2>2, <3>1, Zenon
    <3>3. k \in 0 .. Len(s) /\ k # 0
      OBVIOUS
    <3> QED BY <2>2, <3>2, <3>3
  <2> QED BY <2>1, <2>2
<1>7. ASSUME NEW k \in 1 .. Len(s), IsAsk(s[k]) PROVE k <= at
  <2>1. own[k] /\ s[k] = h[from[k]] /\ from[k] \in 1 .. Len(h)
    BY <1>4, <1>5, <1>7
  <2>2. from[k] <= L
    BY <1>3, <1>7, <2>1
  <2>3. at # 0
    BY <1>6, <2>1, <2>2
  <2>4. CASE at < k
    <3>1. from[at] < from[k]
      BY <1>4, <2>1, <2>3, <2>4
    <3> QED BY <1>3, <1>6, <2>1, <2>2, <2>3, <3>1
  <2> QED BY <2>4
<1>8. LastAsk(s) = at
  <2>1. at # 0 => IsAsk(s[at])
    BY <1>3, <1>6
  <2> QED BY <1>1, <1>6, <1>7, <2>1, LastAskAt
<1> DEFINE J == { k \in DOMAIN s : k >= at /\ ~IsTool(s[k]) }
           I == { i \in DOMAIN h : i >= L /\ ~IsTool(h[i]) }
<1>9. SinceAsk(s) = Picked(s, J) /\ SinceAsk(h) = Picked(h, I)
  BY <1>8, Zenon DEF SinceAsk, L
<1>10. DOMAIN s = 1 .. Len(s) /\ DOMAIN h = 1 .. Len(h)
  BY <1>1
<1>11. ASSUME NEW k \in 1 .. Len(s), k \in J
       PROVE  from[k] \in 1 .. Len(h) /\ from[k] \in I /\ s[k] = h[from[k]]
  <2>1. own[k] /\ s[k] = h[from[k]] /\ from[k] \in 1 .. Len(h) /\ k >= at /\ ~IsTool(s[k])
    BY <1>4, <1>11
  <2>2. from[k] >= L
    <3>1. CASE at = 0
      BY <1>6, <2>1, <3>1
    <3>2. CASE at = k
      BY <1>6, <3>2, <2>1
    <3>3. CASE at # 0 /\ at < k
      <4>1. at \in 1 .. Len(s) /\ from[at] \in Int
        BY <1>4, <3>3
      <4>2. from[at] < from[k]
        BY <1>4, <2>1, <3>3, <4>1
      <4> QED BY <1>6, <2>1, <3>3, <4>1, <4>2
    <3> QED BY <2>1, <3>1, <3>2, <3>3
  <2> QED BY <1>10, <2>1, <2>2
<1>12. ASSUME NEW j \in 1 .. Len(s), NEW k \in 1 .. Len(s), j \in J, k \in J, j < k
       PROVE  from[j] < from[k]
  BY <1>4, <1>12
<1>13. ASSUME NEW i \in 1 .. Len(h), i \in I
       PROVE  \E k \in 1 .. Len(s) : k \in J /\ from[k] = i
  <2>1. PICK k \in 1 .. Len(s) : from[k] = i /\ own[k] /\ s[k] = h[i]
    BY <1>4, <1>13
  <2>2. k >= at
    <3> SUFFICES ASSUME k < at PROVE FALSE
      BY <1>6
    <3>1. at \in 1 .. Len(s) /\ own[at] /\ from[at] = L
      BY <1>6
    <3>2. from[k] < from[at]
      BY <1>4, <3>1
    <3> QED BY <1>3, <1>13, <2>1, <3>1, <3>2
  <2> QED BY <1>10, <1>13, <2>1, <2>2
<1> HIDE DEF I, J
<1>14. Matches(from, s, J, h, I)
  BY <1>11, <1>12, <1>13, Zenon DEF Matches
<1>15. Picked(s, J) = Picked(h, I)
  BY <1>1, <1>14, PickedAgree
<1> QED
  BY <1>9, <1>15 DEF s

-----------------------------------------------------------------------------
(* The shape of a history.                                                 *)

(* An ask in front of a summary on the user's side is the first message    *)
(* behind the system prompt.                                               *)
AsksFirst(h) ==
  \A i \in 1 .. Len(h) : IsUser(h[i]) /\ h[i].kind = "summary" =>
    \A l \in 1 .. i - 1 : IsAsk(h[l]) => l <= 2

(* No result stands right behind an ask.                                   *)
AsksAnswered(h) ==
  \A i \in 1 .. Len(h) - 1 : IsAsk(h[i]) => ~IsTool(h[i + 1])

Opened(h) == HasSystem(h) /\ AsksFirst(h) /\ AsksAnswered(h)

LEMMA AskIsNoTool ==
  ASSUME NEW h, HasSystem(h), Wellformed(h)
  PROVE  /\ Len(h) > 0 /\ ~IsAsk(h[1]) /\ ~IsTool(h[1]) /\ CallIds(h[1]) = {}
         /\ \A i \in 1 .. Len(h) : IsAsk(h[i]) => ~IsTool(h[i]) /\ CallIds(h[i]) = {}
<1>1. Len(h) > 0 /\ Quiet(h[1]) /\ h[1].role = "system"
  BY SystemQuiet DEF HasSystem
<1>2. ~IsAsk(h[1]) /\ ~IsTool(h[1]) /\ CallIds(h[1]) = {}
  BY <1>1 DEF IsAsk, IsUser, Quiet
<1>3. ASSUME NEW i \in 1 .. Len(h), IsAsk(h[i])
      PROVE  ~IsTool(h[i]) /\ CallIds(h[i]) = {}
  <2>1. h[i] \in Messages /\ MessageOK(h[i]) /\ h[i].role = "user"
    BY <1>3 DEF Wellformed, IsAsk, IsUser
  <2> QED BY <2>1, ToolsCallNothing DEF IsTool
<1> QED BY <1>1, <1>2, <1>3

LEMMA SanitizeOpened ==
  ASSUME NEW h, Wellformed(h), Opened(h)
  PROVE  Opened(Sanitize(h))
<1> DEFINE s == Sanitize(h)
<1>1. Wellformed(s) /\ h \in Seq(Messages) /\ s \in Seq(Messages) /\ Len(s) \in Nat /\ Len(h) \in Nat
  BY SanitizeMap DEF Wellformed
<1>2. PICK from, own : Repairs(from, own, s, h)
  BY SanitizeMap, Zenon
<1> HIDE DEF s
<1>3. /\ \A k \in 1 .. Len(s) : from[k] \in 1 .. Len(h)
      /\ \A k \in 1 .. Len(s) : ~IsTool(s[k]) => own[k]
      /\ \A k \in 1 .. Len(s) : own[k] => s[k] = h[from[k]]
      /\ \A k, l \in 1 .. Len(s) : k < l /\ own[l] => from[k] < from[l]
      /\ \A k, l \in 1 .. Len(s) : k < l => from[k] <= from[l]
      /\ \A i \in 1 .. Len(h) : ~IsTool(h[i]) =>
           \E k \in 1 .. Len(s) : from[k] = i /\ own[k] /\ s[k] = h[i]
  BY <1>2, RepairsKeep
<1>4. HasSystem(h) /\ AsksFirst(h) /\ AsksAnswered(h)
  BY DEF Opened
<1>5. /\ Len(h) > 0 /\ ~IsAsk(h[1]) /\ ~IsTool(h[1]) /\ CallIds(h[1]) = {}
      /\ \A i \in 1 .. Len(h) : IsAsk(h[i]) => ~IsTool(h[i]) /\ CallIds(h[i]) = {}
  BY <1>4, AskIsNoTool
<1>6. Len(s) > 0 /\ own[1] /\ from[1] = 1 /\ s[1] = h[1]
  <2>1. 1 \in 1 .. Len(h)
    BY <1>1, <1>5
  <2>2. PICK k \in 1 .. Len(s) : from[k] = 1 /\ own[k] /\ s[k] = h[1]
    BY <1>3, <1>5, <2>1, Zenon
  <2>3. CASE k = 1
    BY <1>1, <2>2, <2>3
  <2>4. CASE 1 < k
    <3>1. 1 \in 1 .. Len(s)
      BY <1>1
    <3>2. from[1] < from[k] /\ from[1] \in 1 .. Len(h)
      BY <1>3, <2>2, <2>4, <3>1
    <3> QED BY <2>2, <3>2
  <2> QED BY <1>1, <2>3, <2>4
<1>7. HasSystem(s)
  BY <1>1, <1>4, <1>6 DEF HasSystem
<1>8. \A m : (IsAsk(m) \/ IsUser(m)) => ~IsTool(m)
  BY DEF IsAsk, IsUser, IsTool
<1>9. ASSUME NEW i \in 1 .. Len(s), IsUser(s[i]), s[i].kind = "summary",
             NEW l \in 1 .. i - 1, IsAsk(s[l])
      PROVE  l <= 2
  <2>1. l \in 1 .. Len(s) /\ l < i
    BY <1>1
  <2>2. /\ own[i] /\ s[i] = h[from[i]] /\ from[i] \in 1 .. Len(h)
        /\ own[l] /\ s[l] = h[from[l]] /\ from[l] \in 1 .. Len(h)
    BY <1>3, <1>8, <1>9, <2>1
  <2>3. from[l] < from[i]
    BY <1>3, <2>1, <2>2
  <2>4. from[l] <= 2
    <3>1. from[l] \in 1 .. from[i] - 1
      BY <2>2, <2>3
    <3> QED BY <1>4, <1>9, <2>2, <3>1, Zenon DEF AsksFirst
  <2> SUFFICES ASSUME l > 2 PROVE FALSE
    BY <2>1
  <2>5. 1 \in 1 .. Len(s) /\ 2 \in 1 .. Len(s) /\ 1 < 2 /\ 2 < l
    BY <2>1
  <2>6. from[2] < from[l] /\ from[1] <= from[2] /\ from[2] \in 1 .. Len(h)
    BY <1>3, <2>1, <2>2, <2>5
  <2>7. from[2] = 1 /\ ~own[2]
    <3>1. from[2] = 1
      BY <2>2, <2>4, <2>6
    <3>2. own[2] => from[1] < from[2]
      BY <1>3, <2>5
    <3> QED BY <1>6, <3>1, <3>2
  <2>8. s[2].id \in CallIds(h[from[2]])
    BY <1>2, <2>5, <2>7, Zenon DEF Repairs
  <2> QED BY <1>5, <2>7, <2>8
<1>10. ASSUME NEW i \in 1 .. Len(s) - 1, IsAsk(s[i]), IsTool(s[i + 1])
       PROVE  FALSE
  <2> DEFINE j == i + 1
  <2>1. i \in 1 .. Len(s) /\ j \in 1 .. Len(s) /\ i < j /\ j = i + 1 /\ IsTool(s[j])
    BY <1>1, <1>10
  <2> HIDE DEF j
  <2>2. own[i] /\ s[i] = h[from[i]] /\ from[i] \in 1 .. Len(h) /\ from[j] \in 1 .. Len(h)
        /\ from[i] <= from[j]
    BY <1>3, <1>8, <1>10, <2>1
  <2>3. \A m \in 1 .. Len(h) : from[i] < m /\ m <= from[j] => IsTool(h[m])
    <3> SUFFICES ASSUME NEW m \in 1 .. Len(h), from[i] < m, m <= from[j], ~IsTool(h[m])
                 PROVE  FALSE
      OBVIOUS
    <3>1. PICK k \in 1 .. Len(s) : from[k] = m /\ own[k] /\ s[k] = h[m]
      BY <1>3
    <3>2. ~(k < i)
      BY <1>3, <2>1, <2>2, <3>1
    <3>3. k # i /\ k # j
      BY <2>1, <2>2, <3>1
    <3>4. ~(j < k)
      BY <1>3, <2>1, <2>2, <3>1
    <3> QED BY <2>1, <3>2, <3>3, <3>4
  <2>4. CASE from[i] < from[j]
    <3>1. from[i] + 1 \in 1 .. Len(h) /\ from[i] \in 1 .. Len(h) - 1 /\ from[i] < from[i] + 1
          /\ from[i] + 1 <= from[j]
      BY <1>1, <2>2, <2>4
    <3>2. IsTool(h[from[i] + 1])
      BY <2>3, <3>1
    <3> QED BY <1>4, <1>10, <2>2, <3>1, <3>2 DEF AsksAnswered
  <2>5. CASE from[i] = from[j]
    <3>1. ~own[j]
      BY <1>3, <2>1, <2>2, <2>5
    <3>2. s[j].id \in CallIds(h[from[j]])
      BY <1>2, <2>1, <3>1, Zenon DEF Repairs
    <3> QED BY <1>5, <1>10, <2>2, <2>5, <3>2
  <2> QED BY <2>2, <2>4, <2>5
<1>11. AsksFirst(s)
  BY <1>9, Zenon DEF AsksFirst
<1>12. AsksAnswered(s)
  BY <1>10, Zenon DEF AsksAnswered
<1> QED
  BY <1>7, <1>11, <1>12 DEF Opened, s

-----------------------------------------------------------------------------
(* Cuts.                                                                   *)

(* A cut behind a message that takes nothing of the conversation since the *)
(* last ask.                                                               *)
LEMMA CutKeepsSince ==
  ASSUME NEW h, Wellformed(h), NEW mid, mid \in Seq(Messages),
         NEW a \in 0 .. Len(h), NEW b \in a .. Len(h), b < LastAsk(h)
  PROVE  SinceAsk(Spliced(h, a, mid, b)) = SinceAsk(h)
<1> DEFINE g == Spliced(h, a, mid, b)  L == LastAsk(h)  M == Len(mid)  d == a + M - b
<1>0. h \in Seq(Messages)
  BY DEF Wellformed
<1>1. /\ L \in 0 .. Len(h) /\ (L # 0 => IsAsk(h[L]))
      /\ \A i \in 1 .. Len(h) : IsAsk(h[i]) => i <= L
  BY <1>0, LastAskIs
<1>2. g \in Seq(Messages) /\ AsSpliced(g, h, a, M, mid, b)
  BY <1>0, CutIs
<1>3. M \in Nat /\ Len(h) \in Nat /\ Len(g) \in Nat /\ b < L
  BY <1>0, <1>2
<1> HIDE DEF g, L, M
<1>4. /\ d \in Int /\ Len(g) = Len(h) + d
      /\ \A i \in 1 .. Len(g) : i > b + d => g[i] = h[i - d] /\ i - d \in 1 .. Len(h) /\ i - d > b
  <2>1. d \in Int /\ Len(g) = Len(h) + d /\ b + d = a + M
    BY <1>2, <1>3 DEF AsSpliced
  <2>2. ASSUME NEW i \in 1 .. Len(g), i > b + d
        PROVE  g[i] = h[i - d] /\ i - d \in 1 .. Len(h) /\ i - d > b
    <3>1. i \in a + M + 1 .. Len(g) /\ i - (a + M) + b = i - d
      BY <1>2, <1>3, <2>1, <2>2
    <3>2. g[i] = h[i - (a + M) + b]
      BY <1>2, <3>1, Zenon DEF AsSpliced
    <3>3. i - d \in 1 .. Len(h) /\ i - d > b
      BY <1>3, <2>1, <2>2
    <3> QED BY <3>1, <3>2, <3>3
  <2> QED BY <2>1, <2>2
<1>5. b + d >= 0 /\ b \in Nat
  BY <1>3
<1> HIDE DEF d
<1> DEFINE at == L + d
<1>6. at \in 1 .. Len(g) /\ at > b + d /\ at - d = L /\ L \in 1 .. Len(h)
  BY <1>1, <1>3, <1>4, <1>5
<1>7. IsAsk(g[at])
  BY <1>1, <1>4, <1>6
<1> HIDE DEF at
<1>8. ASSUME NEW i \in 1 .. Len(g), IsAsk(g[i]) PROVE i <= at
  <2> SUFFICES ASSUME i > at PROVE FALSE
    BY <1>6
  <2>1. i > b + d
    BY <1>3, <1>4, <1>5, <1>6
  <2>2. g[i] = h[i - d] /\ i - d \in 1 .. Len(h)
    BY <1>4, <2>1
  <2>3. i - d <= L
    BY <1>1, <1>8, <2>2
  <2> QED BY <1>4, <1>6, <2>3
<1>9. LastAsk(g) = at
  BY <1>2, <1>6, <1>7, <1>8, LastAskAt
<1> DEFINE J == { k \in DOMAIN g : k >= at /\ ~IsTool(g[k]) }
           I == { i \in DOMAIN h : i >= L /\ ~IsTool(h[i]) }
<1>f. PICK f : \A k \in 1 .. Len(g) : f[k] = k - d
  <2>1. \A k \in 1 .. Len(g) : [j \in 1 .. Len(g) |-> j - d][k] = k - d
    OBVIOUS
  <2> QED BY <2>1
<1>10. SinceAsk(g) = Picked(g, J) /\ SinceAsk(h) = Picked(h, I)
  BY <1>9, Zenon DEF SinceAsk, L
<1>11. DOMAIN g = 1 .. Len(g) /\ DOMAIN h = 1 .. Len(h)
  BY <1>0, <1>2
<1>12. ASSUME NEW k \in 1 .. Len(g), k \in J
       PROVE  f[k] \in 1 .. Len(h) /\ f[k] \in I /\ g[k] = h[f[k]]
  <2>1. f[k] = k - d /\ k >= at /\ ~IsTool(g[k])
    BY <1>f, <1>12
  <2>2. k > b + d /\ k - d >= L
    BY <1>4, <1>5, <1>6, <2>1
  <2>3. g[k] = h[k - d] /\ k - d \in 1 .. Len(h)
    BY <1>4, <2>2
  <2> QED BY <1>11, <2>1, <2>2, <2>3
<1>13. ASSUME NEW j \in 1 .. Len(g), NEW k \in 1 .. Len(g), j \in J, k \in J, j < k
       PROVE  f[j] < f[k]
  BY <1>f, <1>4, <1>13
<1>14. ASSUME NEW i \in 1 .. Len(h), i \in I
       PROVE  \E k \in 1 .. Len(g) : k \in J /\ f[k] = i
  <2> DEFINE k == i + d
  <2>1. i >= L /\ ~IsTool(h[i])
    BY <1>14
  <2>2. k \in 1 .. Len(g) /\ k - d = i /\ k >= at /\ k > b + d
    BY <1>3, <1>4, <1>5, <1>6, <2>1
  <2> HIDE DEF k
  <2>3. g[k] = h[i] /\ f[k] = i
    BY <1>f, <1>4, <2>2
  <2>4. k \in J
    BY <1>11, <2>1, <2>2, <2>3
  <2> QED BY <2>2, <2>3, <2>4
<1> HIDE DEF I, J
<1>15. Matches(f, g, J, h, I)
  BY <1>12, <1>13, <1>14, Zenon DEF Matches
<1>16. Picked(g, J) = Picked(h, I)
  BY <1>0, <1>2, <1>15, PickedAgree
<1> QED
  BY <1>10, <1>16 DEF g

LEMMA CutWellformed ==
  ASSUME NEW h, Wellformed(h), NEW mid, mid \in Seq(Messages),
         NEW a \in 0 .. Len(h), NEW b \in a .. Len(h), \A i \in 1 .. Len(mid) : Quiet(mid[i])
  PROVE  Wellformed(Spliced(h, a, mid, b))
<1> DEFINE g == Spliced(h, a, mid, b)  M == Len(mid)  N == Len(h)
<1>0. h \in Seq(Messages) /\ N \in Nat /\ M \in Nat
  BY DEF Wellformed
<1>1. g \in Seq(Messages) /\ AsSpliced(g, h, a, M, mid, b)
  BY <1>0, CutIs
<1>2. /\ \A i \in 1 .. N : MessageOK(h[i])
      /\ \A i \in 1 .. M : MessageOK(mid[i])
      /\ a \in 0 .. N /\ b \in a .. N
  BY DEF Wellformed, Quiet
<1>3. Len(g) \in Nat
  BY <1>1
<1> HIDE DEF g, M, N
<1>4. ASSUME NEW i \in 1 .. Len(g) PROVE MessageOK(g[i])
  <2>0. Len(g) = a + M + (N - b)
    BY <1>1, Zenon DEF AsSpliced, N
  <2>1. CASE i \in 1 .. a
    <3>1. g[i] = h[i] /\ i \in 1 .. N
      BY <1>0, <1>1, <1>2, <2>1 DEF AsSpliced
    <3> QED BY <1>2, <3>1
  <2>2. CASE i \in a + 1 .. a + M
    <3>1. g[i] = mid[i - a] /\ i - a \in 1 .. M
      BY <1>0, <1>1, <1>2, <2>2 DEF AsSpliced
    <3> QED BY <1>2, <3>1
  <2>3. CASE i \in a + M + 1 .. Len(g)
    <3>1. g[i] = h[i - (a + M) + b]
      BY <1>1, <2>3, Zenon DEF AsSpliced
    <3>2. i - (a + M) + b \in 1 .. N
      BY <1>0, <1>2, <2>0, <2>3
    <3> QED BY <1>2, <3>1, <3>2
  <2> QED BY <1>0, <1>2, <1>3, <2>1, <2>2, <2>3
<1> QED
  BY <1>1, <1>4, Zenon DEF Wellformed, g

LEMMA CutOpened ==
  ASSUME NEW h, Wellformed(h), Opened(h), NEW mid, mid \in Seq(Messages),
         NEW a \in 1 .. Len(h), NEW b \in a .. Len(h),
         \A i \in 1 .. Len(mid) : Quiet(mid[i]) /\ mid[i].kind = "summary",
         \A i \in 1 .. Len(mid) : IsUser(mid[i]) => \A l \in 1 .. a : IsAsk(h[l]) => l <= 2,
         Len(mid) = 0 /\ b < Len(h) /\ IsTool(h[b + 1]) => ~IsAsk(h[a]),
         Len(mid) = 0 \/ a < b
  PROVE  Wellformed(Spliced(h, a, mid, b)) /\ Opened(Spliced(h, a, mid, b))
<1> DEFINE g == Spliced(h, a, mid, b)  M == Len(mid)  N == Len(h)
<1>0. h \in Seq(Messages) /\ N \in Nat /\ M \in Nat /\ a \in 0 .. N
  BY DEF Wellformed
<1>1. g \in Seq(Messages) /\ AsSpliced(g, h, a, M, mid, b)
  BY <1>0, CutIs
<1>2. /\ Len(g) \in Nat /\ Len(g) = a + M + (N - b)
      /\ \A i \in 1 .. a : g[i] = h[i]
      /\ \A i \in a + 1 .. a + M : g[i] = mid[i - a]
      /\ \A i \in a + M + 1 .. Len(g) : g[i] = h[i - (a + M) + b]
  <2>1. Len(g) \in Nat
    BY <1>1
  <2> QED BY <1>1, <2>1, Zenon DEF AsSpliced
<1>3. a \in 1 .. N /\ b \in a .. N
  OBVIOUS
<1>4. /\ HasSystem(h)
      /\ \A i, l \in 1 .. N : IsUser(h[i]) /\ h[i].kind = "summary" /\ IsAsk(h[l]) /\ l < i => l <= 2
      /\ \A i, j \in 1 .. N : j = i + 1 /\ IsAsk(h[i]) => ~IsTool(h[j])
  <2>1. HasSystem(h) /\ AsksFirst(h) /\ AsksAnswered(h)
    BY DEF Opened
  <2>2. ASSUME NEW i \in 1 .. N, NEW l \in 1 .. N, l < i, IsUser(h[i]), h[i].kind = "summary", IsAsk(h[l])
        PROVE  l <= 2
    <3>1. l \in 1 .. i - 1
      BY <2>2
    <3> QED BY <2>1, <2>2, <3>1, Zenon DEF AsksFirst
  <2>3. ASSUME NEW i \in 1 .. N, NEW j \in 1 .. N, j = i + 1, IsAsk(h[i])
        PROVE  ~IsTool(h[j])
    <3>1. i \in 1 .. N - 1
      BY <1>0, <2>3
    <3> QED BY <2>1, <2>3, <3>1, Zenon DEF AsksAnswered
  <2> QED BY <2>1, <2>2, <2>3, Zenon
<1>5. Wellformed(g)
  BY <1>0, CutWellformed
<1>6. \A i \in 1 .. M : ~IsAsk(mid[i]) /\ ~IsTool(mid[i])
  BY DEF IsAsk, Quiet
<1>7. /\ \A i \in 1 .. M : IsUser(mid[i]) => \A l \in 1 .. a : IsAsk(h[l]) => l <= 2
      /\ M = 0 /\ b < N /\ IsTool(h[b + 1]) => ~IsAsk(h[a])
      /\ M = 0 \/ a < b
  OBVIOUS
<1> HIDE DEF g, M, N
<1>8. \A m : (IsAsk(m) => ~IsTool(m)) /\ (IsAsk(m) => m.kind # "summary")
  BY DEF IsAsk, IsUser, IsTool
<1>9. \A i \in 1 .. Len(g) : \/ i \in 1 .. a /\ i \in 1 .. N /\ g[i] = h[i]
                             \/ i \in a + 1 .. a + M /\ i - a \in 1 .. M /\ g[i] = mid[i - a]
                             \/ /\ i > a + M /\ i - (a + M) + b \in 1 .. N /\ i - (a + M) + b > b
                                /\ g[i] = h[i - (a + M) + b]
  <2> TAKE i \in 1 .. Len(g)
  <2>1. CASE i \in 1 .. a
    BY <1>0, <1>2, <1>3, <2>1
  <2>2. CASE i \in a + 1 .. a + M
    BY <1>0, <1>2, <1>3, <2>2
  <2>3. CASE i \in a + M + 1 .. Len(g)
    <3>1. g[i] = h[i - (a + M) + b]
      BY <1>2, <2>3, Zenon
    <3> QED BY <1>0, <1>2, <1>3, <2>3, <3>1
  <2> QED BY <1>0, <1>2, <1>3, <2>1, <2>2, <2>3
<1>11. HasSystem(g)
  <2>1. 1 \in 1 .. a /\ Len(g) > 0
    BY <1>0, <1>2, <1>3
  <2>2. g[1] = h[1]
    BY <1>2, <2>1, Zenon
  <2> QED BY <1>1, <1>4, <2>1, <2>2 DEF HasSystem
<1>12. ASSUME NEW i \in 1 .. Len(g), IsUser(g[i]), g[i].kind = "summary",
              NEW l \in 1 .. i - 1, IsAsk(g[l])
       PROVE  l <= 2
  <2>0. l \in 1 .. Len(g) /\ l < i
    BY <1>2
  <2>1. CASE i \in 1 .. a
    <3>1. l \in 1 .. a /\ l \in 1 .. N /\ i \in 1 .. N /\ l \in Int
      BY <1>0, <1>3, <2>0, <2>1
    <3>2. g[i] = h[i] /\ g[l] = h[l]
      BY <1>2, <2>1, <3>1, Zenon
    <3> QED BY <1>4, <1>12, <2>0, <3>1, <3>2, Zenon
  <2>2. CASE i \in a + 1 .. a + M
    <3>1. IsUser(mid[i - a]) /\ i - a \in 1 .. M
      BY <1>0, <1>2, <1>3, <1>12, <2>2
    <3>2. CASE l \in 1 .. a
      BY <1>2, <1>7, <1>12, <3>1, <3>2
    <3>3. CASE l \in a + 1 .. a + M
      <4>1. g[l] = mid[l - a] /\ l - a \in 1 .. M
        BY <1>0, <1>2, <1>3, <3>3
      <4> QED BY <1>6, <1>12, <4>1
    <3> QED BY <1>0, <1>3, <2>0, <2>2, <3>2, <3>3
  <2>3. CASE i > a + M
    <3> DEFINE I == i - (a + M) + b
    <3>1. I \in 1 .. N /\ g[i] = h[I] /\ I > b
      BY <1>0, <1>3, <1>9, <2>3
    <3>2. CASE l \in 1 .. a
      <4>1. g[l] = h[l]
        BY <1>2, <3>2
      <4>2. l \in 1 .. N /\ l < I
        BY <1>0, <1>3, <3>1, <3>2
      <4> HIDE DEF I
      <4> QED BY <1>4, <1>12, <3>1, <4>1, <4>2, Zenon
    <3>3. CASE l \in a + 1 .. a + M
      <4>1. g[l] = mid[l - a] /\ l - a \in 1 .. M
        BY <1>0, <1>2, <1>3, <3>3
      <4> QED BY <1>6, <1>12, <4>1
    <3>4. CASE l > a + M
      <4> DEFINE K == l - (a + M) + b
      <4>1. K \in 1 .. N /\ g[l] = h[K] /\ K > b
        BY <1>0, <1>3, <1>9, <2>0, <3>4
      <4>2. K < I
        BY <1>0, <1>3, <2>0, <2>3, <3>4
      <4>4. K > 2 \/ l <= 2
        BY <1>0, <1>3, <1>7, <2>0, <3>4
      <4> HIDE DEF K, I
      <4>3. K <= 2
        BY <1>4, <1>12, <3>1, <4>1, <4>2, Zenon
      <4> QED BY <4>1, <4>3, <4>4
    <3> QED BY <1>0, <1>3, <2>0, <3>2, <3>3, <3>4
  <2> QED BY <1>0, <1>2, <1>3, <2>1, <2>2, <2>3
<1>13. ASSUME NEW i \in 1 .. Len(g) - 1, IsAsk(g[i]), IsTool(g[i + 1])
       PROVE  FALSE
  <2>0. i \in 1 .. Len(g) /\ i + 1 \in 1 .. Len(g)
    BY <1>2
  <2>1. CASE i \in 1 .. a - 1
    <3>1. i \in 1 .. a /\ i + 1 \in 1 .. a /\ i \in 1 .. N /\ i + 1 \in 1 .. N
      BY <1>0, <1>3, <2>1
    <3>2. g[i] = h[i] /\ g[i + 1] = h[i + 1]
      BY <1>2, <3>1, Zenon
    <3> QED BY <1>4, <1>13, <3>1, <3>2, Zenon
  <2>2. CASE i = a
    <3>0. a \in 1 .. a
      BY <1>3
    <3>1. g[i] = h[a]
      BY <1>2, <2>2, <3>0, Zenon
    <3>2. CASE M = 0
      <4>1. i + 1 \in a + M + 1 .. Len(g) /\ i + 1 - (a + M) + b = b + 1 /\ b < N
        BY <1>0, <1>2, <1>3, <2>0, <2>2, <3>2
      <4>a. i + 1 > a + M
        BY <1>0, <1>3, <2>2, <3>2
      <4>2. g[i + 1] = h[i + 1 - (a + M) + b]
        BY <1>0, <1>3, <1>9, <2>0, <4>a
      <4> QED BY <1>7, <1>13, <3>1, <3>2, <4>1, <4>2
    <3>3. CASE M # 0
      <4>1. i + 1 \in a + 1 .. a + M /\ i + 1 - a = 1 /\ 1 \in 1 .. M
        BY <1>0, <1>3, <2>2, <3>3
      <4>2. g[i + 1] = mid[1]
        BY <1>2, <4>1
      <4> QED BY <1>6, <1>13, <4>1, <4>2
    <3> QED BY <3>2, <3>3
  <2>3. CASE i \in a + 1 .. a + M
    <3>1. g[i] = mid[i - a] /\ i - a \in 1 .. M
      BY <1>0, <1>2, <1>3, <2>3
    <3> QED BY <1>6, <1>13, <3>1
  <2>4. CASE i > a + M
    <3> DEFINE I == i - (a + M) + b
    <3>1. I \in 1 .. N /\ g[i] = h[I]
      BY <1>0, <1>3, <1>9, <2>0, <2>4
    <3> DEFINE J == i + 1 - (a + M) + b
    <3>2. J \in 1 .. N /\ g[i + 1] = h[J]
      <4>1. i + 1 > a + M
        BY <1>0, <1>3, <2>4
      <4> QED BY <1>0, <1>3, <1>9, <2>0, <4>1
    <3>3. J = I + 1
      BY <1>0, <1>3
    <3> HIDE DEF I, J
    <3> QED BY <1>4, <1>13, <3>1, <3>2, <3>3, Zenon
  <2> QED BY <1>0, <1>3, <2>0, <2>1, <2>2, <2>3, <2>4
<1>14. AsksFirst(g)
  BY <1>12, Zenon DEF AsksFirst
<1>15. AsksAnswered(g)
  BY <1>13, Zenon DEF AsksAnswered
<1> QED
  BY <1>5, <1>11, <1>14, <1>15 DEF Opened, g

(* The system prompt and an end of the history.                            *)
LEMMA SuffixOpened ==
  ASSUME NEW h, Wellformed(h), Opened(h), NEW b \in 1 .. Len(h)
  PROVE  Opened(Sanitize(SubSeq(h, 1, 1) \o SubSeq(h, b + 1, Len(h))))
<1> DEFINE none == <<>>
<1>1. h \in Seq(Messages) /\ Len(h) > 0 /\ ~IsAsk(h[1])
  BY AskIsNoTool DEF Opened, Wellformed
<1>2. 1 \in 1 .. Len(h) /\ none \in Seq(Messages) /\ Len(none) = 0
      /\ SubSeq(h, 1, 1) \o SubSeq(h, b + 1, Len(h)) = Spliced(h, 1, none, b)
  BY <1>1 DEF Spliced
<1> HIDE DEF none
<1>3. \A i \in 1 .. Len(none) : FALSE
  BY <1>2
<1>4. Wellformed(Spliced(h, 1, none, b)) /\ Opened(Spliced(h, 1, none, b))
  BY <1>1, <1>2, <1>3, CutOpened
<1> QED
  BY <1>2, <1>4, SanitizeOpened

LEMMA TrimOpened ==
  ASSUME NEW h, Wellformed(h), Opened(h), NEW max \in Nat
  PROVE  Opened(Trim(h, max))
<1> DEFINE excess == Len(h) - 1 - max  b == 1 + excess
<1>1. HasSystem(h) /\ Len(h) \in Nat
  BY DEF Opened, Wellformed
<1>2. Trim(h, max) = IF excess <= 0 THEN h
                     ELSE Sanitize(SubSeq(h, 1, 1) \o SubSeq(h, b + 1, Len(h)))
  BY <1>1, Zenon DEF Trim
<1>3. CASE excess <= 0
  BY <1>2, <1>3
<1>4. CASE ~(excess <= 0)
  <2>1. b \in 1 .. Len(h)
    BY <1>1, <1>4
  <2> HIDE DEF b
  <2>2. Trim(h, max) = Sanitize(SubSeq(h, 1, 1) \o SubSeq(h, b + 1, Len(h)))
    BY <1>2, <1>4
  <2> QED BY <2>1, <2>2, SuffixOpened
<1> QED BY <1>3, <1>4

LEMMA LegacyOpened ==
  ASSUME NEW h, Wellformed(h), Opened(h), NEW keep \in Nat
  PROVE  Opened(LegacyCompacted(h, keep))
<1> DEFINE compact == Max({Len(h) - 1 - keep, 0})
           ends == { c \in 1 + compact .. Len(h) - 1 : IsUser(h[c + 1]) }
           b == Min(ends)
<1>1. HasSystem(h) /\ Len(h) \in Nat /\ h \in Seq(Messages) /\ Len(h) > 0
  BY AskIsNoTool DEF Opened, Wellformed
<1>2. LegacyCompacted(h, keep)
        = IF compact = 0 \/ ends = {} THEN h
          ELSE Sanitize(<<h[1]>> \o SubSeq(h, b + 1, Len(h)))
  BY <1>1, Zenon DEF LegacyCompacted
<1>3. CASE compact = 0 \/ ends = {}
  BY <1>2, <1>3
<1>4. CASE ~(compact = 0 \/ ends = {})
  <2>1. compact \in Nat
    <3> DEFINE x == Len(h) - 1 - keep
    <3>1. x \in Int
      BY <1>1
    <3> HIDE DEF x
    <3>2. Max({x, 0}) = IF x >= 0 THEN x ELSE 0
      BY <3>1, MaxOfTwo
    <3> QED BY <3>1, <3>2 DEF x
  <2>2. LegacyCompacted(h, keep) = Sanitize(<<h[1]>> \o SubSeq(h, b + 1, Len(h)))
    BY <1>2, <1>4
  <2> HIDE DEF compact
  <2>3. ends \subseteq 1 .. Len(h) - 1 /\ ends # {}
    BY <1>1, <1>4, <2>1
  <2> HIDE DEF ends
  <2>4. b \in ends
    <3>1. ends \in SUBSET Int /\ 1 \in Int /\ \A x \in ends : 1 <= x
      BY <1>1, <2>3
    <3> QED BY <2>3, <3>1, MinIs
  <2> HIDE DEF b
  <2>5. b \in 1 .. Len(h)
    BY <1>1, <2>3, <2>4
  <2>6. <<h[1]>> = SubSeq(h, 1, 1)
    BY <1>1
  <2> QED BY <2>2, <2>5, <2>6, SuffixOpened
<1> QED BY <1>3, <1>4

-----------------------------------------------------------------------------
(* What each function leaves of the shape.                                 *)

(* A summary takes no role of its neighbours: it stands on the user's side *)
(* only behind a message that does not, and is left out only before one    *)
(* that is no result.                                                      *)
LEMMA SummaryFits ==
  ASSUME NEW h, NEW cut
  PROVE  /\ SummaryOf(h, cut) \in Seq(Messages)
         /\ \A i \in 1 .. Len(SummaryOf(h, cut)) :
              /\ Quiet(SummaryOf(h, cut)[i]) /\ SummaryOf(h, cut)[i].kind = "summary"
              /\ IsUser(SummaryOf(h, cut)[i]) => ~IsUser(h[HeadEnd(h)])
         /\ Len(SummaryOf(h, cut)) = 0 /\ cut < Len(h) => ~IsTool(h[cut + 1])
<1> DEFINE before == h[HeadEnd(h)].role
           after == IF cut < Len(h) THEN h[cut + 1].role ELSE "user"
           first == IF before \in {"assistant", "tool"} THEN "user" ELSE "assistant"
           other == IF first = "user" THEN "assistant" ELSE "user"
           mid == SummaryOf(h, cut)
<1>1. mid = CASE first # after -> <<Plain(first, "summary")>>
              [] first = after /\ other # before -> <<Plain(other, "summary")>>
              [] OTHER -> <<>>
  BY Zenon DEF SummaryOf
<1>2. mid \in Seq(Messages) /\ \A i \in 1 .. Len(mid) : Quiet(mid[i])
  BY SummaryQuiet
<1>3. first \in {"user", "assistant"} /\ other \in {"user", "assistant"}
      /\ (first = "user" => before # "user") /\ (cut < Len(h) => after = h[cut + 1].role)
  OBVIOUS
<1> HIDE DEF mid, first, other, after, before
<1>4. \/ mid = <<Plain(first, "summary")>>
      \/ mid = <<Plain(other, "summary")>> /\ other # before
      \/ mid = <<>> /\ first = after
  BY <1>1
<1>5. \A role \in Roles : Plain(role, "summary").kind = "summary" /\ Plain(role, "summary").role = role
  BY DEF Plain
<1>6. \A i \in 1 .. Len(mid) : mid[i].kind = "summary" /\ (mid[i].role = "user" => before # "user")
  <2>1. CASE mid = <<Plain(first, "summary")>>
    <3>1. Len(mid) = 1 /\ mid[1] = Plain(first, "summary") /\ first \in Roles
      BY <1>3, <2>1 DEF Roles
    <3>2. mid[1].kind = "summary" /\ mid[1].role = first
      BY <1>5, <3>1
    <3> QED BY <1>3, <3>1, <3>2
  <2>2. CASE mid = <<Plain(other, "summary")>> /\ other # before
    <3>1. Len(mid) = 1 /\ mid[1] = Plain(other, "summary") /\ other \in Roles
      BY <1>3, <2>2 DEF Roles
    <3>2. mid[1].kind = "summary" /\ mid[1].role = other
      BY <1>5, <3>1
    <3> QED BY <2>2, <3>1, <3>2
  <2>3. CASE mid = <<>>
    BY <2>3
  <2> QED BY <1>4, <2>1, <2>2, <2>3
<1>7. Len(mid) = 0 => first = after
  BY <1>4
<1>8. Len(mid) = 0 /\ cut < Len(h) => h[cut + 1].role # "tool"
  BY <1>3, <1>7
<1> QED
  BY <1>2, <1>6, <1>8, Zenon DEF IsUser, IsTool, mid, before

(* In a head of three messages at most, asks before another kind of end    *)
(* are the first message behind the system prompt.                         *)
LEMMA HeadAsks ==
  ASSUME NEW h, Wellformed(h), Opened(h), ~TooShort(h), ProtectFirst <= 3, ~IsUser(h[HeadEnd(h)]),
         NEW l \in 1 .. HeadEnd(h), IsAsk(h[l])
  PROVE  l <= 2
<1> DEFINE a == HeadEnd(h)
<1>1. /\ a \in ProtectFirst .. Len(h) /\ Len(h) \in Nat
      /\ \A c \in ProtectFirst .. a - 1 : IsTool(h[c + 1])
  BY HeadIs
<1>2. ~IsUser(h[a]) /\ l \in 1 .. a
  OBVIOUS
<1> HIDE DEF a
<1>3. IsUser(h[l]) /\ ~IsTool(h[l])
  BY DEF IsAsk, IsUser, IsTool
<1> SUFFICES ASSUME l > 2 PROVE FALSE
  BY <1>2
<1>4. l # a
  BY <1>2, <1>3
<1>5. l <= ProtectFirst
  <2> SUFFICES ASSUME l > ProtectFirst PROVE FALSE
    BY <1>1, <1>2, ProtectFirstAssumption
  <2> DEFINE c == l - 1
  <2>1. c \in ProtectFirst .. a - 1 /\ c + 1 = l
    BY <1>1, <1>2, ProtectFirstAssumption
  <2> HIDE DEF c
  <2> QED BY <1>1, <1>3, <2>1
<1>6. l = 3 /\ ProtectFirst = 3
  BY <1>2, <1>5, ProtectFirstAssumption
<1>7. 3 \in ProtectFirst .. a - 1 /\ 3 \in 1 .. Len(h) - 1
  BY <1>1, <1>2, <1>4, <1>6
<1>8. IsTool(h[3 + 1])
  BY <1>1, <1>7
<1> QED
  BY <1>6, <1>7, <1>8 DEF Opened, AsksAnswered

LEMMA CompressedOpened ==
  ASSUME NEW h, Wellformed(h), Opened(h), NEW walk \in Int, ~Overruns(h, walk), ProtectFirst <= 3
  PROVE  Opened(Compressed(h, walk))
<1>1. CASE TooShort(h)
  <2>1. Compressed(h, walk) = Sanitize(h)
    BY <1>1, Zenon DEF Compressed
  <2> QED BY <2>1, SanitizeOpened
<1>2. CASE ~TooShort(h)
  <2> DEFINE a == HeadEnd(h)  b == TailCut(h, walk)  mid == SummaryOf(h, b)
  <2>1. Compressed(h, walk) = Sanitize(Spliced(h, a, mid, b))
    BY <1>2, Zenon DEF Compressed, Spliced
  <2>2. a \in 1 .. Len(h) /\ Len(h) \in Nat /\ b \in Int /\ b > a /\ ~(b > Len(h))
    BY <1>2, HeadIs, TailIs, ProtectFirstAssumption DEF Overruns
  <2>3. /\ mid \in Seq(Messages)
        /\ \A i \in 1 .. Len(mid) : /\ Quiet(mid[i]) /\ mid[i].kind = "summary"
                                    /\ IsUser(mid[i]) => ~IsUser(h[a])
        /\ Len(mid) = 0 /\ b < Len(h) => ~IsTool(h[b + 1])
    BY SummaryFits
  <2>4. \A i \in 1 .. Len(mid) : IsUser(mid[i]) => \A l \in 1 .. a : IsAsk(h[l]) => l <= 2
    BY <1>2, <2>3, HeadAsks
  <2> HIDE DEF a, b, mid
  <2>5. b \in a .. Len(h)
    BY <2>2
  <2>6. Wellformed(Spliced(h, a, mid, b)) /\ Opened(Spliced(h, a, mid, b))
    BY <2>2, <2>3, <2>4, <2>5, CutOpened
  <2> QED BY <2>1, <2>6, SanitizeOpened
<1> QED BY <1>1, <1>2

(* The tail starts at the last ask or before it, unless the head reaches   *)
(* up to it.                                                               *)
LEMMA TailReachesAsk ==
  ASSUME NEW h, Wellformed(h), Opened(h), ~TooShort(h), NEW walk \in Int,
         LastAsk(h) > HeadEnd(h) + 1
  PROVE  TailCut(h, walk) < LastAsk(h)
<1> DEFINE head == HeadEnd(h)  L == LastAsk(h)
           fallback == Len(h) - MinTail(h)
           capped == Min({walk, fallback})
           cut == IF capped <= head THEN Max({fallback, head + 1}) ELSE capped
           back == AlignBackward(h, cut)
           last == SelectLastInSubSeq(h, head + 1, Len(h), IsUser)
           keep == KeepLastUser(h, back, head)
<1>1. h \in Seq(Messages) /\ head \in Nat /\ head >= 1 /\ Len(h) \in Nat /\ L > head + 1
  BY HeadIs, ProtectFirstAssumption DEF Wellformed
<1>2. L \in 1 .. Len(h) /\ IsAsk(h[L]) /\ \A i \in 1 .. Len(h) : IsAsk(h[i]) => i <= L
  <2>1. /\ L \in 0 .. Len(h) /\ (L # 0 => IsAsk(h[L]))
        /\ \A i \in 1 .. Len(h) : IsAsk(h[i]) => i <= L
    BY <1>1, LastAskIs
  <2> HIDE DEF L, head
  <2> QED BY <1>1, <2>1
<1>3. TailCut(h, walk) = Max({keep, head + 1})
  BY Zenon DEF TailCut
<1>4. keep = IF last # 0 /\ last - 1 < back THEN Max({last - 1, head + 1}) ELSE back
  BY Zenon DEF KeepLastUser
<1>5. keep \in Int
  <2>1. MinTail(h) \in Int
    <3> DEFINE x == Len(h) - (head + 1)  y == Min({3, x})
    <3>1. x \in Int
      BY <1>1
    <3>2. MinTail(h) = Max({0, y})
      BY Zenon DEF MinTail
    <3> HIDE DEF x
    <3>3. y \in Int
      BY <3>1, MinOfTwo
    <3> HIDE DEF y
    <3>4. Max({0, y}) = IF 0 >= y THEN 0 ELSE y
      BY <3>3, MaxOfTwo
    <3> QED BY <3>2, <3>3, <3>4
  <2> HIDE DEF head
  <2>2. fallback \in Int
    BY <1>1, <2>1
  <2> HIDE DEF fallback
  <2>3. capped \in Int
    BY <2>2, MinOfTwo
  <2> HIDE DEF capped
  <2>4. Max({fallback, head + 1}) = IF fallback >= head + 1 THEN fallback ELSE head + 1
    BY <1>1, <2>2, MaxOfTwo
  <2>5. cut \in Int /\ cut >= 0
    BY <1>1, <2>2, <2>3, <2>4
  <2> HIDE DEF cut
  <2>6. back \in Int
    BY <1>1, <2>5, BackwardIs
  <2> HIDE DEF back
  <2> QED BY <1>1, <2>6, KeepIs
<1> HIDE DEF head, L, back, keep
<1>6. last = L
  <2> DEFINE I == { i \in head + 1 .. Len(h) : IsUser(h[i]) }
  <2>1. last = IF I # {} THEN Max(I) ELSE 0
    BY Zenon DEF SelectLastInSubSeq
  <2>2. L \in I
    BY <1>1, <1>2 DEF IsAsk
  <2>3. ASSUME NEW i \in I PROVE i <= L
    <3>1. i \in 1 .. Len(h) /\ IsUser(h[i])
      BY <1>1
    <3>2. CASE IsAsk(h[i])
      BY <1>2, <3>1, <3>2
    <3>3. CASE ~IsAsk(h[i]) /\ i > L
      <4>1. h[i].kind = "summary" /\ L \in 1 .. i - 1
        BY <1>2, <3>1, <3>3 DEF IsAsk
      <4>2. L <= 2
        BY <1>2, <3>1, <4>1, Zenon DEF Opened, AsksFirst
      <4> QED BY <1>1, <1>2, <4>2
    <3> QED BY <1>2, <3>1, <3>2, <3>3
  <2>4. I \in SUBSET Int /\ L \in Int
    BY <1>1, <1>2
  <2> HIDE DEF I, last
  <2>5. I # {}
    BY <2>2
  <2>6. Max(I) \in I /\ \A i \in I : i <= Max(I)
    BY <2>3, <2>4, <2>5, MaxIs
  <2> DEFINE m == Max(I)
  <2>7. m <= L /\ L <= m /\ m \in Int /\ last = m
    BY <2>1, <2>2, <2>3, <2>4, <2>5, <2>6
  <2> HIDE DEF m
  <2> QED BY <2>4, <2>7
<1> HIDE DEF last
<1>7. keep <= L - 1
  <2>1. L - 1 \in Int /\ head + 1 \in Int /\ L - 1 >= head + 1 /\ L # 0
    BY <1>1, <1>2
  <2>2. Max({L - 1, head + 1}) = L - 1
    BY <2>1, MaxOfTwo
  <2>3. keep = IF L - 1 < back THEN L - 1 ELSE back
    BY <1>4, <1>6, <2>1, <2>2
  <2>4. CASE L - 1 < back
    BY <2>1, <2>3, <2>4
  <2>5. CASE ~(L - 1 < back)
    <3>1. keep = back
      BY <2>3, <2>5
    <3> QED BY <1>5, <2>1, <2>5, <3>1
  <2> QED BY <2>4, <2>5
<1>8. Max({keep, head + 1}) = IF keep >= head + 1 THEN keep ELSE head + 1
  BY <1>1, <1>5, MaxOfTwo
<1>9. TailCut(h, walk) < L
  BY <1>1, <1>2, <1>3, <1>5, <1>7, <1>8
<1> QED
  BY <1>9 DEF L

LEMMA CompressedKeepsSince ==
  ASSUME NEW h, Wellformed(h), Opened(h), NEW walk \in Int, ~Overruns(h, walk),
         LastAsk(h) > HeadEnd(h) + 1
  PROVE  SinceAsk(Compressed(h, walk)) = SinceAsk(h)
<1>1. CASE TooShort(h)
  <2>1. Compressed(h, walk) = Sanitize(h)
    BY <1>1, Zenon DEF Compressed
  <2> QED BY <2>1, SanitizeKeepsSince
<1>2. CASE ~TooShort(h)
  <2> DEFINE a == HeadEnd(h)  b == TailCut(h, walk)  mid == SummaryOf(h, b)
  <2>1. Compressed(h, walk) = Sanitize(Spliced(h, a, mid, b))
    BY <1>2, Zenon DEF Compressed, Spliced
  <2>2. a \in 0 .. Len(h) /\ Len(h) \in Nat /\ b \in Int /\ b > a /\ ~(b > Len(h))
    BY <1>2, HeadIs, TailIs, ProtectFirstAssumption DEF Overruns
  <2>3. b < LastAsk(h)
    BY <1>2, TailReachesAsk
  <2>4. mid \in Seq(Messages) /\ \A i \in 1 .. Len(mid) : Quiet(mid[i])
    BY SummaryQuiet
  <2> HIDE DEF a, b, mid
  <2>5. b \in a .. Len(h)
    BY <2>2
  <2>6. SinceAsk(Spliced(h, a, mid, b)) = SinceAsk(h)
    BY <2>2, <2>3, <2>4, <2>5, CutKeepsSince
  <2>7. Wellformed(Spliced(h, a, mid, b))
    BY <2>2, <2>4, <2>5, CutWellformed
  <2> QED BY <2>1, <2>6, <2>7, SanitizeKeepsSince
<1> QED BY <1>1, <1>2

(* What enters a history at its end.                                       *)
LEMMA EnterOpened ==
  ASSUME NEW h, Wellformed(h), Opened(h), NEW m, m \in Messages, ~IsTool(m), m.kind # "summary"
  PROVE  Opened(Append(h, m))
<1> DEFINE g == Append(h, m)  N == Len(h)
<1>1. h \in Seq(Messages) /\ N \in Nat /\ N > 0 /\ HasSystem(h) /\ AsksFirst(h) /\ AsksAnswered(h)
  BY AskIsNoTool DEF Opened, Wellformed
<1>2. Len(g) = N + 1 /\ g[N + 1] = m /\ \A i \in 1 .. N : g[i] = h[i]
  BY <1>1
<1>3. g \in Seq(Messages) /\ g # <<>>
  BY <1>1
<1> HIDE DEF g, N
<1>4. HasSystem(g)
  <2>1. g[1] = h[1]
    BY <1>1, <1>2
  <2> QED BY <1>1, <1>3, <2>1 DEF HasSystem
<1>5. ASSUME NEW i \in 1 .. Len(g), IsUser(g[i]), g[i].kind = "summary",
             NEW l \in 1 .. i - 1, IsAsk(g[l])
      PROVE  l <= 2
  <2>1. i \in 1 .. N
    BY <1>1, <1>2, <1>5
  <2>2. g[i] = h[i] /\ g[l] = h[l]
    BY <1>1, <1>2, <2>1
  <2> QED BY <1>1, <1>5, <2>1, <2>2, Zenon DEF AsksFirst, N
<1>6. ASSUME NEW i \in 1 .. Len(g) - 1, IsAsk(g[i])
      PROVE  ~IsTool(g[i + 1])
  <2>1. CASE i = N
    BY <1>2, <2>1
  <2>2. CASE i \in 1 .. N - 1
    <3>1. g[i] = h[i] /\ g[i + 1] = h[i + 1]
      BY <1>1, <1>2, <2>2
    <3> QED BY <1>1, <1>6, <2>2, <3>1, Zenon DEF AsksAnswered, N
  <2> QED BY <1>1, <1>2, <2>1, <2>2
<1>7. AsksFirst(g) /\ AsksAnswered(g)
  BY <1>5, <1>6, Zenon DEF AsksFirst, AsksAnswered
<1> QED
  BY <1>4, <1>7 DEF Opened, g

(* Results behind a message that is no ask.                                *)
LEMMA ResultsOpened ==
  ASSUME NEW h, Wellformed(h), Opened(h), ~IsAsk(h[Len(h)]),
         NEW x, x \in Seq(Messages), \A k \in 1 .. Len(x) : IsTool(x[k])
  PROVE  Opened(h \o x)
<1> DEFINE g == h \o x  N == Len(h)  M == Len(x)
<1>1. h \in Seq(Messages) /\ N \in Nat /\ N > 0 /\ HasSystem(h) /\ AsksFirst(h) /\ AsksAnswered(h)
      /\ M \in Nat
  BY AskIsNoTool DEF Opened, Wellformed
<1>2. /\ g \in Seq(Messages) /\ Len(g) = N + M
      /\ \A i \in 1 .. N : g[i] = h[i]
      /\ \A i \in N + 1 .. N + M : g[i] = x[i - N]
  BY <1>1, ConcatIs
<1>3. ~IsAsk(h[N]) /\ \A k \in 1 .. M : IsTool(x[k])
  OBVIOUS
<1> HIDE DEF g, N, M
<1>4. \A i \in N + 1 .. N + M : IsTool(g[i])
  <2> TAKE i \in N + 1 .. N + M
  <2>1. i - N \in 1 .. M
    BY <1>1
  <2> QED BY <1>2, <1>3, <2>1
<1>5. HasSystem(g)
  <2>1. g[1] = h[1] /\ Len(g) > 0
    BY <1>1, <1>2
  <2> QED BY <1>1, <1>2, <2>1 DEF HasSystem
<1>6. \A m : IsAsk(m) \/ IsUser(m) => ~IsTool(m)
  BY DEF IsAsk, IsUser, IsTool
<1>7. \A i \in 1 .. Len(g) : IsAsk(g[i]) \/ IsUser(g[i]) => i \in 1 .. N /\ g[i] = h[i]
  <2> SUFFICES ASSUME NEW i \in 1 .. Len(g), IsAsk(g[i]) \/ IsUser(g[i])
               PROVE  i \in 1 .. N /\ g[i] = h[i]
    OBVIOUS
  <2>1. ~(i \in N + 1 .. N + M)
    BY <1>4, <1>6
  <2>2. i \in 1 .. N
    BY <1>1, <1>2, <2>1
  <2> QED BY <1>2, <2>2
<1>8. ASSUME NEW i \in 1 .. Len(g), IsUser(g[i]), g[i].kind = "summary",
             NEW l \in 1 .. i - 1, IsAsk(g[l])
      PROVE  l <= 2
  <2>1. i \in 1 .. N /\ g[i] = h[i]
    BY <1>7, <1>8
  <2>2. g[l] = h[l]
    BY <1>1, <1>2, <2>1
  <2> QED BY <1>1, <1>8, <2>1, <2>2, Zenon DEF AsksFirst, N
<1>9. ASSUME NEW i \in 1 .. Len(g) - 1, IsAsk(g[i])
      PROVE  ~IsTool(g[i + 1])
  <2>1. i \in 1 .. N /\ g[i] = h[i]
    <3>1. i \in 1 .. Len(g)
      BY <1>1, <1>2
    <3> QED BY <1>7, <1>9, <3>1
  <2>2. i \in 1 .. N - 1
    BY <1>1, <1>3, <1>9, <2>1
  <2>3. g[i + 1] = h[i + 1]
    BY <1>1, <1>2, <2>2
  <2> QED BY <1>1, <1>9, <2>1, <2>2, <2>3, Zenon DEF AsksAnswered, N
<1>10. AsksFirst(g) /\ AsksAnswered(g)
  BY <1>8, <1>9, Zenon DEF AsksFirst, AsksAnswered
<1> QED
  BY <1>5, <1>10 DEF Opened, g

-----------------------------------------------------------------------------
(* The latest ask through the turns.                                       *)

AskInv == (history = <<>> /\ pc = "idle") \/ Opened(history)

LEMMA PlainEnters ==
  ASSUME NEW role \in {"system", "user", "assistant"}, NEW kind \in Kinds, kind # "summary"
  PROVE  /\ Plain(role, kind) \in Messages /\ ~IsTool(Plain(role, kind))
         /\ Plain(role, kind).kind # "summary" /\ Plain(role, kind).role = role
<1> DEFINE m == Plain(role, kind)
<1>1. role \in Roles
  BY DEF Roles
<1>2. m \in Messages /\ m = [role |-> role, kind |-> kind, calls |-> <<>>, id |-> NoId]
  BY <1>1, PlainIs
<1> HIDE DEF m
<1>3. ~IsTool(m) /\ m.kind # "summary" /\ m.role = role
  BY <1>2 DEF IsTool
<1> QED BY <1>2, <1>3 DEF m

LEMMA AskedOpened ==
  ASSUME Mended(history), history = <<>> \/ Opened(history)
  PROVE  Opened(Asked)
<1> DEFINE sys == Plain("system", "prompt")  req == Plain("user", "request")  p == Prompted(history)
<1>1. /\ sys \in Messages /\ ~IsTool(sys) /\ sys.role = "system"
      /\ req \in Messages /\ ~IsTool(req) /\ req.kind # "summary"
  BY PlainEnters DEF Kinds
<1>2. Wellformed(history)
  BY DEF Mended, Mendable
<1>3. Wellformed(p) /\ Opened(p)
  <2>1. CASE history = <<>>
    <3>1. ~HasSystem(history)
      BY <2>1 DEF HasSystem
    <3>2. p = <<sys>> \o history
      BY <3>1, Zenon DEF Prompted
    <3> HIDE DEF p, sys
    <3>3. p = <<sys>>
      BY <1>1, <2>1, <3>2
    <3>4. Len(p) = 1 /\ p[1] = sys /\ p # <<>>
      BY <3>3
    <3>5. HasSystem(p)
      BY <1>1, <3>4 DEF HasSystem
    <3>6. AsksFirst(p) /\ AsksAnswered(p)
      BY <3>4 DEF AsksFirst, AsksAnswered
    <3>7. p \in Seq(Messages)
      BY <1>1, <3>3
    <3>8. MessageOK(sys)
      BY PlainIs DEF sys, Roles, Kinds
    <3> QED BY <3>4, <3>5, <3>6, <3>7, <3>8 DEF Opened, Wellformed
  <2>2. CASE Opened(history)
    <3>1. p = history
      BY <2>2, Zenon DEF Prompted, Opened
    <3> QED BY <1>2, <2>2, <3>1
  <2> QED BY <2>1, <2>2
<1>4. MessageOK(req)
  BY PlainIs DEF Roles, Kinds
<1> HIDE DEF p, req
<1>5. Opened(Append(p, req))
  BY <1>1, <1>3, EnterOpened
<1>6. Wellformed(Append(p, req))
  <2>1. p \in Seq(Messages) /\ \A i \in 1 .. Len(p) : MessageOK(p[i])
    BY <1>3 DEF Wellformed
  <2>2. Append(p, req) \in Seq(Messages) /\ Len(Append(p, req)) = Len(p) + 1 /\ Len(p) \in Nat
        /\ Append(p, req)[Len(p) + 1] = req /\ \A i \in 1 .. Len(p) : Append(p, req)[i] = p[i]
    BY <1>1, <2>1
  <2> QED BY <1>4, <2>1, <2>2 DEF Wellformed
<1>7. Asked = Trim(Append(p, req), MaxHistory)
  BY Zenon DEF Asked, p, req
<1> QED
  BY <1>5, <1>6, <1>7, HistoryAssumption, TrimOpened

LEMMA StepAsk ==
  ASSUME ProtectFirst <= 3, HistoryInv, AskInv, [Next]_vars
  PROVE  AskInv'
<1>0. Mended(history) /\ Wellformed(history)
  BY DEF HistoryInv, Mended, Mendable
<1>1. ASSUME NEW provider \in BOOLEAN, NEW over \in BOOLEAN, Turn(provider, over)
      PROVE  AskInv'
  <2>1. history' = Asked
    BY <1>1 DEF Turn
  <2> QED BY <1>0, <2>1, AskedOpened, Zenon DEF AskInv
<1>2. ASSUME NEW provider \in BOOLEAN, NEW compact \in BOOLEAN, TurnStream(provider, compact)
      PROVE  AskInv'
  <2>1. history' \in {Asked, LegacyCompacted(Asked, KeepRecent)}
    BY <1>2 DEF TurnStream
  <2>2. Opened(Asked) /\ Wellformed(Asked)
    BY <1>0, AskedOpened, AskedMends, Zenon DEF AskInv, Mended, Mendable
  <2>3. Opened(LegacyCompacted(Asked, KeepRecent))
    BY <2>2, HistoryAssumption, LegacyOpened
  <2> QED BY <2>1, <2>2, <2>3, Zenon DEF AskInv
<1>3. CASE Reset
  BY <1>3 DEF Reset, AskInv
<1>4. ASSUME pc # "idle", NEW walk \in WalksNow, NEW effective, Compress(walk, effective)
      PROVE  AskInv'
  <2>1. Opened(history) /\ walk \in Int
    BY <1>0, <1>4, WalksAre DEF AskInv
  <2>2. CASE Overruns(history, walk)
    BY <1>4, <2>1, <2>2, Zenon DEF Compress, AskInv
  <2>3. CASE ~Overruns(history, walk)
    <3>1. history' = Compressed(history, walk)
      BY <1>4, <2>3, Zenon DEF Compress
    <3>2. Opened(Compressed(history, walk))
      BY <1>0, <2>1, <2>3, CompressedOpened
    <3> QED BY <3>1, <3>2, Zenon DEF AskInv
  <2> QED BY <2>2, <2>3
<1>5. CASE GiveUp
  BY <1>5, Zenon DEF GiveUp, AskInv
<1>6. ASSUME NEW text, NEW repeated, Answer(text, repeated)
      PROVE  AskInv'
  <2> DEFINE answer == Plain("assistant", "answer")  nudge == Plain("user", "nudge")
             said == Append(history, answer)
  <2>1. /\ answer \in Messages /\ ~IsTool(answer) /\ answer.kind # "summary"
        /\ nudge \in Messages /\ ~IsTool(nudge) /\ nudge.kind # "summary"
    BY PlainEnters DEF Kinds
  <2>2. Quiet(answer)
    BY PlainQuiet DEF Roles, Kinds
  <2>3. Opened(history) /\ history' \in {said, Append(said, nudge)}
    BY <1>6, Zenon DEF Answer, AskInv
  <2> HIDE DEF answer, nudge
  <2>4. Opened(said)
    BY <1>0, <2>1, <2>3, EnterOpened
  <2>5. Wellformed(said)
    BY <1>0, <2>2, EnterKeeps, Zenon DEF Mended, Mendable
  <2> HIDE DEF said
  <2>6. Opened(Append(said, nudge))
    BY <2>1, <2>4, <2>5, EnterOpened
  <2> QED BY <2>3, <2>4, <2>6, Zenon DEF AskInv
<1>7. ASSUME NEW reply \in Replies, NEW style \in Styles, NEW talks, NEW died,
             Call(reply, style, talks, died)
      PROVE  AskInv'
  <2> DEFINE calls == CallsOf(reply, style)
             said == IF style \in {"native", "blank"}
                       THEN [Plain("assistant", "calls") EXCEPT !.calls = calls]
                       ELSE Plain("assistant", style)
             results == ResultsOf(Deduped(calls), died)
             blocked == Plain("user", "blocked")  told == Plain("user", "results")
             g == Append(history, said)
  <2>1. /\ Mended(g) /\ said \in Messages /\ ~IsTool(said)
        /\ results \in Seq(Messages) /\ \A k \in 1 .. Len(results) : IsTool(results[k])
    BY <1>0, CallMends, Zenon
  <2>2. said.kind # "summary" /\ said.role = "assistant"
    <3>1. CASE style \in {"native", "blank"}
      <4> DEFINE c == calls
      <4>1. said = [Plain("assistant", "calls") EXCEPT !.calls = c]
        BY <3>1, Zenon
      <4> HIDE DEF c, said
      <4> QED BY <4>1 DEF Plain
    <3>2. CASE style \in {"xml", "json"}
      <4>1. said = Plain("assistant", style)
        BY <3>2
      <4> HIDE DEF said
      <4> QED BY <3>2, <4>1 DEF Plain
    <3> QED BY <3>1, <3>2 DEF Styles
  <2>3. /\ blocked \in Messages /\ ~IsTool(blocked) /\ blocked.kind # "summary"
        /\ told \in Messages /\ ~IsTool(told) /\ told.kind # "summary"
    BY PlainEnters DEF Kinds
  <2>4. /\ Opened(history)
        /\ \/ history' = history \o <<said, blocked>>
           \/ history' = g \o results
           \/ history' = g \o <<told>>
    BY <1>7, Zenon DEF Call, AskInv
  <2> HIDE DEF said, results, blocked, told
  <2>5. Wellformed(g) /\ Opened(g) /\ g \in Seq(Messages) /\ history \in Seq(Messages)
    BY <1>0, <2>1, <2>2, <2>4, EnterOpened DEF Mended, Mendable, Wellformed
  <2>6. history \o <<said, blocked>> = Append(g, blocked) /\ g \o <<told>> = Append(g, told)
    BY <2>1, <2>3, <2>5
  <2>7. ~IsAsk(g[Len(g)])
    <3>1. g[Len(g)] = said
      BY <2>1, <2>5
    <3> QED BY <2>2, <3>1 DEF IsAsk, IsUser
  <2> HIDE DEF g
  <2>8. Opened(Append(g, blocked)) /\ Opened(Append(g, told))
    BY <2>3, <2>5, EnterOpened
  <2>9. Opened(g \o results)
    BY <2>1, <2>5, <2>7, ResultsOpened
  <2> QED BY <2>4, <2>6, <2>8, <2>9, Zenon DEF AskInv
<1>8. ASSUME NEW walk \in WalksNow, NEW effective, NEW under, Preflight(walk, effective, under)
      PROVE  AskInv'
  BY <1>4, <1>8, Zenon DEF Preflight
<1>9. ASSUME NEW walk \in WalksNow, NEW over, NEW effective, Settle(over, walk, effective)
      PROVE  AskInv'
  <2>1. CASE Compress(walk, effective)
    BY <1>4, <1>9, <2>1 DEF Settle
  <2>2. CASE history' = history
    BY <1>9, <2>2 DEF Settle, AskInv
  <2> QED BY <1>9, <2>1, <2>2 DEF Settle
<1>10. CASE UNCHANGED vars
  BY <1>10, Zenon DEF vars, AskInv
<1> QED
  BY <1>1, <1>2, <1>3, <1>5, <1>6, <1>7, <1>8, <1>9, <1>10 DEF Next, InTurn

(* A compression keeps the latest message of the user's side and what was  *)
(* said since, in any history that turns with a head of three messages or  *)
(* fewer can leave, unless the head reaches up to that message.            *)
THEOREM LatestIsKept == ProtectFirst <= 3 => (Spec => LatestUserKept)
<1> SUFFICES ASSUME ProtectFirst <= 3 PROVE Spec => LatestUserKept
  OBVIOUS
<1>1. ASSUME HistoryInv, AskInv, [Next]_vars, pc \in {"preflight", "settle"},
             LastAsk(history) > HeadEnd(history) + 1
      PROVE  SinceAsk(history') = SinceAsk(history)
  <2>0. Mended(history) /\ Wellformed(history) /\ Opened(history)
    BY <1>1 DEF HistoryInv, Mended, Mendable, AskInv
  <2>1. ASSUME NEW walk \in WalksNow, NEW effective, Compress(walk, effective)
        PROVE  SinceAsk(history') = SinceAsk(history)
    <3>1. walk \in Int
      BY <2>0, <2>1, WalksAre
    <3>2. CASE Overruns(history, walk)
      BY <2>1, <3>2, Zenon DEF Compress
    <3>3. CASE ~Overruns(history, walk)
      <4>1. history' = Compressed(history, walk)
        BY <2>1, <3>3, Zenon DEF Compress
      <4>2. SinceAsk(Compressed(history, walk)) = SinceAsk(history)
        BY <1>1, <2>0, <3>1, <3>3, CompressedKeepsSince
      <4> QED BY <4>1, <4>2, Zenon
    <3> QED BY <3>2, <3>3
  <2>2. ASSUME history' = history PROVE SinceAsk(history') = SinceAsk(history)
    BY <2>2, Zenon
  <2>3. \/ \E walk \in WalksNow, effective \in BOOLEAN : Compress(walk, effective)
        \/ history' = history
    BY <1>1 DEF Next, InTurn, Turn, TurnStream, Begin, Reset, Preflight, GiveUp, Answer, Call, Settle, vars
  <2> QED BY <2>1, <2>2, <2>3, Zenon
<1>2. Init => AskInv
  BY DEF Init, AskInv
<1>3. HistoryInv /\ AskInv /\ [Next]_vars => AskInv'
  BY StepAsk
<1> QED
  BY <1>1, <1>2, <1>3, InitHistory, StepHistory, PTL DEF Spec, LatestUserKept
=============================================================================

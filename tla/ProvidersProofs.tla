-------------------------- MODULE ProvidersProofs --------------------------
(***************************************************************************)
(* Proofs about Providers, for every set of calls, number of providers,    *)
(* threshold and number of retries; and about Wire, for every history,     *)
(* limit of the payload and set of models, and however a text is cut.      *)
(***************************************************************************)
EXTENDS Providers, Wire, FiniteSetTheorems, SequenceTheorems, SelectionLemmas, TLAPS

(* A call about to send a request has sent one less than it may; one that  *)
(* is in no call has kept nothing.                                         *)
Counted ==
  \A c \in Calls :
    /\ pc[c] = "check" => asked[c] <= at[c] + attempts[c]
    /\ pc[c] = "check" /\ stream[c] => asked[c] = 0
    /\ pc[c] = "idle" => ~stream[c] /\ at[c] = 1 /\ attempts[c] = 0 /\ asked[c] = 0

IInv == TypeOK /\ BreakerAgrees /\ RetriesShared /\ Counted

(* The parts of the invariant about the breakers and about the calls. *)
BreakerInv ==
  /\ breaker \in [Providers -> {"closed", "open", "half_open"}]
  /\ failures \in [Providers -> 0 .. Threshold]
  /\ cooled \in [Providers -> BOOLEAN]
  /\ BreakerAgrees

CallInv(c) ==
  /\ stream[c] => at[c] = 1 /\ attempts[c] = 0 /\ asked[c] <= 1
  /\ asked[c] <= at[c] + attempts[c] + 1
  /\ pc[c] = "check" => asked[c] <= at[c] + attempts[c]
  /\ pc[c] = "check" /\ stream[c] => asked[c] = 0
  /\ pc[c] = "idle" => ~stream[c] /\ at[c] = 1 /\ attempts[c] = 0 /\ asked[c] = 0

CallTypes ==
  /\ pc \in [Calls -> {"idle", "check", "served", "failing"}]
  /\ stream \in [Calls -> BOOLEAN]
  /\ at \in [Calls -> Providers]
  /\ attempts \in [Calls -> 0 .. MaxRetries]
  /\ error \in [Calls -> ErrorKind \cup {"none"}]
  /\ asked \in [Calls -> Nat]

LEMMA Split ==
  IInv <=> BreakerInv /\ CallTypes /\ up \in [Providers -> BOOLEAN] /\ \A c \in Calls : CallInv(c)
  BY DEF IInv, TypeOK, RetriesShared, Counted, BreakerInv, CallTypes, CallInv

LEMMA Join ==
  BreakerInv' /\ CallTypes' /\ (up \in [Providers -> BOOLEAN])' /\ (\A c \in Calls : CallInv(c)') => IInv'
  BY DEF IInv, TypeOK, RetriesShared, Counted, BreakerInv, CallTypes, CallInv

-----------------------------------------------------------------------------
(* The breaker's operations keep its part, whoever calls them. *)

LEMMA AttemptKeeps ==
  ASSUME BreakerInv, NEW p \in Providers, Attempt(p)
  PROVE  BreakerInv'
  BY ThresholdAssumption DEF BreakerInv, BreakerAgrees, Attempt

LEMMA SuccessKeeps ==
  ASSUME BreakerInv, NEW p \in Providers, RecordSuccess(p)
  PROVE  BreakerInv'
  BY ThresholdAssumption DEF BreakerInv, BreakerAgrees, RecordSuccess

LEMMA FailureKeeps ==
  ASSUME BreakerInv, NEW p \in Providers, RecordFailure(p)
  PROVE  BreakerInv'
<1> DEFINE count == IF failures[p] < Threshold THEN failures[p] + 1 ELSE failures[p]
<1>1. /\ failures' = [failures EXCEPT ![p] = count]
      /\ cooled' = [cooled EXCEPT ![p] = FALSE]
      /\ breaker' = IF Opens(p, count) THEN [breaker EXCEPT ![p] = "open"] ELSE breaker
  BY DEF RecordFailure
<1>2. count \in 0 .. Threshold
  BY ThresholdAssumption DEF BreakerInv
<1>3. ~Opens(p, count) => breaker[p] = "closed" /\ count < Threshold
  BY <1>2, ThresholdAssumption DEF Opens, BreakerInv, BreakerAgrees
<1>4. Opens(p, count) => count = Threshold
  BY <1>2, ThresholdAssumption DEF Opens, BreakerInv, BreakerAgrees
<1> HIDE DEF count
<1>5. CASE Opens(p, count)
  BY <1>1, <1>2, <1>4, <1>5, ThresholdAssumption DEF BreakerInv, BreakerAgrees
<1>6. CASE ~Opens(p, count)
  BY <1>1, <1>2, <1>3, <1>6, ThresholdAssumption DEF BreakerInv, BreakerAgrees
<1> QED
  BY <1>5, <1>6

-----------------------------------------------------------------------------
(* What a call does with an error or an answer keeps the part of the calls. *)

LEMMA EndsKeeps ==
  ASSUME CallTypes, \A d \in Calls : CallInv(d),
         NEW c \in Calls, NEW with \in ErrorKind \cup {"none"}, Ends(c, with)
  PROVE  CallTypes' /\ \A d \in Calls : CallInv(d)'
<1>1. 1 \in Providers
  BY NAssumption DEF Providers
<1>2. 0 \in 0 .. MaxRetries
  BY RetriesAssumption
<1>3. CallTypes'
  BY <1>1, <1>2 DEF CallTypes, Ends
<1>4. CallInv(c)'
  BY <1>1 DEF CallTypes, CallInv, Ends
<1>5. ASSUME NEW d \in Calls, d # c PROVE CallInv(d)'
  BY <1>5 DEF CallTypes, CallInv, Ends
<1> QED
  BY <1>3, <1>4, <1>5

(* A call that goes on to its next check within its allowance. *)
LEMMA GoesOnKeeps ==
  ASSUME CallTypes, \A d \in Calls : CallInv(d),
         NEW c \in Calls, NEW p \in Providers, NEW n \in 0 .. MaxRetries,
         pc' = [pc EXCEPT ![c] = "check"],
         stream' = [stream EXCEPT ![c] = FALSE],
         at' = [at EXCEPT ![c] = p],
         attempts' = [attempts EXCEPT ![c] = n],
         UNCHANGED <<asked, error>>,
         asked[c] <= p + n
  PROVE  CallTypes' /\ \A d \in Calls : CallInv(d)'
<1>1. CallTypes'
  BY DEF CallTypes
<1>2. CallInv(c)'
  BY RetriesAssumption DEF CallTypes, CallInv, Providers
<1>3. ASSUME NEW d \in Calls, d # c PROVE CallInv(d)'
  BY <1>3 DEF CallTypes, CallInv
<1> QED
  BY <1>1, <1>2, <1>3

LEMMA FallOnKeeps ==
  ASSUME CallTypes, \A d \in Calls : CallInv(d),
         NEW c \in Calls, NEW kind \in ErrorKind, pc[c] # "idle", FallOn(c, kind)
  PROVE  CallTypes' /\ \A d \in Calls : CallInv(d)'
<1>1. CASE Ends(c, kind)
  BY <1>1, EndsKeeps
<1>2. CASE /\ stream[c]
           /\ pc' = [pc EXCEPT ![c] = "check"]
           /\ stream' = [stream EXCEPT ![c] = FALSE]
           /\ UNCHANGED <<at, attempts, asked, error>>
  <2>1. at[c] = 1 /\ attempts[c] = 0 /\ asked[c] <= 1
    BY <1>2 DEF CallInv
  <2>2. at' = [at EXCEPT ![c] = 1] /\ attempts' = [attempts EXCEPT ![c] = 0]
    BY <1>2, <2>1 DEF CallTypes
  <2>3. 1 \in Providers /\ 0 \in 0 .. MaxRetries
    BY NAssumption, RetriesAssumption DEF Providers
  <2>4. asked[c] <= 1 + 0
    BY <2>1 DEF CallTypes
  <2> QED
    BY <1>2, <2>2, <2>3, <2>4, GoesOnKeeps
<1>3. CASE /\ ~stream[c] /\ at[c] < N
           /\ pc' = [pc EXCEPT ![c] = "check"]
           /\ at' = [at EXCEPT ![c] = @ + 1]
           /\ UNCHANGED <<stream, attempts, asked, error>>
  <2>1. stream' = [stream EXCEPT ![c] = FALSE] /\ attempts' = [attempts EXCEPT ![c] = attempts[c]]
    BY <1>3 DEF CallTypes
  <2>2. at[c] + 1 \in Providers
    BY <1>3, NAssumption DEF CallTypes, Providers
  <2>3. attempts[c] \in 0 .. MaxRetries
    BY DEF CallTypes
  <2>4. asked[c] <= (at[c] + 1) + attempts[c]
    BY <2>3, RetriesAssumption DEF CallTypes, CallInv, Providers
  <2> QED
    BY <1>3, <2>1, <2>2, <2>3, <2>4, GoesOnKeeps
<1> QED
  BY <1>1, <1>2, <1>3 DEF FallOn, StreamFails, NextProvider

-----------------------------------------------------------------------------
LEMMA BeginKeeps ==
  ASSUME IInv, NEW c \in Calls, NEW streams \in BOOLEAN, Begin(c, streams)
  PROVE  IInv'
<1>1. BreakerInv' /\ (up \in [Providers -> BOOLEAN])'
  BY Split DEF BreakerInv, BreakerAgrees, Begin, breakerVars
<1>2. CallTypes'
  BY Split DEF CallTypes, Begin
<1>3. at[c] = 1 /\ attempts[c] = 0 /\ asked[c] = 0
  BY Split DEF CallInv, Begin
<1>4. CallInv(c)'
  BY <1>3, Split DEF CallTypes, CallInv, Begin
<1>5. ASSUME NEW d \in Calls, d # c PROVE CallInv(d)'
  BY <1>5, Split DEF CallTypes, CallInv, Begin
<1> QED
  BY <1>1, <1>2, <1>4, <1>5, Join

LEMMA CheckKeeps ==
  ASSUME IInv, NEW c \in Calls, Check(c)
  PROVE  IInv'
<1> USE Split
<1>1. at[c] \in Providers
  BY DEF CallTypes
<1>2. (up \in [Providers -> BOOLEAN])'
  BY DEF Check
<1>3. CASE Admits(at[c])
  <2>1. /\ Attempt(at[c])
        /\ pc[c] = "check"
        /\ pc' = [pc EXCEPT ![c] = IF up[at[c]] THEN "served" ELSE "failing"]
        /\ asked' = [asked EXCEPT ![c] = @ + 1]
        /\ UNCHANGED <<stream, at, attempts, error>>
    BY <1>3 DEF Check
  <2>2. BreakerInv'
    BY <1>1, <2>1, AttemptKeeps
  <2>3. CallTypes'
    BY <2>1 DEF CallTypes
  <2>4. asked[c] \in Nat /\ at[c] \in Nat /\ attempts[c] \in Nat
    BY RetriesAssumption DEF CallTypes, Providers
  <2>5. CallInv(c)'
    BY <2>1, <2>4 DEF CallTypes, CallInv
  <2>6. ASSUME NEW d \in Calls, d # c PROVE CallInv(d)'
    BY <2>1, <2>6 DEF CallTypes, CallInv
  <2> QED
    BY <1>2, <2>2, <2>3, <2>5, <2>6, Join
<1>4. CASE ~Admits(at[c])
  <2>1. FallOn(c, "retry") /\ UNCHANGED breakerVars /\ pc[c] # "idle"
    BY <1>4 DEF Check, Refused
  <2>2. CallTypes' /\ \A d \in Calls : CallInv(d)'
    BY <2>1, FallOnKeeps DEF ErrorKind
  <2>3. BreakerInv'
    BY <2>1 DEF BreakerInv, BreakerAgrees, breakerVars
  <2> QED
    BY <1>2, <2>2, <2>3, Join
<1> QED
  BY <1>3, <1>4

LEMMA SucceedsKeeps ==
  ASSUME IInv, NEW c \in Calls, Succeeds(c)
  PROVE  IInv'
<1>1. at[c] \in Providers /\ BreakerInv /\ CallTypes /\ \A d \in Calls : CallInv(d)
  BY Split DEF CallTypes
<1>2. RecordSuccess(at[c]) /\ Ends(c, "none") /\ UNCHANGED up
  BY DEF Succeeds
<1>3. BreakerInv'
  BY <1>1, <1>2, SuccessKeeps
<1>4. CallTypes' /\ \A d \in Calls : CallInv(d)'
  BY <1>1, <1>2, EndsKeeps
<1>5. (up \in [Providers -> BOOLEAN])'
  BY <1>2, Split
<1> QED
  BY <1>3, <1>4, <1>5, Join

LEMMA FailsKeeps ==
  ASSUME IInv, NEW c \in Calls, NEW kind \in ErrorKind, Fails(c, kind)
  PROVE  IInv'
<1>1. at[c] \in Providers /\ BreakerInv /\ CallTypes /\ \A d \in Calls : CallInv(d)
  BY Split DEF CallTypes
<1>2. RecordFailure(at[c]) /\ UNCHANGED up /\ pc[c] = "failing"
  BY DEF Fails
<1>3. BreakerInv'
  BY <1>1, <1>2, FailureKeeps
<1>4. ASSUME ~stream[c], CanRetry(c),
             pc' = [pc EXCEPT ![c] = "check"],
             attempts' = [attempts EXCEPT ![c] = @ + 1],
             UNCHANGED <<stream, at, error, asked>>
      PROVE  CallTypes' /\ \A d \in Calls : CallInv(d)'
  <2>1. /\ stream' = [stream EXCEPT ![c] = FALSE] /\ at' = [at EXCEPT ![c] = at[c]]
        /\ attempts' = [attempts EXCEPT ![c] = attempts[c] + 1]
    BY <1>1, <1>4 DEF CallTypes
  <2>2. attempts[c] + 1 \in 0 .. MaxRetries
    BY <1>1, <1>4, RetriesAssumption DEF CallTypes, CanRetry
  <2>3. asked[c] <= at[c] + (attempts[c] + 1)
    BY <1>1, RetriesAssumption DEF CallTypes, CallInv, Providers
  <2> QED
    BY <1>1, <1>4, <2>1, <2>2, <2>3, GoesOnKeeps
<1>5. ASSUME FallOn(c, kind) PROVE CallTypes' /\ \A d \in Calls : CallInv(d)'
  <2>1. pc[c] # "idle"
    BY <1>2
  <2> QED
    BY <1>1, <1>5, <2>1, FallOnKeeps
<1>6. CallTypes' /\ \A d \in Calls : CallInv(d)'
  BY <1>4, <1>5 DEF Fails
<1>7. (up \in [Providers -> BOOLEAN])'
  BY <1>2, Split
<1> QED
  BY <1>3, <1>6, <1>7, Join

LEMMA ServiceKeeps ==
  ASSUME IInv, NEW p \in Providers, CoolsDown(p) \/ Turns(p)
  PROVE  IInv'
<1>1. UNCHANGED callVars /\ UNCHANGED <<breaker, failures>>
  BY DEF CoolsDown, Turns, breakerVars
<1>2. BreakerInv' /\ (up \in [Providers -> BOOLEAN])'
  BY <1>1, Split DEF BreakerInv, BreakerAgrees, CoolsDown, Turns, breakerVars
<1>3. CallTypes' /\ \A d \in Calls : CallInv(d)'
  BY <1>1, Split DEF CallTypes, CallInv, callVars
<1> QED
  BY <1>2, <1>3, Join

(* The invariant holds initially and every step keeps it. *)
LEMMA Inductive == (Init => IInv) /\ (IInv /\ [Next]_vars => IInv')
<1>1. Init => IInv
  <2> SUFFICES ASSUME Init PROVE IInv
    OBVIOUS
  <2>1. 1 \in Providers /\ 0 \in 0 .. MaxRetries /\ 0 \in 0 .. Threshold /\ 0 < Threshold
    BY NAssumption, RetriesAssumption, ThresholdAssumption DEF Providers
  <2>2. BreakerInv
    BY <2>1 DEF Init, BreakerInv, BreakerAgrees
  <2>3. CallTypes
    BY <2>1 DEF Init, CallTypes
  <2>4. ASSUME NEW c \in Calls PROVE CallInv(c)
    <3>1. pc[c] = "idle" /\ ~stream[c] /\ at[c] = 1 /\ attempts[c] = 0 /\ asked[c] = 0
      BY DEF Init
    <3> QED
      BY <3>1 DEF CallInv
  <2> QED
    BY <2>2, <2>3, <2>4, Split DEF Init
<1>2. IInv /\ [Next]_vars => IInv'
  <2> SUFFICES ASSUME IInv, [Next]_vars PROVE IInv'
    OBVIOUS
  <2>1. ASSUME NEW c \in Calls, BeginAny(c) PROVE IInv'
    BY <2>1, BeginKeeps DEF BeginAny
  <2>2. ASSUME NEW c \in Calls, Proceeds(c) PROVE IInv'
    BY <2>2, CheckKeeps, SucceedsKeeps, FailsKeeps DEF Proceeds, Answered
  <2>3. ASSUME NEW p \in Providers, CoolsDown(p) \/ Turns(p) PROVE IInv'
    BY <2>3, ServiceKeeps
  <2>4. CASE UNCHANGED vars
    <3>1. BreakerInv' /\ CallTypes' /\ (up \in [Providers -> BOOLEAN])'
      BY <2>4, Split DEF vars, breakerVars, callVars, BreakerInv, BreakerAgrees, CallTypes
    <3>2. \A c \in Calls : CallInv(c)'
      BY <2>4, Split DEF vars, callVars, CallInv
    <3> QED
      BY <3>1, <3>2, Join
  <2> QED
    BY <2>1, <2>2, <2>3, <2>4 DEF Next
<1> QED
  BY <1>1, <1>2

(* The inductive invariant of the chain and its breakers. *)
THEOREM IInvHolds == Spec => []IInv
  BY Inductive, PTL DEF Spec

(* Types, for every number of calls and providers. *)
THEOREM TypeCorrect == Spec => []TypeOK
<1>1. IInv => TypeOK
  BY DEF IInv
<1> QED
  BY <1>1, IInvHolds, PTL

(* The breaker blocks exactly from the failure that reaches the threshold  *)
(* to the next success, in any interleaving of requests and outcomes.      *)
THEOREM BreakersAgree == Spec => []BreakerAgrees
<1>1. IInv => BreakerAgrees
  BY DEF IInv
<1> QED
  BY <1>1, IInvHolds, PTL

(* A call sends one request per provider and its retries, plus one stream. *)
THEOREM RetriesAreShared == Spec => []RetriesShared
<1>1. IInv => RetriesShared
  BY DEF IInv
<1> QED
  BY <1>1, IInvHolds, PTL

-----------------------------------------------------------------------------
(* A chain that ends with an error worth a fallback has used it up. *)
LEMMA FallOnGivesUpLate ==
  ASSUME IInv, NEW c \in Calls, NEW kind \in ErrorKind, FallOn(c, kind),
         ~stream[c], pc'[c] = "idle", error'[c] \in {"retry", "switch"}
  PROVE  at[c] = N \/ attempts[c] = MaxRetries
<1>1. CallTypes
  BY Split
<1>2. CASE kind \in {"retry", "switch"}
  <2>1. NextProvider(c, kind)
    BY <1>2 DEF FallOn, Switches
  <2>2. ~(at[c] < N /\ CanRetry(c))
    <3> SUFFICES ASSUME at[c] < N /\ CanRetry(c) PROVE FALSE
      OBVIOUS
    <3>1. pc' = [pc EXCEPT ![c] = "check"]
      BY <2>1 DEF NextProvider
    <3> QED
      BY <1>1, <3>1 DEF CallTypes
  <2> QED
    BY <1>1, <2>2, NAssumption, RetriesAssumption DEF CallTypes, CanRetry, Providers
<1>3. CASE kind \notin {"retry", "switch"}
  <2>1. error' = [error EXCEPT ![c] = kind]
    BY <1>3 DEF FallOn, Switches, Ends
  <2> QED
    BY <1>1, <1>3, <2>1 DEF CallTypes
<1> QED
  BY <1>2, <1>3

LEMMA StepGivesUpLate ==
  ASSUME IInv, Next, NEW c \in Calls,
         pc[c] # "idle", pc'[c] = "idle", ~stream[c], error'[c] \in {"retry", "switch"}
  PROVE  at[c] = N \/ attempts[c] = MaxRetries
<1>0. CallTypes
  BY Split
<1>1. ASSUME NEW d \in Calls, d # c, pc' = [pc EXCEPT ![d] = pc'[d]] PROVE FALSE
  BY <1>0, <1>1 DEF CallTypes
<1>2. ASSUME NEW d \in Calls, BeginAny(d) PROVE FALSE
  <2>1. pc' = [pc EXCEPT ![d] = "check"]
    BY <1>2 DEF BeginAny, Begin
  <2> QED
    BY <1>0, <2>1 DEF CallTypes
<1>3. ASSUME NEW d \in Calls, Proceeds(d) PROVE d = c
  <2>1. pc' = [pc EXCEPT ![d] = "check"] \/ pc' = [pc EXCEPT ![d] = "idle"]
        \/ pc' = [pc EXCEPT ![d] = "served"] \/ pc' = [pc EXCEPT ![d] = "failing"]
    BY <1>3 DEF Proceeds, Answered, Check, Succeeds, Fails, Refused, FallOn, StreamFails, NextProvider, Ends
  <2> QED
    BY <1>0, <2>1 DEF CallTypes
<1>4. CASE Check(c)
  <2>1. CASE Admits(at[c])
    <3>1. pc' = [pc EXCEPT ![c] = IF up[at[c]] THEN "served" ELSE "failing"]
      BY <1>4, <2>1 DEF Check
    <3> QED
      BY <1>0, <3>1 DEF CallTypes
  <2>2. CASE ~Admits(at[c])
    BY <1>4, <2>2, FallOnGivesUpLate DEF Check, Refused, ErrorKind
  <2> QED
    BY <2>1, <2>2
<1>5. CASE Succeeds(c)
  BY <1>0, <1>5 DEF Succeeds, Ends, CallTypes
<1>6. ASSUME NEW kind \in ErrorKind, Fails(c, kind)
      PROVE  at[c] = N \/ attempts[c] = MaxRetries
  <2>1. CASE pc' = [pc EXCEPT ![c] = "check"]
    BY <1>0, <2>1 DEF CallTypes
  <2>2. CASE FallOn(c, kind)
    BY <2>2, FallOnGivesUpLate
  <2> QED
    BY <1>6, <2>1, <2>2 DEF Fails
<1>7. ASSUME NEW p \in Providers, CoolsDown(p) \/ Turns(p) PROVE FALSE
  BY <1>7 DEF CoolsDown, Turns, callVars
<1> QED
  BY <1>2, <1>3, <1>4, <1>5, <1>6, <1>7 DEF Next, Proceeds, Answered

(* A call gives up on an error worth a fallback only when it has no        *)
(* provider or no retry left.                                              *)
THEOREM GivesUpLateHolds == Spec => GivesUpLate
<1>1. IInv /\ [Next]_vars =>
        [\A c \in Calls :
           pc[c] # "idle" /\ pc'[c] = "idle" /\ ~stream[c] /\ error'[c] \in {"retry", "switch"} =>
             at[c] = N \/ attempts[c] = MaxRetries]_vars
  BY StepGivesUpLate
<1> QED
  BY <1>1, IInvHolds, PTL DEF Spec, GivesUpLate

-----------------------------------------------------------------------------
(* What providers send and show.                                           *)

AskedModels == [ok : BOOLEAN, model : Models]
GeminiParts == [call : BOOLEAN, sig : BOOLEAN]

(* The requests: what `wire` holds was built from the history there is.    *)
RequestsFit == history \in Seq(Kinds) /\ GeminiKeepsOrder /\ OpenAiFits

(* The models asked are the first of the chain.                            *)
AskedFits ==
  /\ listing \subseteq Models /\ chain \in Seq(AskedModels)
  /\ chain # <<>> =>
       /\ Len(chain) <= Len(Others(chain[1].model)) + 1
       /\ \A k \in 2 .. Len(chain) : chain[k].model = Others(chain[1].model)[k - 1]

(* One block of thoughts, opened at o and closed at c: up to position p of *)
(* the text W, the pieces shown are those outside of it.                   *)
OneTag(W) ==
  /\ \A o, o2 \in Tags(W, "<th") : o = o2
  /\ \A o \in Tags(W, "<th"), c \in Tags(W, "</th") : o + 1 < c
ScanEnds(O, C, p, in, inTag, seen) ==
  \/ (\A o \in O : p < o) /\ in = FALSE /\ inTag = FALSE /\ seen = Run(1, p)
  \/ \E o \in O : /\ o <= p /\ \A c \in C : p < c
                 /\ in = TRUE /\ (inTag = TRUE <=> o = p) /\ seen = Run(1, o - 1)
  \/ \E o \in O, c \in C : /\ c <= p /\ \A d \in C : c <= d
                          /\ in = FALSE /\ (inTag = TRUE <=> c = p) /\ seen = Run(1, o - 1) \o Run(c + 2, p)
ScanFits(W, p, in, inTag, seen) == ScanEnds(Tags(W, "<th"), Tags(W, "</th"), p, in, inTag, seen)

StreamTypes ==
  /\ written \in Seq(Pieces) /\ held \in {<<>>, <<"<th">>} /\ inThink \in BOOLEAN /\ cutClose \in BOOLEAN
  /\ content \in Seq(Nat)
HeldFits ==
  /\ held # <<>> => written # <<>> /\ Last(written) = "<th"
  /\ held = <<>> /\ written # <<>> /\ Last(written) = "<th" => inThink = TRUE
StreamFits ==
  /\ StreamTypes
  /\ answer = "idle" => written = <<>> /\ held = <<>> /\ inThink = FALSE /\ content = <<>>
  /\ answer = "open" =>
       /\ HeldFits
       /\ OneTag(written) /\ cutClose = FALSE => ScanFits(written, Len(written) - Len(held), inThink, FALSE, content)
  /\ StreamAgrees

(* Only calls of before the first signature are without one.               *)
CallsUpTo(ps, n) == Cardinality({i \in 1 .. n : ps[i].call})
SignedFits ==
  /\ parts \in Seq(GeminiParts) /\ signed \in Seq(BOOLEAN) /\ Len(signed) = CallsIn(parts)
  /\ sigSeen \in BOOLEAN /\ (sigSeen <=> AnySigned(parts))
  /\ \A i \in 1 .. Len(signed) : signed[i] = FALSE /\ AnySigned(parts) => i <= CallsUpTo(parts, FirstSigned - 1)

WireInv == RequestsFit /\ AskedFits /\ StreamFits /\ SignedFits

-----------------------------------------------------------------------------
(* The requests of an OpenAI-compatible client.                            *)

LEMMA InOrderIs ==
  ASSUME history \in Seq(Kinds), NEW kept \in SUBSET DOMAIN history
  PROVE  /\ InOrder(kept) \in Seq(Nat)
         /\ \A k \in DOMAIN InOrder(kept) : InOrder(kept)[k] \in kept
         /\ \A i \in kept : \E k \in DOMAIN InOrder(kept) : InOrder(kept)[k] = i
<1> DEFINE s == [i \in DOMAIN history |-> i]
<1>1. s \in Seq(Nat) /\ Len(s) = Len(history) /\ DOMAIN history = 1 .. Len(history) /\ \A i \in DOMAIN history : s[i] = i
  OBVIOUS
<1>2. InOrder(kept) = Picked(s, kept)
  BY DEF InOrder
<1> HIDE DEF s
<1>3. Picked(s, kept) \in Seq(Nat) /\ \E pos : Enumerates(pos, Picked(s, kept), s, kept, Len(s))
  BY <1>1, PickedMap
<1>4. PICK pos : Enumerates(pos, InOrder(kept), s, kept, Len(history))
  BY <1>1, <1>2, <1>3
<1>5. InOrder(kept) \in Seq(Nat) /\ DOMAIN InOrder(kept) = 1 .. Len(InOrder(kept))
  BY <1>2, <1>3
<1>6. ASSUME NEW k \in 1 .. Len(InOrder(kept)) PROVE InOrder(kept)[k] = pos[k] /\ pos[k] \in kept
  BY <1>1, <1>4 DEF Enumerates
<1>7. ASSUME NEW i \in kept PROVE \E k \in 1 .. Len(InOrder(kept)) : InOrder(kept)[k] = i
  BY <1>1, <1>4, <1>6 DEF Enumerates
<1> QED BY <1>5, <1>6, <1>7

LEMMA FitPartIs ==
  ASSUME history \in Seq(Kinds), history # <<>>
  PROVE  /\ FitPart \in SUBSET DOMAIN history /\ SystemPart \cup {Len(history)} \subseteq FitPart
         /\ \A j \in DOMAIN history : Fits(j) => j \in FitPart
<1>1. Len(history) \in DOMAIN history /\ SystemPart \subseteq DOMAIN history
  BY DEF SystemPart, HasSystem
<1>2. CASE FitPart = DOMAIN history
  BY <1>1, <1>2
<1>3. CASE FitPart = Truncated
  BY <1>1, <1>3 DEF Truncated, Fits
<1> QED BY <1>2, <1>3 DEF FitPart

LEMMA OpenAiKeeps == RequestsFit /\ OpenAiRequest => RequestsFit'
<1> SUFFICES ASSUME RequestsFit, OpenAiRequest PROVE RequestsFit'
  OBVIOUS
<1>1. /\ history \in Seq(Kinds) /\ history # <<>> /\ history' = history
      /\ wire' = IF Estimate(FitPart) <= MaxPayload THEN [by |-> "openai", body |-> Prepared(FitPart)]
                 ELSE [by |-> "too large", body |-> <<>>]
  BY DEF RequestsFit, OpenAiRequest
<1>2. GeminiKeepsOrder'
  BY <1>1 DEF GeminiKeepsOrder
<1>3. OpenAiFits'
  <2> SUFFICES ASSUME wire'.by = "openai" PROVE OpenAiFits'
    BY DEF OpenAiFits
  <2>1. wire'.body = Prepared(FitPart) /\ Estimate(FitPart) <= MaxPayload
    BY <1>1
  <2> DEFINE q == InOrder(FitPart)
  <2>2. /\ q \in Seq(Nat) /\ \A k \in DOMAIN q : q[k] \in FitPart
        /\ \A i \in FitPart : \E k \in DOMAIN q : q[k] = i
    BY <1>1, FitPartIs, InOrderIs
  <2>3. DOMAIN wire'.body = DOMAIN q /\ \A k \in DOMAIN q : wire'.body[k].parts[1] = q[k]
    BY <2>1 DEF Prepared
  <2> HIDE DEF q
  <2>4. Sent' = FitPart
    BY <2>2, <2>3 DEF Sent
  <2>6. \A S : Estimate(S)' = Estimate(S)
    BY <1>1 DEF Estimate
  <2>7. SystemPart' = SystemPart
    BY <1>1 DEF SystemPart, HasSystem
  <2>5. \A j : Fits(j)' <=> Fits(j)
    BY <1>1, <2>6, <2>7 DEF Fits
  <2> QED BY <1>1, <2>1, <2>4, <2>5, <2>6, <2>7, FitPartIs DEF OpenAiFits
<1> QED BY <1>1, <1>2, <1>3 DEF RequestsFit

-----------------------------------------------------------------------------
(* Gemini's contents.                                                      *)

GeminiRoles == {"user", "model"}
Group == [role : GeminiRoles, parts : Seq(Nat)]
GroupsOf == Seq(Group)
PartsOf(g) == [k \in DOMAIN g |-> g[k].parts]

IsGrouped(p, n) ==
  /\ DOMAIN p = 0 .. n /\ p[0] = <<>>
  /\ \A k \in 1 .. n : p[k] = Grouped(p[k - 1], Spoken[k])
GroupRec(p, n) == p = [k \in 0 .. n |-> IF k = 0 THEN <<>> ELSE Grouped(p[k - 1], Spoken[k])]

LEMMA GroupExists == ASSUME NEW n \in Nat PROVE \E p : GroupRec(p, n)
<1> DEFINE T == {m \in Nat : \E p : IsGrouped(p, m)}
<1>1. 0 \in T
  <2>1. IsGrouped([k \in 0 .. 0 |-> <<>>], 0)
    BY DEF IsGrouped
  <2> QED BY <2>1
<1>2. ASSUME NEW m \in Nat, m \in T PROVE m + 1 \in T
  <2>1. PICK p : IsGrouped(p, m)
    BY <1>2
  <2> DEFINE next == Grouped(p[m], Spoken[m + 1])
             q == [k \in 0 .. m + 1 |-> IF k <= m THEN p[k] ELSE next]
  <2>2. q[m + 1] = next /\ \A k \in 0 .. m : q[k] = p[k]
    OBVIOUS
  <2>3. DOMAIN q = 0 .. m + 1
    OBVIOUS
  <2> HIDE DEF q
  <2>4. IsGrouped(q, m + 1)
    BY <2>1, <2>2, <2>3 DEF IsGrouped
  <2> QED BY <2>4
<1> HIDE DEF T
<1>3. Nat \subseteq T
  BY <1>1, <1>2, Induction
<1>4. PICK p : IsGrouped(p, n)
  BY <1>3 DEF T
<1> DEFINE r == [k \in 0 .. n |-> p[k]]
<1>5. ASSUME NEW k \in 0 .. n PROVE r[k] = IF k = 0 THEN <<>> ELSE Grouped(r[k - 1], Spoken[k])
  <2>1. r[k] = p[k]
    OBVIOUS
  <2>2. CASE k = 0
    BY <1>4, <2>1, <2>2, Zenon DEF IsGrouped
  <2>3. CASE k # 0
    <3>1. k \in 1 .. n /\ k - 1 \in 0 .. n
      BY <2>3
    <3>2. r[k - 1] = p[k - 1]
      BY <3>1
    <3>3. p[k] = Grouped(p[k - 1], Spoken[k])
      BY <1>4, <3>1, Zenon DEF IsGrouped
    <3> QED BY <2>1, <2>3, <3>2, <3>3, Zenon
  <2> QED BY <2>2, <2>3
<1>6. r = [k \in 0 .. n |-> r[k]]
  BY Zenon
<1> HIDE DEF r
<1>7. GroupRec(r, n)
  BY <1>5, <1>6, Zenon DEF GroupRec
<1> QED BY <1>7, Zenon

LEMMA GroupedIs ==
  ASSUME Spoken \in Seq(Nat)
  PROVE  \E p : IsGrouped(p, Len(Spoken)) /\ Contents = p[Len(Spoken)]
<1> DEFINE n == Len(Spoken)  p == CHOOSE q : GroupRec(q, n)
<1>1. n \in Nat
  OBVIOUS
<1>2. \E q : GroupRec(q, n)
  BY <1>1, GroupExists
<1>3. GroupRec(p, n)
  BY <1>2, Zenon
<1>4. Contents = p[n]
  BY Zenon DEF Contents, GroupRec
<1> HIDE DEF p
<1>5. \A k \in 0 .. n : p[k] = IF k = 0 THEN <<>> ELSE Grouped(p[k - 1], Spoken[k])
  BY <1>3, Zenon DEF GroupRec
<1>6. DOMAIN p = 0 .. n
  BY <1>3, Zenon DEF GroupRec
<1>7. p[0] = <<>>
  <2>1. 0 \in 0 .. n
    BY <1>1
  <2> QED BY <1>5, <2>1, Zenon
<1>8. ASSUME NEW k \in 1 .. n PROVE p[k] = Grouped(p[k - 1], Spoken[k])
  <2>1. k \in 0 .. n /\ k # 0
    BY <1>1
  <2> QED BY <1>5, <2>1, Zenon
<1>9. IsGrouped(p, n)
  BY <1>6, <1>7, <1>8, Zenon DEF IsGrouped
<1> QED BY <1>4, <1>9

(* FlattenSeq of a sequence with one more at its end.                      *)
LEMMA FlattenAppend ==
  ASSUME NEW S, NEW ss \in Seq(Seq(S)), NEW t \in Seq(S)
  PROVE  FlattenSeq(ss) \in Seq(S) /\ FlattenSeq(Append(ss, t)) = FlattenSeq(ss) \o t
<1> DEFINE n == Len(ss)  ss2 == Append(ss, t)
<1> DEFINE Z == Seq(S)
<1>11. ss \in Seq(Z) /\ t \in Z
  OBVIOUS
<1> HIDE DEF Z
<1>12. /\ n \in Nat /\ ss2 \in Seq(Z) /\ ss2 # <<>> /\ Len(ss2) = n + 1 /\ ss2[n + 1] = t
      /\ \A i \in 1 .. n : ss2[i] = ss[i]
  BY <1>11
<1>1. /\ n \in Nat /\ ss2 \in Seq(Seq(S)) /\ ss2 # <<>> /\ Len(ss2) = n + 1 /\ ss2[n + 1] = t
      /\ \A i \in 1 .. n : ss2[i] = ss[i]
  BY <1>12 DEF Z
<1>0. FlattenSeq(ss) \in Seq(S)
  BY FlattenMap
<1> HIDE DEF n, ss2
<1>2. PICK q : IsFlat(q, ss2, n + 1) /\ FlattenSeq(ss2) = q[n + 1]
  BY <1>1, FlattenIs
<1>3. CASE ss = <<>>
  <2>1. n = 0 /\ FlattenSeq(ss) = <<>>
    BY <1>3 DEF n, FlattenSeq
  <2>2. q[n + 1] = t
    BY <1>1, <1>2, <2>1 DEF IsFlat
  <2>3. <<>> \o t = t
    OBVIOUS
  <2> QED BY <1>0, <1>2, <2>1, <2>2, <2>3 DEF ss2
<1>4. CASE ss # <<>>
  <2>1. PICK p : IsFlat(p, ss, n) /\ FlattenSeq(ss) = p[n]
    BY <1>4, FlattenIs DEF n
  <2>2. n > 0
    BY <1>4 DEF n
  <2> DEFINE T == {i \in Nat : i + 1 <= n => q[i + 1] = p[i + 1]}
  <2>3. 0 \in T
    BY <1>1, <1>2, <2>1, <2>2 DEF IsFlat
  <2>4. ASSUME NEW i \in Nat, i \in T PROVE i + 1 \in T
    <3> SUFFICES ASSUME i + 2 <= n PROVE q[i + 2] = p[i + 2]
      OBVIOUS
    <3>1. i + 2 \in 2 .. n /\ i + 2 \in 2 .. n + 1 /\ i + 2 \in 1 .. n /\ (i + 2) - 1 = i + 1
      BY <1>1
    <3>2. q[i + 2] = q[i + 1] \o ss2[i + 2] /\ p[i + 2] = p[i + 1] \o ss[i + 2]
      BY <1>2, <2>1, <3>1 DEF IsFlat
    <3>3. q[i + 1] = p[i + 1]
      BY <1>1, <2>4
    <3> QED BY <1>1, <3>1, <3>2, <3>3
  <2> HIDE DEF T
  <2>5. n - 1 \in T
    <3>1. Nat \subseteq T
      BY <2>3, <2>4, Induction
    <3> QED BY <1>1, <2>2, <3>1
  <2>6. q[n] = p[n]
    BY <1>1, <2>2, <2>5 DEF T
  <2>7. q[n + 1] = q[n] \o ss2[n + 1]
    <3>1. n + 1 \in 2 .. n + 1 /\ (n + 1) - 1 = n
      BY <1>1, <2>2
    <3> QED BY <1>2, <3>1 DEF IsFlat
  <2> QED BY <1>0, <1>1, <1>2, <2>1, <2>6, <2>7 DEF ss2
<1> QED BY <1>3, <1>4

LEMMA LastAppended ==
  ASSUME NEW S, NEW f \in Seq(S), NEW a \in S, NEW n \in Nat, n > 0, Len(f) = n - 1,
         NEW q, q = [k \in 1 .. n |-> q[k]], q[n] = a, \A k \in 1 .. n - 1 : q[k] = f[k]
  PROVE  q = Append(f, a)
<1>1. n = Len(f) + 1
  OBVIOUS
<1>2. /\ Append(f, a) \in Seq(S) /\ DOMAIN Append(f, a) = 1 .. Len(f) + 1
      /\ Append(f, a)[Len(f) + 1] = a /\ \A k \in 1 .. Len(f) : Append(f, a)[k] = f[k]
  OBVIOUS
<1> DEFINE r == Append(f, a)
<1>3. r \in Seq(S) /\ DOMAIN r = 1 .. n /\ r[n] = a /\ \A k \in 1 .. n - 1 : r[k] = f[k]
  BY <1>1, <1>2
<1> HIDE DEF r
<1>4. r = [k \in DOMAIN r |-> r[k]]
  BY <1>3
<1>5. \A k \in 1 .. n : r[k] = q[k]
  <2> TAKE k \in 1 .. n
  <2>1. CASE k = n
    BY <1>3, <2>1
  <2>2. CASE k # n
    <3>1. k \in 1 .. n - 1
      BY <2>2
    <3> QED BY <1>3, <3>1
  <2> QED BY <2>1, <2>2
<1> QED BY <1>3, <1>4, <1>5 DEF r

GroupsFit(g, n) ==
  /\ g \in GroupsOf /\ \A k \in 2 .. Len(g) : g[k].role # g[k - 1].role
  /\ FlattenSeq(PartsOf(g)) = SubSeq(Spoken, 1, n)

LEMMA GroupStep ==
  ASSUME Spoken \in Seq(Nat), NEW n \in Nat, n + 1 <= Len(Spoken), NEW g, GroupsFit(g, n)
  PROVE  GroupsFit(Grouped(g, Spoken[n + 1]), n + 1)
<1> DEFINE i == Spoken[n + 1]  h == Grouped(g, i)  r == GeminiRole(history[i])  End == Len(g)
<1>1. g \in GroupsOf /\ End \in Nat /\ DOMAIN g = 1 .. End /\ i \in Nat /\ r \in GeminiRoles
  BY DEF GroupsFit, GroupsOf, GeminiRole, GeminiRoles
<1>2. SubSeq(Spoken, 1, n + 1) = Append(SubSeq(Spoken, 1, n), i) /\ SubSeq(Spoken, 1, n) \in Seq(Nat)
  OBVIOUS
<1>31. \A k \in 1 .. End : g[k] \in Group /\ g[k].parts \in Seq(Nat) /\ PartsOf(g)[k] = g[k].parts
  <2>1. \A k \in 1 .. End : g[k] \in Group
    BY <1>1 DEF GroupsOf
  <2> QED BY <1>1, <2>1 DEF PartsOf, Group
<1>32. DOMAIN PartsOf(g) = 1 .. End /\ PartsOf(g) = [k \in 1 .. End |-> g[k].parts]
  BY <1>1 DEF PartsOf
<1>3. PartsOf(g) \in Seq(Seq(Nat)) /\ Len(PartsOf(g)) = End
  BY <1>1, <1>31, <1>32
<1>4. Joins(g, i) <=> (g # <<>> /\ g[End].role = r)
  BY DEF Joins, Last
<1> HIDE DEF i, r, h
<1>5. CASE Joins(g, i)
  <2>1. End > 0 /\ g[End].role = r
    BY <1>1, <1>4, <1>5 DEF GroupsOf
  <2>2. h = [g EXCEPT ![End].parts = Append(@, i)]
    BY <1>5 DEF Grouped, h
  <2> DEFINE u == g[End].parts  f == SubSeq(PartsOf(g), 1, End - 1)
  <2>3. u \in Seq(Nat) /\ g[End] \in Group /\ Append(u, i) \in Seq(Nat)
    BY <1>1, <1>31, <2>1 DEF Group
  <2>4. h \in GroupsOf /\ Len(h) = End /\ h[End].parts = Append(u, i) /\ h[End].role = g[End].role
        /\ \A k \in 1 .. End - 1 : h[k] = g[k]
    <3> DEFINE v == [g[End] EXCEPT !.parts = Append(u, i)]
    <3>1. v \in Group /\ v.parts = Append(u, i) /\ v.role = g[End].role
      BY <2>3 DEF Group
    <3>2. h = [g EXCEPT ![End] = v]
      BY <2>2
    <3> HIDE DEF v
    <3>3. h \in GroupsOf /\ Len(h) = End /\ h[End] = v /\ \A k \in 1 .. End - 1 : h[k] = g[k]
      BY <1>1, <2>1, <3>1, <3>2 DEF GroupsOf
    <3> QED BY <3>1, <3>3
  <2>5. ASSUME NEW k \in 2 .. Len(h) PROVE h[k].role # h[k - 1].role
    <3>1. k \in 2 .. End /\ k - 1 \in 1 .. End - 1 /\ g[k].role # g[k - 1].role
      BY <1>1, <2>4 DEF GroupsFit
    <3>2. h[k].role = g[k].role
      BY <2>4, <3>1
    <3> QED BY <2>4, <3>1, <3>2
  <2>6. f \in Seq(Seq(Nat))
    BY <1>1, <1>3, <2>1
  <2>7. PartsOf(g) = Append(f, u)
    BY <1>1, <1>3, <2>1 DEF PartsOf
  <2>8. PartsOf(h) = Append(f, Append(u, i))
    <3> DEFINE a == Append(u, i)  ph == PartsOf(h)
    <3>1. ph = [k \in 1 .. End |-> ph[k]] /\ ph[End] = a /\ \A k \in 1 .. End - 1 : ph[k] = g[k].parts
      BY <1>1, <2>1, <2>4 DEF PartsOf, GroupsOf
    <3>2. \A k \in 1 .. End - 1 : f[k] = g[k].parts
      BY <1>3, <1>31, <2>1
    <3>3. Len(f) = End - 1 /\ a \in Seq(Nat)
      BY <1>1, <1>3, <2>1, <2>3
    <3> DEFINE Z == Seq(Nat)
    <3>5. f \in Seq(Z) /\ a \in Z
      BY <2>6, <3>3
    <3> HIDE DEF f, a, ph, Z, End
    <3>6. End > 0 /\ End \in Nat /\ \A k \in 1 .. End - 1 : ph[k] = f[k]
      BY <1>1, <2>1, <3>1, <3>2
    <3>4. ph = Append(f, a)
      BY <3>1, <3>3, <3>5, <3>6, LastAppended
    <3> QED BY <3>4 DEF ph, a
  <2> HIDE DEF f, u
  <2>9. FlattenSeq(f) \in Seq(Nat) /\ FlattenSeq(PartsOf(g)) = FlattenSeq(f) \o u
        /\ FlattenSeq(PartsOf(h)) = FlattenSeq(f) \o Append(u, i)
    BY <2>3, <2>6, <2>7, <2>8, FlattenAppend
  <2>10. FlattenSeq(f) \o Append(u, i) = Append(FlattenSeq(f) \o u, i)
    BY <1>1, <2>3, <2>9
  <2>11. FlattenSeq(PartsOf(h)) = SubSeq(Spoken, 1, n + 1)
    BY <1>2, <2>9, <2>10 DEF GroupsFit
  <2> QED BY <2>4, <2>5, <2>11 DEF GroupsFit, h, i
<1>6. CASE ~Joins(g, i)
  <2> DEFINE c == [role |-> r, parts |-> <<i>>]
  <2>1. h = Append(g, c) /\ c \in Group /\ c.role = r /\ c.parts = <<i>>
    BY <1>1, <1>6 DEF Grouped, r, h, Group
  <2> HIDE DEF c
  <2>2. h \in GroupsOf /\ Len(h) = End + 1 /\ h[End + 1] = c /\ \A k \in 1 .. End : h[k] = g[k]
    BY <1>1, <2>1 DEF GroupsOf
  <2>3. ASSUME NEW k \in 2 .. Len(h) PROVE h[k].role # h[k - 1].role
    <3>1. CASE k = End + 1
      <4>1. End >= 1 /\ k - 1 = End /\ g # <<>>
        BY <1>1, <2>2, <3>1
      <4>2. h[k] = c /\ h[k - 1] = g[End]
        BY <1>1, <2>2, <3>1, <4>1
      <4> QED BY <1>4, <1>6, <2>1, <4>1, <4>2
    <3>2. CASE k # End + 1
      <4>1. k \in 2 .. End /\ k - 1 \in 1 .. End /\ k \in 1 .. End
        BY <1>1, <2>2, <3>2
      <4> QED BY <2>2, <4>1 DEF GroupsFit
    <3> QED BY <3>1, <3>2
  <2>4. PartsOf(h) = Append(PartsOf(g), <<i>>)
    BY <1>1, <1>3, <2>1, <2>2 DEF PartsOf, GroupsOf
  <2>5. <<i>> \in Seq(Nat)
    BY <1>1
  <2>6. FlattenSeq(PartsOf(h)) = SubSeq(Spoken, 1, n) \o <<i>>
    BY <1>3, <2>4, <2>5, FlattenAppend DEF GroupsFit
  <2>7. SubSeq(Spoken, 1, n) \o <<i>> = Append(SubSeq(Spoken, 1, n), i)
    BY <1>1, <1>2
  <2> QED BY <1>2, <2>2, <2>3, <2>6, <2>7 DEF GroupsFit, h, i
<1> QED BY <1>5, <1>6

LEMMA ContentsFit == ASSUME Spoken \in Seq(Nat) PROVE GroupsFit(Contents, Len(Spoken))
<1> DEFINE End == Len(Spoken)
<1>1. PICK p : IsGrouped(p, End) /\ Contents = p[End]
  BY GroupedIs
<1> DEFINE T == {n \in Nat : n <= End => GroupsFit(p[n], n)}
<1>2. 0 \in T
  <2>1. p[0] = <<>>
    BY <1>1 DEF IsGrouped
  <2>2. PartsOf(<<>>) = <<>> /\ FlattenSeq(<<>>) = <<>> /\ SubSeq(Spoken, 1, 0) = <<>>
    BY DEF PartsOf, FlattenSeq
  <2>3. <<>> \in GroupsOf /\ Len(<<>>) = 0
    BY DEF GroupsOf
  <2>5. \A k \in 2 .. 0 : FALSE
    OBVIOUS
  <2>4. GroupsFit(<<>>, 0)
    BY <2>2, <2>3, <2>5, Zenon DEF GroupsFit
  <2> QED BY <2>1, <2>4
<1>3. ASSUME NEW n \in Nat, n \in T PROVE n + 1 \in T
  <2> SUFFICES ASSUME n + 1 <= End PROVE GroupsFit(p[n + 1], n + 1)
    OBVIOUS
  <2>1. GroupsFit(p[n], n)
    BY <1>3
  <2>2. p[n + 1] = Grouped(p[n], Spoken[n + 1])
    <3>1. n + 1 \in 1 .. End /\ (n + 1) - 1 = n
      OBVIOUS
    <3> QED BY <1>1, <3>1 DEF IsGrouped
  <2> QED BY <2>1, <2>2, GroupStep
<1> HIDE DEF T
<1>4. End \in T
  <2>1. End \in Nat /\ Nat \subseteq T
    BY <1>2, <1>3, Induction
  <2> QED BY <2>1
<1> QED BY <1>1, <1>4 DEF T

LEMMA GeminiKeeps == RequestsFit /\ GeminiRequest => RequestsFit'
<1> SUFFICES ASSUME RequestsFit, GeminiRequest PROVE RequestsFit'
  OBVIOUS
<1>1. /\ history \in Seq(Kinds) /\ history' = history /\ wire' = [by |-> "gemini", body |-> Contents]
  BY DEF RequestsFit, GeminiRequest
<1>2. Spoken \in Seq(Nat) /\ Spoken' = Spoken
  <2>1. {i \in DOMAIN history : history[i].role # "system"} \in SUBSET DOMAIN history
    OBVIOUS
  <2> QED BY <1>1, <2>1, InOrderIs DEF Spoken, InOrder
<1>3. GroupsFit(Contents, Len(Spoken)) /\ SubSeq(Spoken, 1, Len(Spoken)) = Spoken
  BY <1>2, ContentsFit
<1>4. wire'.by = "gemini" /\ wire'.body = Contents
  BY <1>1
<1>5. GeminiKeepsOrder'
  BY <1>2, <1>3, <1>4 DEF GeminiKeepsOrder, GroupsFit, PartsOf
<1>6. OpenAiFits'
  BY <1>4 DEF OpenAiFits
<1> QED BY <1>1, <1>5, <1>6 DEF RequestsFit

-----------------------------------------------------------------------------
(* The chain of free models.                                               *)

LEMMA FreeModelsAre ==
  ASSUME listing \subseteq Models
  PROVE  /\ FreeModels \in Seq(Models)
         /\ \A i, j \in DOMAIN FreeModels : FreeModels[i] = FreeModels[j] => i = j
<1>1. CASE listing = {}
  BY <1>1, WireAssumption DEF FreeModels, IsInjective
<1>2. CASE listing # {}
  <2> DEFINE C == Cardinality(listing)  f == SetToSeq(listing)
  <2>1. IsFiniteSet(listing) /\ C \in Nat /\ ExistsBijection(1 .. C, listing)
    <3>1. IsFiniteSet(listing)
      BY WireAssumption, FS_Subset
    <3> QED BY <3>1, FS_CardinalityType
  <2>2. \E g \in [1 .. C -> listing] : IsInjective(g)
    BY <2>1 DEF ExistsBijection, Bijection, Injection
  <2>3. f \in [1 .. C -> listing] /\ IsInjective(f)
    BY <2>2, Zenon DEF SetToSeq
  <2> HIDE DEF f, C
  <2>4. f \in Seq(Models)
    BY <2>1, <2>3
  <2> QED BY <1>2, <2>3, <2>4 DEF FreeModels, IsInjective, f
<1> QED BY <1>1, <1>2

LEMMA OthersAre ==
  ASSUME listing \subseteq Models, NEW m
  PROVE  /\ Others(m) \in Seq(Models) /\ \A k \in DOMAIN Others(m) : Others(m)[k] # m
         /\ \A k, l \in DOMAIN Others(m) : k < l => Others(m)[k] # Others(m)[l]
<1> DEFINE s == FreeModels  I == {i \in DOMAIN FreeModels : FreeModels[i] # m}  q == Others(m)
<1>1. s \in Seq(Models) /\ \A i, j \in DOMAIN s : s[i] = s[j] => i = j
  BY FreeModelsAre
<1>2. q = Picked(s, I)
  BY DEF Others
<1> HIDE DEF s, q
<1>3. \A i \in I : i \in DOMAIN s /\ s[i] # m
  BY DEF s
<1> HIDE DEF I
<1>4. q \in Seq(Models) /\ \E pos : Enumerates(pos, q, s, I, Len(s))
  BY <1>1, <1>2, PickedMap
<1>5. PICK pos : Enumerates(pos, q, s, I, Len(s))
  BY <1>4
<1>6. DOMAIN q = 1 .. Len(q) /\ Len(q) \in Nat /\ DOMAIN s = 1 .. Len(s) /\ Len(s) \in Nat
  BY <1>1, <1>4
<1>7. \A k \in 1 .. Len(q) : pos[k] \in DOMAIN s /\ pos[k] \in Nat /\ q[k] = s[pos[k]] /\ s[pos[k]] # m
  BY <1>3, <1>5, <1>6 DEF Enumerates
<1>8. ASSUME NEW k \in 1 .. Len(q), NEW l \in 1 .. Len(q), k < l PROVE q[k] # q[l]
  <2>1. pos[k] < pos[l] /\ pos[k] \in Nat /\ pos[l] \in Nat
    BY <1>5, <1>7, <1>8 DEF Enumerates
  <2>2. pos[k] # pos[l]
    BY <2>1
  <2> QED BY <1>1, <1>7, <2>2
<1> QED BY <1>4, <1>6, <1>7, <1>8 DEF q

LEMMA AskedOnceEach == AskedFits => AskedOnce
<1> SUFFICES ASSUME AskedFits PROVE AskedOnce
  OBVIOUS
<1>1. chain \in Seq(AskedModels) /\ listing \subseteq Models /\ DOMAIN chain = 1 .. Len(chain) /\ Len(chain) \in Nat
  BY DEF AskedFits
<1> DEFINE q == Others(chain[1].model)
<1>2. q \in Seq(Models) /\ DOMAIN q = 1 .. Len(q) /\ Len(q) \in Nat
  BY <1>1, OthersAre
<1>3. /\ \A k \in DOMAIN q : q[k] # chain[1].model
      /\ \A k, l \in DOMAIN q : k < l => q[k] # q[l]
  BY <1>1, OthersAre
<1>4. chain # <<>> => /\ Len(chain) <= Len(q) + 1
                      /\ \A k \in 2 .. Len(chain) : chain[k].model = q[k - 1]
  BY DEF AskedFits
<1> HIDE DEF q
<1>5. ASSUME NEW k \in 1 .. Len(chain), NEW l \in 1 .. Len(chain), k < l PROVE chain[k].model # chain[l].model
  <2>1. l \in 2 .. Len(chain) /\ chain # <<>>
    BY <1>1, <1>5
  <2>2. chain[l].model = q[l - 1] /\ l - 1 \in 1 .. Len(q)
    BY <1>1, <1>2, <1>4, <2>1
  <2>3. CASE k = 1
    BY <1>2, <1>3, <2>2, <2>3
  <2>4. CASE k # 1
    <3>1. k \in 2 .. Len(chain) /\ k - 1 \in 1 .. Len(q) /\ k - 1 < l - 1
      BY <1>1, <1>2, <1>4, <1>5, <2>1, <2>4
    <3> QED BY <1>2, <1>3, <1>4, <2>1, <2>2, <3>1
  <2> QED BY <2>3, <2>4
<1>6. ASSUME NEW k \in 1 .. Len(chain), NEW l \in 1 .. Len(chain), chain[k].model = chain[l].model PROVE k = l
  <2>1. ~(k < l) /\ ~(l < k)
    BY <1>5, <1>6
  <2> QED BY <1>1, <2>1
<1> QED BY <1>1, <1>6 DEF AskedOnce, IsInjective

LEMMA CreateKiloCodeKeeps ==
  ASSUME AskedFits, NEW listed \in SUBSET Models, CreateKiloCode(listed) PROVE AskedFits'
BY DEF AskedFits, CreateKiloCode

LEMMA AskModelKeeps ==
  ASSUME AskedFits, NEW m \in Models, NEW ok \in BOOLEAN, AskModel(m, ok) PROVE AskedFits'
<1> DEFINE q == Others(m)  of == IF chain = <<>> THEN m ELSE q[Len(chain)]  a == [ok |-> ok, model |-> of]
<1>1. /\ chain \in Seq(AskedModels) /\ listing \subseteq Models /\ listing' = listing
      /\ chain # <<>> => chain[1].model = m
      /\ Len(chain) <= Len(q) /\ chain' = Append(chain, a)
  BY DEF AskedFits, AskModel
<1>2. q \in Seq(Models)
  BY <1>1, OthersAre
<1>3. \A x : Others(x)' = Others(x)
  BY <1>1 DEF Others, FreeModels
<1>4. chain # <<>> => \A k \in 2 .. Len(chain) : chain[k].model = q[k - 1]
  BY <1>1 DEF AskedFits
<1> HIDE DEF q
<1>5. of \in Models /\ a \in AskedModels /\ a.model = of
  BY <1>1, <1>2 DEF AskedModels
<1> HIDE DEF a
<1>6. chain' \in Seq(AskedModels) /\ Len(chain') = Len(chain) + 1 /\ chain'[Len(chain) + 1] = a
      /\ \A k \in 1 .. Len(chain) : chain'[k] = chain[k]
  BY <1>1, <1>5
<1>7. chain'[1].model = m
  <2>1. CASE chain = <<>>
    BY <1>5, <1>6, <2>1
  <2>2. CASE chain # <<>>
    BY <1>1, <1>6, <2>2
  <2> QED BY <2>1, <2>2
<1>8. Others(chain[1].model)' = q
  BY <1>3, <1>7 DEF q
<1>9. ASSUME NEW k \in 2 .. Len(chain') PROVE chain'[k].model = q[k - 1]
  <2>1. CASE k = Len(chain) + 1
    BY <1>1, <1>5, <1>6, <2>1
  <2>2. CASE k # Len(chain) + 1
    <3>1. k \in 2 .. Len(chain) /\ k \in 1 .. Len(chain) /\ chain # <<>>
      BY <1>1, <1>6, <2>2
    <3> QED BY <1>4, <1>6, <3>1
  <2> QED BY <2>1, <2>2
<1>10. Len(chain') <= Len(q) + 1
  BY <1>1, <1>2, <1>6
<1> QED BY <1>1, <1>6, <1>8, <1>9, <1>10 DEF AskedFits

-----------------------------------------------------------------------------
(* Signatures.                                                             *)

LEMMA SignedCallsAre ==
  ASSUME NEW ps \in Seq(GeminiParts)
  PROVE  /\ CallsIn(ps) \in Nat /\ CallsIn(ps) = CallsUpTo(ps, Len(ps))
         /\ \A n \in 0 .. Len(ps) : CallsIn(SubSeq(ps, 1, n)) = CallsUpTo(ps, n) /\ CallsUpTo(ps, n) \in Nat
         /\ \A n, m \in 0 .. Len(ps) : n <= m => CallsUpTo(ps, n) <= CallsUpTo(ps, m)
<1> DEFINE Of(n) == {i \in 1 .. n : ps[i].call}
<1>1. ASSUME NEW n \in Nat PROVE IsFiniteSet(Of(n)) /\ CallsUpTo(ps, n) \in Nat
  <2>1. Of(n) \in SUBSET (1 .. n) /\ IsFiniteSet(1 .. n)
    BY FS_Interval
  <2>2. IsFiniteSet(Of(n))
    BY <2>1, FS_Subset
  <2> QED BY <2>2, FS_CardinalityType DEF CallsUpTo
<1>2. ASSUME NEW n \in 0 .. Len(ps), NEW m \in 0 .. Len(ps), n <= m PROVE CallsUpTo(ps, n) <= CallsUpTo(ps, m)
  <2>1. Of(n) \in SUBSET Of(m) /\ m \in Nat
    BY <1>2
  <2> HIDE DEF Of
  <2>2. Cardinality(Of(n)) <= Cardinality(Of(m))
    BY <1>1, <2>1, FS_Subset
  <2> QED BY <2>2 DEF CallsUpTo, Of
<1>3. CallsIn(ps) = CallsUpTo(ps, Len(ps)) /\ Len(ps) \in Nat
  <2>1. DOMAIN ps = 1 .. Len(ps)
    OBVIOUS
  <2> QED BY <2>1 DEF CallsIn, CallsUpTo
<1>4. ASSUME NEW n \in 0 .. Len(ps) PROVE CallsIn(SubSeq(ps, 1, n)) = CallsUpTo(ps, n)
  <2>1. DOMAIN SubSeq(ps, 1, n) = 1 .. n /\ \A i \in 1 .. n : SubSeq(ps, 1, n)[i] = ps[i]
    OBVIOUS
  <2>2. {i \in DOMAIN SubSeq(ps, 1, n) : SubSeq(ps, 1, n)[i].call} = Of(n)
    BY <2>1
  <2> QED BY <2>2 DEF CallsIn, CallsUpTo
<1>5. CallsIn(ps) \in Nat
  BY <1>1, <1>3
<1>6. ASSUME NEW n \in 0 .. Len(ps) PROVE CallsUpTo(ps, n) \in Nat
  <2>1. n \in Nat
    BY <1>3
  <2> QED BY <1>1, <2>1
<1> HIDE DEF Of
<1> QED BY <1>2, <1>3, <1>4, <1>5, <1>6

LEMMA CallsAdd ==
  ASSUME NEW ps \in Seq(GeminiParts), NEW qs \in Seq(GeminiParts)
  PROVE  CallsIn(ps \o qs) = CallsIn(ps) + CallsIn(qs)
<1> DEFINE L == Len(ps)  M == Len(qs)  r == ps \o qs
           A == {i \in 1 .. L : ps[i].call}  B == {i \in 1 .. M : qs[i].call}  D == {i \in L + 1 .. L + M : r[i].call}
           f == [i \in B |-> i + L]
<1>1. /\ L \in Nat /\ M \in Nat /\ DOMAIN r = 1 .. L + M /\ DOMAIN ps = 1 .. L /\ DOMAIN qs = 1 .. M
      /\ \A i \in 1 .. L : r[i] = ps[i]
      /\ \A i \in 1 .. M : r[i + L] = qs[i]
  OBVIOUS
<1> HIDE DEF L, M, r
<1>2. {i \in DOMAIN r : r[i].call} = A \cup D /\ A \cap D = {}
  BY <1>1
<1>3. IsFiniteSet(A) /\ IsFiniteSet(B)
  <2>2. A \in SUBSET (1 .. L) /\ B \in SUBSET (1 .. M)
    OBVIOUS
  <2>3. L \in Int /\ M \in Int
    BY <1>1
  <2>1. IsFiniteSet(1 .. L) /\ IsFiniteSet(1 .. M)
    BY <2>3, FS_Interval
  <2> HIDE DEF A, B
  <2> QED BY <2>1, <2>2, FS_Subset
<1>4. f \in Bijection(B, D)
  <2>1. f \in [B -> D]
    <3> SUFFICES ASSUME NEW i \in B PROVE i + L \in D
      OBVIOUS
    <3> QED BY <1>1
  <2>2. IsInjective(f)
    BY <1>1 DEF IsInjective
  <2>3. ASSUME NEW d \in D PROVE \E i \in B : f[i] = d
    <3>1. d - L \in 1 .. M /\ (d - L) + L = d
      BY <1>1
    <3>2. d - L \in B
      BY <1>1, <3>1
    <3> QED BY <3>1, <3>2
  <2> HIDE DEF f, B, D
  <2> QED BY <2>1, <2>2, <2>3 DEF Bijection, Injection, Surjection
<1> HIDE DEF A, B, D, f
<1>5. IsFiniteSet(D) /\ Cardinality(D) = Cardinality(B)
  BY <1>3, <1>4, FS_Bijection DEF ExistsBijection
<1>6. Cardinality(A \cup D) = Cardinality(A) + Cardinality(D) - Cardinality({})
  BY <1>2, <1>3, <1>5, FS_Union
<1>7. Cardinality({}) = 0 /\ Cardinality(A) \in Nat /\ Cardinality(D) \in Nat
  BY <1>3, <1>5, FS_EmptySet, FS_CardinalityType
<1>8. CallsIn(r) = Cardinality(A \cup D) /\ CallsIn(ps) = Cardinality(A) /\ CallsIn(qs) = Cardinality(B)
  BY <1>1, <1>2 DEF CallsIn, A, B
<1> QED BY <1>5, <1>6, <1>7, <1>8 DEF r

LEMMA EarliestIs ==
  ASSUME NEW S \in SUBSET Nat, S # {}
  PROVE  Earliest(S) \in S /\ \A i \in S : Earliest(S) <= i
<1>1. \E n \in S : \A m \in S : n <= m
  BY LeastOf
<1> QED BY <1>1 DEF Earliest

LEMMA GeminiEventKeeps ==
  ASSUME SignedFits, NEW ps \in Seq(GeminiParts), GeminiEvent(ps) PROVE SignedFits'
<1> DEFINE F(q) == Earliest({i \in DOMAIN q : q[i].sig})
           L == Len(parts)  M == Len(ps)  r == parts \o ps  any == AnySigned(ps)  more == SignedBy(ps)
<1>1. /\ parts \in Seq(GeminiParts) /\ signed \in Seq(BOOLEAN) /\ Len(signed) = CallsIn(parts)
      /\ sigSeen \in BOOLEAN /\ (sigSeen <=> AnySigned(parts))
      /\ parts' = r /\ sigSeen' = (sigSeen \/ any) /\ signed' = signed \o more
  BY DEF SignedFits, GeminiEvent
<1>2. /\ L \in Nat /\ M \in Nat /\ r \in Seq(GeminiParts) /\ Len(r) = L + M
      /\ DOMAIN parts = 1 .. L /\ DOMAIN ps = 1 .. M /\ DOMAIN r = 1 .. L + M
      /\ \A i \in 1 .. L : r[i] = parts[i]
      /\ \A i \in L + 1 .. L + M : r[i] = ps[i - L]
      /\ \A i \in 1 .. M : r[i + L] = ps[i]
  BY <1>1
<1>3. AnySigned(r) <=> AnySigned(parts) \/ any
  <2> HIDE DEF r, L, M
  <2>1. ASSUME NEW i \in DOMAIN r, r[i].sig PROVE AnySigned(parts) \/ any
    <3>1. CASE i \in 1 .. L
      BY <1>2, <2>1, <3>1 DEF AnySigned
    <3>2. CASE i \notin 1 .. L
      <4>1. i \in L + 1 .. L + M /\ i - L \in DOMAIN ps
        BY <1>2, <3>2
      <4> QED BY <1>2, <2>1, <4>1 DEF AnySigned
    <3> QED BY <3>1, <3>2
  <2>2. ASSUME NEW i \in DOMAIN parts, parts[i].sig PROVE AnySigned(r)
    <3>1. i \in DOMAIN r /\ r[i] = parts[i]
      BY <1>2
    <3> QED BY <2>2, <3>1 DEF AnySigned
  <2>3. ASSUME NEW i \in DOMAIN ps, ps[i].sig PROVE AnySigned(r)
    <3>1. i + L \in DOMAIN r /\ r[i + L] = ps[i]
      BY <1>2
    <3> QED BY <2>3, <3>1 DEF AnySigned
  <2> QED BY <2>1, <2>2, <2>3 DEF AnySigned
<1>4. sigSeen' \in BOOLEAN /\ (sigSeen' <=> AnySigned(r))
  <2> HIDE DEF any
  <2> QED BY <1>1, <1>3
<1>41. AnySigned(parts)' <=> AnySigned(r)
  BY <1>1 DEF AnySigned
<1>5. CallsIn(r) = CallsIn(parts) + CallsIn(ps) /\ CallsIn(ps) \in Nat /\ CallsIn(parts) \in Nat
  BY <1>1, CallsAdd, SignedCallsAre
<1> HIDE DEF any
<1>61. more = [i \in 1 .. CallsIn(ps) |-> sigSeen \/ any]
  BY DEF SignedBy, any
<1> HIDE DEF r, more
<1>6. more \in Seq(BOOLEAN) /\ Len(more) = CallsIn(ps) /\ \A i \in 1 .. CallsIn(ps) : more[i] <=> (sigSeen \/ any)
  <2> DEFINE v == sigSeen \/ any
  <2>1. v \in BOOLEAN
    OBVIOUS
  <2>2. more = [i \in 1 .. CallsIn(ps) |-> v]
    BY <1>61
  <2>3. v <=> (sigSeen \/ any)
    OBVIOUS
  <2> HIDE DEF v
  <2>4. more \in Seq(BOOLEAN) /\ Len(more) = CallsIn(ps) /\ \A i \in 1 .. CallsIn(ps) : more[i] = v
    BY <1>5, <2>1, <2>2
  <2> QED BY <2>3, <2>4
<1>7. /\ signed' \in Seq(BOOLEAN) /\ Len(signed') = Len(signed) + CallsIn(ps)
      /\ \A i \in 1 .. Len(signed) : signed'[i] = signed[i]
      /\ \A i \in Len(signed) + 1 .. Len(signed) + CallsIn(ps) : signed'[i] <=> (sigSeen \/ any)
  <2> DEFINE Z == BOOLEAN
  <2>3. signed \in Seq(Z) /\ more \in Seq(Z) /\ signed' = signed \o more
    BY <1>1, <1>6
  <2> HIDE DEF Z
  <2>4. /\ signed' \in Seq(Z) /\ Len(signed') = Len(signed) + Len(more)
        /\ \A i \in 1 .. Len(signed) : signed'[i] = signed[i]
        /\ \A i \in Len(signed) + 1 .. Len(signed) + Len(more) : signed'[i] = more[i - Len(signed)]
    BY <2>3, ConcatIs
  <2>1. /\ signed' \in Seq(BOOLEAN) /\ Len(signed') = Len(signed) + CallsIn(ps)
        /\ \A i \in 1 .. Len(signed) : signed'[i] = signed[i]
        /\ \A i \in Len(signed) + 1 .. Len(signed) + Len(more) : signed'[i] = more[i - Len(signed)]
    BY <1>6, <2>4 DEF Z
  <2>2. ASSUME NEW i \in Len(signed) + 1 .. Len(signed) + CallsIn(ps) PROVE signed'[i] <=> (sigSeen \/ any)
    <3>1. i - Len(signed) \in 1 .. CallsIn(ps)
      BY <1>1, <1>5
    <3> QED BY <1>6, <2>1, <3>1
  <2> QED BY <2>1, <2>2
<1>8. ASSUME NEW i \in 1 .. Len(signed'), signed'[i] = FALSE, AnySigned(r)
      PROVE  i <= CallsUpTo(r, F(r) - 1)
  <2>1. i \in 1 .. Len(signed)
    <3> SUFFICES ASSUME i \notin 1 .. Len(signed) PROVE FALSE
      OBVIOUS
    <3>1. i \in Len(signed) + 1 .. Len(signed) + CallsIn(ps)
      BY <1>1, <1>5, <1>7
    <3>2. ~sigSeen /\ ~any
      BY <1>7, <1>8, <3>1
    <3> QED BY <1>1, <1>3, <1>8, <3>2
  <2>2. signed[i] = FALSE
    BY <1>7, <1>8, <2>1
  <2>3. F(r) \in DOMAIN r /\ r[F(r)].sig /\ \A k \in DOMAIN r : r[k].sig => F(r) <= k
    <3>1. {k \in DOMAIN r : r[k].sig} # {} /\ {k \in DOMAIN r : r[k].sig} \in SUBSET Nat
      BY <1>2, <1>8 DEF AnySigned
    <3> QED BY <3>1, EarliestIs
  <2>4. CASE AnySigned(parts)
    <3>1. F(parts) \in DOMAIN parts /\ parts[F(parts)].sig /\ \A k \in DOMAIN parts : parts[k].sig => F(parts) <= k
      <4>1. {k \in DOMAIN parts : parts[k].sig} # {} /\ {k \in DOMAIN parts : parts[k].sig} \in SUBSET Nat
        BY <1>2, <2>4 DEF AnySigned
      <4> QED BY <4>1, EarliestIs
    <3> HIDE DEF F
    <3>2. F(r) = F(parts)
      BY <1>2, <2>3, <3>1
    <3>3. i <= CallsUpTo(parts, F(parts) - 1)
      BY <2>1, <2>2, <2>4 DEF SignedFits, FirstSigned, F
    <3>4. CallsUpTo(r, F(parts) - 1) = CallsUpTo(parts, F(parts) - 1)
      <4>1. {k \in 1 .. F(parts) - 1 : r[k].call} = {k \in 1 .. F(parts) - 1 : parts[k].call}
        BY <1>2, <3>1
      <4> QED BY <4>1 DEF CallsUpTo
    <3> QED BY <3>2, <3>3, <3>4
  <2>5. CASE ~AnySigned(parts)
    <3> HIDE DEF F
    <3>1. L <= F(r) - 1 /\ F(r) - 1 \in 0 .. Len(r) /\ L \in 0 .. Len(r)
      <4>1. F(r) \notin 1 .. L
        BY <1>2, <2>3, <2>5 DEF AnySigned
      <4> QED BY <1>2, <2>3, <4>1
    <3>2. CallsUpTo(r, L) <= CallsUpTo(r, F(r) - 1) /\ CallsUpTo(r, F(r) - 1) \in Nat /\ CallsUpTo(r, L) \in Nat
      BY <1>2, <3>1, SignedCallsAre
    <3>3. CallsUpTo(r, L) = CallsUpTo(parts, L)
      <4>1. {k \in 1 .. L : r[k].call} = {k \in 1 .. L : parts[k].call}
        BY <1>2
      <4> QED BY <4>1 DEF CallsUpTo
    <3>4. CallsUpTo(parts, L) = Len(signed)
      BY <1>1, SignedCallsAre
    <3> QED BY <1>5, <2>1, <3>2, <3>3, <3>4
  <2> QED BY <2>4, <2>5
<1>9. FirstSigned' = F(r)
  BY <1>1 DEF FirstSigned
<1> HIDE DEF F
<1> QED BY <1>1, <1>2, <1>4, <1>41, <1>5, <1>7, <1>8, <1>9 DEF SignedFits

LEMMA SignedIs == SignedFits => SignedAgrees
<1> SUFFICES ASSUME SignedFits, NEW i \in DOMAIN signed, ~signed[i], SignedAtOnce(parts)[i]
             PROVE  i <= CallsIn(SubSeq(parts, 1, FirstSigned - 1))
  BY DEF SignedAgrees
<1>1. /\ parts \in Seq(GeminiParts) /\ signed \in Seq(BOOLEAN) /\ Len(signed) = CallsIn(parts) /\ CallsIn(parts) \in Nat
      /\ DOMAIN signed = 1 .. Len(signed) /\ DOMAIN parts = 1 .. Len(parts)
  BY SignedCallsAre DEF SignedFits
<1>2. AnySigned(parts) /\ signed[i] = FALSE
  BY <1>1 DEF SignedAtOnce
<1>3. FirstSigned \in DOMAIN parts
  <2>1. {k \in DOMAIN parts : parts[k].sig} # {} /\ {k \in DOMAIN parts : parts[k].sig} \in SUBSET Nat
    BY <1>1, <1>2 DEF AnySigned
  <2> QED BY <2>1, EarliestIs DEF FirstSigned
<1>4. i <= CallsUpTo(parts, FirstSigned - 1)
  BY <1>1, <1>2 DEF SignedFits
<1>5. FirstSigned - 1 \in 0 .. Len(parts)
  BY <1>1, <1>3
<1> QED BY <1>1, <1>4, <1>5, SignedCallsAre

-----------------------------------------------------------------------------
(* Tags.                                                                   *)

LEMMA RunIs ==
  ASSUME NEW a \in Nat, NEW b \in Int, b >= a - 1
  PROVE  /\ Run(a, b) \in Seq(Nat) /\ Len(Run(a, b)) = b + 1 - a /\ \A k \in 1 .. b + 1 - a : Run(a, b)[k] = a + k - 1
         /\ DOMAIN Run(a, b) = 1 .. b + 1 - a /\ Run(a, b) = [k \in 1 .. b + 1 - a |-> Run(a, b)[k]]
<1>1. b + 1 - a \in Nat /\ \A k \in 1 .. b + 1 - a : a + k - 1 \in Nat
  OBVIOUS
<1> QED BY <1>1 DEF Run

LEMMA RunEmpty == ASSUME NEW a \in Nat, NEW b \in Int, b < a PROVE Run(a, b) = <<>>
<1>1. b + 1 - a <= 0 /\ 1 .. b + 1 - a = {}
  OBVIOUS
<1> QED BY <1>1 DEF Run

LEMMA RunOne ==
  ASSUME NEW a \in Nat, NEW p \in Nat, a <= p + 1
  PROVE  Run(a, p) \in Seq(Nat) /\ Append(Run(a, p), p + 1) = Run(a, p + 1)
<1> DEFINE f == Run(a, p)  q == Run(a, p + 1)  n == p + 2 - a
<1>1. /\ f \in Seq(Nat) /\ Len(f) = n - 1 /\ \A k \in 1 .. n - 1 : f[k] = a + k - 1
      /\ n \in Nat /\ n > 0 /\ a + n - 1 = p + 1
  BY RunIs
<1>5. p + 1 \in Int /\ p + 1 >= a - 1 /\ n = (p + 1) + 1 - a
  OBVIOUS
<1> HIDE DEF n
<1>2. q = [k \in 1 .. n |-> q[k]] /\ \A k \in 1 .. n : q[k] = a + k - 1
  BY <1>5, RunIs
<1> HIDE DEF f, q
<1>3. q[n] = p + 1 /\ p + 1 \in Nat /\ \A k \in 1 .. n - 1 : q[k] = f[k]
  BY <1>1, <1>2
<1>4. q = Append(f, p + 1)
  BY <1>1, <1>2, <1>3, LastAppended
<1> QED BY <1>1, <1>4 DEF f, q

LEMMA TagsAre ==
  ASSUME NEW W \in Seq(Pieces), NEW h
  PROVE  /\ Tags(W, h) \in SUBSET (1 .. Len(W)) /\ IsFiniteSet(Tags(W, h)) /\ Tags(W, h) \in SUBSET Nat
         /\ \A i : i \in Tags(W, h) <=> i \in 1 .. Len(W) /\ TagAt(W, h, i)
<1>1. DOMAIN W = 1 .. Len(W) /\ Len(W) \in Nat
  OBVIOUS
<1>2. \A i : i \in Tags(W, h) <=> i \in 1 .. Len(W) /\ TagAt(W, h, i)
  BY <1>1 DEF Tags
<1>3. IsFiniteSet(1 .. Len(W))
  BY <1>1, FS_Interval
<1>4. Tags(W, h) \in SUBSET (1 .. Len(W))
  BY <1>2
<1>5. IsFiniteSet(Tags(W, h))
  BY <1>3, <1>4, FS_Subset
<1> QED BY <1>1, <1>2, <1>4, <1>5

LEMMA OneBlockIs ==
  ASSUME NEW W \in Seq(Pieces), OneBlock(W)
  PROVE  OneTag(W)
<1> DEFINE O == Tags(W, "<th")  C == Tags(W, "</th")
<1>1. /\ O \in SUBSET (1 .. Len(W)) /\ C \in SUBSET (1 .. Len(W)) /\ IsFiniteSet(O) /\ Len(W) \in Nat
  BY TagsAre
<1>2. /\ \A o \in O : W[o] = "<th" /\ W[o + 1] = "ink>"
      /\ \A c \in C : W[c] = "</th"
  BY DEF Tags, TagAt
<1>3. Cardinality(O) <= 1 /\ ~ClosesFirst(W)
  BY DEF OneBlock
<1>4. O # {} => \A c \in C : \E o \in O : ~(c < o)
  BY <1>3 DEF ClosesFirst
<1> HIDE DEF O, C
<1>5. ASSUME NEW o \in O, NEW o2 \in O, o # o2 PROVE FALSE
  <2>1. {o, o2} \in SUBSET O
    OBVIOUS
  <2>2. IsFiniteSet({o}) /\ Cardinality({o}) = 1
    BY FS_Singleton
  <2>6. o2 \notin {o}
    BY <1>5
  <2>3. Cardinality({o} \cup {o2}) = 2
    <3>1. Cardinality({o} \cup {o2}) = IF o2 \in {o} THEN Cardinality({o}) ELSE Cardinality({o}) + 1
      BY <2>2, FS_AddElement
    <3>2. Cardinality({o} \cup {o2}) = Cardinality({o}) + 1
      BY <2>6, <3>1, Zenon
    <3>3. Cardinality({o}) = 1
      BY <2>2
    <3> DEFINE c1 == Cardinality({o})  c2 == Cardinality({o} \cup {o2})
    <3> HIDE DEF c1, c2
    <3>4. c2 = c1 + 1 /\ c1 = 1
      BY <3>2, <3>3 DEF c1, c2
    <3>5. c2 = 2
      BY <3>4
    <3> QED BY <3>5 DEF c2
  <2>4. {o} \cup {o2} = {o, o2}
    OBVIOUS
  <2>5. Cardinality({o, o2}) <= Cardinality(O) /\ Cardinality(O) \in Nat
    BY <1>1, <2>1, FS_Subset, FS_CardinalityType
  <2>7. Cardinality({o, o2}) = 2
    BY <2>3, <2>4, Zenon
  <2>8. PICK n \in Nat : n = Cardinality(O)
    BY <2>5
  <2>9. 2 <= n /\ n <= 1
    <3>1. Cardinality(O) <= 1
      BY <1>3 DEF O
    <3> QED BY <2>5, <2>7, <2>8, <3>1, Zenon
  <2> QED BY <2>9
<1>6. ASSUME NEW o \in O, NEW c \in C PROVE o + 1 < c
  <2>1. ~(c < o)
    BY <1>4, <1>5
  <2>2. c # o /\ c # o + 1
    BY <1>2
  <2> QED BY <1>1, <2>1, <2>2
<1> QED BY <1>5, <1>6 DEF OneTag, O, C

LEMMA BlockShown ==
  ASSUME NEW W \in Seq(Pieces), OneTag(W), NEW in, NEW seen, ScanFits(W, Len(W), in, FALSE, seen)
  PROVE  seen = Extracted(W)
<1> DEFINE O == Tags(W, "<th")  C == Tags(W, "</th")  End == Len(W)
<1>1. /\ O \in SUBSET (1 .. End) /\ C \in SUBSET (1 .. End) /\ O \in SUBSET Nat /\ C \in SUBSET Nat /\ End \in Nat
  BY TagsAre
<1>2. \A o, o2 \in O : o = o2
  BY DEF OneTag
<1>3. Extracted(W) = IF O = {} THEN Run(1, End)
                     ELSE IF C = {} THEN Run(1, Earliest(O) - 1)
                     ELSE Run(1, Earliest(O) - 1) \o Run(Earliest(C) + 2, End)
  BY DEF Extracted
<1>4. \/ /\ \A o \in O : End < o
         /\ seen = Run(1, End)
      \/ \E o \in O : (\A c \in C : End < c) /\ seen = Run(1, o - 1)
      \/ \E o \in O, c \in C : (\A d \in C : c <= d) /\ seen = Run(1, o - 1) \o Run(c + 2, End)
  BY DEF ScanFits, ScanEnds
<1> HIDE DEF O, C, End
<1>5. CASE (\A o \in O : End < o) /\ seen = Run(1, End)
  <2>1. O = {}
    BY <1>1, <1>5
  <2> QED BY <1>3, <1>5, <2>1
<1>6. CASE \E o \in O : (\A c \in C : End < c) /\ seen = Run(1, o - 1)
  <2>1. PICK o \in O : (\A c \in C : End < c) /\ seen = Run(1, o - 1)
    BY <1>6
  <2>2. C = {} /\ O # {}
    BY <1>1, <2>1
  <2>3. Earliest(O) = o
    BY <1>1, <1>2, <2>2, EarliestIs
  <2> QED BY <1>3, <2>1, <2>2, <2>3
<1>7. CASE \E o \in O, c \in C : (\A d \in C : c <= d) /\ seen = Run(1, o - 1) \o Run(c + 2, End)
  <2>1. PICK o \in O, c \in C : (\A d \in C : c <= d) /\ seen = Run(1, o - 1) \o Run(c + 2, End)
    BY <1>7
  <2>2. C # {} /\ O # {}
    BY <2>1
  <2>3. Earliest(O) = o
    BY <1>1, <1>2, <2>2, EarliestIs
  <2>4. Earliest(C) \in C /\ Earliest(C) <= c
    BY <1>1, <2>2, EarliestIs
  <2>6. c <= Earliest(C) /\ Earliest(C) \in Nat /\ c \in Nat
    BY <1>1, <2>1, <2>4
  <2>5. Earliest(C) = c
    BY <2>4, <2>6
  <2> QED BY <1>3, <2>1, <2>2, <2>3, <2>5
<1> QED BY <1>4, <1>5, <1>6, <1>7

(* A text that goes on.                                                    *)
LEMMA TagsGrow ==
  ASSUME NEW W \in Seq(Pieces), NEW e \in Seq(Pieces), NEW V, NEW h \in {"<th", "</th"}, V = W \o e
  PROVE  /\ V \in Seq(Pieces) /\ Tags(W, h) \subseteq Tags(V, h)
         /\ \A i \in Tags(V, h) : i < Len(W) => i \in Tags(W, h)
         /\ Len(W) \in Tags(V, h) => W # <<>> /\ Last(W) = h /\ e # <<>> /\ Head(e) = "ink>"
<1>1. /\ V \in Seq(Pieces) /\ Len(V) = Len(W) + Len(e) /\ Len(W) \in Nat /\ Len(e) \in Nat
      /\ \A i \in 1 .. Len(W) : V[i] = W[i]
      /\ \A i \in Len(W) + 1 .. Len(W) + Len(e) : V[i] = e[i - Len(W)]
  BY ConcatIs
<1>2. /\ \A i : i \in Tags(W, h) <=> i \in 1 .. Len(W) /\ i < Len(W) /\ W[i] = h /\ W[i + 1] = "ink>"
      /\ \A i : i \in Tags(V, h) <=> i \in 1 .. Len(V) /\ i < Len(V) /\ V[i] = h /\ V[i + 1] = "ink>"
  <2>1. \A i : i \in Tags(W, h) <=> i \in 1 .. Len(W) /\ TagAt(W, h, i)
    BY TagsAre
  <2>2. \A i : i \in Tags(V, h) <=> i \in 1 .. Len(V) /\ TagAt(V, h, i)
    BY <1>1, TagsAre
  <2> QED BY <2>1, <2>2, Zenon DEF TagAt
<1>3. ASSUME NEW i \in 1 .. Len(W), i < Len(W) PROVE i \in Tags(W, h) <=> i \in Tags(V, h)
  <2>1. i + 1 \in 1 .. Len(W) /\ V[i] = W[i] /\ V[i + 1] = W[i + 1] /\ i \in 1 .. Len(V) /\ i < Len(V)
    BY <1>1, <1>3
  <2> QED BY <1>2, <1>3, <2>1
<1>4. ASSUME Len(W) \in Tags(V, h) PROVE W # <<>> /\ Last(W) = h /\ e # <<>> /\ Head(e) = "ink>"
  <2>1. Len(W) \in 1 .. Len(V) /\ Len(W) < Len(V) /\ V[Len(W)] = h /\ V[Len(W) + 1] = "ink>"
    BY <1>2, <1>4
  <2>2. Len(W) \in 1 .. Len(W) /\ Len(W) + 1 \in Len(W) + 1 .. Len(W) + Len(e) /\ (Len(W) + 1) - Len(W) = 1
    BY <1>1, <2>1
  <2>3. W[Len(W)] = h /\ e[1] = "ink>"
    BY <1>1, <2>1, <2>2
  <2> QED BY <1>1, <2>1, <2>2, <2>3 DEF Last
<1>5. \A i \in Tags(W, h) : i \in 1 .. Len(W) /\ i < Len(W)
  BY <1>2
<1>6. \A i \in Tags(V, h) : i < Len(W) => i \in 1 .. Len(W)
  BY <1>1, <1>2
<1> QED BY <1>1, <1>3, <1>4, <1>5, <1>6

(* No tag comes in two events, unless its first half is kept.              *)
NoTagCut(W, e, p, in) ==
  /\ p = Len(W) /\ W # <<>> /\ Last(W) = "<th" => in = TRUE
  /\ ~(in = TRUE /\ W # <<>> /\ Last(W) = "</th" /\ Head(e) = "ink>")

LEMMA ScanGoesOn ==
  ASSUME NEW W \in Seq(Pieces), NEW e \in Seq(Pieces), NEW V, V = W \o e, NEW p \in 0 .. Len(W),
         NEW in \in BOOLEAN, NEW seen, OneTag(V), NoTagCut(W, e, p, in),
         OneTag(W) => ScanFits(W, p, in, FALSE, seen)
  PROVE  OneTag(W) /\ ScanFits(V, p, in, FALSE, seen)
<1>1. \A h \in {"<th", "</th"} :
        /\ Tags(W, h) \subseteq Tags(V, h) /\ Tags(W, h) \subseteq 1 .. Len(W) /\ Tags(V, h) \subseteq Nat
        /\ \A i \in Tags(V, h) : i < Len(W) => i \in Tags(W, h)
        /\ Len(W) \in Tags(V, h) => W # <<>> /\ Last(W) = h /\ Head(e) = "ink>"
  <2> TAKE h \in {"<th", "</th"}
  <2>3. V \in Seq(Pieces)
    BY TagsGrow
  <2>4. Tags(W, h) \subseteq Tags(V, h)
    BY TagsGrow
  <2>5. \A i \in Tags(V, h) : i < Len(W) => i \in Tags(W, h)
    BY TagsGrow
  <2>6. Len(W) \in Tags(V, h) => W # <<>> /\ Last(W) = h /\ e # <<>> /\ Head(e) = "ink>"
    BY TagsGrow
  <2>1. /\ V \in Seq(Pieces) /\ Tags(W, h) \subseteq Tags(V, h)
        /\ \A i \in Tags(V, h) : i < Len(W) => i \in Tags(W, h)
        /\ Len(W) \in Tags(V, h) => W # <<>> /\ Last(W) = h /\ e # <<>> /\ Head(e) = "ink>"
    BY <2>3, <2>4, <2>5, <2>6
  <2>2. Tags(W, h) \subseteq 1 .. Len(W) /\ Tags(V, h) \subseteq Nat
    BY <2>1, TagsAre
  <2> QED BY <2>1, <2>2
<1> DEFINE O == Tags(W, "<th")  C == Tags(W, "</th")  O2 == Tags(V, "<th")  C2 == Tags(V, "</th")  End == Len(W)
<1>2. /\ O \subseteq O2 /\ O \subseteq 1 .. End /\ O2 \subseteq Nat /\ C \subseteq C2 /\ C \subseteq 1 .. End /\ C2 \subseteq Nat
      /\ End \in Nat /\ p \in 0 .. End
      /\ \A i \in O2 : i < End => i \in O
      /\ \A i \in C2 : i < End => i \in C
      /\ End \in O2 => W # <<>> /\ Last(W) = "<th"
      /\ End \in C2 => W # <<>> /\ Last(W) = "</th" /\ Head(e) = "ink>"
  BY <1>1
<1>3. OneTag(W)
  BY <1>2 DEF OneTag
<1>4. ScanFits(W, p, in, FALSE, seen)
  BY <1>3
<1>5. /\ p = End /\ End \in O2 => in = TRUE
      /\ End \in C2 => in = FALSE
  BY <1>2 DEF NoTagCut
<1>6. \/ (\A o \in O : p < o) /\ in = FALSE /\ seen = Run(1, p)
      \/ \E o \in O : o <= p /\ (\A c \in C : p < c) /\ in = TRUE /\ o # p /\ seen = Run(1, o - 1)
      \/ \E o \in O, c \in C : c <= p /\ (\A d \in C : c <= d) /\ in = FALSE /\ c # p
                               /\ seen = Run(1, o - 1) \o Run(c + 2, p)
  BY <1>4 DEF ScanFits, ScanEnds
<1> SUFFICES \/ (\A o \in O2 : p < o) /\ in = FALSE /\ seen = Run(1, p)
             \/ \E o \in O2 : o <= p /\ (\A c \in C2 : p < c) /\ in = TRUE /\ o # p /\ seen = Run(1, o - 1)
             \/ \E o \in O2, c \in C2 : c <= p /\ (\A d \in C2 : c <= d) /\ in = FALSE /\ c # p
                                        /\ seen = Run(1, o - 1) \o Run(c + 2, p)
  BY <1>3 DEF ScanFits, ScanEnds
<1> HIDE DEF O, C, O2, C2, End
<1>7. CASE (\A o \in O : p < o) /\ in = FALSE /\ seen = Run(1, p)
  <2>1. ASSUME NEW o \in O2, ~(p < o) PROVE FALSE
    BY <1>2, <1>5, <1>7, <2>1
  <2> QED BY <1>7, <2>1
<1>8. CASE \E o \in O : o <= p /\ (\A c \in C : p < c) /\ in = TRUE /\ o # p /\ seen = Run(1, o - 1)
  <2>1. ASSUME NEW c \in C2, ~(p < c) PROVE FALSE
    BY <1>2, <1>5, <1>8, <2>1
  <2> QED BY <1>2, <1>8, <2>1
<1>9. CASE \E o \in O, c \in C : c <= p /\ (\A d \in C : c <= d) /\ in = FALSE /\ c # p
                               /\ seen = Run(1, o - 1) \o Run(c + 2, p)
  <2>1. PICK o \in O, c \in C : c <= p /\ (\A d \in C : c <= d) /\ c # p /\ seen = Run(1, o - 1) \o Run(c + 2, p)
    BY <1>9
  <2>2. ASSUME NEW d \in C2, ~(c <= d) PROVE FALSE
    BY <1>2, <2>1, <2>2
  <2> QED BY <1>2, <1>9, <2>1, <2>2
<1> QED BY <1>6, <1>7, <1>8, <1>9

-----------------------------------------------------------------------------
(* A scan of what an event brought.                                        *)

Scans == [in : BOOLEAN, inTag : BOOLEAN, shown : Seq(Nat), thought : Seq(Nat)]
Start0 == Scan(inThink, FALSE, <<>>, <<>>)

IsScanned(p, b, upto, n) ==
  /\ DOMAIN p = 0 .. n /\ p[0] = Start0
  /\ \A k \in 1 .. n : p[k] = ReadPiece(p[k - 1], b, k, upto - Len(b) + k)
ScanRec(p, b, upto, n) ==
  p = [i \in 0 .. n |-> IF i = 0 THEN Scan(inThink, FALSE, <<>>, <<>>)
                        ELSE ReadPiece(p[i - 1], b, i, upto - Len(b) + i)]

LEMMA ScanExists == ASSUME NEW b, NEW upto, NEW n \in Nat PROVE \E p : ScanRec(p, b, upto, n)
<1> DEFINE T == {m \in Nat : \E p : IsScanned(p, b, upto, m)}
<1>1. 0 \in T
  <2>1. IsScanned([k \in 0 .. 0 |-> Start0], b, upto, 0)
    BY DEF IsScanned
  <2> QED BY <2>1
<1>2. ASSUME NEW m \in Nat, m \in T PROVE m + 1 \in T
  <2>1. PICK p : IsScanned(p, b, upto, m)
    BY <1>2
  <2> DEFINE next == ReadPiece(p[m], b, m + 1, upto - Len(b) + (m + 1))
             q == [k \in 0 .. m + 1 |-> IF k <= m THEN p[k] ELSE next]
  <2>2. q[m + 1] = next /\ \A k \in 0 .. m : q[k] = p[k]
    OBVIOUS
  <2>3. DOMAIN q = 0 .. m + 1
    OBVIOUS
  <2> HIDE DEF q
  <2>4. IsScanned(q, b, upto, m + 1)
    BY <2>1, <2>2, <2>3 DEF IsScanned
  <2> QED BY <2>4
<1> HIDE DEF T
<1>3. Nat \subseteq T
  BY <1>1, <1>2, Induction
<1>4. PICK p : IsScanned(p, b, upto, n)
  BY <1>3 DEF T
<1> DEFINE r == [k \in 0 .. n |-> p[k]]
<1>5. ASSUME NEW k \in 0 .. n
      PROVE  r[k] = IF k = 0 THEN Scan(inThink, FALSE, <<>>, <<>>) ELSE ReadPiece(r[k - 1], b, k, upto - Len(b) + k)
  <2>1. r[k] = p[k]
    OBVIOUS
  <2>2. CASE k = 0
    BY <1>4, <2>1, <2>2, Zenon DEF IsScanned, Start0
  <2>3. CASE k # 0
    <3>1. k \in 1 .. n /\ k - 1 \in 0 .. n
      BY <2>3
    <3>2. r[k - 1] = p[k - 1]
      BY <3>1
    <3>3. p[k] = ReadPiece(p[k - 1], b, k, upto - Len(b) + k)
      BY <1>4, <3>1, Zenon DEF IsScanned
    <3> QED BY <2>1, <2>3, <3>2, <3>3, Zenon
  <2> QED BY <2>2, <2>3
<1>6. r = [k \in 0 .. n |-> r[k]]
  BY Zenon
<1> HIDE DEF r
<1>7. ScanRec(r, b, upto, n)
  BY <1>5, <1>6, Zenon DEF ScanRec
<1> QED BY <1>7, Zenon

LEMMA ScannedIs ==
  ASSUME NEW b \in Seq(Pieces), NEW upto
  PROVE  \E p : IsScanned(p, b, upto, Len(b)) /\ Scanned(b, upto) = p[Len(b)]
<1> DEFINE n == Len(b)  p == CHOOSE q : ScanRec(q, b, upto, n)
<1>1. n \in Nat
  OBVIOUS
<1>2. \E q : ScanRec(q, b, upto, n)
  BY <1>1, ScanExists
<1>3. ScanRec(p, b, upto, n)
  BY <1>2, Zenon
<1>4. Scanned(b, upto) = p[n]
  BY Zenon DEF Scanned, ScanRec
<1> HIDE DEF p
<1>5. \A k \in 0 .. n : p[k] = IF k = 0 THEN Start0 ELSE ReadPiece(p[k - 1], b, k, upto - Len(b) + k)
  BY <1>3, Zenon DEF ScanRec, Start0
<1>6. DOMAIN p = 0 .. n
  BY <1>3, Zenon DEF ScanRec
<1>7. p[0] = Start0
  <2>1. 0 \in 0 .. n
    BY <1>1
  <2> QED BY <1>5, <2>1, Zenon
<1>8. ASSUME NEW k \in 1 .. n PROVE p[k] = ReadPiece(p[k - 1], b, k, upto - Len(b) + k)
  <2>1. k \in 0 .. n /\ k # 0
    BY <1>1
  <2> QED BY <1>5, <2>1, Zenon
<1>9. IsScanned(p, b, upto, n)
  BY <1>6, <1>7, <1>8, Zenon DEF IsScanned
<1> QED BY <1>4, <1>9

LEMMA ScanHas ==
  ASSUME NEW in \in BOOLEAN, NEW inTag \in BOOLEAN, NEW seen \in Seq(Nat), NEW thought \in Seq(Nat),
         NEW r, r = Scan(in, inTag, seen, thought)
  PROVE  r \in Scans /\ r.in = in /\ r.inTag = inTag /\ r.shown = seen
BY DEF Scan, Scans

LEMMA ScansAre ==
  ASSUME NEW s \in Scans
  PROVE  s.in \in BOOLEAN /\ s.inTag \in BOOLEAN /\ s.shown \in Seq(Nat) /\ s.thought \in Seq(Nat)
BY DEF Scans

(* What reading one piece does.                                            *)
ReadsAs(s, b, i, p, r) ==
  /\ r \in Scans
  /\ s.inTag = TRUE => r.in = s.in /\ r.inTag = FALSE /\ r.shown = s.shown
  /\ s.inTag = FALSE /\ s.in = TRUE /\ TagAt(b, "</th", i) => r.in = FALSE /\ r.inTag = TRUE /\ r.shown = s.shown
  /\ s.inTag = FALSE /\ s.in = TRUE /\ ~TagAt(b, "</th", i) => r.in = TRUE /\ r.inTag = FALSE /\ r.shown = s.shown
  /\ s.inTag = FALSE /\ s.in = FALSE /\ TagAt(b, "<th", i) => r.in = TRUE /\ r.inTag = TRUE /\ r.shown = s.shown
  /\ s.inTag = FALSE /\ s.in = FALSE /\ ~TagAt(b, "<th", i) =>
       r.in = FALSE /\ r.inTag = FALSE /\ r.shown = Append(s.shown, p)

LEMMA ReadPieceIs ==
  ASSUME NEW s \in Scans, NEW b, NEW i, NEW p \in Nat
  PROVE  ReadsAs(s, b, i, p, ReadPiece(s, b, i, p))
<1> DEFINE r == ReadPiece(s, b, i, p)
<1>0. TRUE \in BOOLEAN /\ FALSE \in BOOLEAN
  OBVIOUS
<1>1. s.in \in BOOLEAN /\ s.inTag \in BOOLEAN /\ s.shown \in Seq(Nat) /\ s.thought \in Seq(Nat)
  BY ScansAre
<1>2. Append(s.shown, p) \in Seq(Nat) /\ Append(s.thought, p) \in Seq(Nat)
  BY <1>1
<1>3. CASE s.inTag = TRUE
  <2>1. r = Scan(s.in, FALSE, s.shown, s.thought)
    BY <1>3 DEF ReadPiece
  <2> HIDE DEF r
  <2>2. r \in Scans /\ r.in = s.in /\ r.inTag = FALSE /\ r.shown = s.shown
    BY <1>0, <1>1, <2>1 DEF Scan, Scans
  <2>3. ReadsAs(s, b, i, p, r)
    BY <1>3, <2>2 DEF ReadsAs
  <2> QED BY <2>3 DEF r
<1>4. CASE s.inTag = FALSE /\ s.in = TRUE /\ TagAt(b, "</th", i)
  <2>1. r = Scan(FALSE, TRUE, s.shown, s.thought)
    BY <1>4 DEF ReadPiece
  <2> HIDE DEF r
  <2>2. r \in Scans /\ r.in = FALSE /\ r.inTag = TRUE /\ r.shown = s.shown
    BY <1>0, <1>1, <1>2, <2>1 DEF Scan, Scans
  <2>3. ReadsAs(s, b, i, p, r)
    BY <1>4, <2>2 DEF ReadsAs
  <2> QED BY <2>3 DEF r
<1>5. CASE s.inTag = FALSE /\ s.in = TRUE /\ ~TagAt(b, "</th", i)
  <2>1. r = Scan(TRUE, FALSE, s.shown, Append(s.thought, p))
    BY <1>5 DEF ReadPiece
  <2> HIDE DEF r
  <2>2. r \in Scans /\ r.in = TRUE /\ r.inTag = FALSE /\ r.shown = s.shown
    BY <1>0, <1>1, <1>2, <2>1 DEF Scan, Scans
  <2>3. ReadsAs(s, b, i, p, r)
    BY <1>5, <2>2 DEF ReadsAs
  <2> QED BY <2>3 DEF r
<1>6. CASE s.inTag = FALSE /\ s.in = FALSE /\ TagAt(b, "<th", i)
  <2>1. r = Scan(TRUE, TRUE, s.shown, s.thought)
    BY <1>6 DEF ReadPiece
  <2> HIDE DEF r
  <2>2. r \in Scans /\ r.in = TRUE /\ r.inTag = TRUE /\ r.shown = s.shown
    BY <1>0, <1>1, <1>2, <2>1 DEF Scan, Scans
  <2>3. ReadsAs(s, b, i, p, r)
    BY <1>6, <2>2 DEF ReadsAs
  <2> QED BY <2>3 DEF r
<1>7. CASE s.inTag = FALSE /\ s.in = FALSE /\ ~TagAt(b, "<th", i)
  <2>1. r = Scan(FALSE, FALSE, Append(s.shown, p), s.thought)
    BY <1>7 DEF ReadPiece
  <2> HIDE DEF r
  <2>2. r \in Scans /\ r.in = FALSE /\ r.inTag = FALSE /\ r.shown = Append(s.shown, p)
    BY <1>0, <1>1, <1>2, <2>1 DEF Scan, Scans
  <2>3. ReadsAs(s, b, i, p, r)
    BY <1>7, <2>2 DEF ReadsAs
  <2> QED BY <2>3 DEF r
<1> QED BY <1>1, <1>3, <1>4, <1>5, <1>6, <1>7

(* One more piece: the one at position p + 1.                              *)
LEMMA AppendConcat ==
  ASSUME NEW x \in Seq(Nat), NEW y \in Seq(Nat), NEW e \in Nat
  PROVE  Append(x \o y, e) = x \o Append(y, e)
<1>1. x \o y \in Seq(Nat) /\ <<e>> \in Seq(Nat)
  OBVIOUS
<1>2. Append(x \o y, e) = (x \o y) \o <<e>> /\ Append(y, e) = y \o <<e>>
  BY <1>1, AppendIsConcat
<1>3. (x \o y) \o <<e>> = x \o (y \o <<e>>)
  BY <1>1, ConcatAssociative
<1> QED BY <1>2, <1>3

LEMMA ReadFits ==
  ASSUME NEW W \in Seq(Pieces), OneTag(W), NEW p \in Nat, NEW s \in Scans, NEW b, NEW i,
         TagAt(b, "<th", i) <=> p + 1 \in Tags(W, "<th"),
         TagAt(b, "</th", i) <=> p + 1 \in Tags(W, "</th"),
         NEW before \in Seq(Nat), ScanFits(W, p, s.in, s.inTag, before \o s.shown)
  PROVE  ScanFits(W, p + 1, ReadPiece(s, b, i, p + 1).in, ReadPiece(s, b, i, p + 1).inTag, before \o ReadPiece(s, b, i, p + 1).shown)
<1> DEFINE O == Tags(W, "<th")  C == Tags(W, "</th")  all == before \o s.shown
<1>0. PICK r : r = ReadPiece(s, b, i, p + 1)
  OBVIOUS
<1>01. p + 1 \in Nat
  OBVIOUS
<1>1. O \in SUBSET (Nat \ {0}) /\ C \in SUBSET (Nat \ {0}) /\ O \in SUBSET Nat /\ C \in SUBSET Nat
  <2>1. \A k \in 1 .. Len(W) : k \in Nat \ {0}
    OBVIOUS
  <2> QED BY <2>1, TagsAre
<1>2. (\A o, o2 \in O : o = o2) /\ \A o \in O, c \in C : o + 1 < c
  BY DEF OneTag
<1>3. \/ (\A o \in O : p < o) /\ s.in = FALSE /\ s.inTag = FALSE /\ all = Run(1, p)
      \/ \E o \in O : o <= p /\ (\A c \in C : p < c) /\ s.in = TRUE /\ (s.inTag = TRUE <=> o = p) /\ all = Run(1, o - 1)
      \/ \E o \in O, c \in C : c <= p /\ (\A d \in C : c <= d) /\ s.in = FALSE /\ (s.inTag = TRUE <=> c = p)
                               /\ all = Run(1, o - 1) \o Run(c + 2, p)
  BY DEF ScanFits, ScanEnds
<1>4. /\ s.inTag = TRUE => r.in = s.in /\ r.inTag = FALSE /\ r.shown = s.shown
      /\ s.inTag = FALSE /\ s.in = TRUE /\ p + 1 \in C => r.in = FALSE /\ r.inTag = TRUE /\ r.shown = s.shown
      /\ s.inTag = FALSE /\ s.in = TRUE /\ p + 1 \notin C => r.in = TRUE /\ r.inTag = FALSE /\ r.shown = s.shown
      /\ s.inTag = FALSE /\ s.in = FALSE /\ p + 1 \in O => r.in = TRUE /\ r.inTag = TRUE /\ r.shown = s.shown
      /\ s.inTag = FALSE /\ s.in = FALSE /\ p + 1 \notin O =>
           r.in = FALSE /\ r.inTag = FALSE /\ r.shown = Append(s.shown, p + 1)
  <2>1. ReadsAs(s, b, i, p + 1, r)
    BY <1>0, <1>01, ReadPieceIs
  <2> QED BY <2>1 DEF ReadsAs
<1>5. s.in \in BOOLEAN /\ s.inTag \in BOOLEAN /\ s.shown \in Seq(Nat)
  BY ScansAre
<1>6. before \o Append(s.shown, p + 1) = Append(all, p + 1)
  BY <1>5
<1> SUFFICES ScanFits(W, p + 1, r.in, r.inTag, before \o r.shown)
  BY <1>0
<1> SUFFICES ScanEnds(O, C, p + 1, r.in, r.inTag, before \o r.shown)
  BY DEF ScanFits
<1> HIDE DEF O, C
<1>7. s.shown = r.shown => before \o r.shown = all
  OBVIOUS
<1>8. r.shown = Append(s.shown, p + 1) => before \o r.shown = Append(all, p + 1)
  BY <1>6
<1> HIDE DEF all
<1>9. CASE (\A o \in O : p < o) /\ s.in = FALSE /\ s.inTag = FALSE /\ all = Run(1, p)
  <2>1. CASE p + 1 \in O
    <3>1. r.in = TRUE /\ r.inTag = TRUE /\ before \o r.shown = Run(1, (p + 1) - 1)
      BY <1>4, <1>7, <1>9, <2>1
    <3>2. \A c \in C : p + 1 < c
      BY <1>1, <1>2, <2>1
    <3>3. p + 1 <= p + 1 /\ (r.inTag = TRUE <=> p + 1 = p + 1)
      BY <3>1
    <3> QED BY <2>1, <3>1, <3>2, <3>3 DEF ScanEnds
  <2>2. CASE p + 1 \notin O
    <3>1. r.in = FALSE /\ r.inTag = FALSE /\ before \o r.shown = Append(Run(1, p), p + 1)
      BY <1>4, <1>8, <1>9, <2>2
    <3>2. Append(Run(1, p), p + 1) = Run(1, p + 1)
      BY RunOne
    <3>3. \A o \in O : p + 1 < o
      BY <1>1, <1>9, <2>2
    <3> QED BY <3>1, <3>2, <3>3 DEF ScanEnds
  <2> QED BY <2>1, <2>2
<1>10. CASE \E o \in O : o <= p /\ (\A c \in C : p < c) /\ s.in = TRUE /\ (s.inTag = TRUE <=> o = p) /\ all = Run(1, o - 1)
  <2>1. PICK o \in O : o <= p /\ (\A c \in C : p < c) /\ s.in = TRUE /\ (s.inTag = TRUE <=> o = p) /\ all = Run(1, o - 1)
    BY <1>10
  <2>2. o \in Nat /\ o # p + 1 /\ o <= p + 1
    BY <1>1, <2>1
  <2>3. CASE s.inTag = TRUE
    <3>1. o = p /\ p + 1 \notin C
      BY <1>2, <2>1, <2>2, <2>3
    <3>2. \A c \in C : p + 1 < c
      BY <1>1, <2>1, <3>1
    <3>3. r.in = TRUE /\ r.inTag = FALSE /\ before \o r.shown = Run(1, o - 1)
      BY <1>4, <1>7, <2>1, <2>3
    <3> QED BY <2>2, <3>2, <3>3 DEF ScanEnds
  <2>4. CASE s.inTag = FALSE /\ p + 1 \notin C
    <3>1. \A c \in C : p + 1 < c
      BY <1>1, <2>1, <2>4
    <3>2. r.in = TRUE /\ r.inTag = FALSE /\ before \o r.shown = Run(1, o - 1)
      BY <1>4, <1>7, <2>1, <2>4
    <3> QED BY <2>2, <3>1, <3>2 DEF ScanEnds
  <2>5. CASE s.inTag = FALSE /\ p + 1 \in C
    <3>1. \A d \in C : p + 1 <= d
      BY <1>1, <2>1
    <3>2. r.in = FALSE /\ r.inTag = TRUE /\ before \o r.shown = Run(1, o - 1)
      BY <1>4, <1>7, <2>1, <2>5
    <3>3. Run((p + 1) + 2, p + 1) = <<>> /\ Run(1, o - 1) \in Seq(Nat)
      <4>1. o - 1 \in Int /\ o - 1 >= 1 - 1 /\ (p + 1) + 2 \in Nat /\ p + 1 \in Int /\ p + 1 < (p + 1) + 2
        BY <1>1
      <4> QED BY <4>1, RunEmpty, RunIs
    <3>4. Run(1, o - 1) \o Run((p + 1) + 2, p + 1) = Run(1, o - 1)
      BY <3>3
    <3> QED BY <2>5, <3>1, <3>2, <3>4 DEF ScanEnds
  <2> QED BY <1>5, <2>3, <2>4, <2>5
<1>11. CASE \E o \in O, c \in C : c <= p /\ (\A d \in C : c <= d) /\ s.in = FALSE /\ (s.inTag = TRUE <=> c = p)
                               /\ all = Run(1, o - 1) \o Run(c + 2, p)
  <2>1. PICK o \in O, c \in C : c <= p /\ (\A d \in C : c <= d) /\ s.in = FALSE /\ (s.inTag = TRUE <=> c = p)
                                /\ all = Run(1, o - 1) \o Run(c + 2, p)
    BY <1>11
  <2>2. o \in Nat /\ c \in Nat /\ o + 1 < c /\ p + 1 \notin O /\ c # p + 1 /\ c <= p + 1 /\ o >= 1
    <3>1. o \in Nat /\ c \in Nat /\ o + 1 < c /\ o >= 1
      BY <1>1, <1>2
    <3>2. p + 1 \notin O
      BY <1>2, <2>1, <3>1
    <3> QED BY <2>1, <3>1, <3>2 DEF ScanEnds
  <2>3. Run(1, o - 1) \in Seq(Nat)
    <3>1. o - 1 \in Int /\ o - 1 >= 1 - 1
      BY <2>2
    <3> QED BY <3>1, RunIs
  <2>4. CASE s.inTag = TRUE
    <3>1. c = p
      BY <2>1, <2>4
    <3>2. Run(c + 2, p) = <<>> /\ Run(c + 2, p + 1) = <<>>
      BY <2>2, <3>1, RunEmpty
    <3>3. r.in = FALSE /\ r.inTag = FALSE /\ before \o r.shown = Run(1, o - 1) \o Run(c + 2, p + 1)
      BY <1>4, <1>7, <2>1, <2>4, <3>2
    <3> QED BY <2>1, <2>2, <3>3 DEF ScanEnds
  <2>5. CASE s.inTag = FALSE
    <3>1. c + 2 \in Nat /\ c + 2 <= p + 1
      BY <2>1, <2>2, <2>5
    <3>2. Run(c + 2, p) \in Seq(Nat) /\ Append(Run(c + 2, p), p + 1) = Run(c + 2, p + 1)
      BY <3>1, RunOne
    <3>3. Append(Run(1, o - 1) \o Run(c + 2, p), p + 1) = Run(1, o - 1) \o Append(Run(c + 2, p), p + 1)
      BY <1>01, <2>3, <3>2, AppendConcat
    <3>4. r.in = FALSE /\ r.inTag = FALSE /\ before \o r.shown = Run(1, o - 1) \o Run(c + 2, p + 1)
      BY <1>4, <1>8, <2>1, <2>2, <2>5, <3>2, <3>3
    <3> QED BY <2>1, <2>2, <3>4 DEF ScanEnds
  <2> QED BY <1>5, <2>4, <2>5
<1> QED BY <1>3, <1>9, <1>10, <1>11

(* The tags of b are those of W after position `base`.                     *)
TagsAgree(b, base, W) ==
  \A i \in 1 .. Len(b) : /\ TagAt(b, "<th", i) <=> base + i \in Tags(W, "<th")
                         /\ TagAt(b, "</th", i) <=> base + i \in Tags(W, "</th")

LEMMA ScannedFits ==
  ASSUME inThink \in BOOLEAN, content \in Seq(Nat),
         NEW b \in Seq(Pieces), NEW upto \in Nat, Len(b) <= upto
  PROVE  /\ Scanned(b, upto) \in Scans
         /\ \A W \in Seq(Pieces) :
              /\ OneTag(W) /\ TagsAgree(b, upto - Len(b), W)
              /\ ScanFits(W, upto - Len(b), inThink, FALSE, content)
              => ScanFits(W, upto, Scanned(b, upto).in, Scanned(b, upto).inTag, content \o Scanned(b, upto).shown)
<1> DEFINE n == Len(b)  base == upto - n
<1>1. n \in Nat /\ base \in Nat /\ base + n = upto
  OBVIOUS
<1>2. PICK p : IsScanned(p, b, upto, n) /\ Scanned(b, upto) = p[n]
  BY ScannedIs
<1> HIDE DEF n
<1>3. p[0] = Start0 /\ \A k \in Nat : k + 1 <= n => p[k + 1] = ReadPiece(p[k], b, k + 1, base + k + 1)
  <2>1. ASSUME NEW k \in Nat, k + 1 <= n PROVE p[k + 1] = ReadPiece(p[k], b, k + 1, base + k + 1)
    <3>1. k + 1 \in 1 .. n /\ (k + 1) - 1 = k /\ base + (k + 1) = base + k + 1
      BY <1>1, <2>1
    <3>2. p[k + 1] = ReadPiece(p[(k + 1) - 1], b, k + 1, upto - Len(b) + (k + 1))
      BY <1>2, <3>1, Zenon DEF IsScanned
    <3> QED BY <3>1, <3>2 DEF n
  <2> QED BY <1>2, <2>1 DEF IsScanned
<1> HIDE DEF base
<1>4. Start0 \in Scans /\ Start0.in = inThink /\ Start0.inTag = FALSE /\ Start0.shown = <<>>
  <2>1. <<>> \in Seq(Nat) /\ FALSE \in BOOLEAN
    OBVIOUS
  <2> QED BY <2>1 DEF Start0, Scan, Scans
<1> DEFINE T == {k \in Nat : k <= n => p[k] \in Scans}
<1>5. 0 \in T
  BY <1>3, <1>4
<1>6. ASSUME NEW k \in Nat, k \in T PROVE k + 1 \in T
  <2> SUFFICES ASSUME k + 1 <= n PROVE p[k + 1] \in Scans
    OBVIOUS
  <2>1. p[k] \in Scans /\ base + k + 1 \in Nat /\ p[k + 1] = ReadPiece(p[k], b, k + 1, base + k + 1)
    BY <1>1, <1>3, <1>6
  <2>2. ReadsAs(p[k], b, k + 1, base + k + 1, p[k + 1])
    BY <2>1, ReadPieceIs
  <2> QED BY <2>2 DEF ReadsAs
<1> HIDE DEF T
<1>7. Nat \subseteq T
  BY <1>5, <1>6, Induction
<1>8. \A k \in 0 .. n : p[k] \in Scans
  BY <1>1, <1>7 DEF T
<1>9. Scanned(b, upto) \in Scans
  BY <1>1, <1>2, <1>8
<1>10. ASSUME NEW W \in Seq(Pieces), OneTag(W), TagsAgree(b, base, W),
              ScanFits(W, base, inThink, FALSE, content)
       PROVE  ScanFits(W, upto, Scanned(b, upto).in, Scanned(b, upto).inTag, content \o Scanned(b, upto).shown)
  <2> DEFINE U == {k \in Nat : k <= n => ScanFits(W, base + k, p[k].in, p[k].inTag, content \o p[k].shown)}
  <2>1. 0 \in U
    <3>1. base + 0 = base /\ content \o <<>> = content
      BY <1>1
    <3>2. ScanFits(W, base + 0, Start0.in, Start0.inTag, content \o Start0.shown)
      BY <1>4, <1>10, <3>1
    <3> QED BY <1>3, <3>2
  <2>2. ASSUME NEW k \in Nat, k \in U PROVE k + 1 \in U
    <3> SUFFICES ASSUME k + 1 <= n
                 PROVE  ScanFits(W, base + (k + 1), p[k + 1].in, p[k + 1].inTag, content \o p[k + 1].shown)
      OBVIOUS
    <3>1. k + 1 \in 1 .. n /\ base + (k + 1) = base + k + 1 /\ k \in 0 .. n /\ base + k \in Nat
      BY <1>1
    <3>2. /\ TagAt(b, "<th", k + 1) <=> (base + k) + 1 \in Tags(W, "<th")
          /\ TagAt(b, "</th", k + 1) <=> (base + k) + 1 \in Tags(W, "</th")
      BY <1>10, <3>1 DEF TagsAgree, n
    <3>3. ScanFits(W, base + k, p[k].in, p[k].inTag, content \o p[k].shown) /\ p[k] \in Scans
      BY <1>8, <2>2, <3>1
    <3>4. p[k + 1] = ReadPiece(p[k], b, k + 1, (base + k) + 1)
      BY <1>3, <3>1
    <3>5. ScanFits(W, (base + k) + 1, p[k + 1].in, p[k + 1].inTag, content \o p[k + 1].shown)
      BY <1>10, <3>1, <3>2, <3>3, <3>4, ReadFits
    <3> QED BY <3>1, <3>5
  <2> HIDE DEF U
  <2>3. Nat \subseteq U
    BY <2>1, <2>2, Induction
  <2>4. ScanFits(W, base + n, p[n].in, p[n].inTag, content \o p[n].shown)
    BY <1>1, <2>3 DEF U
  <2> QED BY <1>1, <1>2, <2>4
<1> QED BY <1>9, <1>10 DEF n, base

(* What an event does to the reply.                                        *)
LEMMA NoTagEnds ==
  ASSUME NEW V, NEW p, NEW in, NEW inTag \in BOOLEAN, NEW seen, ScanFits(V, p, in, inTag, seen),
         p \notin Tags(V, "<th"), p \notin Tags(V, "</th")
  PROVE  inTag = FALSE
BY DEF ScanFits, ScanEnds

EventIs(e, V, b) ==
  /\ b \in Seq(Pieces) /\ b # <<>> /\ Len(b) = Len(held) + Len(e) /\ Len(b) \in Nat
  /\ V \in Seq(Pieces) /\ V # <<>> /\ Len(V) = Len(written) + Len(e) /\ Last(V) = Last(b)
  /\ Len(held) \in {0, 1} /\ Len(written) \in Nat /\ Len(written) - Len(held) \in 0 .. Len(written)
  /\ \A j \in 1 .. Len(b) : V[Len(written) - Len(held) + j] = b[j]

LEMMA EventTags ==
  ASSUME StreamTypes, HeldFits, NEW e \in Seq(Pieces), e # <<>>
  PROVE  EventIs(e, written \o e, held \o e)
<1> DEFINE V == written \o e  b == held \o e
<1> DEFINE End == Len(written)  H == Len(held)  E == Len(e)
<1>0. written \in Seq(Pieces) /\ held \in {<<>>, <<"<th">>}
  BY DEF StreamTypes
<1>1. /\ held \in Seq(Pieces) /\ H \in {0, 1} /\ End \in Nat /\ E \in Nat /\ E > 0
      /\ H = 1 => held[1] = "<th"
      /\ H = 1 => held # <<>>
  <2>1. written \in Seq(Pieces) /\ e \in Seq(Pieces) => End \in Nat /\ E \in Nat /\ E > 0
    OBVIOUS
  <2>2. "<th" \in Pieces
    BY DEF Pieces
  <2>3. CASE held = <<>>
    BY <1>0, <2>1, <2>3
  <2>4. CASE held = <<"<th">>
    BY <1>0, <2>1, <2>2, <2>4
  <2> QED BY <1>0, <2>3, <2>4
<1>2. /\ V \in Seq(Pieces) /\ Len(V) = End + E
      /\ \A i \in 1 .. End : V[i] = written[i]
      /\ \A i \in End + 1 .. End + E : V[i] = e[i - End]
  BY <1>0, ConcatIs
<1>3. /\ b \in Seq(Pieces) /\ Len(b) = H + E
      /\ \A i \in 1 .. H : b[i] = held[i]
      /\ \A i \in H + 1 .. H + E : b[i] = e[i - H]
  BY <1>1, ConcatIs
<1>4. H = 1 => End > 0 /\ written[End] = "<th"
  BY <1>0, <1>1 DEF HeldFits, Last
<1> HIDE DEF End, H, E
<1>5. ASSUME NEW j \in 1 .. H + E PROVE V[End - H + j] = b[j]
  <2>1. CASE j <= H
    <3>1. H = 1 /\ j = 1 /\ End - H + j = End /\ End \in 1 .. End
      BY <1>1, <1>4, <2>1
    <3> QED BY <1>1, <1>2, <1>3, <1>4, <3>1
  <2>2. CASE j > H
    <3>1. PICK k : k = End - H + j
      OBVIOUS
    <3>2. k \in End + 1 .. End + E /\ j \in H + 1 .. H + E /\ k - End = j - H
      BY <1>1, <2>2, <3>1
    <3>3. V[k] = e[k - End] /\ b[j] = e[j - H]
      BY <1>2, <1>3, <3>2
    <3>4. V[k] = b[j]
      BY <3>2, <3>3
    <3> QED BY <3>1, <3>4, Zenon
  <2>3. j <= H \/ j > H
    BY <1>1
  <2> QED BY <2>1, <2>2, <2>3, Zenon
<1>6. Last(V) = Last(b)
  <2>1. H + E \in 1 .. H + E /\ End - H + (H + E) = End + E
    BY <1>1
  <2> QED BY <1>2, <1>3, <1>5, <2>1 DEF Last
<1>7. End - H \in 0 .. End /\ (End + E) - (H + E) = End - H /\ End + E > 0 /\ H + E > 0 /\ H + E \in Nat
  BY <1>1, <1>4
<1>8. V # <<>> /\ b # <<>>
  BY <1>2, <1>3, <1>7
<1> HIDE DEF V, b
<1>9. EventIs(e, V, b)
  BY <1>1, <1>2, <1>3, <1>5, <1>6, <1>7, <1>8 DEF End, H, E, EventIs
<1> QED BY <1>9 DEF V, b

LEMMA FrontOf ==
  ASSUME NEW b \in Seq(Pieces), b # <<>>
  PROVE  /\ Front(b) \in Seq(Pieces) /\ Len(Front(b)) = Len(b) - 1
         /\ \A i \in 1 .. Len(b) - 1 : Front(b)[i] = b[i]
<1>1. Len(b) \in Nat /\ Len(b) > 0
  OBVIOUS
<1>2. Front(b) = SubSeq(b, 1, Len(b) - 1)
  BY DEF Front
<1>3. Len(b) - 1 \in 0 .. Len(b) /\ 1 \in 1 .. Len(b)
  BY <1>1
<1>4. ASSUME NEW n \in Nat, n <= Len(b)
      PROVE  SubSeq(b, 1, n) \in Seq(Pieces) /\ Len(SubSeq(b, 1, n)) = n /\ \A i \in 1 .. n : SubSeq(b, 1, n)[i] = b[i]
  BY <1>1, <1>4
<1>5. Len(b) - 1 \in Nat /\ Len(b) - 1 <= Len(b)
  BY <1>1
<1> HIDE DEF Front
<1> QED BY <1>2, <1>4, <1>5

LEMMA BufferTags ==
  ASSUME NEW V \in Seq(Pieces), NEW b \in Seq(Pieces), NEW base \in Nat, Len(V) = base + Len(b),
         \A j \in 1 .. Len(b) : V[base + j] = b[j]
  PROVE  /\ TagsAgree(b, base, V)
         /\ b # <<>> /\ Last(b) = "<th" => TagsAgree(Front(b), base, V)
<1> DEFINE n == Len(b)
<1>1. n \in Nat
  OBVIOUS
<1>2. ASSUME NEW h, NEW i \in 1 .. n
      PROVE  base + i \in Tags(V, h) <=> i < n /\ b[i] = h /\ b[i + 1] = "ink>"
  <2>1. base + i \in Tags(V, h) <=> base + i \in 1 .. Len(V) /\ TagAt(V, h, base + i)
    BY TagsAre
  <2>2. base + i \in 1 .. Len(V) /\ (base + i < Len(V) <=> i < n) /\ V[base + i] = b[i]
    BY <1>1, <1>2
  <2>3. i < n => V[(base + i) + 1] = b[i + 1]
    <3> SUFFICES ASSUME i < n PROVE V[(base + i) + 1] = b[i + 1]
      OBVIOUS
    <3>1. i + 1 \in 1 .. n /\ (base + i) + 1 = base + (i + 1)
      BY <1>1, <1>2
    <3> QED BY <3>1
  <2> QED BY <2>1, <2>2, <2>3 DEF TagAt
<1> HIDE DEF n
<1>3. TagsAgree(b, base, V)
  BY <1>2 DEF TagsAgree, TagAt, n
<1>4. ASSUME b # <<>>, Last(b) = "<th" PROVE TagsAgree(Front(b), base, V)
  <2> DEFINE f == Front(b)
  <2>1. Len(f) = n - 1 /\ (\A i \in 1 .. n - 1 : f[i] = b[i]) /\ n > 0 /\ b[n] = "<th"
    BY <1>4, FrontOf DEF Last, n
  <2> HIDE DEF f
  <2>2. ASSUME NEW h, NEW i \in 1 .. n - 1 PROVE TagAt(f, h, i) <=> base + i \in Tags(V, h)
    <3>1. i \in 1 .. n /\ i < n
      BY <1>1
    <3>2. base + i \in Tags(V, h) <=> b[i] = h /\ b[i + 1] = "ink>"
      BY <1>2, <3>1
    <3>3. TagAt(f, h, i) <=> i < n - 1 /\ f[i] = h /\ f[i + 1] = "ink>"
      BY <2>1 DEF TagAt
    <3>4. CASE i = n - 1
      <4>1. b[i + 1] = "<th" /\ ~(i < n - 1)
        BY <1>1, <2>1, <3>4
      <4> QED BY <3>2, <3>3, <4>1
    <3>5. CASE i # n - 1
      <4>1. i < n - 1 /\ i + 1 \in 1 .. n - 1
        BY <1>1, <3>5
      <4> QED BY <2>1, <3>2, <3>3, <4>1
    <3> QED BY <3>4, <3>5
  <2> QED BY <2>1, <2>2 DEF TagsAgree, f
<1> QED BY <1>3, <1>4

LEMMA ContentDeltaKeeps ==
  ASSUME StreamFits, NEW e \in Seq(Pieces), e # <<>>, ContentDelta(e)
  PROVE  StreamFits'
<1> DEFINE V == written \o e  b == held \o e  End == Len(V)
           upto == Len(written) + Len(e)  base == Len(written) - Len(held)
           whole == Scanned(b, upto)  less == Scanned(Front(b), upto - 1)
           hold == HoldsBack(b, whole.in)
           got == IF hold THEN less ELSE whole
           p == IF hold THEN End - 1 ELSE End
<1>1. /\ answer = "open" /\ answer' = "open" /\ written' = V
      /\ held' = IF hold THEN <<"<th">> ELSE <<>>
      /\ inThink' = got.in /\ content' = content \o got.shown
      /\ cutClose' = (cutClose \/ (inThink /\ written # <<>> /\ Last(written) = "</th" /\ Head(e) = "ink>"))
  BY DEF ContentDelta
<1>2. /\ StreamTypes /\ HeldFits
      /\ OneTag(written) /\ cutClose = FALSE => ScanFits(written, base, inThink, FALSE, content)
  BY <1>1 DEF StreamFits
<1>3. /\ written \in Seq(Pieces) /\ inThink \in BOOLEAN /\ cutClose \in BOOLEAN /\ content \in Seq(Nat)
      /\ held \in {<<>>, <<"<th">>}
  BY <1>2 DEF StreamTypes
<1>40. V = written \o e /\ b = held \o e /\ upto = Len(written) + Len(e) /\ base = Len(written) - Len(held)
  OBVIOUS
<1>42. whole = Scanned(b, upto) /\ less = Scanned(Front(b), upto - 1)
  OBVIOUS
<1> HIDE DEF V, b, base, upto, whole, less
<1>4. /\ b \in Seq(Pieces) /\ b # <<>> /\ Len(b) \in Nat /\ Len(b) > 0
      /\ V \in Seq(Pieces) /\ V # <<>> /\ End = upto /\ End \in Nat /\ Last(V) = Last(b)
      /\ base \in 0 .. Len(written) /\ base \in Nat /\ upto = base + Len(b)
      /\ \A j \in 1 .. Len(b) : V[base + j] = b[j]
  <2>1. EventIs(e, V, b)
    BY <1>2, EventTags DEF V, b
  <2>2. Len(e) \in Nat /\ End = Len(V)
    OBVIOUS
  <2> HIDE DEF End
  <2> QED BY <1>40, <2>1, <2>2 DEF EventIs
<1>41. base = Len(written) => held = <<>>
  BY <1>3, <1>40
<1>5. TagsAgree(b, base, V) /\ (Last(b) = "<th" => TagsAgree(Front(b), base, V))
  BY <1>4, BufferTags
<1>6. Front(b) \in Seq(Pieces) /\ Len(Front(b)) = Len(b) - 1
  BY <1>4, FrontOf
<1>7. whole \in Scans /\ less \in Scans
  <2>1. Len(b) <= upto /\ upto \in Nat /\ upto - 1 \in Nat /\ Len(Front(b)) <= upto - 1
    BY <1>4, <1>6
  <2> QED BY <1>3, <1>4, <1>6, <1>42, <2>1, ScannedFits
<1>8. got \in Scans /\ got.in \in BOOLEAN /\ got.inTag \in BOOLEAN /\ got.shown \in Seq(Nat)
  <2>1. got \in Scans
    BY <1>7
  <2> QED BY <2>1, ScansAre
<1>81. hold => Last(b) = "<th" /\ whole.in = FALSE
  BY <1>7, ScansAre DEF HoldsBack
<1>82. ~hold /\ Last(b) = "<th" => whole.in = TRUE
  BY <1>4, <1>7, ScansAre DEF HoldsBack
<1>83. p \notin Tags(V, "<th") /\ p \notin Tags(V, "</th")
  <2> SUFFICES ASSUME NEW h, p \in Tags(V, h) PROVE FALSE
    OBVIOUS
  <2>1. p \in 1 .. End /\ p < End /\ V[p + 1] = "ink>"
    BY <1>4, TagsAre DEF TagAt
  <2>2. hold /\ p + 1 = End /\ V[End] = "<th"
    BY <1>4, <1>81, <2>1 DEF Last
  <2> QED BY <2>1, <2>2
<1>9. ASSUME OneTag(V), cutClose' = FALSE PROVE ScanFits(V, p, got.in, FALSE, content \o got.shown)
  <2>1. ScanFits(V, base, inThink, FALSE, content)
    <3>1. ~(inThink = TRUE /\ written # <<>> /\ Last(written) = "</th" /\ Head(e) = "ink>") /\ cutClose = FALSE
      BY <1>1, <1>3, <1>9
    <3>2. base = Len(written) /\ written # <<>> /\ Last(written) = "<th" => inThink = TRUE
      BY <1>2, <1>41 DEF HeldFits
    <3>3. V = written \o e
      BY <1>40
    <3>4. OneTag(written) => ScanFits(written, base, inThink, FALSE, content)
      BY <1>2, <3>1
    <3>5. NoTagCut(written, e, base, inThink)
      BY <3>1, <3>2 DEF NoTagCut
    <3> QED BY <1>3, <1>4, <1>9, <3>3, <3>4, <3>5, ScanGoesOn
  <2>2. ScanFits(V, p, got.in, got.inTag, content \o got.shown)
    <3>1. CASE hold
      <4>1. Len(Front(b)) <= upto - 1 /\ upto - 1 \in Nat /\ (upto - 1) - Len(Front(b)) = base
        BY <1>4, <1>6
      <4>2. TagsAgree(Front(b), base, V)
        BY <1>5, <1>81, <3>1
      <4>3. ScanFits(V, upto - 1, less.in, less.inTag, content \o less.shown)
        BY <1>3, <1>4, <1>6, <1>42, <1>9, <2>1, <4>1, <4>2, ScannedFits
      <4> QED BY <1>4, <3>1, <4>3
    <3>2. CASE ~hold
      <4>1. Len(b) <= upto /\ upto \in Nat /\ upto - Len(b) = base
        BY <1>4
      <4>3. ScanFits(V, upto, whole.in, whole.inTag, content \o whole.shown)
        BY <1>3, <1>4, <1>5, <1>42, <1>9, <2>1, <4>1, ScannedFits
      <4> QED BY <1>4, <3>2, <4>3
    <3> QED BY <3>1, <3>2
  <2>3. got.inTag = FALSE
    BY <1>8, <1>83, <2>2, NoTagEnds
  <2> QED BY <2>2, <2>3
<1>91. Len(held') = (IF hold THEN 1 ELSE 0) /\ p = Len(V) - Len(held')
  BY <1>1, <1>4
<1> HIDE DEF got, p, hold
<1>10. StreamTypes'
  <2>1. content' \in Seq(Nat)
    BY <1>1, <1>3, <1>8
  <2> QED BY <1>1, <1>3, <1>4, <1>8, <2>1 DEF StreamTypes
<1>11. HeldFits'
  <2>1. hold => Last(V) = "<th"
    BY <1>4, <1>81
  <2>2. ~hold /\ Last(V) = "<th" => inThink' = TRUE
    BY <1>1, <1>4, <1>82 DEF got
  <2> QED BY <1>1, <1>4, <2>1, <2>2 DEF HeldFits
<1>12. OneTag(V) /\ cutClose' = FALSE => ScanFits(V, Len(V) - Len(held'), inThink', FALSE, content')
  BY <1>1, <1>9, <1>91
<1>13. OneTag(written)' /\ cutClose' = FALSE =>
         ScanFits(written', Len(written') - Len(held'), inThink', FALSE, content')
  BY <1>1, <1>12
<1>14. StreamAgrees'
  BY <1>1 DEF StreamAgrees
<1> QED BY <1>1, <1>10, <1>11, <1>13, <1>14 DEF StreamFits

LEMMA StreamBeginKeeps == StreamFits /\ StreamBegin => StreamFits'
<1> SUFFICES ASSUME StreamFits, StreamBegin PROVE StreamFits'
  OBVIOUS
<1>1. /\ answer = "idle" /\ answer' = "open" /\ written = <<>> /\ held = <<>> /\ inThink = FALSE /\ content = <<>>
      /\ written' = written /\ held' = held /\ inThink' = inThink /\ content' = content /\ cutClose' = cutClose
      /\ StreamTypes
  BY DEF StreamFits, StreamBegin
<1>2. StreamTypes' /\ HeldFits' /\ StreamAgrees'
  BY <1>1 DEF StreamTypes, HeldFits, StreamAgrees
<1>3. \A h : Tags(<<>>, h) = {}
  BY DEF Tags
<1>4. Run(1, 0) = <<>>
  BY RunEmpty
<1>5. ScanFits(<<>>, 0, FALSE, FALSE, <<>>)
  BY <1>3, <1>4 DEF ScanFits, ScanEnds
<1>6. Len(written') - Len(held') = 0
  BY <1>1
<1>61. written' = <<>> /\ inThink' = FALSE /\ content' = <<>>
  BY <1>1
<1>7. ScanFits(written', Len(written') - Len(held'), inThink', FALSE, content')
  BY <1>3, <1>4, <1>6, <1>61 DEF ScanFits, ScanEnds
<1> QED BY <1>1, <1>2, <1>7 DEF StreamFits

LEMMA StreamEndKeeps == StreamFits /\ StreamEnd => StreamFits'
<1> SUFFICES ASSUME StreamFits, StreamEnd PROVE StreamFits'
  OBVIOUS
<1>1. /\ answer = "open" /\ answer' = "done"
      /\ written' = written /\ held' = held /\ inThink' = inThink /\ content' = content /\ cutClose' = cutClose
      /\ StreamTypes
      /\ OneTag(written) /\ cutClose = FALSE => ScanFits(written, Len(written) - Len(held), inThink, FALSE, content)
  BY DEF StreamFits, StreamEnd
<1>2. StreamTypes'
  BY <1>1 DEF StreamTypes
<1>3. ASSUME OneBlock(written), ~cutClose, held = <<>> PROVE content = Extracted(written)
  <2>1. written \in Seq(Pieces) /\ cutClose = FALSE /\ Len(held) = 0 /\ Len(written) \in Nat
    BY <1>1, <1>3 DEF StreamTypes
  <2>2. OneTag(written)
    BY <1>3, <2>1, OneBlockIs
  <2>3. Len(written) - Len(held) = Len(written)
    BY <2>1
  <2>4. ScanFits(written, Len(written), inThink, FALSE, content)
    BY <1>1, <2>1, <2>2, <2>3
  <2> QED BY <2>1, <2>2, <2>4, BlockShown
<1>4. StreamAgrees'
  BY <1>1, <1>3 DEF StreamAgrees
<1> QED BY <1>1, <1>2, <1>4 DEF StreamFits

LEMMA ExtractedIs == ASSUME NEW t \in Seq(Pieces) PROVE Extracted(t) \in Seq(Nat)
<1>1. \A h : Tags(t, h) \in SUBSET (1 .. Len(t)) /\ Tags(t, h) \in SUBSET Nat
  BY TagsAre
<1> DEFINE O == Tags(t, "<th")  C == Tags(t, "</th")  End == Len(t)
<1>2. O \in SUBSET (1 .. End) /\ C \in SUBSET (1 .. End) /\ O \in SUBSET Nat /\ C \in SUBSET Nat /\ End \in Nat
  BY <1>1
<1>3. Extracted(t) = IF O = {} THEN Run(1, End)
                     ELSE IF C = {} THEN Run(1, Earliest(O) - 1)
                     ELSE Run(1, Earliest(O) - 1) \o Run(Earliest(C) + 2, End)
  BY DEF Extracted
<1> HIDE DEF O, C, End
<1>4. Run(1, End) \in Seq(Nat)
  <2>1. End \in Int /\ End >= 1 - 1 /\ 1 \in Nat
    BY <1>2
  <2> QED BY <2>1, RunIs
<1>5. O # {} => Run(1, Earliest(O) - 1) \in Seq(Nat)
  <2> SUFFICES ASSUME O # {} PROVE Run(1, Earliest(O) - 1) \in Seq(Nat)
    OBVIOUS
  <2>1. PICK x \in O : x = Earliest(O)
    BY <1>2, EarliestIs
  <2>2. x - 1 \in Int /\ x - 1 >= 1 - 1 /\ 1 \in Nat
    BY <1>2
  <2> QED BY <2>1, <2>2, RunIs
<1>6. C # {} => Run(Earliest(C) + 2, End) \in Seq(Nat)
  <2> SUFFICES ASSUME C # {} PROVE Run(Earliest(C) + 2, End) \in Seq(Nat)
    OBVIOUS
  <2>1. PICK x \in C : x = Earliest(C)
    BY <1>2, EarliestIs
  <2>2. x \in 1 .. End /\ x + 2 \in Nat /\ End \in Int
    BY <1>2
  <2>3. CASE End < x + 2
    <3>1. Run(x + 2, End) = <<>>
      BY <2>2, <2>3, RunEmpty
    <3>2. <<>> \in Seq(Nat)
      OBVIOUS
    <3> QED BY <2>1, <3>1, <3>2, Zenon
  <2>4. CASE ~(End < x + 2)
    <3>1. End >= (x + 2) - 1
      BY <1>2, <2>2, <2>4
    <3>2. Run(x + 2, End) \in Seq(Nat)
      BY <2>2, <3>1, RunIs
    <3> QED BY <2>1, <3>2
  <2> QED BY <2>3, <2>4
<1> QED BY <1>3, <1>4, <1>5, <1>6

LEMMA ChatAnswerKeeps ==
  ASSUME StreamFits, NEW t \in Seq(Pieces), ChatAnswer(t)
  PROVE  StreamFits'
<1>1. /\ answer = "idle" /\ written' = t /\ held' = held /\ inThink' = inThink /\ cutClose' = cutClose
      /\ StreamTypes /\ content \in Seq(Nat)
      /\ \/ answer' = "panicked" /\ content' = content
         \/ answer' = "done" /\ content' = Extracted(t)
  BY DEF StreamFits, StreamTypes, ChatAnswer
<1>2. content' \in Seq(Nat)
  BY <1>1, ExtractedIs
<1>3. StreamTypes'
  BY <1>1, <1>2 DEF StreamTypes
<1>4. StreamAgrees'
  BY <1>1 DEF StreamAgrees
<1> QED BY <1>1, <1>3, <1>4 DEF StreamFits

-----------------------------------------------------------------------------
(* The other requests, and a step.                                         *)

LEMMA OtherRequestsKeep ==
  ASSUME RequestsFit, \/ \E k \in Kinds : AddMessage(k)
                      \/ OllamaRequest
                      \/ AnthropicRequest
  PROVE  RequestsFit'
<1>1. /\ history \in Seq(Kinds) /\ history' \in Seq(Kinds)
      /\ wire'.by # "gemini" /\ wire'.by # "openai"
  BY DEF RequestsFit, AddMessage, OllamaRequest, AnthropicRequest, NothingSent
<1> QED BY <1>1 DEF RequestsFit, GeminiKeepsOrder, OpenAiFits

LEMMA RequestsSame ==
  RequestsFit /\ UNCHANGED <<history, wire>> => RequestsFit'
<1> SUFFICES ASSUME RequestsFit, UNCHANGED <<history, wire>> PROVE RequestsFit'
  OBVIOUS
<1>1. history' = history /\ wire' = wire
  OBVIOUS
<1>2. Spoken' = Spoken
  BY <1>1 DEF Spoken, InOrder
<1>3. Sent' = Sent /\ \A S : Estimate(S)' = Estimate(S)
  BY <1>1 DEF Sent, Estimate
<1>4. SystemPart' = SystemPart
  BY <1>1 DEF SystemPart, HasSystem
<1>5. \A i : Fits(i)' <=> Fits(i)
  BY <1>1, <1>3, <1>4 DEF Fits
<1>6. GeminiKeepsOrder'
  BY <1>1, <1>2 DEF RequestsFit, GeminiKeepsOrder
<1>7. OpenAiFits'
  BY <1>1, <1>3, <1>4, <1>5 DEF RequestsFit, OpenAiFits
<1> QED BY <1>1, <1>6, <1>7 DEF RequestsFit

LEMMA AskedSame == AskedFits /\ UNCHANGED <<listing, chain>> => AskedFits'
<1> SUFFICES ASSUME AskedFits, UNCHANGED <<listing, chain>> PROVE AskedFits'
  OBVIOUS
<1>1. listing' = listing /\ chain' = chain /\ \A x : Others(x)' = Others(x)
  BY DEF Others, FreeModels
<1> QED BY <1>1 DEF AskedFits

LEMMA StreamSame ==
  StreamFits /\ UNCHANGED <<written, held, inThink, content, cutClose, answer>> => StreamFits'
<1> SUFFICES ASSUME StreamFits, UNCHANGED <<written, held, inThink, content, cutClose, answer>> PROVE StreamFits'
  OBVIOUS
<1>1. /\ written' = written /\ held' = held /\ inThink' = inThink /\ content' = content
      /\ cutClose' = cutClose /\ answer' = answer
  OBVIOUS
<1>2. (StreamTypes' <=> StreamTypes) /\ (HeldFits' <=> HeldFits) /\ (StreamAgrees' <=> StreamAgrees)
  BY <1>1 DEF StreamTypes, HeldFits, StreamAgrees
<1> QED BY <1>1, <1>2, Zenon DEF StreamFits

LEMMA SignedSame == SignedFits /\ UNCHANGED geminiVars => SignedFits'
<1> SUFFICES ASSUME SignedFits, UNCHANGED geminiVars PROVE SignedFits'
  OBVIOUS
<1>1. parts' = parts /\ sigSeen' = sigSeen /\ signed' = signed
  BY DEF geminiVars
<1>2. FirstSigned' = FirstSigned /\ (AnySigned(parts)' <=> AnySigned(parts))
  BY <1>1 DEF FirstSigned, AnySigned
<1> QED BY <1>1, <1>2 DEF SignedFits

LEMMA WireStarts == WireInit => WireInv
<1> SUFFICES ASSUME WireInit PROVE WireInv
  OBVIOUS
<1>1. /\ history = <<>> /\ wire.by = "none" /\ listing = {} /\ chain = <<>> /\ written = <<>> /\ held = <<>>
      /\ inThink = FALSE /\ content = <<>> /\ cutClose = FALSE /\ answer = "idle" /\ parts = <<>>
      /\ sigSeen = FALSE /\ signed = <<>>
  BY DEF WireInit, NothingSent
<1>2. RequestsFit
  BY <1>1 DEF RequestsFit, GeminiKeepsOrder, OpenAiFits
<1>3. AskedFits
  BY <1>1 DEF AskedFits
<1>4. StreamFits
  <2>1. <<>> \in Seq(Pieces) /\ <<>> \in Seq(Nat) /\ FALSE \in BOOLEAN
    OBVIOUS
  <2>2. StreamTypes
    BY <1>1, <2>1 DEF StreamTypes
  <2>3. StreamAgrees
    BY <1>1 DEF StreamAgrees
  <2> QED BY <1>1, <2>2, <2>3 DEF StreamFits
<1>5. SignedFits
  <2>1. CallsIn(<<>>) = 0
    <3>1. {i \in DOMAIN <<>> : <<>>[i].call} = {}
      OBVIOUS
    <3> QED BY <3>1, FS_EmptySet DEF CallsIn
  <2>2. ~AnySigned(<<>>)
    BY DEF AnySigned
  <2>3. <<>> \in Seq(GeminiParts) /\ <<>> \in Seq(BOOLEAN) /\ Len(<<>>) = 0 /\ 1 .. 0 = {} /\ FALSE \in BOOLEAN
    OBVIOUS
  <2>4. ~AnySigned(parts) /\ Len(signed) = CallsIn(parts)
    BY <1>1, <2>1, <2>2, <2>3
  <2> QED BY <1>1, <2>3, <2>4 DEF SignedFits
<1> QED BY <1>2, <1>3, <1>4, <1>5 DEF WireInv

LEMMA TextEventsAre == ASSUME NEW room, NEW e \in TextEvents(room) PROVE e \in Seq(Pieces) /\ e # <<>>
<1>1. PICK n \in 1 .. room : e \in [1 .. n -> Pieces]
  BY DEF TextEvents
<1>2. n \in Nat /\ n > 0
  OBVIOUS
<1> QED BY <1>1, <1>2

LEMMA GeminiEventsAre == ASSUME NEW room, NEW ps \in GeminiEvents(room) PROVE ps \in Seq(GeminiParts)
<1>1. PICK n \in 1 .. room : ps \in [1 .. n -> GeminiParts]
  BY DEF GeminiEvents, GeminiParts
<1>2. n \in Nat
  OBVIOUS
<1> QED BY <1>1, <1>2

LEMMA WireStep == WireInv /\ [WireNext]_wireVars => WireInv'
<1> SUFFICES ASSUME WireInv, [WireNext]_wireVars PROVE WireInv'
  OBVIOUS
<1>1. RequestsFit /\ AskedFits /\ StreamFits /\ SignedFits
  BY DEF WireInv
<1>2. CASE RequestNext
  <2>1. UNCHANGED <<listing, chain>> /\ UNCHANGED answerVars /\ UNCHANGED geminiVars
    BY <1>2 DEF RequestNext, AddMessage, OpenAiRequest, OllamaRequest, GeminiRequest, AnthropicRequest
  <2>2. RequestsFit'
    BY <1>1, <1>2, OpenAiKeeps, GeminiKeeps, OtherRequestsKeep DEF RequestNext
  <2>3. AskedFits' /\ StreamFits' /\ SignedFits'
    BY <1>1, <2>1, AskedSame, StreamSame, SignedSame DEF answerVars
  <2> QED BY <2>2, <2>3 DEF WireInv
<1>3. CASE AnswerNext
  <2>1. UNCHANGED requestVars /\ UNCHANGED geminiVars
    BY <1>3 DEF AnswerNext, ChatAnswer, StreamBegin, StreamEnd, ContentDelta, ToolCallDelta
  <2>6. StreamFits'
    <3>1. CASE \E t \in TextEvents(MaxPieces) : ChatAnswer(t)
      BY <1>1, <3>1, TextEventsAre, ChatAnswerKeeps
    <3>2. CASE StreamBegin \/ StreamEnd
      BY <1>1, <3>2, StreamBeginKeeps, StreamEndKeeps
    <3>3. CASE \E e \in TextEvents(MaxPieces - Len(written)) : ContentDelta(e)
      BY <1>1, <3>3, TextEventsAre, ContentDeltaKeeps
    <3>4. CASE \E i \in 1 .. 2 : ToolCallDelta(i)
      <4>1. UNCHANGED <<written, held, inThink, content, cutClose, answer>>
        BY <3>4 DEF ToolCallDelta
      <4> QED BY <1>1, <4>1, StreamSame
    <3> QED BY <1>3, <3>1, <3>2, <3>3, <3>4 DEF AnswerNext
  <2>7. RequestsFit' /\ AskedFits' /\ SignedFits'
    BY <1>1, <2>1, RequestsSame, AskedSame, SignedSame DEF requestVars
  <2> QED BY <2>6, <2>7 DEF WireInv
<1>4. CASE GeminiNext
  <2>1. PICK ps \in GeminiEvents(MaxPieces - Len(parts)) : GeminiEvent(ps)
    BY <1>4 DEF GeminiNext
  <2>2. SignedFits'
    BY <1>1, <2>1, GeminiEventsAre, GeminiEventKeeps
  <2>3. UNCHANGED requestVars /\ UNCHANGED answerVars
    BY <2>1 DEF GeminiEvent
  <2>4. RequestsFit' /\ AskedFits' /\ StreamFits'
    BY <1>1, <2>3, RequestsSame, AskedSame, StreamSame DEF requestVars, answerVars
  <2> QED BY <2>2, <2>4 DEF WireInv
<1>5. CASE ModelNext
  <2>1. UNCHANGED <<history, wire>> /\ UNCHANGED answerVars /\ UNCHANGED geminiVars
    BY <1>5 DEF ModelNext, CreateKiloCode, AskModel
  <2>2. AskedFits'
    BY <1>1, <1>5, CreateKiloCodeKeeps, AskModelKeeps DEF ModelNext
  <2>3. RequestsFit' /\ StreamFits' /\ SignedFits'
    BY <1>1, <2>1, RequestsSame, StreamSame, SignedSame DEF answerVars
  <2> QED BY <2>2, <2>3 DEF WireInv
<1>6. CASE UNCHANGED wireVars
  BY <1>1, <1>6, RequestsSame, AskedSame, StreamSame, SignedSame DEF WireInv, wireVars, requestVars, answerVars
<1> QED BY <1>2, <1>3, <1>4, <1>5, <1>6 DEF WireNext

(* What a provider is sent is the conversation, in its order and as much   *)
(* of it as fits, no model is asked twice, and what is shown of an answer  *)
(* does not depend on how it was cut into events but where `StreamAgrees`  *)
(* and `SignedAgrees` say so - however long histories and texts may be.    *)
THEOREM ConversationIsKept == WireSpec => []WireIsFaithful
<1>1. WireInv => WireIsFaithful
  BY AskedOnceEach, SignedIs DEF WireInv, RequestsFit, StreamFits, WireIsFaithful
<1> QED BY <1>1, WireStarts, WireStep, PTL DEF WireSpec
====

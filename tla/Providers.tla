------------------------------ MODULE Providers ------------------------------
(***************************************************************************)
(* Concurrent model calls through the chain of src/providers/: the         *)
(* FallbackProvider tries the providers in turn; each is a                 *)
(* ReliableProvider, which retries and keeps a circuit breaker that all    *)
(* calls share.  A call is a thread of its own.                            *)
(*                                                                         *)
(* The breaker's operations are sections of its mutex; between the check   *)
(* that admits a request and the record of its outcome other calls move    *)
(* the breaker.  Waits (backoff, retry-after) only delay the next step.    *)
(* Errors are told apart by what the chain does with them.  With a single  *)
(* provider the factory leaves the FallbackProvider out, which shows only  *)
(* in streams.                                                             *)
(***************************************************************************)
EXTENDS Naturals

CONSTANTS
  Calls,      \* threads that call the model
  N,          \* how many providers are configured
  Threshold,  \* failure_threshold
  MaxRetries  \* max_total of the SharedRetryState

ASSUME NAssumption == N \in Nat \ {0}
ASSUME ThresholdAssumption == Threshold \in Nat \ {0}
ASSUME RetriesAssumption == MaxRetries \in Nat

Providers == 1 .. N

(* retry: RateLimit, Network, ContextOverflow; switch: Quota,              *)
(* CreditExhausted, ModelDown; auth: Auth; stop: Unknown.                  *)
ErrorKind == {"retry", "switch", "auth", "stop"}
IsRetryable(kind) == kind = "retry"
NeedsFallback(kind) == kind \in {"switch", "auth"}

VARIABLES
  breaker,   \* CircuitBreakerState.state of each provider
  failures,  \* its failures, counted up to Threshold
  cooled,    \* cooldown_duration has passed since its last_failure_time
  up,        \* the provider serves the requests that reach it now
  pc,        \* idle, at the check of the breaker, or waiting for an answer,
             \* which the provider has already decided: served or failing
  stream,    \* the call is in chat_stream's own attempt
  at,        \* the provider it is at
  attempts,  \* total_attempts of its SharedRetryState
  error,     \* what the call ended with: none, or the kind of its error
  asked      \* history: requests it has sent

breakerVars == <<breaker, failures, cooled>>
callVars == <<pc, stream, at, attempts, error, asked>>
vars == <<breakerVars, up, callVars>>

Init ==
  /\ breaker = [p \in Providers |-> "closed"]
  /\ failures = [p \in Providers |-> 0]
  /\ cooled = [p \in Providers |-> FALSE]
  /\ up \in [Providers -> BOOLEAN]
  /\ pc = [c \in Calls |-> "idle"]
  /\ stream = [c \in Calls |-> FALSE]
  /\ at = [c \in Calls |-> 1]
  /\ attempts = [c \in Calls |-> 0]
  /\ error = [c \in Calls |-> "none"]
  /\ asked = [c \in Calls |-> 0]

-----------------------------------------------------------------------------
(* CircuitBreaker.                                                         *)

Admits(p) == breaker[p] # "open" \/ cooled[p]

Attempt(p) ==
  /\ breaker' = [breaker EXCEPT ![p] = IF @ = "open" THEN "half_open" ELSE @]
  /\ UNCHANGED <<failures, cooled>>

(* A slip: the counter starts anew, the state does not. *)
RecordSuccessCountOnly(p) ==
  /\ failures' = [failures EXCEPT ![p] = 0]
  /\ UNCHANGED <<breaker, cooled>>

RecordSuccess(p) ==
  /\ failures' = [failures EXCEPT ![p] = 0]
  /\ breaker' = [breaker EXCEPT ![p] = "closed"]
  /\ UNCHANGED cooled

(* A slip: only a failure of a half-open breaker's request opens it.       *)
OpensWhenProbed(p, count) == breaker[p] = "half_open"
Opens(p, count) == count >= Threshold \/ breaker[p] = "half_open"

RecordFailure(p) ==
  LET count == IF failures[p] < Threshold THEN failures[p] + 1 ELSE failures[p]
  IN /\ failures' = [failures EXCEPT ![p] = count]
     /\ cooled' = [cooled EXCEPT ![p] = FALSE]
     /\ breaker' = IF Opens(p, count) THEN [breaker EXCEPT ![p] = "open"] ELSE breaker

(* The cooldown is looked at only while the breaker is open. *)
CoolsDown(p) ==
  /\ breaker[p] = "open" /\ ~cooled[p]
  /\ cooled' = [cooled EXCEPT ![p] = TRUE]
  /\ UNCHANGED <<breaker, failures, up, callVars>>

-----------------------------------------------------------------------------
(* A call, from chat, chat_with_retry or chat_stream of the chain.         *)

Begin(c, streams) ==
  /\ pc[c] = "idle"
  /\ pc' = [pc EXCEPT ![c] = "check"]
  /\ stream' = [stream EXCEPT ![c] = streams]
  /\ error' = [error EXCEPT ![c] = "none"]
  /\ UNCHANGED <<breakerVars, up, at, attempts, asked>>

(* The call returns: what it kept on its stack is gone. *)
Ends(c, with) ==
  /\ pc' = [pc EXCEPT ![c] = "idle"]
  /\ stream' = [stream EXCEPT ![c] = FALSE]
  /\ at' = [at EXCEPT ![c] = 1]
  /\ attempts' = [attempts EXCEPT ![c] = 0]
  /\ asked' = [asked EXCEPT ![c] = 0]
  /\ error' = [error EXCEPT ![c] = with]

CanRetry(c) == attempts[c] < MaxRetries

(* A slip: each provider has a retry state of its own. *)
NextProviderAfresh(c, kind) ==
  IF at[c] < N
  THEN /\ pc' = [pc EXCEPT ![c] = "check"]
       /\ at' = [at EXCEPT ![c] = @ + 1]
       /\ attempts' = [attempts EXCEPT ![c] = 0]
       /\ UNCHANGED <<stream, asked, error>>
  ELSE Ends(c, kind)

(* The next provider, if the call has retries left. *)
NextProvider(c, kind) ==
  IF at[c] < N /\ CanRetry(c)
  THEN /\ pc' = [pc EXCEPT ![c] = "check"]
       /\ at' = [at EXCEPT ![c] = @ + 1]
       /\ UNCHANGED <<stream, attempts, asked, error>>
  ELSE Ends(c, kind)

(* A slip: the call still counts as a stream. *)
StreamFailsAgain(c, kind) ==
  IF N > 1 /\ (IsRetryable(kind) \/ NeedsFallback(kind))
  THEN /\ pc' = [pc EXCEPT ![c] = "check"]
       /\ UNCHANGED <<stream, at, attempts, asked, error>>
  ELSE Ends(c, kind)

(* A stream that fails is not streamed again: the chain begins anew with   *)
(* the first provider and a fresh retry state.                             *)
StreamFails(c, kind) ==
  IF N > 1 /\ (IsRetryable(kind) \/ NeedsFallback(kind))
  THEN /\ pc' = [pc EXCEPT ![c] = "check"]
       /\ stream' = [stream EXCEPT ![c] = FALSE]
       /\ UNCHANGED <<at, attempts, asked, error>>
  ELSE Ends(c, kind)

(* A slip: a rate limit or a network error ends the chain. *)
SwitchesOnSwitch(kind) == kind = "switch"
Switches(kind) == kind \in {"retry", "switch"}

(* What the FallbackProvider does with an error of a ReliableProvider. *)
FallOn(c, kind) ==
  IF stream[c] THEN StreamFails(c, kind)
  ELSE IF Switches(kind) THEN NextProvider(c, kind) ELSE Ends(c, kind)

(* A slip: a refused call waits for the breaker. *)
RefusedWaits(c) == UNCHANGED callVars
(* The refusal's message has no status, which is taken for a network error. *)
Refused(c) == FallOn(c, "retry")

Check(c) ==
  /\ pc[c] = "check"
  /\ IF Admits(at[c])
     THEN /\ Attempt(at[c])
          /\ pc' = [pc EXCEPT ![c] = IF up[at[c]] THEN "served" ELSE "failing"]
          /\ asked' = [asked EXCEPT ![c] = @ + 1]
          /\ UNCHANGED <<stream, at, attempts, error>>
     ELSE Refused(c) /\ UNCHANGED breakerVars
  /\ UNCHANGED up

Succeeds(c) ==
  /\ pc[c] = "served"
  /\ RecordSuccess(at[c])
  /\ Ends(c, "none")
  /\ UNCHANGED up

(* ReliableProvider retries, unless it streams. *)
Fails(c, kind) ==
  /\ pc[c] = "failing"
  /\ RecordFailure(at[c])
  /\ IF ~stream[c] /\ IsRetryable(kind) /\ CanRetry(c)
     THEN /\ pc' = [pc EXCEPT ![c] = "check"]
          /\ attempts' = [attempts EXCEPT ![c] = @ + 1]
          /\ UNCHANGED <<stream, at, error, asked>>
     ELSE FallOn(c, kind)
  /\ UNCHANGED up

-----------------------------------------------------------------------------
(* The providers' services come and go. *)
Turns(p) ==
  /\ up' = [up EXCEPT ![p] = ~@]
  /\ UNCHANGED <<breakerVars, callVars>>

Answered(c) == Succeeds(c) \/ \E kind \in ErrorKind : Fails(c, kind)
Proceeds(c) == Check(c) \/ Answered(c)
BeginAny(c) == \E streams \in BOOLEAN : Begin(c, streams)

Next ==
  \/ \E c \in Calls : BeginAny(c) \/ Proceeds(c)
  \/ \E p \in Providers : CoolsDown(p) \/ Turns(p)

Spec == Init /\ [][Next]_vars

(* Threads run, requests end (HTTP timeouts), time passes and the agents   *)
(* keep calling.                                                           *)
FairSpec ==
  /\ Spec
  /\ \A c \in Calls : WF_vars(Proceeds(c)) /\ WF_vars(BeginAny(c))
  /\ \A p \in Providers : WF_vars(CoolsDown(p))

-----------------------------------------------------------------------------
(* Types; a call in its own stream attempt is at the first provider and    *)
(* has sent nothing but that.                                              *)
TypeOK ==
  /\ breaker \in [Providers -> {"closed", "open", "half_open"}]
  /\ failures \in [Providers -> 0 .. Threshold]
  /\ cooled \in [Providers -> BOOLEAN]
  /\ up \in [Providers -> BOOLEAN]
  /\ pc \in [Calls -> {"idle", "check", "served", "failing"}]
  /\ stream \in [Calls -> BOOLEAN]
  /\ at \in [Calls -> Providers]
  /\ attempts \in [Calls -> 0 .. MaxRetries]
  /\ error \in [Calls -> ErrorKind \cup {"none"}]
  /\ asked \in [Calls -> Nat]
  /\ \A c \in Calls : stream[c] => at[c] = 1 /\ attempts[c] = 0 /\ asked[c] <= 1

(* The breaker blocks exactly from the failure that makes the count reach  *)
(* the threshold to the next success, whatever late outcomes arrive in     *)
(* between; so the count of a breaker that is not closed is never low.     *)
BreakerAgrees == \A p \in Providers : breaker[p] = "closed" <=> failures[p] < Threshold

(* "shared retry state across fallback chain": a call sends one request    *)
(* per provider at most, plus its retries, however many providers there    *)
(* are, plus one if it began as a stream.                                  *)
RetriesShared == \A c \in Calls : asked[c] <= at[c] + attempts[c] + 1

(* A call gives up on an error that another provider might not have only   *)
(* when it has no provider or no retry left.                               *)
GivesUpLate ==
  [][\A c \in Calls :
       pc[c] # "idle" /\ pc'[c] = "idle" /\ ~stream[c] /\ error'[c] \in {"retry", "switch"} =>
         at[c] = N \/ attempts[c] = MaxRetries]_vars

(* Every call ends. *)
CallsEnd == \A c \in Calls : pc[c] # "idle" ~> pc[c] = "idle"

(* When the first provider works again for good, its breaker closes and    *)
(* stays so, whatever outcomes of earlier requests are still to come.      *)
Recovers == <>[](up[1]) => <>[](breaker[1] = "closed")
=============================================================================

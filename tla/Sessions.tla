------------------------------ MODULE Sessions ------------------------------
(***************************************************************************)
(* The session manager (session.rs): an agent per session key, created at  *)
(* its first message, a tokio mutex that takes the turns of a session one  *)
(* after the other, and after every fifth turn an analysis of the          *)
(* conversation (dialectic.rs) that rewrites the user's profile.           *)
(*                                                                         *)
(* A message is told by the task that carries it; a profile by the         *)
(* sessions whose findings it holds.  last_active is written and never     *)
(* used (nothing calls evict_idle), so it is left out.                     *)
(***************************************************************************)
EXTENDS Integers, FiniteSets

CONSTANTS Handlers,       \* tasks that process a message
          SessionKeys,        \* session keys
          Profiles,    \* named agents of the configuration
          NoAgent,
          MaxTurns     \* bound on the turns of a session

ASSUME SessionsAssumption == "free" \notin Handlers

VARIABLES agentOf,     \* the agent each session was created with, or NoAgent
          task,        \* what each task is doing
          turnLock,    \* the task that holds a session's agent mutex, or "free"
          turnCount,   \* turn_count of each session
          analyses,    \* history: analyses spawned for each session
          running,     \* the analysis under way for a session: what it has read
          profile      \* DIALECTIC.md

sessVars == <<agentOf, task, turnLock, turnCount, analyses, running, profile>>

Asleep == [phase |-> "none"]

SessionsInit ==
  /\ agentOf = [k \in SessionKeys |-> NoAgent]
  /\ task = [t \in Handlers |-> Asleep]
  /\ turnLock = [k \in SessionKeys |-> "free"]
  /\ turnCount = [k \in SessionKeys |-> 0]
  /\ analyses = [k \in SessionKeys |-> 0]
  /\ running = [k \in SessionKeys |-> {}]
  /\ profile = {}

\* get_or_create: a session keeps the agent of its first message, whatever
\* agent the route of a later one names.
GetOrCreate(t) ==
  /\ task[t] = Asleep
  /\ \E k \in SessionKeys, a \in Profiles :
       /\ turnCount[k] < MaxTurns
       /\ agentOf' = [agentOf EXCEPT ![k] = IF @ = NoAgent THEN a ELSE @]
       /\ task' = [task EXCEPT ![t] = [phase |-> "waiting", key |-> k]]
  /\ UNCHANGED <<turnLock, turnCount, analyses, running, profile>>

LockAgent(t) ==
  /\ task[t].phase = "waiting"
  /\ turnLock[task[t].key] = "free"
  /\ turnLock' = [turnLock EXCEPT ![task[t].key] = t]
  /\ task' = [task EXCEPT ![t].phase = "turn"]
  /\ UNCHANGED <<agentOf, turnCount, analyses, running, profile>>

\* A turn that fails returns through `?` and is not counted.
TurnFails(t) ==
  /\ task[t].phase = "turn"
  /\ turnLock' = [turnLock EXCEPT ![task[t].key] = "free"]
  /\ task' = [task EXCEPT ![t] = Asleep]
  /\ UNCHANGED <<agentOf, turnCount, analyses, running, profile>>

(* A slip: the agent is let go of before the count is read. *)
CountTurnUnlocked(t) ==
  /\ task[t].phase = "turn"
  /\ turnCount' = [turnCount EXCEPT ![task[t].key] = @ + 1]
  /\ turnLock' = [turnLock EXCEPT ![task[t].key] = "free"]
  /\ task' = [task EXCEPT ![t].phase = "counted"]
  /\ UNCHANGED <<agentOf, analyses, running, profile>>

\* fetch_add, with the agent still locked.
CountTurn(t) ==
  /\ task[t].phase = "turn"
  /\ turnCount' = [turnCount EXCEPT ![task[t].key] = @ + 1]
  /\ task' = [task EXCEPT ![t].phase = "counted"]
  /\ UNCHANGED <<agentOf, turnLock, analyses, running, profile>>

\* The count is loaded in a second step; the guard is dropped at the return.
MaybeAnalyse(t) ==
  /\ task[t].phase = "counted"
  /\ LET k == task[t].key
         due == turnCount[k] % 5 = 0
     IN /\ analyses' = [analyses EXCEPT ![k] = IF due THEN @ + 1 ELSE @]
        /\ running' = [running EXCEPT ![k] =
                         IF due THEN @ \union {[read |-> FALSE, saw |-> {}]} ELSE @]
        /\ turnLock' = [turnLock EXCEPT ![k] = "free"]
  /\ task' = [task EXCEPT ![t] = Asleep]
  /\ UNCHANGED <<agentOf, turnCount, profile>>

\* analyze_session reads the profile, asks the model, ...
AnalysisRead(k) ==
  \E a \in running[k] :
    /\ ~a.read
    /\ running' = [running EXCEPT ![k] =
                     (@ \ {a}) \union {[read |-> TRUE, saw |-> profile]}]
    /\ UNCHANGED <<agentOf, task, turnLock, turnCount, analyses, profile>>

\* ... and writes its answer over the file, unless there is none, or it is
\* what was read.
AnalysisEnds(k) ==
  \E a \in running[k] :
    /\ a.read
    /\ running' = [running EXCEPT ![k] = @ \ {a}]
    /\ \/ UNCHANGED profile
       \/ profile' = a.saw \union {k}
    /\ UNCHANGED <<agentOf, task, turnLock, turnCount, analyses>>

SessionsNext ==
  \/ \E t \in Handlers : \/ GetOrCreate(t) \/ LockAgent(t) \/ TurnFails(t)
                      \/ CountTurn(t) \/ MaybeAnalyse(t)
  \/ \E k \in SessionKeys : AnalysisRead(k) \/ AnalysisEnds(k)

SessionsSpec == SessionsInit /\ [][SessionsNext]_sessVars

-----------------------------------------------------------------------------
\* A session is analysed once for every five turns it has finished, never
\* twice for one turn and never past one: the count is raised and read in
\* two atomic steps that no other turn of the session comes between.
AnalysedEveryFive ==
  \A k \in SessionKeys :
    analyses[k] =
      (turnCount[k] - Cardinality({t \in Handlers : task[t].phase = "counted"
                                                  /\ task[t].key = k})) \div 5
=============================================================================

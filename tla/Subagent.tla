------------------------------ MODULE Subagent ------------------------------
(***************************************************************************)
(* The background-task pool of src/subagent.rs.  A SubagentManager keeps a *)
(* map of task records and a FIFO of tasks waiting for a slot, each behind *)
(* a mutex.  One step below is one critical section of `tasks`; between    *)
(* two sections every other thread may run, which is where drain_pending   *)
(* can be interrupted.  The threads are                                    *)
(*   - callers of spawn_with_agent and cancel_task,                        *)
(*   - one tokio task ("body") per started subagent, which runs the turn,  *)
(*     records the outcome and drains the queue, unless the turn panics,   *)
(*   - the supervisor thread, which calls monitor_tick every minute.       *)
(* The supervisor is a plain thread outside the tokio runtime: a spawn     *)
(* from its drain panics.  The unwinding build is modelled, where only the *)
(* thread dies; the release profile (panic = "abort") stops the process    *)
(* there, so its behaviours are prefixes of the ones below.                *)
(***************************************************************************)
EXTENDS Naturals, Sequences, FiniteSets

CONSTANTS
  MaxConcurrent,  \* SubagentConfig.max_concurrent
  MaxTasks        \* bound of the model: how many task ids are handed out

ASSUME SlotsAssumption == MaxConcurrent \in Nat \ {0}
ASSUME TasksAssumption == MaxTasks \in Nat

Ids == 1 .. MaxTasks
NoTask == 0
Supervisor == 0                     \* the thread id of the supervisor
Threads == Ids \cup {Supervisor}    \* a body's thread id is its task's id

Status == {"absent", "queued", "running", "completed", "failed", "cancelled"}
Terminal == {"completed", "failed", "cancelled"}
Notice == {"queued", "completed", "failed", "timedout", "cancelled"}
BodyState == {"none", "working", "aborting", "draining", "gone", "panicked"}
DrainState == {"idle", "pop", "check", "promote", "spawn", "store", "dead"}

VARIABLES
  nextId,    \* the next task id
  status,    \* TaskState.status; "absent" when the map has no record
  silent,    \* TaskState.suppress_report
  handle,    \* whether TaskState.abort_handle is Some
  overdue,   \* tasks for which now > started_at + 3600
  pending,   \* the queue of waiting task ids
  body,      \* the tokio task of each subagent
  pc,        \* where each thread is in drain_pending
  held,      \* the task a draining thread has popped
  notices    \* what was published to the origin channel about each task

records == <<nextId, status, silent, handle, overdue, notices>>
vars == <<nextId, status, silent, handle, overdue, pending, body, pc, held, notices>>

Running == {id \in Ids : status[id] = "running"}
SlotFree == Cardinality(Running) < MaxConcurrent

InQueue(id) == \E i \in 1 .. Len(pending) : pending[i] = id

(* Publishing to the bus while the `tasks` lock is held. *)
Publish(id, notice) == notices' = [notices EXCEPT ![id] = Append(@, notice)]
(* A slip to be noticed: only silent tasks report. *)
SilentOnlyPublish(id, notice) ==
  IF silent[id] THEN Publish(id, notice) ELSE UNCHANGED notices
PublishUnlessSilent(id, notice) ==
  IF silent[id] THEN UNCHANGED notices ELSE Publish(id, notice)

Init ==
  /\ nextId = 1
  /\ status = [id \in Ids |-> "absent"]
  /\ silent = [id \in Ids |-> FALSE]
  /\ handle = [id \in Ids |-> FALSE]
  /\ overdue = {}
  /\ pending = <<>>
  /\ body = [id \in Ids |-> "none"]
  /\ pc = [t \in Threads |-> "idle"]
  /\ held = [t \in Threads |-> NoTask]
  /\ notices = [id \in Ids |-> <<>>]

-----------------------------------------------------------------------------
(* spawn_with_agent_internal: one critical section. *)

(* At capacity the task is queued, whatever profile it names. *)
SpawnQueued(quiet) ==
  /\ nextId \in Ids
  /\ ~SlotFree
  /\ nextId' = nextId + 1
  /\ pending' = Append(pending, nextId)
  /\ status' = [status EXCEPT ![nextId] = "queued"]
  /\ silent' = [silent EXCEPT ![nextId] = quiet]
  /\ IF quiet THEN UNCHANGED notices ELSE Publish(nextId, "queued")
  /\ UNCHANGED <<handle, overdue, body, pc, held>>

(* A slip: the id counter is not advanced. *)
LaunchKeepsId(quiet) ==
  /\ nextId \in Ids
  /\ SlotFree
  /\ UNCHANGED nextId
  /\ status' = [status EXCEPT ![nextId] = "running"]
  /\ silent' = [silent EXCEPT ![nextId] = quiet]
  /\ handle' = [handle EXCEPT ![nextId] = TRUE]
  /\ body' = [body EXCEPT ![nextId] = "working"]
  /\ UNCHANGED <<overdue, pending, pc, held, notices>>

(* With a free slot launch_task_locked inserts the record, spawns the body *)
(* and stores its abort handle under the same lock.                        *)
SpawnLaunched(quiet) ==
  /\ nextId \in Ids
  /\ SlotFree
  /\ nextId' = nextId + 1
  /\ status' = [status EXCEPT ![nextId] = "running"]
  /\ silent' = [silent EXCEPT ![nextId] = quiet]
  /\ handle' = [handle EXCEPT ![nextId] = TRUE]
  /\ body' = [body EXCEPT ![nextId] = "working"]
  /\ UNCHANGED <<overdue, pending, pc, held, notices>>

(* An unknown agent profile is refused after the id is taken: the record is *)
(* inserted and removed again.                                              *)
SpawnRefused ==
  /\ nextId \in Ids
  /\ SlotFree
  /\ nextId' = nextId + 1
  /\ UNCHANGED <<status, silent, handle, overdue, pending, body, pc, held, notices>>

-----------------------------------------------------------------------------
(* cancel_task: one critical section.  A handle is an abort request; tokio *)
(* honours it only where the body awaits, so a body past its turn ignores  *)
(* it.                                                                     *)

RequestAbort(id) ==
  body' = [body EXCEPT ![id] = IF handle[id] /\ @ = "working" THEN "aborting" ELSE @]

(* A slip: the cancelled task stays in the queue. *)
LeaveInQueue(id) == UNCHANGED pending
RemoveFromQueue(id) ==      \* an id is queued at most once
  \/ /\ ~InQueue(id)
     /\ UNCHANGED pending
  \/ \E k \in 1 .. Len(pending) :
       /\ pending[k] = id
       /\ pending' = [i \in 1 .. Len(pending) - 1 |-> IF i < k THEN pending[i] ELSE pending[i + 1]]

CancelQueued(id) ==
  /\ status[id] = "queued"
  /\ RemoveFromQueue(id)
  /\ status' = [status EXCEPT ![id] = "cancelled"]
  /\ UNCHANGED <<nextId, silent, handle, overdue, body, pc, held, notices>>

CancelRunning(id) ==
  /\ status[id] = "running"
  /\ RequestAbort(id)
  /\ handle' = [handle EXCEPT ![id] = FALSE]
  /\ status' = [status EXCEPT ![id] = "cancelled"]
  /\ Publish(id, "cancelled")
  /\ UNCHANGED <<nextId, silent, overdue, pending, pc, held>>

-----------------------------------------------------------------------------
(* The body of a subagent. *)

(* A slip: the body's guard is forgotten. *)
NeverCancelled(id) == FALSE
IsCancelled(id) == status[id] = "cancelled"

(* A slip: the body ends without draining. *)
EndWithoutDrain(id) == body' = [body EXCEPT ![id] = "gone"] /\ UNCHANGED pc
BeginDrain(id) ==
  /\ body' = [body EXCEPT ![id] = "draining"]
  /\ pc' = [pc EXCEPT ![id] = "pop"]

(* agent.turn has returned and the body takes the lock: a cancelled task   *)
(* ends the body at once, any other status is overwritten with the outcome *)
(* and the body goes on to drain_pending.                                  *)
TurnReturns(id, outcome) ==
  /\ body[id] \in {"working", "aborting"}
  /\ \/ /\ IsCancelled(id)
        /\ body' = [body EXCEPT ![id] = "gone"]
        /\ UNCHANGED <<status, pc, notices>>
     \/ /\ ~IsCancelled(id)
        /\ status' = [status EXCEPT ![id] = outcome]
        /\ PublishUnlessSilent(id, outcome)
        /\ BeginDrain(id)
  /\ UNCHANGED <<nextId, silent, handle, overdue, pending, held>>

(* A turn that panics ends its body there: tokio catches the panic and     *)
(* nobody joins the body, so the record keeps its status and its handle,   *)
(* and nothing is reported or drained.                                     *)
TurnPanics(id) ==
  /\ body[id] \in {"working", "aborting"}
  /\ body' = [body EXCEPT ![id] = "panicked"]
  /\ UNCHANGED <<nextId, status, silent, handle, overdue, pending, pc, held, notices>>

(* An aborted body is dropped at its next await. *)
AbortTakesEffect(id) ==
  /\ body[id] = "aborting"
  /\ body' = [body EXCEPT ![id] = "gone"]
  /\ UNCHANGED <<nextId, status, silent, handle, overdue, pending, pc, held, notices>>

-----------------------------------------------------------------------------
(* monitor_tick, on the supervisor thread. *)

HourPasses(id) ==
  /\ status[id] = "running"
  /\ id \notin overdue
  /\ overdue' = overdue \cup {id}
  /\ UNCHANGED <<nextId, status, silent, handle, pending, body, pc, held, notices>>

(* Two slips: tasks that have ended time out as well; silent ones do not. *)
EveryOverdue == overdue
TimedOutLoud == {id \in overdue : status[id] = "running" /\ ~silent[id]}
TimedOut == {id \in overdue : status[id] = "running"}

(* A slip: silent tasks are aborted and not failed. *)
FailLoud(S) ==
  status' = [id \in Ids |-> IF id \in S /\ ~silent[id] THEN "failed" ELSE status[id]]
Fail(S) == status' = [id \in Ids |-> IF id \in S THEN "failed" ELSE status[id]]

(* Every overdue running task is aborted and failed in one section, then   *)
(* the supervisor goes on to drain_pending.                                *)
MonitorTick ==
  /\ pc[Supervisor] = "idle"
  /\ body' = [id \in Ids |->
       IF id \in TimedOut /\ handle[id] /\ body[id] = "working" THEN "aborting" ELSE body[id]]
  /\ handle' = [id \in Ids |-> handle[id] /\ id \notin TimedOut]
  /\ Fail(TimedOut)
  /\ notices' = [id \in Ids |->
       IF id \in TimedOut /\ ~silent[id] THEN Append(notices[id], "timedout") ELSE notices[id]]
  /\ pc' = [pc EXCEPT ![Supervisor] = "pop"]
  /\ UNCHANGED <<nextId, silent, overdue, pending, held>>

-----------------------------------------------------------------------------
(* drain_pending, called by a body after its turn and by the supervisor.   *)

DrainGoto(t, next, task) ==
  /\ pc' = [pc EXCEPT ![t] = next]
  /\ held' = [held EXCEPT ![t] = task]

(* A slip: the front is read and not removed. *)
PeekFront == UNCHANGED pending
PopFront == pending' = Tail(pending)

(* First section: leave when no slot is free or nothing waits, else pop. *)
DrainPop(t) ==
  /\ pc[t] = "pop"
  /\ IF SlotFree /\ pending # <<>>
     THEN /\ DrainGoto(t, "check", Head(pending))
          /\ PopFront
          /\ UNCHANGED body
     ELSE /\ DrainGoto(t, "idle", NoTask)
          /\ body' = [id \in Ids |-> IF id = t THEN "gone" ELSE body[id]]
          /\ UNCHANGED pending
  /\ UNCHANGED records

(* Second section: is the popped task still queued? *)
DrainCheck(t) ==
  /\ pc[t] = "check"
  /\ IF status[held[t]] = "queued"
     THEN DrainGoto(t, "promote", held[t])
     ELSE DrainGoto(t, "pop", NoTask)
  /\ UNCHANGED <<records, pending, body>>

(* Third section: the transition to running tests nothing again. *)
DrainPromote(t) ==
  /\ pc[t] = "promote"
  /\ status' = [status EXCEPT ![held[t]] = "running"]
  /\ overdue' = overdue \ {held[t]}
  /\ DrainGoto(t, "spawn", held[t])
  /\ UNCHANGED <<nextId, silent, handle, pending, body, notices>>

(* tokio::spawn, outside every lock: it needs a runtime, which a body has  *)
(* and the supervisor thread does not.                                     *)
DrainSpawn(t) ==
  /\ pc[t] = "spawn"
  /\ IF t = Supervisor
     THEN /\ DrainGoto(t, "dead", held[t])
          /\ UNCHANGED body
     ELSE /\ DrainGoto(t, "store", held[t])
          /\ body' = [body EXCEPT ![held[t]] = "working"]
  /\ UNCHANGED <<records, pending>>

(* Last section: the abort handle of the new body is stored. *)
DrainStore(t) ==
  /\ pc[t] = "store"
  /\ handle' = [handle EXCEPT ![held[t]] = TRUE]
  /\ DrainGoto(t, "pop", NoTask)
  /\ UNCHANGED <<nextId, status, silent, overdue, pending, body, notices>>

DrainStep(t) ==
  DrainPop(t) \/ DrainCheck(t) \/ DrainPromote(t) \/ DrainSpawn(t) \/ DrainStore(t)

-----------------------------------------------------------------------------
Outcome == {"completed", "failed"}

Next ==
  \/ \E quiet \in BOOLEAN : SpawnQueued(quiet)
  \/ \E quiet \in BOOLEAN : SpawnLaunched(quiet)
  \/ SpawnRefused
  \/ \E id \in Ids : CancelQueued(id)
  \/ \E id \in Ids : CancelRunning(id)
  \/ \E id \in Ids, outcome \in Outcome : TurnReturns(id, outcome)
  \/ \E id \in Ids : TurnPanics(id)
  \/ \E id \in Ids : AbortTakesEffect(id)
  \/ \E id \in Ids : HourPasses(id)
  \/ MonitorTick
  \/ \E t \in Threads : DrainStep(t)

Spec == Init /\ [][Next]_vars

(* A thread in drain_pending never blocks: it runs on.  A requested abort  *)
(* takes effect at the body's next await unless the turn returns first.    *)
FairThreads ==
  /\ \A t \in Threads : WF_vars(DrainStep(t))
  /\ \A id \in Ids : WF_vars(AbortTakesEffect(id))

(* Every turn that does not panic returns: its tool iterations and provider *)
(* attempts are capped.                                                    *)
FairTurns == \A id \in Ids : WF_vars(\E outcome \in Outcome : TurnReturns(id, outcome))

(* Time passes and the supervisor, while alive, ticks every minute. *)
FairClock == (\A id \in Ids : WF_vars(HourPasses(id))) /\ WF_vars(MonitorTick)

FairSpec == Spec /\ FairThreads

-----------------------------------------------------------------------------
(* Invariants. *)

(* Types; ids are handed out once, so no id from nextId on is in use. *)
TypeOK ==
  /\ nextId \in Nat \ {0}
  /\ status \in [Ids -> Status]
  /\ silent \in [Ids -> BOOLEAN]
  /\ handle \in [Ids -> BOOLEAN]
  /\ overdue \subseteq Ids
  /\ pending \in Seq(Ids)
  /\ body \in [Ids -> BodyState]
  /\ pc \in [Threads -> DrainState]
  /\ held \in [Threads -> Ids \cup {NoTask}]
  /\ notices \in [Ids -> Seq(Notice)]
  /\ \A id \in Ids : id >= nextId => status[id] = "absent" /\ body[id] = "none"

(* The queue holds queued tasks only, each once; a popped task is in one   *)
(* thread's hands and no longer in the queue; and a task that is queued is *)
(* never lost: it is in the queue or a draining thread is about to start   *)
(* it (spawn, cancel and every section of drain_pending keep `tasks` and   *)
(* `pending` in step although they are two mutexes).                       *)
HeldBy(t, id) == held[t] = id /\ id # NoTask

PendingAreQueued == \A i \in 1 .. Len(pending) : status[pending[i]] = "queued"
PendingAreDistinct ==
  \A i, j \in 1 .. Len(pending) : pending[i] = pending[j] => i = j
HeldByOne == \A t, u \in Threads, id \in Ids : HeldBy(t, id) /\ HeldBy(u, id) => t = u
HeldLeftQueue == \A t \in Threads, id \in Ids : HeldBy(t, id) => ~InQueue(id)
QueuedNotLost ==
  \A id \in Ids : status[id] = "queued" =>
    InQueue(id) \/ \E t \in Threads : HeldBy(t, id) /\ pc[t] \in {"check", "promote"}

QueueConsistent ==
  PendingAreQueued /\ PendingAreDistinct /\ HeldByOne /\ HeldLeftQueue /\ QueuedNotLost

(* Where a thread is in drain_pending agrees with the task in its hands: a *)
(* task between the pop and the spawn has no body, one past the promotion  *)
(* is queued no more, and only a finished body drains.                     *)
ThreadConsistent(t) ==
  /\ pc[t] \in {"idle", "pop"} <=> held[t] = NoTask
  /\ pc[t] \in {"check", "promote"} => status[held[t]] \in {"queued", "cancelled"}
  /\ pc[t] \in {"spawn", "store", "dead"} => status[held[t]] \notin {"absent", "queued"}
  /\ pc[t] \in {"check", "promote", "spawn", "dead"} => body[held[t]] = "none"
  /\ t # Supervisor => pc[t] # "dead" /\ (pc[t] = "idle" <=> body[t] # "draining")

BodyConsistent(id) ==
  /\ status[id] \in {"absent", "queued"} => body[id] = "none"
  /\ body[id] \in {"aborting", "draining", "gone"} => status[id] \in Terminal
  /\ status[id] = "completed" => body[id] \in {"draining", "gone"}

ThreadsConsistent ==
  (\A t \in Threads : ThreadConsistent(t)) /\ (\A id \in Ids : BodyConsistent(id))

(* A task that occupies a slot has a live body, or a draining thread is    *)
(* about to spawn it, with two exceptions: a task whose turn panicked      *)
(* keeps its slot until a tick finds it overdue, and the task the          *)
(* supervisor held when its spawn panicked keeps it for ever.  No outcome, *)
(* cancellation, timeout or overtaken drain leaves such a task behind.     *)
RunningIsLive ==
  \A id \in Running :
    \/ body[id] \in {"working", "panicked"}
    \/ \E t \in Threads : HeldBy(t, id) /\ pc[t] \in {"spawn", "dead"}

(* What the origin channel reads about one task, from three threads: after *)
(* a cancellation no more, and of a task that reports, last of all, how it *)
(* ended, even when a timed-out body still returns.                        *)
CancelNoticeIsLast ==
  \A id \in Ids : \A i \in 1 .. Len(notices[id]) :
    notices[id][i] = "cancelled" => i = Len(notices[id])

LastNotice(id) == notices[id][Len(notices[id])]

LastNoticeTellsOutcome ==
  \A id \in Ids : status[id] \in {"completed", "failed"} /\ ~silent[id] =>
    /\ notices[id] # <<>>
    /\ LastNotice(id) \in IF status[id] = "completed" THEN {"completed"} ELSE {"failed", "timedout"}

ReportsInOrder == CancelNoticeIsLast /\ LastNoticeTellsOutcome

-----------------------------------------------------------------------------
(* Action properties. *)

(* No task is executed twice: once its body was spawned it is never        *)
(* spawned again, though several threads may be draining the queue.        *)
StartsOnce ==
  [][\A id \in Ids : body[id] # "none" /\ body'[id] = "working" => body[id] = "working"]_vars

(* Once a task has a body, its cancellation is final: neither the outcome  *)
(* of the turn, nor a timeout, nor a drain overwrites it.                  *)
CancelSticksOnceStarted ==
  [][\A id \in Ids : status[id] = "cancelled" /\ body[id] # "none"
                       => status'[id] = "cancelled"]_vars

-----------------------------------------------------------------------------
(* The pool as its callers see it: TaskPool, where a task counts as        *)
(* started from its promotion on.                                          *)

Started ==
  {id \in Ids : body[id] # "none" \/ \E t \in Threads : HeldBy(t, id) /\ pc[t] \in {"spawn", "dead"}}

Pool == INSTANCE TaskPool WITH Tasks <- Ids, started <- Started

(* Every step a thread takes is a step callers may rely on: each task is   *)
(* started at most once, only a started task has an outcome, and only a    *)
(* timeout is ever replaced by another outcome.                            *)
ImplementsTaskPool == Pool!PoolSpec

-----------------------------------------------------------------------------
(* Liveness. *)

NobodyCancels == [](\A id \in Ids : status[id] # "cancelled")
NoTurnPanics == [](\A id \in Ids : body[id] # "panicked")
SupervisorSurvives == [](pc[Supervisor] # "dead")

(* "will start when a slot frees up": if turns return and none panics,     *)
(* nobody cancels a task and the supervisor does not panic, every queued   *)
(* task leaves the queue without the supervisor's help, although a drain   *)
(* that finds no slot gives up.                                            *)
QueuedEventuallyStarts ==
  FairTurns /\ NoTurnPanics /\ NobodyCancels /\ SupervisorSurvives =>
    \A id \in Ids : status[id] = "queued" ~> status[id] # "queued"

(* A turn that never returns, or that panicked, does not hold its slot for *)
(* ever: as long as the supervisor lives, every running task is ended      *)
(* after an hour.                                                          *)
HungTaskEnds ==
  FairClock /\ SupervisorSurvives =>
    \A id \in Ids : status[id] = "running" ~> status[id] # "running"

-----------------------------------------------------------------------------
(* What the source says and the code does not keep. *)

(* The body: "Don't overwrite a Cancelled state set by cancel_task()".     *)
CancelledStaysCancelled ==
  [][\A id \in Ids : status[id] = "cancelled" => status'[id] = "cancelled"]_vars
=============================================================================

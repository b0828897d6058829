------------------------------ MODULE PlanExec ------------------------------
(***************************************************************************)
(* PlanManager of src/plan.rs: one plan, its driver task, and the pool of  *)
(* subagents underneath, of which the driver knows what TaskPool promises. *)
(* The driver reads the status of each child in a critical section of its  *)
(* own, so the pool moves on between two reads of one poll: children wait, *)
(* start, end, time out and are cancelled by others, and a child whose     *)
(* cancellation is overtaken by its start runs after all.                  *)
(***************************************************************************)
EXTENDS PlanOrder

CONSTANTS
  Names,   \* the ids a plan's tasks may have
  Review,  \* the child that writes the final review
  Plans    \* the plans that may be submitted

ASSUME ReviewAssumption == Review \notin Names

(* A plan names its tasks by Names, and topo_sort does what it is for:     *)
(* TLC evaluates this for the plans of every run, and for all small inputs *)
(* in a run of PlanOrder.                                                  *)
ASSUME PlansAssumption ==
  \A p \in Plans : IdsOf(p) \subseteq Names /\ SortedAsDefined(p)

(* The child of a task is called by the task's id. *)
Children == Names \cup {Review}

Phase == {"idle", "spawn", "poll", "record", "cancel", "review", "final", "end"}
PlanStatus == {"none", "refused", "running", "completed", "partial", "failed"}
Terminal == {"completed", "failed", "cancelled"}
Outcome == {"none", "queued", "running"} \cup Terminal

VARIABLES
  plan,       \* PlanExecution.status; "none" before, "refused" by topo_sort
  tasks,      \* the tasks of the plan
  batches,    \* what topo_sort made of them
  phase,      \* where the driver is
  at,         \* the batch it works on
  spawned,    \* tasks in PlanExecution.task_map
  refused,    \* tasks whose spawn failed
  seen,       \* children this poll found ended, or the time-out dealt with
  outcomes,   \* PlanExecution.task_outcomes
  anyFailed,  \* any_failed
  timedOut,   \* timed_out
  late,       \* whether the deadline of the current phase has passed
  status,     \* the pool's status of each child
  started,    \* the pool's started children
  revived     \* children started after a cancellation

driverVars == <<plan, tasks, batches, phase, at, spawned, refused, seen, outcomes, anyFailed, timedOut, late>>
poolVars == <<status, started, revived>>
vars == <<driverVars, poolVars>>

Pool == INSTANCE TaskPool WITH Tasks <- Children

Init ==
  /\ plan = "none"
  /\ tasks = <<>>
  /\ batches = <<>>
  /\ phase = "idle"
  /\ at = 0
  /\ spawned = {} /\ refused = {} /\ seen = {}
  /\ outcomes = [n \in Names |-> "none"]
  /\ anyFailed = FALSE /\ timedOut = FALSE /\ late = FALSE
  /\ Pool!PoolInit
  /\ revived = {}

-----------------------------------------------------------------------------
(* execute_plan, on the caller: the plan is sorted, or refused and not     *)
(* recorded.                                                               *)
Submit(p) ==
  /\ phase = "idle"
  /\ tasks' = p
  /\ IF Sortable(p)
     THEN plan' = "running" /\ batches' = Batches(p) /\ phase' = "spawn" /\ at' = 1
     ELSE plan' = "refused" /\ batches' = <<>> /\ phase' = "end" /\ at' = 0
  /\ UNCHANGED <<spawned, refused, seen, outcomes, anyFailed, timedOut, late, poolVars>>

-----------------------------------------------------------------------------
(* The driver: a batch is spawned, polled until it has ended, recorded.    *)

ToSpawn == batches[at] \ (spawned \cup refused)
Batch == batches[at] \cap spawned

(* The pool launches the child, or queues it. *)
NewChild(c) == (Pool!Accept(c) \/ Pool!Launch(c)) /\ UNCHANGED revived

SpawnTask(n) ==
  /\ phase = "spawn" /\ at <= Len(batches) /\ n \in ToSpawn
  /\ spawned' = spawned \cup {n}
  /\ NewChild(n)
  /\ UNCHANGED <<plan, tasks, batches, phase, at, refused, seen, outcomes, anyFailed, timedOut, late>>

(* A slip: the mapping is recorded before the spawn is known to succeed. *)
SpawnFailsMapped(n) ==
  /\ phase = "spawn" /\ at <= Len(batches) /\ n \in ToSpawn
  /\ spawned' = spawned \cup {n}
  /\ anyFailed' = TRUE
  /\ UNCHANGED <<plan, tasks, batches, phase, at, refused, seen, outcomes, timedOut, late, poolVars>>

(* An unknown agent profile: the task is skipped. *)
SpawnFails(n) ==
  /\ phase = "spawn" /\ at <= Len(batches) /\ n \in ToSpawn
  /\ refused' = refused \cup {n}
  /\ anyFailed' = TRUE
  /\ UNCHANGED <<plan, tasks, batches, phase, at, spawned, seen, outcomes, timedOut, late, poolVars>>

BeginPoll ==
  /\ phase = "spawn" /\ at <= Len(batches) /\ ToSpawn = {}
  /\ phase' = "poll"
  /\ seen' = {}
  /\ UNCHANGED <<plan, tasks, batches, at, spawned, refused, outcomes, anyFailed, timedOut, late, poolVars>>

(* A slip: a child that waits for a slot does not keep the batch open. *)
EndedOrQueued(c) == status[c] \in Terminal \cup {"queued"}
Ended(c) == status[c] \in Terminal

LookEnded(n) ==
  /\ phase = "poll" /\ n \in Batch \ seen
  /\ Ended(n)
  /\ seen' = seen \cup {n}
  /\ UNCHANGED <<plan, tasks, batches, phase, at, spawned, refused, outcomes, anyFailed, timedOut, late, poolVars>>

(* The first child found alive ends the poll: past two hours the plan is   *)
(* given up, before that the driver sleeps and polls all children again.   *)
LookAlive(n) ==
  /\ phase = "poll" /\ n \in Batch \ seen
  /\ ~Ended(n)
  /\ seen' = {}
  /\ IF late
     THEN phase' = "cancel" /\ timedOut' = TRUE /\ anyFailed' = TRUE
     ELSE UNCHANGED <<phase, timedOut, anyFailed>>
  /\ UNCHANGED <<plan, tasks, batches, at, spawned, refused, outcomes, late, poolVars>>

AllDone ==
  /\ phase = "poll" /\ seen = Batch
  /\ phase' = "record"
  /\ UNCHANGED <<plan, tasks, batches, at, spawned, refused, seen, outcomes, anyFailed, timedOut, late, poolVars>>

(* A slip: a cancelled child does not count as a failure. *)
IsOnlyFailed(s) == s = "failed"
IsFailure(s) == s \in {"failed", "cancelled"}

(* Each child's status is read once more, and may have changed. *)
RecordOutcome(n) ==
  /\ phase = "record" /\ n \in Batch /\ outcomes[n] = "none"
  /\ outcomes' = [outcomes EXCEPT ![n] = status[n]]
  /\ anyFailed' = (anyFailed \/ IsFailure(status[n]))
  /\ UNCHANGED <<plan, tasks, batches, phase, at, spawned, refused, seen, timedOut, late, poolVars>>

NextBatch ==
  /\ phase = "record" /\ \A n \in Batch : outcomes[n] # "none"
  /\ phase' = "spawn"
  /\ at' = at + 1
  /\ UNCHANGED <<plan, tasks, batches, spawned, refused, seen, outcomes, anyFailed, timedOut, late, poolVars>>

-----------------------------------------------------------------------------
(* The end of a plan: the children of a plan given up are cancelled one by *)
(* one; otherwise a last child reviews the results, within half an hour.   *)

(* A slip: only running children are cancelled. *)
RunningOnly(c) == status[c] = "running"
Alive(c) == status[c] \in {"queued", "running"}

CancelChild(n) ==
  /\ phase = "cancel" /\ n \in spawned \ seen
  /\ seen' = seen \cup {n}
  /\ IF Alive(n) THEN Pool!Cancel(n) ELSE UNCHANGED <<status, started>>
  /\ UNCHANGED <<plan, tasks, batches, phase, at, spawned, refused, outcomes, anyFailed, timedOut, late, revived>>

AllCancelled ==
  /\ phase = "cancel" /\ seen = spawned
  /\ phase' = "final"
  /\ UNCHANGED <<plan, tasks, batches, at, spawned, refused, seen, outcomes, anyFailed, timedOut, late, poolVars>>

(* run_final_review; it names no profile, so its spawn is never refused. *)
BeginReview ==
  /\ phase = "spawn" /\ at > Len(batches)
  /\ NewChild(Review)
  /\ phase' = "review"
  /\ late' = FALSE
  /\ UNCHANGED <<plan, tasks, batches, at, spawned, refused, seen, outcomes, anyFailed, timedOut>>

(* A slip: the review is waited for as long as it takes. *)
ReviewEndsUntimed ==
  /\ phase = "review"
  /\ Ended(Review) /\ UNCHANGED <<status, started>>
  /\ phase' = "final"
  /\ UNCHANGED <<plan, tasks, batches, at, spawned, refused, seen, outcomes, anyFailed, timedOut, late, revived>>

(* However the review ends, its text says so and any_failed stays. *)
ReviewEnds ==
  /\ phase = "review"
  /\ \/ Ended(Review) /\ UNCHANGED <<status, started>>
     \/ late /\ Alive(Review) /\ Pool!Cancel(Review)
  /\ phase' = "final"
  /\ UNCHANGED <<plan, tasks, batches, at, spawned, refused, seen, outcomes, anyFailed, timedOut, late, revived>>

FinalStatus == IF timedOut THEN "failed" ELSE IF anyFailed THEN "partial" ELSE "completed"

Finalize ==
  /\ phase = "final"
  /\ plan' = FinalStatus
  /\ phase' = "end"
  /\ UNCHANGED <<tasks, batches, at, spawned, refused, seen, outcomes, anyFailed, timedOut, late, poolVars>>

(* started_at + 7200, or the review's start + 1800, comes to pass. *)
DeadlinePasses ==
  /\ phase \in {"spawn", "poll", "record", "review"}
  /\ ~late
  /\ late' = TRUE
  /\ UNCHANGED <<plan, tasks, batches, phase, at, spawned, refused, seen, outcomes, anyFailed, timedOut, poolVars>>

-----------------------------------------------------------------------------
(* The pool moves: bodies end, tick and drains, and cancellations by others. *)
PoolMoves ==
  /\ \E c \in Children :
       \/ Pool!Start(c) /\ revived' = IF status[c] = "cancelled" THEN revived \cup {c} ELSE revived
       \/ (Pool!Cancel(c) \/ Pool!Expire({c}) \/ \E o \in Pool!Outcomes : Pool!Finish(c, o)) /\ UNCHANGED revived
  /\ UNCHANGED driverVars

DriverStep ==
  \/ \E n \in Names :
       SpawnTask(n) \/ SpawnFails(n) \/ LookEnded(n) \/ LookAlive(n) \/ RecordOutcome(n) \/ CancelChild(n)
  \/ BeginPoll \/ AllDone \/ NextBatch \/ AllCancelled \/ BeginReview \/ ReviewEnds \/ Finalize

Next == (\E p \in Plans : Submit(p)) \/ DriverStep \/ DeadlinePasses \/ PoolMoves

Spec == Init /\ [][Next]_vars

(* The driver never blocks, and time passes; nothing is asked of the pool. *)
FairSpec == Spec /\ WF_vars(DriverStep) /\ WF_vars(DeadlinePasses)

-----------------------------------------------------------------------------
(* Invariants. *)

(* Types; a child is in the pool exactly if the driver has spawned it. *)
TypeOK ==
  /\ plan \in PlanStatus
  /\ batches \in Seq(SUBSET Names)
  /\ phase \in Phase
  /\ at \in Nat
  /\ spawned \subseteq Names /\ refused \subseteq Names /\ seen \subseteq Names
  /\ outcomes \in [Names -> Outcome]
  /\ anyFailed \in BOOLEAN /\ timedOut \in BOOLEAN /\ late \in BOOLEAN
  /\ status \in [Children -> Pool!TaskStatus]
  /\ started \subseteq Children /\ revived \subseteq started
  /\ phase \notin {"idle", "end"} => plan = "running" /\ at >= 1
  /\ spawned = {n \in Names : status[n] # "absent"}

(* A child that has ended has ended for good, but for two cases that the   *)
(* pool allows: a timeout replaced by an outcome, and a cancellation       *)
(* overtaken by a start.                                                   *)
Over(c) == Ended(c) \/ c \in revived

(* "in topological order": a task is spawned when each of its dependencies *)
(* could not be spawned or is over, whatever happens in the pool between   *)
(* two reads of a poll and two polls.                                      *)
StartsAfterDependencies ==
  \A n \in spawned : \A d \in DepsOf(tasks, n) :
    d \in refused \/ (d \in spawned /\ Over(d))

(* "running or queued child tasks were cancelled before finalization", and *)
(* whenever a plan is final: no child of it goes on.                       *)
NoChildLeftBehind ==
  plan \in {"completed", "partial", "failed"} =>
    \A c \in spawned \cup {Review} : status[c] # "absent" => Over(c)

(* What the final status says is so in the pool: a completed plan has a    *)
(* completed child for every task, a partial failure has a task that       *)
(* failed, was cancelled or never started.                                 *)
InBatches == UNION {batches[b] : b \in DOMAIN batches}

StatusTellsOutcomes ==
  /\ plan = "completed" =>
       \A n \in InBatches : n \in spawned /\ (status[n] = "completed" \/ n \in revived)
  /\ plan = "partial" =>
       refused # {} \/ \E n \in spawned : outcomes[n] \in {"failed", "cancelled"}

-----------------------------------------------------------------------------
(* A plan ends, whatever its children do: it is given up after two hours   *)
(* and its review after half an hour.                                      *)
PlanEnds == plan = "running" ~> plan # "running"

=============================================================================

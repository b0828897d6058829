------------------------------ MODULE TaskPool ------------------------------
(***************************************************************************)
(* What SubagentManager lets its callers see of the task pool: the status  *)
(* of each task, and which tasks have been started.  A caller that polls   *)
(* get_task_status, as the plan driver does, may rely on these transitions *)
(* and on no others.  Subagent implements this specification.              *)
(***************************************************************************)
CONSTANT Tasks

VARIABLES
  status,   \* what get_task_status returns, "absent" for None
  started   \* tasks that were given a body, or are certain to be

poolVars == <<status, started>>

TaskStatus == {"absent", "queued", "running", "completed", "failed", "cancelled"}
Outcomes == {"completed", "failed"}

PoolInit ==
  /\ status = [t \in Tasks |-> "absent"]
  /\ started = {}

(* spawn_with_agent_internal finds every slot taken, or one free. *)
Accept(t) ==
  /\ status[t] = "absent"
  /\ status' = [status EXCEPT ![t] = "queued"]
  /\ UNCHANGED started

Launch(t) ==
  /\ status[t] = "absent"
  /\ status' = [status EXCEPT ![t] = "running"]
  /\ started' = started \cup {t}

(* drain_pending starts a task that waits, or one whose cancellation it    *)
(* overtakes, but never one that was started before.                       *)
Start(t) ==
  /\ status[t] \in {"queued", "cancelled"}
  /\ t \notin started
  /\ status' = [status EXCEPT ![t] = "running"]
  /\ started' = started \cup {t}

Cancel(t) ==
  /\ status[t] \in {"queued", "running"}
  /\ status' = [status EXCEPT ![t] = "cancelled"]
  /\ UNCHANGED started

(* A turn's outcome ends a running task, or replaces a timeout. *)
Finish(t, outcome) ==
  /\ t \in started
  /\ status[t] \in {"running", "failed"}
  /\ status' = [status EXCEPT ![t] = outcome]
  /\ UNCHANGED started

(* monitor_tick fails the tasks that have run for an hour. *)
Expire(S) ==
  /\ \A t \in S : status[t] = "running"
  /\ status' = [t \in Tasks |-> IF t \in S THEN "failed" ELSE status[t]]
  /\ UNCHANGED started

PoolStep ==
  \/ \E t \in Tasks : Accept(t) \/ Launch(t) \/ Start(t) \/ Cancel(t)
  \/ \E t \in Tasks, outcome \in Outcomes : Finish(t, outcome)
  \/ \E S \in SUBSET Tasks : Expire(S)

PoolSpec == PoolInit /\ [][PoolStep]_poolVars
=============================================================================

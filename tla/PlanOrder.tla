----------------------------- MODULE PlanOrder -----------------------------
(***************************************************************************)
(* PlanManager::topo_sort of src/plan.rs: the tasks of a plan are sorted   *)
(* into batches by Kahn's algorithm, or the plan is refused.  A plan is a  *)
(* sequence of tasks, each with an id and the list of ids it depends on;   *)
(* ids and dependencies may repeat, as nothing before topo_sort looks at   *)
(* them.  A batch is a set: its order is that of a hash map's iteration.   *)
(***************************************************************************)
EXTENDS Integers, Sequences, FiniteSets

IdsOf(tasks) == {tasks[k].id : k \in DOMAIN tasks}

(* One edge for each entry of each depends_on list. *)
Edges(tasks) ==
  UNION {{[from |-> tasks[k].deps[j], to |-> tasks[k].id, at |-> <<k, j>>] :
            j \in DOMAIN tasks[k].deps} : k \in DOMAIN tasks}

DepsOf(tasks, i) == {e.from : e \in {f \in Edges(tasks) : f.to = i}}

DepsKnown(tasks) == \A e \in Edges(tasks) : e.from \in IdsOf(tasks)

LoopStart(tasks) ==
  LET degree == [i \in IdsOf(tasks) |-> Cardinality({e \in Edges(tasks) : e.to = i})]
  IN [degree |-> degree, queue |-> {i \in IdsOf(tasks) : degree[i] = 0},
      batches |-> <<>>, processed |-> 0]

(* A slip: a task is queued with the first of its dependencies. *)
EagerlyReleased(before, after) == {i \in DOMAIN after : after[i] < before[i]}
Released(before, after) == {i \in DOMAIN after : after[i] = 0 /\ before[i] # 0}

(* One turn of the while loop: the queue becomes a batch, each edge out of *)
(* it lowers a degree, and whatever comes down to zero is queued next.     *)
Round(tasks, s) ==
  LET degree == [i \in IdsOf(tasks) |->
                   s.degree[i] - Cardinality({e \in Edges(tasks) : e.from \in s.queue /\ e.to = i})]
  IN [degree |-> degree, queue |-> Released(s.degree, degree),
      batches |-> Append(s.batches, s.queue), processed |-> s.processed + Cardinality(s.queue)]

LoopEnd(tasks) ==
  LET bound == Cardinality(IdsOf(tasks))
      after[n \in 0 .. bound] ==
        IF n = 0 THEN LoopStart(tasks)
        ELSE IF after[n - 1].queue = {} THEN after[n - 1] ELSE Round(tasks, after[n - 1])
  IN after[bound]

(* A slip: leftovers of the loop are not noticed. *)
SortsPart(tasks) == DepsKnown(tasks)
Sortable(tasks) == DepsKnown(tasks) /\ LoopEnd(tasks).processed = Len(tasks)

Batches(tasks) == LoopEnd(tasks).batches

-----------------------------------------------------------------------------
(* The definition topo_sort is measured by. *)

(* No set of tasks in which each waits for another of the set. *)
Acyclic(tasks) ==
  \A S \in SUBSET IdsOf(tasks) :
    S # {} => \E i \in S : DepsOf(tasks, i) \cap S = {}

DistinctIds(tasks) == Cardinality(IdsOf(tasks)) = Len(tasks)

(* "Each batch is a set of task IDs whose dependencies are all in earlier  *)
(* batches": every task is in one batch, just after the last dependency.   *)
BatchOf(tasks, i) == {b \in DOMAIN Batches(tasks) : i \in Batches(tasks)[b]}

InLevels(tasks) ==
  /\ Batches(tasks) \in Seq(SUBSET IdsOf(tasks))
  /\ UNION {Batches(tasks)[b] : b \in DOMAIN Batches(tasks)} = IdsOf(tasks)
  /\ \A b \in DOMAIN Batches(tasks) : Batches(tasks)[b] # {}
  /\ \A i \in IdsOf(tasks) : \E b \in DOMAIN Batches(tasks) :
       /\ BatchOf(tasks, i) = {b}
       /\ \A d \in DepsOf(tasks, i) : \E e \in BatchOf(tasks, d) : e < b
       /\ b > 1 => \E d \in DepsOf(tasks, i) : BatchOf(tasks, d) = {b - 1}

(* topo_sort refuses a plan exactly when ids repeat, a dependency is       *)
(* unknown or dependencies form a cycle (a repeated id is reported as a    *)
(* cycle), and sorts every other plan into as few batches as can be.       *)
SortedAsDefined(tasks) ==
  /\ Sortable(tasks) <=> DepsKnown(tasks) /\ DistinctIds(tasks) /\ Acyclic(tasks)
  /\ Sortable(tasks) => InLevels(tasks)
=============================================================================

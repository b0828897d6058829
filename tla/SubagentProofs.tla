--------------------------- MODULE SubagentProofs ---------------------------
(***************************************************************************)
(* Proofs about the task pool of Subagent for every number of slots and of *)
(* tasks.                                                                  *)
(***************************************************************************)
EXTENDS Subagent, TLAPS

(* The inductive invariant: the types, the queue in step with the map, and *)
(* each draining thread in step with the task it holds.                    *)
IInv == TypeOK /\ QueueConsistent /\ ThreadsConsistent

USE DEF Status, Terminal, Notice, BodyState, DrainState, NoTask, Supervisor

(* Publishing to the origin channel keeps every log a sequence of notices. *)
LEMMA PublishType ==
  ASSUME TypeOK, NEW id \in Ids, NEW notice \in Notice,
         Publish(id, notice) \/ UNCHANGED notices
  PROVE  notices' \in [Ids -> Seq(Notice)]
<1>1. notices \in [Ids -> Seq(Notice)] /\ Append(notices[id], notice) \in Seq(Notice)
  BY DEF TypeOK
<1> QED BY <1>1 DEF Publish

(* spawn_with_agent_internal at capacity: the types, and the fresh id. *)
LEMMA TypeSpawnQueued ==
  ASSUME TypeOK, NEW quiet \in BOOLEAN, SpawnQueued(quiet)
  PROVE  TypeOK'
<1> USE DEF SpawnQueued
<1>1. notices' \in [Ids -> Seq(Notice)]
  BY PublishType
<1>2. pending' \in Seq(Ids)
  BY DEF TypeOK
<1>3. nextId' \in Nat \ {0} /\ status' \in [Ids -> Status] /\ silent' \in [Ids -> BOOLEAN]
  BY TasksAssumption DEF TypeOK, Ids
<1>4. \A id \in Ids : id >= nextId' => status'[id] = "absent" /\ body'[id] = "none"
  BY TasksAssumption DEF TypeOK, Ids
<1> QED BY <1>1, <1>2, <1>3, <1>4 DEF TypeOK

(* spawn_with_agent_internal with a free slot: the types, and the fresh    *)
(* id.                                                                     *)
LEMMA TypeSpawnLaunched ==
  ASSUME TypeOK, NEW quiet \in BOOLEAN, SpawnLaunched(quiet)
  PROVE  TypeOK'
BY TasksAssumption DEF TypeOK, SpawnLaunched, Ids

(* An unknown profile uses up an id and nothing else. *)
LEMMA TypeSpawnRefused ==
  ASSUME TypeOK, SpawnRefused
  PROVE  TypeOK'
BY TasksAssumption DEF TypeOK, SpawnRefused, Ids

(* cancel_task of a queued task leaves a queue of ids. *)
LEMMA TypeCancelQueued ==
  ASSUME TypeOK, NEW id \in Ids, CancelQueued(id)
  PROVE  TypeOK'
<1> USE DEF CancelQueued
<1>1. pending' \in Seq(Ids)
  <2>1. CASE UNCHANGED pending
    BY <2>1 DEF TypeOK
  <2>2. ASSUME NEW k \in 1 .. Len(pending),
               pending' = [i \in 1 .. Len(pending) - 1 |-> IF i < k THEN pending[i] ELSE pending[i + 1]]
        PROVE  pending' \in Seq(Ids)
    <3>1. Len(pending) - 1 \in Nat /\ pending \in [1 .. Len(pending) -> Ids]
      BY DEF TypeOK
    <3>2. \A i \in 1 .. Len(pending) - 1 : (IF i < k THEN pending[i] ELSE pending[i + 1]) \in Ids
      BY <3>1
    <3>3. \A n \in Nat : \A f \in [1 .. n -> Ids] : f \in Seq(Ids)
      OBVIOUS
    <3> QED BY <2>2, <3>1, <3>2, <3>3
  <2> QED BY <2>1, <2>2 DEF RemoveFromQueue
<1>2. status' \in [Ids -> Status]
  BY DEF TypeOK
<1>3. \A i \in Ids : i >= nextId' => status'[i] = "absent" /\ body'[i] = "none"
  BY DEF TypeOK
<1> QED BY <1>1, <1>2, <1>3 DEF TypeOK

(* cancel_task of a running task: the types. *)
LEMMA TypeCancelRunning ==
  ASSUME TypeOK, NEW id \in Ids, CancelRunning(id)
  PROVE  TypeOK'
<1> USE DEF CancelRunning
<1>1. notices' \in [Ids -> Seq(Notice)]
  BY PublishType
<1> QED BY <1>1 DEF TypeOK, RequestAbort

(* A returning turn: the types, cancelled or not. *)
LEMMA TypeTurnReturns ==
  ASSUME TypeOK, NEW id \in Ids, NEW outcome \in Outcome, TurnReturns(id, outcome)
  PROVE  TypeOK'
<1> USE DEF TurnReturns, Outcome
<1>1. notices' \in [Ids -> Seq(Notice)]
  <2>1. CASE UNCHANGED notices
    BY <2>1 DEF TypeOK
  <2>2. CASE Publish(id, outcome)
    BY <2>2, PublishType
  <2> QED BY <2>1, <2>2 DEF PublishUnlessSilent
<1>2. status' \in [Ids -> Status] /\ body' \in [Ids -> BodyState] /\ pc' \in [Threads -> DrainState]
  <2>1. CASE IsCancelled(id)
    BY <2>1 DEF TypeOK
  <2>2. CASE ~IsCancelled(id)
    <3>1. status' = [status EXCEPT ![id] = outcome] /\ BeginDrain(id)
      BY <2>2
    <3>2. outcome \in Status /\ id \in Threads
      BY DEF Threads
    <3> QED BY <3>1, <3>2 DEF TypeOK, BeginDrain
  <2> QED BY <2>1, <2>2
<1>3. ASSUME NEW i \in Ids, i >= nextId'
      PROVE  status'[i] = "absent" /\ body'[i] = "none"
  BY <1>3 DEF TypeOK, BeginDrain
<1> QED BY <1>1, <1>2, <1>3 DEF TypeOK

(* monitor_tick: the types of the four maps it rewrites. *)
LEMMA TypeMonitorTick ==
  ASSUME TypeOK, MonitorTick
  PROVE  TypeOK'
<1> USE DEF MonitorTick
<1>1. notices' \in [Ids -> Seq(Notice)]
  <2>1. ASSUME NEW id \in Ids
        PROVE  (IF id \in TimedOut /\ ~silent[id] THEN Append(notices[id], "timedout") ELSE notices[id])
                 \in Seq(Notice)
    BY DEF TypeOK
  <2> QED BY <2>1
<1>2. /\ status' \in [Ids -> Status] /\ body' \in [Ids -> BodyState] /\ handle' \in [Ids -> BOOLEAN]
      /\ pc' \in [Threads -> DrainState]
  BY DEF TypeOK, Fail, Threads
<1>3. ASSUME NEW i \in Ids, i >= nextId'
      PROVE  status'[i] = "absent" /\ body'[i] = "none"
  BY <1>3 DEF TypeOK, Fail, TimedOut
<1> QED BY <1>1, <1>2, <1>3 DEF TypeOK

(* An honoured abort and the passing hour: the types. *)
LEMMA TypeOther ==
  ASSUME TypeOK, NEW id \in Ids, AbortTakesEffect(id) \/ TurnPanics(id) \/ HourPasses(id)
  PROVE  TypeOK'
BY DEF TypeOK, AbortTakesEffect, TurnPanics, HourPasses

(* Every section of drain_pending: the types. *)
LEMMA TypeDrain ==
  ASSUME IInv, NEW t \in Threads, DrainStep(t)
  PROVE  TypeOK'
<1> USE DEF DrainGoto, records
<1>0. TypeOK /\ ThreadConsistent(t)
  BY DEF IInv, ThreadsConsistent
<1>1. CASE DrainPop(t)
  <2>1. CASE SlotFree /\ pending # <<>>
    <3>1. Head(pending) \in Ids /\ Tail(pending) \in Seq(Ids)
      BY <1>0, <2>1 DEF TypeOK
    <3> QED BY <1>0, <1>1, <2>1, <3>1 DEF TypeOK, DrainPop, PopFront
  <2>2. CASE ~(SlotFree /\ pending # <<>>)
    <3>0. /\ UNCHANGED <<records, pending>>
          /\ pc' = [pc EXCEPT ![t] = "idle"] /\ held' = [held EXCEPT ![t] = NoTask]
          /\ body' = [id \in Ids |-> IF id = t THEN "gone" ELSE body[id]]
      BY <1>1, <2>2 DEF DrainPop
    <3>1. ASSUME NEW i \in Ids, i >= nextId
          PROVE  body'[i] = "none"
      BY <1>0, <1>1, <2>2, <3>1, TasksAssumption DEF TypeOK, DrainPop, ThreadConsistent, Threads, Ids
    <3>2. body' \in [Ids -> BodyState] /\ pc' \in [Threads -> DrainState]
          /\ held' \in [Threads -> Ids \cup {NoTask}]
      BY <1>0, <3>0 DEF TypeOK
    <3> QED BY <1>0, <3>0, <3>1, <3>2 DEF TypeOK
  <2> QED BY <2>1, <2>2
<1>2. CASE DrainCheck(t)
  <2>1. \/ DrainGoto(t, "promote", held[t])
        \/ DrainGoto(t, "pop", NoTask)
    BY <1>2 DEF DrainCheck
  <2>2. pc' \in [Threads -> DrainState] /\ held' \in [Threads -> Ids \cup {NoTask}]
    BY <1>0, <2>1 DEF TypeOK
  <2> QED BY <1>0, <1>2, <2>2 DEF TypeOK, DrainCheck
<1>3. pc[t] \in {"check", "promote", "spawn", "store"} =>
        held[t] \in Ids /\ status[held[t]] # "absent"
  BY <1>0 DEF TypeOK, ThreadConsistent
<1>4. CASE DrainPromote(t)
  BY <1>0, <1>3, <1>4 DEF TypeOK, DrainPromote
<1>5. CASE DrainSpawn(t)
  <2>0. held[t] \in Ids /\ held[t] < nextId
    <3>1. held[t] \in Ids /\ status[held[t]] # "absent"
      BY <1>3, <1>5 DEF DrainSpawn
    <3>2. held[t] >= nextId => status[held[t]] = "absent"
      BY <1>0, <3>1 DEF TypeOK
    <3>3. nextId \in Nat
      BY <1>0 DEF TypeOK
    <3>4. held[t] \in Nat
      BY <3>1 DEF Ids
    <3> QED BY <3>1, <3>2, <3>3, <3>4
  <2>1. /\ UNCHANGED <<records, pending>> /\ held' = [held EXCEPT ![t] = held[t]]
        /\ pc' \in {[pc EXCEPT ![t] = "dead"], [pc EXCEPT ![t] = "store"]}
        /\ body' \in {body, [body EXCEPT ![held[t]] = "working"]}
    BY <1>5 DEF DrainSpawn
  <2>2. /\ body' \in [Ids -> BodyState] /\ pc' \in [Threads -> DrainState]
        /\ held' \in [Threads -> Ids \cup {NoTask}]
    BY <1>0, <2>0, <2>1 DEF TypeOK
  <2>3. ASSUME NEW i \in Ids, i >= nextId
        PROVE  body'[i] = "none"
    <3>1. i >= nextId
      BY <2>1, <2>3 DEF records
    <3>2. body[i] = "none" /\ nextId \in Nat /\ i \in Nat /\ held[t] \in Nat
      BY <1>0, <2>0, <3>1 DEF TypeOK, Ids
    <3>3. i # held[t]
      BY <2>0, <3>1, <3>2
    <3>4. body'[i] = body[i]
      BY <1>0, <2>1, <3>3 DEF TypeOK
    <3> QED BY <3>2, <3>4
  <2> QED BY <1>0, <2>1, <2>2, <2>3 DEF TypeOK
<1>6. CASE DrainStore(t)
  BY <1>0, <1>3, <1>6 DEF TypeOK, DrainStore
<1> QED BY <1>1, <1>2, <1>4, <1>5, <1>6 DEF DrainStep

-----------------------------------------------------------------------------
(* The queue.  Most steps leave it alone: it stays consistent when nothing *)
(* new is queued and a popped task that is still queued stays where it is. *)

(* Queue consistency survives a step that leaves queue and hands alone, if *)
(* nothing new is queued and a task of the queue is not touched.           *)
LEMMA QueueFrame ==
  ASSUME QueueConsistent,
         UNCHANGED pending,
         \A t \in Threads : held'[t] \in {held[t], NoTask},
         \A id \in Ids : status'[id] = "queued" => status[id] = "queued",
         \A i \in 1 .. Len(pending) : status'[pending[i]] = status[pending[i]],
         \A t \in Threads, id \in Ids :
           HeldBy(t, id) /\ pc[t] \in {"check", "promote"} /\ status'[id] = "queued"
             => held'[t] = id /\ pc'[t] \in {"check", "promote"}
  PROVE  QueueConsistent'
<1> USE DEF HeldBy, InQueue
<1>1. PendingAreQueued' /\ PendingAreDistinct'
  BY DEF QueueConsistent, PendingAreQueued, PendingAreDistinct
<1>2. HeldByOne' /\ HeldLeftQueue'
  BY DEF QueueConsistent, HeldByOne, HeldLeftQueue
<1>3. QueuedNotLost'
  <2> SUFFICES ASSUME NEW id \in Ids, status'[id] = "queued", ~InQueue(id)'
               PROVE  \E t \in Threads : HeldBy(t, id)' /\ pc'[t] \in {"check", "promote"}
    BY DEF QueuedNotLost
  <2>1. PICK t \in Threads : HeldBy(t, id) /\ pc[t] \in {"check", "promote"}
    BY DEF QueueConsistent, QueuedNotLost
  <2> QED BY <2>1
<1> QED BY <1>1, <1>2, <1>3 DEF QueueConsistent

(* Queue consistency when a fresh id is appended. *)
LEMMA QueueSpawnQueued ==
  ASSUME IInv, NEW quiet \in BOOLEAN, SpawnQueued(quiet)
  PROVE  QueueConsistent'
<1> DEFINE n == Len(pending)
<1> USE DEF HeldBy, InQueue
<1>1. TypeOK /\ QueueConsistent /\ ThreadsConsistent
  BY DEF IInv
<1>2. /\ n \in Nat /\ Len(pending') = n + 1 /\ pending'[n + 1] = nextId
      /\ \A i \in 1 .. n : pending[i] \in Ids /\ pending'[i] = pending[i]
  BY <1>1 DEF SpawnQueued, TypeOK
<1>3. /\ nextId \in Ids /\ status[nextId] = "absent" /\ status'[nextId] = "queued"
      /\ \A id \in Ids : id # nextId => status'[id] = status[id]
      /\ UNCHANGED <<held, pc>>
  BY <1>1, TasksAssumption DEF SpawnQueued, TypeOK, Ids
<1>4. \A i \in 1 .. n : status[pending[i]] = "queued" /\ pending[i] # nextId
  BY <1>1, <1>3 DEF QueueConsistent, PendingAreQueued
<1>5. \A t \in Threads : held[t] # nextId
  <2> TAKE t \in Threads
  <2>1. ThreadConsistent(t) /\ pc[t] \in DrainState
    BY <1>1 DEF ThreadsConsistent, TypeOK
  <2>2. nextId # NoTask
    BY <1>3 DEF Ids
  <2>3. CASE pc[t] \in {"idle", "pop"}
    BY <2>1, <2>2, <2>3 DEF ThreadConsistent
  <2>4. CASE pc[t] \in {"check", "promote"}
    BY <1>3, <2>1, <2>4 DEF ThreadConsistent
  <2>5. CASE pc[t] \in {"spawn", "store", "dead"}
    BY <1>3, <2>1, <2>5 DEF ThreadConsistent
  <2> QED BY <2>1, <2>3, <2>4, <2>5
<1>6. PendingAreQueued'
  BY <1>2, <1>3, <1>4 DEF PendingAreQueued
<1>7. PendingAreDistinct'
  BY <1>1, <1>2, <1>4 DEF PendingAreDistinct, QueueConsistent
<1>8. HeldByOne' /\ HeldLeftQueue'
  BY <1>1, <1>2, <1>3, <1>5 DEF QueueConsistent, HeldByOne, HeldLeftQueue
<1>9. QueuedNotLost'
  <2> SUFFICES ASSUME NEW id \in Ids, status'[id] = "queued", ~InQueue(id)'
               PROVE  \E t \in Threads : HeldBy(t, id)' /\ pc'[t] \in {"check", "promote"}
    BY DEF QueuedNotLost
  <2>1. id # nextId /\ ~InQueue(id)
    BY <1>2
  <2>2. status[id] = "queued"
    BY <1>3, <2>1
  <2>3. PICK t \in Threads : HeldBy(t, id) /\ pc[t] \in {"check", "promote"}
    BY <1>1, <2>1, <2>2 DEF QueueConsistent, QueuedNotLost
  <2> QED BY <1>3, <2>3
<1> QED BY <1>6, <1>7, <1>8, <1>9 DEF QueueConsistent

(* Queue consistency when a cancelled id is taken out of the queue. *)
LEMMA QueueCancelQueued ==
  ASSUME IInv, NEW id \in Ids, CancelQueued(id)
  PROVE  QueueConsistent'
<1> DEFINE n == Len(pending)
<1> USE DEF HeldBy, InQueue
<1>1. TypeOK /\ QueueConsistent
  BY DEF IInv
<1>2. /\ n \in Nat /\ \A i \in 1 .. n : pending[i] \in Ids
      /\ status'[id] = "cancelled" /\ \A x \in Ids : x # id => status'[x] = status[x]
      /\ UNCHANGED <<held, pc>>
  BY <1>1 DEF CancelQueued, TypeOK
<1>3. CASE ~InQueue(id)
  <2>1. UNCHANGED pending /\ \A i \in 1 .. n : pending[i] # id
    BY <1>3 DEF CancelQueued, RemoveFromQueue
  <2> QED BY <1>1, <1>2, <2>1, QueueFrame
<1>4. ASSUME NEW k \in 1 .. n, pending[k] = id,
             pending' = [i \in 1 .. n - 1 |-> IF i < k THEN pending[i] ELSE pending[i + 1]]
      PROVE  QueueConsistent'
  <2>1. /\ Len(pending') = n - 1
        /\ \A i \in 1 .. n - 1 : pending'[i] = IF i < k THEN pending[i] ELSE pending[i + 1]
    BY <1>2, <1>4
  <2>2. \A i \in 1 .. n : i # k => pending[i] # id
    BY <1>1, <1>4 DEF QueueConsistent, PendingAreDistinct
  <2>3. \A i \in 1 .. n - 1 : \E j \in 1 .. n : j # k /\ pending'[i] = pending[j]
    <3> SUFFICES ASSUME NEW i \in 1 .. n - 1
                 PROVE  \E j \in 1 .. n : j # k /\ pending'[i] = pending[j]
      OBVIOUS
    <3>1. CASE i < k
      <4>1. i \in 1 .. n /\ i # k
        BY <1>2, <3>1
      <4> QED BY <2>1, <3>1, <4>1
    <3>2. CASE ~(i < k)
      <4>1. i + 1 \in 1 .. n /\ i + 1 # k
        BY <1>2, <3>2
      <4> QED BY <2>1, <3>2, <4>1
    <3> QED BY <3>1, <3>2
  <2>4. PendingAreQueued'
    BY <1>1, <1>2, <2>1, <2>2, <2>3 DEF QueueConsistent, PendingAreQueued
  <2>5. PendingAreDistinct'
    BY <1>1, <1>2, <2>1 DEF QueueConsistent, PendingAreDistinct
  <2>6. HeldByOne'
    BY <1>1, <1>2 DEF QueueConsistent, HeldByOne
  <2>7. HeldLeftQueue'
    <3>1. \A x \in Ids : InQueue(x)' => InQueue(x)
      BY <2>1, <2>3
    <3> QED BY <1>1, <1>2, <3>1 DEF QueueConsistent, HeldLeftQueue
  <2>8. QueuedNotLost'
    <3> SUFFICES ASSUME NEW x \in Ids, status'[x] = "queued", ~InQueue(x)'
                 PROVE  \E t \in Threads : HeldBy(t, x)' /\ pc'[t] \in {"check", "promote"}
      BY DEF QueuedNotLost
    <3>1. x # id /\ status[x] = "queued"
      BY <1>2
    <3>2. ASSUME NEW j \in 1 .. n, pending[j] = x
          PROVE  FALSE
      <4>1. CASE j < k
        BY <1>2, <2>1, <3>2, <4>1
      <4>2. CASE j > k
        <5>1. j - 1 \in 1 .. n - 1 /\ ~(j - 1 < k) /\ (j - 1) + 1 = j
          BY <1>2, <4>2
        <5>2. pending'[j - 1] = x
          BY <2>1, <3>2, <5>1
        <5> QED BY <2>1, <5>1, <5>2
      <4> QED BY <1>2, <1>4, <3>1, <3>2, <4>1, <4>2
    <3>3. PICK t \in Threads : HeldBy(t, x) /\ pc[t] \in {"check", "promote"}
      BY <1>1, <3>1, <3>2 DEF QueueConsistent, QueuedNotLost
    <3> QED BY <1>2, <3>3
  <2> QED BY <2>4, <2>5, <2>6, <2>7, <2>8 DEF QueueConsistent
<1> QED BY <1>3, <1>4 DEF CancelQueued, RemoveFromQueue

(* Queue consistency when drain_pending takes the front into its hands. *)
LEMMA QueueDrainPop ==
  ASSUME IInv, NEW t \in Threads, DrainPop(t)
  PROVE  QueueConsistent'
<1> DEFINE n == Len(pending)
           task == Head(pending)
<1> USE DEF HeldBy, InQueue, DrainGoto, records
<1>1. TypeOK /\ QueueConsistent /\ ThreadsConsistent
  BY DEF IInv
<1>2. pc[t] = "pop" /\ held[t] = NoTask /\ UNCHANGED status
  BY <1>1 DEF DrainPop, ThreadsConsistent, ThreadConsistent
<1>3. CASE ~(SlotFree /\ pending # <<>>)
  <2>1. /\ UNCHANGED pending
        /\ pc' = [pc EXCEPT ![t] = "idle"] /\ held' = [held EXCEPT ![t] = NoTask]
    BY <1>3 DEF DrainPop
  <2> QED BY <1>1, <1>2, <2>1, QueueFrame DEF TypeOK
<1>4. CASE SlotFree /\ pending # <<>>
  <2>1. pc' = [pc EXCEPT ![t] = "check"] /\ held' = [held EXCEPT ![t] = task] /\ pending' = Tail(pending)
    BY <1>4 DEF DrainPop, PopFront
  <2>2. /\ n \in Nat \ {0} /\ task = pending[1] /\ task \in Ids
        /\ Len(pending') = n - 1 /\ \A i \in 1 .. n - 1 : pending'[i] = pending[i + 1]
    BY <1>1, <1>4, <2>1 DEF TypeOK
  <2>3. status[task] = "queued" /\ \A i \in 1 .. n - 1 : pending'[i] # task
    <3>1. \A i \in 1 .. n - 1 : i + 1 \in 1 .. n /\ i + 1 # 1 /\ 1 \in 1 .. n
      BY <2>2
    <3> QED BY <1>1, <2>2, <3>1 DEF QueueConsistent, PendingAreQueued, PendingAreDistinct
  <2>4. /\ held'[t] = task /\ pc'[t] = "check"
        /\ \A u \in Threads : u # t => held'[u] = held[u] /\ held[u] # task /\ pc'[u] = pc[u]
    <3>1. InQueue(task) /\ task # NoTask
      BY <2>2 DEF Ids
    <3>2. \A u \in Threads : held[u] # task
      BY <1>1, <2>2, <3>1 DEF QueueConsistent, HeldLeftQueue
    <3>3. pc \in [Threads -> DrainState] /\ held \in [Threads -> Ids \cup {NoTask}]
      BY <1>1 DEF TypeOK
    <3> QED BY <2>1, <3>2, <3>3
  <2>5. PendingAreQueued' /\ PendingAreDistinct'
    BY <1>1, <1>2, <2>2 DEF QueueConsistent, PendingAreQueued, PendingAreDistinct
  <2>6. HeldByOne'
    BY <1>1, <2>4 DEF QueueConsistent, HeldByOne
  <2>7. HeldLeftQueue'
    <3>1. \A x \in Ids : InQueue(x)' => InQueue(x) /\ x # task
      BY <2>2, <2>3
    <3> QED BY <1>1, <2>4, <3>1 DEF QueueConsistent, HeldLeftQueue
  <2>8. QueuedNotLost'
    <3> SUFFICES ASSUME NEW x \in Ids, status'[x] = "queued", ~InQueue(x)'
                 PROVE  \E u \in Threads : HeldBy(u, x)' /\ pc'[u] \in {"check", "promote"}
      BY DEF QueuedNotLost
    <3>0. CASE x = task
      BY <2>2, <2>4, <3>0 DEF Ids
    <3> SUFFICES ASSUME x # task
                 PROVE  \E u \in Threads : HeldBy(u, x)' /\ pc'[u] \in {"check", "promote"}
      BY <3>0
    <3>1. ~InQueue(x)
      <4>1. ASSUME NEW j \in 1 .. n, pending[j] = x
            PROVE  FALSE
        <5>1. j # 1 /\ j - 1 \in 1 .. n - 1 /\ (j - 1) + 1 = j
          BY <2>2, <4>1
        <5> QED BY <2>2, <4>1, <5>1
      <4> QED BY <4>1
    <3>2. PICK u \in Threads : HeldBy(u, x) /\ pc[u] \in {"check", "promote"}
      BY <1>1, <1>2, <3>1 DEF QueueConsistent, QueuedNotLost
    <3>3. u # t
      BY <1>2, <3>2
    <3> QED BY <2>4, <3>2, <3>3
  <2> QED BY <2>5, <2>6, <2>7, <2>8 DEF QueueConsistent
<1> QED BY <1>3, <1>4

(* Queue consistency in the later sections of drain_pending. *)
LEMMA QueueDrainRest ==
  ASSUME IInv, NEW t \in Threads,
         DrainCheck(t) \/ DrainPromote(t) \/ DrainSpawn(t) \/ DrainStore(t)
  PROVE  QueueConsistent'
<1> USE DEF HeldBy, InQueue, DrainGoto, records
<1>1. TypeOK /\ QueueConsistent /\ ThreadConsistent(t)
  BY DEF IInv, ThreadsConsistent
<1>2. /\ pc[t] \in {"check", "promote", "spawn", "store"}
      /\ UNCHANGED pending
      /\ \E next \in DrainState : pc' = [pc EXCEPT ![t] = next]
      /\ held' = [held EXCEPT ![t] = held[t]] \/ held' = [held EXCEPT ![t] = NoTask]
  BY DEF DrainCheck, DrainPromote, DrainSpawn, DrainStore
<1>3. held[t] \in Ids /\ held[t] # NoTask
  BY <1>1, <1>2 DEF ThreadConsistent, TypeOK
<1>4. \A i \in 1 .. Len(pending) : pending[i] # held[t]
  BY <1>1, <1>3 DEF QueueConsistent, HeldLeftQueue
<1>5. \A u \in Threads : held'[u] \in {held[u], NoTask} /\ (u # t => held'[u] = held[u] /\ pc'[u] = pc[u])
  BY <1>1, <1>2 DEF TypeOK
<1>6. CASE DrainCheck(t)
  <2>1. UNCHANGED status
        /\ (status[held[t]] = "queued" => held'[t] = held[t] /\ pc'[t] = "promote")
    BY <1>1, <1>6 DEF DrainCheck, TypeOK
  <2> QED BY <1>1, <1>2, <1>5, <2>1, QueueFrame
<1>7. CASE DrainPromote(t)
  <2>1. status' = [status EXCEPT ![held[t]] = "running"] /\ status \in [Ids -> Status]
    BY <1>1, <1>7 DEF DrainPromote, TypeOK
  <2>2. /\ \A id \in Ids : status'[id] = "queued" => status[id] = "queued" /\ id # held[t]
        /\ \A i \in 1 .. Len(pending) : status'[pending[i]] = status[pending[i]]
    BY <1>1, <1>3, <1>4, <2>1 DEF TypeOK
  <2> QED BY <1>1, <1>2, <1>5, <2>2, QueueFrame
<1>8. CASE DrainSpawn(t) \/ DrainStore(t)
  <2>1. UNCHANGED status /\ pc[t] \in {"spawn", "store"}
    BY <1>8 DEF DrainSpawn, DrainStore
  <2> QED BY <1>1, <1>2, <1>5, <2>1, QueueFrame
<1> QED BY <1>6, <1>7, <1>8

(* Queue consistency in every other action. *)
LEMMA QueueOther ==
  ASSUME IInv, NEW id \in Ids, NEW outcome \in Outcome,
         \/ \E quiet \in BOOLEAN : SpawnLaunched(quiet)
         \/ SpawnRefused
         \/ CancelRunning(id)
         \/ TurnReturns(id, outcome)
         \/ AbortTakesEffect(id) \/ TurnPanics(id)
         \/ HourPasses(id)
         \/ MonitorTick
  PROVE  QueueConsistent'
<1>1. TypeOK /\ QueueConsistent /\ ThreadsConsistent
  BY DEF IInv
<1>2. UNCHANGED <<pending, held>>
  BY DEF SpawnLaunched, SpawnRefused, CancelRunning, TurnReturns, AbortTakesEffect, TurnPanics, HourPasses, MonitorTick
<1> DEFINE Same(x) == status'[x] = status[x] \/ (status[x] # "queued" /\ status'[x] # "queued")
<1>3. \A x \in Ids : Same(x)
  <2>0. status \in [Ids -> Status]
    BY <1>1 DEF TypeOK
  <2>1. ASSUME NEW quiet \in BOOLEAN, SpawnLaunched(quiet)
        PROVE  \A x \in Ids : Same(x)
    <3>1. status[nextId] = "absent" /\ status' = [status EXCEPT ![nextId] = "running"]
      BY <1>1, <2>1 DEF SpawnLaunched, TypeOK
    <3> QED BY <2>0, <3>1
  <2>2. ASSUME TurnReturns(id, outcome)
        PROVE  \A x \in Ids : Same(x)
    <3>1. UNCHANGED status \/ (status[id] # "queued" /\ status' = [status EXCEPT ![id] = outcome])
      BY <1>1, <2>2 DEF TurnReturns, ThreadsConsistent, BodyConsistent
    <3> QED BY <2>0, <3>1 DEF Outcome
  <2>3. ASSUME MonitorTick
        PROVE  \A x \in Ids : Same(x)
    BY <2>0, <2>3 DEF MonitorTick, Fail, TimedOut
  <2>4. ASSUME CancelRunning(id)
        PROVE  \A x \in Ids : Same(x)
    BY <2>0, <2>4 DEF CancelRunning
  <2>5. ASSUME SpawnRefused \/ AbortTakesEffect(id) \/ TurnPanics(id) \/ HourPasses(id)
        PROVE  \A x \in Ids : Same(x)
    BY <2>5 DEF SpawnRefused, AbortTakesEffect, TurnPanics, HourPasses
  <2> QED BY <2>1, <2>2, <2>3, <2>4, <2>5
<1>4. \A t \in Threads : pc[t] \in {"check", "promote"} => pc'[t] = pc[t]
  <2>1. ASSUME TurnReturns(id, outcome)
        PROVE  UNCHANGED pc \/ (pc[id] = "idle" /\ pc' = [pc EXCEPT ![id] = "pop"])
    <3>1. pc[id] = "idle"
      BY <1>1, <2>1, TasksAssumption DEF TurnReturns, ThreadsConsistent, ThreadConsistent, Threads, Ids
    <3> QED BY <2>1, <3>1 DEF TurnReturns, BeginDrain
  <2>2. ASSUME MonitorTick
        PROVE  pc[Supervisor] = "idle" /\ pc' = [pc EXCEPT ![Supervisor] = "pop"]
    BY <2>2 DEF MonitorTick
  <2>3. ASSUME ~TurnReturns(id, outcome), ~MonitorTick
        PROVE  UNCHANGED pc
    BY <2>3 DEF SpawnLaunched, SpawnRefused, CancelRunning, AbortTakesEffect, TurnPanics, HourPasses
  <2> QED BY <1>1, <2>1, <2>2, <2>3 DEF TypeOK
<1>5. \A i \in 1 .. Len(pending) : pending[i] \in Ids /\ status[pending[i]] = "queued"
  BY <1>1 DEF TypeOK, QueueConsistent, PendingAreQueued
<1> QED BY <1>1, <1>2, <1>3, <1>4, <1>5, QueueFrame DEF HeldBy

-----------------------------------------------------------------------------
(* Each draining thread and the task it holds. *)

(* Thread consistency when a task is spawned. *)
LEMMA ThreadsSpawn ==
  ASSUME IInv, NEW quiet \in BOOLEAN,
         SpawnQueued(quiet) \/ SpawnLaunched(quiet) \/ SpawnRefused
  PROVE  ThreadsConsistent'
<1>1. TypeOK /\ ThreadsConsistent
  BY DEF IInv
<1> USE <1>1, TasksAssumption DEF TypeOK, ThreadsConsistent, Ids, Threads
<1>2. ASSUME NEW t \in Threads
      PROVE  ThreadConsistent(t)'
  <2>1. CASE SpawnQueued(quiet)
    BY <2>1 DEF ThreadConsistent, SpawnQueued
  <2>2. CASE SpawnLaunched(quiet)
    <3>1. nextId \in Ids /\ status[nextId] = "absent" /\ body[nextId] = "none"
      BY <2>2 DEF SpawnLaunched
    <3>2. /\ status' = [status EXCEPT ![nextId] = "running"]
          /\ body' = [body EXCEPT ![nextId] = "working"] /\ UNCHANGED <<pc, held>>
      BY <2>2 DEF SpawnLaunched
    <3>3. ThreadConsistent(t) /\ (t # Supervisor => t \in Ids)
      OBVIOUS
    <3>4. pc[t] \notin {"idle", "pop"} => held[t] \in Ids /\ held[t] # nextId
      BY <3>1, <3>3 DEF ThreadConsistent
    <3>5. t # Supervisor => (body'[t] = "draining" <=> body[t] = "draining")
      BY <3>1, <3>2, <3>3
    <3> QED BY <3>2, <3>3, <3>4, <3>5 DEF ThreadConsistent
  <2>3. CASE SpawnRefused
    BY <2>3 DEF ThreadConsistent, SpawnRefused
  <2> QED BY <2>1, <2>2, <2>3
<1>3. ASSUME NEW i \in Ids
      PROVE  BodyConsistent(i)'
  <2>1. CASE i = nextId
    <3>1. status[i] = "absent" /\ body[i] = "none"
      BY <2>1
    <3>2. \/ status'[i] = "running" /\ body'[i] = "working"
          \/ status'[i] \in {"absent", "queued"} /\ body'[i] = "none"
      BY <2>1, <3>1 DEF SpawnQueued, SpawnLaunched, SpawnRefused
    <3> QED BY <3>2 DEF BodyConsistent
  <2>2. CASE i # nextId
    <3>1. status'[i] = status[i] /\ body'[i] = body[i] /\ BodyConsistent(i)
      BY <2>2 DEF SpawnQueued, SpawnLaunched, SpawnRefused
    <3> QED BY <3>1 DEF BodyConsistent
  <2> QED BY <2>1, <2>2
<1> QED BY <1>2, <1>3

(* Thread consistency when a task is cancelled. *)
LEMMA ThreadsCancel ==
  ASSUME IInv, NEW id \in Ids, CancelQueued(id) \/ CancelRunning(id)
  PROVE  ThreadsConsistent'
<1>1. TypeOK /\ ThreadsConsistent
  BY DEF IInv
<1> USE <1>1, TasksAssumption DEF TypeOK, ThreadsConsistent, Ids, Threads
<1>2. ASSUME NEW t \in Threads
      PROVE  ThreadConsistent(t)'
  <2>1. CASE CancelQueued(id)
    BY <2>1 DEF ThreadConsistent, CancelQueued
  <2>2. CASE CancelRunning(id)
    BY <2>2 DEF ThreadConsistent, BodyConsistent, CancelRunning, RequestAbort
  <2> QED BY <2>1, <2>2
<1>3. \A i \in Ids : BodyConsistent(i)'
  BY DEF BodyConsistent, CancelQueued, CancelRunning, RequestAbort
<1> QED BY <1>2, <1>3

(* Thread consistency when a turn returns and the body starts to drain. *)
LEMMA ThreadsTurnReturns ==
  ASSUME IInv, NEW id \in Ids, NEW outcome \in Outcome, TurnReturns(id, outcome)
  PROVE  ThreadsConsistent'
<1>1. TypeOK /\ ThreadsConsistent
  BY DEF IInv
<1>2. /\ body[id] \in {"working", "aborting"} /\ status[id] \notin {"absent", "queued"}
      /\ pc[id] = "idle" /\ id \in Threads /\ id # Supervisor
  BY <1>1, TasksAssumption DEF TurnReturns, ThreadsConsistent, ThreadConsistent, BodyConsistent, Threads, Ids
<1>3. CASE IsCancelled(id)
  <2>1. body' = [body EXCEPT ![id] = "gone"] /\ UNCHANGED <<status, pc, held>> /\ status[id] = "cancelled"
    BY <1>3 DEF TurnReturns, IsCancelled
  <2>2. \A t \in Threads : ThreadConsistent(t)'
    BY <1>1, <1>2, <2>1, TasksAssumption DEF TypeOK, ThreadsConsistent, ThreadConsistent, Threads, Ids
  <2>3. \A i \in Ids : BodyConsistent(i)'
    BY <1>1, <1>2, <2>1 DEF TypeOK, ThreadsConsistent, BodyConsistent
  <2> QED BY <2>2, <2>3 DEF ThreadsConsistent
<1>4. CASE ~IsCancelled(id)
  <2>1. /\ body' = [body EXCEPT ![id] = "draining"] /\ pc' = [pc EXCEPT ![id] = "pop"]
        /\ status' = [status EXCEPT ![id] = outcome] /\ UNCHANGED held
    BY <1>4 DEF TurnReturns, BeginDrain
  <2>2. ASSUME NEW t \in Threads
        PROVE  ThreadConsistent(t)'
    <3>1. ThreadConsistent(t) /\ ThreadConsistent(id) /\ held[id] = NoTask
      BY <1>1, <1>2 DEF ThreadsConsistent, ThreadConsistent
    <3>2. CASE t = id
      BY <1>1, <1>2, <2>1, <3>1, <3>2 DEF TypeOK, ThreadConsistent
    <3>3. CASE t # id
      <4>1. pc'[t] = pc[t] /\ held'[t] = held[t] /\ (t \in Ids => body'[t] = body[t])
        BY <1>1, <2>1, <3>3 DEF TypeOK
      <4>2. held[t] \in Ids => \/ held[t] # id /\ status'[held[t]] = status[held[t]] /\ body'[held[t]] = body[held[t]]
                               \/ held[t] = id /\ status'[held[t]] = outcome
        BY <1>1, <2>1 DEF TypeOK
      <4>3. held[t] = id => pc[t] = "store"
        BY <1>1, <1>2, <3>1, TasksAssumption DEF TypeOK, ThreadConsistent, ThreadsConsistent, BodyConsistent, Ids
      <4>4. held[t] \in Ids \cup {NoTask} /\ pc[t] \in DrainState
        BY <1>1 DEF TypeOK
      <4>5. t # Supervisor => t \in Ids
        BY DEF Threads
      <4> QED BY <3>1, <4>1, <4>2, <4>3, <4>4, <4>5 DEF ThreadConsistent, Outcome
    <3> QED BY <3>2, <3>3
  <2>3. \A i \in Ids : BodyConsistent(i)'
    BY <1>1, <1>2, <2>1 DEF TypeOK, ThreadsConsistent, BodyConsistent, Outcome
  <2> QED BY <2>2, <2>3 DEF ThreadsConsistent
<1> QED BY <1>3, <1>4

(* Thread consistency when an abort is honoured, an hour passes or the     *)
(* supervisor ticks.                                                       *)
LEMMA ThreadsOther ==
  ASSUME IInv, NEW id \in Ids, AbortTakesEffect(id) \/ TurnPanics(id) \/ HourPasses(id) \/ MonitorTick
  PROVE  ThreadsConsistent'
<1>1. TypeOK /\ ThreadsConsistent
  BY DEF IInv
<1> USE <1>1, TasksAssumption DEF TypeOK, ThreadsConsistent, Ids, Threads
<1>2. ASSUME NEW t \in Threads
      PROVE  ThreadConsistent(t)'
  <2>1. CASE AbortTakesEffect(id) \/ TurnPanics(id)
    <3>1. /\ UNCHANGED <<status, pc, held>> /\ body[id] \in {"working", "aborting"}
          /\ \E end \in {"gone", "panicked"} : body' = [body EXCEPT ![id] = end]
      BY <2>1 DEF AbortTakesEffect, TurnPanics
    <3>2. ThreadConsistent(t) /\ (t # Supervisor => t \in Ids)
      OBVIOUS
    <3>3. \A i \in Ids : (body'[i] = "none" <=> body[i] = "none") /\ (body'[i] = "draining" <=> body[i] = "draining")
      BY <3>1
    <3>4. pc[t] \notin {"idle", "pop"} => held[t] \in Ids
      BY <3>2 DEF ThreadConsistent
    <3> QED BY <3>1, <3>2, <3>3, <3>4 DEF ThreadConsistent
  <2>2. CASE HourPasses(id)
    BY <2>2 DEF ThreadConsistent, HourPasses
  <2>3. CASE MonitorTick
    BY <2>3 DEF ThreadConsistent, BodyConsistent, MonitorTick, Fail, TimedOut
  <2> QED BY <2>1, <2>2, <2>3
<1>3. ASSUME NEW i \in Ids
      PROVE  BodyConsistent(i)'
  <2>1. CASE AbortTakesEffect(id) \/ TurnPanics(id)
    BY <2>1 DEF BodyConsistent, AbortTakesEffect, TurnPanics
  <2>2. CASE HourPasses(id)
    BY <2>2 DEF BodyConsistent, HourPasses
  <2>3. CASE MonitorTick
    <3>1. /\ status'[i] = IF i \in TimedOut THEN "failed" ELSE status[i]
          /\ body'[i] = IF i \in TimedOut /\ handle[i] /\ body[i] = "working" THEN "aborting" ELSE body[i]
      BY <2>3 DEF MonitorTick, Fail
    <3>2. BodyConsistent(i) /\ (i \in TimedOut => status[i] = "running")
      BY DEF TimedOut
    <3> QED BY <3>1, <3>2 DEF BodyConsistent
  <2> QED BY <2>1, <2>2, <2>3
<1> QED BY <1>2, <1>3

(* Thread consistency in every section of drain_pending. *)
LEMMA ThreadsDrain ==
  ASSUME IInv, NEW t \in Threads, DrainStep(t)
  PROVE  ThreadsConsistent'
<1> USE DEF DrainGoto, records
<1>1. TypeOK /\ QueueConsistent /\ ThreadsConsistent
  BY DEF IInv
<1>2. ThreadConsistent(t) /\ (t # Supervisor => t \in Ids)
  BY <1>1 DEF ThreadsConsistent, Threads
<1>3. CASE DrainPop(t)
  <2>1. CASE SlotFree /\ pending # <<>>
    <3>1. /\ pc' = [pc EXCEPT ![t] = "check"] /\ held' = [held EXCEPT ![t] = Head(pending)]
          /\ UNCHANGED <<status, body>>
      BY <1>3, <2>1 DEF DrainPop
    <3>2. Head(pending) \in Ids /\ Head(pending) # NoTask /\ status[Head(pending)] = "queued"
      <4>1. 1 \in 1 .. Len(pending) /\ Head(pending) = pending[1] /\ pending[1] \in Ids
        BY <1>1, <2>1 DEF TypeOK
      <4> QED BY <1>1, <4>1 DEF QueueConsistent, PendingAreQueued, Ids
    <3>3. ASSUME NEW u \in Threads
          PROVE  ThreadConsistent(u)'
      BY <1>1, <1>3, <3>1, <3>2 DEF TypeOK, ThreadsConsistent, ThreadConsistent, BodyConsistent, DrainPop
    <3>4. \A i \in Ids : BodyConsistent(i)'
      BY <1>1, <3>1 DEF ThreadsConsistent, BodyConsistent
    <3> QED BY <3>3, <3>4 DEF ThreadsConsistent
  <2>2. CASE ~(SlotFree /\ pending # <<>>)
    <3>1. /\ pc' = [pc EXCEPT ![t] = "idle"] /\ held' = [held EXCEPT ![t] = NoTask]
          /\ UNCHANGED status
          /\ body' = [id \in Ids |-> IF id = t THEN "gone" ELSE body[id]]
      BY <1>3, <2>2 DEF DrainPop
    <3>2. pc[t] = "pop" /\ (t # Supervisor => body[t] = "draining") /\ Supervisor \notin Ids
      BY <1>2, <1>3 DEF DrainPop, ThreadConsistent, Ids
    <3>3. ASSUME NEW u \in Threads
          PROVE  ThreadConsistent(u)'
      <4>1. CASE u = t
        BY <1>1, <1>2, <3>1, <4>1 DEF TypeOK, ThreadConsistent
      <4>2. CASE u # t
        <5>1. pc'[u] = pc[u] /\ held'[u] = held[u] /\ (u \in Ids => body'[u] = body[u])
          BY <1>1, <3>1, <4>2 DEF TypeOK
        <5>2. held[u] \in Ids => body'[held[u]] = body[held[u]]
                              \/ (held[u] = t /\ body[held[u]] = "draining")
          BY <1>1, <3>1, <3>2 DEF TypeOK
        <5> QED BY <1>1, <3>1, <5>1, <5>2 DEF TypeOK, ThreadsConsistent, ThreadConsistent, Threads
      <4> QED BY <4>1, <4>2
    <3>4. \A i \in Ids : BodyConsistent(i)'
      BY <1>1, <3>1, <3>2 DEF ThreadsConsistent, BodyConsistent
    <3> QED BY <3>3, <3>4 DEF ThreadsConsistent
  <2> QED BY <2>1, <2>2
<1>4. CASE DrainCheck(t)
  <2>1. /\ UNCHANGED <<status, body>> /\ pc[t] = "check"
        /\ \/ /\ pc' = [pc EXCEPT ![t] = "promote"] /\ held' = [held EXCEPT ![t] = held[t]]
           \/ /\ pc' = [pc EXCEPT ![t] = "pop"] /\ held' = [held EXCEPT ![t] = NoTask]
    BY <1>4 DEF DrainCheck
  <2>2. ASSUME NEW u \in Threads
        PROVE  ThreadConsistent(u)'
    BY <1>1, <1>2, <2>1 DEF TypeOK, ThreadsConsistent, ThreadConsistent
  <2>3. \A i \in Ids : BodyConsistent(i)'
    BY <1>1, <2>1 DEF ThreadsConsistent, BodyConsistent
  <2> QED BY <2>2, <2>3 DEF ThreadsConsistent
<1>5. pc[t] \in {"promote", "spawn", "store"} => held[t] \in Ids /\ held[t] # NoTask
  BY <1>1, <1>2 DEF TypeOK, ThreadConsistent
<1>6. \A u \in Threads : u # t /\ held[t] # NoTask => held[u] # held[t]
  BY <1>1 DEF TypeOK, QueueConsistent, HeldByOne, HeldBy
<1>7. CASE DrainPromote(t)
  <2>1. /\ status' = [status EXCEPT ![held[t]] = "running"] /\ UNCHANGED body
        /\ pc[t] = "promote" /\ pc' = [pc EXCEPT ![t] = "spawn"] /\ held' = [held EXCEPT ![t] = held[t]]
    BY <1>7 DEF DrainPromote
  <2>2. ASSUME NEW u \in Threads
        PROVE  ThreadConsistent(u)'
    BY <1>1, <1>2, <1>5, <1>6, <2>1 DEF TypeOK, ThreadsConsistent, ThreadConsistent
  <2>3. \A i \in Ids : BodyConsistent(i)'
    BY <1>1, <1>2, <1>5, <2>1 DEF TypeOK, ThreadsConsistent, ThreadConsistent, BodyConsistent
  <2> QED BY <2>2, <2>3 DEF ThreadsConsistent
<1>8. CASE DrainSpawn(t)
  <2>1. UNCHANGED status /\ pc[t] = "spawn" /\ held' = [held EXCEPT ![t] = held[t]]
    BY <1>8 DEF DrainSpawn
  <2>2. \/ t = Supervisor /\ pc' = [pc EXCEPT ![t] = "dead"] /\ UNCHANGED body
        \/ t # Supervisor /\ pc' = [pc EXCEPT ![t] = "store"] /\ body' = [body EXCEPT ![held[t]] = "working"]
    BY <1>8 DEF DrainSpawn
  <2>3. body[held[t]] = "none" /\ status[held[t]] \notin {"absent", "queued"}
    BY <1>2, <2>1 DEF ThreadConsistent
  <2>4. ASSUME NEW u \in Threads
        PROVE  ThreadConsistent(u)'
    <3>1. CASE u = t
      BY <1>1, <1>2, <1>5, <2>1, <2>2, <2>3, <3>1 DEF TypeOK, ThreadConsistent
    <3>2. CASE u # t
      <4>1. pc'[u] = pc[u] /\ held'[u] = held[u] /\ (u \in Ids => (body'[u] = "draining" <=> body[u] = "draining"))
        BY <1>1, <1>5, <2>1, <2>2, <2>3, <3>2 DEF TypeOK
      <4>2. held[u] \in Ids => body'[held[u]] = body[held[u]]
        BY <1>1, <1>5, <1>6, <2>1, <2>2, <3>2 DEF TypeOK
      <4> QED BY <1>1, <2>1, <4>1, <4>2 DEF TypeOK, ThreadsConsistent, ThreadConsistent, Threads
    <3> QED BY <3>1, <3>2
  <2>5. \A i \in Ids : BodyConsistent(i)'
    BY <1>1, <1>5, <2>1, <2>2, <2>3 DEF TypeOK, ThreadsConsistent, BodyConsistent
  <2> QED BY <2>4, <2>5 DEF ThreadsConsistent
<1>9. CASE DrainStore(t)
  <2>1. /\ UNCHANGED <<status, body>> /\ pc[t] = "store"
        /\ pc' = [pc EXCEPT ![t] = "pop"] /\ held' = [held EXCEPT ![t] = NoTask]
    BY <1>9 DEF DrainStore
  <2>2. ASSUME NEW u \in Threads
        PROVE  ThreadConsistent(u)'
    BY <1>1, <1>2, <2>1 DEF TypeOK, ThreadsConsistent, ThreadConsistent
  <2>3. \A i \in Ids : BodyConsistent(i)'
    BY <1>1, <2>1 DEF ThreadsConsistent, BodyConsistent
  <2> QED BY <2>2, <2>3 DEF ThreadsConsistent
<1> QED BY <1>3, <1>4, <1>7, <1>8, <1>9 DEF DrainStep

-----------------------------------------------------------------------------
(* The inductive invariant holds initially. *)
LEMMA InitIInv == Init => IInv
<1> SUFFICES ASSUME Init PROVE IInv
  OBVIOUS
<1> USE TasksAssumption DEF Init
<1>1. TypeOK
  BY DEF TypeOK
<1>2. QueueConsistent
  BY DEF QueueConsistent, PendingAreQueued, PendingAreDistinct, HeldByOne, HeldLeftQueue,
         QueuedNotLost, HeldBy, InQueue
<1>3. ThreadsConsistent
  BY DEF ThreadsConsistent, ThreadConsistent, BodyConsistent, Threads, Ids
<1> QED BY <1>1, <1>2, <1>3 DEF IInv

(* The inductive invariant survives every step. *)
LEMMA NextIInv == IInv /\ [Next]_vars => IInv'
<1> SUFFICES ASSUME IInv, [Next]_vars PROVE IInv'
  OBVIOUS
<1>0. TypeOK
  BY DEF IInv
<1>1. ASSUME NEW quiet \in BOOLEAN, SpawnQueued(quiet)
      PROVE  IInv'
  BY <1>0, <1>1, TypeSpawnQueued, QueueSpawnQueued, ThreadsSpawn DEF IInv
<1>2. ASSUME NEW quiet \in BOOLEAN, SpawnLaunched(quiet)
      PROVE  IInv'
  <2>1. QueueConsistent'
    <3>1. CASE Ids = {}
      BY <1>2, <3>1 DEF SpawnLaunched
    <3>2. CASE Ids # {}
      BY <1>2, <3>2, QueueOther DEF Outcome
    <3> QED BY <3>1, <3>2
  <2> QED BY <1>0, <1>2, <2>1, TypeSpawnLaunched, ThreadsSpawn DEF IInv
<1>3. CASE SpawnRefused
  <2>1. QueueConsistent'
    <3>1. nextId \in Ids
      BY <1>3 DEF SpawnRefused
    <3> QED BY <1>3, <3>1, QueueOther DEF Outcome
  <2> QED BY <1>0, <1>3, <2>1, TypeSpawnRefused, ThreadsSpawn DEF IInv
<1>4. ASSUME NEW id \in Ids, CancelQueued(id)
      PROVE  IInv'
  BY <1>0, <1>4, TypeCancelQueued, QueueCancelQueued, ThreadsCancel DEF IInv
<1>5. ASSUME NEW id \in Ids, CancelRunning(id)
      PROVE  IInv'
  BY <1>0, <1>5, TypeCancelRunning, QueueOther, ThreadsCancel DEF IInv, Outcome
<1>6. ASSUME NEW id \in Ids, NEW outcome \in Outcome, TurnReturns(id, outcome)
      PROVE  IInv'
  BY <1>0, <1>6, TypeTurnReturns, QueueOther, ThreadsTurnReturns DEF IInv
<1>7. ASSUME NEW id \in Ids, AbortTakesEffect(id) \/ TurnPanics(id) \/ HourPasses(id)
      PROVE  IInv'
  BY <1>0, <1>7, TypeOther, QueueOther, ThreadsOther DEF IInv, Outcome
<1>8. CASE MonitorTick
  <2>1. QueueConsistent' /\ ThreadsConsistent'
    <3>1. CASE Ids # {}
      BY <1>8, <3>1, QueueOther, ThreadsOther DEF Outcome
    <3>2. CASE Ids = {}
      <4>1. pc[Supervisor] = "idle" /\ UNCHANGED <<pending, held>> /\ pc' = [pc EXCEPT ![Supervisor] = "pop"]
        BY <1>8 DEF MonitorTick
      <4>2. Len(pending) = 0
        BY <1>0, <3>2 DEF TypeOK
      <4>3. \A t \in Threads : t = Supervisor
        BY <3>2 DEF Threads
      <4> QED BY <1>0, <3>2, <4>1, <4>2, <4>3
              DEF TypeOK, IInv, QueueConsistent, ThreadsConsistent, ThreadConsistent, PendingAreQueued,
                  PendingAreDistinct, HeldByOne, HeldLeftQueue, QueuedNotLost
    <3> QED BY <3>1, <3>2
  <2> QED BY <1>0, <1>8, <2>1, TypeMonitorTick DEF IInv
<1>9. ASSUME NEW t \in Threads, DrainStep(t)
      PROVE  IInv'
  BY <1>9, TypeDrain, QueueDrainPop, QueueDrainRest, ThreadsDrain DEF IInv, DrainStep
<1>10. CASE UNCHANGED vars
  BY <1>10 DEF vars, IInv, TypeOK, QueueConsistent, PendingAreQueued, PendingAreDistinct, HeldByOne,
     HeldLeftQueue, QueuedNotLost, HeldBy, InQueue, ThreadsConsistent, ThreadConsistent, BodyConsistent
<1> QED BY <1>1, <1>2, <1>3, <1>4, <1>5, <1>6, <1>7, <1>8, <1>9, <1>10 DEF Next

(* The map, the queue and the draining threads stay in step in every       *)
(* interleaving of spawns, cancellations, outcomes, ticks and drains.      *)
THEOREM IInvHolds == Spec => []IInv
BY InitIInv, NextIInv, PTL DEF Spec

(* Type correctness. *)
THEOREM TypeCorrect == Spec => []TypeOK
<1>1. IInv => TypeOK
  BY DEF IInv
<1> QED BY IInvHolds, <1>1, PTL

(* No queued task is lost or duplicated: it is in the queue once, or in    *)
(* the hands of one draining thread.                                       *)
THEOREM QueueIsConsistent == Spec => []QueueConsistent
<1>1. IInv => QueueConsistent
  BY DEF IInv
<1> QED BY IInvHolds, <1>1, PTL

(* A draining thread's position agrees with the task it holds. *)
THEOREM ThreadsAreConsistent == Spec => []ThreadsConsistent
<1>1. IInv => ThreadsConsistent
  BY DEF IInv
<1> QED BY IInvHolds, <1>1, PTL

-----------------------------------------------------------------------------
(* No task is executed twice: a body is spawned for a new id or for a task *)
(* a draining thread holds, and neither has one yet.                       *)
THEOREM NoSecondStart == Spec => StartsOnce
<1> DEFINE Once(id) == body[id] # "none" /\ body'[id] = "working" => body[id] = "working"
<1>1. IInv /\ [Next]_vars => [\A id \in Ids : Once(id)]_vars
  <2> SUFFICES ASSUME IInv, Next, NEW id \in Ids
               PROVE  Once(id)
    OBVIOUS
  <2>1. TypeOK /\ ThreadsConsistent
    BY DEF IInv
  <2>2. ASSUME NEW quiet \in BOOLEAN, SpawnLaunched(quiet)
        PROVE  Once(id)
    BY <2>1, <2>2 DEF SpawnLaunched, TypeOK
  <2>3. ASSUME NEW t \in Threads, DrainStep(t)
        PROVE  Once(id)
    <3>1. CASE DrainPop(t)
      BY <2>1, <3>1 DEF DrainPop, TypeOK
    <3>2. CASE DrainSpawn(t)
      <4>1. held[t] \in Ids /\ body[held[t]] = "none"
        <5>1. pc[t] = "spawn" /\ ThreadConsistent(t) /\ held[t] \in Ids \cup {NoTask}
          BY <2>1, <3>2 DEF DrainSpawn, TypeOK, ThreadsConsistent
        <5> QED BY <5>1 DEF ThreadConsistent
      <4> QED BY <2>1, <3>2, <4>1 DEF DrainSpawn, TypeOK
    <3>3. CASE DrainCheck(t) \/ DrainPromote(t) \/ DrainStore(t)
      BY <3>3 DEF DrainCheck, DrainPromote, DrainStore
    <3> QED BY <2>3, <3>1, <3>2, <3>3 DEF DrainStep
  <2>4. ASSUME NEW x \in Ids, NEW outcome \in Outcome, TurnReturns(x, outcome)
        PROVE  Once(id)
    BY <2>1, <2>4 DEF TurnReturns, BeginDrain, TypeOK
  <2>5. ASSUME NEW x \in Ids, CancelRunning(x) \/ AbortTakesEffect(x) \/ TurnPanics(x)
        PROVE  Once(id)
    BY <2>1, <2>5 DEF CancelRunning, RequestAbort, AbortTakesEffect, TurnPanics, TypeOK
  <2>6. CASE MonitorTick
    BY <2>1, <2>6 DEF MonitorTick, TypeOK
  <2>7. ASSUME UNCHANGED body
        PROVE  Once(id)
    BY <2>7
  <2> QED BY <2>2, <2>3, <2>4, <2>5, <2>6, <2>7 DEF Next, SpawnQueued, SpawnRefused, CancelQueued, HourPasses
<1> QED BY <1>1, IInvHolds, PTL DEF Spec, StartsOnce

(* A cancellation that finds the body started is final: a turn's outcome,  *)
(* a timeout and a drain all leave the record cancelled.                   *)
THEOREM CancelSticks == Spec => CancelSticksOnceStarted
<1> DEFINE Sticks(id) == status[id] = "cancelled" /\ body[id] # "none" => status'[id] = "cancelled"
<1>1. IInv /\ [Next]_vars => [\A id \in Ids : Sticks(id)]_vars
  <2> SUFFICES ASSUME IInv, Next, NEW id \in Ids
               PROVE  Sticks(id)
    OBVIOUS
  <2>1. TypeOK /\ ThreadsConsistent
    BY DEF IInv
  <2>2. ASSUME NEW quiet \in BOOLEAN, SpawnQueued(quiet) \/ SpawnLaunched(quiet)
        PROVE  Sticks(id)
    BY <2>1, <2>2 DEF SpawnQueued, SpawnLaunched, TypeOK
  <2>3. ASSUME NEW t \in Threads, DrainPromote(t)
        PROVE  Sticks(id)
    BY <2>1, <2>3 DEF DrainPromote, TypeOK, ThreadsConsistent, ThreadConsistent
  <2>4. ASSUME NEW x \in Ids, NEW outcome \in Outcome, TurnReturns(x, outcome)
        PROVE  Sticks(id)
    BY <2>1, <2>4 DEF TurnReturns, IsCancelled, TypeOK
  <2>5. ASSUME NEW x \in Ids, CancelQueued(x) \/ CancelRunning(x)
        PROVE  Sticks(id)
    BY <2>1, <2>5 DEF CancelQueued, CancelRunning, TypeOK
  <2>6. CASE MonitorTick
    BY <2>1, <2>6 DEF MonitorTick, Fail, TimedOut, TypeOK
  <2>7. ASSUME UNCHANGED status
        PROVE  Sticks(id)
    BY <2>7
  <2> QED BY <2>2, <2>3, <2>4, <2>5, <2>6, <2>7
          DEF Next, SpawnRefused, AbortTakesEffect, TurnPanics, HourPasses, DrainStep, DrainPop, DrainCheck,
              DrainSpawn, DrainStore, records
<1> QED BY <1>1, IInvHolds, PTL DEF Spec, CancelSticksOnceStarted

(* A task that occupies a slot has a live body or is about to get one; only *)
(* a task whose turn panicked and the task of a panicked supervisor keep a  *)
(* slot for nothing.                                                        *)
THEOREM SlotsAreLive == Spec => []RunningIsLive
<1> DEFINE Live(id) == \/ body[id] \in {"working", "panicked"}
                       \/ \E t \in Threads : HeldBy(t, id) /\ pc[t] \in {"spawn", "dead"}
<1>1. Init => RunningIsLive
  BY DEF Init, RunningIsLive, Running
<1>2. IInv /\ RunningIsLive /\ [Next]_vars => RunningIsLive'
  <2> SUFFICES ASSUME IInv, RunningIsLive, [Next]_vars, NEW id \in Ids, status'[id] = "running"
               PROVE  Live(id)'
    BY DEF RunningIsLive, Running
  <2>1. TypeOK /\ ThreadsConsistent /\ (status[id] = "running" => Live(id))
    <3>1. TypeOK /\ ThreadsConsistent
      BY DEF IInv
    <3>2. status[id] = "running" => Live(id)
      BY DEF RunningIsLive, Running
    <3> QED BY <3>1, <3>2
  <2> USE DEF HeldBy
  <2>2. ASSUME NEW quiet \in BOOLEAN, SpawnQueued(quiet) \/ SpawnLaunched(quiet) \/ SpawnRefused
        PROVE  Live(id)'
    BY <2>1, <2>2 DEF SpawnQueued, SpawnLaunched, SpawnRefused, TypeOK
  <2>3. ASSUME NEW x \in Ids, CancelQueued(x) \/ CancelRunning(x)
        PROVE  Live(id)'
    BY <2>1, <2>3 DEF CancelQueued, CancelRunning, RequestAbort, TypeOK
  <2>4. ASSUME NEW x \in Ids, NEW outcome \in Outcome, TurnReturns(x, outcome)
        PROVE  Live(id)'
    <3>1. pc[x] = "idle"
      BY <2>1, <2>4, TasksAssumption DEF TurnReturns, ThreadsConsistent, ThreadConsistent, Threads, Ids
    <3>2. \A t \in Threads : pc[t] \in {"spawn", "dead"} => pc'[t] = pc[t] /\ held'[t] = held[t]
      BY <2>1, <2>4, <3>1 DEF TurnReturns, BeginDrain, TypeOK
    <3>3. x # id /\ status[id] = "running"
      BY <2>1, <2>4 DEF TurnReturns, IsCancelled, TypeOK, Outcome
    <3>4. body'[id] = body[id]
      BY <2>1, <2>4, <3>3 DEF TurnReturns, BeginDrain, TypeOK
    <3> QED BY <2>1, <3>2, <3>3, <3>4
  <2>5. ASSUME NEW x \in Ids, AbortTakesEffect(x) \/ TurnPanics(x) \/ HourPasses(x)
        PROVE  Live(id)'
    <3>1. UNCHANGED <<status, pc, held>> /\ status[id] = "running"
      BY <2>5 DEF AbortTakesEffect, TurnPanics, HourPasses
    <3>2. body[id] \in {"working", "panicked"} => body'[id] \in {"working", "panicked"}
      BY <2>1, <2>5 DEF AbortTakesEffect, TurnPanics, HourPasses, TypeOK
    <3> QED BY <2>1, <3>1, <3>2
  <2>6. CASE MonitorTick
    <3>1. status[id] = "running" /\ body'[id] = body[id]
      BY <2>1, <2>6 DEF MonitorTick, Fail, TypeOK
    <3>2. \A t \in Threads : pc[t] \in {"spawn", "dead"} => pc'[t] = pc[t] /\ held'[t] = held[t]
      BY <2>1, <2>6 DEF MonitorTick, TypeOK
    <3> QED BY <2>1, <3>1, <3>2
  <2>7. ASSUME NEW t \in Threads, DrainStep(t)
        PROVE  Live(id)'
    <3> USE DEF DrainGoto, records
    <3>1. pc[t] \notin {"spawn", "dead"} =>
            \A u \in Threads : pc[u] \in {"spawn", "dead"} => pc'[u] = pc[u] /\ held'[u] = held[u]
      BY <2>1, <2>7 DEF DrainStep, DrainPop, DrainCheck, DrainPromote, DrainSpawn, DrainStore, TypeOK
    <3>2. CASE DrainPop(t)
      <4>1. status[id] = "running" /\ pc[t] = "pop"
        BY <3>2 DEF DrainPop
      <4>2. body[id] \in {"working", "panicked"} => body'[id] = body[id]
        <5>1. body[id] \in {"working", "panicked"} => id # t
          BY <2>1, <4>1, TasksAssumption DEF ThreadsConsistent, ThreadConsistent, Threads, Ids
        <5>2. body' = [i \in Ids |-> IF i = t THEN "gone" ELSE body[i]] \/ UNCHANGED body
          BY <3>2 DEF DrainPop
        <5> QED BY <5>1, <5>2
      <4> QED BY <2>1, <3>1, <4>1, <4>2
    <3>3. CASE DrainCheck(t) \/ DrainStore(t)
      <4>1. status[id] = "running" /\ pc[t] \in {"check", "store"} /\ UNCHANGED body
        BY <3>3 DEF DrainCheck, DrainStore
      <4> QED BY <2>1, <3>1, <4>1
    <3>4. CASE DrainPromote(t)
      <4>1. pc[t] = "promote" /\ held[t] # NoTask /\ UNCHANGED body
        BY <2>1, <3>4 DEF DrainPromote, ThreadsConsistent, ThreadConsistent
      <4>2. CASE id = held[t]
        BY <2>1, <3>4, <4>1, <4>2 DEF DrainPromote, TypeOK
      <4>3. CASE id # held[t]
        BY <2>1, <3>1, <3>4, <4>1, <4>3 DEF DrainPromote, TypeOK
      <4> QED BY <4>2, <4>3
    <3>5. CASE DrainSpawn(t)
      <4>1. status[id] = "running" /\ pc[t] = "spawn" /\ held[t] # NoTask
        BY <2>1, <3>5 DEF DrainSpawn, ThreadsConsistent, ThreadConsistent
      <4>2. CASE t = Supervisor
        <5>1. pc' = [pc EXCEPT ![t] = "dead"] /\ held' = [held EXCEPT ![t] = held[t]] /\ UNCHANGED body
          BY <3>5, <4>2 DEF DrainSpawn
        <5> QED BY <2>1, <4>1, <5>1 DEF TypeOK
      <4>3. CASE t # Supervisor
        <5>1. /\ pc' = [pc EXCEPT ![t] = "store"] /\ held' = [held EXCEPT ![t] = held[t]]
              /\ body' = [body EXCEPT ![held[t]] = "working"]
          BY <3>5, <4>3 DEF DrainSpawn
        <5> QED BY <2>1, <4>1, <5>1 DEF TypeOK
      <4> QED BY <4>2, <4>3
    <3> QED BY <2>7, <3>2, <3>3, <3>4, <3>5 DEF DrainStep
  <2>8. CASE UNCHANGED vars
    BY <2>1, <2>8 DEF vars
  <2> QED BY <2>2, <2>3, <2>4, <2>5, <2>6, <2>7, <2>8 DEF Next
<1> QED BY <1>1, <1>2, IInvHolds, PTL DEF Spec

-----------------------------------------------------------------------------
(* What is published about a task: nothing, or one notice, which is never  *)
(* about a cancelled task and tells an outcome the step records.           *)
Silence(id) ==
  /\ notices'[id] = notices[id]
  /\ status'[id] \in {"completed", "failed"} /\ ~silent'[id] =>
       status'[id] = status[id] /\ silent'[id] = silent[id]
Tells(id, n) ==
  /\ notices'[id] = Append(notices[id], n)
  /\ status[id] # "cancelled"
  /\ n = "cancelled" => status[id] = "running" /\ status'[id] = "cancelled"
  /\ status'[id] = "completed" => n = "completed"
  /\ status'[id] = "failed" => n \in {"failed", "timedout"}
SpeaksWell(id) == Silence(id) \/ \E n \in Notice : Tells(id, n)

LEMMA NoticesGrow ==
  ASSUME IInv, Next, NEW id \in Ids
  PROVE  SpeaksWell(id)
<1> TypeOK
  BY DEF IInv
<1> USE DEF SpeaksWell, Silence, Tells
<1>1. ASSUME NEW quiet \in BOOLEAN, SpawnQueued(quiet)
      PROVE  SpeaksWell(id)
  <2>1. status[nextId] = "absent" /\ nextId \in Ids
    BY <1>1 DEF SpawnQueued, TypeOK, Ids
  <2>2. CASE id # nextId
    BY <1>1, <2>1, <2>2 DEF SpawnQueued, TypeOK, Publish
  <2>3. CASE id = nextId /\ quiet
    BY <1>1, <2>1, <2>3 DEF SpawnQueued, TypeOK
  <2>4. CASE id = nextId /\ ~quiet
    BY <1>1, <2>1, <2>4 DEF SpawnQueued, TypeOK, Publish
  <2> QED BY <2>2, <2>3, <2>4
<1>2. ASSUME NEW quiet \in BOOLEAN, SpawnLaunched(quiet)
      PROVE  SpeaksWell(id)
  BY <1>2 DEF SpawnLaunched, TypeOK
<1>3. ASSUME NEW x \in Ids, CancelQueued(x)
      PROVE  SpeaksWell(id)
  BY <1>3 DEF CancelQueued, TypeOK
<1>4. ASSUME NEW x \in Ids, CancelRunning(x)
      PROVE  SpeaksWell(id)
  BY <1>4 DEF CancelRunning, TypeOK, Publish
<1>5. ASSUME NEW x \in Ids, NEW outcome \in Outcome, TurnReturns(x, outcome)
      PROVE  SpeaksWell(id)
  <2>1. CASE id # x \/ IsCancelled(x)
    BY <1>5, <2>1 DEF TurnReturns, TypeOK, Publish, PublishUnlessSilent
  <2>2. CASE id = x /\ ~IsCancelled(x)
    <3>1. status'[x] = outcome /\ silent'[x] = silent[x] /\ status[x] # "cancelled"
      BY <1>5, <2>2 DEF TurnReturns, TypeOK, IsCancelled
    <3>2. outcome \in Notice /\ outcome \in {"completed", "failed"}
      BY DEF Outcome
    <3>3. CASE silent[x]
      BY <1>5, <2>2, <3>1, <3>3 DEF TurnReturns, PublishUnlessSilent
    <3>4. CASE ~silent[x]
      <4>1. notices'[x] = Append(notices[x], outcome)
        BY <1>5, <2>2, <3>4 DEF TurnReturns, PublishUnlessSilent, Publish, TypeOK
      <4>2. Tells(x, outcome)
        BY <3>1, <3>2, <4>1
      <4> QED BY <2>2, <3>2, <4>2
    <3> QED BY <3>3, <3>4
  <2> QED BY <2>1, <2>2
<1>6. CASE MonitorTick
  <2>1. CASE id \in TimedOut
    <3>1. status[id] = "running" /\ status'[id] = "failed" /\ silent'[id] = silent[id]
      BY <1>6, <2>1 DEF MonitorTick, Fail, TimedOut
    <3>2. CASE silent[id]
      BY <1>6, <2>1, <3>1, <3>2 DEF MonitorTick
    <3>3. CASE ~silent[id]
      <4>1. notices'[id] = Append(notices[id], "timedout")
        BY <1>6, <2>1, <3>3 DEF MonitorTick
      <4>2. Tells(id, "timedout")
        BY <3>1, <4>1
      <4> QED BY <4>2
    <3> QED BY <3>2, <3>3
  <2>2. CASE id \notin TimedOut
    BY <1>6, <2>2 DEF MonitorTick, Fail
  <2> QED BY <2>1, <2>2
<1>7. ASSUME NEW t \in Threads, DrainStep(t)
      PROVE  SpeaksWell(id)
  <2>1. CASE DrainPromote(t)
    BY <2>1 DEF DrainPromote, TypeOK
  <2>2. CASE DrainPop(t) \/ DrainCheck(t) \/ DrainSpawn(t) \/ DrainStore(t)
    BY <2>2 DEF DrainPop, DrainCheck, DrainSpawn, DrainStore, records
  <2> QED BY <1>7, <2>1, <2>2 DEF DrainStep
<1>8. ASSUME UNCHANGED <<status, silent, notices>>
      PROVE  SpeaksWell(id)
  BY <1>8
<1> QED BY <1>1, <1>2, <1>3, <1>4, <1>5, <1>6, <1>7, <1>8
        DEF Next, SpawnRefused, AbortTakesEffect, TurnPanics, HourPasses

(* A task cancelled while it ran stays cancelled: no draining thread is    *)
(* about to promote it, and none will be.                                  *)
Final(id) ==
  status[id] = "cancelled" /\ \A t \in Threads : held[t] = id => pc[t] \notin {"check", "promote"}

LEMMA FinalStays ==
  ASSUME IInv, Next, NEW id \in Ids, Final(id) \/ CancelRunning(id)
  PROVE  Final(id)'
<1> TypeOK /\ QueueConsistent /\ ThreadsConsistent
  BY DEF IInv
<1>1. CASE CancelRunning(id)
  BY <1>1 DEF CancelRunning, Final, TypeOK, ThreadsConsistent, ThreadConsistent
<1>2. ASSUME Final(id), NEW t \in Threads, DrainStep(t)
      PROVE  Final(id)'
  <2> USE <1>2 DEF Final, DrainGoto
  <2>1. CASE DrainPop(t)
    <3>1. pending # <<>> => Head(pending) # id
      <4>1. pending \in Seq(Ids) /\ PendingAreQueued
        BY DEF QueueConsistent, TypeOK
      <4>2. pending # <<>> => 1 \in 1 .. Len(pending) /\ Head(pending) = pending[1]
        BY <4>1
      <4>3. pending # <<>> => status[Head(pending)] = "queued"
        BY <4>1, <4>2 DEF PendingAreQueued
      <4> QED BY <4>3
    <3>2. /\ held' \in {[held EXCEPT ![t] = NoTask], [held EXCEPT ![t] = Head(pending)]}
          /\ held'[t] # id /\ UNCHANGED status
      <4>1. id # NoTask
        BY TasksAssumption DEF Ids
      <4> QED BY <2>1, <3>1, <4>1 DEF DrainPop, TypeOK, records
    <3>3. \A u \in Threads : u # t => held'[u] = held[u] /\ pc'[u] = pc[u]
      BY <2>1, <3>2 DEF DrainPop, TypeOK
    <3> QED BY <3>2, <3>3
  <2>2. CASE DrainCheck(t)
    BY <2>2 DEF DrainCheck, TypeOK, Ids, records
  <2>3. CASE DrainPromote(t)
    <3>1. held[t] # id
      BY <2>3 DEF DrainPromote
    <3> QED BY <2>3, <3>1 DEF DrainPromote, TypeOK
  <2>4. CASE DrainSpawn(t)
    BY <2>4 DEF DrainSpawn, TypeOK, records
  <2>5. CASE DrainStore(t)
    BY <2>5 DEF DrainStore, TypeOK, Ids
  <2> QED BY <2>1, <2>2, <2>3, <2>4, <2>5 DEF DrainStep
<1>3. ASSUME Final(id), NEW x \in Ids, NEW outcome \in Outcome, TurnReturns(x, outcome)
      PROVE  Final(id)'
  BY <1>3 DEF Final, TurnReturns, IsCancelled, BeginDrain, TypeOK
<1>4. ASSUME Final(id), NEW quiet \in BOOLEAN, SpawnQueued(quiet) \/ SpawnLaunched(quiet)
      PROVE  Final(id)'
  <2>1. status'[id] = "cancelled"
    <3>1. nextId \in Ids /\ status[nextId] = "absent" /\ status[id] = "cancelled"
      BY <1>4 DEF Final, SpawnQueued, SpawnLaunched, TypeOK, Ids
    <3>2. status' \in {[status EXCEPT ![nextId] = s] : s \in {"queued", "running"}}
      BY <1>4 DEF SpawnQueued, SpawnLaunched
    <3> QED BY <3>1, <3>2 DEF TypeOK
  <2>2. UNCHANGED <<pc, held>>
    BY <1>4 DEF SpawnQueued, SpawnLaunched
  <2> QED BY <1>4, <2>1, <2>2 DEF Final
<1>5. ASSUME Final(id), NEW x \in Ids, CancelQueued(x) \/ CancelRunning(x)
      PROVE  Final(id)'
  BY <1>5 DEF Final, CancelQueued, CancelRunning, TypeOK
<1>6. CASE Final(id) /\ MonitorTick
  BY <1>6 DEF Final, MonitorTick, Fail, TimedOut, TypeOK
<1>7. ASSUME Final(id), UNCHANGED <<status, pc, held>>
      PROVE  Final(id)'
  BY <1>7 DEF Final
<1> QED BY <1>1, <1>2, <1>3, <1>4, <1>5, <1>6, <1>7
        DEF Next, SpawnRefused, AbortTakesEffect, TurnPanics, HourPasses

(* Only cancel_task takes a running task to cancelled. *)
LEMMA CancelRuns ==
  ASSUME IInv, Next, NEW id \in Ids, status[id] = "running", status'[id] = "cancelled"
  PROVE  Final(id)'
<1> TypeOK /\ ThreadsConsistent
  BY DEF IInv
<1>1. CancelRunning(id)
  <2>1. ASSUME NEW x \in Ids, x # id PROVE ~CancelRunning(x)
    BY <2>1 DEF CancelRunning, TypeOK
  <2>2. ASSUME NEW t \in Threads PROVE ~DrainStep(t)
    BY <2>2 DEF DrainStep, DrainPop, DrainCheck, DrainPromote, DrainSpawn, DrainStore, records, TypeOK,
                ThreadsConsistent, ThreadConsistent
  <2>3. ASSUME NEW quiet \in BOOLEAN PROVE ~SpawnQueued(quiet) /\ ~SpawnLaunched(quiet)
    BY DEF SpawnQueued, SpawnLaunched, TypeOK
  <2>4. ASSUME NEW x \in Ids PROVE ~CancelQueued(x) /\ ~AbortTakesEffect(x) /\ ~TurnPanics(x) /\ ~HourPasses(x)
    BY DEF CancelQueued, AbortTakesEffect, TurnPanics, HourPasses, TypeOK
  <2>5. ASSUME NEW x \in Ids, NEW outcome \in Outcome PROVE ~TurnReturns(x, outcome)
    BY DEF TurnReturns, IsCancelled, TypeOK, Outcome
  <2>6. ~MonitorTick /\ ~SpawnRefused
    BY DEF MonitorTick, Fail, SpawnRefused
  <2> QED BY <2>1, <2>2, <2>3, <2>4, <2>5, <2>6 DEF Next
<1> QED BY <1>1, FinalStays

(* The notice of a cancellation was the last, and stays so because the     *)
(* task does.                                                              *)
Noted(id) == \E i \in 1 .. Len(notices[id]) : notices[id][i] = "cancelled"
ReportsInv ==
  IInv /\ (\A id \in Ids : Noted(id) => Final(id)) /\ ReportsInOrder

LEMMA ReportsInvStep == ReportsInv /\ [Next]_vars => ReportsInv'
<1> SUFFICES ASSUME ReportsInv, [Next]_vars PROVE ReportsInv'
  OBVIOUS
<1>1. CASE UNCHANGED vars
  <2>1. IInv'
    BY <1>1, NextIInv DEF ReportsInv
  <2>2. (\A id \in Ids : Noted(id) => Final(id))'
    BY <1>1 DEF vars, ReportsInv, Noted, Final
  <2>3. ReportsInOrder'
    BY <1>1 DEF vars, ReportsInv, ReportsInOrder, CancelNoticeIsLast, LastNoticeTellsOutcome, LastNotice
  <2> QED BY <2>1, <2>2, <2>3 DEF ReportsInv
<1>2. CASE Next
  <2>1. IInv /\ IInv' /\ TypeOK /\ notices \in [Ids -> Seq(Notice)]
    BY NextIInv DEF ReportsInv, IInv, TypeOK
  <2>2. ASSUME NEW id \in Ids
        PROVE  /\ Noted(id)' => Final(id)'
               /\ (\A i \in 1 .. Len(notices[id]) : notices[id][i] = "cancelled" => i = Len(notices[id]))'
               /\ (status[id] \in {"completed", "failed"} /\ ~silent[id] =>
                    /\ notices[id] # <<>>
                    /\ LastNotice(id) \in IF status[id] = "completed" THEN {"completed"} ELSE {"failed", "timedout"})'
    <3>1. notices[id] \in Seq(Notice)
      BY <2>1
    <3>2. CASE Silence(id)
      <4>1. Noted(id)' => Final(id)'
        BY <1>2, <2>1, <3>2, FinalStays DEF Silence, Noted, ReportsInv
      <4> QED BY <3>2, <4>1
              DEF Silence, ReportsInv, ReportsInOrder, CancelNoticeIsLast, LastNoticeTellsOutcome, LastNotice
    <3>3. ASSUME NEW n \in Notice, Tells(id, n)
          PROVE  /\ Noted(id)' => Final(id)'
                 /\ (\A i \in 1 .. Len(notices[id]) : notices[id][i] = "cancelled" => i = Len(notices[id]))'
                 /\ (status[id] \in {"completed", "failed"} /\ ~silent[id] =>
                      /\ notices[id] # <<>>
                      /\ LastNotice(id) \in IF status[id] = "completed" THEN {"completed"} ELSE {"failed", "timedout"})'
      <4>1. ~Noted(id)
        BY <3>3 DEF Tells, ReportsInv, Final
      <4>2. /\ Len(notices'[id]) = Len(notices[id]) + 1 /\ Len(notices[id]) \in Nat
            /\ \A i \in 1 .. Len(notices[id]) : notices'[id][i] = notices[id][i]
            /\ notices'[id][Len(notices[id]) + 1] = n
        BY <3>1, <3>3 DEF Tells
      <4>3. \A i \in 1 .. Len(notices'[id]) : notices'[id][i] = "cancelled" => i = Len(notices'[id]) /\ n = "cancelled"
        <5> SUFFICES ASSUME NEW i \in 1 .. Len(notices'[id]), notices'[id][i] = "cancelled"
                     PROVE  i = Len(notices[id]) + 1 /\ n = "cancelled"
          BY <4>2
        <5>1. i \in 1 .. Len(notices[id]) \/ i = Len(notices[id]) + 1
          BY <4>2
        <5>2. i \notin 1 .. Len(notices[id])
          BY <4>1, <4>2 DEF Noted
        <5> QED BY <4>2, <5>1, <5>2
      <4>4. notices'[id] # <<>> /\ LastNotice(id)' = n
        BY <4>2 DEF LastNotice
      <4>5. Noted(id)' => Final(id)'
        <5>1. Noted(id)' => n = "cancelled"
          BY <4>3 DEF Noted
        <5>2. n = "cancelled" => Final(id)'
          BY <1>2, <2>1, <3>3, CancelRuns DEF Tells
        <5> QED BY <5>1, <5>2
      <4> QED BY <3>3, <4>3, <4>4, <4>5 DEF Tells
    <3> QED BY <1>2, <2>1, <3>2, <3>3, NoticesGrow DEF SpeaksWell
  <2> QED BY <2>1, <2>2 DEF ReportsInv, ReportsInOrder, CancelNoticeIsLast, LastNoticeTellsOutcome
<1> QED BY <1>1, <1>2

(* After the notice of a cancellation nothing is published about a task,   *)
(* and the last notice of one that has ended tells how (cancel_task, the   *)
(* body's outcome and monitor_tick).                                       *)
THEOREM ReportsAreInOrder == Spec => []ReportsInOrder
<1>1. Init => ReportsInv
  <2>1. Init => ReportsInOrder /\ \A id \in Ids : Noted(id) => Final(id)
    BY DEF Init, ReportsInOrder, CancelNoticeIsLast, LastNoticeTellsOutcome, Noted
  <2> QED BY <2>1, InitIInv DEF ReportsInv
<1>2. ReportsInv => ReportsInOrder
  BY DEF ReportsInv
<1> QED BY <1>1, <1>2, ReportsInvStep, PTL DEF Spec

-----------------------------------------------------------------------------
(* The pool implements TaskPool. *)

(* What counts as started depends on who has a body and on the hands that  *)
(* are about to spawn one.                                                 *)
LEMMA StartedFrame ==
  ASSUME \A id \in Ids : body'[id] = "none" <=> body[id] = "none",
         \A t \in Threads, id \in Ids :
           (HeldBy(t, id) /\ pc[t] \in {"spawn", "dead"})' <=> HeldBy(t, id) /\ pc[t] \in {"spawn", "dead"}
  PROVE  Started' = Started
BY DEF Started

(* Spawning, cancelling, timing out and the outcome of a turn are steps of *)
(* TaskPool, whatever the draining threads hold.                           *)
LEMMA CallersStepImplements ==
  ASSUME IInv, IInv',
         \/ \E quiet \in BOOLEAN : SpawnQueued(quiet) \/ SpawnLaunched(quiet)
         \/ SpawnRefused
         \/ \E id \in Ids : CancelQueued(id) \/ CancelRunning(id)
         \/ \E id \in Ids, outcome \in Outcome : TurnReturns(id, outcome)
         \/ \E id \in Ids : AbortTakesEffect(id) \/ TurnPanics(id) \/ HourPasses(id)
         \/ MonitorTick
  PROVE  Pool!PoolStep \/ UNCHANGED <<status, Started>>
<1>0. /\ TypeOK /\ ThreadsConsistent
      /\ \A id \in Ids : BodyConsistent(id)
      /\ body \in [Ids -> BodyState] /\ status \in [Ids -> Status] /\ pc \in [Threads -> DrainState]
  BY DEF IInv, TypeOK, ThreadsConsistent
<1>1. ASSUME NEW quiet \in BOOLEAN, SpawnQueued(quiet)
      PROVE  Pool!PoolStep
  <2>1. Started' = Started
    BY <1>1, StartedFrame DEF SpawnQueued, HeldBy
  <2>2. nextId \in Ids /\ status[nextId] = "absent" /\ status' = [status EXCEPT ![nextId] = "queued"]
    BY <1>0, <1>1, TasksAssumption DEF SpawnQueued, TypeOK, Ids
  <2>3. Pool!Accept(nextId)
    BY <2>1, <2>2 DEF Pool!Accept
  <2> QED BY <2>2, <2>3 DEF Pool!PoolStep
<1>2. ASSUME NEW quiet \in BOOLEAN, SpawnLaunched(quiet)
      PROVE  Pool!PoolStep
  <2>1. /\ nextId \in Ids /\ status[nextId] = "absent" /\ status' = [status EXCEPT ![nextId] = "running"]
        /\ body' = [body EXCEPT ![nextId] = "working"] /\ UNCHANGED <<pc, held>>
    BY <1>0, <1>2, TasksAssumption DEF SpawnLaunched, TypeOK, Ids
  <2>2. Started' = Started \cup {nextId}
    BY <1>0, <2>1 DEF Started, HeldBy
  <2>3. Pool!Launch(nextId)
    BY <2>1, <2>2 DEF Pool!Launch
  <2> QED BY <2>1, <2>3 DEF Pool!PoolStep
<1>3. CASE SpawnRefused
  BY <1>3, StartedFrame DEF SpawnRefused, HeldBy
<1>4. ASSUME NEW id \in Ids, CancelQueued(id)
      PROVE  Pool!PoolStep
  <2>1. Started' = Started
    BY <1>4, StartedFrame DEF CancelQueued, HeldBy
  <2>2. Pool!Cancel(id)
    BY <1>4, <2>1 DEF CancelQueued, Pool!Cancel
  <2> QED BY <2>2 DEF Pool!PoolStep
<1>5. ASSUME NEW id \in Ids, CancelRunning(id)
      PROVE  Pool!PoolStep
  <2>1. \A i \in Ids : body'[i] = "none" <=> body[i] = "none"
    BY <1>0, <1>5 DEF CancelRunning, RequestAbort
  <2>2. Started' = Started
    BY <1>5, <2>1, StartedFrame DEF CancelRunning, HeldBy
  <2>3. Pool!Cancel(id)
    BY <1>5, <2>2 DEF CancelRunning, Pool!Cancel
  <2> QED BY <2>3 DEF Pool!PoolStep
<1>6. ASSUME NEW id \in Ids, NEW outcome \in Outcome, TurnReturns(id, outcome)
      PROVE  Pool!PoolStep \/ UNCHANGED <<status, Started>>
  <2>1. body[id] \in {"working", "aborting"} /\ UNCHANGED held
    BY <1>6 DEF TurnReturns
  <2>2. id \in Threads /\ id # Supervisor /\ pc[id] = "idle"
    BY <1>0, <2>1, TasksAssumption DEF ThreadsConsistent, ThreadConsistent, Threads, Ids
  <2>3. body' = [body EXCEPT ![id] = "gone"] \/ body' = [body EXCEPT ![id] = "draining"]
    BY <1>6 DEF TurnReturns, BeginDrain
  <2>4. \A i \in Ids : body'[i] = "none" <=> body[i] = "none"
    BY <1>0, <2>1, <2>3
  <2>5. UNCHANGED pc \/ pc' = [pc EXCEPT ![id] = "pop"]
    BY <1>6 DEF TurnReturns, BeginDrain
  <2>6. \A t \in Threads, i \in Ids :
          (HeldBy(t, i) /\ pc[t] \in {"spawn", "dead"})' <=> HeldBy(t, i) /\ pc[t] \in {"spawn", "dead"}
    BY <1>0, <2>1, <2>2, <2>5 DEF HeldBy
  <2>7. Started' = Started
    BY <2>4, <2>6, StartedFrame
  <2>8. CASE IsCancelled(id)
    BY <1>6, <2>7, <2>8 DEF TurnReturns
  <2>9. CASE ~IsCancelled(id)
    <3>1. status' = [status EXCEPT ![id] = outcome]
      BY <1>6, <2>9 DEF TurnReturns
    <3>2. status[id] \in {"running", "failed"} /\ id \in Started
      BY <1>0, <2>1, <2>9 DEF IsCancelled, BodyConsistent, Started
    <3>3. Pool!Finish(id, outcome)
      BY <2>7, <3>1, <3>2 DEF Pool!Finish
    <3> QED BY <3>3 DEF Pool!PoolStep, Pool!Outcomes, Outcome
  <2> QED BY <2>8, <2>9
<1>7. ASSUME NEW id \in Ids, AbortTakesEffect(id) \/ TurnPanics(id) \/ HourPasses(id)
      PROVE  UNCHANGED <<status, Started>>
  <2>1. UNCHANGED <<status, pc, held>>
    BY <1>7 DEF AbortTakesEffect, TurnPanics, HourPasses
  <2>2. \A i \in Ids : body'[i] = "none" <=> body[i] = "none"
    BY <1>0, <1>7 DEF AbortTakesEffect, TurnPanics, HourPasses
  <2> QED BY <2>1, <2>2, StartedFrame DEF HeldBy
<1>8. CASE MonitorTick
  <2>1. \A i \in Ids : body'[i] = "none" <=> body[i] = "none"
    BY <1>0, <1>8 DEF MonitorTick
  <2>2. pc[Supervisor] = "idle" /\ pc' = [pc EXCEPT ![Supervisor] = "pop"] /\ UNCHANGED held
    BY <1>8 DEF MonitorTick
  <2>3. \A t \in Threads, i \in Ids :
          (HeldBy(t, i) /\ pc[t] \in {"spawn", "dead"})' <=> HeldBy(t, i) /\ pc[t] \in {"spawn", "dead"}
    BY <1>0, <2>2 DEF HeldBy
  <2>4. Started' = Started
    BY <2>1, <2>3, StartedFrame
  <2>5. TimedOut \in SUBSET Ids /\ \A i \in TimedOut : status[i] = "running"
    BY <1>0 DEF TimedOut, TypeOK
  <2>6. status' = [i \in Ids |-> IF i \in TimedOut THEN "failed" ELSE status[i]]
    BY <1>8 DEF MonitorTick, Fail
  <2>7. Pool!Expire(TimedOut)
    BY <2>4, <2>5, <2>6 DEF Pool!Expire
  <2> QED BY <2>5, <2>7 DEF Pool!PoolStep
<1> QED BY <1>1, <1>2, <1>3, <1>4, <1>5, <1>6, <1>7, <1>8

(* A section of drain_pending is a step of TaskPool: the promotion starts  *)
(* a task that was never started, the others change nothing callers see.   *)
LEMMA DrainImplements ==
  ASSUME IInv, NEW t \in Threads, DrainStep(t)
  PROVE  Pool!PoolStep \/ UNCHANGED <<status, Started>>
<1>0. /\ TypeOK /\ ThreadsConsistent /\ ThreadConsistent(t) /\ HeldByOne
      /\ body \in [Ids -> BodyState] /\ status \in [Ids -> Status]
      /\ pc \in [Threads -> DrainState] /\ held \in [Threads -> Ids \cup {NoTask}]
  BY DEF IInv, TypeOK, ThreadsConsistent, QueueConsistent
<1> USE DEF DrainGoto, records
<1>1. CASE DrainPop(t)
  <2>1. UNCHANGED status /\ pc[t] = "pop"
    BY <1>1 DEF DrainPop
  <2>2. \E next \in {"check", "idle"}, task \in {NoTask, Head(pending)} :
          pc' = [pc EXCEPT ![t] = next] /\ held' = [held EXCEPT ![t] = task]
    BY <1>1 DEF DrainPop
  <2>3. \A u \in Threads, i \in Ids :
          (HeldBy(u, i) /\ pc[u] \in {"spawn", "dead"})' <=> HeldBy(u, i) /\ pc[u] \in {"spawn", "dead"}
    BY <1>0, <2>1, <2>2 DEF HeldBy
  <2>4. \A i \in Ids : body'[i] = "none" <=> body[i] = "none"
    <3>1. t \in Ids => body[t] = "draining"
      BY <1>0, <2>1, TasksAssumption DEF ThreadConsistent, Ids
    <3>2. body' = [i \in Ids |-> IF i = t THEN "gone" ELSE body[i]] \/ UNCHANGED body
      BY <1>1 DEF DrainPop
    <3> QED BY <3>1, <3>2
  <2> QED BY <2>1, <2>3, <2>4, StartedFrame
<1>2. CASE DrainCheck(t) \/ DrainStore(t)
  <2>1. UNCHANGED <<status, body>> /\ pc[t] \in {"check", "store"}
    BY <1>2 DEF DrainCheck, DrainStore
  <2>2. \E next \in {"promote", "pop"}, task \in {NoTask, held[t]} :
          pc' = [pc EXCEPT ![t] = next] /\ held' = [held EXCEPT ![t] = task]
    BY <1>2 DEF DrainCheck, DrainStore
  <2>3. \A u \in Threads, i \in Ids :
          (HeldBy(u, i) /\ pc[u] \in {"spawn", "dead"})' <=> HeldBy(u, i) /\ pc[u] \in {"spawn", "dead"}
    BY <1>0, <2>1, <2>2 DEF HeldBy
  <2> QED BY <2>1, <2>3, StartedFrame
<1>3. CASE DrainPromote(t)
  <2>1. /\ pc[t] = "promote" /\ UNCHANGED body
        /\ status' = [status EXCEPT ![held[t]] = "running"]
        /\ pc' = [pc EXCEPT ![t] = "spawn"] /\ held' = [held EXCEPT ![t] = held[t]]
    BY <1>3 DEF DrainPromote
  <2>2. held[t] \in Ids /\ status[held[t]] \in {"queued", "cancelled"} /\ body[held[t]] = "none"
    BY <1>0, <2>1 DEF ThreadConsistent
  <2>3. \A u \in Threads : HeldBy(u, held[t]) => u = t
    BY <1>0, <2>2, TasksAssumption DEF HeldByOne, HeldBy, Ids
  <2>4. held[t] \notin Started
    BY <2>1, <2>2, <2>3 DEF Started
  <2>5. Started' = Started \cup {held[t]}
    <3>1. \A u \in Threads, i \in Ids : i # held[t] =>
            ((HeldBy(u, i) /\ pc[u] \in {"spawn", "dead"})' <=> HeldBy(u, i) /\ pc[u] \in {"spawn", "dead"})
      BY <1>0, <2>1 DEF HeldBy
    <3>2. (HeldBy(t, held[t]) /\ pc[t] \in {"spawn", "dead"})'
      BY <1>0, <2>1, <2>2, TasksAssumption DEF HeldBy, Ids
    <3>3. \A i \in Ids : i # held[t] => (i \in Started' <=> i \in Started)
      BY <2>1, <3>1 DEF Started
    <3>4. held'[t] = held[t] /\ held[t] \in Started'
      BY <1>0, <2>1, <2>2, <3>2 DEF Started
    <3> QED BY <2>2, <3>3, <3>4 DEF Started
  <2>6. Pool!Start(held[t])
    BY <2>1, <2>2, <2>4, <2>5 DEF Pool!Start
  <2> QED BY <2>2, <2>6 DEF Pool!PoolStep
<1>4. CASE DrainSpawn(t)
  <2>1. UNCHANGED status /\ pc[t] = "spawn" /\ held[t] \in Ids
    BY <1>0, <1>4 DEF DrainSpawn, ThreadConsistent
  <2>2. held' = held /\ \A u \in Threads : u # t => pc'[u] = pc[u]
    BY <1>0, <1>4 DEF DrainSpawn
  <2>3. CASE t = Supervisor
    <3>1. UNCHANGED body /\ pc' = [pc EXCEPT ![t] = "dead"]
      BY <1>4, <2>3 DEF DrainSpawn
    <3>2. \A u \in Threads, i \in Ids :
            (HeldBy(u, i) /\ pc[u] \in {"spawn", "dead"})' <=> HeldBy(u, i) /\ pc[u] \in {"spawn", "dead"}
      BY <1>0, <2>1, <2>2, <3>1 DEF HeldBy
    <3> QED BY <2>1, <3>1, <3>2, StartedFrame
  <2>4. CASE t # Supervisor
    <3>1. body' = [body EXCEPT ![held[t]] = "working"] /\ pc' = [pc EXCEPT ![t] = "store"]
      BY <1>4, <2>4 DEF DrainSpawn
    <3>2. \A i \in Ids : i # held[t] =>
            /\ body'[i] = body[i]
            /\ \A u \in Threads :
                 (HeldBy(u, i) /\ pc[u] \in {"spawn", "dead"})' <=> HeldBy(u, i) /\ pc[u] \in {"spawn", "dead"}
      BY <1>0, <2>1, <2>2, <3>1 DEF HeldBy
    <3>3. \A i \in Ids : i # held[t] => (i \in Started' <=> i \in Started)
      BY <3>2 DEF Started
    <3>4. held[t] \in Started /\ held[t] \in Started'
      BY <1>0, <2>1, <3>1, TasksAssumption DEF Started, HeldBy, Ids
    <3> QED BY <2>1, <3>3, <3>4 DEF Started
  <2> QED BY <2>3, <2>4
<1> QED BY <1>1, <1>2, <1>3, <1>4 DEF DrainStep

(* Callers of the pool see a TaskPool: each task is started at most once,  *)
(* only started tasks have outcomes, only timeouts are ever replaced.      *)
THEOREM PoolImplementsTaskPool == Spec => ImplementsTaskPool
<1>1. Init => Pool!PoolInit
  BY TasksAssumption DEF Init, Pool!PoolInit, Started, HeldBy
<1>2. IInv /\ IInv' /\ [Next]_vars => [Pool!PoolStep]_(Pool!poolVars)
  <2> SUFFICES ASSUME IInv, IInv', [Next]_vars
               PROVE  Pool!PoolStep \/ UNCHANGED <<status, Started>>
    BY DEF Pool!poolVars
  <2>1. CASE UNCHANGED vars
    BY <2>1 DEF vars, Started, HeldBy
  <2>2. CASE Next
    BY <2>2, CallersStepImplements, DrainImplements DEF Next
  <2> QED BY <2>1, <2>2
<1> QED BY <1>1, <1>2, IInvHolds, PTL DEF Spec, ImplementsTaskPool, Pool!PoolSpec
=============================================================================

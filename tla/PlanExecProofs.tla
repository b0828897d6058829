--------------------------- MODULE PlanExecProofs ---------------------------
(***************************************************************************)
(* Proofs about the plan driver for every set of names and of plans.       *)
(***************************************************************************)
EXTENDS PlanExec, TLAPS

(* The plan that is being executed is one that was submitted. *)
Accepted ==
  phase # "idle" /\ plan # "refused" =>
    tasks \in Plans /\ Sortable(tasks) /\ batches = Batches(tasks)

(* A task is spawned or refused, not both. *)
Disjoint == spawned \cap refused = {}

(* Where the driver is agrees with the batches: what it has spawned or     *)
(* given up belongs to the batches so far, and all of the current batch    *)
(* does once it is polled.                                                 *)
Positioned ==
  /\ Disjoint
  /\ \A n \in spawned \cup refused : \E b \in DOMAIN batches : b <= at /\ n \in batches[b]
  /\ phase \in {"poll", "record", "cancel"} => at <= Len(batches)
  /\ phase \in {"poll", "record"} => batches[at] \subseteq spawned \cup refused
  /\ phase = "review" => at > Len(batches)
  /\ phase \in {"final", "end"} /\ plan # "refused" => timedOut \/ at > Len(batches)
  /\ phase = "cancel" => timedOut
  /\ timedOut => anyFailed /\ phase \in {"cancel", "final", "end"}
  /\ plan \in {"completed", "partial", "failed"} => phase = "end" /\ plan = FinalStatus
  /\ phase = "end" => plan \in {"refused", "completed", "partial", "failed"}
  /\ phase \notin {"review", "final", "end"} => status[Review] = "absent"
  /\ phase = "idle" \/ plan = "refused" => spawned = {} /\ refused = {} /\ ~anyFailed

(* What the driver has dealt with is over in the pool. *)
DealtWith(n) == n \in refused \/ (n \in spawned /\ Over(n))

Settled ==
  /\ \A b \in DOMAIN batches : b < at => \A n \in batches[b] : DealtWith(n)
  /\ phase = "record" => \A n \in Batch : Over(n)
  /\ phase \in {"poll", "cancel"} => \A n \in seen : Over(n)
  /\ phase \in {"final", "end"} =>
       \A c \in spawned \cup {Review} : status[c] # "absent" => Over(c)

(* What the driver has recorded agrees with the pool and with any_failed. *)
RecordedRight ==
  /\ \A n \in Names : outcomes[n] # "none" =>
       /\ n \in spawned
       /\ n \in revived \/ outcomes[n] \in {"failed", "cancelled"}
            \/ (outcomes[n] = "completed" /\ status[n] = "completed")
  /\ \A b \in DOMAIN batches : b < at => \A n \in batches[b] \cap spawned : outcomes[n] # "none"
  /\ ~anyFailed => refused = {} /\ \A n \in Names : outcomes[n] \notin {"failed", "cancelled"}
  /\ anyFailed /\ ~timedOut =>
       refused # {} \/ \E n \in spawned : outcomes[n] \in {"failed", "cancelled"}

IInv == TypeOK /\ Accepted /\ Positioned /\ Settled /\ RecordedRight

USE ReviewAssumption DEF Disjoint, Children, Phase, PlanStatus, Terminal, Outcome, Pool!TaskStatus

-----------------------------------------------------------------------------
(* What any step of the pool on existing children leaves in force: no      *)
(* child comes or goes, and what is over or completed stays so.            *)
Advance ==
  /\ status' \in [Children -> Pool!TaskStatus]
  /\ started' \subseteq Children /\ revived' \subseteq started' /\ revived \subseteq revived'
  /\ \A c \in Children : status'[c] = "absent" <=> status[c] = "absent"
  /\ \A c \in Children : Over(c) => Over(c)'
  /\ \A c \in Children : status[c] = "completed" => status'[c] = "completed"

(* One child's status changes and was not "absent" or "completed", and a   *)
(* child that was over stays so: the pool advances.                        *)
LEMMA AdvanceByOne ==
  ASSUME TypeOK, NEW c \in Children, NEW s \in Pool!TaskStatus \ {"absent"},
         status[c] \notin {"absent", "completed"}, status' = [status EXCEPT ![c] = s],
         started' \subseteq Children, revived' \subseteq started', revived \subseteq revived',
         Over(c) => s \in Terminal \/ c \in revived'
  PROVE  Advance
BY DEF TypeOK, Advance, Over, Ended

(* A cancellation by the driver or by anyone else. *)
LEMMA CancelAdvances ==
  ASSUME TypeOK, NEW c \in Children, Pool!Cancel(c), UNCHANGED revived
  PROVE  Advance /\ Over(c)'
<1>1. /\ status[c] \in {"queued", "running"} /\ status' = [status EXCEPT ![c] = "cancelled"]
      /\ UNCHANGED started
  BY DEF Pool!Cancel
<1>2. Advance
  BY <1>1, AdvanceByOne DEF TypeOK
<1>3. status'[c] = "cancelled"
  BY <1>1 DEF TypeOK
<1> QED BY <1>2, <1>3 DEF Over, Ended

(* Nothing happens in the pool. *)
LEMMA StillAdvances ==
  ASSUME TypeOK, UNCHANGED poolVars
  PROVE  Advance
BY DEF TypeOK, Advance, poolVars, Over, Ended

(* Everything the pool does by itself. *)
LEMMA PoolAdvances ==
  ASSUME TypeOK, PoolMoves
  PROVE  Advance
<1>1. PICK c \in Children :
        \/ Pool!Start(c) /\ revived' = IF status[c] = "cancelled" THEN revived \cup {c} ELSE revived
        \/ (Pool!Cancel(c) \/ Pool!Expire({c}) \/ \E o \in Pool!Outcomes : Pool!Finish(c, o)) /\ UNCHANGED revived
  BY DEF PoolMoves
<1>2. CASE Pool!Start(c) /\ revived' = IF status[c] = "cancelled" THEN revived \cup {c} ELSE revived
  <2>1. /\ status[c] \in {"queued", "cancelled"} /\ status' = [status EXCEPT ![c] = "running"]
        /\ started' = started \cup {c}
        /\ revived' = IF status[c] = "cancelled" THEN revived \cup {c} ELSE revived
    BY <1>2 DEF Pool!Start
  <2>2. started' \subseteq Children /\ revived' \subseteq started' /\ revived \subseteq revived'
    BY <2>1 DEF TypeOK
  <2>3. Over(c) => c \in revived'
    BY <2>1 DEF Over, Ended
  <2> QED BY <2>1, <2>2, <2>3, AdvanceByOne
<1>3. CASE Pool!Cancel(c) /\ UNCHANGED revived
  BY <1>3, CancelAdvances
<1>4. CASE Pool!Expire({c}) /\ UNCHANGED revived
  <2>1. status[c] = "running" /\ UNCHANGED started
        /\ status' = [t \in Children |-> IF t \in {c} THEN "failed" ELSE status[t]]
    BY <1>4 DEF Pool!Expire
  <2>2. status' = [status EXCEPT ![c] = "failed"]
    BY <2>1 DEF TypeOK
  <2> QED BY <1>4, <2>1, <2>2, AdvanceByOne DEF TypeOK
<1>5. ASSUME NEW o \in Pool!Outcomes, Pool!Finish(c, o), UNCHANGED revived
      PROVE  Advance
  <2>1. /\ o \in {"completed", "failed"} /\ status[c] \in {"running", "failed"}
        /\ status' = [status EXCEPT ![c] = o] /\ UNCHANGED started
    BY <1>5 DEF Pool!Finish, Pool!Outcomes
  <2> QED BY <1>5, <2>1, AdvanceByOne DEF TypeOK
<1> QED BY <1>1, <1>2, <1>3, <1>4, <1>5

(* A new child: it was absent, and now waits or runs. *)
LEMMA NewChildJoins ==
  ASSUME TypeOK, NEW c \in Children, NewChild(c)
  PROVE  /\ status[c] = "absent" /\ status'[c] \in {"queued", "running"}
         /\ status' \in [Children -> Pool!TaskStatus]
         /\ \A d \in Children : d # c => status'[d] = status[d]
         /\ started' \subseteq Children /\ revived' \subseteq started' /\ UNCHANGED revived
<1>1. CASE Pool!Accept(c)
  BY <1>1 DEF NewChild, Pool!Accept, TypeOK
<1>2. CASE Pool!Launch(c)
  BY <1>2 DEF NewChild, Pool!Launch, TypeOK
<1> QED BY <1>1, <1>2 DEF NewChild

-----------------------------------------------------------------------------
(* The invariant survives a step that leaves the driver alone.             *)
LEMMA FrameInv ==
  ASSUME IInv, Advance,
         UNCHANGED <<plan, tasks, batches, phase, at, spawned, refused, outcomes, anyFailed, timedOut>>,
         late' \in BOOLEAN,
         seen' \subseteq Names,
         phase \in {"poll", "cancel"} => \A n \in seen' : Over(n)'
  PROVE  IInv'
<1> USE DEF IInv
<1>1. TypeOK'
  BY DEF TypeOK, Advance
<1>2. Accepted'
  BY DEF Accepted
<1>3. Positioned'
  BY DEF Positioned, Advance, FinalStatus
<1>4. Settled'
  <2>1. spawned \subseteq Children /\ Batch' = Batch /\ Batch \subseteq Children /\ Review \in Children
    BY DEF TypeOK, Batch
  <2>2. \A n \in Names \cup refused : DealtWith(n) => DealtWith(n)'
    BY <2>1 DEF DealtWith, Advance
  <2>3. \A b \in DOMAIN batches : batches[b] \subseteq Names
    BY DEF TypeOK
  <2>4. phase \in {"final", "end"} =>
          \A c \in spawned \cup {Review} : status'[c] # "absent" => Over(c)'
    BY <2>1 DEF Settled, Advance
  <2>5. phase = "record" => \A n \in Batch : Over(n)'
    BY <2>1 DEF Settled, Advance
  <2>6. \A b \in DOMAIN batches : b < at => \A n \in batches[b] : DealtWith(n)'
    BY <2>2, <2>3 DEF Settled
  <2> QED BY <2>1, <2>4, <2>5, <2>6 DEF Settled
<1>5. RecordedRight'
  BY DEF RecordedRight, Advance, TypeOK
<1> QED BY <1>1, <1>2, <1>3, <1>4, <1>5

(* topo_sort's answer: batches of names. *)
LEMMA BatchesTyped ==
  ASSUME NEW p \in Plans, Sortable(p)
  PROVE  Batches(p) \in Seq(SUBSET Names)
<1>1. IdsOf(p) \subseteq Names /\ InLevels(p)
  BY PlansAssumption DEF SortedAsDefined
<1>2. Batches(p) \in Seq(SUBSET IdsOf(p))
  BY <1>1 DEF InLevels
<1>3. SUBSET IdsOf(p) \subseteq SUBSET Names
  BY <1>1
<1> QED BY <1>2, <1>3

(* A plan is submitted, or refused. *)
LEMMA SubmitInv ==
  ASSUME IInv, NEW p \in Plans, Submit(p)
  PROVE  IInv'
<1> USE DEF IInv, Submit
<1>1. /\ phase = "idle" /\ spawned = {} /\ refused = {} /\ ~anyFailed /\ ~timedOut
      /\ \A n \in Names : outcomes[n] = "none"
      /\ UNCHANGED <<spawned, refused, seen, outcomes, anyFailed, timedOut, late, status, started, revived>>
      /\ status[Review] = "absent"
  BY DEF Positioned, RecordedRight, poolVars, TypeOK
<1>2. Sortable(p) => Batches(p) \in Seq(SUBSET Names)
  BY BatchesTyped
<1>3. TypeOK'
  <2>1. CASE Sortable(p)
    <3>1. batches' = Batches(p) /\ plan' = "running" /\ phase' = "spawn" /\ at' = 1
      BY <2>1
    <3> QED BY <1>1, <1>2, <2>1, <3>1 DEF TypeOK
  <2>2. CASE ~Sortable(p)
    <3>1. batches' = <<>> /\ plan' = "refused" /\ phase' = "end" /\ at' = 0
      BY <2>2
    <3>2. batches' \in Seq(SUBSET Names)
      BY <3>1
    <3> QED BY <1>1, <3>1, <3>2 DEF TypeOK
  <2> QED BY <2>1, <2>2
<1>4. Accepted' /\ Positioned'
  BY <1>1 DEF Accepted, Positioned
<1>5. Settled'
  BY <1>1 DEF Settled
<1>6. RecordedRight'
  BY <1>1 DEF RecordedRight
<1> QED BY <1>3, <1>4, <1>5, <1>6

(* A task is spawned. *)
LEMMA SpawnTaskInv ==
  ASSUME IInv, NEW n \in Names, SpawnTask(n)
  PROVE  IInv'
<1> USE DEF IInv
<1>1. /\ phase = "spawn" /\ at \in DOMAIN batches /\ n \in batches[at] /\ n \notin spawned \cup refused
      /\ spawned' = spawned \cup {n}
      /\ UNCHANGED <<plan, tasks, batches, phase, at, refused, seen, outcomes, anyFailed, timedOut, late>>
  BY DEF SpawnTask, ToSpawn, TypeOK
<1>2. /\ status[n] = "absent" /\ status'[n] \in {"queued", "running"}
      /\ status' \in [Children -> Pool!TaskStatus]
      /\ \A d \in Children : d # n => status'[d] = status[d]
      /\ started' \subseteq Children /\ revived' \subseteq started' /\ UNCHANGED revived
  BY NewChildJoins DEF SpawnTask
<1>3. TypeOK'
  BY <1>1, <1>2 DEF TypeOK
<1>4. Accepted'
  BY <1>1 DEF Accepted
<1>5. Positioned'
  <2>1. \A m \in spawned' \cup refused' : \E b \in DOMAIN batches : b <= at /\ m \in batches[b]
    BY <1>1 DEF Positioned, TypeOK
  <2>2. status'[Review] = status[Review] /\ phase' = "spawn" /\ plan' = "running"
    BY <1>1, <1>2 DEF TypeOK
  <2> QED BY <1>1, <2>1, <2>2 DEF Positioned
<1>6. Settled'
  <2>1. ASSUME NEW b \in DOMAIN batches, b < at, NEW m \in batches[b]
        PROVE  DealtWith(m)'
    <3>1. DealtWith(m) /\ m \in Names
      BY <2>1 DEF Settled, TypeOK
    <3> QED BY <1>1, <1>2, <3>1 DEF DealtWith, Over, Ended
  <2> QED BY <1>1, <2>1 DEF Settled
<1>7. RecordedRight'
  <2>1. \A b \in DOMAIN batches : b < at => n \notin batches[b]
    BY <1>1 DEF Settled, DealtWith
  <2>2. outcomes[n] = "none"
    BY <1>1 DEF RecordedRight
  <2> QED BY <1>1, <1>2, <2>1, <2>2 DEF RecordedRight, TypeOK
<1> QED BY <1>3, <1>4, <1>5, <1>6, <1>7

(* A task cannot be spawned. *)
LEMMA SpawnFailsInv ==
  ASSUME IInv, NEW n \in Names, SpawnFails(n)
  PROVE  IInv'
<1> USE DEF IInv
<1>1. /\ phase = "spawn" /\ at \in DOMAIN batches /\ n \in batches[at] /\ n \notin spawned
      /\ refused' = refused \cup {n} /\ anyFailed' = TRUE
      /\ UNCHANGED <<plan, tasks, batches, phase, at, spawned, seen, outcomes, timedOut, late, status, started, revived>>
  BY DEF SpawnFails, ToSpawn, TypeOK, poolVars
<1>2. TypeOK' /\ Accepted'
  BY <1>1 DEF TypeOK, Accepted
<1>3. Positioned'
  <2>1. \A m \in spawned' \cup refused' : \E b \in DOMAIN batches : b <= at /\ m \in batches[b]
    BY <1>1 DEF Positioned, TypeOK
  <2>2. Disjoint' /\ plan = "running" /\ ~timedOut
    BY <1>1 DEF Positioned, TypeOK
  <2> QED BY <1>1, <2>1, <2>2 DEF Positioned
<1>4. Settled' /\ RecordedRight'
  BY <1>1 DEF Settled, DealtWith, Over, Ended, RecordedRight
<1> QED BY <1>2, <1>3, <1>4

(* The steps that only look, and the driver's moves between its phases.    *)
LEMMA LookInv ==
  ASSUME IInv, NEW n \in Names, LookEnded(n) \/ LookAlive(n)
  PROVE  IInv'
<1> USE DEF IInv
<1>1. phase = "poll" /\ UNCHANGED <<plan, tasks, batches, at, spawned, refused, outcomes, late, status, started, revived>>
  BY DEF LookEnded, LookAlive, poolVars
<1>2. CASE LookEnded(n)
  <2>1. seen' = seen \cup {n} /\ Ended(n) /\ UNCHANGED <<phase, anyFailed, timedOut, poolVars>>
    BY <1>2 DEF LookEnded
  <2>2. Advance
    BY <2>1, StillAdvances
  <2>3. \A m \in seen' : Over(m)'
    BY <1>1, <2>1, <2>2 DEF Settled, Over, Ended
  <2> QED BY <1>1, <2>1, <2>2, <2>3, FrameInv DEF TypeOK
<1>3. CASE LookAlive(n) /\ ~late
  <2>1. seen' = {} /\ UNCHANGED <<phase, anyFailed, timedOut, poolVars>>
    BY <1>3 DEF LookAlive
  <2>2. Advance
    BY <2>1, StillAdvances
  <2> QED BY <1>1, <2>1, <2>2, FrameInv DEF TypeOK
<1>4. CASE LookAlive(n) /\ late
  <2>1. seen' = {} /\ phase' = "cancel" /\ timedOut' = TRUE /\ anyFailed' = TRUE
    BY <1>4 DEF LookAlive
  <2>2. TypeOK' /\ Accepted'
    BY <1>1, <2>1 DEF TypeOK, Accepted
  <2>3. Positioned'
    BY <1>1, <2>1 DEF Positioned, TypeOK
  <2>4. Settled' /\ RecordedRight'
    BY <1>1, <2>1 DEF Settled, DealtWith, Over, Ended, RecordedRight
  <2> QED BY <2>2, <2>3, <2>4
<1> QED BY <1>2, <1>3, <1>4

LEMMA MoveInv ==
  ASSUME IInv, BeginPoll \/ AllDone \/ AllCancelled
  PROVE  IInv'
<1> USE DEF IInv
<1>1. /\ UNCHANGED <<plan, tasks, batches, at, spawned, refused, outcomes, anyFailed, timedOut, late, status, started, revived>>
      /\ seen' \in {seen, {}}
  BY DEF BeginPoll, AllDone, AllCancelled, poolVars
<1>2. \/ phase = "spawn" /\ phase' = "poll" /\ seen' = {} /\ at <= Len(batches) /\ batches[at] \subseteq spawned \cup refused
      \/ phase = "poll" /\ phase' = "record" /\ seen = Batch
      \/ phase = "cancel" /\ phase' = "final" /\ seen = spawned
  BY DEF BeginPoll, AllDone, AllCancelled, ToSpawn
<1>3. TypeOK' /\ Accepted'
  BY <1>1, <1>2 DEF TypeOK, Accepted
<1>4. Positioned'
  BY <1>1, <1>2 DEF Positioned, TypeOK
<1>5. Settled'
  <2>1. (\A c \in Children : Over(c)' <=> Over(c)) /\ Batch' = Batch
    BY <1>1 DEF Over, Ended, Batch
  <2>2. \A b \in DOMAIN batches : b < at => \A n \in batches[b] : DealtWith(n)'
    BY <1>1 DEF Settled, DealtWith, Over, Ended
  <2>3. spawned \subseteq Children /\ Batch \subseteq Children /\ seen \subseteq Children
    BY DEF TypeOK, Batch
  <2>4. phase = "cancel" => status[Review] = "absent"
    BY DEF Positioned
  <2> QED BY <1>1, <1>2, <2>1, <2>2, <2>3, <2>4 DEF Settled
<1>6. RecordedRight'
  BY <1>1 DEF RecordedRight
<1> QED BY <1>3, <1>4, <1>5, <1>6

(* An outcome is recorded once. *)
LEMMA RecordOutcomeFresh ==
  ASSUME NEW n \in Names, RecordOutcome(n)
  PROVE  outcomes[n] = "none"
BY DEF RecordOutcome

(* An outcome is recorded: the child is over, so what is read is an ending *)
(* unless the child was revived.                                           *)
LEMMA RecordInv ==
  ASSUME IInv, NEW n \in Names, RecordOutcome(n)
  PROVE  IInv'
<1> USE DEF IInv
<1>1. /\ phase = "record" /\ n \in batches[at] /\ n \in spawned /\ Over(n) /\ at \in DOMAIN batches
      /\ outcomes' = [outcomes EXCEPT ![n] = status[n]]
      /\ anyFailed' = (anyFailed \/ IsFailure(status[n]))
      /\ UNCHANGED <<plan, tasks, batches, phase, at, spawned, refused, seen, timedOut, late, status, started, revived>>
  BY DEF RecordOutcome, Batch, poolVars, Settled, Positioned, TypeOK
<1>2. status[n] \in Outcome \ {"none"} /\ ~timedOut /\ plan = "running"
  BY <1>1 DEF TypeOK, Positioned
<1>3. anyFailed' \in BOOLEAN
  BY <1>1 DEF TypeOK, IsFailure
<1>4. TypeOK' /\ Accepted'
  <2>1. outcomes' \in [Names -> Outcome]
    BY <1>1, <1>2 DEF TypeOK
  <2> QED BY <1>1, <1>3, <2>1 DEF TypeOK, Accepted
<1>5. Positioned'
  BY <1>1, <1>2 DEF Positioned
<1>6. Settled'
  BY <1>1 DEF Settled, DealtWith, Over, Ended, Batch
<1>7. RecordedRight'
  <2>1. outcomes'[n] = status[n] /\ \A m \in Names : m # n => outcomes'[m] = outcomes[m]
    BY <1>1 DEF TypeOK
  <2>2. n \in revived \/ status[n] \in {"failed", "cancelled", "completed"}
    BY <1>1 DEF Over, Ended
  <2>3. \A m \in Names : outcomes'[m] # "none" =>
          /\ m \in spawned
          /\ m \in revived \/ outcomes'[m] \in {"failed", "cancelled"}
               \/ (outcomes'[m] = "completed" /\ status[m] = "completed")
    BY <1>1, <2>1, <2>2 DEF RecordedRight
  <2>4. \A b \in DOMAIN batches : b < at => \A m \in batches[b] \cap spawned : outcomes'[m] # "none"
    BY <1>2, <2>1 DEF RecordedRight, TypeOK
  <2>5. CASE IsFailure(status[n])
    <3>1. anyFailed' = TRUE /\ outcomes'[n] \in {"failed", "cancelled"}
      BY <1>1, <2>1, <2>5 DEF IsFailure
    <3> QED BY <1>1, <2>3, <2>4, <3>1 DEF RecordedRight
  <2>6. CASE ~IsFailure(status[n])
    <3>1. anyFailed' = anyFailed
      BY <1>1, <2>6 DEF TypeOK, IsFailure
    <3>2. outcomes'[n] \notin {"failed", "cancelled"} /\ outcomes[n] = "none"
      BY <2>1, <2>6, RecordOutcomeFresh DEF IsFailure
    <3>3. \A m \in Names : outcomes[m] \in {"failed", "cancelled"} <=> outcomes'[m] \in {"failed", "cancelled"}
      BY <2>1, <3>2
    <3>4. spawned \subseteq Names
      BY DEF TypeOK
    <3> QED BY <1>1, <2>3, <2>4, <3>1, <3>3, <3>4 DEF RecordedRight
  <2> QED BY <2>5, <2>6
<1> QED BY <1>4, <1>5, <1>6, <1>7

(* The driver goes on to the next batch. *)
LEMMA NextBatchInv ==
  ASSUME IInv, NextBatch
  PROVE  IInv'
<1> USE DEF IInv
<1>1. /\ phase = "record" /\ phase' = "spawn" /\ at' = at + 1 /\ at \in DOMAIN batches
      /\ \A n \in Batch : outcomes[n] # "none"
      /\ UNCHANGED <<plan, tasks, batches, spawned, refused, seen, outcomes, anyFailed, timedOut, late, status, started, revived>>
  BY DEF NextBatch, poolVars, Positioned, TypeOK
<1>2. TypeOK' /\ Accepted'
  BY <1>1 DEF TypeOK, Accepted
<1>3. Positioned'
  BY <1>1 DEF Positioned, TypeOK
<1>4. ASSUME NEW b \in DOMAIN batches, b < at'
      PROVE  \A n \in batches[b] : DealtWith(n)' /\ (n \in spawned => outcomes[n] # "none")
  <2>1. b < at \/ b = at
    BY <1>1, <1>4 DEF TypeOK
  <2>2. \A n \in Names : DealtWith(n) <=> DealtWith(n)'
    BY <1>1 DEF DealtWith, Over, Ended
  <2>3. batches[b] \subseteq Names
    BY DEF TypeOK
  <2>4. CASE b < at
    BY <2>2, <2>3, <2>4 DEF Settled, RecordedRight
  <2>5. CASE b = at
    <3>1. batches[at] \subseteq spawned \cup refused
      BY <1>1 DEF Positioned
    <3>2. \A n \in batches[at] \cap spawned : Over(n) /\ outcomes[n] # "none"
      BY <1>1 DEF Settled, Batch
    <3> QED BY <2>2, <2>3, <2>5, <3>1, <3>2 DEF DealtWith
  <2> QED BY <2>1, <2>4, <2>5
<1>5. Settled' /\ RecordedRight'
  BY <1>1, <1>4 DEF Settled, RecordedRight
<1> QED BY <1>2, <1>3, <1>5

(* After a time-out the children are cancelled one by one. *)
LEMMA CancelInv ==
  ASSUME IInv, NEW n \in Names, CancelChild(n)
  PROVE  IInv'
<1> USE DEF IInv
<1>1. /\ phase = "cancel" /\ n \in spawned /\ seen' = seen \cup {n} /\ status[n] # "absent"
      /\ UNCHANGED <<plan, tasks, batches, phase, at, spawned, refused, outcomes, anyFailed, timedOut, late, revived>>
  BY DEF CancelChild, TypeOK
<1>2. Advance /\ Over(n)'
  <2>1. CASE Alive(n)
    BY <2>1, CancelAdvances DEF CancelChild
  <2>2. CASE ~Alive(n)
    <3>1. UNCHANGED poolVars /\ status[n] \in Terminal
      BY <1>1, <2>2 DEF CancelChild, poolVars, Alive, TypeOK
    <3>2. Over(n)'
      BY <3>1 DEF poolVars, Over, Ended
    <3> QED BY <3>1, <3>2, StillAdvances
  <2> QED BY <2>1, <2>2
<1>3. \A m \in seen' : Over(m)'
  <2>1. \A m \in seen : Over(m) /\ m \in Children
    BY <1>1 DEF Settled, TypeOK
  <2> QED BY <1>1, <1>2, <2>1 DEF Advance
<1>4. late' \in BOOLEAN /\ seen' \subseteq Names
  BY <1>1 DEF TypeOK
<1> QED BY <1>1, <1>2, <1>3, <1>4, FrameInv

(* When no batch is left, everything spawned is over. *)
LEMMA AllBatchesOver ==
  ASSUME IInv, at > Len(batches)
  PROVE  \A n \in spawned : Over(n)
<1> USE DEF IInv
<1> SUFFICES ASSUME NEW n \in spawned
             PROVE  Over(n)
  OBVIOUS
<1>1. PICK b \in DOMAIN batches : n \in batches[b]
  BY DEF Positioned
<1>2. b < at /\ status[n] # "absent"
  BY DEF TypeOK
<1>3. DealtWith(n)
  BY <1>1, <1>2 DEF Settled
<1>4. n \notin refused
  BY DEF Disjoint, Positioned
<1> QED BY <1>3, <1>4 DEF DealtWith

(* The review begins. *)
LEMMA BeginReviewInv ==
  ASSUME IInv, BeginReview
  PROVE  IInv'
<1> USE DEF IInv
<1>1. /\ phase = "spawn" /\ phase' = "review" /\ at > Len(batches) /\ late' = FALSE
      /\ UNCHANGED <<plan, tasks, batches, at, spawned, refused, seen, outcomes, anyFailed, timedOut>>
  BY DEF BeginReview
<1>2. /\ status' \in [Children -> Pool!TaskStatus]
      /\ \A d \in Children : d # Review => status'[d] = status[d]
      /\ started' \subseteq Children /\ revived' \subseteq started' /\ UNCHANGED revived
  BY NewChildJoins DEF BeginReview
<1>3. TypeOK' /\ Accepted'
  BY <1>1, <1>2 DEF TypeOK, Accepted
<1>4. Positioned'
  BY <1>1 DEF Positioned, TypeOK
<1>5. \A n \in Names : status'[n] = status[n]
  BY <1>2
<1>6. Settled'
  <2>1. ASSUME NEW b \in DOMAIN batches, b < at, NEW m \in batches[b]
        PROVE  DealtWith(m)'
    <3>1. DealtWith(m) /\ m \in Names
      BY <2>1 DEF Settled, TypeOK
    <3> QED BY <1>1, <1>2, <1>5, <3>1 DEF DealtWith, Over, Ended
  <2> QED BY <1>1, <2>1 DEF Settled
<1>7. RecordedRight'
  BY <1>1, <1>2, <1>5 DEF RecordedRight
<1> QED BY <1>3, <1>4, <1>6, <1>7

(* The review ends, or is cancelled. *)
LEMMA ReviewEndsInv ==
  ASSUME IInv, ReviewEnds
  PROVE  IInv'
<1> USE DEF IInv
<1>1. /\ phase = "review" /\ phase' = "final" /\ at > Len(batches) /\ ~timedOut /\ plan = "running"
      /\ UNCHANGED <<plan, tasks, batches, at, spawned, refused, seen, outcomes, anyFailed, timedOut, late, revived>>
  BY DEF ReviewEnds, Positioned, TypeOK
<1>2. Advance /\ Over(Review)'
  <2>1. CASE Ended(Review) /\ UNCHANGED <<status, started>>
    <3>1. UNCHANGED poolVars
      BY <1>1, <2>1 DEF poolVars
    <3> QED BY <2>1, <3>1, StillAdvances DEF Over, Ended
  <2>2. CASE Pool!Cancel(Review)
    BY <1>1, <2>2, CancelAdvances
  <2> QED BY <2>1, <2>2 DEF ReviewEnds
<1>3. \A n \in spawned : Over(n)'
  BY <1>1, <1>2, AllBatchesOver DEF Advance, TypeOK
<1>4. TypeOK' /\ Accepted'
  BY <1>1, <1>2 DEF TypeOK, Accepted, Advance
<1>5. Positioned'
  BY <1>1 DEF Positioned
<1>6. Settled'
  <2>1. ASSUME NEW b \in DOMAIN batches, b < at, NEW m \in batches[b]
        PROVE  DealtWith(m)'
    <3>1. DealtWith(m) /\ m \in Names
      BY <2>1 DEF Settled, TypeOK
    <3> QED BY <1>1, <1>2, <3>1 DEF DealtWith, Advance
  <2> QED BY <1>1, <1>2, <1>3, <2>1 DEF Settled
<1>7. RecordedRight'
  BY <1>1, <1>2 DEF RecordedRight, Advance, TypeOK
<1> QED BY <1>4, <1>5, <1>6, <1>7

(* The plan is final. *)
LEMMA FinalizeInv ==
  ASSUME IInv, Finalize
  PROVE  IInv'
<1> USE DEF IInv
<1>1. /\ phase = "final" /\ phase' = "end" /\ plan = "running" /\ plan' = FinalStatus
      /\ UNCHANGED <<tasks, batches, at, spawned, refused, seen, outcomes, anyFailed, timedOut, late, status, started, revived>>
  BY DEF Finalize, poolVars, TypeOK
<1>2. plan' \in {"completed", "partial", "failed"} /\ FinalStatus' = FinalStatus
  BY <1>1 DEF FinalStatus
<1>3. TypeOK' /\ Accepted'
  BY <1>1, <1>2 DEF TypeOK, Accepted
<1>4. Positioned'
  BY <1>1, <1>2 DEF Positioned
<1>5. Settled' /\ RecordedRight'
  BY <1>1 DEF Settled, DealtWith, Over, Ended, RecordedRight
<1> QED BY <1>3, <1>4, <1>5

(* Time passes, and the pool moves. *)
LEMMA OutsideInv ==
  ASSUME IInv, DeadlinePasses \/ PoolMoves
  PROVE  IInv'
<1>1. UNCHANGED <<plan, tasks, batches, phase, at, spawned, refused, seen, outcomes, anyFailed, timedOut>>
  BY DEF DeadlinePasses, PoolMoves, driverVars
<1>2. Advance
  BY StillAdvances, PoolAdvances DEF IInv, DeadlinePasses
<1>3. late' \in BOOLEAN /\ seen' \subseteq Names
  BY <1>1 DEF DeadlinePasses, PoolMoves, driverVars, IInv, TypeOK
<1>4. phase \in {"poll", "cancel"} => \A n \in seen' : Over(n)'
  BY <1>1, <1>2 DEF IInv, Settled, Advance, TypeOK
<1> QED BY <1>1, <1>2, <1>3, <1>4, FrameInv

(* The invariant holds initially and survives every step. *)
LEMMA Inductive == (Init => IInv) /\ (IInv /\ [Next]_vars => IInv')
<1>1. Init => IInv
  <2> SUFFICES ASSUME Init PROVE IInv
    OBVIOUS
  <2>1. status = [c \in Children |-> "absent"] /\ started = {} /\ revived = {} /\ batches = <<>>
    BY DEF Init, Pool!PoolInit
  <2>2. <<>> \in Seq(SUBSET Names) /\ DOMAIN <<>> = {}
    OBVIOUS
  <2>3. TypeOK
    BY <2>1, <2>2 DEF Init, TypeOK
  <2> QED BY <2>1, <2>2, <2>3 DEF Init, IInv, Accepted, Positioned, Settled, RecordedRight, Disjoint
<1>2. IInv /\ UNCHANGED vars => IInv'
  <2> SUFFICES ASSUME IInv, UNCHANGED vars PROVE IInv'
    OBVIOUS
  <2>1. Advance /\ UNCHANGED driverVars
    BY StillAdvances DEF IInv, vars
  <2>2. phase \in {"poll", "cancel"} => \A n \in seen' : Over(n)'
    BY <2>1 DEF driverVars, IInv, Settled, Advance, TypeOK
  <2> QED BY <2>1, <2>2, FrameInv DEF driverVars, IInv, TypeOK
<1>3. IInv /\ Next => IInv'
  BY SubmitInv, SpawnTaskInv, SpawnFailsInv, LookInv, MoveInv, RecordInv, NextBatchInv, CancelInv,
     BeginReviewInv, ReviewEndsInv, FinalizeInv, OutsideInv DEF Next, DriverStep
<1> QED BY <1>1, <1>2, <1>3

(* Every reachable state satisfies the inductive invariant. *)
THEOREM IInvHolds == Spec => []IInv
BY Inductive, PTL DEF Spec

-----------------------------------------------------------------------------
(* A child is in the pool exactly if the driver has spawned it, and the    *)
(* rest of the types.                                                      *)
THEOREM TypeCorrect == Spec => []TypeOK
<1>1. IInv => TypeOK
  BY DEF IInv
<1> QED BY <1>1, IInvHolds, PTL

(* A task starts only over dependencies that are over in the pool or could *)
(* not be spawned.                                                         *)
THEOREM DependenciesFirst == Spec => []StartsAfterDependencies
<1>1. IInv => StartsAfterDependencies
  <2> SUFFICES ASSUME IInv, NEW n \in spawned, NEW d \in DepsOf(tasks, n)
               PROVE  d \in refused \/ (d \in spawned /\ Over(d))
    BY DEF StartsAfterDependencies
  <2>1. PICK b \in DOMAIN batches : b <= at /\ n \in batches[b]
    BY DEF IInv, Positioned
  <2>2. phase # "idle" /\ plan # "refused"
    BY <2>1 DEF IInv, Positioned
  <2>3. tasks \in Plans /\ Sortable(tasks) /\ batches = Batches(tasks)
    BY <2>2 DEF IInv, Accepted
  <2>4. InLevels(tasks)
    BY <2>3, PlansAssumption DEF SortedAsDefined
  <2>5. n \in IdsOf(tasks)
    BY <2>1, <2>3, <2>4 DEF InLevels
  <2>6. PICK c \in DOMAIN batches :
          BatchOf(tasks, n) = {c} /\ \E e \in BatchOf(tasks, d) : e < c
    BY <2>3, <2>4, <2>5 DEF InLevels
  <2>7. c = b
    BY <2>1, <2>3, <2>6 DEF BatchOf
  <2>8. PICK e \in DOMAIN batches : d \in batches[e] /\ e < b
    BY <2>3, <2>6, <2>7 DEF BatchOf
  <2>9. e < at
    BY <2>1, <2>8 DEF IInv, TypeOK
  <2> QED BY <2>8, <2>9 DEF IInv, Settled, DealtWith
<1> QED BY <1>1, IInvHolds, PTL

(* No child goes on when its plan is final, be it by a time-out. *)
THEOREM ChildrenEndFirst == Spec => []NoChildLeftBehind
<1>1. IInv => NoChildLeftBehind
  BY DEF IInv, Positioned, Settled, NoChildLeftBehind
<1> QED BY <1>1, IInvHolds, PTL

(* The final status says what became of the children. *)
THEOREM StatusIsTold == Spec => []StatusTellsOutcomes
<1>1. IInv => StatusTellsOutcomes
  <2> SUFFICES ASSUME IInv
               PROVE  StatusTellsOutcomes
    OBVIOUS
  <2>1. ASSUME plan = "completed", NEW b \in DOMAIN batches, NEW n \in batches[b]
        PROVE  n \in spawned /\ (status[n] = "completed" \/ n \in revived)
    <3>1. ~timedOut /\ ~anyFailed /\ at > Len(batches) /\ refused = {}
      BY <2>1 DEF IInv, Positioned, FinalStatus, RecordedRight
    <3>2. b < at /\ n \in Names
      BY <2>1, <3>1 DEF IInv, TypeOK
    <3>3. n \in spawned
      BY <2>1, <3>1, <3>2 DEF IInv, Settled, DealtWith
    <3>4. outcomes[n] # "none"
      BY <2>1, <3>2, <3>3 DEF IInv, RecordedRight
    <3> QED BY <3>1, <3>2, <3>3, <3>4 DEF IInv, RecordedRight
  <2>2. plan = "partial" => refused # {} \/ \E n \in spawned : outcomes[n] \in {"failed", "cancelled"}
    BY DEF IInv, Positioned, FinalStatus, RecordedRight
  <2> QED BY <2>1, <2>2 DEF StatusTellsOutcomes, InBatches
<1> QED BY <1>1, IInvHolds, PTL
=============================================================================

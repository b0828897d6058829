----------------------------- MODULE CronProofs -----------------------------
(***************************************************************************)
(* Proofs about Cron, for every set of jobs and callers and every number   *)
(* of crashes.                                                             *)
(***************************************************************************)
EXTENDS Cron, TLAPS

(* A job map has ids for keys and jobs for values. *)
IsMap(m) == m \in [DOMAIN m -> Job] /\ DOMAIN m \subseteq Ids

LEMMA MapsAre == \A m : m \in JobMaps <=> IsMap(m)
<1>1. ASSUME NEW m, m \in JobMaps PROVE IsMap(m)
  BY <1>1 DEF JobMaps, IsMap
<1>2. ASSUME NEW m, IsMap(m) PROVE m \in JobMaps
  BY <1>2 DEF JobMaps, IsMap
<1> QED
  BY <1>1, <1>2

(* TypeOK without what an entry of the map looks like. *)
Types ==
  /\ IsMap(jobs)
  /\ file = Torn \/ IsMap(file)
  /\ tickPc \in {"idle", "save", "saving", "fire", "hung"}
  /\ toFire \subseteq Ids \X BOOLEAN
  /\ tickPc = "idle" => toFire = {}
  /\ tickPc = "fire" => toFire # {}
  /\ pc \in [Callers -> {"idle", "save", "saving", "found", "run"}]
  /\ arg \in [Callers -> Ids \cup {NoId}]
  /\ \A c \in Callers : pc[c] = "idle" <=> arg[c] = NoId
  /\ waiting \in [Ids -> 0 .. MaxSpawned] /\ found \in [Ids -> 0 .. MaxSpawned]
  /\ executing \in [Ids -> Nat]
  /\ running \subseteq Ids /\ aborted \subseteq running
  /\ promised \subseteq Ids /\ added \in [Ids -> Nat] /\ fired \in [Ids -> Nat]
  /\ stale \in BOOLEAN /\ failures \in Nat /\ crashes \in 0 .. MaxCrashes

(* The runs: running_jobs is what executes or was dropped, and nothing     *)
(* executes twice.                                                         *)
RunInv ==
  /\ \A j \in Ids : waiting[j] + found[j] <= MaxSpawned
  /\ \A j \in Ids : j \in running <=> Executes(j) \/ j \in aborted
  /\ \A j \in Ids : executing[j] <= 1 /\ (executing[j] > 0 => j \notin aborted)
  /\ \A c \in Callers : pc[c] = "run" =>
       /\ executing[arg[c]] = 0
       /\ arg[c] \notin aborted
       /\ \A d \in Callers \ {c} : pc[d] = "run" => arg[d] # arg[c]

(* What is still to be spawned counts against what was added: a one-shot   *)
(* job in to_fire or in the map, and, because a crash brings it back, one  *)
(* in the file, from the moment to_fire is being emptied.                  *)
Bit(b) == IF b THEN 1 ELSE 0
Listed(j) == <<j, TRUE>> \in toFire
Leaving(j) == <<j, TRUE>> \in toFire /\ tickPc = "fire"
InMap(j) == j \in DOMAIN jobs /\ jobs[j].once
InFile(j) == file # Torn /\ j \in DOMAIN file /\ file[j].once
OneLife(j) ==
  /\ fired[j] + Bit(Listed(j)) + Bit(InMap(j)) <= added[j] + failures
  /\ fired[j] + Bit(Leaving(j)) + Bit(InFile(j)) <= added[j] + failures
OnceInv == \A j \in Ids : OneLife(j)

IInv == TypeOK /\ RunInv /\ OnceInv /\ FileIsTheMap

LEMMA TypesAre == TypeOK <=> Types
  BY MapsAre, TornAssumption DEF TypeOK, Types

LEMMA TypesAreNext == Types' => TypeOK'
  BY MapsAre DEF TypeOK, Types

-----------------------------------------------------------------------------
(* Entries of the map. *)

LEMMA AdvancedIsJob == ASSUME NEW job \in Job, NEW over PROVE Advanced(job, over) \in Job
  BY DEF Job, Advanced

LEMMA NewJobIsJob == ASSUME NEW once \in Kinds, NEW expr \in Expressions PROVE NewJob(once, expr) \in Job
  BY ToolsAssumption DEF Job, NewJob

LEMMA NoJobsIsMap == IsMap(NoJobs) /\ DOMAIN NoJobs = {}
  BY DEF IsMap, NoJobs

LEMMA LoadedIsMap == ASSUME Types PROVE IsMap(Loaded)
  BY NoJobsIsMap DEF Types, Loaded

(* Every change of the map leaves a map. *)
LEMMA TickLeavesMap == ASSUME IsMap(jobs), Tick PROVE IsMap(jobs')
<1>1. PICK over : jobs' = [j \in Kept |-> Advanced(jobs[j], j \in over)]
  BY DEF Tick
<1>2. \A j \in Kept : Advanced(jobs[j], j \in over) \in Job
  BY AdvancedIsJob DEF IsMap, Kept
<1>3. Kept \subseteq DOMAIN jobs
  BY DEF Kept
<1> QED
  BY <1>1, <1>2, <1>3 DEF IsMap

LEMMA AddLeavesMap ==
  ASSUME IsMap(jobs), NEW j \in Ids, NEW once \in Kinds, NEW expr \in Expressions,
         jobs' = [i \in DOMAIN jobs \cup {j} |-> IF i = j THEN NewJob(once, expr) ELSE jobs[i]]
  PROVE  IsMap(jobs')
  BY NewJobIsJob DEF IsMap

LEMMA UpdateLeavesMap ==
  ASSUME IsMap(jobs), NEW j \in DOMAIN jobs, NEW expr \in Expressions,
         jobs' = [jobs EXCEPT ![j].next = "unset", ![j].expr = expr]
  PROVE  /\ IsMap(jobs') /\ DOMAIN jobs' = DOMAIN jobs
         /\ \A i \in DOMAIN jobs : jobs'[i].once = jobs[i].once
  BY ToolsAssumption DEF IsMap, Job

LEMMA TimeLeavesMap ==
  ASSUME IsMap(jobs), NEW j \in DOMAIN jobs, jobs' = [jobs EXCEPT ![j].next = "due"]
  PROVE  /\ IsMap(jobs') /\ DOMAIN jobs' = DOMAIN jobs
         /\ \A i \in DOMAIN jobs : jobs'[i].once = jobs[i].once
  BY DEF IsMap, Job

LEMMA RemoveLeavesMap ==
  ASSUME IsMap(jobs), NEW j, jobs' = [i \in DOMAIN jobs \ {j} |-> jobs[i]]
  PROVE  IsMap(jobs')
  BY DEF IsMap

-----------------------------------------------------------------------------
(* Types.                                                                  *)

(* A step about a caller moves it between the tool's places. *)
LEMMA CallTyped ==
  ASSUME Types, NEW c \in Callers, NEW to \in {"idle", "save", "saving", "found", "run"},
         pc[c] # "idle", CallGoes(c, to)
  PROVE  /\ pc' \in [Callers -> {"idle", "save", "saving", "found", "run"}]
         /\ arg' \in [Callers -> Ids \cup {NoId}]
         /\ \A d \in Callers : pc'[d] = "idle" <=> arg'[d] = NoId
<1>1. pc' = [pc EXCEPT ![c] = to] /\ arg' = IF to = "idle" THEN [arg EXCEPT ![c] = NoId] ELSE arg
  BY DEF CallGoes
<1>2. CASE to = "idle"
  BY <1>1, <1>2 DEF Types
<1>3. CASE to # "idle"
  BY <1>1, <1>3 DEF Types
<1> QED
  BY <1>2, <1>3

LEMMA BeginTyped ==
  ASSUME Types, NEW c \in Callers, NEW j \in Ids, NEW to \in {"save", "found"}, CallBegins(c, j, to)
  PROVE  /\ pc' \in [Callers -> {"idle", "save", "saving", "found", "run"}]
         /\ arg' \in [Callers -> Ids \cup {NoId}]
         /\ \A d \in Callers : pc'[d] = "idle" <=> arg'[d] = NoId
<1>1. j # NoId
  BY IdsAssumption
<1>2. pc' = [pc EXCEPT ![c] = to] /\ arg' = [arg EXCEPT ![c] = j]
  BY DEF CallBegins
<1> QED
  BY <1>1, <1>2 DEF Types

LEMMA SaveTyped ==
  ASSUME Types, SaveBegins \/ SaveEnds \/ SaveFails
  PROVE  (file' = Torn \/ IsMap(file')) /\ stale' \in BOOLEAN /\ failures' \in Nat
<1>1. CASE SaveBegins
  BY <1>1 DEF SaveBegins, Types
<1>2. CASE SaveEnds
  BY <1>2 DEF SaveEnds, Types, IsMap
<1>3. CASE SaveFails
  BY <1>3 DEF SaveFails, Types, IsMap
<1> QED
  BY <1>1, <1>2, <1>3

LEMMA TicksTyped ==
  ASSUME Types, Ticks
  PROVE  Types'
<1>1. CASE Tick
  <2>1. IsMap(jobs')
    BY <1>1, TickLeavesMap DEF Types
  <2>2. /\ UNCHANGED <<fileVars, callVars, runVars, added, promised, crashes>>
        /\ toFire' = {<<j, jobs[j].once>> : j \in {i \in DOMAIN jobs : IsDue(jobs[i])}}
        /\ tickPc' = AfterTick(jobs' # jobs)
    BY <1>1 DEF Tick
  <2>3. toFire' \subseteq Ids \X BOOLEAN
    <3>1. \A j \in DOMAIN jobs : j \in Ids /\ jobs[j].once \in BOOLEAN
      BY DEF Types, IsMap, Job
    <3> QED
      BY <2>2, <3>1
  <2>4. toFire' # {} => jobs' # jobs
    <3> SUFFICES ASSUME NEW j \in DOMAIN jobs, IsDue(jobs[j]) PROVE jobs' # jobs
      BY <2>2
    <3>1. jobs[j] \in Job
      BY DEF Types, IsMap
    <3>2. PICK over : jobs' = [i \in Kept |-> Advanced(jobs[i], i \in over)]
      BY <1>1 DEF Tick
    <3>3. CASE j \in Kept
      <4>1. jobs'[j] = Advanced(jobs[j], j \in over)
        BY <3>2, <3>3
      <4>2. jobs[j].next = "due" /\ ~jobs[j].paused
        BY DEF IsDue
      <4>3. Advanced(jobs[j], j \in over) # jobs[j]
        BY <3>1, <4>2 DEF Advanced, Job
      <4> QED
        BY <4>1, <4>3
    <3>4. CASE j \notin Kept
      BY <3>2, <3>4
    <3> QED
      BY <3>3, <3>4
  <2>5. tickPc' \in {"save", "idle"} /\ (tickPc' = "idle" => toFire' = {})
    BY <2>2, <2>4 DEF AfterTick
  <2> QED
    BY <2>1, <2>2, <2>3, <2>5 DEF Types, callVars, fileVars, runVars, Executes
<1>2. CASE TickHangs
  BY <1>2 DEF TickHangs, Types, callVars, fileVars, runVars
<1>3. CASE TickSave \/ TickSaved
  <2>1. /\ file' = Torn \/ IsMap(file')
        /\ stale' \in BOOLEAN /\ failures' \in Nat
    BY <1>3, SaveTyped DEF TickSave, TickSaved
  <2>2. tickPc' \in {"saving", AfterSave}
    BY <1>3 DEF TickSave, TickSaved
  <2>3. UNCHANGED <<jobs, toFire, callVars, runVars, added, promised, crashes>>
    BY <1>3 DEF TickSave, TickSaved
  <2> QED
    BY <2>1, <2>2, <2>3 DEF Types, callVars, runVars, AfterSave
<1>4. ASSUME NEW j \in Ids, NEW once \in BOOLEAN, FireOne(j, once) PROVE Types'
  <2>1. /\ waiting[j] + found[j] < MaxSpawned
        /\ waiting[j] \in Nat /\ found[j] \in Nat /\ MaxSpawned \in Nat
    BY <1>4, BoundsAssumption DEF FireOne, Types
  <2>2. waiting' \in [Ids -> 0 .. MaxSpawned] /\ found' \in [Ids -> 0 .. MaxSpawned]
    <3>1. \/ UNCHANGED <<waiting, found>>
          \/ found' = [found EXCEPT ![j] = @ + 1] /\ UNCHANGED waiting
          \/ waiting' = [waiting EXCEPT ![j] = @ + 1] /\ UNCHANGED found
      BY <1>4, Zenon DEF FireOne
    <3>2. waiting[j] + 1 \in 0 .. MaxSpawned /\ found[j] + 1 \in 0 .. MaxSpawned
      BY <2>1
    <3> QED
      BY <3>1, <3>2 DEF Types
  <2>3. promised' \subseteq Ids
    BY <1>4 DEF FireOne, LeftToOther, Types
  <2>4. toFire' \subseteq Ids \X BOOLEAN /\ tickPc' \in {"idle", "fire"} /\ (tickPc' = "idle" <=> toFire' = {})
    BY <1>4 DEF FireOne, Types
  <2>5. UNCHANGED <<jobs, fileVars, callVars, executing, running, aborted, added, crashes>>
    BY <1>4 DEF FireOne
  <2>6. fired' \in [Ids -> Nat]
    <3>1. fired' = fired \/ fired' = [fired EXCEPT ![j] = fired[j] + 1]
      BY <1>4, Zenon DEF FireOne
    <3> QED
      BY <3>1 DEF Types
  <2> QED
    BY <2>2, <2>3, <2>4, <2>5, <2>6 DEF Types, callVars, fileVars
<1> QED
  BY <1>1, <1>2, <1>3, <1>4 DEF Ticks

LEMMA RunsTyped ==
  ASSUME Types, RunInv, Runs
  PROVE  Types'
<1>1. ASSUME NEW j \in Ids, LookUp(j) PROVE Types'
  <2>1. waiting[j] > 0 /\ waiting[j] \in Nat /\ found[j] \in Nat /\ waiting[j] + found[j] <= MaxSpawned
    BY <1>1 DEF LookUp, Types, RunInv
  <2>2. waiting[j] - 1 \in 0 .. MaxSpawned /\ found[j] + 1 \in 0 .. MaxSpawned
    BY <2>1, BoundsAssumption
  <2>3. waiting' = [waiting EXCEPT ![j] = waiting[j] - 1]
        /\ (found' = found \/ found' = [found EXCEPT ![j] = found[j] + 1])
    BY <1>1 DEF LookUp
  <2>4. waiting' \in [Ids -> 0 .. MaxSpawned] /\ found' \in [Ids -> 0 .. MaxSpawned]
    BY <2>2, <2>3 DEF Types
  <2> QED
    BY <1>1, <2>4 DEF LookUp, Types, tickVars, callVars, fileVars
<1>2. ASSUME NEW j \in Ids, Register(j) PROVE Types'
  <2>1. found[j] > 0 /\ found[j] \in 0 .. MaxSpawned
    BY <1>2 DEF Register, Types
  <2>2. found[j] - 1 \in 0 .. MaxSpawned
    BY <2>1, BoundsAssumption
  <2>3. found' = [found EXCEPT ![j] = found[j] - 1]
    BY <1>2 DEF Register
  <2>4. found' \in [Ids -> 0 .. MaxSpawned]
    BY <2>2, <2>3 DEF Types
  <2>5. CASE j \in running
    BY <1>2, <2>4, <2>5 DEF Register, LeftToOther, Types, tickVars, callVars, fileVars
  <2>6. CASE j \notin running
    <3>1. executing' = [executing EXCEPT ![j] = executing[j] + 1]
      BY <1>2, <2>6 DEF Register
    <3>2. executing' \in [Ids -> Nat]
      BY <3>1 DEF Types
    <3> QED
      BY <1>2, <2>4, <2>6, <3>2 DEF Register, Types, tickVars, callVars, fileVars
  <2> QED
    BY <2>5, <2>6
<1>3. ASSUME NEW j \in Ids, Finish(j) PROVE Types'
  <2>1. executing[j] > 0 /\ executing[j] \in Nat /\ j \notin aborted
    BY <1>3 DEF Finish, Types, RunInv
  <2>2. executing[j] - 1 \in Nat
    BY <2>1
  <2>3. executing' = [executing EXCEPT ![j] = executing[j] - 1]
    BY <1>3 DEF Finish
  <2>4. executing' \in [Ids -> Nat]
    BY <2>2, <2>3 DEF Types
  <2> QED
    BY <1>3, <2>1, <2>4 DEF Finish, Types, tickVars, callVars, fileVars
<1> QED
  BY <1>1, <1>2, <1>3 DEF Runs

LEMMA CallsTyped ==
  ASSUME Types, RunInv, NEW c \in Callers, Calls(c)
  PROVE  Types'
<1>1. ASSUME NEW j \in Ids, Add(c, j) PROVE Types'
  <2>1. PICK once \in Kinds, expr \in Expressions :
           /\ jobs' = [i \in DOMAIN jobs \cup {j} |-> IF i = j THEN NewJob(once, expr) ELSE jobs[i]]
           /\ promised' = IF once /\ expr = "good" THEN promised \cup {j} ELSE promised \ {j}
           /\ added' = IF once THEN [added EXCEPT ![j] = @ + 1] ELSE added
    BY <1>1 DEF Add
  <2>2. IsMap(jobs')
    BY <2>1, AddLeavesMap DEF Types
  <2>3. promised' \subseteq Ids /\ added' \in [Ids -> Nat]
    BY <2>1 DEF Types
  <2>4. CallBegins(c, j, "save")
    BY <1>1 DEF Add
  <2>5. /\ pc' \in [Callers -> {"idle", "save", "saving", "found", "run"}]
        /\ arg' \in [Callers -> Ids \cup {NoId}]
        /\ \A d \in Callers : pc'[d] = "idle" <=> arg'[d] = NoId
    BY <2>4, BeginTyped
  <2>6. UNCHANGED <<fileVars, tickVars, runVars, crashes>>
    BY <1>1 DEF Add
  <2> QED
    BY <2>2, <2>3, <2>5, <2>6 DEF Types, tickVars, runVars, fileVars
<1>2. ASSUME NEW j \in Ids, Update(c, j) PROVE Types'
  <2>1. IsMap(jobs')
    BY <1>2, UpdateLeavesMap DEF Update, Types
  <2>2. CallBegins(c, j, "save") /\ promised' \subseteq Ids
    BY <1>2 DEF Update, Types
  <2> QED
    BY <1>2, <2>1, <2>2, BeginTyped DEF Update, Types, tickVars, runVars, fileVars
<1>3. ASSUME NEW j \in Ids, Remove(c, j) PROVE Types'
  <2>1. IsMap(jobs')
    BY <1>3, RemoveLeavesMap DEF Remove, Types
  <2>2. CallBegins(c, j, "save") /\ promised' \subseteq Ids
    BY <1>3 DEF Remove, Types
  <2> QED
    BY <1>3, <2>1, <2>2, BeginTyped DEF Remove, Types, tickVars, runVars, fileVars
<1>4. ASSUME NEW j \in Ids, RunNow(c, j) PROVE Types'
  <2>1. CallBegins(c, j, "found")
    BY <1>4 DEF RunNow
  <2> QED
    BY <1>4, <2>1, BeginTyped DEF RunNow, Types, tickVars, runVars, fileVars
<1>5. CASE CallSaves(c) \/ CallSaved(c)
  <2>1. pc[c] # "idle" /\ \E to \in {"saving", "idle"} : CallGoes(c, to)
    BY <1>5 DEF CallSaves, CallSaved
  <2>2. /\ pc' \in [Callers -> {"idle", "save", "saving", "found", "run"}]
        /\ arg' \in [Callers -> Ids \cup {NoId}]
        /\ \A d \in Callers : pc'[d] = "idle" <=> arg'[d] = NoId
    BY <2>1, CallTyped
  <2>3. (file' = Torn \/ IsMap(file')) /\ stale' \in BOOLEAN /\ failures' \in Nat
    BY <1>5, SaveTyped DEF CallSaves, CallSaved
  <2>4. UNCHANGED <<jobs, tickVars, runVars, added, promised, crashes>>
    BY <1>5 DEF CallSaves, CallSaved
  <2> QED
    BY <2>2, <2>3, <2>4 DEF Types, tickVars, runVars
<1>7. CASE RunRegisters(c)
  <2>1. pc[c] = "found" /\ \E to \in {"idle", "run"} : CallGoes(c, to)
    BY <1>7 DEF RunRegisters
  <2>2. arg[c] \in Ids
    BY <2>1 DEF Types
  <2>3. running' = running \cup {arg[c]}
    BY <1>7 DEF RunRegisters
  <2>4. /\ pc' \in [Callers -> {"idle", "save", "saving", "found", "run"}]
        /\ arg' \in [Callers -> Ids \cup {NoId}]
        /\ \A d \in Callers : pc'[d] = "idle" <=> arg'[d] = NoId
    BY <2>1, CallTyped
  <2> QED
    BY <1>7, <2>2, <2>3, <2>4 DEF RunRegisters, Types, tickVars, fileVars
<1>8. CASE RunEnds(c)
  <2>1. pc[c] # "idle" /\ CallGoes(c, "idle") /\ arg[c] \notin aborted
    BY <1>8 DEF RunEnds, RunInv
  <2>2. running' = running \ {arg[c]}
    BY <1>8 DEF RunEnds
  <2> QED
    BY <1>8, <2>1, <2>2, CallTyped DEF RunEnds, Types, tickVars, fileVars
<1>9. CASE RunAborts(c)
  <2>1. pc[c] = "run" /\ CallGoes(c, "idle")
    BY <1>9 DEF RunAborts
  <2>2. arg[c] \in Ids
    BY <2>1 DEF Types
  <2>3. arg[c] \in running
    BY <2>1, <2>2 DEF RunInv, Executes
  <2>4. aborted' = aborted \cup {arg[c]} /\ running' = running
    BY <1>9 DEF RunAborts
  <2> QED
    BY <1>9, <2>1, <2>3, <2>4, CallTyped DEF RunAborts, Types, tickVars, fileVars
<1> QED
  BY <1>1, <1>2, <1>3, <1>4, <1>5, <1>7, <1>8, <1>9 DEF Calls, Saves

LEMMA CrashTyped == ASSUME Types, Crash PROVE Types'
<1>1. IsMap(jobs')
  BY LoadedIsMap DEF Crash
<1>2. 0 \in 0 .. MaxSpawned /\ crashes' \in 0 .. MaxCrashes
  BY BoundsAssumption DEF Crash, Types
<1>3. waiting' \in [Ids -> 0 .. MaxSpawned] /\ found' \in [Ids -> 0 .. MaxSpawned] /\ executing' \in [Ids -> Nat]
  BY <1>2 DEF Crash, NoRuns
<1>4. /\ pc' \in [Callers -> {"idle", "save", "saving", "found", "run"}]
      /\ arg' \in [Callers -> Ids \cup {NoId}]
      /\ \A d \in Callers : pc'[d] = "idle" <=> arg'[d] = NoId
  BY DEF Crash, NobodyCalls, NoArgs
<1>5. promised' \subseteq Ids /\ stale' \in BOOLEAN
  BY DEF Crash, Types
<1> QED
  BY <1>1, <1>2, <1>3, <1>4, <1>5 DEF Crash, Types

LEMMA TypesStep == ASSUME Types, RunInv, Next PROVE Types'
<1>1. ASSUME NEW j \in Ids, TimeComes(j) PROVE Types'
  <2>1. IsMap(jobs')
    BY <1>1, TimeLeavesMap DEF TimeComes, Types
  <2> QED
    BY <1>1, <2>1 DEF TimeComes, Types, tickVars, callVars, runVars, fileVars
<1> QED
  BY <1>1, TicksTyped, RunsTyped, CallsTyped, CrashTyped DEF Next

-----------------------------------------------------------------------------
(* Runs.                                                                   *)

(* Steps that begin, end or drop no run. *)
LEMMA RunsFrame ==
  ASSUME Types, RunInv, UNCHANGED <<executing, running, aborted>>,
         \A j \in Ids : waiting'[j] + found'[j] <= MaxSpawned,
         \A c \in Callers : pc'[c] = "run" <=> pc[c] = "run",
         \A c \in Callers : pc[c] = "run" => arg'[c] = arg[c]
  PROVE  RunInv'
<1>1. \A j \in Ids : Executes(j)' <=> Executes(j)
  BY DEF Executes
<1> QED
  BY <1>1 DEF RunInv

(* A caller that begins a tool, or goes on, but not with a run. *)
LEMMA CallFrame ==
  ASSUME Types, NEW c \in Callers, pc[c] # "run",
         \/ \E to \in {"idle", "saving"} : CallGoes(c, to)
         \/ \E to \in {"save", "found"} : \E j \in Ids : CallBegins(c, j, to)
  PROVE  /\ \A d \in Callers : pc'[d] = "run" <=> pc[d] = "run"
         /\ \A d \in Callers : pc[d] = "run" => arg'[d] = arg[d]
<1>1. CASE \E to \in {"idle", "saving"} : CallGoes(c, to)
  <2>1. PICK to \in {"idle", "saving"} : CallGoes(c, to)
    BY <1>1
  <2>2. /\ pc' = [pc EXCEPT ![c] = to]
        /\ arg' = [arg EXCEPT ![c] = NoId] \/ arg' = arg
    BY <2>1 DEF CallGoes
  <2> QED
    BY <2>2 DEF Types
<1>2. CASE \E to \in {"save", "found"} : \E j \in Ids : CallBegins(c, j, to)
  <2>1. PICK to \in {"save", "found"} : \E j \in Ids : CallBegins(c, j, to)
    BY <1>2
  <2>2. PICK j \in Ids : pc' = [pc EXCEPT ![c] = to] /\ arg' = [arg EXCEPT ![c] = j]
    BY <2>1 DEF CallBegins
  <2> QED
    BY <2>2 DEF Types
<1> QED
  BY <1>1, <1>2

LEMMA RunsStep == ASSUME Types, RunInv, Next PROVE RunInv'
<1> USE DEF callVars, runVars
<1>0. \A j \in Ids : waiting[j] + found[j] <= MaxSpawned /\ waiting[j] \in Nat /\ found[j] \in Nat
  <2>1. waiting \in [Ids -> 0 .. MaxSpawned] /\ found \in [Ids -> 0 .. MaxSpawned] /\ MaxSpawned \in Nat
    BY BoundsAssumption, Zenon DEF Types
  <2>2. \A j \in Ids : waiting[j] \in Nat /\ found[j] \in Nat
    BY <2>1
  <2>3. \A j \in Ids : waiting[j] + found[j] <= MaxSpawned
    BY DEF RunInv
  <2> QED
    BY <2>2, <2>3
<1>1. CASE Tick \/ TickHangs \/ TickSave \/ TickSaved \/ \E j \in Ids : TimeComes(j)
  <2>1. UNCHANGED <<callVars, runVars>>
    BY <1>1 DEF Tick, TickHangs, TickSave, TickSaved, TimeComes
  <2> QED
    BY <1>0, <2>1, RunsFrame
<1>2. ASSUME NEW j \in Ids, NEW once \in BOOLEAN, FireOne(j, once) PROVE RunInv'
  <2>1. UNCHANGED <<callVars, executing, running, aborted>>
    BY <1>2 DEF FireOne
  <2>2. ASSUME NEW i \in Ids PROVE waiting'[i] + found'[i] <= MaxSpawned
    <3>1. \/ UNCHANGED <<waiting, found>>
          \/ found' = [found EXCEPT ![j] = @ + 1] /\ UNCHANGED waiting
          \/ waiting' = [waiting EXCEPT ![j] = @ + 1] /\ UNCHANGED found
      BY <1>2, Zenon DEF FireOne
    <3>2. waiting[j] + found[j] < MaxSpawned /\ MaxSpawned \in Nat
      BY <1>2, BoundsAssumption DEF FireOne
    <3> QED
      BY <1>0, <3>1, <3>2 DEF Types
  <2> QED
    BY <2>1, <2>2, RunsFrame
<1>3. ASSUME NEW j \in Ids, LookUp(j) PROVE RunInv'
  <2>1. UNCHANGED <<callVars, executing, running, aborted>>
    BY <1>3 DEF LookUp
  <2>2. waiting' = [waiting EXCEPT ![j] = waiting[j] - 1]
        /\ (found' = found \/ found' = [found EXCEPT ![j] = found[j] + 1])
    BY <1>3 DEF LookUp
  <2>3. ASSUME NEW i \in Ids PROVE waiting'[i] + found'[i] <= MaxSpawned
    BY <1>0, <2>2, BoundsAssumption DEF Types
  <2> QED
    BY <2>1, <2>3, RunsFrame
<1>4. ASSUME NEW j \in Ids, Register(j) PROVE RunInv'
  <2>1. found' = [found EXCEPT ![j] = found[j] - 1] /\ UNCHANGED <<callVars, waiting, aborted>>
    BY <1>4 DEF Register
  <2>2. ASSUME NEW i \in Ids PROVE waiting'[i] + found'[i] <= MaxSpawned
    BY <1>0, <2>1, BoundsAssumption DEF Types
  <2>3. CASE j \in running
    BY <1>4, <2>1, <2>2, <2>3, RunsFrame DEF Register
  <2>4. CASE j \notin running
    <3>1. running' = running \cup {j} /\ executing' = [executing EXCEPT ![j] = executing[j] + 1]
      BY <1>4, <2>4 DEF Register
    <3>2. executing[j] = 0 /\ j \notin aborted /\ \A c \in Callers : pc[c] = "run" => arg[c] # j
      BY <2>4 DEF RunInv, Executes, Types
    <3>3. executing'[j] = 1 /\ \A i \in Ids \ {j} : executing'[i] = executing[i]
      BY <3>1, <3>2 DEF Types
    <3>4. Executes(j)' /\ \A i \in Ids \ {j} : Executes(i)' <=> Executes(i)
      BY <2>1, <3>3 DEF Executes
    <3>5. \A i \in Ids : i \in running' <=> Executes(i)' \/ i \in aborted'
      BY <2>1, <3>1, <3>4 DEF RunInv
    <3>6. \A i \in Ids : executing'[i] <= 1 /\ (executing'[i] > 0 => i \notin aborted')
      BY <2>1, <3>2, <3>3 DEF RunInv
    <3>7. ASSUME NEW c \in Callers, pc'[c] = "run"
          PROVE  /\ executing'[arg'[c]] = 0 /\ arg'[c] \notin aborted'
                 /\ \A d \in Callers \ {c} : pc'[d] = "run" => arg'[d] # arg'[c]
      <4>1. pc[c] = "run" /\ arg'[c] = arg[c] /\ arg[c] \in Ids
        BY <2>1, <3>7 DEF Types
      <4>2. arg[c] # j
        BY <3>2, <4>1
      <4> QED
        BY <2>1, <3>3, <4>1, <4>2 DEF RunInv
    <3> QED
      BY <2>2, <3>5, <3>6, <3>7 DEF RunInv
  <2> QED
    BY <2>3, <2>4
<1>5. ASSUME NEW j \in Ids, Finish(j) PROVE RunInv'
  <2>1. /\ executing[j] > 0 /\ executing' = [executing EXCEPT ![j] = executing[j] - 1]
        /\ running' = running \ {j}
        /\ UNCHANGED <<callVars, waiting, found, aborted>>
    BY <1>5 DEF Finish
  <2>2. executing[j] = 1 /\ j \notin aborted /\ \A c \in Callers : pc[c] = "run" => arg[c] # j
    BY <2>1 DEF RunInv, Types
  <2>3. executing'[j] = 0 /\ \A i \in Ids \ {j} : executing'[i] = executing[i]
    BY <2>1, <2>2 DEF Types
  <2>4. ~Executes(j)' /\ \A i \in Ids \ {j} : Executes(i)' <=> Executes(i)
    BY <2>1, <2>2, <2>3 DEF Executes
  <2>5. \A i \in Ids : i \in running' <=> Executes(i)' \/ i \in aborted'
    BY <2>1, <2>2, <2>4 DEF RunInv
  <2>6. \A i \in Ids : executing'[i] <= 1 /\ (executing'[i] > 0 => i \notin aborted')
    BY <2>1, <2>3 DEF RunInv
  <2>7. ASSUME NEW c \in Callers, pc'[c] = "run"
        PROVE  /\ executing'[arg'[c]] = 0 /\ arg'[c] \notin aborted'
               /\ \A d \in Callers \ {c} : pc'[d] = "run" => arg'[d] # arg'[c]
    <3>1. pc[c] = "run" /\ arg'[c] = arg[c] /\ arg[c] \in Ids
      BY <2>1, <2>7 DEF Types
    <3>2. arg[c] # j
      BY <2>2, <3>1
    <3> QED
      BY <2>1, <2>3, <3>1, <3>2 DEF RunInv
  <2> QED
    BY <1>0, <2>1, <2>5, <2>6, <2>7 DEF RunInv
<1>6. ASSUME NEW c \in Callers, NEW j \in Ids, Add(c, j) \/ Update(c, j) \/ Remove(c, j) \/ RunNow(c, j)
      PROVE  RunInv'
  <2>1. UNCHANGED runVars /\ pc[c] # "run" /\ \E to \in {"save", "found"} : CallBegins(c, j, to)
    BY <1>6 DEF Add, Update, Remove, RunNow, CallBegins
  <2>2. /\ \A d \in Callers : pc'[d] = "run" <=> pc[d] = "run"
        /\ \A d \in Callers : pc[d] = "run" => arg'[d] = arg[d]
    BY <2>1, CallFrame
  <2> QED
    BY <1>0, <2>1, <2>2, RunsFrame
<1>7. ASSUME NEW c \in Callers, Saves(c) PROVE RunInv'
  <2>1. UNCHANGED runVars /\ pc[c] # "run" /\ \E to \in {"idle", "saving"} : CallGoes(c, to)
    BY <1>7 DEF Saves, CallSaves, CallSaved
  <2>2. /\ \A d \in Callers : pc'[d] = "run" <=> pc[d] = "run"
        /\ \A d \in Callers : pc[d] = "run" => arg'[d] = arg[d]
    BY <2>1, CallFrame
  <2> QED
    BY <1>0, <2>1, <2>2, RunsFrame
<1>8. ASSUME NEW c \in Callers, RunRegisters(c) PROVE RunInv'
  <2>1. pc[c] = "found" /\ arg[c] \in Ids
    BY <1>8 DEF RunRegisters, Types
  <2>2. running' = running \cup {arg[c]} /\ UNCHANGED <<waiting, found, executing, aborted>>
    BY <1>8 DEF RunRegisters
  <2>3. CASE arg[c] \in running
    <3>1. CallGoes(c, "idle") /\ running' = running
      BY <1>8, <2>2, <2>3 DEF RunRegisters
    <3>2. /\ \A d \in Callers : pc'[d] = "run" <=> pc[d] = "run"
          /\ \A d \in Callers : pc[d] = "run" => arg'[d] = arg[d]
      BY <2>1, <3>1, CallFrame
    <3> QED
      BY <1>0, <2>2, <3>1, <3>2, RunsFrame
  <2>4. CASE arg[c] \notin running
    <3>1. pc' = [pc EXCEPT ![c] = "run"] /\ arg' = arg
      BY <1>8, <2>4 DEF RunRegisters, CallGoes
    <3>2. executing[arg[c]] = 0 /\ arg[c] \notin aborted /\ \A d \in Callers : pc[d] = "run" => arg[d] # arg[c]
      BY <2>1, <2>4 DEF RunInv, Executes, Types
    <3>3. pc'[c] = "run" /\ \A d \in Callers \ {c} : pc'[d] = pc[d]
      BY <3>1 DEF Types
    <3>4. \A i \in Ids : Executes(i)' <=> Executes(i) \/ i = arg[c]
      BY <2>1, <2>2, <3>1, <3>3 DEF Executes
    <3>5. ASSUME NEW i \in Ids PROVE i \in running' <=> Executes(i)' \/ i \in aborted'
      <4>1. i \in running <=> Executes(i) \/ i \in aborted
        BY DEF RunInv
      <4>2. CASE i = arg[c]
        BY <2>2, <3>4, <4>2
      <4>3. CASE i # arg[c]
        <5>1. Executes(i)' <=> Executes(i)
          BY <3>4, <4>3
        <5> QED
          BY <2>2, <4>1, <4>3, <5>1
      <4> QED
        BY <4>2, <4>3
    <3>6. ASSUME NEW b \in Callers, pc'[b] = "run"
          PROVE  /\ executing'[arg'[b]] = 0 /\ arg'[b] \notin aborted'
                 /\ \A d \in Callers \ {b} : pc'[d] = "run" => arg'[d] # arg'[b]
      BY <2>2, <3>1, <3>2, <3>3, <3>6 DEF RunInv
    <3> QED
      BY <1>0, <2>2, <3>5, <3>6 DEF RunInv
  <2> QED
    BY <2>3, <2>4
<1>9. ASSUME NEW c \in Callers, RunEnds(c) \/ RunAborts(c) PROVE RunInv'
  <2>1. pc[c] = "run" /\ CallGoes(c, "idle") /\ UNCHANGED <<waiting, found, executing>>
    BY <1>9 DEF RunEnds, RunAborts
  <2>2. \/ running' = running \ {arg[c]} /\ aborted' = aborted
        \/ running' = running /\ aborted' = aborted \cup {arg[c]}
    BY <1>9 DEF RunEnds, RunAborts
  <2>3. pc' = [pc EXCEPT ![c] = "idle"] /\ arg' = [arg EXCEPT ![c] = NoId]
    BY <2>1 DEF CallGoes
  <2>4. pc'[c] = "idle" /\ \A d \in Callers \ {c} : pc'[d] = pc[d] /\ arg'[d] = arg[d]
    BY <2>3 DEF Types
  <2>5. executing[arg[c]] = 0 /\ arg[c] \notin aborted /\ arg[c] \in Ids
        /\ \A d \in Callers \ {c} : pc[d] = "run" => arg[d] # arg[c]
    BY <2>1 DEF RunInv, Types
  <2>6. ASSUME NEW i \in Ids PROVE Executes(i)' <=> Executes(i) /\ i # arg[c]
    <3>1. CASE i = arg[c]
      <4>1. executing'[i] = 0 /\ \A d \in Callers : ~(pc'[d] = "run" /\ arg'[d] = i)
        BY <2>1, <2>4, <2>5, <3>1
      <4> QED
        BY <3>1, <4>1 DEF Executes
    <3>2. CASE i # arg[c]
      <4>1. executing'[i] = executing[i]
            /\ \A d \in Callers : (pc'[d] = "run" /\ arg'[d] = i) <=> (pc[d] = "run" /\ arg[d] = i)
        BY <2>1, <2>4, <3>2
      <4> QED
        BY <3>2, <4>1 DEF Executes
    <3> QED
      BY <3>1, <3>2
  <2>7. Executes(arg[c])
    BY <2>1 DEF Executes
  <2>8. ASSUME NEW i \in Ids PROVE i \in running' <=> Executes(i)' \/ i \in aborted'
    <3>1. i \in running <=> Executes(i) \/ i \in aborted
      BY DEF RunInv
    <3>2. CASE i = arg[c]
      <4>1. ~Executes(i)' /\ i \in running /\ i \notin aborted
        BY <2>5, <2>6, <2>7, <3>1, <3>2
      <4> QED
        BY <2>2, <3>2, <4>1
    <3>3. CASE i # arg[c]
      <4>1. Executes(i)' <=> Executes(i)
        BY <2>6, <3>3
      <4> QED
        BY <2>2, <3>1, <3>3, <4>1
    <3> QED
      BY <3>2, <3>3
  <2>9. \A i \in Ids : executing'[i] <= 1 /\ (executing'[i] > 0 => i \notin aborted')
    BY <2>1, <2>2, <2>5 DEF RunInv
  <2>10. ASSUME NEW b \in Callers, pc'[b] = "run"
         PROVE  /\ executing'[arg'[b]] = 0 /\ arg'[b] \notin aborted'
                /\ \A d \in Callers \ {b} : pc'[d] = "run" => arg'[d] # arg'[b]
    <3>1. b # c /\ pc[b] = "run" /\ arg'[b] = arg[b] /\ arg[b] # arg[c]
      BY <2>4, <2>5, <2>10
    <3> QED
      BY <2>1, <2>2, <2>4, <3>1 DEF RunInv
  <2> QED
    BY <1>0, <2>1, <2>8, <2>9, <2>10 DEF RunInv
<1>10. CASE Crash
  <2>1. /\ \A j \in Ids : waiting'[j] = 0 /\ found'[j] = 0 /\ executing'[j] = 0
        /\ running' = {} /\ aborted' = {} /\ \A c \in Callers : pc'[c] = "idle"
    BY <1>10 DEF Crash, NoRuns, NobodyCalls
  <2>2. \A j \in Ids : ~Executes(j)'
    BY <2>1 DEF Executes
  <2> QED
    BY <2>1, <2>2, BoundsAssumption DEF RunInv
<1> QED
  BY <1>1, <1>2, <1>3, <1>4, <1>5, <1>6, <1>7, <1>8, <1>9, <1>10 DEF Next, Ticks, Runs, Calls

-----------------------------------------------------------------------------
(* The life of a one-shot job.                                             *)

(* A step that puts nothing more into the map, to_fire or the file. *)
LEMMA LifeFrame ==
  ASSUME NEW o, OneLife(o), fired[o] \in Nat, added[o] \in Nat, failures \in Nat,
         fired'[o] = fired[o], added'[o] = added[o], failures' \in Nat, failures' >= failures,
         InMap(o)' => InMap(o), Listed(o)' => Listed(o), InFile(o)' => InFile(o),
         Leaving(o)' => Leaving(o) \/ failures' > failures
  PROVE  OneLife(o)'
  BY DEF OneLife, Bit

LEMMA SameJob ==
  ASSUME NEW o
  PROVE  /\ jobs' = jobs => (InMap(o)' <=> InMap(o))
         /\ file' = file => (InFile(o)' <=> InFile(o))
         /\ toFire' \subseteq toFire => (Listed(o)' => Listed(o))
         /\ toFire' \subseteq toFire /\ (tickPc' = "fire" => tickPc = "fire") => (Leaving(o)' => Leaving(o))
  BY DEF InMap, InFile, Listed, Leaving

(* One that writes the map into the file. *)
LEMMA LifeWritten ==
  ASSUME NEW o, OneLife(o), fired[o] \in Nat, added[o] \in Nat, failures \in Nat,
         UNCHANGED <<jobs, toFire, fired, added, failures>>, file' = jobs
  PROVE  OneLife(o)'
<1>1. InFile(o)' => InMap(o)
  BY DEF InMap, InFile
<1>2. /\ InMap(o)' <=> InMap(o)
      /\ Listed(o)' <=> Listed(o)
  BY DEF InMap, Listed
<1>3. Leaving(o)' => Listed(o)
  BY DEF Leaving, Listed
<1> QED
  BY <1>1, <1>2, <1>3 DEF OneLife, Bit

LEMMA OnceStep == ASSUME Types, OnceInv, Next PROVE OnceInv'
<1> SUFFICES ASSUME NEW o \in Ids PROVE OneLife(o)'
  BY DEF OnceInv
<1> USE DEF callVars, runVars, tickVars, fileVars
<1>0. OneLife(o) /\ fired[o] \in Nat /\ added[o] \in Nat /\ failures \in Nat
  BY DEF OnceInv, Types
<1>1. CASE Tick
  <2>1. /\ tickPc = "idle" /\ toFire = {} /\ UNCHANGED <<file, failures, fired, added>>
        /\ toFire' = {<<j, jobs[j].once>> : j \in {i \in DOMAIN jobs : IsDue(jobs[i])}}
        /\ tickPc' # "fire"
    BY <1>1 DEF Tick, AfterTick, Types
  <2>2. PICK over : jobs' = [j \in Kept |-> Advanced(jobs[j], j \in over)]
    BY <1>1 DEF Tick
  <2>3. InMap(o)' => InMap(o) /\ ~IsDue(jobs[o])
    <3>1. SUFFICES ASSUME o \in DOMAIN jobs', jobs'[o].once
                   PROVE  o \in DOMAIN jobs /\ jobs[o].once /\ ~IsDue(jobs[o])
      BY DEF InMap
    <3>2. o \in Kept /\ jobs'[o] = Advanced(jobs[o], o \in over)
      BY <2>2, <3>1
    <3>3. o \in DOMAIN jobs /\ jobs[o] \in Job
      BY <3>2 DEF Kept, Types, IsMap
    <3>4. jobs'[o].once = jobs[o].once
      BY <3>2, <3>3 DEF Advanced, Job
    <3> QED
      BY <3>1, <3>2, <3>3, <3>4 DEF Kept
  <2>4. Listed(o)' => InMap(o) /\ IsDue(jobs[o])
    BY <2>1 DEF InMap, Listed
  <2>5. (InFile(o)' <=> InFile(o)) /\ ~Leaving(o)'
    BY <2>1 DEF InFile, Leaving
  <2> QED
    BY <1>0, <2>1, <2>3, <2>4, <2>5 DEF OneLife, Bit
<1>2. CASE TickHangs
  <2>1. tickPc' # "fire" /\ UNCHANGED <<jobs, toFire, file, failures, fired, added>>
    BY <1>2 DEF TickHangs
  <2> QED
    BY <1>0, <2>1, SameJob, LifeFrame
<1>3. CASE TickSave \/ TickSaved \/ \E c \in Callers : Saves(c)
  <2>1. SaveBegins \/ SaveEnds \/ SaveFails
    BY <1>3 DEF TickSave, TickSaved, Saves, CallSaves, CallSaved
  <2>2. UNCHANGED <<jobs, toFire, fired, added>>
    BY <1>3 DEF TickSave, TickSaved, Saves, CallSaves, CallSaved
  <2>3. jobs # Torn
    BY MapsAre, TornAssumption DEF Types
  <2>4. CASE SaveBegins
    <3>1. tickPc' = "fire" => tickPc = "fire"
      BY <1>0, <1>3, <2>3, <2>4
         DEF TickSave, TickSaved, Saves, CallSaves, CallSaved, SaveBegins, SaveEnds, SaveFails
    <3>2. ~InFile(o)' /\ failures' = failures
      BY <2>4 DEF SaveBegins, InFile
    <3> QED
      BY <1>0, <2>2, <3>1, <3>2, SameJob, LifeFrame
  <2>5. CASE SaveEnds
    BY <1>0, <2>2, <2>5, LifeWritten DEF SaveEnds
  <2>6. CASE SaveFails
    <3>1. file' = file /\ failures' = failures + 1
      BY <2>6 DEF SaveFails
    <3> QED
      BY <1>0, <2>2, <3>1, SameJob, LifeFrame
  <2> QED
    BY <2>1, <2>4, <2>5, <2>6
<1>4. ASSUME NEW j \in Ids, NEW once \in BOOLEAN, FireOne(j, once) PROVE OneLife(o)'
  <2>1. /\ tickPc = "fire" /\ <<j, once>> \in toFire /\ toFire' = toFire \ {<<j, once>>}
        /\ UNCHANGED <<jobs, file, failures, added>>
    BY <1>4 DEF FireOne
  <2>2. fired' = fired \/ (once /\ fired' = [fired EXCEPT ![j] = fired[j] + 1])
    BY <1>4, Zenon DEF FireOne
  <2>3. CASE j = o /\ once
    <3>1. fired'[o] \in {fired[o], fired[o] + 1}
      BY <2>2, <2>3 DEF Types
    <3>2. Listed(o) /\ Leaving(o) /\ ~Listed(o)' /\ ~Leaving(o)'
      BY <2>1, <2>3 DEF Listed, Leaving
    <3>3. (InMap(o)' <=> InMap(o)) /\ (InFile(o)' <=> InFile(o))
      BY <2>1, SameJob
    <3> QED
      BY <1>0, <2>1, <3>1, <3>2, <3>3 DEF OneLife, Bit
  <2>4. CASE ~(j = o /\ once)
    <3>1. fired'[o] = fired[o]
      BY <2>2, <2>4 DEF Types
    <3>2. toFire' \subseteq toFire
      BY <2>1
    <3> QED
      BY <1>0, <2>1, <3>1, <3>2, SameJob, LifeFrame
  <2> QED
    BY <2>3, <2>4
<1>5. ASSUME NEW c \in Callers, NEW j \in Ids, Add(c, j) PROVE OneLife(o)'
  <2>1. PICK once \in Kinds, expr \in Expressions :
           /\ jobs' = [i \in DOMAIN jobs \cup {j} |-> IF i = j THEN NewJob(once, expr) ELSE jobs[i]]
           /\ added' = IF once THEN [added EXCEPT ![j] = @ + 1] ELSE added
    BY <1>5 DEF Add
  <2>2. UNCHANGED <<file, failures, toFire, tickPc, fired>>
    BY <1>5 DEF Add
  <2>3. /\ InFile(o)' <=> InFile(o)
        /\ Listed(o)' <=> Listed(o)
        /\ Leaving(o)' <=> Leaving(o)
    BY <2>2 DEF InFile, Listed, Leaving
  <2>4. CASE j = o
    <3>1. InMap(o)' <=> once
      BY <2>1, <2>4 DEF InMap, NewJob
    <3>2. added'[o] = IF once THEN added[o] + 1 ELSE added[o]
      BY <2>1, <2>4 DEF Types
    <3> QED
      BY <1>0, <2>2, <2>3, <3>1, <3>2 DEF OneLife, Bit
  <2>5. CASE j # o
    <3>1. InMap(o)' <=> InMap(o)
      BY <2>1, <2>5 DEF InMap
    <3>2. added'[o] = added[o]
      BY <2>1, <2>5 DEF Types
    <3> QED
      BY <1>0, <2>2, <2>3, <3>1, <3>2, LifeFrame
  <2> QED
    BY <2>4, <2>5
<1>6. ASSUME NEW c \in Callers, NEW j \in Ids, Update(c, j) \/ Remove(c, j) PROVE OneLife(o)'
  <2>1. UNCHANGED <<file, failures, toFire, tickPc, fired, added>>
    BY <1>6 DEF Update, Remove
  <2>2. /\ DOMAIN jobs' \subseteq DOMAIN jobs
        /\ \A i \in DOMAIN jobs' : jobs'[i].once = jobs[i].once
    <3>1. CASE Update(c, j)
      BY <3>1, UpdateLeavesMap DEF Update, Types
    <3>2. CASE Remove(c, j)
      BY <3>2 DEF Remove
    <3> QED
      BY <1>6, <3>1, <3>2
  <2>3. InMap(o)' => InMap(o)
    BY <2>2 DEF InMap
  <2> QED
    BY <1>0, <2>1, <2>3, SameJob, LifeFrame
<1>7. ASSUME NEW j \in Ids, TimeComes(j) PROVE OneLife(o)'
  <2>1. UNCHANGED <<file, failures, toFire, tickPc, fired, added>>
    BY <1>7 DEF TimeComes
  <2>2. /\ DOMAIN jobs' = DOMAIN jobs
        /\ \A i \in DOMAIN jobs : jobs'[i].once = jobs[i].once
    BY <1>7, TimeLeavesMap DEF TimeComes, Types
  <2>3. InMap(o)' => InMap(o)
    BY <2>2 DEF InMap
  <2> QED
    BY <1>0, <2>1, <2>3, SameJob, LifeFrame
<1>8. CASE \/ \E j \in Ids : LookUp(j) \/ Register(j) \/ Finish(j)
           \/ \E c \in Callers : (\E j \in Ids : RunNow(c, j)) \/ RunRegisters(c) \/ RunEnds(c) \/ RunAborts(c)
  <2>1. UNCHANGED <<jobs, file, failures, toFire, tickPc, fired, added>>
    BY <1>8 DEF LookUp, Register, Finish, RunNow, RunRegisters, RunEnds, RunAborts
  <2> QED
    BY <1>0, <2>1, SameJob, LifeFrame
<1>9. CASE Crash
  <2>1. jobs' = Loaded /\ tickPc' = "idle" /\ toFire' = {} /\ UNCHANGED <<file, failures, fired, added>>
    BY <1>9 DEF Crash
  <2>2. InMap(o)' => InFile(o)
    BY <2>1, NoJobsIsMap DEF Loaded, InMap, InFile
  <2>3. (InFile(o)' <=> InFile(o)) /\ ~Listed(o)' /\ ~Leaving(o)'
    BY <2>1 DEF InFile, Listed, Leaving
  <2> QED
    BY <1>0, <2>1, <2>2, <2>3 DEF OneLife, Bit
<1> QED
  BY <1>1, <1>2, <1>3, <1>4, <1>5, <1>6, <1>7, <1>8, <1>9 DEF Next, Ticks, Runs, Calls

-----------------------------------------------------------------------------
(* The file.                                                               *)

SavePending == tickPc \in {"save", "saving", "hung"} \/ \E c \in Callers : pc[c] \in {"save", "saving"}
SameJobs(m, n) == DOMAIN m = DOMAIN n /\ \A j \in DOMAIN n : Waiting(m[j]) = Waiting(n[j])
Faithful == stale \/ (file # Torn /\ SameJobs(file, jobs)) \/ (file = Torn /\ jobs = NoJobs /\ crashes > 0)
Idle == tickPc \in {"idle", "fire"} /\ \A c \in Callers : pc[c] \notin {"save", "saving"}

LEMMA FileAs == ASSUME Types PROVE FileIsTheMap <=> (SavePending \/ Faithful)
<1>1. SavePending <=> ~Idle
  BY DEF Types, SavePending, Idle
<1> QED
  BY <1>1 DEF FileIsTheMap, SameJobs, Faithful, Idle

LEMMA FileAsNext == ASSUME Types' PROVE (SavePending' \/ Faithful') => FileIsTheMap'
<1>1. SavePending' <=> ~Idle'
  BY DEF Types, SavePending, Idle
<1> QED
  BY <1>1 DEF FileIsTheMap, SameJobs, Faithful, Idle

LEMMA SameReflexive == ASSUME IsMap(jobs) PROVE SameJobs(jobs, jobs) /\ jobs # Torn
  BY MapsAre, TornAssumption DEF SameJobs

(* Steps that leave the map and the file alone and end no save. *)
LEMMA FileFrame ==
  ASSUME SavePending \/ Faithful, UNCHANGED <<jobs, file, stale, crashes>>, SavePending => SavePending'
  PROVE  SavePending' \/ Faithful'
  BY DEF Faithful, SameJobs

LEMMA SavedIsFaithful == ASSUME IsMap(jobs), SaveEnds, jobs' = jobs PROVE Faithful'
<1>1. file' = jobs /\ jobs' = jobs
  BY DEF SaveEnds
<1>2. SameJobs(jobs, jobs) /\ jobs # Torn
  BY SameReflexive
<1> QED
  BY <1>1, <1>2 DEF Faithful, SameJobs

LEMMA FileStep == ASSUME Types, Types', FileIsTheMap, Next PROVE FileIsTheMap'
<1> SUFFICES SavePending' \/ Faithful'
  BY FileAsNext
<1> USE DEF callVars, runVars, tickVars, fileVars
<1>0. SavePending \/ Faithful
  BY FileAs
<1>1. CASE Tick
  <2>1. tickPc' = AfterTick(jobs' # jobs) /\ tickPc = "idle" /\ UNCHANGED <<file, stale, pc, crashes>>
    BY <1>1 DEF Tick
  <2>2. CASE jobs' = jobs
    <3>1. SavePending => SavePending'
      BY <2>1 DEF SavePending
    <3> QED
      BY <1>0, <2>1, <2>2, <3>1, FileFrame
  <2>3. CASE jobs' # jobs
    BY <2>1, <2>3 DEF SavePending, AfterTick
  <2> QED
    BY <2>2, <2>3
<1>2. CASE TickHangs
  BY <1>2 DEF TickHangs, SavePending
<1>3. CASE TickSave \/ TickSaved
  <2>1. CASE TickSave /\ tickPc' = "saving"
    BY <2>1 DEF SavePending
  <2>2. CASE SaveEnds /\ jobs' = jobs
    BY <2>2, SavedIsFaithful DEF Types
  <2>3. CASE SaveFails
    BY <2>3 DEF SaveFails, Faithful
  <2> QED
    BY <1>3, <2>1, <2>2, <2>3 DEF TickSave, TickSaved
<1>4. ASSUME NEW j \in Ids, NEW once \in BOOLEAN, FireOne(j, once) PROVE SavePending' \/ Faithful'
  <2>1. UNCHANGED <<jobs, file, stale, crashes>> /\ (SavePending => SavePending')
    BY <1>4 DEF FireOne, SavePending
  <2> QED
    BY <1>0, <2>1, FileFrame
<1>5. CASE Runs
  <2>1. UNCHANGED <<jobs, file, stale, crashes>> /\ (SavePending => SavePending')
    BY <1>5 DEF Runs, LookUp, Register, Finish, SavePending
  <2> QED
    BY <1>0, <2>1, FileFrame
<1>6. ASSUME NEW c \in Callers, NEW j \in Ids, Add(c, j) \/ Update(c, j) \/ Remove(c, j) PROVE SavePending' \/ Faithful'
  <2>1. pc' = [pc EXCEPT ![c] = "save"]
    BY <1>6 DEF Add, Update, Remove, CallBegins
  <2> QED
    BY <2>1 DEF SavePending, Types
<1>7. ASSUME NEW c \in Callers, Saves(c) PROVE SavePending' \/ Faithful'
  <2>1. CASE CallGoes(c, "saving")
    <3>1. pc' = [pc EXCEPT ![c] = "saving"]
      BY <2>1 DEF CallGoes
    <3> QED
      BY <3>1 DEF SavePending, Types
  <2>2. CASE SaveEnds /\ jobs' = jobs
    BY <2>2, SavedIsFaithful DEF Types
  <2>3. CASE SaveFails
    BY <2>3 DEF SaveFails, Faithful
  <2> QED
    BY <1>7, <2>1, <2>2, <2>3 DEF Saves, CallSaves, CallSaved
<1>9. ASSUME NEW c \in Callers,
             (\E j \in Ids : RunNow(c, j)) \/ RunRegisters(c) \/ RunEnds(c) \/ RunAborts(c)
      PROVE  SavePending' \/ Faithful'
  <2>1. UNCHANGED <<jobs, file, stale, tickPc, crashes>>
    BY <1>9 DEF RunNow, RunRegisters, RunEnds, RunAborts
  <2>2. pc[c] \notin {"save", "saving"} /\ \E to \in {"idle", "found", "run"} : pc' = [pc EXCEPT ![c] = to]
    BY <1>9 DEF RunNow, RunRegisters, RunEnds, RunAborts, CallBegins, CallGoes
  <2>3. \A d \in Callers : pc[d] \in {"save", "saving"} => pc'[d] = pc[d]
    BY <2>2 DEF Types
  <2>4. SavePending => SavePending'
    BY <2>1, <2>3 DEF SavePending
  <2> QED
    BY <1>0, <2>1, <2>4, FileFrame
<1>10. ASSUME NEW j \in Ids, TimeComes(j) PROVE SavePending' \/ Faithful'
  <2>1. /\ UNCHANGED <<file, stale, tickPc, pc, crashes>> /\ j \in DOMAIN jobs /\ jobs[j].next = "later"
        /\ jobs' = [jobs EXCEPT ![j].next = "due"]
    BY <1>10 DEF TimeComes
  <2>2. CASE SavePending
    BY <2>1, <2>2 DEF SavePending
  <2>3. CASE file # Torn /\ SameJobs(file, jobs)
    <3>1. DOMAIN jobs' = DOMAIN jobs /\ jobs[j] \in Job
      BY <2>1 DEF Types, IsMap
    <3>2. jobs'[j] = [jobs[j] EXCEPT !.next = "due"] /\ \A i \in DOMAIN jobs \ {j} : jobs'[i] = jobs[i]
      BY <2>1 DEF Types, IsMap
    <3>3. Waiting(jobs'[j]) = Waiting(jobs[j])
      BY <2>1, <3>1, <3>2 DEF Waiting, Job
    <3>4. SameJobs(file, jobs')
      BY <2>3, <3>1, <3>2, <3>3 DEF SameJobs
    <3> QED
      BY <2>1, <2>3, <3>4 DEF Faithful, SameJobs
  <2>4. CASE file = Torn /\ jobs = NoJobs
    BY <2>1, <2>4, NoJobsIsMap
  <2>5. CASE stale
    BY <2>1, <2>5 DEF Faithful
  <2> QED
    BY <1>0, <2>2, <2>3, <2>4, <2>5 DEF Faithful
<1>11. CASE Crash
  <2>1. file' = file /\ jobs' = Loaded /\ crashes' > 0
    BY <1>11, BoundsAssumption DEF Crash, Types
  <2>2. CASE file = Torn
    BY <2>1, <2>2 DEF Faithful, Loaded
  <2>3. CASE file # Torn
    BY <2>1, <2>3 DEF Faithful, Loaded, SameJobs
  <2> QED
    BY <2>2, <2>3
<1> QED
  BY <1>1, <1>2, <1>3, <1>4, <1>5, <1>6, <1>7, <1>9, <1>10, <1>11 DEF Next, Ticks, Calls

-----------------------------------------------------------------------------
LEMMA Inductive == (Init => IInv) /\ (IInv /\ [Next]_vars => IInv')
<1>1. Init => IInv
  <2> SUFFICES ASSUME Init PROVE IInv
    OBVIOUS
  <2>1. \A j \in Ids : waiting[j] = 0 /\ found[j] = 0 /\ executing[j] = 0
    BY DEF Init, NoRuns
  <2>2. \A c \in Callers : pc[c] = "idle" /\ arg[c] = NoId
    BY DEF Init, NobodyCalls, NoArgs
  <2>3. Types
    <3>1. /\ IsMap(jobs) /\ IsMap(file) /\ tickPc = "idle" /\ toFire = {}
          /\ running = {} /\ aborted = {} /\ promised = {} /\ stale = FALSE /\ failures = 0 /\ crashes = 0
      BY NoJobsIsMap DEF Init
    <3>2. NoRuns \in [Ids -> 0 .. MaxSpawned] /\ NoRuns \in [Ids -> Nat]
      BY BoundsAssumption DEF NoRuns
    <3>3. /\ waiting = NoRuns /\ found = NoRuns /\ executing = NoRuns /\ added = NoRuns /\ fired = NoRuns
      BY DEF Init
    <3>4. /\ pc \in [Callers -> {"idle", "save", "saving", "found", "run"}]
          /\ arg \in [Callers -> Ids \cup {NoId}]
      BY DEF Init, NobodyCalls, NoArgs
    <3>5. /\ tickPc \in {"idle", "save", "saving", "fire", "hung"} /\ toFire \subseteq Ids \X BOOLEAN
          /\ running \subseteq Ids /\ aborted \subseteq running /\ promised \subseteq Ids
          /\ stale \in BOOLEAN /\ failures \in Nat
      BY <3>1
    <3>9. crashes \in 0 .. MaxCrashes
      BY <3>1, BoundsAssumption
    <3>6. \A c \in Callers : pc[c] = "idle" <=> arg[c] = NoId
      BY <2>2
    <3>7. /\ waiting \in [Ids -> 0 .. MaxSpawned] /\ found \in [Ids -> 0 .. MaxSpawned]
          /\ executing \in [Ids -> Nat] /\ added \in [Ids -> Nat] /\ fired \in [Ids -> Nat]
      BY <3>2, <3>3, Zenon
    <3>8. IsMap(jobs) /\ IsMap(file) /\ (tickPc = "fire" => toFire # {}) /\ (tickPc = "idle" => toFire = {})
      BY <3>1
    <3> QED
      BY <3>4, <3>5, <3>6, <3>7, <3>8, <3>9, Zenon DEF Types
  <2>4. RunInv
    BY <2>1, <2>2, BoundsAssumption DEF Init, RunInv, Executes
  <2>5. OnceInv
    <3>1. \A j \in Ids : added[j] = 0 /\ fired[j] = 0
      BY DEF Init, NoRuns
    <3>2. DOMAIN jobs = {} /\ DOMAIN file = {} /\ toFire = {} /\ failures = 0
      BY NoJobsIsMap DEF Init
    <3>3. \A j \in Ids : ~Listed(j) /\ ~Leaving(j) /\ ~InMap(j) /\ ~InFile(j)
      BY <3>2 DEF Listed, Leaving, InMap, InFile
    <3>4. \A j \in Ids : Bit(Listed(j)) = 0 /\ Bit(Leaving(j)) = 0 /\ Bit(InMap(j)) = 0 /\ Bit(InFile(j)) = 0
      BY <3>3, Zenon DEF Bit
    <3>5. 0 + 0 + 0 <= 0 + 0
      OBVIOUS
    <3> QED
      BY <3>1, <3>2, <3>4, <3>5, Zenon DEF OnceInv, OneLife
  <2>6. FileIsTheMap
    BY <2>3, SameReflexive, FileAs DEF Init, Faithful, Types
  <2> QED
    BY <2>3, <2>4, <2>5, <2>6, TypesAre DEF IInv
<1>2. IInv /\ [Next]_vars => IInv'
  <2> SUFFICES ASSUME IInv, [Next]_vars PROVE IInv'
    OBVIOUS
  <2>1. Types /\ RunInv /\ OnceInv /\ FileIsTheMap
    BY TypesAre DEF IInv
  <2>2. CASE Next
    <3>1. Types'
      BY <2>1, <2>2, TypesStep
    <3> QED
      BY <2>1, <2>2, <3>1, RunsStep, OnceStep, FileStep, TypesAreNext DEF IInv
  <2>3. CASE UNCHANGED vars
    <3>1. RunInv'
      BY <2>1, <2>3 DEF vars, tickVars, callVars, runVars, RunInv, Executes
    <3>2. OnceInv'
      BY <2>1, <2>3 DEF vars, fileVars, tickVars, callVars, runVars, OnceInv, OneLife, InMap, InFile, Listed, Leaving
    <3>3. TypeOK' /\ FileIsTheMap'
      BY <2>1, <2>3 DEF vars, fileVars, tickVars, callVars, runVars, IInv, TypeOK, FileIsTheMap
    <3> QED
      BY <3>1, <3>2, <3>3 DEF IInv
  <2> QED
    BY <2>2, <2>3
<1> QED
  BY <1>1, <1>2

(* The inductive invariant of the scheduler. *)
THEOREM IInvHolds == Spec => []IInv
  BY Inductive, PTL DEF Spec

(* Types, for every set of jobs and callers. *)
THEOREM TypeCorrect == Spec => []TypeOK
<1>1. IInv => TypeOK
  BY DEF IInv
<1> QED
  BY <1>1, IInvHolds, PTL

(* No job runs twice at once, and running_jobs is the jobs that run and    *)
(* those whose run was dropped.                                            *)
THEOREM RunsOneAtATime == Spec => []OneRunAtATime
<1>1. IInv => OneRunAtATime
  <2> SUFFICES ASSUME IInv PROVE OneRunAtATime
    OBVIOUS
  <2>1. RunInv /\ Types
    BY TypesAre DEF IInv
  <2>2. running = {j \in Ids : Executes(j)} \cup aborted
    <3>1. running \subseteq Ids /\ aborted \subseteq running
      BY <2>1 DEF Types
    <3>2. ASSUME NEW j \in Ids PROVE j \in running <=> j \in {i \in Ids : Executes(i)} \cup aborted
      BY <2>1 DEF RunInv
    <3> QED
      BY <3>1, <3>2
  <2> QED
    BY <2>1, <2>2 DEF RunInv, OneRunAtATime
<1> QED
  BY <1>1, IInvHolds, PTL

(* Of the one-shot jobs added under an id no more runs are spawned than    *)
(* jobs, across any number of crashes, but for one more with each write of *)
(* cron.json that fails.                                                   *)
THEOREM FiresOnce == Spec => []OnceFiresOnce
<1>1. IInv => OnceFiresOnce
  <2> SUFFICES ASSUME IInv, NEW j \in Ids PROVE fired[j] <= added[j] + failures
    BY DEF OnceFiresOnce
  <2>1. OneLife(j) /\ fired[j] \in Nat /\ added[j] \in Nat /\ failures \in Nat
    BY TypesAre DEF IInv, OnceInv, Types
  <2> QED
    BY <2>1 DEF OneLife, Bit
<1> QED
  BY <1>1, IInvHolds, PTL

(* Whenever nobody is about to save, the file holds the jobs, if the last  *)
(* write did not fail.                                                     *)
THEOREM FileIsRight == Spec => []FileIsTheMap
<1>1. IInv => FileIsTheMap
  BY DEF IInv
<1> QED
  BY <1>1, IInvHolds, PTL
=============================================================================

-------------------------------- MODULE Cron --------------------------------
(***************************************************************************)
(* The cron scheduler of src/cron.rs and the tools that edit its jobs.     *)
(* The scheduler thread ticks; the tools add, update, remove and run jobs  *)
(* from agent turns; each scheduled run is a task of its own; the process  *)
(* may crash and come back with the jobs of cron.json.                     *)
(*                                                                         *)
(* The jobs are behind a mutex.  save holds it while it truncates and      *)
(* writes the file, so every other use of the jobs waits for a save; but   *)
(* between a change and its save anything may happen.                      *)
(*                                                                         *)
(* A time is told by whether it has come; delays are taken to fit into     *)
(* i64.  What a job does and says, its last_status and the history of runs *)
(* are left out.                                                           *)
(***************************************************************************)
EXTENDS Naturals

CONSTANTS
  Ids,        \* ids of jobs: a name and the second in which cron_add read the clock
  Callers,    \* agent turns that call the cron tools
  Kinds,      \* the jobs they add: with a delay (TRUE) or not
  Expressions, \* the expressions they write: good, bad and endless ones, see Job
  Torn,       \* a cron.json that does not parse
  NoId,       \* the job of a caller that is in no tool
  MaxSpawned, \* bound of the model: runs of one job spawned and not yet begun
  MaxAdds,    \* bound of the model: jobs added under one id
  MaxFailures, \* bound of the model: writes of the file that fail
  MaxCrashes  \* bound of the model: restarts of the process

ASSUME IdsAssumption == NoId \notin Ids
ASSUME BoundsAssumption ==
  MaxSpawned \in Nat \ {0} /\ MaxAdds \in Nat /\ MaxFailures \in Nat /\ MaxCrashes \in Nat

(* next_run_secs is zero, in the future, or has come.  once stands for     *)
(* one_shot and delete_after_run.  next_run_for_expression accepts a good  *)
(* expression, refuses a bad one, and never returns from an endless one:   *)
(* parse_cron_field adds a step of zero for ever.                          *)
Job == [next : {"unset", "later", "due"}, paused : BOOLEAN, once : BOOLEAN,
        expr : {"good", "bad", "endless"}]
ASSUME ToolsAssumption == Kinds \subseteq BOOLEAN /\ Expressions \subseteq {"good", "bad", "endless"}
NewJob(once, expr) == [next |-> "unset", paused |-> FALSE, once |-> once, expr |-> expr]
JobMaps == UNION {[S -> Job] : S \in SUBSET Ids}
ASSUME TornAssumption == Torn \notin JobMaps
NoJobs == [j \in {} |-> NewJob(FALSE, "good")]

VARIABLES
  jobs,      \* CronScheduler.jobs, a map from the ids it has
  file,      \* cron.json: such a map, or Torn
  tickPc,    \* where tick is
  toFire,    \* to_fire: ids, each with whether it goes with a copy of its job
  pc,        \* where each caller is in its tool
  arg,       \* the job its tool is about
  waiting,   \* how many spawned runs of each job have not begun
  found,     \* how many have their copy of the job and have not registered
  executing, \* how many execute
  running,   \* running_jobs
  added,     \* history: how many one-shot jobs were added under each id
  promised,  \* history: one-shot jobs whose run is still to come
  fired,     \* history: how many runs of one-shot jobs tick has spawned
  aborted,   \* history: jobs with a cron_run that was dropped with its turn
  stale,     \* history: the last write of the file has failed
  failures,  \* history: writes of the file that failed so far
  crashes    \* history: restarts so far

tickVars == <<tickPc, toFire>>
callVars == <<pc, arg>>
fileVars == <<file, stale, failures>>
runVars == <<waiting, found, executing, running, fired, aborted>>
vars == <<jobs, fileVars, tickVars, callVars, runVars, added, promised, crashes>>

NobodyCalls == [c \in Callers |-> "idle"]
NoArgs == [c \in Callers |-> NoId]
NoRuns == [j \in Ids |-> 0]

Init ==
  /\ jobs = NoJobs /\ file = NoJobs
  /\ tickPc = "idle" /\ toFire = {}
  /\ pc = NobodyCalls /\ arg = NoArgs
  /\ waiting = NoRuns /\ found = NoRuns /\ executing = NoRuns
  /\ running = {} /\ aborted = {}
  /\ promised = {} /\ added = NoRuns /\ fired = NoRuns
  /\ stale = FALSE /\ failures = 0 /\ crashes = 0

(* Nobody holds the mutex of the jobs: only a save keeps it, and a tick    *)
(* that never ends.                                                        *)
Unlocked == tickPc \notin {"saving", "hung"} /\ \A c \in Callers : pc[c] # "saving"

Executes(j) == executing[j] > 0 \/ \E c \in Callers : pc[c] = "run" /\ arg[c] = j

-----------------------------------------------------------------------------
(* tick.                                                                   *)

IsDue(job) == ~job.paused /\ job.next = "due"

(* A job with no time, or whose time has come, gets its next one; a job    *)
(* whose expression is refused is paused, as is one (over) that would not  *)
(* be due again within a year.                                             *)
Advanced(job, over) ==
  IF job.paused \/ job.next = "later" THEN job
  ELSE IF job.expr = "good" /\ ~over THEN [job EXCEPT !.next = "later"] ELSE [job EXCEPT !.paused = TRUE]

(* One-shot jobs leave the map when they are due. *)
Kept == {j \in DOMAIN jobs : ~(jobs[j].once /\ IsDue(jobs[j]))}

(* Only an expression that has no time yet can be new to the parser. *)
Hangs(job) == ~job.paused /\ job.next = "unset" /\ job.expr = "endless"

(* A slip: due jobs are fired first and saved with the next change. *)
AfterTickFireFirst(modified) == IF toFire' # {} THEN "fire" ELSE IF modified THEN "save" ELSE "idle"
AfterTick(modified) == IF modified THEN "save" ELSE "idle"

Tick ==
  /\ tickPc = "idle" /\ Unlocked
  /\ \A j \in DOMAIN jobs : ~Hangs(jobs[j])
  /\ toFire' = {<<j, jobs[j].once>> : j \in {i \in DOMAIN jobs : IsDue(jobs[i])}}
  /\ \E over \in SUBSET {j \in Kept : IsDue(jobs[j])} :
       jobs' = [j \in Kept |-> Advanced(jobs[j], j \in over)]
  /\ tickPc' = AfterTick(jobs' # jobs)
  /\ UNCHANGED <<fileVars, callVars, runVars, added, promised, crashes>>

(* The mutex is held for ever; what the tick changed before it nobody sees. *)
TickHangs ==
  /\ tickPc = "idle" /\ Unlocked
  /\ \E j \in DOMAIN jobs : Hangs(jobs[j])
  /\ tickPc' = "hung"
  /\ UNCHANGED <<jobs, fileVars, toFire, callVars, runVars, added, promised, crashes>>

(* save ignores the error of fs::write, which truncates the file and then  *)
(* writes it: a failure leaves it as it was, or torn.                      *)
SaveBegins == file' = Torn /\ UNCHANGED <<stale, failures>>
SaveEnds == file' = jobs /\ stale' = FALSE /\ UNCHANGED failures
SaveFails == failures < MaxFailures /\ failures' = failures + 1 /\ stale' = TRUE /\ UNCHANGED file

(* A slip: a tick that only computed times goes on to fire. *)
AfterSaveAlways == "fire"
AfterSave == IF toFire = {} THEN "idle" ELSE "fire"

TickSave ==
  /\ tickPc = "save" /\ Unlocked
  /\ \/ tickPc' = "saving" /\ SaveBegins
     \/ tickPc' = AfterSave /\ SaveFails
  /\ UNCHANGED <<jobs, toFire, callVars, runVars, added, promised, crashes>>

TickSaved ==
  /\ tickPc = "saving"
  /\ tickPc' = AfterSave
  /\ SaveEnds \/ SaveFails
  /\ UNCHANGED <<jobs, toFire, callVars, runVars, added, promised, crashes>>

(* A run that finds another one under way leaves the job to it. *)
LeftToOther(j) == promised' = IF Executes(j) THEN promised \ {j} ELSE promised

(* Jobs already running are skipped.  A one-shot run takes its copy of the *)
(* job along; another one looks it up when it begins.                      *)
FireOne(j, once) ==
  /\ tickPc = "fire" /\ <<j, once>> \in toFire
  /\ waiting[j] + found[j] < MaxSpawned
  /\ toFire' = toFire \ {<<j, once>>}
  /\ tickPc' = IF toFire' = {} THEN "idle" ELSE "fire"
  /\ IF j \in running THEN UNCHANGED <<waiting, found, fired>> /\ LeftToOther(j)
     ELSE /\ IF once THEN /\ found' = [found EXCEPT ![j] = @ + 1]
                          /\ fired' = [fired EXCEPT ![j] = @ + 1]
                          /\ UNCHANGED waiting
                     ELSE waiting' = [waiting EXCEPT ![j] = @ + 1] /\ UNCHANGED <<found, fired>>
          /\ UNCHANGED promised
  /\ UNCHANGED <<jobs, fileVars, callVars, executing, running, aborted, added, crashes>>

TimeComes(j) ==
  /\ j \in DOMAIN jobs /\ jobs[j].next = "later"
  /\ jobs' = [jobs EXCEPT ![j].next = "due"]
  /\ UNCHANGED <<fileVars, tickVars, callVars, runVars, added, promised, crashes>>

-----------------------------------------------------------------------------
(* run_job_with_snapshot, as a task spawned by tick.                       *)

LookUp(j) ==
  /\ waiting[j] > 0 /\ Unlocked
  /\ waiting' = [waiting EXCEPT ![j] = @ - 1]
  /\ found' = IF j \in DOMAIN jobs THEN [found EXCEPT ![j] = @ + 1] ELSE found
  /\ UNCHANGED <<jobs, fileVars, tickVars, callVars, executing, running, fired, aborted, added, promised, crashes>>

(* A slip: only the look at running_jobs in tick keeps runs apart. *)
RegisterUnchecked(j) ==
  /\ found[j] > 0
  /\ found' = [found EXCEPT ![j] = @ - 1]
  /\ executing' = [executing EXCEPT ![j] = @ + 1]
  /\ running' = running \cup {j}
  /\ promised' = promised \ {j}
  /\ UNCHANGED <<jobs, fileVars, tickVars, callVars, waiting, fired, aborted, added, crashes>>

Register(j) ==
  /\ found[j] > 0
  /\ found' = [found EXCEPT ![j] = @ - 1]
  /\ IF j \in running
     THEN UNCHANGED <<executing, running>> /\ LeftToOther(j)
     ELSE /\ running' = running \cup {j}
          /\ executing' = [executing EXCEPT ![j] = @ + 1]
          /\ promised' = promised \ {j}
  /\ UNCHANGED <<jobs, fileVars, tickVars, callVars, waiting, fired, aborted, added, crashes>>

(* Shell and agent runs end in agent_timeout_secs at the latest; the end   *)
(* writes the job's status under the mutex before it leaves running_jobs.  *)
Finish(j) ==
  /\ executing[j] > 0 /\ Unlocked
  /\ executing' = [executing EXCEPT ![j] = @ - 1]
  /\ running' = running \ {j}
  /\ UNCHANGED <<jobs, fileVars, tickVars, callVars, waiting, found, fired, aborted, added, promised, crashes>>

-----------------------------------------------------------------------------
(* The tools.                                                              *)

CallGoes(c, to) ==
  /\ pc' = [pc EXCEPT ![c] = to]
  /\ arg' = IF to = "idle" THEN [arg EXCEPT ![c] = NoId] ELSE arg
CallBegins(c, j, at) ==
  /\ pc[c] = "idle" /\ Unlocked
  /\ pc' = [pc EXCEPT ![c] = at]
  /\ arg' = [arg EXCEPT ![c] = j]

(* cron_add; the expression is looked at by tick only.  The id has the     *)
(* second in which the clock was read, before the wait for the mutex: an   *)
(* add may meet a job of its name, or what is left of one, under its id.   *)
Add(c, j) ==
  /\ added[j] < MaxAdds
  /\ CallBegins(c, j, "save")
  /\ \E once \in Kinds, expr \in Expressions :
       /\ jobs' = [i \in DOMAIN jobs \cup {j} |-> IF i = j THEN NewJob(once, expr) ELSE jobs[i]]
       /\ promised' = IF once /\ expr = "good" THEN promised \cup {j} ELSE promised \ {j}
       /\ added' = IF once THEN [added EXCEPT ![j] = @ + 1] ELSE added
  /\ UNCHANGED <<fileVars, tickVars, runVars, crashes>>

(* cron_update with a new expression, which starts the wait anew (it does  *)
(* not resume a paused job), or with a new command.                        *)
Update(c, j) ==
  /\ j \in DOMAIN jobs
  /\ CallBegins(c, j, "save")
  /\ \/ /\ \E expr \in Expressions : jobs' = [jobs EXCEPT ![j].next = "unset", ![j].expr = expr]
        /\ promised' = promised \ {j}
     \/ UNCHANGED <<jobs, promised>>
  /\ UNCHANGED <<fileVars, tickVars, runVars, added, crashes>>

(* A slip: the removal is left to the next save. *)
RemoveUnsaved(c, j) ==
  /\ j \in DOMAIN jobs
  /\ pc[c] = "idle" /\ Unlocked
  /\ jobs' = [i \in DOMAIN jobs \ {j} |-> jobs[i]]
  /\ promised' = promised \ {j}
  /\ UNCHANGED <<fileVars, tickVars, callVars, runVars, added, crashes>>

Remove(c, j) ==
  /\ j \in DOMAIN jobs
  /\ CallBegins(c, j, "save")
  /\ jobs' = [i \in DOMAIN jobs \ {j} |-> jobs[i]]
  /\ promised' = promised \ {j}
  /\ UNCHANGED <<fileVars, tickVars, runVars, added, crashes>>

CallSaves(c) ==
  /\ pc[c] = "save" /\ Unlocked
  /\ \/ CallGoes(c, "saving") /\ SaveBegins
     \/ CallGoes(c, "idle") /\ SaveFails
  /\ UNCHANGED <<jobs, tickVars, runVars, added, promised, crashes>>

CallSaved(c) ==
  /\ pc[c] = "saving"
  /\ CallGoes(c, "idle")
  /\ SaveEnds \/ SaveFails
  /\ UNCHANGED <<jobs, tickVars, runVars, added, promised, crashes>>

(* cron_run: run_job within the caller's own turn. *)
RunNow(c, j) ==
  /\ j \in DOMAIN jobs
  /\ CallBegins(c, j, "found")
  /\ UNCHANGED <<jobs, fileVars, tickVars, runVars, added, promised, crashes>>

RunRegisters(c) ==
  /\ pc[c] = "found"
  /\ CallGoes(c, IF arg[c] \in running THEN "idle" ELSE "run")
  /\ running' = running \cup {arg[c]}
  /\ UNCHANGED <<jobs, fileVars, tickVars, waiting, found, executing, fired, aborted, added, promised, crashes>>

(* A slip: a run by hand stays in running_jobs. *)
RunEndsRegistered(c) ==
  /\ pc[c] = "run" /\ Unlocked
  /\ CallGoes(c, "idle")
  /\ UNCHANGED <<jobs, fileVars, tickVars, runVars, added, promised, crashes>>

RunEnds(c) ==
  /\ pc[c] = "run" /\ Unlocked
  /\ CallGoes(c, "idle")
  /\ running' = running \ {arg[c]}
  /\ UNCHANGED <<jobs, fileVars, tickVars, waiting, found, executing, fired, aborted, added, promised, crashes>>

(* The turn is dropped (a timeout, a cancelled subagent) while it waits    *)
(* for the run; nothing takes the job out of running_jobs.                 *)
RunAborts(c) ==
  /\ pc[c] = "run"
  /\ CallGoes(c, "idle")
  /\ aborted' = aborted \cup {arg[c]}
  /\ UNCHANGED <<jobs, fileVars, tickVars, waiting, found, executing, running, fired, added, promised, crashes>>

-----------------------------------------------------------------------------
(* A crash and the restart: init and load.  A file that does not parse     *)
(* leaves the map empty.                                                   *)
Loaded == IF file = Torn THEN NoJobs ELSE file
WillFire(job) == job.once /\ job.expr = "good" /\ ~job.paused

Crash ==
  /\ crashes < MaxCrashes
  /\ crashes' = crashes + 1
  /\ jobs' = Loaded
  /\ tickPc' = "idle" /\ toFire' = {}
  /\ pc' = NobodyCalls /\ arg' = NoArgs
  /\ waiting' = NoRuns /\ found' = NoRuns /\ executing' = NoRuns
  /\ running' = {} /\ aborted' = {}
  /\ promised' = {j \in promised \cap DOMAIN Loaded : WillFire(Loaded[j])}
  /\ stale' = FALSE
  /\ UNCHANGED <<file, failures, fired, added>>

-----------------------------------------------------------------------------
Ticks == Tick \/ TickHangs \/ TickSave \/ TickSaved \/ \E j \in Ids, once \in BOOLEAN : FireOne(j, once)
Runs == \E j \in Ids : LookUp(j) \/ Register(j) \/ Finish(j)
Saves(c) == CallSaves(c) \/ CallSaved(c)
Calls(c) ==
  \/ \E j \in Ids : Add(c, j) \/ Update(c, j) \/ Remove(c, j) \/ RunNow(c, j)
  \/ Saves(c) \/ RunRegisters(c) \/ RunEnds(c) \/ RunAborts(c)

Next == Ticks \/ Runs \/ (\E c \in Callers : Calls(c)) \/ (\E j \in Ids : TimeComes(j)) \/ Crash

Spec == Init /\ [][Next]_vars

(* The scheduler thread polls for ever, spawned runs are polled and end at *)
(* their timeout, tools go on, and time passes.  Strong fairness says that *)
(* the mutex is given in the end to a thread that keeps asking for it.     *)
Fairness ==
  /\ SF_vars(Ticks)
  /\ \A j \in Ids : SF_vars(LookUp(j)) /\ WF_vars(Register(j)) /\ SF_vars(Finish(j)) /\ WF_vars(TimeComes(j))
  /\ \A c \in Callers : SF_vars(Saves(c)) /\ WF_vars(RunRegisters(c)) /\ SF_vars(RunEnds(c))
FairSpec == Spec /\ Fairness

-----------------------------------------------------------------------------
(* Types; tick has something to fire exactly when it is going to fire or   *)
(* to save first.                                                          *)
TypeOK ==
  /\ jobs \in JobMaps
  /\ file \in JobMaps \cup {Torn}
  /\ tickPc \in {"idle", "save", "saving", "fire", "hung"}
  /\ toFire \subseteq Ids \X BOOLEAN
  /\ tickPc = "idle" => toFire = {}
  /\ tickPc = "fire" => toFire # {}
  /\ pc \in [Callers -> {"idle", "save", "saving", "found", "run"}]
  /\ arg \in [Callers -> Ids \cup {NoId}]
  /\ \A c \in Callers : pc[c] = "idle" <=> arg[c] = NoId
  /\ waiting \in [Ids -> 0 .. MaxSpawned] /\ found \in [Ids -> 0 .. MaxSpawned]
  /\ executing \in [Ids -> Nat]
  /\ running \subseteq Ids /\ aborted \subseteq running
  /\ promised \subseteq Ids /\ added \in [Ids -> Nat] /\ fired \in [Ids -> Nat]
  /\ stale \in BOOLEAN /\ failures \in Nat /\ crashes \in 0 .. MaxCrashes

(* "prevent concurrent duplicate runs": at most one run of a job executes, *)
(* scheduled or by hand, and running_jobs is the jobs that execute and     *)
(* those whose run was dropped.  Between the look at running_jobs in tick  *)
(* and the insertion, any other run may begin.                             *)
OneRunAtATime ==
  /\ running = {j \in Ids : Executes(j)} \cup aborted
  /\ \A j \in Ids : executing[j] <= 1
  /\ \A c \in Callers : pc[c] = "run" =>
       /\ executing[arg[c]] = 0
       /\ arg[c] \notin aborted
       /\ \A d \in Callers \ {c} : pc[d] = "run" => arg[d] # arg[c]

(* A job with a delay "fires once": of the jobs added under an id no more  *)
(* runs are spawned than jobs, also across a crash, for a job leaves the   *)
(* file before it is spawned; but each write of the file that fails may    *)
(* leave one there to run again.                                           *)
OnceFiresOnce == \A j \in Ids : fired[j] <= added[j] + failures

(* When nobody is about to save, the file holds the jobs as they are, if   *)
(* the last write did not fail; only the times that have come meanwhile    *)
(* may differ.  After a crash in the middle of a write there are no jobs   *)
(* until the next save.                                                    *)
Waiting(job) == [job EXCEPT !.next = IF @ = "due" THEN "later" ELSE @]
FileIsTheMap ==
  (tickPc \in {"idle", "fire"} /\ \A c \in Callers : pc[c] \notin {"save", "saving"}) =>
    \/ stale
    \/ file # Torn /\ DOMAIN file = DOMAIN jobs /\ \A j \in DOMAIN jobs : Waiting(file[j]) = Waiting(jobs[j])
    \/ file = Torn /\ jobs = NoJobs /\ crashes > 0

(* A one-shot job with a delay that parses is run in the end, unless it is *)
(* removed, given another expression, replaced by an add under its id, or  *)
(* lost with a crash that the file did not have it at.  Two cases stop it  *)
(* for good: a run by hand that was dropped leaves the job in running_jobs, *)
(* and a step of zero in any job's expression hangs the scheduler.         *)
OnceFires == \A j \in Ids : j \in promised ~> (j \notin promised \/ j \in aborted \/ tickPc = "hung")
=============================================================================

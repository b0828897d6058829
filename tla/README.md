# OpenPaw in TLA+

OpenPaw (`src/src/*.rs`, Rust on tokio) is a personal-assistant daemon: messages arrive
from chat channels, are routed to a session, and an agent answers them by calling a
language model and tools. Around that loop the daemon keeps background tasks, plans, cron
jobs, approvals, events, memories and the health of its providers. This directory models
the parts of it that carry state between steps of different threads, checks them with TLC
on small instances, and proves what matters most with TLAPS.

## 1. Inventory

For each component: the state it keeps, its operations, whom it talks to, what is hard, and
what makes it correct.

| component | source | state | operations | talks to |
|---|---|---|---|---|
| Subagent pool | `subagent.rs`, `tools/spawn.rs`, `tools/task_*.rs` | `tasks` map (mutex), `pending` FIFO (mutex), `next_id` (mutex), one tokio task per running subagent | `spawn_with_agent`, `cancel_task`, outcome of a turn, `monitor_tick`, `drain_pending`, status queries | bus (reports), agent turn, approvals, plan, supervisor thread |
| Human approval | `approval.rs`, `tools/request_approval.rs`, `tools/approval_respond.rs` | map id -> oneshot sender, `next_id` | `register`, `respond`, `expire_old`, `list_pending`, wait with timeout | bus (question), subagent bodies, main agent |
| Plan execution | `plan.rs`, `tools/plan_*.rs` | map of plans, `next_id`, one driver task per plan | `topo_sort`, `execute_plan` (spawn batch, poll, time out, review, finalise), `get_status` | subagent pool, bus |
| Cron scheduler | `cron.rs`, `tools/cron_*.rs` | `jobs` map (mutex) and its file, `running_jobs` set, `runs` history, `next_run_id` | `tick`, `run_job`, `run_job_with_snapshot`, add, update, remove, `save`, `load`, expression parser | sessions, bus, shell, file system |
| Agent turn | `agent/mod.rs`, `agent/dispatcher.rs`, caches | conversation history, tool failure counters, response cache, tool cache | `turn`, `turn_stream`, tool execution, nudges, background review | provider, tools, compaction, memory |
| Context compaction | `agent/compaction.rs` and token estimators | none (functions over the history) plus cooldown fields | prune, head and tail cut, summary, repair of tool pairs, trim | provider (summary) |
| Provider resilience | `providers/{circuit_breaker,reliable,fallback,rate_limiter,error_classify}.rs` | breaker state, failure count, last failure time; retry state; request window | `call`, `chat` with retries, fallback chain, `acquire` | provider clients |
| Sessions and routing | `session.rs`, `agent_routing.rs`, `dialectic.rs` | map key -> session with an agent behind an async mutex | `get_or_create`, `process_message`, `evict_idle`, `flush_all_sessions`, routing | agent turn, config |
| Bus and dispatch | `bus.rs`, `channels/dispatch.rs`, `channel_loop.rs`, `channel_manager.rs` | two bounded queues (100), registered channels, persisted polling offset | publish, consume, close, dispatch loop with retries, poll loop | channels, sessions |
| Daemon supervision | `daemon.rs`, `heartbeat.rs`, `health.rs` | component table with backoff, shutdown flag, threads | `mark_running`, `mark_error`, `compute_backoff`, thread loops, shutdown | everything above |
| Telegram channel | `channels/telegram.rs`, `gateway.rs` | text and album buffers, `last_update_id`, drafts and streamed messages, typing stops | `process_update`, flush, `send`, `edit`, split, attach, typing | bus, Telegram |
| Event registry | `events.rs`, `tools/event_*.rs` | watcher map (mutex) and its file, `next_id` | watch, unwatch, fire, emit, save, load | bus, shell |
| Mailbox and boards | `agent_mailbox.rs`, `goals.rs`, `tools/{agent_post,agent_recv,goals,todo}.rs` | one FIFO per name; a map of goals per manager and one file; one todo list | post, receive; add, update, save, load; write, merge | agents, subagents |
| Memory stores | `memory/**`, `dream.rs`, `tools/memory_*.rs` | SQL tables with a text index and embeddings, MEMORY.md and USER.md | store, recall, forget, clear, dream; add, replace, remove | agent turn |
| Skills and learning | `skills/**`, `agent/curator.rs`, `tools/skill_*.rs` | skill folders, usage table, journal and its file | create, edit, patch, delete, install; record, age, flush | agent turn |
| Provider clients | `providers/*` | body of a request, state of a stream, the gemini child process | build, truncate, parse; spawn, prompt, read | network, child process |
| Browser, meetings, MCP | `tools/{browser,cdp,google_meet}.rs`, `mcp.rs` | one tool client and websocket for all agents, Chrome's process; one meeting session and its files; the pipes of an MCP server | some ninety actions as scripts of commands; join, poll, leave; connect, list, call | Chrome, child process |
| Setup wizard | `tui_onboard.rs`, `onboard.rs` | the screen, the partial configuration, `config.json`, fetches under way | the steps of the wizard, back, Esc, save | providers |
| Other channels, other tools, configuration, text helpers | `channels/*`, `tools/*`, `config*.rs`, ... | clients of external services | requests and their parsing | network, operating system |

What is hard, component by component:

* **Subagent pool.** Two mutexes and three kinds of threads. `drain_pending` takes the
  `tasks` lock four times for one promotion, and everything may happen in between:
  cancellations, spawns, other drains, the timeout tick. The supervisor runs outside the
  tokio runtime. Correct: no queued task is lost or started twice, every ending is reported
  in order, a cancelled task stays cancelled, slots are respected, queued tasks start.
* **Human approval.** An answer, the timer of the waiting tool and the abort of the waiting
  subagent race for one oneshot channel. Correct: an action goes ahead only on the human's
  yes; whoever answers learns whether the answer counted; nothing waits for ever.
* **Plan execution.** The driver polls the pool; tasks are cancelled and time out under it.
  Correct: a task starts only after its dependencies have ended, plans end, no child
  outlives a plan that timed out, the recorded outcomes are those of the pool.
* **Cron.** A tick advances and deletes jobs before it fires them; runs of one job overlap
  with ticks, manual runs, edits and crashes; the file is written after the map has been
  unlocked. Correct: at most one run of a job at a time, a due job fires or stays due, an
  one-shot job fires once, crashes included, and the file ends as the map.
* **Agent turn and compaction.** A history that pairs each tool call with its result is
  cut, repaired, retried and interrupted. Correct: every request sent to a provider is
  well paired, the loop ends.
* **Provider resilience.** Concurrent calls share one breaker, and a slow call answers after
  the breaker has changed state. Correct: an open breaker rejects until its cooldown has
  passed, the count and the state agree, the retries of a request are shared by its chain, and
  a call ends.
* **Chat.** Updates are acknowledged to Telegram by the offset of the next poll, while their
  messages still lie in buffers and batches; a reply streams into a draft that other finals
  may take over, and any request may fail, or succeed without its answer arriving. Correct:
  no update is lost or doubled, merged messages keep their order, final texts appear once and
  in order.
* **Sessions, events, daemon.** A turn lock per session, a mutex kept over a save, threads
  that restart, files written while others read. Correct: the fifth turn is analysed once,
  watchers survive each other's calls, an emit returns, a restart repeats nothing.
* **Memory, skills, boards.** Files and tables that all sessions edit, with nothing locked
  between a read and the write. Correct: what is in the table is found, by its owner only;
  what is deleted stays deleted; the file is the map; a message is read once.
* **Provider clients, browser, meetings.** Pipes and websockets that several agents share and
  whose answers come late or never. Correct: an answer reaches the call it belongs to, what
  a stream shows is what was sent, a meeting's transcript holds its own captions.
* **Setup wizard.** Fetches that answer after the user has gone on. Correct: the model saved
  belongs to the provider saved, and what was not asked about stays as it was.

## 2. Plan

The order puts first what the other parts stand on and what is hardest to test.

Done, each with its runs and its proofs:

1. `Subagent` with `SubagentProofs`: the pool at the granularity of its critical sections;
   `TaskPool`, the abstract promise, and the refinement.
2. `Approval` with `ChatProofs`: question, answer, timer and abort; `Decision`, the
   abstract one-shot decision, and the refinement.
3. `PlanOrder` (the batches of `topo_sort`) and `PlanExec` with `PlanExecProofs` (the driver
   over an abstract pool).
4. `Cron` with `CronProofs`: ticks, runs, edits, file and crashes.
5. `Providers` with `ProvidersProofs`, which is also for `Wire`: concurrent calls through
   breaker, retries and chain.
6. `Compaction` and `AgentTurn` with `AgentTurnProofs`: the pairing of tool calls and results
   across the loop, the cuts and the repair, and the latest ask.
7. `Routing`, `Inbound`, `Delivery`: the two directions of a Telegram chat, composed in
   `MCChat`; and the liveness of messages with that of questions, in `MCAsks`. The proofs about
   `Inbound` and `Delivery` are in `ChatProofs`.
8. `Sessions`, `Events`, `Daemon`: analyses, watchers and their file, heartbeat and restarts;
   with `ComponentsProofs`, which is also for `Memory`, `Goals`, `Boards`, `Mcp`, `Cli`,
   `Browser`, `Notebook`, `SkillFiles`, `SkillUsage`, `Meet`, `StreamedTurn` and `Wizard`.
9. `Memory`, `Notebook`, `SkillFiles`, `SkillUsage`, `Goals`, `Boards`: what agents leave to
   each other and to later turns.
10. `Wire`, `Cli`, `StreamedTurn` with `Wording`: what a conversation becomes on its way to a
    provider and back.
11. `Browser`, `Mcp`, `Meet`, `Wizard`: long protocols with a user, a browser or a service.

To do, in this order:

12. `tools/composio.rs`.
13. Configuration: `commands.rs`, `secrets.rs` and the files they rewrite.
14. `CronField`, the field parser against a reference definition over bounded inputs.

## 3. Modules

### Subagent

`Subagent.tla` models `src/src/subagent.rs`. A step is one critical section of the `tasks`
mutex (the other two mutexes are only taken inside it), or one effect outside every lock
(the two spawns of tokio, an abort that is honoured).

| variable | code |
|---|---|
| `nextId`, `status`, `silent`, `handle`, `overdue` | `next_id` and the fields of `TaskState`; `overdue` is the test `now > started_at + 3600` |
| `pending` | the `VecDeque`; only the id of a `PendingTask` matters |
| `body` | the tokio task of a subagent: not spawned, in its turn, told to abort, draining, gone, ended by a panic |
| `pc`, `held` | where each thread is in the loop of `drain_pending`, and the `PendingTask` it popped |
| `notices` | what was published to the origin channel about each task |

`SpawnQueued`, `SpawnLaunched` and `SpawnRefused` are the three ways through
`spawn_with_agent_internal`; `CancelQueued` and `CancelRunning` the two through
`cancel_task` that change state; `TurnReturns` is the end of the body, which ends silently,
or records the outcome, reports it and begins to drain; `TurnPanics` is a panic in
`agent.turn` (or in the building of its agent), which tokio catches: the body is gone, the
record keeps its status and its handle, and nobody reports or drains; `MonitorTick` is `monitor_tick` up
to its drain; `DrainPop`, `DrainCheck`, `DrainPromote`, `DrainSpawn` and `DrainStore` are the
sections of `drain_pending`. The last notice of a drained task is published by its body, as
that of a launched one.

The supervisor is a plain thread that, unlike the scheduler thread, never enters the
runtime, so its `tokio::spawn` panics: `DrainSpawn` of the supervisor leads to `"dead"`. The
model is of an unwinding build, where the thread dies and the rest goes on. The release
profile aborts the process at that point; its behaviours are prefixes of the modelled ones,
so the safety results hold for it too.

Bounds: `MaxTasks` ids are handed out, `MaxConcurrent` run at once. Three tasks and one slot
are the smallest instance where a body and the supervisor drain at once while a third task
takes the slot between a pop and a promotion. At most one of them reports to its channel
(`OneReports` in `MCSubagent`): what is published is never read by an action. The constraint
only bars spawns, which nothing forces, so it hides no counterexample to liveness.

Fairness: `FairThreads` says that a thread in `drain_pending` runs on (it blocks only on
mutexes nobody holds for long) and that tokio honours an abort at the body's next await.
That turns return (`FairTurns`) and that an hour passes and the supervisor ticks
(`FairClock`) are premises of the one property that needs each: `QueuedEventuallyStarts`
asks no help of the supervisor, and `HungTaskEnds` nothing of the turns.

| run | question | answer |
|---|---|---|
| `subagent_pool` | do map, queue, threads and reports stay in step in every interleaving, and may a polling caller rely on `TaskPool`? does every queued task leave the queue when turns return, nothing panics and nobody cancels, and does the supervisor end a task whose turn hangs or panicked? | yes; the last while the supervisor lives |
| `subagent_resurrect` | does a cancelled task stay cancelled? | no: a cancellation between check and promotion is overwritten |

The premises say where the code falls short: `cancel_task` does not drain, so the slot freed
by a cancellation stays unused until another task ends or the supervisor ticks; a turn that
panics leaves its task running and its slot taken until `monitor_tick` finds it overdue, an
hour later, and drains nothing; and a supervisor that pops a task dies in `tokio::spawn`,
leaving the task running for ever (the last two are the exceptions in `RunningIsLive`). Two more things do not hold
and are therefore not claimed: a task launched between a pop and a promotion makes the
running tasks exceed `max_concurrent`, and the cancellation of a queued task is not reported
to its channel (`tools/task_cancel.rs:19` says it is).

`SubagentProofs.tla` proves, for every number of slots and tasks, `TypeCorrect`,
`QueueIsConsistent`, `ThreadsAreConsistent` and `SlotsAreLive`, the action properties
`NoSecondStart` and `CancelSticks`, and `PoolImplementsTaskPool`. None of the three conjuncts
of `IInv` is inductive alone: a pop keeps the queue consistent only because a thread between
pop and promotion holds a task without a body, that in turn holds only because ids above
`nextId` are unused and queue entries are queued. `IInv` is their conjunction, checked by TLC
in `subagent_pool` first; there is one lemma per action and conjunct. `ReportsAreInOrder`
adds to `IInv` that a task whose cancellation was reported is cancelled and in no thread
between check and promotion, so that nothing is published about it again. The two liveness
properties are only model-checked, liveness being out of the prover's reach.

`TaskPool.tla` is what the pool promises to callers that poll `get_task_status`: a status
per task and the set of tasks that were started. `subagent_pool` checks, and
`PoolImplementsTaskPool` proves, that `Subagent` implements it under the mapping that counts
a task as started from its promotion on. `TaskPool` is what the plan driver is built on.

### Approval

`Approval.tla` models `src/src/approval.rs` and the two tools on it.

| variable | code |
|---|---|
| `nextId`, `pending` | the two fields of `ApprovalManager`; `register` and `respond` are one step each |
| `wait` | where `RequestApprovalTool::execute` is for each id: waiting, timer fired but entry not removed, returned, or dropped at its await |
| `channel` | the value in the oneshot channel |
| `asker`, `turn` | `build_tools` gives the tool to subagents and to session agents; a session agent holds its session's lock while it waits |
| `inbox`, `said` | the human's replies: those no turn has taken up, and all of them (the human may reply both ways) |
| `acks` | the successes that `approval_respond` reported |

The relaying agent is assumed to pass on what the human said. Two questions are enough for a
subagent and a turn to wait at once, and for a turn's question to delay the reply to the
other: questions share nothing but the turn. `FairWaits` says timers fire and woken tools
run; `FairRelay` is strong fairness of a relay, because tokio's mutex serves its waiters in
order. `expire_old` is not modelled, since nothing in the program calls it.

| run | question | answer |
|---|---|---|
| `asks_kept` | is the tool a one-shot `Decision`, does every question end and every reply get relayed? (and is every message handled, see Chat) | yes |

The answer to a turn's question cannot be relayed while it waits, if it comes in the same
session: the reply waits for the turn lock the question holds, so it is the timer that ends
the question. `RepliesRelayed` says that the reply is relayed then.

Not claimed, because it does not hold: that an acknowledged approval reaches its asker (a
reply relayed between the timer and the clean-up, or after an abort, is acknowledged and
lost), and that every listed approval has a waiter (the entry of an aborted asker stays).

`ChatProofs.tla` proves, for every number of questions, the refinement of `Decision`, and
three invariants that the run need not check again: `WaitersAreReachable`,
`NoActionWithoutYes` and `AskerAndRelayAgree`. The chain of the invariant: an approval comes from the channel, what is
in the channel was acknowledged, at most one success is acknowledged because a success
removes the entry, and an entry is there exactly as long as a waiter has an empty channel.

### PlanOrder, PlanExec

`PlanOrder.tla` is `topo_sort` of `src/src/plan.rs`: the in-degree table, the queue and the
while loop (`Round`), over plans whose ids and dependencies may repeat. `SortedAsDefined` is
the definition it is measured by: refused exactly when an id repeats, a dependency is unknown
or there is a cycle, and otherwise sorted into the fewest batches.

`PlanExec.tla` is `execute_plan` and its driver task, over the pool as `TaskPool` promises it.
A child is called by its task's id, so `task_map` is the set `spawned`. Every read of a
child's status is a step, because each takes the pool's lock anew.

| variable | code |
|---|---|
| `plan`, `outcomes`, `spawned` | `status`, `task_outcomes` and the keys of `task_map` of `PlanExecution` |
| `tasks`, `batches` | the request and its batches |
| `phase`, `at`, `seen` | where the driver is: spawning batch `at`, polling it (`seen`: children this poll found ended), recording outcomes, cancelling after a time-out, reviewing, finalising |
| `refused`, `anyFailed`, `timedOut` | spawns that returned `Err`, and the driver's two flags |
| `late` | the two hours since `started_at`, or the half hour of the review, have passed |
| `status`, `started` | the state of `TaskPool` |
| `revived` | children started after a cancellation (history; it says where `Subagent` loses a cancellation) |

`SpawnTask` and `SpawnFails` are the two outcomes of `spawn_with_agent`; `LookEnded`,
`LookAlive` and `AllDone` one poll; `RecordOutcome` the second read; `CancelChild` the
time-out; `BeginReview` and `ReviewEnds` are `run_final_review`. `PoolMoves` lets the pool and other callers
of it do anything `TaskPool` allows to any child.

Bounds: the plans of `MCPlanExec` (nothing to do, independent tasks, a chain with a repeated
dependency, a fork, a join, a cycle). Three tasks give a batch of two after and before
another, which is all a poll and a batch change can tell apart.

Fairness: the driver never blocks and time passes. Nothing is assumed of the pool, so
`PlanEnds` holds although children may hang.

| run | question | answer |
|---|---|---|
| `plan_drive` | does a task start only after its dependencies are over, does no child outlive its plan, does the final status tell what became of the children, does every plan end? | yes, counting a child whose cancellation was lost as over |

The comment at `plan.rs:21` says that the dependencies "must complete". The code takes a
dependency that failed, timed out or could not be spawned for dealt with as well, and
`StartsAfterDependencies` states no more than that.

`PlanExecProofs.tla` proves the four invariants of `plan_drive` for every set of names and
plans. The assumption `PlansAssumption` says that `topo_sort` does what `SortedAsDefined` says:
what a recursive definition computes is out of the prover's reach, so TLC evaluates the
assumption for the plans of the runs. The invariant has three parts beyond types: where the driver is
(`Positioned`), that what it has dealt with is over in the pool (`Settled`), and that what it
has recorded is so (`RecordedRight`). The pool's own steps enter through one lemma: whatever
`TaskPool` does, a child that is over stays over (`Advance`).

### Cron

`Cron.tla` is `src/src/cron.rs` with the tools `cron_add`, `cron_update`, `cron_remove` and
`cron_run`. `list` and `runs` only read. `ScheduleTool` and `cron_utils` are not registered by
the daemon and are left out.

| variable | code |
|---|---|
| `jobs`, `file` | the map of `CronScheduler` and the content of `cron.json` |
| `tickPc`, `toFire` | `tick`: under the mutex, before and in `save`, spawning what is due (with a copy of the job or without), or hung |
| `pc`, `arg` | where the turn that called a tool is, and its job |
| `waiting`, `found`, `executing` | spawned runs: before the look-up of the job, before the insertion into `running_jobs`, executing |
| `running` | `running_jobs` |
| `added`, `fired` | history: one-shot jobs added under an id, runs of one-shot jobs that `tick` spawned |
| `promised`, `aborted`, `stale`, `failures`, `crashes` | history: one-shot jobs still to run, dropped runs, whether the last write failed, failed writes, restarts |

A use of the map is one step and needs the mutex, which only `save` keeps over more than one
step: between `CallSaves` and `CallSaved` (and `TickSave` and `TickSaved`) the file is `Torn`.
`Crash` drops everything but the file. A time is `unset` (0), `later` or `due`; `TimeComes`
moves it, so no clock is needed; delays are taken to fit into `i64`. An expression is good, bad
(`next_run_for_expression` refuses it and `tick` pauses the job) or endless: with a step of zero
`parse_cron_field` never returns (`Hangs`, `TickHangs`). A job whose expression is good but not
due within a year is paused as well (`over`). An id is a name and a second, so that `Add` may
meet a job under its id and replaces it. A write of the file may fail (`SaveFails`); the code
ignores the error.

Bounds of `cron_jobs`: one id (jobs of different ids meet in the mutex and the file only), to
which jobs of either kind and any expression are added, two one-shot ones at most; two callers,
two spawned runs of a job not yet begun, one failed write, one crash. A second caller is needed
for two tools to overlap in a save and for two runs by hand; a second crash starts from a state
of the first. `cron_once` has two ids with a one-shot job each, good or endless, one caller and
no failed write: the second id is there because it hangs the first.

Fairness: the scheduler thread polls for ever; runs end by `agent_timeout_secs`; time passes;
the mutex is given in the end to a thread that keeps asking (strong fairness).

| run | question | answer |
|---|---|---|
| `cron_jobs` | can a job run twice at once, a one-shot job fire twice, the file differ from the map? | no, at every crash point; but a write that failed may leave a one-shot job in the file to fire once more, and the file behind the map until the next save |
| `cron_once` | does a one-shot job fire in the end? | yes, unless it is removed, updated, or lost by a crash after it left the file, or a run by hand of it was dropped with its turn: its id then stays in `running_jobs`; or an expression hangs the scheduler |

Not claimed, because it does not hold: that a job whose `cron_add` has returned survives a
restart (a crash may hit the file while another save has it truncated); that every job added
fires. An expression with a step of zero (`*/0 * * * *`) keeps `tick` in `parse_cron_field` for
ever with the mutex of the jobs held, and `cron.json` brings it back after a restart. And two
adds of one name in one second share an id: the second job replaces the first.

`CronProofs.tla` proves the types and the three invariants of `cron_jobs` for every set of jobs and callers and
every number of crashes and failed writes, assuming only that `NoId` is not an id, the kinds and
expressions of jobs, and that a torn file is not a map. Beyond types the invariant counts
one-shot jobs twice (`OnceInv`): those that were spawned, that are in `to_fire` and in the map
are together no more than were added and writes that failed; and so are those that were spawned,
are being spawned and are in the file. Without the second sum a crash could bring a job back
that has run. The liveness property
`OnceFires` stays with TLC.

### Providers

`Providers.tla` is the resilience layer of `src/src/providers/`: `fallback.rs` over
`reliable.rs` over `circuit_breaker.rs`, called by several threads at once. The factory gives
every provider a `ReliableProvider` with a breaker of its own and puts them in one
`FallbackProvider`.

| variable | code |
|---|---|
| `breaker`, `failures`, `cooled` | `CircuitBreakerState` per provider; `failures` is counted up to the threshold, which is all it is compared with; `cooled` is `last_failure_time.elapsed() >= cooldown_duration` |
| `pc` | where a call is: idle, before `check_and_attempt`, or with a request out whose fate the service has decided (`served`, `failing`) but which is not recorded yet |
| `stream`, `at`, `attempts`, `error` | `chat_stream`'s own attempt, the index in the chain, `total_attempts`, what the call returned |
| `up` | the service behind a provider |
| `asked` | requests of the call (history) |

`Check` is `check_and_attempt`; a refusal is an error without a status and so `Network`.
`Succeeds` and `Fails` record and then do what `ReliableProvider` and, through `FallOn`, the
chain do with the error. Error kinds are four: retried, switched on, `Auth` (which ends a chain
but restarts a failed stream), and the rest. `exhausted_providers` never applies, as the
configuration has each name once. Backoff only delays.

Bounds: two calls, two providers, threshold 2, two retries: a breaker can trip within one call
and by outcomes of two. Fairness: threads run, requests end, the cooldown passes, and agents
keep calling.

`providers_chain` shows that the breaker blocks exactly from the failure that reaches the
threshold to the next success whatever late outcomes come in (so the branch of `record_failure`
for a half-open breaker below the threshold is never taken), that a call sends at most one
request per provider plus its retries (plus one for a stream), that it gives up on an error
worth a fallback only without provider or retry left, that calls end, and that the breaker of a
provider that works again closes for good. What the model also shows, and no property says: a
half-open breaker lets every request through, not one; and a first provider that uses up the
retries leaves the other providers unasked.

`ProvidersProofs.tla` proves the invariants and `GivesUpLate` for every number of calls,
providers, retries and every threshold. `RetriesShared` needs a strengthening: a call about to
ask has asked one less than it may (`Counted`).

The module also holds the proof about `Wire`, what a request and its answer are made of:
`ConversationIsKept` is `WireIsFaithful` for every set of models, payload limit and kinds of
message, and for histories and texts of any length. `WireInv` has a part for each of the four
things a provider does. `RequestsFit`: the request built last was built from the history there
is. That Gemini's contents alternate and hold the messages in order is an induction over the
messages (`GroupsFit`): the groups made of the first n of them, flattened, are those n.
`AskedFits`: the models asked are an initial part of the chain, in which none is twice.
`StreamFits`: with one block of thoughts, what has been shown up to a position of the text is
what lies outside of the block (`ScanFits`); it is kept by each piece that `ThinkStripper`
reads, wherever an event ends, because half an opening tag at the end is held, and half a
closing one is what `cutClose` records. `SignedFits`: of the calls of Gemini only those before
the first signature have none. `WireAssumption` is that models are finitely many, that the
built-in list has each once (`DEFAULT_FREE_MODELS`), and that a message has a size.


### Compaction, AgentTurn

`Compaction.tla` is what `agent/compaction.rs` does to a history, as operators: the repair of
tool calls and results (`Sanitize`), `trim_history` (`Trim`), the compressor with its cut
points (`HeadEnd`, `TailCut`, `KeepLastUser`, `SummaryOf`, `Compressed`) and the older
compaction (`LegacyCompacted`). A message keeps its role, the calls it makes and the call it
answers; contents and sizes are left out, and where a token budget ends (`walk`) is an input.

`AgentTurn.tla` is the loop of `turn` and `turn_stream` over these operators.

| variable | code |
|---|---|
| `history` | `Agent::history` |
| `pc`, `passes` | where the turn is: between turns, in the preflight compression and its passes, about to ask the model, after the tools, or aborted by a panic (`panic = "abort"`) |
| `iterations`, `nudges`, `tried`, `spoke` | `iterations`, the two nudge counts, `tool_call_counts`, and whether `accumulated_text` has any |
| `native` | `supports_native_tools` of the provider of this turn |
| `streak` | `ineffective_compression_count` |

`Turn` and `TurnStream` run up to the loop: system prompt, request, trim, and the decision to
compact. `Preflight` is a pass of the loop before the loop. `Answer`, `Call` and `GiveUp` are
the three things that can come of an iteration's request, each with everything up to the
`continue` or `return`: nudges, deduplication, circuit breaker, tools and their stubs.
`Settle` is the compression after the tools. `Reset` is `/reset`. A reply calls tools in one of
four styles, because the code takes calls from the message's `tool_calls` (with ids, or empty
ones from Ollama) and from its text (XML without ids, JSON with them). Tools that die return
no result in builds that unwind; in the release build they end the daemon.

Bounds: two turns, two iterations, seven messages of history, one retry of a call. A first
turn leaves all kinds of messages behind, a second one cuts them. The replies are a repeated
call, and five calls, the least that fill the history behind the head of three
(`protect_first_n`) beyond the minimum of `compress`.

| run | question | answer |
|---|---|---|
| `turn_history` | does each result stay right behind its call, are the calls without result those that were dropped, blocked or answered in text, does a compression keep the latest user message, does a turn end? | yes; with two exceptions of `compress` that the properties name |
| `turn_request` | is there a user message after each summary, as the summary tells the model? | no: if the latest one is the first behind the head, it is summarised as already addressed |

The exceptions: `LatestUserKept` excludes the case of `turn_request`, and
`AbortsOnlyOnResults` says for which histories the slice at `compaction.rs:274` is out of
bounds: those with nothing but tool results behind the head, which a first reply with five
calls produces if it fills the context.

`AgentTurnProofs.tla` proves that every step of a turn uses up a budget (`TurnsAdvance`), for
every limit on the iterations, from an invariant on counters and phases. That a turn then ends
takes that its awaits return: requests and retries have timeouts, tools are taken to have
theirs.

It also proves, for all tools, replies, sizes and limits, that results follow their calls
(`PairsResults`) and that the slice of the compressor is out of bounds only in the case named
(`AbortsRarely`). `ResultsFollowCalls` is not inductive: a cut leaves results without their
call until the next repair, and histories are cut, compressed and repaired in several places
of one step. `HistoryInv` says what holds between all of them: the history is mended
(`Mended`), that is, each result that names a call stands right behind the message that made
it, with nothing but results between, and no two messages make calls with one id. There is a lemma for each operator of `Compaction`:
what `Sanitize` makes of any history is paired (`SanitizePairs`), a cut at any place that is
then repaired is mended (`CutMends`), and so are `Trim`, the compressor's three parts and the
older compaction.

`LatestIsKept` states `LatestUserKept` for a protected head of three messages or fewer; the code
fixes three (`compaction.rs:43`). The property is not inductive: it looks for the last message
of the user's side (an ask), and the compressor for the last one with the role of the user, which
may be a summary. `AskInv` says where asks stand. One in front of a summary with that role is the
first message behind the system prompt (`AsksFirst`), so no summary behind the latest ask can be
taken for it. And no result stands right behind an ask (`AsksAnswered`), so that a head which is
extended over results does not end its first three messages with an ask. That the repair and the
cuts keep the conversation, results left out, rests on a lemma about `Picked`: what is picked
from two sequences is the same if the positions match (`PickedAgree`). For a long head the
property would be false: stubs that the repair inserts in the head move the messages behind them,
and a summary with them, into the part that is no longer protected.

### Routing, Inbound, Delivery

`Routing.tla` is `agent_routing.rs` as operators: which agent and session a message belongs
to. `Inbound.tla` follows an update of Telegram to its turn, `Delivery.tla` a reply to the
screen.

| variable | code |
|---|---|
| `sent`, `asked` | what users wrote, and what the server will not hand out again because a request's offset passed it (polling) or because it was pushed (webhook) |
| `offset`, `stored` | `last_update_id` in memory and in the offset file |
| `buffered`, `quiet` | `pending_text`, `pending_media`, and which of them have seen nothing new for two or three seconds |
| `phase`, `batch` | per thread: polling, flushing or publishing, and the messages it has yet to publish |
| `inbound`, `spawned`, `serving`, `handled` | the bounded queue, the dispatcher's tasks, the turn lock of each session, the turns that ended |
| `turns`, `pieces`, `out` | where each turn of a chat is, the chunks it has streamed, the bounded outbound queue |
| `draft`, `stream`, `screen` | `draft_buffers`, `active_streams`, and the chat as the user sees it |
| `typing`, `beats`, `poller` | `typing_stops`, the typing threads that run, the poll loop's typing notice |
| `forgotten` | history: what a restart found in memory and nobody makes good (`LostAtRestart`) |
| `log`, `faults` | the finals dispatched; requests that went wrong, which are bounded |

`Poll` is `poll_updates` with the flush of ripe buffers, `Push` and `Flush` the webhook
handler, `PublishInbound` and `Persist` the rest of the loop in `channel_loop.rs`. `Restart`
forgets all memory and starts from the file. `DispatchChunk` and `DispatchFinal` are
`send_stream_chunk` and `do_send_message` with everything they call: a text tries MarkdownV2,
HTML and plain, without its topic if that is gone; floods are retried three times; a request
may also succeed with its answer lost. `Formatted` is a recursive function over the modes that
gives all outcomes of that chain.

| run | question | answer |
|---|---|---|
| `chat_messages` | is every update the server was told to forget held or done, once, and merged in order, but for what a restart finds in the buffers, the queue, the tasks and the turns? do finals stand on the screen once and in order, with the draft the newest message? | yes; what a restart finds there is lost, for the offset is already stored or the update was pushed. Only the single messages of a polled batch come once more |
| `asks_kept` | does every message get its turn while the process lives? | yes |

Bounds of `chat_messages`: two chats, three updates, a queue of one, one crash, polling; two
turns and a final of a cron job, a queue of two, one piece a turn, one failed request. Three
updates are what it takes for a merged text, something published ahead of it, and a crash
between. One failed request suffices because the chain forgets it. The webhook's handlers are
in `Inbound` and not in this run. In `asks_kept` there are one chat and two updates. Its
fairness: buffers mature because the clock runs; the polling thread, the dispatcher and the
sessions take steps while they can, since their loops block only on the queue they wait for,
and since turns end (`TurnAdvances`).

What does not hold and is therefore not claimed: no update outlives a restart once it is in
the queue, since nothing in memory is saved; texts are gathered by chat and not by topic;
a reply whose edit of the draft failed is lost, its error ignored; a typing notice sent
after its turn has ended is stopped by the next reply only; `[NO_REPLY]` leaves the draft on
the screen; the buffers of a webhook are flushed only by the next update; and with a crash an
update may be handled twice.

`ChatProofs.tla` proves `MessagesKept` for every number of chats, updates and restarts
(`MessagesAreKept`), and of pushed updates all but the order of merging (`UpdatesAreKept`): two
webhook handlers may put their updates into a buffer the other way round. The invariant
`InboundInv` relates all the places an update can be in, which are the buffers, the batches,
the queue, the dispatcher's tasks and the turns. `Once`: no update is in two places or twice
in one. `MessagesGood` and `BuffersMatch`: what is gathered or merged is of one chat, and a
polled message has growing ids. `TurnsCounted`: an update has had at most one turn for each
life of the process that fetched it, and while it is on its way none in this life; here it
counts that `Poll` requests from the offset on and that `Push` takes an id that was not
pushed. `NoneIsLost`: what was fetched is in hand, in the queue or beyond, had its turn or was
found in memory by a restart, and the file never runs ahead of the single messages that
reached the queue. `Takes` and
`Flushes` say what `process_update` and `flush_pending_inbound` do to the places, whatever
the order of the hash map. The assumption `MessageAssumption` is that `NONE` is no message
and that one thread polls (`channel_loop.rs` runs one loop).

`FinalsShown` is proved for every number of turns, notes, streamed pieces and failing requests
(`FinalsAreShown`). The invariant `DelInv` says three things that the property needs together.
The draft and the message a reply is streamed into hold no part of a final text, and that
message is the newest (`StreamFits`): this is what a final may edit without touching another's
text. A final is in the queue or in the log, once, and a turn's only after the turn has ended
(`EachFinalOnce`, `RepliesOnce`). Every part on the screen belongs to a final of the log, parts
stand in the order of the log, and no part stands twice (`PartsLogged`, `LogOrder`,
`PartsOnce`). A call of the Bot API enters only by its `Outcome`, so that the argument covers
every chain of modes, floods and lost answers at once: what may have been shown is never sent
again. `DeliveryAssumption` is that a turn is no note.

### The components that share nothing

Seventeen smaller modules each model a component that shares no state with another.
`MCComponents` composes them in one run, `components_each`: `part` is chosen in the initial
state, and a behaviour is one of that component while the others stay as they were.

| module | code | state and steps | property |
|---|---|---|---|
| `Sessions` | `session.rs`, `dialectic.rs` | tasks, the turn lock and turn count per key, analyses that read and write the profile; a step per lock or await | `AnalysedEveryFive`: exactly one analysis per five turns |
| `Daemon` | `daemon.rs`, `heartbeat.rs` | component states, the gateway's pause, the heartbeat's tick line by line, its file, the main thread's end; `TickEnd` and `Die` may leave the file as it was or cut off | `EarlyOnlyAfterCut`: a restart alone, or a full bus, repeats no task |
| `Events` | `events.rs`, `tools/event_*.rs` | watchers, their mutex, `next_id`, the file, the bounded bus; each call split at its locks, a save where it has cut the file off | `WatchersKept`: no id goes to another watcher, the file is the map when nobody is at work and the last write was done; watchers not removed are lost only by a save that was cut short or failed |
| `Memory` | `memory/sqlite.rs`, `dream.rs` | the table, its search index, embeddings, the dream under way | `MemoryFindable`: the index is the table; who owns a match is given one, and only his own |
| `Notebook` | `tools/memory_md.rs` | the length of the file and of what each call read; read, measure, truncate, write | `FileWithinLimit`: however calls overlap, the limit holds until an add measures a shorter file than it had read |
| `SkillFiles` | `tools/skill_manage.rs`, `skill_install.rs` | folders and `SKILL.md`, each call split at its awaits, a delete after it has emptied the folder | `SkillsStayGone`: no edit, patch or create that a delete overtook brings the skill back, until its folder is made again |
| `SkillUsage` | `skills/usage.rs`, `agent/curator.rs`, `skills/self_improve.rs` | rows, ages, the curator's pass over a report read earlier, the journal | `SkillsStayGone`: what is archived stays so until used |
| `Goals` | `goals.rs`, `tools/goals.rs` | a map per manager, the one file, saves under way, restarts | `BoardsKept`: the file ends as the daemon's map |
| `Boards` | `agent_mailbox.rs`, `tools/{agent_post,agent_recv,todo}.rs` | queues by name; the todo list | `BoardsKept`: messages once, oldest first; no item twice |
| `Wire` | `providers/{openai,gemini,anthropic,ollama,sse}.rs`, `model_router.rs` | operators on histories for the bodies; the state of a stream of events | `WireIsFaithful`: bodies keep the order and pair what they keep; what is streamed is what was sent, wherever events cut it |
| `Cli` | `providers/gemini_cli.rs` | child process, its pipe, the lock of `inner`, calls | `AnswersAreOwn`: a reply is the text of its own prompt's last line, or all the updates of that prompt |
| `StreamedTurn`, `Wording` | `agent/mod.rs` (`turn_stream`), `agent/response_cache.rs`, `tools/cache.rs`, `model_router.rs` | caches, rounds, nudges, breaker, text put together | `TurnAnswers`: a reply has every round's text; one call runs a bounded number of times |
| `Browser` | `tools/{browser,cdp}.rs` | processes, pages, sockets with what is under way, clients, the script each caller is in | `AnswersAreOwn`: an answer is to the command it is taken for, and is lost only by sharing |
| `Mcp` | `mcp.rs` | calls, the lock of stdout, requests and lines on their way, the start's handshake and list | `AnswersAreOwn`: an answer for each call that waits, so that calls that meet (and may swap answers) leave none over; its own for a call that meets no other |
| `Meet` | `tools/google_meet.rs` | the session, the loops, the browser, transcript and status files | `MeetKept`: when all loops are over the session is not in a call; files that could be written, and counts, agree unless joins overlap, here or in a subagent's tool |
| `Wizard` | `tui_onboard.rs`, `onboard.rs` | the screen, the partial configuration, the file, fetches under way | `SavedIsAsked`: the model saved for a provider chosen is its own, or `""` where it had none to offer; what was not touched stays |

Variables, and which lines each definition stands for, are named at the top of the modules and
in `PROJECT.json`. The bounds are in `MCComponents_each.cfg`. Most components get two callers
(sessions, agents, prompters, users): two are needed for one to come between the steps of the
other, and what a third could do between two steps the second can do. Skill folders get three
agents: there one edits, one deletes and one makes the folder again. Counts that only grow
are bounded where the case of interest has happened: six turns of a session (an analysis comes
after five), two deaths of the daemon in four intervals, two joins of two bots, one session of
the wizard from each kind of file (none, broken, one it might have written, one by hand: what it
writes is again such a file), two processes and sockets of the browser with a
crash between. Histories of `Wire` have four messages and streams five pieces, the least for a
tag to open and close across events with text around it. `Wording` takes the marks that the
word lists of the code find in a text as its input.

| run | question | answer |
|---|---|---|
| `components_each` | the properties above | they hold |
| `events_emit` | does an emit return its count? | no: it saves with the mutex of the watchers locked, and waits for itself |

In `events_emit` callers and the reader of the bus run on (`EventsFair`): a mutex is held by
one that goes on, so what stops is stopped by the code.

`ComponentsProofs.tla` holds the proofs, for all values of the constants; those about `Wire`
are in `ProvidersProofs.tla` (see Providers).

`WatchersAreKept` holds for every number of callers, ids and conversations.
`next_id` is above every id in the map and in the hands of a caller
(`IdsAreFresh`), a caller that fires holds the mutex and the map is as it found it but for the
counts (`EmitHolds`), and the file differs from the map only while a caller is about to save
or writing, or after a write that failed (`FileFollows`). A restart in a write finds a file that
loads as no watchers, and numbers from one again: the theorem says that this, or a save not yet
done, is the only way a watcher is lost that was not removed. That `load` numbers on from the largest id on file takes that a finite
set of numbers has a maximum, which is proved from the well-foundedness of strict inclusion.

`AnalysesAreRegular`: the tasks in a turn are the holders of turn locks (`LocksMatch`), so at most one turn of a
session is counted and not yet looked at (`CountsMatch`). `RestartsRepeatNothing`: for
every task whose last record was not lost, what the tick has in memory, or the file once it
is over, is when the tick that published it began; the clock may have gone on since, while the
bus was full, so the next publication is due that much sooner and no more.
`MemoryIsFound`: index and table change together, and of a finite, non-empty set of matches
one is kept.

`SkillsAreGone` is `SkillsStayGone`, from an invariant for each of its two parts. A `SKILL.md`
is in a folder, and a skill that is gone (the history variable `gone`: its delete was done and
its folder was not made again) has none (`FoldersMatch`), so that the write of a call the delete
overtook fails. Each change a pass has still to make fits its row (`ChangesFit`): while the skill
has not been used since the report was read, a row that is archived, or old enough to be, is to
be archived by every pass that holds a change for it, and one whose record has not been written
yet is archived if it is old enough. The second part is needed because a record makes the row
young again, which another pass that is to archive it must still find archived.

`FileKeepsToLimit` is `FileWithinLimit`. `Notebook` keeps lengths only, so that an edit may find
and leave any text. As long as no add has measured less than it had read, whatever a call is
about to write keeps to the limit (`EditsFit`): an add writes no more than it measured, and of
two writes that meet in the file the longer text is left.

`MeetingsAreKept` is `MeetKept`. A session in the call has a loop that is past the page, and to
take it out of the call is the last thing such a loop does (`InCallHeld`). Unless a meeting is
joined over another, nothing is on between the clearing of the files and the new session
(`StoreReady`), nor while a meeting of another tool is (`OthersAlone`), so a session's only loop is its own: the page, the captions it holds and the
file it appends to are of that meeting, and the transcript is at most the one line ahead that
the loop has still to count (`OneLoop`).

`AnswersAreTheirs` is `AnswersAreOwn` for the composition, from the invariants of three
components that each give a caller its answer in a different way. For the first it claims the
least, since there the code claims nothing:

* `McpInv`: the answers to come are as many as the callers that wait, and a call that met no
  other finds only its own. No ids are looked at, so it is a matter of counting: which of two
  answers two calls at once get is left to chance, but neither is there for a third. A line
  nobody asked for and a call that was dropped shift all later answers, and end the claim.
* `CliInv`: one prompter holds the lock and reads (`OneReads`), what it has read and what is
  in the pipe are the updates of its prompt, and together all that were sent (`OwnLines`), so
  a reply made of them is complete, unless the last line's text replaces them (`RepliesMade`).
* `BrowserInv`: while a call has met no other none runs (`AloneIsAlone`), and what such a call
  sent on an open websocket is on its way, or its answer is (`AnswerComes`).

`BoardsAreKept` is `BoardsKept`: what was read from a queue and then what waits in it is in
the order of posting (`BoxesInv`), the todo list has each id once after any write and merge
(`BoardsInv`), and, for the goals, while intact only the daemon's manager is in a save, and
outside a save the file can be loaded (`GoalsInv`). The todo part rests on `Selection.tla`,
which picks elements of a sequence by their positions: `SelectSeq` is defined by a recursion
the provers cannot see into, a recursive function is one they can.

`TurnsAnswer` is `TurnAnswers` for every number of tools, messages, rounds and retries. While a
turn runs, what the model said in it is in the text put together, and nothing but what it
said (`TurnKeeps`), so that a reply is complete whichever way the turn ends: by an answer, out
of the cache, with an error or at the limit of rounds; and what runs was counted
(`RunsCounted`).

`WhatIsAskedIsSaved` is `SavedIsAsked` for any sequence of keys, typed values, answers and
sessions, from any `config.json`, also one the wizard did not write or cannot parse (`Given`).
`WizInv` relates the screen, the configuration and the fetches under way: a list of models on the
screen is of the provider that is configured, or empty (`StageFits`), and so is every answer that
can still come on the channel the screen reads (`AnswersFit`), as a fetch that was given up
answers on a channel of its own; what was not touched is as it was loaded, and without a file to
edit the steps passed have left their model (`Session`). `SavedIsAsked` does not say that the
model is never empty: a provider that lists no models, or a failed fetch for
`openai-compatible`, has `""` saved. Nor does it speak of a file that cannot be parsed: that one
is edited as an empty one and written over.

`SelectionLemmas.tla` proves what `Picked` and `Flattened` yield, and least and greatest
numbers of sets. An induction there is an argument about a least counterexample, with the
property given as the set of numbers that have it (`Induction`), because the induction
theorems of the library take an operator.

Assumptions on constants are few: skills are finitely many, lock values are no callers and
`Nobody` is no prompter, `Lines` is a sequence of lines with natural intervals, keys and tools
are finite, the empty text is not stored, what a turn says of itself (an error, the limit) is
nothing the model says, and no provider is called as the empty choice.

## 4. What is only model-checked

Liveness is beyond the prover: `QueuedEventuallyStarts`, `HungTaskEnds`, `OnceFires`,
`AsksEnd`, `RepliesRelayed`, `EveryMessageHandled`, `PlanEnds`, `CallsEnd` and `Recovers`.

Each safety property of a passing run is stated by a theorem. The three properties that the code violates (`CancelledStaysCancelled`,
`RequestAfterSummary`, `EmitReturns`) have no theorem.

## 5. Not modelled

* `tools/composio.rs`: next on the plan.
* Configuration (`config*.rs`, `commands.rs`, `secrets.rs`, `auth.rs`), beyond what the wizard
  loads and writes.
* One-shot tools (shell, git, file, web, calculator): a call, its result, no state kept.
* WhatsApp, email, terminal and the gateway's HTTP: clients of external services, whose shared
  part is the bus and the dispatchers.
* Memory engines other than sqlite, `rag.rs`, `migration.rs`, `skillforge.rs`: not the default,
  or run once by hand.
* Prompts, token estimates, formatting, interactions: text in, text or a number out. They enter
  the models as inputs chosen freely.
* `RateLimiter`, `expire_old`, `evict_idle`, `flush_all_sessions`, `remove_goal`,
  `OpenRouterProvider`: nothing that runs reaches them.

## 6. Seen while modelling

Shortcomings the models keep and the properties leave room for, beside those named above.

* **Goals, todo.** A subagent's `GoalManager` writes its own stale copy over `goals.json`, and
  a write that is cut short loads as no goals. `tools/todo.rs:4` speaks of one list per session;
  there is one for all. A merge that gives no status sets an item back to pending.
* **Skills.** A `write_file` that a delete overtook, or the install of a repository that has no
  `SKILL.md`, makes the folder of a deleted skill again, and an edit that the delete overtook
  then puts `SKILL.md` back into it; so does an edit past its check when `remove_file` takes
  `SKILL.md`, or while a delete is under way. The clean-up of a failed install may take the
  `SKILL.md` a create has just written.
* **Events.** A save cuts `event_watchers.json` off before it fills it and drops its errors; a
  file that cannot be parsed loads as no watchers, and their ids are handed out again.
* **Meet.** Leaving and joining within a second leaves two loops on one session
  (`google_meet.rs:968` says the old one stops); the status file of a meeting that was left
  may say in a call, and so may that of one whose last write fails, as its errors are dropped.
  Each subagent is given a tool of its own (`build_tools`), on the same page and the same
  `meetings/` folder: its join takes the page from a call that is on and clears its files.
* **Browser.** The wait of one caller drops another's answer; an error of the websocket does
  not clear the connection; promises that reject are told as success.
* **MCP.** No answer is matched with its request: two calls at once may swap answers, and after
  a notification, or a call dropped with its turn, every later call reads the one before's.
* **Gemini command.** A line that is not JSON, a failed write or a missing user message loses
  the child's output for good, and a dead child is not started again. `chat_stream` hands the
  text of the last line on to nobody, where `chat` takes it for the whole reply.
* **Providers.** A payload that is too long is cut between calls and results; Ollama's and
  Anthropic's bodies drop calls; the end of a stream without its last event counts as success.
* **Caches.** Answers that were nudged are cached; a hit leaves no message of the assistant in
  the history; a file that was read is answered from the cache for a minute after it changed.
* **Commands.** `/reset` gives every agent the same memory session; the key given to
  `/provider` is saved in the clear; the model is changed before the save that may fail.
* **Wizard.** A custom base url is written for whichever provider is chosen later. Choosing a
  provider in an edit and leaving the step with Esc saves the new provider with the old model of
  the agent's. An empty list of models, and a failed fetch for a custom provider, save the model
  `""`. A `config.json` that cannot be read or parsed is edited as an empty one, and saving
  writes over all of it; saving also drops what `to_json` does not know.
* **Memory, skills.** Embeddings outlive their rows; a dream deletes rows updated since it read
  them; the curator's own change of a state counts as activity; `turn_stream` records no use.
* **Sessions.** A session keeps the agent of its first message; analyses that overlap lose
  updates of the profile.
* **Daemon.** The gateway's pause starts over at each restart and never grows past two seconds;
  the flush at the end of `main` (`daemon.rs:1453`) panics.

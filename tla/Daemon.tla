------------------------------- MODULE Daemon -------------------------------
(***************************************************************************)
(* The threads run_daemon starts and stops (daemon.rs): the status it      *)
(* keeps of them, the gateway it restarts, the heartbeat (heartbeat.rs)    *)
(* that publishes the tasks of HEARTBEAT.md, the dispatcher that turns     *)
(* messages into turns, and the shutdown.  Scheduler and supervisor ticks  *)
(* are in Cron and Subagent, the two dispatchers' work in Inbound and      *)
(* Delivery.                                                               *)
(*                                                                         *)
(* A heartbeat line is [task, every, routed]: its description, its         *)
(* interval, and whether `@to channel:chat` could be parsed.               *)
(***************************************************************************)
EXTENDS Integers, Sequences

CONSTANTS Lines,        \* the lines of HEARTBEAT.md, in order
          Space,        \* capacity of the inbound bus
          MaxTime,      \* bound on the clock, in heartbeat intervals
          MaxFailures,  \* bound on failures of the gateway
          MaxDeaths    \* bound on crashes and restarts of the process

ASSUME DaemonAssumption ==
  Lines \in Seq([task : STRING, every : Nat, routed : BOOLEAN])

VARIABLES component,    \* DaemonState.components
          gateway,      \* what gateway_thread is doing
          pause,        \* the seconds it sleeps before it starts again
          now,          \* the clock
          lastRuns,     \* .heartbeat_state.json
          beat,         \* heartbeat thread: line reached, state in memory
          nextTick,     \* when the next tick is due
          queue,        \* messages on the inbound bus
          told,         \* history: task -> start of the tick that published it last
          early,        \* history: tasks published too early, their record kept
          main,         \* "running", "panicked" or "stopped"
          deaths,      \* crashes so far
          cut           \* history: tasks whose last record a death or an error lost

dmVars == <<component, gateway, pause, now, lastRuns, beat, nextTick, queue,
            told, early, main, deaths, cut>>

Components == {"gateway", "heartbeat", "scheduler", "inbound_dispatcher",
               "outbound_dispatcher"}

Descriptions == {Lines[i].task : i \in DOMAIN Lines}

\* add_component: a component counts as running before it has started.
Added == [running |-> TRUE, restarts |-> 0, backoff |-> 1, failed |-> FALSE]

MarkRunning(c) == [c EXCEPT !.running = TRUE, !.failed = FALSE, !.backoff = 1]

ComputeBackoff(b) == IF 2 * b > 60 THEN 60 ELSE 2 * b

MarkError(c) == [c EXCEPT !.running = FALSE, !.failed = TRUE,
                          !.restarts = @ + 1, !.backoff = ComputeBackoff(@)]

NeverRun == [d \in Descriptions |-> 0]
NoBeat == [line |-> 0, runs |-> NeverRun, sent |-> 0, at |-> 0]

DaemonInit ==
  /\ component = [c \in Components |-> Added]
  /\ gateway = "starting"
  /\ pause = 0
  /\ now = 1
  /\ lastRuns = NeverRun
  /\ beat = NoBeat
  /\ nextTick = 1          \* last_tick starts one interval back
  /\ queue = 0
  /\ told = NeverRun
  /\ early = {}
  /\ main = "running"
  /\ deaths = 0
  /\ cut = {}

-----------------------------------------------------------------------------
(* gateway_thread.                                                         *)

\* Every start marks the component as running, which resets its backoff.
GatewayStart ==
  /\ gateway = "starting" \/ gateway = "asleep"
  /\ gateway' = "serving"
  /\ component' = [component EXCEPT !["gateway"] = MarkRunning(@)]
  /\ UNCHANGED <<pause, now, lastRuns, beat, nextTick, queue, told, early,
                 main, deaths, cut>>

\* serve returns an error: mark it, then sleep for the backoff just computed.
GatewayFails ==
  /\ gateway = "serving"
  /\ component["gateway"].restarts < MaxFailures
  /\ component' = [component EXCEPT !["gateway"] = MarkError(@)]
  /\ pause' = component'["gateway"].backoff
  /\ gateway' = "asleep"
  /\ UNCHANGED <<now, lastRuns, beat, nextTick, queue, told, early,
                 main, deaths, cut>>

\* serve returns without one: sleep for a second.
GatewayExits ==
  /\ gateway = "serving"
  /\ pause' = 1
  /\ gateway' = "asleep"
  /\ UNCHANGED <<component, now, lastRuns, beat, nextTick, queue, told, early,
                 main, deaths, cut>>

-----------------------------------------------------------------------------
(* heartbeat_thread and HeartbeatEngine::tick.                             *)

\* The clock is read once, for every line of the tick.
TickBegin ==
  /\ beat.line = 0
  /\ now >= nextTick
  /\ beat' = [line |-> 1, runs |-> lastRuns, sent |-> 0, at |-> now]
  /\ UNCHANGED <<component, gateway, pause, now, lastRuns, nextTick, queue,
                 told, early, main, deaths, cut>>

Due(l) == beat.at >= beat.runs[l.task] + l.every

\* A line that is not due, or has nowhere to go, is passed over.
SkipLine ==
  /\ beat.line \in DOMAIN Lines
  /\ ~Due(Lines[beat.line]) \/ ~Lines[beat.line].routed
  /\ beat' = [beat EXCEPT !.line = @ + 1]
  /\ UNCHANGED <<component, gateway, pause, now, lastRuns, nextTick, queue,
                 told, early, main, deaths, cut>>

\* publish_inbound waits while the bus is full, and the clock goes on; then
\* the run is noted in memory, under the description alone.
PublishLine ==
  /\ beat.line \in DOMAIN Lines
  /\ LET l == Lines[beat.line]
     IN /\ Due(l)
        /\ l.routed
        /\ queue < Space
        /\ queue' = queue + 1
        /\ told' = [told EXCEPT ![l.task] = beat.at]
        /\ early' = IF l.task \notin cut /\ told[l.task] # 0 /\ now < told[l.task] + l.every
                    THEN early \union {l.task} ELSE early
        /\ cut' = cut \ {l.task}
        /\ beat' = [beat EXCEPT !.line = @ + 1, !.runs[l.task] = beat.at, !.sent = @ + 1]
  /\ UNCHANGED <<component, gateway, pause, now, lastRuns, nextTick, main, deaths>>

(* A slip: a tick that could not publish every line writes nothing. *)
WrittenWhole == IF beat.sent = Len(Lines) THEN beat.runs ELSE lastRuns
Written == IF beat.sent > 0 THEN beat.runs ELSE lastRuns

\* What is on file is not what was published.
Lost(file) == {d \in Descriptions : file[d] # told[d]}

\* A write that fails leaves the file as it was, or cut off: load_state takes
\* what it cannot parse for no runs at all.
Spoilt == {lastRuns, NeverRun}

\* One write at the end, when something was published; its error is ignored.
TickEnd ==
  /\ beat.line = Len(Lines) + 1
  /\ \/ /\ lastRuns' = Written
        /\ UNCHANGED cut
     \/ /\ beat.sent > 0
        /\ lastRuns' \in Spoilt
        /\ cut' = Lost(lastRuns')
  /\ beat' = NoBeat
  /\ nextTick' = now + 1
  /\ UNCHANGED <<component, gateway, pause, now, queue, told, early, main, deaths>>

-----------------------------------------------------------------------------
\* inbound_dispatcher_thread: a message becomes a task that runs a turn.
DispatchOne ==
  /\ queue > 0
  /\ queue' = queue - 1
  /\ component' = [component EXCEPT !["inbound_dispatcher"] = MarkRunning(@)]
  /\ UNCHANGED <<gateway, pause, now, lastRuns, beat, nextTick, told, early,
                 main, deaths, cut>>

TimePasses ==
  /\ now < MaxTime
  /\ now' = now + 1
  /\ UNCHANGED <<component, gateway, pause, lastRuns, beat, nextTick, queue,
                 told, early, main, deaths, cut>>

\* Ctrl+C.  The flush is handed to Handle::block_on from within the runtime
\* that runs run_daemon, which panics: the flush, the joins and the threads'
\* own ends are never reached.
Shutdown ==
  /\ main' = "panicked"
  /\ UNCHANGED <<component, gateway, pause, now, lastRuns, beat, nextTick,
                 queue, told, early, deaths, cut>>

\* The process dies, and is started again with the files it left: a death
\* in a tick loses what it has published, one in the write may lose it all.
Die ==
  /\ deaths < MaxDeaths
  /\ deaths' = deaths + 1
  /\ IF beat.sent > 0
     THEN /\ lastRuns' \in IF beat.line > Len(Lines) THEN Spoilt ELSE {lastRuns}
          /\ cut' = Lost(lastRuns')
     ELSE UNCHANGED <<lastRuns, cut>>
  /\ component' = [c \in Components |-> Added]
  /\ gateway' = "starting"
  /\ pause' = 0
  /\ beat' = NoBeat
  /\ nextTick' = now
  /\ queue' = 0
  /\ UNCHANGED <<now, told, early, main>>

DaemonNext ==
  /\ main = "running"
  /\ \/ GatewayStart \/ GatewayFails \/ GatewayExits
     \/ TickBegin \/ SkipLine \/ PublishLine \/ TickEnd
     \/ DispatchOne \/ TimePasses \/ Shutdown \/ Die

DaemonSpec == DaemonInit /\ [][DaemonNext]_dmVars

-----------------------------------------------------------------------------
\* A heartbeat task is published again less than its interval after the
\* start of the tick that published it last only if the record of that tick
\* was lost: the daemon died in the tick or in the write of
\* .heartbeat_state.json, or the write failed.  A restart alone repeats
\* nothing, although the first tick comes at once, and a bus that keeps a
\* tick waiting brings the next publication closer only by that wait.
EarlyOnlyAfterCut == early = {}
=============================================================================

------------------------------- MODULE Events -------------------------------
(***************************************************************************)
(* The event registry (events.rs) behind the tools event_watch and         *)
(* event_emit: watchers kept in a map under a std mutex and in a file that *)
(* is read back at the start.  An event name is a sequence of its          *)
(* dot-separated parts, a pattern the parts before its wildcard and which  *)
(* wildcard ends it; prompts, commands and labels are left out.            *)
(***************************************************************************)
EXTENDS Integers, FiniteSets, Sequences, SequencesExt, FiniteSetsExt

CONSTANTS Callers,      \* tool calls that may be in flight together
          EventNames,        \* event names emitted
          Patterns,     \* patterns watched
          Conversations,        \* conversations the calls come from
          Room,         \* capacity of the inbound bus
          MaxIds,       \* bound on watchers registered
          MaxStops      \* bound on restarts of the process

ASSUME EventsAssumption == "free" \notin Callers

VARIABLES watchers,     \* id -> watcher, as in memory
          nextWatcher,       \* the id the next watcher gets
          saved,        \* the map load would take from event_watchers.json
          kept,         \* history: the last write of the file was done in full
          holder,       \* the caller that holds the watchers mutex, or "free"
          call,         \* what each caller is doing
          prompts,      \* agent tasks on the inbound bus
          shells,       \* watchers whose shell command is running
          notices,      \* reports and acknowledgements on the outbound bus
          stops         \* restarts so far

evVars == <<watchers, nextWatcher, saved, kept, holder, call, prompts, shells, notices,
            stops>>

Idle == [op |-> "idle"]

\* load takes a file that is absent, or cut off by a write that was not
\* finished, for no watchers.
NoWatchers == [i \in {} |-> 0]

\* What is left of a map without one of its keys.
Without(f, k) == [i \in DOMAIN f \ {k} |-> f[i]]

\* Exact match, `stem.*`, or `stem*`; a lone `*` is the last with no stem.
PatternMatches(p, name) ==
  CASE p.tail = "exact" -> name = p.stem
    [] p.tail = ".*"    -> IsStrictPrefix(p.stem, name)
    [] p.tail = "*"     -> IsPrefix(p.stem, name)

EventsInit ==
  /\ watchers = NoWatchers
  /\ nextWatcher = 1
  /\ saved = NoWatchers
  /\ kept = TRUE
  /\ holder = "free"
  /\ call = [c \in Callers |-> Idle]
  /\ prompts = 0
  /\ shells = {}
  /\ notices = 0
  /\ stops = 0

-----------------------------------------------------------------------------
(* event_watch: register, remove, list.                                    *)

\* execute checks its arguments and takes the next id under a lock of its
\* own; the watcher enters the map later.
WatchBegin(c) ==
  /\ call[c] = Idle
  /\ nextWatcher <= MaxIds
  /\ \E p \in Patterns, act \in {"agent", "shell"}, o \in Conversations :
       call' = [call EXCEPT ![c] =
                  [op |-> "watch", id |-> nextWatcher,
                   rec |-> [pattern |-> p, act |-> act, origin |-> o,
                            fires |-> 0]]]
  /\ nextWatcher' = nextWatcher + 1
  /\ UNCHANGED <<watchers, saved, kept, holder, prompts, shells, notices, stops>>

WatchInsert(c) ==
  /\ call[c].op = "watch"
  /\ holder = "free"
  /\ watchers' = [i \in DOMAIN watchers \union {call[c].id} |->
                    IF i = call[c].id THEN call[c].rec ELSE watchers[i]]
  /\ call' = [call EXCEPT ![c] = [op |-> "save"]]
  /\ UNCHANGED <<nextWatcher, saved, kept, holder, prompts, shells, notices, stops>>

(* A slip: only the map forgets. *)
UnwatchUnsaved(c) ==
  /\ call[c] = Idle
  /\ holder = "free"
  /\ \E id \in DOMAIN watchers : watchers' = Without(watchers, id)
  /\ UNCHANGED <<nextWatcher, saved, kept, holder, call, prompts, shells, notices, stops>>

\* An id that is not there fails without a save.
Unwatch(c) ==
  /\ call[c] = Idle
  /\ holder = "free"
  /\ \E id \in DOMAIN watchers : watchers' = Without(watchers, id)
  /\ call' = [call EXCEPT ![c] = [op |-> "save"]]
  /\ UNCHANGED <<nextWatcher, saved, kept, holder, prompts, shells, notices, stops>>

\* save takes the mutex again and holds it while it writes the map of that
\* moment: fs::write cuts the file off and then fills it.  It drops its
\* errors: the file stays as it was, or cut off.
SaveCuts(c) ==
  /\ call[c].op = "save"
  /\ holder = "free"
  /\ \/ /\ saved' = NoWatchers
        /\ holder' = c
        /\ call' = [call EXCEPT ![c] = [op |-> "write"]]
        /\ UNCHANGED kept
     \/ /\ kept' = FALSE
        /\ call' = [call EXCEPT ![c] = Idle]
        /\ UNCHANGED <<saved, holder>>
  /\ UNCHANGED <<watchers, nextWatcher, prompts, shells, notices, stops>>

SaveFills(c) ==
  /\ call[c].op = "write"
  /\ \/ saved' = watchers /\ kept' = TRUE
     \/ kept' = FALSE /\ UNCHANGED saved
  /\ holder' = "free"
  /\ call' = [call EXCEPT ![c] = Idle]
  /\ UNCHANGED <<watchers, nextWatcher, prompts, shells, notices, stops>>

-----------------------------------------------------------------------------
(* event_emit.                                                             *)

EmitBegin(c) ==
  /\ call[c] = Idle
  /\ holder = "free"
  /\ \E name \in EventNames, from \in Conversations :
       call' = [call EXCEPT ![c] =
                  [op |-> "emit", name |-> name, from |-> from,
                   left |-> {i \in DOMAIN watchers :
                               PatternMatches(watchers[i].pattern, name)},
                   fired |-> 0]]
  /\ holder' = c
  /\ UNCHANGED <<watchers, nextWatcher, saved, kept, prompts, shells, notices, stops>>

\* One watcher fires, in the order of the hash map.  publish_inbound waits
\* for room with the mutex held; a shell command is handed to a task.
Fire(c) ==
  /\ call[c].op = "emit"
  /\ \E i \in call[c].left :
       LET w == watchers[i]
       IN /\ w.act = "agent" => prompts < Room
          /\ watchers' = [watchers EXCEPT ![i].fires = @ + 1]
          /\ prompts' = IF w.act = "agent" THEN prompts + 1 ELSE prompts
          /\ shells' = IF w.act = "shell" THEN shells \union {i} ELSE shells
          /\ notices' = IF call[c].from # w.origin THEN notices + 1 ELSE notices
          /\ call' = [call EXCEPT ![c].left = @ \ {i}, ![c].fired = @ + 1]
  /\ UNCHANGED <<nextWatcher, saved, kept, holder, stops>>

\* Nothing matched: the guard is dropped at the end of emit.
EmitReturn(c) ==
  /\ call[c].op = "emit"
  /\ call[c].left = {}
  /\ call[c].fired = 0
  /\ holder' = "free"
  /\ call' = [call EXCEPT ![c] = Idle]
  /\ UNCHANGED <<watchers, nextWatcher, saved, kept, prompts, shells, notices, stops>>

\* Something matched: emit calls save while its guard is alive, and save
\* locks the same mutex.  The caller now waits for itself; it keeps holding
\* the mutex, so that every later call waits too.
EmitSave(c) ==
  /\ call[c].op = "emit"
  /\ call[c].left = {}
  /\ call[c].fired > 0
  /\ call' = [call EXCEPT ![c] = [op |-> "save"]]
  /\ UNCHANGED <<watchers, nextWatcher, saved, kept, holder, prompts, shells, notices, stops>>

\* The shell command ends and its report goes to the watcher's conversation.
ShellDone(i) ==
  /\ i \in shells
  /\ shells' = shells \ {i}
  /\ notices' = notices + 1
  /\ UNCHANGED <<watchers, nextWatcher, saved, kept, holder, call, prompts, stops>>

-----------------------------------------------------------------------------
\* The dispatchers take from the buses.
BusTaken ==
  /\ \/ prompts > 0 /\ prompts' = prompts - 1 /\ UNCHANGED notices
     \/ notices > 0 /\ notices' = notices - 1 /\ UNCHANGED prompts
  /\ UNCHANGED <<watchers, nextWatcher, saved, kept, holder, call, shells, stops>>

(* A slip: ids continue after the number of watchers. *)
FirstFreeCount(map) == Cardinality(DOMAIN map) + 1
FirstFree(map) == IF DOMAIN map = {} THEN 1 ELSE Max(DOMAIN map) + 1

\* The process stops, within a write or not, and starts again: `new` loads
\* the file and continues after the largest id in it.
EventsRestart ==
  /\ stops < MaxStops
  /\ stops' = stops + 1
  /\ watchers' = saved
  /\ nextWatcher' = FirstFree(saved)
  /\ holder' = "free"
  /\ call' = [c \in Callers |-> Idle]
  /\ prompts' = 0
  /\ shells' = {}
  /\ notices' = 0
  /\ kept' = TRUE
  /\ UNCHANGED saved

CallSteps(c) ==
  WatchInsert(c) \/ SaveCuts(c) \/ SaveFills(c) \/ Fire(c) \/ EmitReturn(c) \/ EmitSave(c)

EventsNext ==
  \/ \E c \in Callers : WatchBegin(c) \/ Unwatch(c) \/ EmitBegin(c) \/ CallSteps(c)
  \/ \E i \in shells : ShellDone(i)
  \/ BusTaken
  \/ EventsRestart

EventsFairness ==
  /\ \A c \in Callers : WF_evVars(CallSteps(c))
  /\ WF_evVars(BusTaken)

EventsSpec == EventsInit /\ [][EventsNext]_evVars
EventsFair == EventsSpec /\ EventsFairness

-----------------------------------------------------------------------------
(* Properties.                                                             *)

\* When no call is in flight and the last write was done, the file holds the
\* watchers in memory, but for the counts of firings: the saves of concurrent
\* watch and unwatch calls, in whatever order, leave the last map and not one
\* of them undone.
SavedWhenIdle ==
  kept /\ (\A c \in Callers : call[c] = Idle)
    => /\ DOMAIN saved = DOMAIN watchers
       /\ \A i \in DOMAIN saved : saved[i].pattern = watchers[i].pattern

\* A watcher stays what it was registered as while it is there: no later
\* registration, not even one after a restart, is given its id.
WatcherKeepsItsId ==
  [][\A i \in DOMAIN watchers \intersect DOMAIN watchers' :
       /\ watchers'[i].pattern = watchers[i].pattern
       /\ watchers'[i].origin = watchers[i].origin]_evVars

\* A watcher is gone only when it was removed, or when the process stopped
\* before the save of some call was done, or after one that failed.  (Then
\* all may be gone, and their ids are handed out again.)
Unsaved == ~kept \/ \E c \in Callers : call[c].op \in {"save", "write"}
WatcherStays ==
  [][DOMAIN watchers \subseteq DOMAIN watchers'
      \/ (\E c \in Callers : Unwatch(c)) \/ (EventsRestart /\ Unsaved)]_evVars

\* Watchers survive each other's calls and a restart as they were registered
\* (EventRegistry::watch, unwatch, save and load).
WatchersKept == []SavedWhenIdle /\ WatcherKeepsItsId /\ WatcherStays

\* Every emit comes back with its count.
EmitReturns ==
  \A c \in Callers : call[c].op = "emit" ~> call[c] = Idle
=============================================================================

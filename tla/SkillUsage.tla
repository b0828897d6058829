----------------------------- MODULE SkillUsage -----------------------------
(***************************************************************************)
(* The usage table of skills (skills/usage.rs), the curator that ages them *)
(* by it (agent/curator.rs), and the journal of their executions           *)
(* (skills/self_improve.rs).  The agents of all sessions work on one table *)
(* and one journal file.                                                   *)
(*                                                                         *)
(* How long a skill has been idle is told in three ages: 0 recent, 1 past  *)
(* stale_after_days, 2 past archive_after_days.                            *)
(***************************************************************************)
EXTENDS Naturals, Sequences, FiniteSets, SequencesExt

CONSTANTS
  Skills,    \* skills
  Workspace, \* those with a folder in the workspace; the others are built in
  Agents,    \* the agents of the sessions
  MaxUses,   \* bound of the model: executions
  MaxJournal \* bound of the model: lines of the file before a flush fails

ASSUME SkillUsageAssumption ==
  IsFiniteSet(Skills) /\ Workspace \subseteq Skills /\ MaxUses \in Nat /\ MaxJournal \in Nat

VARIABLES
  usage,     \* table skill_meta: [state, idle, agent], NoUsage without a row
  unused,    \* history: time since the last execution
  pass,      \* the changes each agent's curator pass has still to make
  due,       \* agents whose last curator check is an interval ago
  enabled,   \* agents whose curator is not paused
  entries,   \* each agent's journal
  flushed,   \* how much of it has been written
  journal,   \* skill_journal.jsonl
  uses       \* executions so far

tableVars == <<usage, unused, pass, due, enabled>>
logVars   == <<entries, flushed, journal, uses>>
usageVars == <<tableVars, logVars>>

NoUsage == [state |-> "none", idle |-> 0, agent |-> FALSE]

UsageInit ==
    /\ usage = [s \in Skills |-> NoUsage] /\ unused = [s \in Skills |-> 0]
    /\ pass = [a \in Agents |-> <<>>] /\ due = Agents /\ enabled = Agents
    /\ entries = [a \in Agents |-> <<>>] /\ flushed = [a \in Agents |-> 0]
    /\ journal = <<>> /\ uses = 0

-----------------------------------------------------------------------------
(* SkillUsageDB.                                                           *)
Recorded(row) == IF row = NoUsage THEN [state |-> "active", idle |-> 0, agent |-> FALSE]
                 ELSE [row EXCEPT !.idle = 0]

(* An executed skill tool is journalled; a turn that does not stream also  *)
(* records a use when the tool succeeded.                                  *)
Execute(a, s, streaming, success) ==
    /\ uses < MaxUses
    /\ uses' = uses + 1
    /\ entries' = [entries EXCEPT ![a] = Append(@, uses + 1)]
    /\ usage' = IF streaming \/ ~success THEN usage ELSE [usage EXCEPT ![s] = Recorded(@)]
    /\ unused' = [unused EXCEPT ![s] = 0]
    /\ UNCHANGED <<pass, due, enabled, flushed, journal>>

\* Weeks pass, and no curator pass takes that long.
WeeksPass ==
    /\ \A a \in Agents : pass[a] = <<>>
    /\ LET older(n) == IF n < 2 THEN n + 1 ELSE 2
       IN  /\ usage' = [s \in Skills |-> IF usage[s] = NoUsage THEN NoUsage
                                        ELSE [usage[s] EXCEPT !.idle = older(@)]]
           /\ unused' = [s \in Skills |-> older(unused[s])]
    /\ due' = Agents
    /\ UNCHANGED <<pass, enabled, logVars>>

(* A slip: archived skills are reactivated like stale ones. *)
TransitionAll(row) ==
    CASE row.idle = 2 /\ row.state # "archived" -> "archived"
      [] row.idle = 1 /\ row.state = "active"   -> "stale"
      [] row.idle = 0 /\ row.state # "active"   -> "active"
      [] OTHER                                  -> row.state
(* apply_automatic_transitions: the state a row is given, by the report    *)
(* that was read at the start of the pass.                                 *)
Transition(row) ==
    CASE row.idle = 2 /\ row.state # "archived" -> "archived"
      [] row.idle = 1 /\ row.state = "active"   -> "stale"
      [] row.idle = 0 /\ row.state = "stale"    -> "active"
      [] OTHER                                  -> row.state
Candidates == {s \in Skills : usage[s] # NoUsage /\ usage[s].agent
                             /\ Transition(usage[s]) # usage[s].state}

(* spawn_background_review_if_needed: the journal is flushed when skills   *)
(* are reviewed, and the curator runs when it is due.                      *)
MaybeRunCurator(a, forced) ==
    IF a \in enabled /\ (a \in due \/ forced)
    THEN /\ \E order \in SetToSeqs(Candidates) :
              pass' = [pass EXCEPT ![a] = [i \in DOMAIN order |->
                [skill |-> order[i], to |-> Transition(usage[order[i]]), stated |-> FALSE]]]
         /\ due' = due \ {a}
    ELSE UNCHANGED <<pass, due>>

\* flush: a write that fails has put only some of the new entries in the file.
Unwritten(a) == SubSeq(entries[a], flushed[a] + 1, Len(entries[a]))
FlushJournal(a) ==
    \/ /\ journal' = journal \o Unwritten(a)
       /\ flushed' = [flushed EXCEPT ![a] = Len(entries[a])]
    \/ /\ Len(journal) < MaxJournal
       /\ \E n \in 0..(Len(Unwritten(a)) - 1) : journal' = journal \o SubSeq(Unwritten(a), 1, n)
       /\ UNCHANGED flushed

Review(a, skills) ==
    /\ pass[a] = <<>>
    /\ IF skills THEN FlushJournal(a) ELSE UNCHANGED <<journal, flushed>>
    /\ MaybeRunCurator(a, FALSE)
    /\ UNCHANGED <<usage, unused, enabled, entries, uses>>

\* Each call of the table takes its lock: set_state, and then record.
SetState(a) ==
    /\ pass[a] # <<>> /\ ~Head(pass[a]).stated
    /\ usage' = [usage EXCEPT ![Head(pass[a]).skill].state = Head(pass[a]).to]
    /\ pass' = [pass EXCEPT ![a][1].stated = TRUE]
    /\ UNCHANGED <<unused, due, enabled, logVars>>
RecordChange(a) ==
    /\ pass[a] # <<>> /\ Head(pass[a]).stated
    /\ usage' = [usage EXCEPT ![Head(pass[a]).skill] = Recorded(@)]
    /\ pass' = [pass EXCEPT ![a] = Tail(@)]
    /\ UNCHANGED <<unused, due, enabled, logVars>>

\* /curator run, pause and resume act on the agent of the session.
RunNow(a) ==
    /\ pass[a] = <<>>
    /\ MaybeRunCurator(a, TRUE)
    /\ UNCHANGED <<usage, unused, enabled, logVars>>
Pause(a) ==
    /\ enabled' = enabled \ {a}
    /\ UNCHANGED <<usage, unused, pass, due, logVars>>
Resume(a) ==
    /\ enabled' = enabled \cup {a} /\ due' = due \cup {a}
    /\ UNCHANGED <<usage, unused, pass, logVars>>

\* The session is evicted: its next agent reads the journal back.
NewAgent(a) ==
    /\ entries' = [entries EXCEPT ![a] = journal]
    /\ flushed' = [flushed EXCEPT ![a] = Len(journal)]
    /\ due' = due \cup {a} /\ enabled' = enabled \cup {a}
    /\ UNCHANGED <<usage, unused, pass, journal, uses>>

\* run_daemon gives every folder of the workspace an agent-created row, unless it has one.
SyncSkillNames ==
    /\ usage' = [s \in Skills |-> IF usage[s] = NoUsage /\ s \in Workspace
                                  THEN [state |-> "active", idle |-> 0, agent |-> TRUE]
                                  ELSE usage[s]]
    /\ UNCHANGED <<unused, pass, due, enabled, logVars>>

UsageNext ==
    \/ \E a \in Agents :
         \/ \E s \in Skills, st, ok \in BOOLEAN : Execute(a, s, st, ok)
         \/ \E sk \in BOOLEAN : Review(a, sk)
         \/ SetState(a) \/ RecordChange(a) \/ RunNow(a) \/ Pause(a) \/ Resume(a) \/ NewAgent(a)
    \/ WeeksPass \/ SyncSkillNames

UsageSpec == UsageInit /\ [][UsageNext]_usageVars
-----------------------------------------------------------------------------
(* An archived skill comes back only when it has just been used: passes of *)
(* other sessions, and the records that archiving leaves, do not bring it  *)
(* back (curator.rs reactivates stale skills only).                        *)
ArchivedStays ==
    [][\A s \in Skills : usage[s].state = "archived" /\ usage'[s].state # "archived"
          => unused[s] = 0]_usageVars
=============================================================================

------------------------------- MODULE Goals -------------------------------
(***************************************************************************)
(* The goals (goals.rs, tools/goals.rs): a map in memory that every change *)
(* writes to goals.json as a whole.  The daemon has one GoalManager for    *)
(* all its sessions; every subagent makes its own on the same file.        *)
(*                                                                         *)
(* The five statuses are told by two of them.  Priorities, descriptions    *)
(* and times only order and word the listing; no tool calls remove_goal.   *)
(***************************************************************************)
EXTENDS Naturals, TLC, Functions

CONSTANTS
  Helpers,   \* managers of subagents
  Main,      \* the daemon's
  GoalIds,
  MaxSaves,  \* bounds of the model: changes of one manager not yet saved,
  MaxBoots   \* restarts of the daemon

ASSUME GoalsAssumption == Main \notin Helpers

Managers == Helpers \union {Main}

VARIABLES
  goals,     \* the map of each manager that there is
  unsaved,   \* changes of each manager whose save has not begun
  saving,    \* managers within save, which holds the lock of their map
  goalsFile, \* goals.json: absent, cut (truncated, not yet written), garbled, or a text
  intact,    \* history: only Main has written the file, and every write was done
  boots

goalVars == <<goals, unsaved, saving, goalsFile, intact, boots>>

NoGoals == [g \in {} |-> "none"]
Absent == [kind |-> "absent"]
Cut == [kind |-> "cut"]
Garbled == [kind |-> "garbled"]
Text(map) == [kind |-> "text", map |-> map]

\* load: a file that is absent or does not parse leaves the map empty.
Load == IF goalsFile.kind = "text" THEN goalsFile.map ELSE NoGoals

GoalsInit ==
  /\ goals = [m \in {Main} |-> NoGoals]
  /\ unsaved = [m \in Managers |-> 0]
  /\ saving = {}
  /\ goalsFile = Absent
  /\ intact = TRUE
  /\ boots = 0

\* A subagent starts, with what the file holds by then, and ends with its run.
NewManager(m) ==
  /\ m \notin DOMAIN goals
  /\ goals' = [n \in DOMAIN goals \union {m} |-> IF n = m THEN Load ELSE goals[n]]
  /\ UNCHANGED <<unsaved, saving, goalsFile, intact, boots>>

DropManager(m) ==
  /\ m \in DOMAIN goals /\ unsaved[m] = 0 /\ m \notin saving
  /\ goals' = Restrict(goals, DOMAIN goals \ {m})
  /\ UNCHANGED <<unsaved, saving, goalsFile, intact, boots>>

Free(m) == m \in DOMAIN goals /\ m \notin saving /\ unsaved[m] < MaxSaves

\* A change is made under the lock; save takes the lock a second time.
Changed(m, map) ==
  /\ goals' = [goals EXCEPT ![m] = map]
  /\ unsaved' = [unsaved EXCEPT ![m] = @ + 1]
  /\ UNCHANGED <<saving, goalsFile, intact, boots>>

AddGoal(m, id) ==
  /\ Free(m)
  /\ Changed(m, (id :> [status |-> "Todo", progress |-> "none"]) @@ goals[m])

\* Ids are drawn afresh.
GoalAddTool(m) ==
  \E id \in GoalIds \ UNION {DOMAIN goals[n] : n \in DOMAIN goals} : AddGoal(m, id)

\* "unknown" stands for a status that is not one of the five, or not given.
Statuses == {"Completed", "unknown"}

Updated(goal, status, progress) ==
  [status |-> IF status = "unknown" THEN goal.status ELSE status,
   progress |-> IF progress = "missing" THEN goal.progress ELSE progress]

(* A slip: an update that gives no known status is not saved. *)
UpdateGoalUnsaved(m, id, s, p) ==
  /\ Free(m) /\ id \in DOMAIN goals[m]
  /\ LET map == [goals[m] EXCEPT ![id] = Updated(@, s, p)]
     IN IF s = "unknown"
        THEN goals' = [goals EXCEPT ![m] = map] /\ UNCHANGED <<unsaved, saving, goalsFile, intact, boots>>
        ELSE Changed(m, map)

\* With an id the manager does not hold the call fails and nothing is saved.
UpdateGoal(m, id, s, p) ==
  /\ Free(m) /\ id \in DOMAIN goals[m]
  /\ Changed(m, [goals[m] EXCEPT ![id] = Updated(@, s, p)])

\* A status the tool does not know is as one not given.
GoalUpdateTool(m) ==
  \E id \in GoalIds, s \in Statuses, p \in {"some", "missing"} : UpdateGoal(m, id, s, p)

\* save: fs::write truncates the file, then writes it; its errors are dropped.
SaveBegins(m) ==
  /\ m \in DOMAIN goals /\ unsaved[m] > 0 /\ m \notin saving
  /\ unsaved' = [unsaved EXCEPT ![m] = @ - 1]
  /\ \/ /\ saving' = saving \union {m}
        /\ goalsFile' = Cut
        /\ intact' = (intact /\ m = Main)
     \/ /\ intact' = FALSE
        /\ UNCHANGED <<saving, goalsFile>>
  /\ UNCHANGED <<goals, boots>>

\* Two managers that write at once write over each other's text.
SaveEnds(m) ==
  /\ m \in saving
  /\ saving' = saving \ {m}
  /\ \/ goalsFile' = Text(goals[m]) /\ UNCHANGED intact
     \/ /\ goalsFile' = IF goalsFile = Cut THEN Cut ELSE Garbled
        /\ intact' = FALSE
  /\ UNCHANGED <<goals, unsaved, boots>>

\* The daemon is stopped at any point, and with it the subagents.
Reboot ==
  /\ boots < MaxBoots
  /\ boots' = boots + 1
  /\ goals' = [m \in {Main} |-> Load]
  /\ unsaved' = [m \in Managers |-> 0]
  /\ saving' = {}
  /\ intact' = (intact /\ saving = {})
  /\ UNCHANGED goalsFile

GoalsNext ==
  \/ \E m \in Helpers : NewManager(m) \/ DropManager(m)
  \/ \E m \in Managers : GoalAddTool(m) \/ GoalUpdateTool(m) \/ SaveBegins(m) \/ SaveEnds(m)
  \/ Reboot

GoalsSpec == GoalsInit /\ [][GoalsNext]_goalVars

-----------------------------------------------------------------------------
\* While no subagent has saved goals of its own and no write was cut short,
\* goals.json is the daemon's map as soon as its last save is over, whatever
\* order its sessions change and save in and whenever it is restarted: save
\* writes the map as it is then, under the lock of the map.
GoalsOnFile ==
  (intact /\ unsaved[Main] = 0 /\ saving = {})
    => \/ goalsFile = Text(goals[Main])
       \/ goalsFile = Absent /\ goals[Main] = NoGoals
=============================================================================

----------------------------- MODULE SkillFiles -----------------------------
(***************************************************************************)
(* The folders of the workspace's skills, which the agents of all sessions *)
(* edit (tools/skill_manage.rs, tools/skill_install.rs).  A call is split  *)
(* at its awaits.  The text of a SKILL.md is the set of its lines; a patch *)
(* replaces one of them.                                                   *)
(***************************************************************************)
EXTENDS Naturals, FiniteSets

CONSTANTS
  SkillNames,     \* skills
  SkillAgents,  \* agents
  SkillLines,     \* lines of a SKILL.md
  MaxCalls   \* bound of the model: calls that take more than one step

ASSUME SkillFilesAssumption == MaxCalls \in Nat

VARIABLES
  folders,   \* skill folders that exist
  text,      \* their SKILL.md, {} for none
  others,    \* folders that hold something else
  gone,      \* history: skills whose delete was done, and whose folder no
             \* create, write_file or install has made again
  filing,    \* the call of each agent and its next step
  calls      \* calls begun

fileVars == <<folders, text, others, gone, filing, calls>>

NoCall == [op |-> "none"]
SomeText == (SUBSET SkillLines) \ {{}}

FilesInit ==
    /\ folders = {} /\ text = [s \in SkillNames |-> {}] /\ others = {} /\ gone = {}
    /\ filing = [a \in SkillAgents |-> NoCall] /\ calls = 0

BeginCall(a, next, s, x) ==
    /\ calls < MaxCalls /\ filing[a] = NoCall
    /\ calls' = calls + 1
    /\ filing' = [filing EXCEPT ![a] = [op |-> next, skill |-> s, text |-> x]]
Continue(a, next) == filing' = [filing EXCEPT ![a].op = next] /\ UNCHANGED calls
EndCall(a) == filing' = [filing EXCEPT ![a] = NoCall] /\ UNCHANGED calls

MakeFolder(s) == folders' = folders \cup {s} /\ gone' = gone \ {s}

\* create makes the folder, whether it is there or not, and then writes.
Create(a, s) ==
    /\ \E x \in SomeText : BeginCall(a, "write", s, x)
    /\ MakeFolder(s)
    /\ UNCHANGED <<text, others>>

Edit(a, s) ==
    /\ text[s] # {}
    /\ \E x \in SomeText : BeginCall(a, "write", s, x)
    /\ UNCHANGED <<folders, text, others, gone>>

\* The text is read; one line of it is replaced when it is written.
Patch(a, s, old, new) ==
    /\ old \in text[s]
    /\ BeginCall(a, "write", s, (text[s] \ {old}) \cup {new})
    /\ UNCHANGED <<folders, text, others, gone>>

(* A slip: the folder is made when it is not there. *)
WriteTextAnywhere(a) ==
    /\ filing[a].op = "write"
    /\ text' = [text EXCEPT ![filing[a].skill] = filing[a].text]
    /\ folders' = folders \cup {filing[a].skill}
    /\ EndCall(a)
    /\ UNCHANGED <<others, gone>>
\* The write makes SKILL.md when only the folder is there, and fails when
\* that is gone.
WriteText(a) ==
    /\ filing[a].op = "write"
    /\ text' = IF filing[a].skill \in folders
               THEN [text EXCEPT ![filing[a].skill] = filing[a].text] ELSE text
    /\ EndCall(a)
    /\ UNCHANGED <<folders, others, gone>>

\* write_file looks for the folder, and then makes it and the parents of the
\* file.  The file may be SKILL.md; any other is in a folder of its own.
WriteFile(a, s) ==
    /\ s \in folders
    /\ \E x \in SUBSET SkillLines : BeginCall(a, "parents", s, x)
    /\ UNCHANGED <<folders, text, others, gone>>
MakeParents(a) ==
    /\ filing[a].op = "parents"
    /\ MakeFolder(filing[a].skill)
    /\ IF filing[a].text = {} THEN others' = others \cup {filing[a].skill} /\ EndCall(a)
       ELSE UNCHANGED others /\ Continue(a, "write")
    /\ UNCHANGED text

\* remove_file of SKILL.md leaves the folder.
RemoveFile(a, s) ==
    /\ text[s] # {}
    /\ BeginCall(a, "unlink", s, {})
    /\ UNCHANGED <<folders, text, others, gone>>
Unlink(a) ==
    /\ filing[a].op = "unlink"
    /\ text' = [text EXCEPT ![filing[a].skill] = {}]
    /\ EndCall(a)
    /\ UNCHANGED <<folders, others, gone>>

\* delete, and skill_uninstall: remove_dir_all takes what is in the folder
\* and then the folder, which it fails to when something is in it again.
Delete(a, s) ==
    /\ s \in folders
    /\ BeginCall(a, "empty", s, {})
    /\ UNCHANGED <<folders, text, others, gone>>
EmptyFolder(a) ==
    /\ filing[a].op = "empty"
    /\ text' = [text EXCEPT ![filing[a].skill] = {}]
    /\ others' = others \ {filing[a].skill}
    /\ Continue(a, "rmdir")
    /\ UNCHANGED <<folders, gone>>
IsEmpty(s) == text[s] = {} /\ s \notin others
RemoveFolder(a) ==
    /\ filing[a].op = "rmdir"
    /\ IF IsEmpty(filing[a].skill)
       THEN folders' = folders \ {filing[a].skill} /\ gone' = gone \cup {filing[a].skill}
       ELSE UNCHANGED <<folders, gone>>
    /\ EndCall(a)
    /\ UNCHANGED <<text, others>>

(* skill_install: a folder that is there is refused.  git clones into none *)
(* or an empty one, or fails.  The clone is looked at: it may be a skill   *)
(* without SKILL.md (SKILL.toml, skill.json); when it is none it is        *)
(* removed again.                                                          *)
Install(a, s) ==
    /\ s \notin folders
    /\ BeginCall(a, "clone", s, {})
    /\ UNCHANGED <<folders, text, others, gone>>
Clone(a) ==
    /\ filing[a].op = "clone"
    /\ \/ /\ IsEmpty(filing[a].skill)
          /\ MakeFolder(filing[a].skill)
          /\ text' \in {text, [text EXCEPT ![filing[a].skill] = SkillLines]}
          /\ others' = others \cup {filing[a].skill}
          /\ Continue(a, "look")
       \/ EndCall(a) /\ UNCHANGED <<folders, text, others, gone>>
CheckClone(a) ==
    /\ filing[a].op = "look"
    /\ \/ EndCall(a)
       \/ text[filing[a].skill] = {} /\ Continue(a, "empty")
    /\ UNCHANGED <<folders, text, others, gone>>

FilesNext ==
    \E a \in SkillAgents :
       \/ \E s \in SkillNames : Create(a, s) \/ Edit(a, s) \/ WriteFile(a, s) \/ RemoveFile(a, s)
                                \/ Delete(a, s) \/ Install(a, s)
       \/ \E s \in SkillNames, x, y \in SkillLines : Patch(a, s, x, y)
       \/ WriteText(a) \/ MakeParents(a) \/ Unlink(a) \/ EmptyFolder(a) \/ RemoveFolder(a)
       \/ Clone(a) \/ CheckClone(a)

FilesSpec == FilesInit /\ [][FilesNext]_fileVars
-----------------------------------------------------------------------------
(* A skill whose delete was done is gone, SKILL.md and folder, until a     *)
(* create, a write_file or an install makes its folder again: no edit,     *)
(* patch or create that the delete overtook between its check and its      *)
(* write brings the skill back.                                            *)
DeletedStaysDeleted == \A s \in gone : text[s] = {} /\ s \notin folders
=============================================================================

---------------------------- MODULE MCComponents ----------------------------
(***************************************************************************)
(* The components that share no state with another, checked by one run: a  *)
(* behaviour is one of a single component, and `part` tells whose.         *)
(***************************************************************************)
EXTENDS Memory, Notebook, SkillFiles, SkillUsage, Events, Sessions, Daemon,
        Wire, Cli, StreamedTurn, Wizard, Browser, Goals, Boards, Meet, Mcp

MCPatterns == {[stem |-> <<"a">>, tail |-> ".*"], [stem |-> <<"c">>, tail |-> "exact"]}
MCEventNames == {<<"a", "b">>, <<"c">>}
MCLines == << [task |-> "d1", every |-> 2, routed |-> TRUE],
              [task |-> "d2", every |-> 1, routed |-> TRUE],
              [task |-> "d3", every |-> 1, routed |-> FALSE] >>
MCKinds == {[role |-> "system", calls |-> {}, answers |-> "none", size |-> 1],
            [role |-> "user", calls |-> {}, answers |-> "none", size |-> 1],
            [role |-> "user", calls |-> {}, answers |-> "none", size |-> 3],
            [role |-> "assistant", calls |-> {"c"}, answers |-> "none", size |-> 1],
            [role |-> "tool", calls |-> {}, answers |-> "c", size |-> 1]}
MCBuiltin == <<"m1", "m2">>
MCMarks == [t \in {"hi", "task", "fine", "promise", ""} |->
              CASE t = "hi" -> {"greeting"} [] t = "task" -> {"code", "action", "over20"}
                [] t = "promise" -> {"starter", "verb", "colon"} [] t = "" -> {"empty"} [] OTHER -> {}]
MCWanted == [b \in Bots |-> {"m1"}]
MCGiven == {[provider |-> p, own |-> own, model |-> "custom", cheap |-> "openrouter", cheapModel |-> Unset,
             is |-> [s \in Sections |-> 3]] : p \in {Unset, "gemini"}, own \in {Unset, "ollama"}}
MCWords == [t \in DOMAIN MCMarks |-> IF t = "task" THEN 12 ELSE 2]

VARIABLE part

MCVars == <<part, memVars, noteVars, fileVars, usageVars, evVars, sessVars,
            dmVars, wireVars, cliVars, talkVars, wizVars, browserVars,
            goalVars, boardVars, meetVars, mcpVars>>

MCInit ==
  /\ part \in {"memory", "notebook", "files", "usage", "events", "sessions",
               "daemon", "wire", "cli", "talk", "wizard", "browser",
               "goals", "boards", "meet", "mcp"}
  /\ MemoryInit /\ NotebookInit /\ FilesInit
  /\ UsageInit /\ EventsInit /\ SessionsInit
  /\ DaemonInit /\ WireInit /\ CliInit
  /\ TalkInit /\ WizardInit /\ (part # "wizard" => configFile = NoFile) /\ BrowserInit
  /\ GoalsInit /\ BoardsInit /\ MeetInit /\ McpInit

MCNext ==
  /\ UNCHANGED part
  /\ IF part = "memory" THEN MemoryNext ELSE UNCHANGED memVars
  /\ IF part = "notebook" THEN NotebookNext ELSE UNCHANGED noteVars
  /\ IF part = "files" THEN FilesNext ELSE UNCHANGED fileVars
  /\ IF part = "usage" THEN UsageNext ELSE UNCHANGED usageVars
  /\ IF part = "events" THEN EventsNext ELSE UNCHANGED evVars
  /\ IF part = "sessions" THEN SessionsNext ELSE UNCHANGED sessVars
  /\ IF part = "daemon" THEN DaemonNext ELSE UNCHANGED dmVars
  /\ IF part = "wire" THEN WireNext ELSE UNCHANGED wireVars
  /\ IF part = "cli" THEN CliNext ELSE UNCHANGED cliVars
  /\ IF part = "talk" THEN TalkNext ELSE UNCHANGED talkVars
  /\ IF part = "wizard" THEN WizardNext ELSE UNCHANGED wizVars
  /\ IF part = "browser" THEN BrowserNext ELSE UNCHANGED browserVars
  /\ IF part = "goals" THEN GoalsNext ELSE UNCHANGED goalVars
  /\ IF part = "boards" THEN BoardsNext ELSE UNCHANGED boardVars
  /\ IF part = "meet" THEN MeetNext ELSE UNCHANGED meetVars
  /\ IF part = "mcp" THEN McpNext ELSE UNCHANGED mcpVars

MCSpec == MCInit /\ [][MCNext]_MCVars
-----------------------------------------------------------------------------
(* Neither calls of other sessions nor passes of the curator undo what was *)
(* done to a skill: a skill that was deleted stays so until its folder is   *)
(* made again (skill_manage.rs), and one that is archived until it is used  *)
(* (curator.rs).                                                           *)
SkillsStayGone == [][DeletedStaysDeleted']_fileVars /\ ArchivedStays

(* What agents put on the boards they share stays there: goals are on file  *)
(* (goals.rs), messages wait for one reader and todo items are listed once  *)
(* (agent_mailbox.rs, tools/todo.rs).                                      *)
BoardsKept == GoalsOnFile /\ NothingTwice

(* A browser command has its own answer or none (tools/cdp.rs), and a reply  *)
(* of the gemini command is that to its own prompt (gemini_cli.rs).  Calls   *)
(* of an MCP server that meet may take each other's answers, as no id is     *)
(* looked at, but the mistake ends with them: while no line came unasked and *)
(* no call was dropped, one that met no other has its own (mcp.rs).          *)
AnswersAreOwn == AnswersReach /\ ReplyIsOwn /\ NoAnswerAstray
=============================================================================

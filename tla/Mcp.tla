-------------------------------- MODULE Mcp --------------------------------
(***************************************************************************)
(* The client of an MCP server (mcp.rs): a child process whose tools all   *)
(* agents share, asked and read in lines of JSON-RPC.  stdin and stdout    *)
(* have a lock each, and an answer is not matched with the id it bears.    *)
(*                                                                         *)
(* The server is not part of the code: it answers what it was asked in any *)
(* order, may write a line nobody asked for, and may end.  A line is told  *)
(* by the id of the request it answers.                                    *)
(***************************************************************************)
EXTENDS Naturals, Sequences, FiniteSets
CONSTANTS
  ToolCallers, \* turns that call a tool of the server
  Boot,        \* the daemon's start, which connects and lists the tools
  NoReader,    \* nobody
  MaxRequests, \* bounds of the model: requests,
  MaxUnasked   \* and lines nobody asked for

ASSUME McpAssumption ==
  Boot \notin ToolCallers /\ IsFiniteSet(ToolCallers) /\ MaxRequests \in Nat

Unasked == 0     \* the id of a line that answers nothing
EndOfStream == MaxRequests + 1

VARIABLES
  tools,    \* "connecting", "listing", then "ready", or "none"
  nextCall, \* next_id
  mcp,      \* per caller: [at, id, got, alone]
  stdout,   \* who has the lock of stdout
  requests, \* those the server has to answer
  lines,    \* what it has written
  serves,   \* it runs
  unasked,  \* lines it has written unasked
  stray     \* history: a line was unasked for, or its caller dropped

mcpVars == <<tools, nextCall, mcp, stdout, requests, lines, serves, unasked, stray>>

Clients == ToolCallers \cup {Boot}
InFlight == {c \in Clients : mcp[c].at # "idle"}

McpInit ==
  /\ tools = "connecting" /\ nextCall = 1
  /\ mcp = [c \in Clients |-> [at |-> "idle", id |-> 0, got |-> 0, alone |-> TRUE]]
  /\ stdout = NoReader /\ requests = {} /\ lines = <<>> /\ serves = TRUE
  /\ unasked = 0 /\ stray = FALSE

-----------------------------------------------------------------------------
(* init_mcp_tools goes on to tools/list after the handshake, and registers *)
(* the tools after the list; after anything else it skips the server.      *)
Registered(ok) ==
  CASE ~ok                  -> "none"
    [] tools = "connecting" -> "listing"
    [] tools = "listing"    -> "ready"

MayAsk(c) == IF c = Boot THEN tools \in {"connecting", "listing"} ELSE tools = "ready"

(* send_request writes under the lock of stdin; writing to a server that   *)
(* has ended fails.                                                        *)
Ask(c) ==
  /\ mcp[c].at = "idle" /\ MayAsk(c) /\ nextCall <= MaxRequests
  /\ nextCall' = nextCall + 1
  /\ IF serves
     THEN /\ mcp' = [d \in Clients |->
                      IF d = c THEN [at |-> "asked", id |-> nextCall, got |-> 0,
                                     alone |-> InFlight = {}]
                      ELSE [mcp[d] EXCEPT !.alone = @ /\ d \notin InFlight]]
          /\ requests' = requests \cup {nextCall}
          /\ UNCHANGED tools
     ELSE /\ tools' = IF c = Boot THEN Registered(FALSE) ELSE tools
          /\ UNCHANGED <<mcp, requests>>
  /\ UNCHANGED <<stdout, lines, serves, unasked, stray>>

LockStdout(c) ==
  /\ mcp[c].at = "asked" /\ stdout = NoReader
  /\ mcp' = [mcp EXCEPT ![c].at = "reading"]
  /\ stdout' = c
  /\ UNCHANGED <<tools, nextCall, requests, lines, serves, unasked, stray>>

CallEnds(c, got, ok) ==
  /\ mcp' = [mcp EXCEPT ![c].at = "idle", ![c].got = got]
  /\ stdout' = NoReader
  /\ tools' = IF c = Boot THEN Registered(ok) ELSE tools

(* read_line takes the next line; connect, list_tools and call_tool want a *)
(* result in it, and the server may have written an error.                 *)
TakeLine(c) ==
  /\ mcp[c].at = "reading" /\ lines # <<>>
  /\ \E ok \in BOOLEAN : (Head(lines) = Unasked => ~ok) /\ CallEnds(c, Head(lines), ok)
  /\ lines' = Tail(lines)
  /\ UNCHANGED <<nextCall, requests, serves, unasked, stray>>

(* A slip: a wait for the answer is given up after a while. *)
TakeEndOrGiveUp(c) ==
  /\ mcp[c].at = "reading" /\ lines = <<>>
  /\ CallEnds(c, EndOfStream, FALSE)
  /\ UNCHANGED <<nextCall, requests, lines, serves, unasked, stray>>
TakeEnd(c) ==
  /\ mcp[c].at = "reading" /\ lines = <<>> /\ ~serves
  /\ CallEnds(c, EndOfStream, FALSE)
  /\ UNCHANGED <<nextCall, requests, lines, serves, unasked, stray>>

(* A call is dropped with the turn it belongs to; what its read had taken  *)
(* of a line is lost.                                                      *)
DropCall(c) ==
  /\ c # Boot /\ mcp[c].at # "idle"
  /\ mcp' = [mcp EXCEPT ![c].at = "idle", ![c].got = EndOfStream]
  /\ stdout' = IF stdout = c THEN NoReader ELSE stdout
  /\ lines' \in {lines} \cup IF stdout = c /\ lines # <<>> THEN {Tail(lines)} ELSE {}
  /\ stray' = TRUE
  /\ UNCHANGED <<tools, nextCall, requests, serves, unasked>>

-----------------------------------------------------------------------------
ServerAnswers(id) ==
  /\ serves /\ id \in requests
  /\ requests' = requests \ {id} /\ lines' = Append(lines, id)
  /\ UNCHANGED <<tools, nextCall, mcp, stdout, serves, unasked, stray>>

ServerSpeaks ==
  /\ serves /\ unasked < MaxUnasked
  /\ unasked' = unasked + 1 /\ lines' = Append(lines, Unasked) /\ stray' = TRUE
  /\ UNCHANGED <<tools, nextCall, mcp, stdout, requests, serves>>

ServerEnds ==
  /\ serves /\ serves' = FALSE
  /\ UNCHANGED <<tools, nextCall, mcp, stdout, requests, lines, unasked, stray>>

McpNext ==
  \/ \E c \in Clients : Ask(c) \/ LockStdout(c) \/ TakeLine(c) \/ TakeEnd(c)
  \/ \E c \in ToolCallers : DropCall(c)
  \/ \E id \in 1 .. MaxRequests : ServerAnswers(id)
  \/ ServerSpeaks \/ ServerEnds

McpSpec == McpInit /\ [][McpNext]_mcpVars
-----------------------------------------------------------------------------
(* Until a line has come unasked, or a call was dropped with its answer    *)
(* still to come, there is an answer for every call that waits and no      *)
(* other, and a call that no other came across has its own (mcp.rs).       *)
NoAnswerAstray ==
  ~stray =>
    /\ serves => Cardinality(requests) + Len(lines) = Cardinality(InFlight)
    /\ \A c \in Clients :
         mcp[c].at = "idle" /\ mcp[c].alone => mcp[c].got \in {mcp[c].id, EndOfStream}
=============================================================================

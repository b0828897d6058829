--------------------------------- MODULE Cli --------------------------------
(***************************************************************************)
(* The gemini command as a provider (providers/gemini_cli.rs): one child   *)
(* process, one session in it, and the calls of all agents, one at a time, *)
(* talking to it in lines of JSON-RPC over its pipes.                      *)
(*                                                                         *)
(* The child is not part of the code: it answers a prompt with updates and *)
(* then a last line that bears the prompt's id and may have a text of its  *)
(* own, may write a line that is not JSON-RPC, and may end.                *)
(***************************************************************************)
EXTENDS Naturals, Sequences, SequencesExt

CONSTANTS
  Prompters,   \* agents whose provider this is
  Nobody,      \* no agent
  MaxPrompts,  \* bound of the model: prompts sent
  MaxUpdates   \* bound of the model: updates of one prompt

\* A mutex that is free has no holder.
ASSUME NobodyAssumption == Nobody \notin Prompters

VARIABLES
  reader,   \* who has the lock of `inner`
  child,    \* inner.child and session_id are there; they are never taken out
  hasOut,   \* the child's stdout is in its place
  alive,    \* the process runs
  pipe,     \* lines it has written
  current,  \* the prompt it works on, 0 for none
  sentFor,  \* updates it has written for each prompt
  calling,  \* each agent's call: [at, id, got, text]
  promptIds   \* next_id

inner   == <<reader, child, hasOut>>
process == <<alive, pipe, current, sentFor>>
cliVars == <<inner, process, calling, promptIds>>

\* The updates got so far, and the prompt whose last line's text replaced them.
NotCalling == [at |-> "idle", id |-> 0, got |-> <<>>, text |-> 0]

CliInit ==
    /\ reader = Nobody /\ child = FALSE /\ hasOut = FALSE
    /\ alive = FALSE /\ pipe = <<>> /\ current = 0 /\ sentFor = <<>>
    /\ calling = [p \in Prompters |-> NotCalling]
    /\ promptIds = 0

\* ensure_started: a child and a session that are there are taken to be alive.
EnsureStarted(p) ==
    /\ calling[p].at \in {"idle", "done", "failed"} /\ reader = Nobody
    /\ \/ /\ child
          /\ calling' = [calling EXCEPT ![p] = [NotCalling EXCEPT !.at = "started"]]
          /\ UNCHANGED <<inner, process>>
       \/ /\ ~child
          /\ child' = TRUE /\ hasOut' = TRUE /\ alive' = TRUE
          /\ calling' = [calling EXCEPT ![p] = [NotCalling EXCEPT !.at = "started"]]
          /\ UNCHANGED <<reader, pipe, current, sentFor>>
       \/ /\ ~child  \* it cannot be spawned, or its session fails
          /\ calling' = [calling EXCEPT ![p] = [NotCalling EXCEPT !.at = "failed"]]
          /\ UNCHANGED <<inner, process>>
    /\ UNCHANGED promptIds

\* The stdout is taken before the prompt is written, and lost if that fails.
Prompt(p) ==
    /\ calling[p].at = "started" /\ reader = Nobody
    /\ IF ~hasOut \/ ~alive
       THEN /\ hasOut' = FALSE
            /\ calling' = [calling EXCEPT ![p].at = "failed"]
            /\ UNCHANGED <<reader, current, sentFor, promptIds>>
       ELSE /\ promptIds < MaxPrompts
            /\ promptIds' = promptIds + 1 /\ current' = promptIds + 1
            /\ sentFor' = Append(sentFor, 0)
            /\ reader' = p /\ hasOut' = FALSE
            /\ calling' = [calling EXCEPT ![p].at = "reading", ![p].id = promptIds + 1]
    /\ UNCHANGED <<child, alive, pipe>>

-----------------------------------------------------------------------------
(* The lines of the child, one at a time.                                  *)

\* The handle goes back, and with the reader goes what it had read ahead.
PutBack(rest) ==
    /\ reader' = Nobody /\ hasOut' = TRUE
    /\ \E n \in 0..Len(rest) : pipe' = SubSeq(rest, n + 1, Len(rest))
(* A slip: after a line that cannot be parsed, too. *)
LoseByPuttingBack(rest) == PutBack(rest)
\* A line that cannot be parsed ends the call without that.
Lose(rest) ==
    /\ reader' = Nobody /\ pipe' = rest
    /\ UNCHANGED hasOut

Ends(p, how) == calling' = [calling EXCEPT ![p].at = how]

ReadUpdate(p, line) ==
    /\ line.kind = "update"
    /\ calling' = [calling EXCEPT ![p].got = Append(@, line.of)]
    /\ pipe' = Tail(pipe)
    /\ UNCHANGED <<reader, hasOut>>
\* chat takes the text of the last line for all of the reply; chat_stream, and
\* chat where it has none, the updates.
ReadLast(p, line) ==
    /\ line.kind = "last"
    /\ \/ /\ line.of # calling[p].id
          /\ pipe' = Tail(pipe)
          /\ UNCHANGED <<reader, hasOut, calling>>
       \/ /\ line.of = calling[p].id /\ line.ok
          /\ PutBack(Tail(pipe))
          /\ Ends(p, "done")
       \/ /\ line.of = calling[p].id /\ line.ok /\ line.text
          /\ PutBack(Tail(pipe))
          /\ calling' = [calling EXCEPT ![p] = [@ EXCEPT !.at = "done", !.got = <<>>, !.text = line.of]]
       \/ /\ line.of = calling[p].id /\ ~line.ok
          /\ PutBack(Tail(pipe))
          /\ Ends(p, "failed")
ReadOther(p, line) ==
    /\ line.kind = "other"
    /\ Lose(Tail(pipe))
    /\ Ends(p, "failed")

ReadLine(p) ==
    /\ calling[p].at = "reading" /\ pipe # <<>>
    /\ LET line == Head(pipe) IN ReadUpdate(p, line) \/ ReadLast(p, line) \/ ReadOther(p, line)
    /\ UNCHANGED <<child, alive, current, sentFor, promptIds>>
ReadEnd(p) ==
    /\ calling[p].at = "reading" /\ pipe = <<>> /\ ~alive
    /\ PutBack(pipe)
    /\ Ends(p, "failed")
    /\ UNCHANGED <<child, alive, current, sentFor, promptIds>>

-----------------------------------------------------------------------------
(* The child.                                                              *)

Writes(line) == alive /\ pipe' = Append(pipe, line)
SendUpdate ==
    /\ current # 0 /\ sentFor[current] < MaxUpdates
    /\ Writes([kind |-> "update", of |-> current])
    /\ sentFor' = [sentFor EXCEPT ![current] = @ + 1]
    /\ UNCHANGED <<inner, alive, current, calling, promptIds>>
SendLast(ok, text) ==
    /\ current # 0
    /\ Writes([kind |-> "last", of |-> current, ok |-> ok, text |-> text])
    /\ current' = 0
    /\ UNCHANGED <<inner, alive, sentFor, calling, promptIds>>
SendOther ==
    /\ current # 0 /\ \A i \in DOMAIN pipe : pipe[i].kind # "other"
    /\ Writes([kind |-> "other"])
    /\ UNCHANGED <<inner, alive, current, sentFor, calling, promptIds>>
ChildEnds ==
    /\ alive /\ alive' = FALSE /\ current' = 0
    /\ UNCHANGED <<inner, pipe, sentFor, calling, promptIds>>

CliNext ==
    \/ \E p \in Prompters : EnsureStarted(p) \/ Prompt(p) \/ ReadLine(p) \/ ReadEnd(p)
    \/ SendUpdate \/ SendOther \/ ChildEnds
    \/ \E ok, text \in BOOLEAN : (text => ok) /\ SendLast(ok, text)

-----------------------------------------------------------------------------
(* A reply is the text of the last line of its own prompt, or all the      *)
(* updates the child wrote for that prompt and none it wrote for an earlier *)
(* one: updates do not bear the id of their prompt, and the reader's buffer *)
(* is thrown away with it.                                                 *)
ReplyIsOwn ==
    \A p \in Prompters : calling[p].at = "done" =>
      IF calling[p].text # 0 THEN calling[p].text = calling[p].id /\ calling[p].got = <<>>
      ELSE calling[p].got = [i \in 1..sentFor[calling[p].id] |-> calling[p].id]
=============================================================================

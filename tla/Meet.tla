-------------------------------- MODULE Meet --------------------------------
(***************************************************************************)
(* The Google Meet tool (tools/google_meet.rs).  meet_join starts a loop   *)
(* that joins the call in a browser of its own and copies its captions     *)
(* into transcript.txt; the loop and the tool share one Option<MeetSession>*)
(* and the loop is told to stop by that being None.  The agents of all     *)
(* sessions share one tool.  Each subagent is given another (build_tools), *)
(* with a session of its own but the same page and files: the module is of *)
(* one tool, and what the others do to it is in the actions at the end.    *)
(*                                                                         *)
(* Of a session are kept its meeting, in_call and transcript_lines; times, *)
(* reasons and errors only word the status.  Meetings are told by the id   *)
(* taken from the URL.                                                     *)
(***************************************************************************)
EXTENDS Naturals, Sequences, FiniteSets

CONSTANTS
  Bots,         \* agents that call this tool
  Wanted,       \* the meetings each is asked to join
  OthersWant,   \* meetings the agents of other tools are asked to join
  NoMeeting,    \* the browser shows no call, or there is no session
  MaxJoins,     \* bounds of the model: meetings joined by all tools,
  MaxCaptions   \* and captions shown

Meetings == OthersWant \cup UNION {Wanted[b] : b \in Bots}

VARIABLES
  session,     \* the MeetSession of this tool
  loops,       \* poll loops, in the order they were spawned: see NewLoop
  bots,        \* what each agent's call does next
  meetClient,  \* whether the tool holds a client
  meetBrowser, \* whether there is a browser
  tab,         \* the call the browser's page is in
  captions,    \* captions that wait in the page
  shown,       \* captions shown so far
  transcript,  \* per meeting: transcript.txt, see EmptyFile
  statusFile,  \* per meeting: status.json, or "old"
  elsewhere,   \* other tools: meetings joined, and whether one of them has
               \* a session or a loop, or is about to
  mixed        \* history: a meeting was joined over another, see Overlaps

meetVars == <<session, loops, bots, meetClient, meetBrowser, tab, captions, shown,
              transcript, statusFile, elsewhere, mixed>>

NoSession == [meeting |-> NoMeeting]
NewSession(m) == [meeting |-> m, inCall |-> FALSE, lines |-> 0]
NewLoop(m) == [at |-> "navigate", url |-> m, drained |-> << >>, path |-> NoMeeting]

\* The lines of a transcript, and whether all of them are of its call.  Of one
\* that could not be cleared, or that another tool may have written to, nothing
\* is kept, as of a status that could not be written.
EmptyFile == [known |-> TRUE, lines |-> 0, own |-> TRUE]
OldFile == [known |-> FALSE, lines |-> 0, own |-> FALSE]

MeetInit ==
  /\ session = NoSession
  /\ loops = << >>
  /\ bots = [b \in Bots |-> [at |-> "idle"]]
  /\ meetClient = FALSE /\ meetBrowser = FALSE
  /\ tab = NoMeeting
  /\ captions = 0 /\ shown = 0
  /\ transcript = [m \in Meetings |-> EmptyFile]
  /\ statusFile = [m \in Meetings |-> "absent"]
  /\ elsewhere = [on |-> FALSE, joins |-> 0] /\ mixed = FALSE

Active == session # NoSession
AllJoins == Len(loops) + elsewhere.joins
Live == {i \in DOMAIN loops : loops[i].at # "ended"}

-----------------------------------------------------------------------------
\* The tool's handlers.  A URL that is refused changes nothing, and neither do
\* meet_status, meet_transcript and meet_say.
BotDoes(b, next) == bots' = [bots EXCEPT ![b] = next]

AfterLeave(b) == IF bots[b].join = NoMeeting THEN [at |-> "idle"]
                 ELSE [bots[b] EXCEPT !.at = "connect"]

\* meet_leave clears the session, which tells the loop to stop, ...
LeaveBegins(b, m) ==
  /\ bots[b].at = "idle" /\ Active
  /\ session' = NoSession
  /\ BotDoes(b, [at |-> "disconnect", join |-> m])
  /\ UNCHANGED <<loops, meetClient, meetBrowser, tab, captions, shown,
                 transcript, statusFile, elsewhere, mixed>>

\* meet_join leaves a meeting that is active first.
JoinBegins(b, m) ==
  /\ bots[b].at = "idle" /\ AllJoins < MaxJoins
  /\ \/ LeaveBegins(b, m)
     \/ /\ ~Active
        /\ BotDoes(b, [at |-> "connect", join |-> m])
        /\ UNCHANGED <<session, loops, meetClient, meetBrowser, tab, captions, shown,
                       transcript, statusFile, elsewhere, mixed>>

\* ... takes the client and closes its socket, ...
TakeClient(b) ==
  /\ bots[b].at = "disconnect"
  /\ meetClient' = FALSE
  /\ BotDoes(b, [bots[b] EXCEPT !.at = "kill"])
  /\ UNCHANGED <<session, loops, meetBrowser, tab, captions, shown,
                 transcript, statusFile, elsewhere, mixed>>

\* ... and kills the browser if it has launched it; the one there is may have
\* been found, or be another tool's.
KillMeetBrowser(b) ==
  /\ bots[b].at = "kill"
  /\ \/ meetBrowser' = FALSE /\ tab' = NoMeeting /\ captions' = 0
     \/ UNCHANGED <<meetBrowser, tab, captions>>
  /\ BotDoes(b, AfterLeave(b))
  /\ UNCHANGED <<session, loops, meetClient, shown, transcript, statusFile, elsewhere, mixed>>

\* get_client, under the lock of the client: the one there is, or a new one on a
\* browser that is launched if none answers.
ConnectMeet(b) ==
  /\ bots[b].at = "connect"
  /\ \/ /\ meetClient' = TRUE
        /\ meetBrowser' = (meetClient => meetBrowser)
        /\ BotDoes(b, [bots[b] EXCEPT !.at = "clear"])
     \/ /\ ~meetClient
        /\ meetBrowser' \in {meetBrowser, TRUE}
        /\ BotDoes(b, [at |-> "idle"])
        /\ UNCHANGED meetClient
  /\ UNCHANGED <<session, loops, tab, captions, shown, transcript, statusFile, elsewhere, mixed>>

\* Another meeting is there, runs still, or is being joined, here or elsewhere.
Overlaps(b) ==
  Active \/ Live # {} \/ elsewhere.on \/ \E other \in Bots \ {b} : bots[other].at = "store"

\* A write of the status may fail, which is ignored.
SaveIn(m, status) == \E left \in {status, "old"} : statusFile' = [statusFile EXCEPT ![m] = left]

(* A slip: the transcript of an earlier call of that id is kept. *)
KeepFiles(b) ==
  /\ bots[b].at = "clear"
  /\ SaveIn(bots[b].join, "waiting")
  /\ mixed' = (mixed \/ Overlaps(b))
  /\ BotDoes(b, [bots[b] EXCEPT !.at = "store"])
  /\ UNCHANGED <<session, loops, meetClient, meetBrowser, tab, captions, shown, transcript, elsewhere>>

\* Clear stale files, and write the first status.
ClearFiles(b) ==
  /\ bots[b].at = "clear"
  /\ \E file \in {EmptyFile, OldFile} : transcript' = [transcript EXCEPT ![bots[b].join] = file]
  /\ SaveIn(bots[b].join, "waiting")
  /\ mixed' = (mixed \/ Overlaps(b))
  /\ BotDoes(b, [bots[b] EXCEPT !.at = "store"])
  /\ UNCHANGED <<session, loops, meetClient, meetBrowser, tab, captions, shown, elsewhere>>

\* Store session, whatever is there by now, and spawn its loop.
StoreSession(b) ==
  /\ bots[b].at = "store" /\ AllJoins < MaxJoins
  /\ session' = NewSession(bots[b].join)
  /\ loops' = Append(loops, NewLoop(bots[b].join))
  /\ mixed' = (mixed \/ Overlaps(b))
  /\ BotDoes(b, [at |-> "idle"])
  /\ UNCHANGED <<meetClient, meetBrowser, tab, captions, shown, transcript, statusFile, elsewhere>>

-----------------------------------------------------------------------------
\* run_meet_poll_loop.  Its client connects anew when a browser is there.
Loop(i, next) ==
  loops' = [loops EXCEPT ![i].at = next, ![i].url = NoMeeting,
                         ![i].drained = IF next = "ended" THEN << >> ELSE @]
SaveStatus(s) == IF s = NoSession THEN UNCHANGED statusFile
                 ELSE SaveIn(s.meeting, IF s.inCall THEN "inCall" ELSE "waiting")

\* The page is loaded and its captions observed; when that fails the loop just
\* ends.
Navigate(i) ==
  /\ loops[i].at = "navigate"
  /\ \/ Loop(i, "ended") /\ UNCHANGED <<tab, captions>>
     \/ /\ meetBrowser
        /\ \E next \in {"ended", "sleep"} : Loop(i, next)
        /\ tab' = loops[i].url /\ captions' = 0
  /\ UNCHANGED <<session, bots, meetClient, meetBrowser, shown, transcript, statusFile, elsewhere, mixed>>

\* A pass ends the loop when the session is gone, and may when its duration is
\* over, the page is blank, or the lobby's time is up or the host refuses.
\* Until in_call is set the page is asked whether the bot was admitted.
Poll(i) ==
  /\ loops[i].at = "sleep"
  /\ \/ Loop(i, "leave")
     \/ Active /\ Loop(i, "drain")
     \/ Active /\ meetBrowser /\ ~session.inCall /\ Loop(i, "admitted")
  /\ UNCHANGED <<session, bots, meetClient, meetBrowser, tab, captions, shown, transcript, statusFile, elsewhere, mixed>>

\* Whoever was admitted may be found denied in the same pass.
Admitted(i) ==
  /\ loops[i].at = "admitted"
  /\ session' = IF Active THEN [session EXCEPT !.inCall = TRUE] ELSE session
  /\ \E next \in {"drain", "leave"} : Loop(i, next)
  /\ UNCHANGED <<bots, meetClient, meetBrowser, tab, captions, shown, transcript, statusFile, elsewhere, mixed>>

\* The page gives out its captions and forgets them.
Entries(i, drained) ==
  [loops EXCEPT ![i].drained = drained, ![i].path = NoMeeting, ![i].at = IF drained = << >> THEN "flush" ELSE "entry"]

Drain(i) ==
  /\ loops[i].at = "drain"
  /\ \/ /\ meetBrowser
        /\ loops' = Entries(i, [k \in 1..captions |-> tab])
        /\ captions' = 0
     \/ Loop(i, "flush") /\ UNCHANGED captions
  /\ UNCHANGED <<session, bots, meetClient, meetBrowser, tab, shown, transcript, statusFile, elsewhere, mixed>>

\* Each goes to the transcript of the session there is when its turn comes; it
\* is dropped when there is none.
NextEntry(i) ==
  /\ loops[i].at = "entry"
  /\ loops' = IF Active THEN [loops EXCEPT ![i].path = session.meeting, ![i].at = "append"]
              ELSE Entries(i, Tail(loops[i].drained))
  /\ UNCHANGED <<session, bots, meetClient, meetBrowser, tab, captions, shown, transcript, statusFile, elsewhere, mixed>>

\* The append may fail, and the line is counted all the same.
AppendLine(i) ==
  LET m == loops[i].path
  IN /\ loops[i].at = "append"
     /\ \/ /\ transcript[m].known
           /\ transcript' = [transcript EXCEPT ![m] = [known |-> TRUE, lines |-> @.lines + 1,
                                                      own |-> @.own /\ Head(loops[i].drained) = m]]
        \/ UNCHANGED transcript
     /\ Loop(i, "count")
     /\ UNCHANGED <<session, bots, meetClient, meetBrowser, tab, captions, shown, statusFile, elsewhere, mixed>>

CountLine(i) ==
  /\ loops[i].at = "count"
  /\ session' = IF Active THEN [session EXCEPT !.lines = @ + 1] ELSE session
  /\ loops' = Entries(i, Tail(loops[i].drained))
  /\ UNCHANGED <<bots, meetClient, meetBrowser, tab, captions, shown, transcript, statusFile, elsewhere, mixed>>

FlushStatus(i) ==
  /\ loops[i].at = "flush"
  /\ SaveStatus(session)
  /\ Loop(i, "sleep")
  /\ UNCHANGED <<session, bots, meetClient, meetBrowser, tab, captions, shown, transcript, elsewhere, mixed>>

\* Click "Leave call", in whatever call the page is.
ClickLeave(i) ==
  /\ loops[i].at = "leave"
  /\ tab' = IF meetBrowser THEN NoMeeting ELSE tab
  /\ Loop(i, "final")
  /\ UNCHANGED <<session, bots, meetClient, meetBrowser, captions, shown, transcript, statusFile, elsewhere, mixed>>

(* A slip: the last status is written, and in_call left as it was. *)
FinalFlush(i) ==
  /\ loops[i].at = "final"
  /\ SaveStatus(session)
  /\ Loop(i, "ended")
  /\ UNCHANGED <<session, bots, meetClient, meetBrowser, tab, captions, shown, transcript, elsewhere, mixed>>

FinalStatus(i) ==
  /\ loops[i].at = "final"
  /\ session' = IF Active THEN [session EXCEPT !.inCall = FALSE] ELSE session
  /\ SaveStatus(session')
  /\ Loop(i, "ended")
  /\ UNCHANGED <<bots, meetClient, meetBrowser, tab, captions, shown, transcript, elsewhere, mixed>>

-----------------------------------------------------------------------------
\* Someone speaks.
SomeoneSpeaks ==
  /\ tab # NoMeeting /\ shown < MaxCaptions
  /\ captions' = captions + 1 /\ shown' = shown + 1
  /\ UNCHANGED <<session, loops, bots, meetClient, meetBrowser, tab, transcript, statusFile, elsewhere, mixed>>

MeetBrowserDies ==
  /\ meetBrowser
  /\ meetBrowser' = FALSE /\ tab' = NoMeeting /\ captions' = 0
  /\ UNCHANGED <<session, loops, bots, meetClient, shown, transcript, statusFile, elsewhere, mixed>>

-----------------------------------------------------------------------------
\* Other tools.  One of them has its client, clears its files and stores its
\* session, whatever this tool is doing; later the last of their loops ends.
OthersBegin ==
  /\ ~elsewhere.on /\ AllJoins < MaxJoins
  /\ elsewhere' = [on |-> TRUE, joins |-> elsewhere.joins + 1]
  /\ meetBrowser' = TRUE
  /\ mixed' = (mixed \/ Active \/ Live # {} \/ \E b \in Bots : bots[b].at = "store")
  /\ UNCHANGED <<session, loops, bots, meetClient, tab, captions, shown,
                 transcript, statusFile>>
OthersEnd ==
  /\ elsewhere.on /\ elsewhere' = [elsewhere EXCEPT !.on = FALSE]
  /\ UNCHANGED <<session, loops, bots, meetClient, meetBrowser, tab, captions, shown,
                 transcript, statusFile, mixed>>

\* In between they navigate the page or leave its call, take its captions, and
\* clear, append to and write the files of the meetings they were asked to join.
OthersPage ==
  /\ elsewhere.on /\ meetBrowser
  /\ tab' \in OthersWant \cup {NoMeeting, tab} /\ captions' = 0
  /\ UNCHANGED <<session, loops, bots, meetClient, meetBrowser, shown, transcript, statusFile, elsewhere, mixed>>
OthersFiles ==
  /\ elsewhere.on
  /\ \E m \in OthersWant :
       /\ transcript' = [transcript EXCEPT ![m] = OldFile]
       /\ statusFile' = [statusFile EXCEPT ![m] = "old"]
  /\ UNCHANGED <<session, loops, bots, meetClient, meetBrowser, tab, captions, shown, elsewhere, mixed>>

MeetNext ==
  \/ \E b \in Bots : \/ \E m \in Wanted[b] : JoinBegins(b, m)
                     \/ LeaveBegins(b, NoMeeting) \/ TakeClient(b) \/ KillMeetBrowser(b)
                     \/ ConnectMeet(b) \/ ClearFiles(b) \/ StoreSession(b)
  \/ \E i \in DOMAIN loops : \/ Navigate(i) \/ Poll(i) \/ Admitted(i) \/ Drain(i) \/ NextEntry(i)
                             \/ AppendLine(i) \/ CountLine(i) \/ FlushStatus(i) \/ ClickLeave(i) \/ FinalStatus(i)
  \/ SomeoneSpeaks \/ MeetBrowserDies
  \/ OthersBegin \/ OthersEnd \/ OthersPage \/ OthersFiles

MeetSpec == MeetInit /\ [][MeetNext]_meetVars

-----------------------------------------------------------------------------
\* When the last loop has ended the session is not in the call, however calls
\* of several agents and other tools have met; and unless a meeting was joined
\* over another, its status.json does not say so either, and its transcript, if
\* it was cleared, holds captions of its own call only, all of them counted.
MeetKept ==
  Active =>
    LET log == transcript[session.meeting]
    IN /\ Live = {} => ~session.inCall
       /\ ~mixed =>
            /\ Live = {} => statusFile[session.meeting] # "inCall"
            /\ log.known =>
                 /\ log.own
                 /\ log.lines <= session.lines + Cardinality({i \in Live : loops[i].at = "count"})
=============================================================================

------------------------------ MODULE Browser ------------------------------
(***************************************************************************)
(* The browser tool (tools/browser.rs) and its client of the DevTools      *)
(* protocol (tools/cdp.rs).  An action of the tool is a script of commands *)
(* sent one after another; the tool, its client and the client's websocket *)
(* are shared by all agents.  Chrome is what its answers make of it.       *)
(***************************************************************************)
EXTENDS Naturals, Sequences, FiniteSets, SequencesExt

CONSTANTS
  Users,       \* turns that call the tool
  NoUser,      \* a lock nobody holds
  NumTabs,     \* pages Chrome may show
  Acts,        \* the actions called: a subset of DOMAIN Script
  MaxActs,     \* bounds of the model: actions,
  MaxLaunches, \* processes,
  MaxSockets,  \* websockets
  MaxCrashes   \* and crashes of Chrome

VARIABLES
  procs,      \* per process: none, starting, up or gone
  handle,     \* browser_process, 0 for None
  firstTab,   \* the first page of the target list
  dialogs,    \* tabs with an open dialog
  sockets,    \* websockets: [tab, state, todo, inbox]
  clients,    \* CdpClients: [ws, lock, next]
  toolClient, \* BrowserTool's client, 0 for None
  clientLock, \* who holds it
  using       \* per user, see Rest

browserVars == <<procs, handle, firstTab, dialogs, sockets, clients, toolClient, clientLock, using>>

-----------------------------------------------------------------------------
(* Scripts.  A command of the page is not answered while it shows a dialog, *)
(* and may open one; `stops` are the answers that end the script: an error, *)
(* or a value that is not as expected, which most commands do not look at. *)
Page(stops) == [kind |-> "page", stops |-> stops]
Evaluate == Page({"error"})
Inspect == Page({"error", "missing"})
Input == Page({"error"})
Command == [kind |-> "browser", stops |-> {"error"}]
HandleDialog == [kind |-> "dialog", stops |-> {"error"}]
\* A file of the workspace is read or written.
Disk == [kind |-> "disk", stops |-> {"error"}]
ListTargets == [kind |-> "http", stops |-> {"error"}]
Regardless(step) == [step EXCEPT !.stops = {}]
Times(n, script) == FlattenSeq([i \in 1..n |-> script])

GetBoundingBox == <<Inspect>>
CenterOfSelector == GetBoundingBox
MouseMove == <<Input>>
MouseDown == <<Input>>
MouseUp == <<Input>>
MouseClick == MouseDown \o MouseUp
KeyPress == <<Input, Input>>
Click == CenterOfSelector \o MouseMove \o MouseClick
ClearTextField == Click \o KeyPress \o KeyPress
KeyboardSendText == <<Input>>
DispatchInputChange == <<Evaluate>>
FillField == ClearTextField \o KeyboardSendText \o DispatchInputChange
TypeText(n) == ClearTextField \o Times(n, KeyboardSendText) \o DispatchInputChange
Hover == GetBoundingBox \o MouseMove \o MouseMove
Scroll == <<Evaluate>> \o <<Input>>
Drag == GetBoundingBox \o GetBoundingBox \o MouseMove \o MouseDown \o Times(12, MouseMove) \o MouseUp \o <<Evaluate>>
\* Set by a statement whose exception is not looked at.
SetElement == <<Evaluate>>
IsState == <<Inspect>>
GetText == <<Inspect>>
GetUrl == <<Inspect>>
Storage == <<Regardless(Inspect), Command>>
ScreenshotElement == <<Inspect, Page({"error"}), Disk>>
\* The element is asked for by value, so it never has the id that is needed.
SetFileInputFiles == <<Page({"error", "missing", "fine"}), Command, Command>>
\* The page's promise is awaited; that it was rejected is not looked at.
WaitFor == <<Evaluate>>
SnapshotText == <<Evaluate>>
SnapshotStructured == <<Evaluate>>
FindByXpath == <<Evaluate>>
Capture == <<Evaluate>>
SwitchFrame == <<Evaluate>>
EvalText == <<Inspect>>
Navigation == <<Page({"error"})>>
Screenshot == <<Page({"error"}), Disk>>
Cookies == <<Command>>
Overrides == <<Command>>
Emulation == <<Command>>
CloseTab == <<ListTargets, Command>>

\* execute: the actions of the tool, in its order.
PageActs == [status |-> GetUrl \o GetUrl \o <<ListTargets>>, navigate |-> Navigation, click |-> Click, dblclick |-> Click,
             type |-> TypeText(2), fill |-> FillField, scroll |-> Scroll, hover |-> Hover, focus |-> SetElement,
             check |-> SetElement, uncheck |-> SetElement, scrollintoview |-> SetElement]
ShotActs == [screenshot |-> Screenshot, screenshot_element |-> ScreenshotElement, pdf |-> Screenshot,
             read_page |-> GetText, read_dom |-> <<Page({"error"})>>]
ReadActs == [back |-> Navigation, forward |-> Navigation, refresh |-> Navigation, get_url |-> GetUrl, get_title |-> GetUrl,
             get_text |-> GetText, get_html |-> GetText, get_value |-> GetText, get_attr |-> GetText, get_count |-> GetText,
             get_box |-> GetBoundingBox, get_styles |-> <<Evaluate>>, is_visible |-> IsState, is_enabled |-> IsState,
             is_checked |-> IsState, eval |-> EvalText]
InputActs == [select_option |-> SetElement, key_press |-> KeyPress, mouse_move |-> MouseMove, mouse_click |-> MouseClick,
              mouse_wheel |-> <<Input>>]
StateActs == [get_cookies |-> Cookies, set_cookie |-> Cookies, clear_cookies |-> Cookies,
              storage_local |-> Storage, storage_session |-> <<Evaluate>>, wait |-> WaitFor, wait_text |-> WaitFor,
              wait_load |-> WaitFor, wait_ms |-> << >>]
EmulationActs == [set_viewport |-> Emulation, set_device |-> Emulation, set_geo |-> Emulation, clear_geo |-> Emulation,
                  set_offline |-> Emulation, set_headers |-> Emulation, set_media |-> Emulation]
TabActs == [tab_new |-> <<Command>>, tab_list |-> <<ListTargets>>, tab_close |-> CloseTab, tab_switch |-> CloseTab]
LookActs == [drag |-> Drag, snapshot |-> SnapshotText, snapshot_structured |-> SnapshotStructured, query_selector |-> SnapshotStructured,
             find_xpath |-> FindByXpath, send_cdp |-> <<Command>>, accept_dialog |-> <<HandleDialog>>,
             dismiss_dialog |-> <<HandleDialog>>, upload_file |-> <<Disk>> \o SetFileInputFiles]
LogActs == [console_start |-> Capture, console_get |-> Capture, console_clear |-> Capture, network_start |-> Capture,
            network_get |-> Capture, network_clear |-> Capture, switch_to_frame |-> SwitchFrame,
            default_content |-> SwitchFrame, grant_permissions |-> Overrides, set_user_agent |-> Overrides,
            set_zoom |-> <<Evaluate>>, set_network_conditions |-> Emulation, set_download_behavior |-> <<Disk>> \o Overrides]
CloseAct == [close |-> <<Command>>]
Script == PageActs @@ ShotActs @@ ReadActs @@ InputActs @@ StateActs @@ EmulationActs @@ TabActs @@ LookActs
            @@ LogActs @@ CloseAct
\* Actions with a parameter they refuse to do without.
NeedsParameter == {"click", "dblclick", "type", "fill", "hover", "focus", "check", "uncheck", "scrollintoview",
                   "screenshot_element", "get_value", "get_attr", "get_count", "get_box", "get_styles", "is_visible",
                   "is_enabled", "is_checked", "eval", "select_option", "query_selector", "send_cdp", "upload_file",
                   "switch_to_frame", "grant_permissions", "set_device", "tab_switch", "tab_close"}
EnableDomains == <<Command, Command>>

-----------------------------------------------------------------------------
Rest == [at |-> "idle", act |-> "", left |-> << >>, stage |-> "", client |-> 0, id |-> 0,
         result |-> "none", alone |-> TRUE, wrong |-> FALSE, lost |-> FALSE, acts |-> 0]

BrowserInit ==
    /\ procs = [p \in 1..MaxLaunches |-> "none"] /\ handle = 0
    /\ firstTab = 1 /\ dialogs = {}
    /\ sockets = << >> /\ clients = << >> /\ toolClient = 0 /\ clientLock = NoUser
    /\ using = [u \in Users |-> Rest]

Listening == \E p \in DOMAIN procs : procs[p] = "up"
Using(u, at) == using[u].at = at
Me(u) == clients[using[u].client]
Unlocked(u) == Me(u).lock = NoUser
Set(u, r) == using' = [using EXCEPT ![u] = r]
To(u, at) == Set(u, [using[u] EXCEPT !.at = at])
UnchangedChrome == UNCHANGED <<procs, handle, firstTab, dialogs>>
UnchangedTool == UNCHANGED <<toolClient, clientLock>>

\* A call ends; what it holds of `client` is released.
Ended(u, result) == Set(u, [using[u] EXCEPT !.at = "idle", !.result = result, !.left = << >>])
Released(u) == IF clientLock = u THEN NoUser ELSE clientLock
FailHere(u) == Ended(u, "fail") /\ clientLock' = Released(u) /\ UNCHANGED toolClient
\* A command that ends in an error ends the action, unless the code goes on.
Popped(u) == [using[u] EXCEPT !.at = "step", !.left = Tail(@)]
CommandFails(u, r) ==
    IF r.left # << >> /\ Head(r.left).stops = {}
    THEN Set(u, [r EXCEPT !.at = "step", !.left = Tail(@)]) /\ UnchangedTool
    ELSE /\ Set(u, [r EXCEPT !.at = "idle", !.result = "fail", !.left = << >>])
         /\ clientLock' = Released(u) /\ UNCHANGED toolClient

\* A new websocket to a tab.
CanOpen == Listening /\ Len(sockets) < MaxSockets
OpenSocket(tab) == sockets' = Append(sockets, [tab |-> tab, state |-> "open", todo |-> << >>, inbox |-> << >>])
NewSocket == Len(sockets) + 1

-----------------------------------------------------------------------------
Begin(u, act) ==
    /\ Using(u, "idle")
    /\ FoldFunction(+, 0, [v \in Users |-> using[v].acts]) < MaxActs
    /\ using' = [v \in Users |->
          IF v = u THEN [Rest EXCEPT !.at = "client", !.act = act, !.acts = using[u].acts + 1,
                                     !.alone = \A w \in Users : Using(w, "idle")]
          ELSE [using[v] EXCEPT !.alone = @ /\ Using(v, "idle")]]
    /\ UNCHANGED <<sockets, clients>> /\ UnchangedChrome /\ UnchangedTool

\* get_client: the lock of `client` is held until there is one.
GetClient(u) ==
    /\ Using(u, "client") /\ clientLock = NoUser
    /\ IF toolClient # 0
       THEN /\ Set(u, [using[u] EXCEPT !.at = "step", !.client = toolClient, !.left = Script[using[u].act], !.stage = "act"])
            /\ UNCHANGED <<clients, clientLock>>
       ELSE /\ clients' = Append(clients, [ws |-> 0, lock |-> NoUser, next |-> 1])
            /\ Set(u, [using[u] EXCEPT !.at = "connect", !.client = Len(clients) + 1])
            /\ clientLock' = u
    /\ UNCHANGED <<sockets, toolClient>> /\ UnchangedChrome
Connected(u, tab) ==
    /\ CanOpen
    /\ OpenSocket(tab)
    /\ clients' = [clients EXCEPT ![using[u].client].ws = NewSocket]
    /\ Set(u, [using[u] EXCEPT !.at = "step", !.left = EnableDomains, !.stage = "setup"])
Connect(u) ==
    \/ /\ Using(u, "connect") \/ Using(u, "retry")
       /\ Connected(u, firstTab) /\ UnchangedChrome /\ UnchangedTool
    \/ /\ Using(u, "connect") /\ ~Listening
       /\ \/ \E p \in DOMAIN procs :
               /\ procs[p] = "none" /\ \A q \in 1..(p - 1) : procs[q] # "none"
               /\ procs' = [procs EXCEPT ![p] = "starting"] /\ handle' = p
               /\ To(u, "retry") /\ UnchangedTool
          \/ FailHere(u) /\ UNCHANGED <<procs, handle>>
       /\ UNCHANGED <<firstTab, dialogs, sockets, clients>>
    \/ /\ Using(u, "retry") /\ ~Listening
       /\ FailHere(u) /\ UNCHANGED <<sockets, clients>> /\ UnchangedChrome

-----------------------------------------------------------------------------
Step(u) == Using(u, "step") /\ using[u].left # << >>
\* What follows when a script has been gone through.
ScriptEnds(u) ==
    /\ Using(u, "step") /\ using[u].left = << >>
    /\ \/ /\ using[u].stage = "setup"
          /\ toolClient' = using[u].client /\ clientLock' = NoUser
          /\ Set(u, [using[u] EXCEPT !.left = Script[using[u].act], !.stage = "act"])
       \/ using[u].stage = "swap" /\ To(u, "adopt") /\ UnchangedTool
       \/ /\ using[u].stage = "act"
          /\ IF using[u].act \in {"tab_switch", "close"} THEN To(u, "disconnect") ELSE Ended(u, "ok")
          /\ UnchangedTool
    /\ UNCHANGED <<sockets, clients>> /\ UnchangedChrome

Refuse(u) ==
    /\ Step(u) /\ using[u].stage = "act" /\ using[u].act \in NeedsParameter /\ using[u].left = Script[using[u].act]
    /\ FailHere(u)
    /\ UNCHANGED <<sockets, clients>> /\ UnchangedChrome
\* The target list comes by http, and files are on the disk.
Offline == {"http", "disk"}
DiscoverTargets(u) ==
    /\ Step(u) /\ Head(using[u].left).kind \in Offline
    /\ \/ (Head(using[u].left).kind = "http" => Listening) /\ Set(u, Popped(u)) /\ UnchangedTool
       \/ (Head(using[u].left).kind = "http" => ~Listening) /\ CommandFails(u, using[u])
    /\ UNCHANGED <<sockets, clients>> /\ UnchangedChrome

\* ensure_connected looks for a websocket, and opens one without the lock.
EnsureConnected(u) ==
    /\ Step(u) /\ Head(using[u].left).kind \notin Offline /\ Unlocked(u)
    /\ To(u, IF Me(u).ws # 0 THEN "send" ELSE "reopen")
    /\ UNCHANGED <<sockets, clients>> /\ UnchangedChrome /\ UnchangedTool
Reopen(u) ==
    /\ Using(u, "reopen")
    /\ \/ /\ CanOpen /\ Unlocked(u)
          /\ OpenSocket(firstTab)
          /\ clients' = [clients EXCEPT ![using[u].client].ws = NewSocket]
          /\ To(u, "send") /\ UnchangedTool
       \/ ~Listening /\ CommandFails(u, using[u]) /\ UNCHANGED <<sockets, clients>>
    /\ UnchangedChrome

(* send_command: the lock is given up between the sending and the wait; a   *)
(* failed send leaves the websocket in its place.                           *)
Send(u) ==
    /\ Using(u, "send") /\ Unlocked(u)
    /\ clients' = [clients EXCEPT ![using[u].client].next = @ + 1]
    /\ IF Me(u).ws # 0 /\ sockets[Me(u).ws].state = "open"
       THEN /\ sockets' = [sockets EXCEPT ![Me(u).ws].todo =
                             Append(@, [id |-> Me(u).next, kind |-> Head(using[u].left).kind])]
            /\ Set(u, [using[u] EXCEPT !.at = "sent", !.id = Me(u).next])
            /\ UnchangedTool
       ELSE CommandFails(u, using[u]) /\ UNCHANGED sockets
    /\ UnchangedChrome
Wait(u) ==
    /\ Using(u, "sent") /\ Unlocked(u)
    /\ IF Me(u).ws = 0 THEN CommandFails(u, using[u]) /\ UNCHANGED clients
       ELSE /\ clients' = [clients EXCEPT ![using[u].client].lock = u]
            /\ To(u, "wait") /\ UnchangedTool
    /\ UNCHANGED sockets /\ UnchangedChrome

(* A slip: whatever comes next is taken for the answer. *)
AnyAnswer(message, id) == TRUE
IsAnswer(message, id) == message.id = id
\* Any other message is dropped, also the answer to another's command.
Receive(u) ==
    /\ Using(u, "wait")
    /\ LET s == Me(u).ws
           message == Head(sockets[s].inbox)
       IN  /\ sockets[s].inbox # << >>
           /\ sockets' = [sockets EXCEPT ![s].inbox = Tail(@)]
           /\ IF IsAnswer(message, using[u].id)
              THEN /\ clients' = [clients EXCEPT ![using[u].client].lock = NoUser]
                   /\ LET r == [using[u] EXCEPT !.wrong = @ \/ message.id # using[u].id]
                      IN  IF message.val \in Head(r.left).stops THEN CommandFails(u, r)
                          ELSE Set(u, [r EXCEPT !.at = "step", !.left = Tail(@)]) /\ UnchangedTool
              ELSE UNCHANGED <<clients, using>> /\ UnchangedTool
    /\ UnchangedChrome
\* A close frame clears the websocket; an error and the thirty seconds do not.
WaitFails(u) ==
    /\ Using(u, "wait") /\ sockets[Me(u).ws].inbox = << >>
    /\ LET s == Me(u).ws
       IN  /\ clients' = [clients EXCEPT ![using[u].client].lock = NoUser,
                             ![using[u].client].ws = IF sockets[s].state = "closed" THEN 0 ELSE @]
           /\ CommandFails(u, [using[u] EXCEPT !.lost =
                 sockets[s].state = "open" /\ \A i \in DOMAIN sockets[s].todo : sockets[s].todo[i].id # using[u].id])
    /\ UNCHANGED sockets /\ UnchangedChrome

-----------------------------------------------------------------------------
\* tab_switch and close: the websocket goes, then the tool's client.
Abandoned(s) == [sockets EXCEPT ![s] = [@ EXCEPT !.state = "closed", !.todo = << >>, !.inbox = << >>]]
Disconnect(u) ==
    /\ Using(u, "disconnect") /\ Unlocked(u)
    /\ sockets' = IF Me(u).ws = 0 THEN sockets ELSE Abandoned(Me(u).ws)
    /\ clients' = [clients EXCEPT ![using[u].client].ws = 0]
    /\ To(u, "clear")
    /\ UnchangedChrome /\ UnchangedTool
ClearClient(u) ==
    /\ Using(u, "clear") /\ clientLock = NoUser
    /\ toolClient' = 0
    /\ To(u, IF using[u].act = "close" THEN "kill" ELSE "switch")
    /\ UNCHANGED <<sockets, clients, clientLock>> /\ UnchangedChrome
Broken(state) == [s \in DOMAIN sockets |->
                    IF sockets[s].state = "open" THEN [sockets[s] EXCEPT !.state = state, !.todo = << >>] ELSE sockets[s]]
KillBrowser(u) ==
    /\ Using(u, "kill")
    /\ IF handle # 0 /\ procs[handle] # "gone"
       THEN /\ procs' = [procs EXCEPT ![handle] = "gone"]
            /\ IF procs[handle] = "up" THEN sockets' = Broken("reset") /\ dialogs' = {} ELSE UNCHANGED <<sockets, dialogs>>
       ELSE UNCHANGED <<procs, sockets, dialogs>>
    /\ handle' = 0
    /\ Ended(u, "ok")
    /\ UNCHANGED <<firstTab, clients>> /\ UnchangedTool
SwitchTab(u) ==
    /\ Using(u, "switch")
    /\ \/ \E tab \in 1..NumTabs :
            /\ CanOpen /\ OpenSocket(tab) /\ firstTab' = tab
            /\ clients' = Append(clients, [ws |-> NewSocket, lock |-> NoUser, next |-> 1])
            /\ Set(u, [using[u] EXCEPT !.at = "step", !.client = Len(clients) + 1, !.left = EnableDomains, !.stage = "swap"])
            /\ UnchangedTool
       \/ ~Listening /\ FailHere(u) /\ UNCHANGED <<sockets, clients, firstTab>>
    /\ UNCHANGED <<procs, handle, dialogs>>
Adopt(u) ==
    /\ Using(u, "adopt") /\ clientLock = NoUser
    /\ toolClient' = using[u].client
    /\ Ended(u, "ok")
    /\ UNCHANGED <<sockets, clients, clientLock>> /\ UnchangedChrome

-----------------------------------------------------------------------------
\* Chrome: it comes up, answers, shows dialogs, closes a tab's websocket, dies.
UnchangedCalls == UNCHANGED <<clients, toolClient, clientLock, using, handle>>
ChromeUp ==
    /\ \E p \in DOMAIN procs : procs[p] = "starting" /\ procs' = [procs EXCEPT ![p] = "up"]
    /\ UNCHANGED <<firstTab, dialogs, sockets>> /\ UnchangedCalls
Blocked(s, i) == sockets[s].todo[i].kind = "page" /\ sockets[s].tab \in dialogs
Open(s) == sockets[s].state = "open"
ChromeAnswers ==
    /\ \E s \in DOMAIN sockets : \E i \in DOMAIN sockets[s].todo : \E val \in {"fine", "missing", "error"} :
         LET command == sockets[s].todo[i]
         IN  /\ Open(s) /\ ~Blocked(s, i) /\ \A j \in 1..(i - 1) : Blocked(s, j)
             /\ val = "missing" => command.kind = "page"
             /\ sockets' = [sockets EXCEPT ![s].todo = RemoveAt(@, i),
                                           ![s].inbox = Append(@, [id |-> command.id, val |-> val])]
             /\ dialogs' = IF command.kind = "dialog" THEN dialogs \ {sockets[s].tab} ELSE dialogs
    /\ UNCHANGED <<procs, firstTab>> /\ UnchangedCalls
ChromeDialog ==
    /\ \E s \in DOMAIN sockets : \E i \in DOMAIN sockets[s].todo :
         /\ Open(s) /\ sockets[s].todo[i].kind = "page"
         /\ dialogs' = dialogs \cup {sockets[s].tab} /\ dialogs' # dialogs
    /\ UNCHANGED <<procs, firstTab, sockets>> /\ UnchangedCalls
ChromeCloses ==
    /\ \E s \in DOMAIN sockets : Open(s) /\ sockets' = [sockets EXCEPT ![s].state = "closed", ![s].todo = << >>]
    /\ UNCHANGED <<procs, firstTab, dialogs>> /\ UnchangedCalls
ChromeDies ==
    /\ \E p \in DOMAIN procs : procs[p] = "up" /\ procs' = [procs EXCEPT ![p] = "gone"]
    /\ Cardinality({p \in DOMAIN procs : procs[p] = "gone"}) < MaxCrashes
    /\ sockets' = Broken("reset") /\ dialogs' = {}
    /\ UNCHANGED firstTab /\ UnchangedCalls

BrowserNext ==
    \/ \E u \in Users :
         \/ \E act \in Acts : Begin(u, act)
         \/ GetClient(u) \/ Connect(u) \/ ScriptEnds(u) \/ Refuse(u) \/ DiscoverTargets(u) \/ EnsureConnected(u) \/ Reopen(u)
         \/ Send(u) \/ Wait(u) \/ Receive(u) \/ WaitFails(u)
         \/ Disconnect(u) \/ ClearClient(u) \/ KillBrowser(u) \/ SwitchTab(u) \/ Adopt(u)
    \/ ChromeUp \/ ChromeAnswers \/ ChromeDialog \/ ChromeCloses \/ ChromeDies

BrowserSpec == BrowserInit /\ [][BrowserNext]_browserVars
-----------------------------------------------------------------------------
(* A command gets the answer to itself, also behind commands that timed    *)
(* out and were answered late; and it is given up with its answer already  *)
(* given only when another's command shared the client, whose wait drops   *)
(* what is not its own (send_command).                                     *)
AnswersReach == \A u \in Users : ~using[u].wrong /\ (using[u].lost => ~using[u].alone)
=============================================================================

----------------------------- MODULE Lifecycle -----------------------------
(***************************************************************************)
(* From OnInit to OnExit.  The constructor of MainFrame starts the first    *)
(* browser and the websocket server before main_frame is assigned; OnClose  *)
(* asks the browsers to close and lets the frame go at once.  In between    *)
(* the tabs of BrowserTabs live.  CEF's side of closing (DoClose, then the  *)
(* close message to the top-level window) is external and follows           *)
(* cef_life_span_handler.h.                                                *)
(***************************************************************************)
EXTENDS BrowserTabs

CONSTANT MaxCloseTasks   \* bound on CloseAllBrowsers posted and not yet run

VARIABLES
  phase,        \* where the main thread is in the life of the program
  main_frame,   \* WevebApp::main_frame: "unset", "alive" or "gone"
  server,       \* the websocket thread: "none", "running", "stopped"
  closeTasks,   \* CloseAllBrowsers posted to the UI thread
  asked,        \* browsers told to close, DoClose still to come
  wmClose,      \* a close message CEF has sent to the frame waits
  missed        \* history: CloseAllBrowsers did not reach an existing browser

lifeVars == <<phase, main_frame, server, closeTasks, asked, wmClose, missed>>
vars == <<notebookVars, tabVars, lifeVars>>

ASSUME LifecycleAssumption ==
  MaxPopups \in Nat /\ MaxCloses \in Nat /\ MaxCloseTasks \in Nat

Running    == failed = "no" /\ phase # "exited"
FrameThere == main_frame = "alive"
EventLoop  == phase \in {"running", "closing"}

LifeInit ==
  /\ TabsInit
  /\ phase = "ctor" /\ main_frame = "unset" /\ server = "none"
  /\ closeTasks = 0 /\ asked = {} /\ wmClose = FALSE /\ missed = FALSE

\* A callback looks at a frame that is not there.
UseNoFrame ==
  /\ failed' = "frame"
  /\ UNCHANGED <<notebookVars, sel, mapVars, hookVars, spinning, found, misled, unrest, lifeVars>>

-----------------------------------------------------------------------------
(***************************************************************************)
(* The main thread: OnInit and the constructor.                            *)
(***************************************************************************)
StartBrowserOnTab ==
  /\ phase = "ctor"
  /\ creating' = {First}
  /\ phase' = "load"
  /\ UNCHANGED <<notebookVars, sel, open, dying, browser_map, first_init, ui, hookVars,
                 talkVars, unrest, main_frame, server, closeTasks, asked,
                 wmClose, missed>>

\* A script named on the command line is loaded here; a message box of
\* LoadJsonFile keeps the main thread in this place.
LoadCommandLineScript ==
  /\ phase = "load"
  /\ phase' = "server"
  /\ UNCHANGED <<notebookVars, tabVars, main_frame, server, closeTasks, asked,
                 wmClose, missed>>

InitWebsocketServer ==
  /\ phase = "server"
  /\ server' = "running"
  /\ phase' = "assign"
  /\ UNCHANGED <<notebookVars, tabVars, main_frame, closeTasks, asked,
                 wmClose, missed>>

\* OnInit has the frame and enters the event loop.
AssignMainFrame ==
  /\ phase = "assign"
  /\ main_frame' = "alive"
  /\ phase' = "running"
  /\ UNCHANGED <<notebookVars, tabVars, server, closeTasks, asked,
                 wmClose, missed>>

(***************************************************************************)
(* The main thread: OnClose to OnExit.                                     *)
(***************************************************************************)
\* By the user, OnQuit, or the close message CEF sends when DoClose has allowed
\* a browser to close; event.Skip() makes wx destroy the frame when it is idle.
OnClose ==
  /\ MainFree
  /\ phase = "running" \/ (phase = "closing" /\ wmClose)
  /\ closeTasks < MaxCloseTasks
  /\ server' = "stopped"
  /\ closeTasks' = closeTasks + 1
  /\ phase' = "closing" /\ wmClose' = FALSE
  /\ UNCHANGED <<notebookVars, tabVars, main_frame, asked, missed>>

\* wx deletes the frame: its panels go and with them the browsers' windows; what
\* is queued for it is dropped.
DeleteFrame ==
  /\ phase = "closing" /\ MainFree
  /\ main_frame' = "gone"
  /\ phase' = "deleted"
  /\ creating' = {} /\ dying' = open
  /\ pending' = {} /\ hookEvents' = 0 /\ asked' = {} /\ wmClose' = FALSE
  /\ UNCHANGED <<pages, popups, waiting, answered, taking, index, granted, closes, sel,
                 open, browser_map, first_init, ui, cef_thread_id, hooks, talkVars, unrest,
                 server, closeTasks, missed>>

OnExit ==
  /\ phase = "deleted"
  /\ phase' = "exited"
  /\ UNCHANGED <<notebookVars, tabVars, main_frame, server, closeTasks, asked,
                 wmClose, missed>>

-----------------------------------------------------------------------------
(***************************************************************************)
(* The CEF UI thread: closing.                                             *)
(***************************************************************************)
\* Mutation: the selected tab's browser only.
CloseSelectedBrowser ==
  /\ closeTasks > 0 /\ ui = NoHandler
  /\ closeTasks' = closeTasks - 1
  /\ asked' = asked \cup {browser_map[i] : i \in DOMAIN browser_map \cap {sel}}
  /\ missed' = (missed \/ ~(open \ dying \subseteq asked'))
  /\ UNCHANGED <<notebookVars, tabVars, phase, main_frame, server, wmClose>>

CloseAllBrowsers ==
  /\ closeTasks > 0 /\ ui = NoHandler
  /\ closeTasks' = closeTasks - 1
  /\ asked' = asked \cup {browser_map[i] : i \in DOMAIN browser_map}
  /\ missed' = (missed \/ ~(open \ dying \subseteq asked'))
  /\ UNCHANGED <<notebookVars, tabVars, phase, main_frame, server, wmClose>>

\* DoClose allows the close; CEF then sends a close message to the main frame.
DoClose(b) ==
  /\ ui = NoHandler /\ b \in asked
  /\ asked' = asked \ {b}
  /\ wmClose' = (wmClose \/ (FrameThere /\ b \in open \ dying))
  /\ UNCHANGED <<notebookVars, tabVars, phase, main_frame, server, closeTasks, missed>>

(***************************************************************************)
(* The callbacks that look at main_frame, at any time of its life.         *)
(***************************************************************************)
Created(b) ==
  IF FrameThere THEN OnAfterCreated(b) /\ UNCHANGED lifeVars
                ELSE ui = NoHandler /\ b \in creating /\ UseNoFrame

PopupOpened ==
  IF FrameThere THEN OnBeforePopup /\ UNCHANGED lifeVars
                ELSE open # {} /\ ~waiting /\ UseNoFrame

OnLoadEnd == ui = NoHandler /\ open # {} /\ ~FrameThere /\ UseNoFrame

\* on_open and on_close show the connection in the frame.  A handler that has
\* begun is not ended by StopServer.
ShowConnection == server # "none" /\ ~FrameThere /\ UseNoFrame

-----------------------------------------------------------------------------
StartStep == StartBrowserOnTab \/ LoadCommandLineScript \/ InitWebsocketServer \/ AssignMainFrame

StopStep == OnClose \/ DeleteFrame \/ OnExit

TabStep ==
  /\ EventLoop
  /\ UNCHANGED lifeVars
  /\ \/ \E p \in 1..MaxPopups : AddTabWorker(p)
     \/ \E s \in 1..Len(pages) : SelectTab(s)
     \/ OnCloseTab \/ InitHooks
     \/ \E w \in Lookers : WaitFirstInit(w)
     \/ GetBrowserOnTab

ReplayStep ==
  IF FrameThere \/ found # NoTab
  THEN (ReplayReads \/ ReplayFinds) /\ UNCHANGED lifeVars
  ELSE first_init /\ "replay" \in spinning /\ UseNoFrame

\* OnBeforePopup goes on with the frame's mutex, notebook and status bar.
PopupTaken ==
  IF FrameThere
  THEN (PopupCounts \/ PopupGets \/ PopupAllowed \/ PopupRefused) /\ UNCHANGED lifeVars
  ELSE waiting /\ UseNoFrame

IoStep == PopupOpened \/ PopupTaken

\* OnAfterCreated asks for the frame again for the thread and for the event.
HandlerStep ==
  \/ InsertBrowser /\ UNCHANGED lifeVars
  \/ IF FrameThere THEN (SetCefThread \/ QueueInitHook) /\ UNCHANGED lifeVars
                    ELSE ui.at \in {"thread", "hook"} /\ UseNoFrame

UiStep ==
  \/ HandlerStep \/ CloseAllBrowsers \/ OnLoadEnd
  \/ \E b \in Browsers : \/ Created(b) \/ DoClose(b)
                         \/ OnBeforeClose(b) /\ UNCHANGED lifeVars

LifeNext ==
  /\ Running
  /\ \/ StartStep \/ StopStep \/ TabStep
     \/ ReplayStep
     \/ IoStep \/ UiStep \/ ShowConnection

LifeSpec == LifeInit /\ [][LifeNext]_vars

\* The constructor runs to its end, CEF creates the browser it was asked for and
\* schedules its UI thread, and a lookup goes on once it may.
Fairness ==
  /\ WF_vars(Running /\ StartStep)
  /\ WF_vars(Running /\ HandlerStep)
  /\ WF_vars(Running /\ Created(First))
  /\ WF_vars(Running /\ "main" \in spinning /\ TabStep)
  /\ WF_vars(Running /\ "replay" \in spinning /\ ReplayStep)

FairSpec == LifeSpec /\ Fairness

-----------------------------------------------------------------------------
(***************************************************************************)
(* Properties; the others are those of BrowserTabs.                        *)
(***************************************************************************)
TypeOK ==
  /\ TabsTypeOK
  /\ phase \in {"ctor", "load", "server", "assign", "running", "closing", "deleted", "exited"}
  /\ main_frame \in {"unset", "alive", "gone"}
  /\ server \in {"none", "running", "stopped"}
  /\ closeTasks \in 0..MaxCloseTasks
  /\ asked \subseteq Browsers /\ wmClose \in BOOLEAN /\ missed \in BOOLEAN

\* CloseAllBrowsers only knows the browsers in the map.  Still, when the program
\* is closed no existing browser is passed over, unless the tabs had changed
\* when the map could not follow.
CalmSweepComplete == missed => unrest

\* The busy wait for the first browser ends, on the main thread too, as long as
\* CEF can create a browser without it: OnAfterCreated never needs the thread
\* that waits.  Only the end of the program or of the frame can come first.
SpinEnds ==
  \A w \in Lookers :
    w \in spinning ~> w \notin spinning \/ ~Running \/ phase = "deleted"
=============================================================================

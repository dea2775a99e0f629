-------------------------- MODULE LifecycleProofs --------------------------
(***************************************************************************)
(* Proofs about Lifecycle, for every number of popups, closed tabs and      *)
(* attempts to end the program: what browser_map_ may list, when the hooks  *)
(* are installed, the types, and what the map may be trusted with while the *)
(* tabs are calm.                                                          *)
(***************************************************************************)
EXTENDS Lifecycle, FiniteSetTheorems, TLAPS

\* A record of the shape ui has.
UiTyped == ui \in [at: {"none", "insert", "thread", "hook"}, b: {ui.b}, sel: {ui.sel}]

\* A browser is asked for once: those known are no newer than the last popup, and
\* the popup that waits has no browser yet.
AskedOnce ==
  /\ popups \in Nat
  /\ creating \subseteq 0..popups /\ open \subseteq 0..popups
  /\ creating \cap open = {}
  /\ waiting => popups \notin creating \cup open
  /\ phase = "ctor" => creating = {} /\ open = {} /\ ~waiting

\* The browser that is about to be listed exists and is not listed yet.
ListInv ==
  /\ NoGoneBrowserListed
  /\ ui.at = "insert" =>
       ui.b \in open /\ \A i \in DOMAIN browser_map : browser_map[i] # ui.b

MapInv == UiTyped /\ AskedOnce /\ ListInv

\* Only the first OnAfterCreated goes on to the hooks.
HookInv ==
  /\ hookEvents \in Nat /\ hooks \in Nat
  /\ ~first_init => hookEvents = 0 /\ hooks = 0
  /\ ui.at \in {"thread", "hook"} => ~first_init
  /\ ui.at = "hook" => cef_thread_id
  /\ HooksReady

-----------------------------------------------------------------------------
(***************************************************************************)
(* What the steps that do not concern the map leave alone.                 *)
(***************************************************************************)
\* Nothing but that browsers not yet created may be given up.
MapKept ==
  /\ UNCHANGED <<open, browser_map, ui, popups, waiting>>
  /\ creating' \subseteq creating
  /\ phase' = "ctor" => phase = "ctor"

LEMMA MapKeptInv == MapInv /\ MapKept => MapInv'
  <1> SUFFICES ASSUME MapInv, MapKept PROVE MapInv'
    OBVIOUS
  <1>1. UiTyped' /\ ListInv'
    BY DEF MapInv, MapKept, UiTyped, ListInv, NoGoneBrowserListed
  <1>2. AskedOnce'
    BY DEF MapInv, MapKept, AskedOnce
  <1> QED
    BY <1>1, <1>2 DEF MapInv

\* The steps of the main thread, of replays and of CEF's closing.
MainStep ==
  \/ LoadCommandLineScript \/ InitWebsocketServer \/ AssignMainFrame
  \/ OnClose \/ OnExit \/ DeleteFrame \/ CloseAllBrowsers \/ UseNoFrame
  \/ \E b \in Browsers : DoClose(b)
  \/ /\ UNCHANGED lifeVars
     /\ \/ \E p \in 1..MaxPopups : AddTabWorker(p)
        \/ \E s \in 1..Len(pages) : SelectTab(s)
        \/ OnCloseTab \/ InitHooks
        \/ \E w \in Lookers : WaitFirstInit(w)
        \/ GetBrowserOnTab \/ ReplayReads \/ ReplayFinds
  \/ UNCHANGED vars

LEMMA MainStepKeeps == MainStep => MapKept
  <1> SUFFICES ASSUME MainStep PROVE MapKept
    OBVIOUS
  <1> USE DEF MapKept, notebookVars, tabVars, mapVars, hookVars, talkVars
  <1>1. CASE LoadCommandLineScript \/ InitWebsocketServer \/ AssignMainFrame
    BY <1>1 DEF LoadCommandLineScript, InitWebsocketServer, AssignMainFrame
  <1>2. CASE OnClose \/ OnExit \/ DeleteFrame
    BY <1>2 DEF OnClose, OnExit, DeleteFrame
  <1>3. CASE CloseAllBrowsers \/ UseNoFrame \/ \E b \in Browsers : DoClose(b)
    BY <1>3 DEF CloseAllBrowsers, UseNoFrame, DoClose, lifeVars
  <1>4. CASE UNCHANGED phase /\ \E p \in 1..MaxPopups : AddTabWorker(p)
    BY <1>4 DEF AddTabWorker, AddTab
  <1>5. CASE UNCHANGED phase /\ \E s \in 1..Len(pages) : SelectTab(s)
    BY <1>5 DEF SelectTab
  <1>6. CASE UNCHANGED phase /\ OnCloseTab
    BY <1>6 DEF OnCloseTab, CloseTab
  <1>7. CASE UNCHANGED phase /\ InitHooks
    BY <1>7 DEF InitHooks
  <1>8. CASE UNCHANGED phase /\ \/ \E w \in Lookers : WaitFirstInit(w)
                                \/ GetBrowserOnTab \/ ReplayReads \/ ReplayFinds
    BY <1>8 DEF WaitFirstInit, GetBrowserOnTab, ReplayReads, ReplayFinds
  <1>9. CASE UNCHANGED vars
    BY <1>9 DEF vars, lifeVars
  <1> QED
    BY <1>1, <1>2, <1>3, <1>4, <1>5, <1>6, <1>7, <1>8, <1>9 DEF MainStep, lifeVars

\* The other steps.
LEMMA StepKinds ==
  ASSUME [LifeNext]_vars
  PROVE  \/ MainStep
         \/ StartBrowserOnTab
         \/ /\ UNCHANGED lifeVars
            /\ \/ OnBeforePopup \/ PopupAllowed \/ PopupRefused
               \/ PopupCounts \/ PopupGets
               \/ InsertBrowser \/ SetCefThread \/ QueueInitHook
               \/ \E b \in Browsers : OnAfterCreated(b) \/ OnBeforeClose(b)
  <1>1. CASE StartStep \/ StopStep \/ CloseAllBrowsers \/ UNCHANGED vars
    BY <1>1 DEF StartStep, StopStep, MainStep
  <1>2. CASE TabStep
    BY <1>2 DEF TabStep, MainStep
  <1>3. CASE ReplayStep
    BY <1>3 DEF ReplayStep, MainStep
  <1>4. CASE IoStep
    BY <1>4 DEF IoStep, PopupOpened, PopupTaken, MainStep
  <1>5. CASE ShowConnection \/ OnLoadEnd
    BY <1>5 DEF ShowConnection, OnLoadEnd, MainStep
  <1>6. CASE HandlerStep
    BY <1>6 DEF HandlerStep, MainStep
  <1>7. CASE \E b \in Browsers : Created(b)
    BY <1>7 DEF Created, MainStep
  <1>8. CASE \E b \in Browsers : DoClose(b) \/ (OnBeforeClose(b) /\ UNCHANGED lifeVars)
    BY <1>8 DEF MainStep
  <1>9. LifeNext => StartStep \/ StopStep \/ TabStep \/ ReplayStep \/ IoStep \/ UiStep
                      \/ ShowConnection
    BY DEF LifeNext
  <1>10. CASE UiStep
    <2>1. \/ HandlerStep \/ CloseAllBrowsers \/ OnLoadEnd
          \/ \E b \in Browsers : Created(b)
          \/ \E b \in Browsers : DoClose(b) \/ (OnBeforeClose(b) /\ UNCHANGED lifeVars)
      BY <1>10 DEF UiStep
    <2> QED
      BY <2>1, <1>1, <1>5, <1>6, <1>7, <1>8
  <1> QED
    BY <1>1, <1>2, <1>3, <1>4, <1>5, <1>9, <1>10

-----------------------------------------------------------------------------
(***************************************************************************)
(* The map.                                                                *)
(***************************************************************************)
LEMMA MapInit == LifeInit => MapInv
  <1> SUFFICES ASSUME LifeInit PROVE MapInv
    OBVIOUS
  <1>1. /\ popups = 0 /\ creating = {} /\ open = {} /\ ~waiting
        /\ ui = [at |-> "none", b |-> 0, sel |-> 0]
    BY DEF LifeInit, TabsInit, Init, NoHandler, First
  <1>2. DOMAIN browser_map = {}
    BY DEF LifeInit, TabsInit
  <1> QED
    BY <1>1, <1>2 DEF MapInv, UiTyped, AskedOnce, ListInv, NoGoneBrowserListed

LEMMA MapStep == MapInv /\ [LifeNext]_vars => MapInv'
  <1> SUFFICES ASSUME MapInv, [LifeNext]_vars PROVE MapInv'
    OBVIOUS
  <1>1. UiTyped /\ AskedOnce /\ ListInv
    BY DEF MapInv
  <1>2. CASE MainStep
    BY <1>2, MainStepKeeps, MapKeptInv
  <1>3. CASE StartBrowserOnTab
    <2>1. UNCHANGED <<open, browser_map, ui, popups, waiting>> /\ creating' = {0} /\ phase' = "load"
      BY <1>3 DEF StartBrowserOnTab, notebookVars, First
    <2>2. UiTyped' /\ ListInv'
      BY <1>1, <2>1 DEF UiTyped, ListInv, NoGoneBrowserListed
    <2>3. open = {} /\ ~waiting
      BY <1>1, <1>3 DEF StartBrowserOnTab, AskedOnce
    <2>4. AskedOnce'
      BY <1>1, <2>1, <2>3 DEF AskedOnce
    <2> QED
      BY <2>2, <2>4 DEF MapInv
  <1>4. CASE UNCHANGED phase /\ OnBeforePopup
    <2>1. /\ UNCHANGED <<open, browser_map, ui, creating, phase>>
          /\ popups' = popups + 1 /\ open # {}
      BY <1>4 DEF OnBeforePopup, RequestTab, tabVars, mapVars
    <2>2. UiTyped' /\ ListInv'
      BY <1>1, <2>1 DEF UiTyped, ListInv, NoGoneBrowserListed
    <2>3. popups \in Nat /\ popups' \in Nat /\ 0..popups \subseteq 0..popups'
          /\ popups' \notin 0..popups
      BY <1>1, <2>1 DEF AskedOnce
    <2>4. AskedOnce'
      BY <1>1, <2>1, <2>3 DEF AskedOnce
    <2> QED
      BY <2>2, <2>4 DEF MapInv
  <1>5. CASE UNCHANGED phase /\ PopupAllowed
    <2>1. /\ UNCHANGED <<open, browser_map, ui, popups, phase>>
          /\ \/ creating' = creating \cup {popups} /\ ~waiting'
             \/ creating' = creating /\ waiting' = waiting
          /\ waiting
      BY <1>5 DEF PopupAllowed, GrantTab
    <2>2. UiTyped' /\ ListInv'
      BY <1>1, <2>1 DEF UiTyped, ListInv, NoGoneBrowserListed
    <2>3. CASE creating' = creating \cup {popups} /\ ~waiting'
      <3>1. AskedOnce'
        BY <1>1, <2>1, <2>3 DEF AskedOnce
      <3> QED
        BY <2>2, <3>1 DEF MapInv
    <2>4. CASE creating' = creating /\ waiting' = waiting
      <3>1. MapKept
        BY <2>1, <2>4 DEF MapKept
      <3> QED
        BY <3>1, MapKeptInv
    <2> QED
      BY <2>1, <2>3, <2>4
  <1>11. CASE UNCHANGED phase /\ (PopupCounts \/ PopupGets)
    <2>1. MapKept
      BY <1>11 DEF PopupCounts, CountTabs, PopupGets, GetTab, MapKept, tabVars, mapVars
    <2> QED
      BY <2>1, MapKeptInv
  <1>6. CASE UNCHANGED phase /\ PopupRefused
    <2>1. UNCHANGED <<open, browser_map, ui, popups, phase, creating>> /\ ~waiting'
      BY <1>6 DEF PopupRefused, RefuseTab, tabVars, mapVars
    <2>2. UiTyped' /\ ListInv' /\ AskedOnce'
      BY <1>1, <2>1 DEF UiTyped, ListInv, NoGoneBrowserListed, AskedOnce
    <2> QED
      BY <2>2 DEF MapInv
  <1>7. CASE UNCHANGED phase /\ InsertBrowser
    <2>1. UNCHANGED <<open, creating, popups, waiting, phase>> /\ ui.at = "insert"
      BY <1>7 DEF InsertBrowser, notebookVars
    <2>2. browser_map' = [i \in DOMAIN browser_map \cup {ui.sel} |->
                            IF i \in DOMAIN browser_map THEN browser_map[i] ELSE ui.b]
      BY <1>7 DEF InsertBrowser
    <2>3. ui' = NoHandler \/ ui' = [ui EXCEPT !.at = "thread"]
      BY <1>7 DEF InsertBrowser
    <2>4. UiTyped' /\ ui'.at # "insert"
      BY <1>1, <2>3 DEF UiTyped, NoHandler
    <2>5. \A i \in DOMAIN browser_map' :
            \/ i \in DOMAIN browser_map /\ browser_map'[i] = browser_map[i]
            \/ i = ui.sel /\ browser_map'[i] = ui.b
      BY <2>2
    <2>6. ui.b \in open /\ \A i \in DOMAIN browser_map : browser_map[i] # ui.b
      BY <1>1, <2>1 DEF ListInv
    <2>7. NoGoneBrowserListed'
      BY <1>1, <2>1, <2>5, <2>6 DEF ListInv, NoGoneBrowserListed
    <2>8. AskedOnce'
      BY <1>1, <2>1 DEF AskedOnce
    <2> QED
      BY <2>4, <2>7, <2>8 DEF MapInv, ListInv
  <1>8. CASE UNCHANGED phase /\ (SetCefThread \/ QueueInitHook)
    <2>1. UNCHANGED <<open, creating, browser_map, popups, waiting, phase>>
      BY <1>8 DEF SetCefThread, QueueInitHook, notebookVars
    <2>2. ui' = NoHandler \/ ui' = [ui EXCEPT !.at = "hook"]
      BY <1>8 DEF SetCefThread, QueueInitHook
    <2>3. UiTyped' /\ ui'.at # "insert"
      BY <1>1, <2>2 DEF UiTyped, NoHandler
    <2>4. ListInv' /\ AskedOnce'
      BY <1>1, <2>1, <2>3 DEF ListInv, NoGoneBrowserListed, AskedOnce
    <2> QED
      BY <2>3, <2>4 DEF MapInv
  <1>9. ASSUME NEW b \in Browsers, UNCHANGED phase, OnAfterCreated(b) PROVE MapInv'
    <2>1. /\ UNCHANGED <<browser_map, popups, waiting, phase>>
          /\ creating' = creating \ {b} /\ open' = open \cup {b} /\ b \in creating
          /\ ui' = [at |-> "insert", b |-> b, sel |-> sel]
      BY <1>9 DEF OnAfterCreated, notebookVars
    <2>2. UiTyped' /\ ui'.at = "insert" /\ ui'.b = b
      BY <2>1 DEF UiTyped
    <2>3. b \notin open
      BY <1>1, <2>1 DEF AskedOnce
    <2>4. ListInv'
      BY <1>1, <2>1, <2>2, <2>3 DEF ListInv, NoGoneBrowserListed
    <2>5. AskedOnce'
      BY <1>1, <2>1, <1>9 DEF AskedOnce
    <2> QED
      BY <2>2, <2>4, <2>5 DEF MapInv
  <1>10. ASSUME NEW b \in Browsers, UNCHANGED phase, OnBeforeClose(b) PROVE MapInv'
    <2>1. /\ UNCHANGED <<creating, ui, popups, waiting, phase>>
          /\ open' = open \ {b} /\ ui = NoHandler
      BY <1>10 DEF OnBeforeClose, notebookVars
    <2>2. browser_map' =
            [i \in {j \in DOMAIN browser_map : browser_map[j] # b} |-> browser_map[i]]
      BY <1>10 DEF OnBeforeClose
    <2>3. \A i \in DOMAIN browser_map' :
            i \in DOMAIN browser_map /\ browser_map'[i] = browser_map[i] /\ browser_map[i] # b
      BY <2>2
    <2>4. NoGoneBrowserListed'
      BY <1>1, <2>1, <2>3 DEF ListInv, NoGoneBrowserListed
    <2>5. ui.at # "insert"
      BY <2>1 DEF NoHandler
    <2>6. UiTyped' /\ AskedOnce'
      BY <1>1, <2>1 DEF UiTyped, AskedOnce
    <2> QED
      BY <2>1, <2>4, <2>5, <2>6 DEF MapInv, ListInv
  <1> QED
    BY <1>2, <1>3, <1>4, <1>5, <1>6, <1>7, <1>8, <1>9, <1>10, <1>11, StepKinds DEF lifeVars

\* In every behaviour browser_map_ lists only browsers that exist, each once.
THEOREM NoGoneBrowserListedCorrect == LifeSpec => []NoGoneBrowserListed
  <1>1. MapInv => NoGoneBrowserListed
    BY DEF MapInv, ListInv
  <1> QED
    BY <1>1, MapInit, MapStep, PTL DEF LifeSpec

-----------------------------------------------------------------------------
(***************************************************************************)
(* The hooks.                                                              *)
(***************************************************************************)
LEMMA HookInit == LifeInit => UiTyped /\ HookInv
  BY MapInit DEF LifeInit, TabsInit, MapInv, NoHandler, HookInv, HooksReady

LEMMA HookStep == UiTyped /\ HookInv /\ [LifeNext]_vars => HookInv'
  <1> SUFFICES ASSUME UiTyped, HookInv, [LifeNext]_vars PROVE HookInv'
    OBVIOUS
  <1> USE DEF HookInv, HooksReady
  <1>1. CASE UNCHANGED <<hookEvents, hooks, first_init, ui, cef_thread_id>>
    BY <1>1
  <1>2. CASE MainStep
    <2> USE DEF notebookVars, tabVars, mapVars, hookVars, talkVars
    <2>1. CASE InitHooks
      <3>1. UNCHANGED <<first_init, ui, cef_thread_id>>
        BY <2>1 DEF InitHooks
      <3>2. hookEvents' = hookEvents - 1 /\ hookEvents > 0 /\ hooks' \in {hooks, hooks + 1}
        BY <2>1 DEF InitHooks
      <3>3. hooks' = hooks + 1 => cef_thread_id
        <4>1. hooks # hooks + 1
          OBVIOUS
        <4> QED
          BY <2>1, <4>1 DEF InitHooks
      <3>4. CASE hooks' = hooks
        BY <3>1, <3>2, <3>4
      <3>5. CASE hooks' = hooks + 1
        BY <3>1, <3>2, <3>3, <3>5
      <3> QED
        BY <3>2, <3>4, <3>5
    <2>2. CASE DeleteFrame
      BY <2>2 DEF DeleteFrame
    <2>3. CASE LoadCommandLineScript \/ InitWebsocketServer \/ AssignMainFrame \/ OnClose \/ OnExit
      BY <1>1, <2>3 DEF LoadCommandLineScript, InitWebsocketServer, AssignMainFrame, OnClose, OnExit
    <2>4. CASE CloseAllBrowsers \/ UseNoFrame \/ \E b \in Browsers : DoClose(b)
      BY <1>1, <2>4 DEF CloseAllBrowsers, UseNoFrame, DoClose
    <2>5. CASE \/ \E p \in 1..MaxPopups : AddTabWorker(p)
               \/ \E s \in 1..Len(pages) : SelectTab(s)
               \/ OnCloseTab
      BY <1>1, <2>5 DEF AddTabWorker, SelectTab, OnCloseTab
    <2>6. CASE \/ \E w \in Lookers : WaitFirstInit(w)
               \/ GetBrowserOnTab \/ ReplayReads \/ ReplayFinds
      BY <1>1, <2>6 DEF WaitFirstInit, GetBrowserOnTab, ReplayReads, ReplayFinds
    <2>7. CASE UNCHANGED vars
      BY <1>1, <2>7 DEF vars
    <2> QED
      BY <1>2, <2>1, <2>2, <2>3, <2>4, <2>5, <2>6, <2>7 DEF MainStep
  <1>3. CASE StartBrowserOnTab \/ OnBeforePopup \/ PopupCounts \/ PopupGets \/ PopupAllowed
             \/ PopupRefused
    BY <1>1, <1>3 DEF StartBrowserOnTab, OnBeforePopup, PopupCounts, PopupGets, PopupAllowed,
       PopupRefused, tabVars, mapVars, hookVars
  <1>4. CASE InsertBrowser
    <2>1. UNCHANGED <<hookEvents, hooks, first_init, cef_thread_id>>
      BY <1>4 DEF InsertBrowser, hookVars
    <2>2. ui'.at = "none" \/ (ui'.at = "thread" /\ ~first_init)
      BY <1>4 DEF InsertBrowser, NoHandler, UiTyped
    <2> QED
      BY <2>1, <2>2
  <1>5. CASE SetCefThread
    <2>1. UNCHANGED <<hookEvents, hooks, first_init>> /\ cef_thread_id' /\ ui.at = "thread"
      BY <1>5 DEF SetCefThread
    <2>2. ui'.at = "hook"
      BY <1>5 DEF SetCefThread, UiTyped
    <2> QED
      BY <2>1, <2>2
  <1>6. CASE QueueInitHook
    <2>1. /\ UNCHANGED <<hooks, cef_thread_id>> /\ first_init' /\ ui.at = "hook"
          /\ hookEvents' = hookEvents + 1
      BY <1>6 DEF QueueInitHook
    <2>2. ui'.at = "none"
      BY <1>6 DEF QueueInitHook, NoHandler
    <2> QED
      BY <2>1, <2>2
  <1>7. CASE \E b \in Browsers : OnAfterCreated(b)
    <2>1. UNCHANGED <<hookEvents, hooks, first_init, cef_thread_id>> /\ ui'.at = "insert"
      BY <1>7 DEF OnAfterCreated, hookVars
    <2> QED
      BY <2>1
  <1>8. CASE \E b \in Browsers : OnBeforeClose(b)
    BY <1>1, <1>8 DEF OnBeforeClose, hookVars
  <1> QED
    BY <1>2, <1>3, <1>4, <1>5, <1>6, <1>7, <1>8, StepKinds

\* In every behaviour the hooks are asked for and installed once at most, and the
\* thread they are for is known by then.
THEOREM HooksReadyCorrect == LifeSpec => []HooksReady
  <1>1. MapInv => UiTyped
    BY DEF MapInv
  <1>2. HookInv => HooksReady
    BY DEF HookInv
  <1> QED
    BY <1>1, <1>2, MapInit, MapStep, HookInit, HookStep, PTL DEF LifeSpec

-----------------------------------------------------------------------------
(***************************************************************************)
(* The types.  A notebook has no more pages than popups were asked for.    *)
(***************************************************************************)
\* The notebook's part: a page in it was asked for and is no longer pending, so that
\* there are no more of both than popups and the first page.
NotebookTyped ==
  /\ pages \in Seq(0..MaxPopups) /\ Len(pages) > 0
  /\ popups \in 0..MaxPopups /\ pending \subseteq 1..popups
  /\ waiting \in BOOLEAN /\ answered \in BOOLEAN
  /\ (answered => waiting) /\ (waiting => popups > 0)
  /\ taking \in {"no", "counted", "got", "gone"} /\ (taking # "no" => waiting /\ ~answered)
  /\ granted \in [1..MaxPopups -> 0..NoPage]
  /\ Len(pages) + Cardinality(pending) <= popups + 1

\* The types, and that a browser is about to be listed under a tab.
Typed == TypeOK /\ NotebookTyped /\ (ui.at = "insert" => ui.sel > 0)

\* Elements of a sequence.
LEMMA SeqFacts ==
  ASSUME NEW S, NEW s \in Seq(S)
  PROVE  Len(s) \in Nat /\ \A i \in 1..Len(s) : s[i] \in S
  OBVIOUS

\* The sequences of the notebook, and how many pages it can have.
LEMMA PageFacts ==
  ASSUME Typed
  PROVE  /\ MaxPopups \in Nat /\ popups \in Nat /\ Len(pages) \in Nat
         /\ IsFiniteSet(pending) /\ Cardinality(pending) \in Nat
         /\ sel \in 1..Len(pages) /\ sel \in 1..(MaxPopups + 1)
         /\ \A i \in 1..Len(pages) : pages[i] \in 0..MaxPopups
  <1>1. MaxPopups \in Nat /\ popups \in Nat
    BY LifecycleAssumption DEF Typed, NotebookTyped
  <1>2. IsFiniteSet(1..popups)
    BY <1>1, FS_Interval
  <1>3. IsFiniteSet(pending)
    BY <1>2, FS_Subset DEF Typed, NotebookTyped
  <1>4. Cardinality(pending) \in Nat
    BY <1>3, FS_CardinalityType
  <1>5. pages \in Seq(0..MaxPopups) /\ Len(pages) + Cardinality(pending) <= popups + 1
        /\ popups <= MaxPopups /\ Len(pages) > 0
    BY <1>1 DEF Typed, NotebookTyped
  <1>6. sel \in 1..Len(pages)
    BY DEF Typed, TypeOK, TabsTypeOK
  <1>7. Len(pages) \in Nat /\ \A i \in 1..Len(pages) : pages[i] \in 0..MaxPopups
    BY <1>5, SeqFacts
  <1>8. Len(pages) <= MaxPopups + 1
    BY <1>1, <1>4, <1>5, <1>7
  <1> QED
    BY <1>1, <1>3, <1>4, <1>6, <1>7, <1>8

\* What AddTab makes of the notebook.
LEMMA AddTabTyped ==
  ASSUME Typed, NEW p \in 1..MaxPopups, AddTab(p)
  PROVE  NotebookTyped' /\ Len(pages') = Len(pages) + 1
  <1> USE PageFacts
  <1>1. p \in pending /\ pages' = Append(pages, p) /\ pending' = pending \ {p}
        /\ answered' = waiting /\ UNCHANGED <<popups, waiting, taking, granted>> /\ taking = "no"
    BY DEF AddTab
  <1>2. pages' \in Seq(0..MaxPopups) /\ Len(pages') = Len(pages) + 1
    BY <1>1 DEF Typed, NotebookTyped
  <1>3. Cardinality(pending') = Cardinality(pending) - 1
    BY <1>1, FS_RemoveElement
  <1>4. Len(pages') + Cardinality(pending') <= popups' + 1
    BY <1>1, <1>2, <1>3 DEF Typed, NotebookTyped
  <1>5. /\ pending' \subseteq 1..popups' /\ waiting' \in BOOLEAN /\ answered' \in BOOLEAN
        /\ (answered' => waiting') /\ (waiting' => popups' > 0) /\ popups' \in 0..MaxPopups
        /\ taking' \in {"no", "counted", "got", "gone"} /\ (taking' # "no" => waiting' /\ ~answered')
        /\ granted' \in [1..MaxPopups -> 0..NoPage]'
    BY <1>1 DEF Typed, NotebookTyped, NoPage
  <1> QED
    BY <1>2, <1>4, <1>5 DEF NotebookTyped

\* What CloseTab makes of it.
LEMMA CloseTabTyped ==
  ASSUME Typed, NEW s \in 1..Len(pages), CloseTab(s)
  PROVE  /\ NotebookTyped' /\ Len(pages') = Len(pages) - 1 /\ Len(pages) > 1
         /\ \A i \in 1..Len(pages') : pages'[i] = IF i < s THEN pages[i] ELSE pages[i + 1]
  <1> USE PageFacts
  <1>1. pages' = Without(pages, s) /\ Len(pages) > 1
        /\ UNCHANGED <<pending, popups, waiting, answered, taking, granted>>
    BY DEF CloseTab
  <1>2. pages' = [i \in 1..Len(pages) - 1 |-> IF i < s THEN pages[i] ELSE pages[i + 1]]
    BY <1>1 DEF Without
  <1>3. \A i \in 1..Len(pages) - 1 :
          (IF i < s THEN pages[i] ELSE pages[i + 1]) \in 0..MaxPopups
    OBVIOUS
  <1>4. pages' \in Seq(0..MaxPopups) /\ Len(pages') = Len(pages) - 1
    BY <1>1, <1>2, <1>3
  <1>5. Len(pages') + Cardinality(pending') <= popups' + 1
    BY <1>1, <1>4 DEF Typed, NotebookTyped
  <1>6. /\ pending' \subseteq 1..popups' /\ waiting' \in BOOLEAN /\ answered' \in BOOLEAN
        /\ (answered' => waiting') /\ (waiting' => popups' > 0) /\ popups' \in 0..MaxPopups
        /\ taking' \in {"no", "counted", "got", "gone"} /\ (taking' # "no" => waiting' /\ ~answered')
        /\ granted' \in [1..MaxPopups -> 0..NoPage]'
    BY <1>1 DEF Typed, NotebookTyped, NoPage
  <1> QED
    BY <1>1, <1>2, <1>4, <1>5, <1>6 DEF NotebookTyped

\* The types hold at the start.
LEMMA TypedInit == LifeInit => Typed
  <1> SUFFICES ASSUME LifeInit PROVE Typed
    OBVIOUS
  <1> USE LifecycleAssumption
  <1>1. pages = <<0>> /\ popups = 0 /\ pending = {} /\ ~waiting /\ ~answered
    BY DEF LifeInit, TabsInit, Init
  <1>2. granted \in [1..MaxPopups -> 0..NoPage]
    BY DEF LifeInit, TabsInit, Init, NoPage
  <1>3. Cardinality(pending) = 0
    BY <1>1, FS_EmptySet
  <1>4. pages \in Seq(0..MaxPopups) /\ Len(pages) = 1
    BY <1>1
  <1>5. waiting \in BOOLEAN /\ answered \in BOOLEAN /\ taking = "no"
    BY DEF LifeInit, TabsInit, Init
  <1>6. NotebookTyped
    BY <1>1, <1>2, <1>3, <1>4, <1>5 DEF NotebookTyped
  <1>7. DOMAIN browser_map = {}
    BY DEF LifeInit, TabsInit
  <1>8. ui = [at |-> "none", b |-> 0, sel |-> 0]
    BY DEF LifeInit, TabsInit, NoHandler, First
  <1>9. TabsTypeOK
    <2>1. first_init \in BOOLEAN /\ cef_thread_id \in BOOLEAN /\ misled \in BOOLEAN /\ unrest \in BOOLEAN
      BY DEF LifeInit, TabsInit
    <2>2. ui \in [at: {"none", "insert", "thread", "hook"}, b: Browsers, sel: 0..MaxPopups + 1]
      BY <1>8 DEF Browsers
    <2>3. found \in [sel: 0..MaxPopups + 1, page: 0..MaxPopups]
      BY DEF LifeInit, TabsInit, NoTab
    <2>4. sel \in 1..Len(pages) /\ creating = {} /\ open = {} /\ dying = {}
      BY <1>4 DEF LifeInit, TabsInit
    <2> QED
      BY <1>7, <2>1, <2>2, <2>3, <2>4 DEF LifeInit, TabsInit, TabsTypeOK
  <1>10. TypeOK
    <2>1. wmClose \in BOOLEAN /\ missed \in BOOLEAN
      BY DEF LifeInit
    <2> QED
      BY <1>9, <2>1 DEF LifeInit, TypeOK
  <1> QED
    BY <1>6, <1>8, <1>10 DEF Typed

\* A step that leaves the tabs and the notebook alone, whatever it does to the
\* life of the program.
LEMMA LifeOnlyTyped ==
  ASSUME Typed,
         UNCHANGED <<notebookVars, sel, mapVars, hookVars, spinning, found, misled, unrest>>,
         failed' \in {"no", "assert", "frame", "dangling"},
         phase' \in {"ctor", "load", "server", "assign", "running", "closing", "deleted", "exited"},
         main_frame' \in {"unset", "alive", "gone"},
         server' \in {"none", "running", "stopped"},
         closeTasks' \in 0..MaxCloseTasks,
         asked' \subseteq Browsers, wmClose' \in BOOLEAN, missed' \in BOOLEAN
  PROVE  Typed'
  <1>1. NotebookTyped'
    BY DEF Typed, NotebookTyped, notebookVars, NoPage
  <1>2. TabsTypeOK'
    BY DEF Typed, TypeOK, TabsTypeOK, notebookVars, mapVars, hookVars, Browsers
  <1> QED
    BY <1>1, <1>2 DEF Typed, TypeOK, mapVars, Browsers

\* A step of the tabs, and one that leaves the notebook alone as well.
LEMMA TabsTyped ==
  ASSUME Typed, NotebookTyped', TabsTypeOK', ui'.at = "insert" => ui'.sel > 0, UNCHANGED lifeVars
  PROVE  Typed'
  BY DEF Typed, TypeOK, lifeVars, Browsers

LEMMA NotebookKept == Typed /\ UNCHANGED notebookVars => NotebookTyped'
  BY DEF Typed, NotebookTyped, notebookVars, NoPage

\* Every step keeps the types.
LEMMA TypedStep == Typed /\ [LifeNext]_vars => Typed'
  <1> SUFFICES ASSUME Typed, [LifeNext]_vars PROVE Typed'
    OBVIOUS
  <1> USE PageFacts
  <1>0. /\ TypeOK /\ TabsTypeOK /\ NotebookTyped /\ dying \subseteq open
        /\ ui.at = "insert" => ui.sel > 0
    BY DEF Typed, TypeOK, TabsTypeOK
  <1> DEFINE Types == [at: {"none", "insert", "thread", "hook"}, b: Browsers, sel: 0..MaxPopups + 1]
  <1>1. First \in Browsers /\ NoHandler \in Types /\ NoHandler.at = "none"
    BY DEF First, Browsers, NoHandler
  <1>2. CASE StartBrowserOnTab
    <2>1. creating' = {First} /\ phase' = "load" /\ UNCHANGED notebookVars
          /\ UNCHANGED <<sel, open, dying, browser_map, first_init, ui, hookVars, talkVars, unrest>>
          /\ UNCHANGED <<main_frame, server, closeTasks, asked, wmClose, missed>>
      BY <1>2 DEF StartBrowserOnTab
    <2>2. TabsTypeOK'
      BY <1>0, <1>1, <2>1 DEF TabsTypeOK, notebookVars, hookVars, talkVars, Browsers
    <2> QED
      BY <1>0, <2>1, <2>2, NotebookKept DEF Typed, TypeOK, Browsers
  <1>3. CASE LoadCommandLineScript \/ InitWebsocketServer \/ AssignMainFrame \/ OnClose \/ OnExit
             \/ UseNoFrame \/ \E b \in Browsers : DoClose(b)
    <2> USE DEF notebookVars, tabVars, talkVars
    <2>1. CASE LoadCommandLineScript \/ InitWebsocketServer \/ AssignMainFrame \/ OnExit
      BY <1>0, <2>1, LifeOnlyTyped DEF LoadCommandLineScript, InitWebsocketServer, AssignMainFrame,
         OnExit, TypeOK, TabsTypeOK
    <2>2. CASE OnClose
      <3>1. closeTasks' \in 0..MaxCloseTasks
        BY <1>0, <2>2, LifecycleAssumption DEF OnClose, TypeOK
      <3> QED
        BY <1>0, <2>2, <3>1, LifeOnlyTyped DEF OnClose, TypeOK, TabsTypeOK
    <2>3. CASE UseNoFrame
      BY <1>0, <2>3, LifeOnlyTyped DEF UseNoFrame, TypeOK, lifeVars
    <2>4. CASE \E b \in Browsers : DoClose(b)
      <3>1. wmClose' \in BOOLEAN
        BY <1>0, <2>4 DEF DoClose, TypeOK
      <3> QED
        BY <1>0, <2>4, <3>1, LifeOnlyTyped DEF DoClose, TypeOK, TabsTypeOK
    <2> QED
      BY <1>3, <2>1, <2>2, <2>3, <2>4
  <1>4. CASE DeleteFrame
    <2>1. /\ phase' = "deleted" /\ main_frame' = "gone" /\ creating' = {} /\ dying' = open
          /\ pending' = {} /\ hookEvents' = 0 /\ asked' = {} /\ wmClose' = FALSE
          /\ UNCHANGED <<pages, popups, waiting, answered, taking, granted, sel, open, browser_map>>
          /\ UNCHANGED <<first_init, ui, cef_thread_id, hooks, talkVars, unrest>>
          /\ UNCHANGED <<server, closeTasks, missed>>
      BY <1>4 DEF DeleteFrame
    <2>2. Cardinality(pending') = 0
      BY <2>1, FS_EmptySet
    <2>3. Len(pages') + Cardinality(pending') <= popups' + 1
      BY <1>0, <2>1, <2>2 DEF NotebookTyped
    <2>4. NotebookTyped'
      BY <1>0, <2>1, <2>3 DEF NotebookTyped, NoPage
    <2>5. TabsTypeOK'
      BY <1>0, <2>1 DEF TabsTypeOK, talkVars, Browsers
    <2> QED
      BY <1>0, <2>1, <2>4, <2>5 DEF Typed, TypeOK, Browsers
  <1>5. CASE CloseAllBrowsers
    <2>1. /\ closeTasks' \in 0..MaxCloseTasks
          /\ asked' = asked \cup {browser_map[i] : i \in DOMAIN browser_map}
          /\ missed' \in BOOLEAN
      BY <1>0, <1>5, LifecycleAssumption DEF CloseAllBrowsers, TypeOK
    <2>2. asked' \subseteq Browsers
      BY <1>0, <2>1 DEF TypeOK, TabsTypeOK
    <2> QED
      BY <1>0, <1>5, <2>1, <2>2, LifeOnlyTyped DEF CloseAllBrowsers, TypeOK, TabsTypeOK, tabVars,
         talkVars
  <1>6. ASSUME UNCHANGED lifeVars, NEW p \in 1..MaxPopups, AddTabWorker(p) PROVE Typed'
    <2>1. NotebookTyped' /\ sel' = Len(pages') /\ Len(pages') = Len(pages) + 1
      BY <1>6, AddTabTyped DEF AddTabWorker
    <2>2. unrest' \in BOOLEAN
      BY <1>0, <1>6 DEF AddTabWorker, TabsTypeOK
    <2>3. UNCHANGED <<mapVars, hookVars, talkVars>>
      BY <1>6 DEF AddTabWorker
    <2>4. sel' \in 1..Len(pages')
      BY <2>1
    <2>5. TabsTypeOK'
      BY <1>0, <2>2, <2>3, <2>4 DEF TabsTypeOK, mapVars, hookVars, talkVars, Browsers
    <2> QED
      BY <1>0, <1>6, <2>1, <2>3, <2>5, TabsTyped DEF mapVars
  <1>7. ASSUME UNCHANGED lifeVars, NEW s \in 1..Len(pages), SelectTab(s) PROVE Typed'
    <2>1. unrest' \in BOOLEAN
      BY <1>0, <1>7 DEF SelectTab, TabsTypeOK
    <2>2. TabsTypeOK'
      BY <1>0, <1>7, <2>1 DEF SelectTab, TabsTypeOK, notebookVars, mapVars, hookVars, talkVars, Browsers
    <2> QED
      BY <1>0, <1>7, <2>2, NotebookKept, TabsTyped DEF SelectTab, mapVars
  <1>8. CASE UNCHANGED lifeVars /\ OnCloseTab
    <2>1. CloseTab(sel) /\ sel' = IF sel = Len(pages) THEN sel - 1 ELSE sel
      BY <1>8 DEF OnCloseTab
    <2>2. NotebookTyped' /\ Len(pages') = Len(pages) - 1 /\ Len(pages) > 1
      BY <2>1, CloseTabTyped
    <2>3. sel' \in 1..Len(pages')
      BY <2>1, <2>2
    <2>4. creating' \subseteq creating /\ dying' \subseteq open /\ unrest' \in BOOLEAN
      BY <1>0, <1>8 DEF OnCloseTab, TabsTypeOK
    <2>5. UNCHANGED <<open, browser_map, first_init, ui, hookVars, talkVars>>
      BY <1>8 DEF OnCloseTab
    <2>6. TabsTypeOK'
      BY <1>0, <2>3, <2>4, <2>5 DEF TabsTypeOK, hookVars, talkVars, Browsers
    <2> QED
      BY <1>0, <1>8, <2>2, <2>5, <2>6, TabsTyped
  <1>9. CASE UNCHANGED lifeVars /\ InitHooks
    <2>1. hookEvents' \in Nat /\ hooks' \in Nat /\ failed' \in {"no", "assert", "frame", "dangling"}
      BY <1>0, <1>9 DEF InitHooks, TabsTypeOK
    <2>2. TabsTypeOK'
      BY <1>0, <1>9, <2>1 DEF InitHooks, TabsTypeOK, notebookVars, mapVars, Browsers
    <2> QED
      BY <1>0, <1>9, <2>2, NotebookKept, TabsTyped DEF InitHooks, mapVars
  <1>10. CASE UNCHANGED lifeVars /\ ((\E w \in Lookers : WaitFirstInit(w)) \/ GetBrowserOnTab
                                     \/ ReplayReads \/ ReplayFinds)
    <2> USE DEF notebookVars, mapVars, hookVars
    <2>1. UNCHANGED <<notebookVars, sel, mapVars, hookVars, unrest>>
      BY <1>10 DEF WaitFirstInit, GetBrowserOnTab, ReplayReads, ReplayFinds
    <2>2. \A s, page : FindTab(s, page) =>
            misled' \in BOOLEAN /\ failed' \in {"no", "assert", "frame", "dangling"}
      BY <1>0 DEF FindTab, TabsTypeOK
    <2>3. misled' \in BOOLEAN /\ failed' \in {"no", "assert", "frame", "dangling"}
      BY <1>0, <1>10, <2>2 DEF WaitFirstInit, GetBrowserOnTab, ReplayReads, ReplayFinds, TabsTypeOK
    <2>4. spinning' \subseteq Lookers
      BY <1>0, <1>10 DEF WaitFirstInit, GetBrowserOnTab, ReplayReads, ReplayFinds, TabsTypeOK
    <2>5. found' \in [sel: 0..MaxPopups + 1, page: 0..MaxPopups]
      <3>1. [sel |-> sel, page |-> pages[sel]] \in [sel: 0..MaxPopups + 1, page: 0..MaxPopups]
        OBVIOUS
      <3>2. NoTab \in [sel: 0..MaxPopups + 1, page: 0..MaxPopups]
        BY DEF NoTab
      <3> QED
        BY <1>0, <1>10, <3>1, <3>2 DEF WaitFirstInit, GetBrowserOnTab, ReplayReads, ReplayFinds, TabsTypeOK
    <2>6. TabsTypeOK'
      BY <1>0, <2>1, <2>3, <2>4, <2>5 DEF TabsTypeOK, Browsers
    <2> QED
      BY <1>0, <1>10, <2>1, <2>6, NotebookKept, TabsTyped
  <1>11. CASE UNCHANGED vars
    BY <1>0, <1>11, LifeOnlyTyped DEF vars, tabVars, talkVars, lifeVars, TypeOK, TabsTypeOK
  <1>12. CASE UNCHANGED lifeVars /\ OnBeforePopup
    <2>1. /\ popups' = popups + 1 /\ popups < MaxPopups /\ waiting' = TRUE
          /\ pending' = pending \cup {popups + 1} /\ UNCHANGED <<pages, answered, taking, granted>>
      BY <1>12 DEF OnBeforePopup, RequestTab
    <2>2. Cardinality(pending') = Cardinality(pending) + 1
      <3>1. popups + 1 \notin pending
        BY <1>0 DEF NotebookTyped
      <3> QED
        BY <2>1, <3>1, FS_AddElement
    <2>3. Len(pages') + Cardinality(pending') <= popups' + 1
      BY <1>0, <2>1, <2>2 DEF NotebookTyped
    <2>4. popups' \in 0..MaxPopups /\ pending' \subseteq 1..popups'
      BY <1>0, <2>1 DEF NotebookTyped
    <2>5. NotebookTyped'
      BY <1>0, <2>1, <2>3, <2>4 DEF NotebookTyped, NoPage
    <2>6. TabsTypeOK'
      BY <1>0, <1>12, <2>1 DEF OnBeforePopup, TabsTypeOK, tabVars, mapVars, hookVars, talkVars, Browsers
    <2> QED
      BY <1>0, <1>12, <2>5, <2>6, TabsTyped DEF OnBeforePopup, tabVars, mapVars
  <1>13. CASE UNCHANGED lifeVars /\ PopupAllowed
    <2>1. /\ taking = "got" /\ UNCHANGED <<pages, pending, popups, answered, granted>>
          /\ \/ taking' = "no" /\ waiting' = FALSE
             \/ taking' = "gone" /\ waiting' = waiting
      BY <1>13 DEF PopupAllowed, GrantTab
    <2>3. NotebookTyped'
      BY <1>0, <2>1 DEF NotebookTyped, NoPage
    <2>4. creating' \subseteq Browsers /\ failed' \in {"no", "assert", "frame", "dangling"}
      BY <1>0, <1>13 DEF PopupAllowed, Browsers, TabsTypeOK, NotebookTyped
    <2>5. UNCHANGED <<sel, open, dying, browser_map, first_init, ui, hookVars, spinning, found,
                      misled, unrest>>
      BY <1>13 DEF PopupAllowed
    <2>6. TabsTypeOK'
      BY <1>0, <2>1, <2>4, <2>5 DEF TabsTypeOK, hookVars, Browsers
    <2> QED
      BY <1>0, <1>13, <2>3, <2>5, <2>6, TabsTyped
  <1>20. CASE UNCHANGED lifeVars /\ PopupCounts
    <2>1. /\ waiting /\ answered' = FALSE /\ taking' = "counted"
          /\ UNCHANGED <<pages, pending, popups, waiting, granted, tabVars>>
      BY <1>20 DEF PopupCounts, CountTabs
    <2>2. NotebookTyped'
      BY <1>0, <2>1 DEF NotebookTyped, NoPage
    <2>3. TabsTypeOK'
      BY <1>0, <2>1 DEF TabsTypeOK, tabVars, mapVars, hookVars, talkVars, Browsers
    <2> QED
      BY <1>0, <1>20, <2>1, <2>2, <2>3, TabsTyped DEF tabVars, mapVars
  <1>21. CASE UNCHANGED lifeVars /\ PopupGets
    <2>1. /\ taking = "counted" /\ taking' \in {"got", "gone"}
          /\ UNCHANGED <<pages, pending, popups, waiting, answered>>
          /\ \/ index \in 1..Len(pages) /\ granted' = [granted EXCEPT ![popups] = pages[index]]
             \/ granted' = granted
      BY <1>21 DEF PopupGets, GetTab
    <2>2. granted' \in [1..MaxPopups -> 0..NoPage]
      <3>1. granted \in [1..MaxPopups -> 0..NoPage] /\ \A i \in 1..Len(pages) : pages[i] \in 0..NoPage
        BY <1>0 DEF NotebookTyped, NoPage
      <3> QED
        BY <2>1, <3>1
    <2>3. NotebookTyped'
      BY <1>0, <2>1, <2>2 DEF NotebookTyped, NoPage
    <2>4. /\ failed' \in {"no", "assert", "frame", "dangling"}
          /\ UNCHANGED <<sel, mapVars, hookVars, spinning, found, misled, unrest>>
      BY <1>0, <1>21 DEF PopupGets, TabsTypeOK
    <2>5. TabsTypeOK'
      BY <1>0, <2>1, <2>4 DEF TabsTypeOK, mapVars, hookVars, Browsers
    <2> QED
      BY <1>0, <1>21, <2>3, <2>4, <2>5, TabsTyped DEF mapVars
  <1>14. CASE UNCHANGED lifeVars /\ PopupRefused
    <2>1. /\ ~answered /\ taking = "no" /\ waiting' = FALSE
          /\ UNCHANGED <<pages, pending, popups, answered, taking, granted, tabVars>>
      BY <1>14 DEF PopupRefused, RefuseTab
    <2>2. NotebookTyped'
      BY <1>0, <2>1 DEF NotebookTyped, NoPage
    <2>3. TabsTypeOK'
      BY <1>0, <2>1 DEF TabsTypeOK, tabVars, mapVars, hookVars, talkVars, Browsers
    <2> QED
      BY <1>0, <1>14, <2>1, <2>2, <2>3, TabsTyped DEF tabVars, mapVars
  <1>15. CASE UNCHANGED lifeVars /\ InsertBrowser
    <2>1. UNCHANGED <<notebookVars, sel, creating, open, dying, first_init, hookVars, talkVars, unrest>>
          /\ ui.at = "insert"
      BY <1>15 DEF InsertBrowser
    <2>2. browser_map' = [i \in DOMAIN browser_map \cup {ui.sel} |->
                            IF i \in DOMAIN browser_map THEN browser_map[i] ELSE ui.b]
      BY <1>15 DEF InsertBrowser
    <2>3. ui.b \in Browsers /\ ui.sel \in 1..(MaxPopups + 1)
      BY <1>0, <2>1 DEF TabsTypeOK
    <2>4. /\ DOMAIN browser_map' \subseteq 1..(MaxPopups + 1)
          /\ \A i \in DOMAIN browser_map' : browser_map'[i] \in Browsers
      BY <1>0, <2>2, <2>3 DEF TabsTypeOK
    <2>5. ui' \in Types /\ ui'.at # "insert"
      BY <1>0, <1>1, <1>15 DEF InsertBrowser, TabsTypeOK
    <2>6. TabsTypeOK'
      BY <1>0, <2>1, <2>4, <2>5 DEF TabsTypeOK, notebookVars, hookVars, talkVars, Browsers
    <2> QED
      BY <1>0, <1>15, <2>1, <2>5, <2>6, NotebookKept, TabsTyped
  <1>16. CASE UNCHANGED lifeVars /\ (SetCefThread \/ QueueInitHook)
    <2>1. UNCHANGED <<notebookVars, sel, creating, open, dying, browser_map, hooks, talkVars, unrest>>
      BY <1>16 DEF SetCefThread, QueueInitHook
    <2>2. cef_thread_id' \in BOOLEAN /\ first_init' \in BOOLEAN
      BY <1>0, <1>16, Zenon DEF SetCefThread, QueueInitHook, TabsTypeOK
    <2>5. hookEvents' \in Nat
      BY <1>0, <1>16 DEF SetCefThread, QueueInitHook, TabsTypeOK
    <2>3. ui' \in Types /\ ui'.at # "insert"
      BY <1>0, <1>1, <1>16 DEF SetCefThread, QueueInitHook, TabsTypeOK
    <2>4. TabsTypeOK'
      BY <1>0, <2>1, <2>2, <2>3, <2>5 DEF TabsTypeOK, notebookVars, talkVars, Browsers
    <2> QED
      BY <1>0, <1>16, <2>1, <2>3, <2>4, NotebookKept, TabsTyped
  <1>17. ASSUME UNCHANGED lifeVars, NEW b \in Browsers, OnAfterCreated(b) PROVE Typed'
    <2>1. /\ UNCHANGED <<notebookVars, sel, dying, browser_map, first_init, hookVars, talkVars, unrest>>
          /\ creating' \subseteq creating /\ open' = open \cup {b}
          /\ ui' = [at |-> "insert", b |-> b, sel |-> sel]
      BY <1>17 DEF OnAfterCreated
    <2>2. ui' \in Types /\ ui'.sel > 0
      BY <2>1
    <2>3. TabsTypeOK'
      BY <1>0, <2>1, <2>2 DEF TabsTypeOK, notebookVars, hookVars, talkVars, Browsers
    <2> QED
      BY <1>0, <1>17, <2>1, <2>2, <2>3, NotebookKept, TabsTyped
  <1>18. ASSUME UNCHANGED lifeVars, NEW b \in Browsers, OnBeforeClose(b) PROVE Typed'
    <2>1. /\ UNCHANGED <<notebookVars, sel, creating, first_init, ui, hookVars, talkVars, unrest>>
          /\ open' = open \ {b} /\ dying' = dying \ {b}
          /\ browser_map' = [i \in {j \in DOMAIN browser_map : browser_map[j] # b} |-> browser_map[i]]
      BY <1>18 DEF OnBeforeClose
    <2>2. /\ DOMAIN browser_map' \subseteq DOMAIN browser_map
          /\ \A i \in DOMAIN browser_map' : browser_map'[i] = browser_map[i]
      BY <2>1
    <2>3. TabsTypeOK'
      BY <1>0, <2>1, <2>2 DEF TabsTypeOK, notebookVars, hookVars, talkVars, Browsers
    <2> QED
      BY <1>0, <1>18, <2>1, <2>3, NotebookKept, TabsTyped
  <1>19. MainStep => Typed'
    BY <1>3, <1>4, <1>5, <1>6, <1>7, <1>8, <1>9, <1>10, <1>11 DEF MainStep
  <1> QED
    BY <1>2, <1>12, <1>13, <1>14, <1>15, <1>16, <1>17, <1>18, <1>19, <1>20, <1>21, StepKinds

\* In every behaviour the variables of tabs and program have their types.
THEOREM TypeCorrect == LifeSpec => []TypeOK
  <1>1. Typed => TypeOK
    BY DEF Typed
  <1> QED
    BY <1>1, TypedInit, TypedStep, PTL DEF LifeSpec

-----------------------------------------------------------------------------
(***************************************************************************)
(* The tabs while they are calm.                                           *)
(***************************************************************************)
\* Every page was made for another popup, one that no longer waits for it; and so
\* was every page a popup was given.
PagesInv ==
  /\ \A i, j \in 1..Len(pages) : pages[i] = pages[j] => i = j
  /\ \A i \in 1..Len(pages) : pages[i] <= popups /\ pages[i] \notin pending
  /\ \A q \in 1..MaxPopups : granted[q] # NoPage => granted[q] <= popups /\ granted[q] \notin pending

\* Until the first browser is there nothing else is, and when first_init is set
\* its OnAfterCreated is over.
FirstInv ==
  /\ phase = "ctor" \/ First \in creating =>
       open = {} /\ ~first_init /\ ui = NoHandler /\ popups = 0
  /\ first_init /\ ui # NoHandler => ui.b # First
  /\ ui.at = "none" => ui = NoHandler
  /\ found # NoTab => first_init

\* While the tabs are calm: the browser that is being made is that of the selected
\* tab, the one still to be asked for will be, and no two share a tab ...
NewSelected ==
  /\ answered \/ taking # "no" =>
       creating = {} /\ sel = Len(pages) /\ \A b \in open : Host(b) # pages[sel]
  /\ taking = "counted" => index = Len(pages)
  /\ taking = "got" => granted[popups] = pages[Len(pages)]
  /\ taking # "gone"
  /\ \A b \in creating : Host(b) = pages[sel]
OnePageEach == \A b, c \in creating \cup open : Host(b) = Host(c) => b = c

\* ... an entry of the map, made or about to be, has the index of the browser's
\* tab, or an index no tab has and a browser that dies ...
RightAt(s, b) == IF s <= Len(pages) THEN pages[s] = Host(b) ELSE b \in dying
EntriesRight ==
  /\ \A i \in DOMAIN browser_map : RightAt(i, browser_map[i])
  /\ ui.at = "insert" => RightAt(ui.sel, ui.b)

\* ... every browser has its entry, but for the one that is about to get it ...
AllListed ==
  \A b \in open \ dying : ~(ui.at = "insert" /\ ui.b = b) =>
    \E i \in DOMAIN browser_map : browser_map[i] = b

\* ... and what a replay has read of the tabs is still so.
FoundRight == found # NoTab => found.sel \in 1..Len(pages) /\ pages[found.sel] = found.page

Calm == /\ NewSelected /\ OnePageEach /\ EntriesRight /\ AllListed /\ FoundRight
        /\ ~misled /\ ~missed
CalmInv == ~unrest => Calm

LifeInv == Typed /\ MapInv /\ PagesInv /\ FirstInv /\ CalmInv

\* The three parts hold at the start.
LEMMA CalmInit == LifeInit => PagesInv /\ FirstInv /\ CalmInv
  <1> SUFFICES ASSUME LifeInit PROVE PagesInv /\ FirstInv /\ CalmInv
    OBVIOUS
  <1>1. pages = <<0>> /\ pending = {} /\ popups = 0 /\ ~answered /\ taking = "no"
        /\ granted = [p \in 1..MaxPopups |-> NoPage]
    BY DEF LifeInit, TabsInit, Init
  <1>2. Len(pages) = 1 /\ pages[1] = 0
    BY <1>1
  <1>3. PagesInv
    BY <1>1, <1>2 DEF PagesInv
  <1>4. creating = {} /\ open = {} /\ DOMAIN browser_map = {} /\ ui = NoHandler
        /\ ~first_init /\ found = NoTab /\ ~misled /\ ~missed
    BY DEF LifeInit, TabsInit
  <1>5. ui.at = "none"
    BY <1>4 DEF NoHandler
  <1>6. FirstInv
    BY <1>1, <1>4, <1>5 DEF FirstInv
  <1>7. CalmInv
    BY <1>1, <1>4, <1>5 DEF CalmInv, Calm, NewSelected, OnePageEach, EntriesRight, AllListed,
       FoundRight
  <1> QED
    BY <1>3, <1>6, <1>7

-----------------------------------------------------------------------------
\* Only a popup that still waits for its page gets a new one, and closing a tab
\* takes a page out.
LEMMA PagesStep ==
  ASSUME Typed, PagesInv, [LifeNext]_vars
  PROVE  PagesInv'
  <1> USE PageFacts
  <1>0. NotebookTyped
    BY DEF Typed
  <1>1. CASE UNCHANGED <<pages, popups, granted>> /\ pending' \subseteq pending
    BY <1>1 DEF PagesInv, NoPage
  <1>2. CASE OnBeforePopup
    <2>1. /\ popups' = popups + 1 /\ pending' = pending \cup {popups + 1}
          /\ UNCHANGED <<pages, granted>>
      BY <1>2 DEF OnBeforePopup, RequestTab
    <2>2. granted \in [1..MaxPopups -> 0..NoPage]
      BY <1>0 DEF NotebookTyped
    <2>3. \A i \in 1..Len(pages) : pages[i] <= popups' /\ pages[i] \notin pending'
      BY <2>1 DEF PagesInv
    <2>4. \A q \in 1..MaxPopups : granted[q] # NoPage => granted[q] <= popups' /\ granted[q] \notin pending'
      <3> SUFFICES ASSUME NEW q \in 1..MaxPopups, granted[q] # NoPage
                   PROVE  granted[q] <= popups' /\ granted[q] \notin pending'
        OBVIOUS
      <3>1. granted[q] \in Nat /\ granted[q] <= popups /\ granted[q] \notin pending
        BY <2>2 DEF PagesInv, NoPage
      <3> QED
        BY <2>1, <3>1
    <2> QED
      BY <2>1, <2>3, <2>4 DEF PagesInv, NoPage
  <1>3. CASE PopupGets
    <2>1. /\ UNCHANGED <<pages, popups, pending>>
          /\ \/ index \in 1..Len(pages) /\ granted' = [granted EXCEPT ![popups] = pages[index]]
             \/ granted' = granted
      BY <1>3 DEF PopupGets, GetTab
    <2>2. granted \in [1..MaxPopups -> 0..NoPage]
      BY <1>0 DEF NotebookTyped
    <2>3. \A q \in 1..MaxPopups :
            granted'[q] = granted[q] \/ \E i \in 1..Len(pages) : granted'[q] = pages[i]
      BY <2>1, <2>2
    <2> QED
      BY <2>1, <2>3 DEF PagesInv, NoPage
  <1>4. ASSUME NEW p \in 1..MaxPopups, AddTab(p) PROVE PagesInv'
    <2>1. /\ p \in pending /\ pages' = Append(pages, p) /\ pending' = pending \ {p}
          /\ UNCHANGED <<popups, granted>>
      BY <1>4 DEF AddTab
    <2>2. /\ Len(pages') = Len(pages) + 1 /\ pages'[Len(pages) + 1] = p
          /\ \A i \in 1..Len(pages) : pages'[i] = pages[i]
      BY <1>0, <2>1 DEF NotebookTyped
    <2>3. p <= popups /\ p \in Nat
      BY <1>0, <2>1 DEF NotebookTyped
    <2> QED
      BY <2>1, <2>2, <2>3 DEF PagesInv, NoPage
  <1>5. CASE OnCloseTab
    <2>1. CloseTab(sel)
      BY <1>5 DEF OnCloseTab
    <2>2. UNCHANGED <<popups, pending, granted>>
      BY <2>1 DEF CloseTab
    <2>3. /\ Len(pages') = Len(pages) - 1
          /\ \A i \in 1..Len(pages') : pages'[i] = IF i < sel THEN pages[i] ELSE pages[i + 1]
      BY <2>1, CloseTabTyped
    <2>4. \A i \in 1..Len(pages') :
            \E k \in 1..Len(pages) : pages'[i] = pages[k] /\ k = IF i < sel THEN i ELSE i + 1
      BY <2>3
    <2>5. \A i, j \in 1..Len(pages') : pages'[i] = pages'[j] => i = j
      <3> SUFFICES ASSUME NEW i \in 1..Len(pages'), NEW j \in 1..Len(pages'), pages'[i] = pages'[j]
                   PROVE  i = j
        OBVIOUS
      <3>1. PICK k \in 1..Len(pages) : pages'[i] = pages[k] /\ k = IF i < sel THEN i ELSE i + 1
        BY <2>4
      <3>2. PICK m \in 1..Len(pages) : pages'[j] = pages[m] /\ m = IF j < sel THEN j ELSE j + 1
        BY <2>4
      <3>3. k = m
        BY <3>1, <3>2 DEF PagesInv
      <3> QED
        BY <2>3, <3>1, <3>2, <3>3
    <2>6. \A i \in 1..Len(pages') : pages'[i] <= popups /\ pages'[i] \notin pending
      BY <2>4 DEF PagesInv
    <2> QED
      BY <2>2, <2>5, <2>6 DEF PagesInv, NoPage
  <1>6. CASE MainStep
    <2> USE DEF notebookVars, tabVars, mapVars, hookVars, talkVars
    <2>1. CASE LoadCommandLineScript \/ InitWebsocketServer \/ AssignMainFrame \/ OnClose \/ OnExit
               \/ UNCHANGED vars
      BY <1>1, <2>1 DEF LoadCommandLineScript, InitWebsocketServer, AssignMainFrame, OnClose, OnExit,
         vars
    <2>2. CASE CloseAllBrowsers \/ UseNoFrame \/ \E b \in Browsers : DoClose(b)
      BY <1>1, <2>2 DEF CloseAllBrowsers, UseNoFrame, DoClose
    <2>3. CASE DeleteFrame
      BY <1>1, <2>3 DEF DeleteFrame
    <2>4. CASE (\E s \in 1..Len(pages) : SelectTab(s)) \/ InitHooks
      BY <1>1, <2>4 DEF SelectTab, InitHooks
    <2>5. CASE \/ \E w \in Lookers : WaitFirstInit(w)
               \/ GetBrowserOnTab \/ ReplayReads \/ ReplayFinds
      BY <1>1, <2>5 DEF WaitFirstInit, GetBrowserOnTab, ReplayReads, ReplayFinds
    <2> QED
      BY <1>4, <1>5, <1>6, <2>1, <2>2, <2>3, <2>4, <2>5 DEF MainStep, AddTabWorker
  <1>7. CASE \/ PopupCounts \/ PopupAllowed \/ PopupRefused \/ StartBrowserOnTab \/ InsertBrowser
             \/ SetCefThread \/ QueueInitHook
             \/ \E b \in Browsers : OnAfterCreated(b) \/ OnBeforeClose(b)
    <2>1. UNCHANGED <<pages, popups, granted, pending>>
      BY <1>7 DEF PopupCounts, CountTabs, PopupAllowed, GrantTab, PopupRefused, RefuseTab,
         StartBrowserOnTab, InsertBrowser, SetCefThread,
         QueueInitHook, OnAfterCreated, OnBeforeClose, notebookVars
    <2> QED
      BY <1>1, <2>1
  <1> QED
    BY <1>2, <1>3, <1>6, <1>7, StepKinds

\* The first browser is asked for before there is a popup, and its handler is the
\* one that sets first_init.
LEMMA FirstStep ==
  ASSUME Typed, MapInv, FirstInv, [LifeNext]_vars
  PROVE  FirstInv'
  <1> USE PageFacts DEF FirstInv
  <1>0. UiTyped /\ AskedOnce /\ ListInv
    BY DEF MapInv
  <1>1. NoHandler.at = "none"
    BY DEF NoHandler
  <1>2. CASE /\ UNCHANGED <<open, first_init, ui, popups>>
             /\ creating' \subseteq creating
             /\ phase' = "ctor" => phase = "ctor"
             /\ found' # NoTab => first_init
    BY <1>2
  <1>3. CASE MainStep
    <2>1. MapKept
      BY <1>3, MainStepKeeps
    <2>2. UNCHANGED first_init /\ (found' # NoTab => first_init)
      <3> USE DEF notebookVars, tabVars, mapVars, hookVars, talkVars
      <3>1. CASE LoadCommandLineScript \/ InitWebsocketServer \/ AssignMainFrame \/ OnClose \/ OnExit
                 \/ UNCHANGED vars
        BY <3>1 DEF LoadCommandLineScript, InitWebsocketServer, AssignMainFrame, OnClose, OnExit, vars
      <3>2. CASE CloseAllBrowsers \/ UseNoFrame \/ DeleteFrame \/ \E b \in Browsers : DoClose(b)
        BY <3>2 DEF CloseAllBrowsers, UseNoFrame, DoClose, DeleteFrame
      <3>3. CASE \/ \E p \in 1..MaxPopups : AddTabWorker(p)
                 \/ \E s \in 1..Len(pages) : SelectTab(s)
                 \/ OnCloseTab \/ InitHooks
        BY <3>3 DEF AddTabWorker, SelectTab, OnCloseTab, InitHooks
      <3>4. CASE \/ \E w \in Lookers : WaitFirstInit(w)
                 \/ GetBrowserOnTab \/ ReplayReads \/ ReplayFinds
        BY <3>4 DEF WaitFirstInit, GetBrowserOnTab, ReplayReads, ReplayFinds
      <3> QED
        BY <1>3, <3>1, <3>2, <3>3, <3>4 DEF MainStep
    <2> QED
      BY <1>2, <2>1, <2>2 DEF MapKept
  <1>4. CASE StartBrowserOnTab
    BY <1>4 DEF StartBrowserOnTab, talkVars, notebookVars
  <1>5. CASE UNCHANGED lifeVars /\ OnBeforePopup
    BY <1>5 DEF OnBeforePopup, tabVars, mapVars, talkVars, lifeVars
  <1>6. CASE UNCHANGED lifeVars /\ PopupAllowed
    <2>1. taking = "got" /\ creating' \subseteq creating \cup {popups}
          /\ UNCHANGED <<open, first_init, ui, found, popups>> /\ UNCHANGED phase
      BY <1>6 DEF PopupAllowed, GrantTab, lifeVars
    <2>2. popups # First
      BY <2>1 DEF Typed, NotebookTyped, First
    <2> QED
      BY <2>1, <2>2
  <1>7. CASE UNCHANGED lifeVars /\ (PopupRefused \/ PopupCounts \/ PopupGets)
    BY <1>7 DEF PopupRefused, RefuseTab, PopupCounts, CountTabs, PopupGets, GetTab, tabVars, mapVars,
                talkVars, lifeVars
  <1>8. CASE UNCHANGED lifeVars /\ InsertBrowser
    <2>1. UNCHANGED <<open, first_init, creating, popups, phase, found>> /\ ui.at = "insert"
      BY <1>8 DEF InsertBrowser, notebookVars, talkVars, lifeVars
    <2>2. \/ first_init /\ ui' = NoHandler
          \/ ~first_init /\ ui'.at = "thread"
      BY <1>0, <1>8 DEF InsertBrowser, UiTyped
    <2> QED
      BY <1>1, <2>1, <2>2
  <1>9. CASE UNCHANGED lifeVars /\ SetCefThread
    <2>1. UNCHANGED <<open, first_init, creating, popups, phase, found>> /\ ui.at = "thread"
      BY <1>9 DEF SetCefThread, notebookVars, talkVars, lifeVars
    <2>2. ui'.at = "hook" /\ ui'.b = ui.b
      BY <1>0, <1>9 DEF SetCefThread, UiTyped
    <2> QED
      BY <1>1, <2>1, <2>2
  <1>10. CASE UNCHANGED lifeVars /\ QueueInitHook
    <2>1. /\ UNCHANGED <<open, creating, popups, phase>> /\ ui.at = "hook"
          /\ ui' = NoHandler /\ first_init' = TRUE
      BY <1>10 DEF QueueInitHook, notebookVars, lifeVars
    <2> QED
      BY <1>1, <2>1
  <1>11. ASSUME UNCHANGED lifeVars, NEW b \in Browsers, OnAfterCreated(b) PROVE FirstInv'
    <2>1. /\ UNCHANGED <<first_init, popups, phase, found>> /\ ui = NoHandler /\ b \in creating
          /\ creating' = creating \ {b} /\ ui' = [at |-> "insert", b |-> b, sel |-> sel]
      BY <1>11 DEF OnAfterCreated, notebookVars, talkVars, lifeVars
    <2>2. phase # "ctor"
      BY <1>0, <2>1 DEF AskedOnce
    <2>3. First \notin creating'
      BY <1>0, <2>1 DEF AskedOnce, First
    <2>4. first_init => b # First
      BY <2>1
    <2> QED
      BY <2>1, <2>2, <2>3, <2>4
  <1>12. ASSUME UNCHANGED lifeVars, NEW b \in Browsers, OnBeforeClose(b) PROVE FirstInv'
    <2>1. /\ UNCHANGED <<creating, first_init, ui, popups, phase, found>> /\ open' = open \ {b}
      BY <1>12 DEF OnBeforeClose, notebookVars, talkVars, lifeVars
    <2> QED
      BY <2>1
  <1> QED
    BY <1>3, <1>4, <1>5, <1>6, <1>7, <1>8, <1>9, <1>10, <1>11, <1>12, StepKinds

\* What calm tabs leave to a lookup: in the map it finds the browser of its page,
\* and where it finds none there is none.
LEMMA FindTabRight ==
  ASSUME Typed, MapInv, PagesInv, FirstInv, Calm, first_init,
         NEW s \in 1..Len(pages), FindTab(s, pages[s])
  PROVE  ~misled'
  <1> USE PageFacts
  <1>0. ~misled
    BY DEF Calm
  <1>1. CASE s \in DOMAIN browser_map
    <2>1. Host(browser_map[s]) = pages[s]
      BY <1>1 DEF Calm, EntriesRight, RightAt
    <2> QED
      BY <1>0, <1>1, <2>1 DEF FindTab
  <1>2. CASE s \notin DOMAIN browser_map
    <2>1. ASSUME NEW b \in Present(pages[s]) PROVE FALSE
      <3>1. /\ b \in open \ dying /\ Host(b) = pages[s]
            /\ b = First \/ ui.b # b \/ ui = NoHandler
        BY <2>1 DEF Present
      <3>2. ~(ui.at = "insert" /\ ui.b = b)
        BY <3>1 DEF FirstInv, NoHandler
      <3>3. PICK i \in DOMAIN browser_map : browser_map[i] = b
        BY <3>1, <3>2 DEF Calm, AllListed
      <3>4. i \in 1..(MaxPopups + 1)
        BY DEF Typed, TypeOK, TabsTypeOK
      <3>5. i <= Len(pages) /\ pages[i] = Host(b)
        BY <3>1, <3>3 DEF Calm, EntriesRight, RightAt
      <3>6. i = s
        BY <3>1, <3>4, <3>5 DEF PagesInv
      <3> QED
        BY <1>2, <3>6
    <2>2. Present(pages[s]) = {}
      BY <2>1
    <2> QED
      BY <1>0, <1>2, <2>2 DEF FindTab
  <1> QED
    BY <1>1, <1>2

\* What the steps that do not concern the tabs or their browsers leave alone.
CalmKept ==
  UNCHANGED <<pages, popups, answered, taking, index, granted, sel, mapVars, found, misled, missed>>

\* They keep the tabs calm.
LEMMA CalmKeptRight == Calm /\ CalmKept => Calm'
  BY DEF Calm, CalmKept, mapVars, NewSelected, OnePageEach, EntriesRight, AllListed, FoundRight,
     RightAt, Host

\* The steps of the notebook: a new page is nobody's yet, and only the last one is
\* closed.
LEMMA TabsSteps ==
  ASSUME Typed, MapInv, PagesInv, FirstInv, Calm, ~unrest', UNCHANGED lifeVars
  PROVE  /\ \A p \in 1..MaxPopups : AddTabWorker(p) => Calm'
         /\ \A s \in 1..Len(pages) : SelectTab(s) => Calm'
         /\ OnCloseTab => Calm'
         /\ PopupCounts => Calm'
         /\ PopupGets => Calm'
         /\ PopupAllowed => Calm'
         /\ OnBeforePopup \/ PopupRefused => Calm'
  <1> USE PageFacts DEF lifeVars
  <1>0. NewSelected /\ OnePageEach /\ EntriesRight /\ AllListed /\ FoundRight /\ ~misled /\ ~missed
    BY DEF Calm
  <1>1. TabsTypeOK /\ NotebookTyped /\ AskedOnce /\ ListInv /\ NoGoneBrowserListed
    BY DEF Typed, TypeOK, MapInv, ListInv
  <1>2. \A b \in open : b \in 0..MaxPopups /\ b <= popups
    BY <1>1 DEF AskedOnce, NotebookTyped
  <1>3. /\ \A i \in DOMAIN browser_map : i \in 1..(MaxPopups + 1) /\ browser_map[i] \in open
        /\ ui.at = "insert" => ui.sel \in 1..(MaxPopups + 1) /\ ui.b \in open
    BY <1>1 DEF TabsTypeOK, ListInv, NoGoneBrowserListed, Typed
  <1>4. ASSUME NEW p \in 1..MaxPopups, AddTabWorker(p) PROVE Calm'
    <2>1. /\ p \in pending /\ pages' = Append(pages, p) /\ sel' = Len(pages) + 1
          /\ UNCHANGED <<taking, granted, mapVars, found, misled>>
          /\ ~Unsettled /\ dying = {}
      BY <1>4 DEF AddTabWorker, AddTab, talkVars
    <2>2. ~answered /\ taking = "no" /\ creating = {}
      BY <2>1 DEF Unsettled
    <2>3. /\ Len(pages') = Len(pages) + 1 /\ pages'[sel'] = p
          /\ \A i \in 1..Len(pages) : pages'[i] = pages[i]
      BY <1>1, <2>1 DEF NotebookTyped
    <2>4. \A b \in open : Host(b) # p /\ Host(b)' = Host(b)
      <3>1. \A q \in 1..MaxPopups : granted[q] # p
        BY <2>1 DEF PagesInv, NoPage
      <3> QED
        BY <1>2, <2>1, <3>1 DEF Host, First
    <2>5. NewSelected'
      BY <2>1, <2>2, <2>3, <2>4 DEF NewSelected, mapVars
    <2>6. OnePageEach' /\ AllListed'
      BY <1>0, <2>1, <2>2, <2>4 DEF OnePageEach, AllListed, mapVars
    <2>7. EntriesRight'
      BY <1>0, <1>3, <2>1, <2>3, <2>4 DEF EntriesRight, RightAt, mapVars
    <2>8. FoundRight'
      BY <1>0, <2>1, <2>3 DEF FoundRight
    <2> QED
      BY <1>0, <2>1, <2>5, <2>6, <2>7, <2>8 DEF Calm
  <1>5. ASSUME NEW s \in 1..Len(pages), SelectTab(s) PROVE Calm'
    <2>1. /\ UNCHANGED <<pages, granted, answered, taking, mapVars, found, misled>> /\ ~Unsettled
      BY <1>5 DEF SelectTab, notebookVars, talkVars
    <2>2. ~answered /\ taking = "no" /\ creating = {}
      BY <2>1 DEF Unsettled
    <2>3. NewSelected'
      BY <2>1, <2>2 DEF NewSelected, mapVars
    <2>4. OnePageEach' /\ AllListed' /\ EntriesRight' /\ FoundRight'
      BY <1>0, <2>1 DEF OnePageEach, AllListed, EntriesRight, FoundRight, RightAt, Host, mapVars
    <2> QED
      BY <1>0, <2>1, <2>3, <2>4 DEF Calm
  <1>6. ASSUME OnCloseTab PROVE Calm'
    <2> DEFINE lost == {b \in Browsers : Host(b) = pages[sel]}
    <2>1. /\ CloseTab(sel) /\ creating' = creating \ lost /\ dying' = dying \cup (open \cap lost)
          /\ UNCHANGED <<open, browser_map, ui, found, misled>>
          /\ ~Unsettled /\ ~(sel < Len(pages)) /\ found = NoTab
      BY <1>6 DEF OnCloseTab, talkVars
    <2>2. ~answered /\ ~answered' /\ creating = {} /\ creating' = {} /\ UNCHANGED granted
          /\ taking = "no" /\ taking' = "no"
      BY <2>1 DEF Unsettled, CloseTab
    <2>3. /\ sel = Len(pages) /\ Len(pages') = Len(pages) - 1
          /\ \A i \in 1..Len(pages') : pages'[i] = pages[i]
      BY <2>1, CloseTabTyped
    <2>4. NewSelected' /\ FoundRight'
      BY <2>1, <2>2 DEF NewSelected, FoundRight
    <2>5. OnePageEach' /\ AllListed'
      BY <1>0, <2>1, <2>2 DEF OnePageEach, AllListed, Host
    <2>6. \A i \in 1..(MaxPopups + 1), b \in open : RightAt(i, b) => RightAt(i, b)'
      <3> SUFFICES ASSUME NEW i \in 1..(MaxPopups + 1), NEW b \in open, RightAt(i, b)
                   PROVE  RightAt(i, b)'
        OBVIOUS
      <3>1. Host(b)' = Host(b) /\ b \in Browsers
        BY <1>2, <2>2 DEF Host, Browsers
      <3>2. CASE i <= Len(pages')
        BY <2>3, <3>1, <3>2 DEF RightAt
      <3>3. CASE i = Len(pages)
        BY <2>1, <2>3, <3>1, <3>3 DEF RightAt
      <3>4. CASE i > Len(pages)
        BY <2>1, <2>3, <3>4 DEF RightAt
      <3> QED
        BY <2>3, <3>2, <3>3, <3>4
    <2>7. EntriesRight'
      BY <1>0, <1>3, <2>1, <2>6 DEF EntriesRight
    <2> QED
      BY <1>0, <2>1, <2>4, <2>5, <2>7 DEF Calm
  <1>9. ASSUME PopupCounts PROVE Calm'
    <2>1. /\ answered /\ ~answered' /\ taking' = "counted" /\ index' = Len(pages)
          /\ UNCHANGED <<pages, popups, granted, sel, mapVars, found, misled>>
      BY <1>9 DEF PopupCounts, CountTabs, tabVars, talkVars
    <2>2. NewSelected'
      BY <1>0, <2>1 DEF NewSelected, Host, mapVars
    <2>3. OnePageEach' /\ AllListed' /\ EntriesRight' /\ FoundRight'
      BY <1>0, <2>1 DEF OnePageEach, AllListed, EntriesRight, FoundRight, RightAt, Host, mapVars
    <2> QED
      BY <1>0, <2>1, <2>2, <2>3 DEF Calm
  <1>7. ASSUME PopupGets PROVE Calm'
    <2>1. taking = "counted" /\ UNCHANGED <<pages, popups, answered, sel, mapVars, found, misled>>
      BY <1>7 DEF PopupGets, GetTab
    <2>2. /\ creating = {} /\ sel = Len(pages) /\ \A b \in open : Host(b) # pages[sel]
          /\ index = Len(pages) /\ index \in 1..Len(pages)
      BY <1>0, <2>1 DEF NewSelected
    <2>3. granted' = [granted EXCEPT ![popups] = pages[Len(pages)]] /\ taking' = "got"
      BY <1>7, <2>2 DEF PopupGets, GetTab
    <2>4. popups \in 1..MaxPopups /\ popups \notin open
      BY <1>1, <2>1 DEF NotebookTyped, AskedOnce
    <2>5. granted'[popups] = pages[sel] /\ \A b \in open : Host(b)' = Host(b)
      <3>1. granted'[popups] = pages[sel] /\ \A b \in open : b # 0 => granted'[b] = granted[b]
        BY <1>1, <1>2, <2>2, <2>3, <2>4 DEF NotebookTyped
      <3> QED
        BY <3>1 DEF Host, First
    <2>6. NewSelected'
      BY <2>1, <2>2, <2>3, <2>5 DEF NewSelected, mapVars
    <2>7. OnePageEach' /\ AllListed' /\ FoundRight'
      BY <1>0, <2>1, <2>2, <2>5 DEF OnePageEach, AllListed, FoundRight, mapVars
    <2>8. EntriesRight'
      BY <1>0, <1>3, <2>1, <2>5 DEF EntriesRight, RightAt, mapVars
    <2> QED
      BY <1>0, <2>1, <2>6, <2>7, <2>8 DEF Calm
  <1>10. ASSUME PopupAllowed PROVE Calm'
    <2>1. taking = "got" /\ UNCHANGED <<pages, popups, answered, index, granted, sel, open, dying>>
          /\ UNCHANGED <<browser_map, ui, found, misled>>
      BY <1>10 DEF PopupAllowed, GrantTab
    <2>2. /\ creating = {} /\ sel = Len(pages) /\ \A b \in open : Host(b) # pages[sel]
          /\ granted[popups] = pages[sel]
      BY <1>0, <2>1 DEF NewSelected
    <2>3. Shown(granted[popups])
      BY <2>2 DEF Shown
    <2>4. taking' = "no" /\ creating' = creating \cup {popups} /\ ~answered'
      BY <1>1, <1>10, <2>1, <2>3 DEF PopupAllowed, GrantTab, NotebookTyped
    <2>5. popups # First
      BY <1>1, <2>1 DEF NotebookTyped, First
    <2>6. NewSelected' /\ OnePageEach'
      BY <1>0, <2>1, <2>2, <2>4, <2>5 DEF NewSelected, OnePageEach, Host
    <2>7. EntriesRight' /\ AllListed' /\ FoundRight'
      BY <1>0, <2>1 DEF EntriesRight, RightAt, AllListed, FoundRight, Host
    <2> QED
      BY <1>0, <2>1, <2>6, <2>7 DEF Calm
  <1>8. ASSUME OnBeforePopup \/ PopupRefused PROVE Calm'
    <2>1. /\ UNCHANGED <<pages, answered, taking, index, granted, sel, mapVars, found, misled>>
          /\ taking = "no"
      BY <1>1, <1>8 DEF OnBeforePopup, RequestTab, PopupRefused, RefuseTab, tabVars, talkVars,
                        NotebookTyped
    <2>2. NewSelected'
      BY <1>0, <2>1 DEF NewSelected, Host, mapVars
    <2>3. OnePageEach' /\ AllListed' /\ EntriesRight' /\ FoundRight'
      BY <1>0, <2>1 DEF OnePageEach, AllListed, EntriesRight, FoundRight, RightAt, Host, mapVars
    <2> QED
      BY <1>0, <2>1, <2>2, <2>3 DEF Calm
  <1> QED
    BY <1>4, <1>5, <1>6, <1>7, <1>8, <1>9, <1>10

\* The steps of a browser: it is listed under the tab that was made for it, or its
\* window is gone.
LEMMA BrowserSteps ==
  ASSUME Typed, MapInv, PagesInv, FirstInv, Calm, UNCHANGED lifeVars
  PROVE  /\ InsertBrowser => Calm'
         /\ SetCefThread \/ QueueInitHook => Calm'
         /\ \A b \in Browsers : OnAfterCreated(b) => Calm'
         /\ \A b \in Browsers : OnBeforeClose(b) => Calm'
  <1> USE PageFacts DEF lifeVars
  <1>0. NewSelected /\ OnePageEach /\ EntriesRight /\ AllListed /\ FoundRight /\ ~misled /\ ~missed
    BY DEF Calm
  <1>1. TabsTypeOK /\ NotebookTyped /\ UiTyped /\ AskedOnce /\ ListInv /\ NoGoneBrowserListed
    BY DEF Typed, TypeOK, MapInv, ListInv
  <1>2. \A i \in DOMAIN browser_map : i \in 1..(MaxPopups + 1) /\ browser_map[i] \in open
    BY <1>1 DEF TabsTypeOK, NoGoneBrowserListed
  <1>3. ASSUME InsertBrowser PROVE Calm'
    <2>1. /\ UNCHANGED <<pages, popups, answered, taking, index, granted>>
          /\ UNCHANGED <<sel, creating, open, dying, found, misled>>
          /\ ui.at = "insert" /\ ui.b \in open /\ RightAt(ui.sel, ui.b)
      BY <1>0, <1>1, <1>3 DEF InsertBrowser, notebookVars, talkVars, ListInv, EntriesRight
    <2>2. browser_map' = [i \in DOMAIN browser_map \cup {ui.sel} |->
                            IF i \in DOMAIN browser_map THEN browser_map[i] ELSE ui.b]
      BY <1>3 DEF InsertBrowser
    <2>3. ui'.at # "insert"
      BY <1>1, <1>3 DEF InsertBrowser, UiTyped, NoHandler
    <2>4. /\ DOMAIN browser_map' = DOMAIN browser_map \cup {ui.sel}
          /\ \A i \in DOMAIN browser_map : browser_map'[i] = browser_map[i]
          /\ ui.sel \notin DOMAIN browser_map => browser_map'[ui.sel] = ui.b
      BY <2>2
    <2>5. EntriesRight'
      BY <1>0, <2>1, <2>3, <2>4 DEF EntriesRight, RightAt, Host
    <2>6. ui.sel \in DOMAIN browser_map => ui.b \in dying
      <3> SUFFICES ASSUME ui.sel \in DOMAIN browser_map, ui.b \notin dying PROVE FALSE
        OBVIOUS
      <3>1. ui.sel <= Len(pages) /\ pages[ui.sel] = Host(ui.b)
        BY <2>1 DEF RightAt
      <3>2. Host(browser_map[ui.sel]) = Host(ui.b)
        BY <1>0, <3>1 DEF EntriesRight, RightAt
      <3>3. browser_map[ui.sel] = ui.b
        BY <1>0, <1>2, <2>1, <3>2 DEF OnePageEach
      <3> QED
        BY <1>1, <2>1, <3>3 DEF ListInv
    <2>7. AllListed'
      <3> SUFFICES ASSUME NEW b \in open \ dying
                   PROVE  \E i \in DOMAIN browser_map' : browser_map'[i] = b
        BY <2>1 DEF AllListed
      <3>1. CASE b = ui.b
        BY <2>4, <2>6, <3>1
      <3>2. CASE b # ui.b
        BY <1>0, <2>4, <3>2 DEF AllListed
      <3> QED
        BY <3>1, <3>2
    <2>8. NewSelected' /\ OnePageEach' /\ FoundRight'
      BY <1>0, <2>1 DEF NewSelected, OnePageEach, FoundRight, Host
    <2> QED
      BY <1>0, <2>1, <2>5, <2>7, <2>8 DEF Calm
  <1>4. ASSUME SetCefThread \/ QueueInitHook PROVE Calm'
    <2>1. /\ UNCHANGED <<pages, popups, answered, taking, index, granted>>
          /\ UNCHANGED <<sel, creating, open, dying, browser_map, found, misled>>
          /\ ui.at # "insert"
      BY <1>4 DEF SetCefThread, QueueInitHook, notebookVars, talkVars
    <2>2. ui'.at # "insert"
      BY <1>1, <1>4 DEF SetCefThread, QueueInitHook, UiTyped, NoHandler
    <2>3. NewSelected' /\ OnePageEach' /\ FoundRight' /\ EntriesRight' /\ AllListed'
      BY <1>0, <2>1, <2>2 DEF NewSelected, OnePageEach, FoundRight, EntriesRight, AllListed, RightAt, Host
    <2> QED
      BY <1>0, <2>1, <2>3 DEF Calm
  <1>5. ASSUME NEW b \in Browsers, OnAfterCreated(b) PROVE Calm'
    <2>1. /\ UNCHANGED <<pages, popups, answered, taking, index, granted>>
          /\ UNCHANGED <<sel, dying, browser_map, found, misled>>
          /\ ui = NoHandler /\ b \in creating
          /\ creating' = creating \ {b} /\ open' = open \cup {b}
          /\ ui' = [at |-> "insert", b |-> b, sel |-> sel]
      BY <1>5 DEF OnAfterCreated, notebookVars, talkVars
    <2>2. ui.at # "insert" /\ ui'.b = b /\ ui'.sel = sel /\ ~answered /\ taking = "no"
      BY <1>0, <2>1 DEF NoHandler, NewSelected
    <2>3. EntriesRight'
      BY <1>0, <2>1, <2>2 DEF EntriesRight, RightAt, Host, NewSelected
    <2>4. AllListed'
      BY <1>0, <2>1, <2>2 DEF AllListed
    <2>5. NewSelected' /\ OnePageEach' /\ FoundRight'
      BY <1>0, <2>1, <2>2 DEF NewSelected, OnePageEach, FoundRight, Host
    <2> QED
      BY <1>0, <2>1, <2>3, <2>4, <2>5 DEF Calm
  <1>6. ASSUME NEW b \in Browsers, OnBeforeClose(b) PROVE Calm'
    <2>1. /\ UNCHANGED <<pages, popups, answered, taking, index, granted>>
          /\ UNCHANGED <<sel, creating, ui, found, misled>>
          /\ ui.at # "insert" /\ open' = open \ {b} /\ dying' = dying \ {b}
          /\ browser_map' =
               [i \in {j \in DOMAIN browser_map : browser_map[j] # b} |-> browser_map[i]]
      BY <1>6 DEF OnBeforeClose, notebookVars, talkVars, NoHandler
    <2>2. /\ \A i \in DOMAIN browser_map' :
               i \in DOMAIN browser_map /\ browser_map'[i] = browser_map[i] /\ browser_map[i] # b
          /\ \A i \in DOMAIN browser_map : browser_map[i] # b =>
               i \in DOMAIN browser_map' /\ browser_map'[i] = browser_map[i]
      BY <2>1
    <2>3. EntriesRight'
      BY <1>0, <2>1, <2>2 DEF EntriesRight, RightAt, Host
    <2>4. AllListed'
      <3> SUFFICES ASSUME NEW c \in open \ dying, c # b
                   PROVE  \E i \in DOMAIN browser_map' : browser_map'[i] = c
        BY <2>1, <1>6 DEF AllListed, OnBeforeClose
      <3>1. PICK i \in DOMAIN browser_map : browser_map[i] = c
        BY <1>0, <2>1 DEF AllListed
      <3> QED
        BY <2>2, <3>1
    <2>5. NewSelected' /\ OnePageEach' /\ FoundRight'
      BY <1>0, <2>1 DEF NewSelected, OnePageEach, FoundRight, Host
    <2> QED
      BY <1>0, <2>1, <2>3, <2>4, <2>5 DEF Calm
  <1> QED
    BY <1>3, <1>4, <1>5, <1>6

\* The steps of the main thread, of replays and of CEF's closing.
LEMMA MainSteps ==
  ASSUME Typed, MapInv, PagesInv, FirstInv, Calm, ~unrest', MainStep
  PROVE  Calm'
  <1> USE PageFacts
  <1>0. NewSelected /\ OnePageEach /\ EntriesRight /\ AllListed /\ FoundRight /\ ~misled /\ ~missed
    BY DEF Calm
  <1>1. CASE LoadCommandLineScript \/ InitWebsocketServer \/ AssignMainFrame \/ OnClose \/ OnExit
             \/ UseNoFrame \/ (\E b \in Browsers : DoClose(b)) \/ UNCHANGED vars
             \/ (UNCHANGED lifeVars /\ (InitHooks \/ \E w \in Lookers : WaitFirstInit(w)))
    <2> USE DEF notebookVars, tabVars, talkVars, lifeVars, CalmKept
    <2>1. CASE LoadCommandLineScript \/ InitWebsocketServer \/ AssignMainFrame \/ OnClose \/ OnExit
      BY <2>1, CalmKeptRight DEF LoadCommandLineScript, InitWebsocketServer, AssignMainFrame, OnClose,
         OnExit
    <2>2. CASE UseNoFrame \/ (\E b \in Browsers : DoClose(b)) \/ UNCHANGED vars
      BY <2>2, CalmKeptRight DEF UseNoFrame, DoClose, vars
    <2>3. CASE UNCHANGED lifeVars /\ (InitHooks \/ \E w \in Lookers : WaitFirstInit(w))
      BY <2>3, CalmKeptRight DEF InitHooks, WaitFirstInit
    <2> QED
      BY <1>1, <2>1, <2>2, <2>3
  <1>2. CASE DeleteFrame
    <2>1. /\ creating' = {} /\ dying' = open
          /\ UNCHANGED <<pages, popups, answered, taking, index, granted>>
          /\ UNCHANGED <<sel, open, browser_map, ui, found, misled, missed>>
      BY <1>2 DEF DeleteFrame, talkVars
    <2>2. \A b \in dying : b \in open
      BY DEF Typed, TypeOK, TabsTypeOK
    <2>3. NewSelected' /\ OnePageEach' /\ FoundRight' /\ AllListed'
      BY <1>0, <2>1 DEF NewSelected, OnePageEach, FoundRight, AllListed, Host
    <2>4. EntriesRight'
      BY <1>0, <2>1, <2>2 DEF EntriesRight, RightAt, Host
    <2> QED
      BY <1>0, <2>1, <2>3, <2>4 DEF Calm
  <1>3. CASE CloseAllBrowsers
    <2>1. /\ UNCHANGED <<notebookVars, tabVars>> /\ ui.at # "insert"
          /\ asked' = asked \cup {browser_map[i] : i \in DOMAIN browser_map}
          /\ missed' = (missed \/ ~(open \ dying \subseteq asked'))
      BY <1>3 DEF CloseAllBrowsers, NoHandler
    <2>2. open \ dying \subseteq asked'
      BY <1>0, <2>1 DEF AllListed
    <2>3. ~missed'
      BY <1>0, <2>1, <2>2
    <2>4. NewSelected' /\ OnePageEach' /\ EntriesRight' /\ AllListed' /\ FoundRight' /\ ~misled'
      BY <1>0, <2>1 DEF NewSelected, OnePageEach, EntriesRight, AllListed, FoundRight, RightAt, Host,
         notebookVars, tabVars, mapVars, talkVars
    <2> QED
      BY <2>3, <2>4 DEF Calm
  <1>4. CASE UNCHANGED lifeVars /\ (GetBrowserOnTab \/ ReplayReads \/ ReplayFinds)
    <2>1. UNCHANGED <<notebookVars, sel, mapVars, missed>>
      BY <1>4 DEF GetBrowserOnTab, ReplayReads, ReplayFinds, lifeVars
    <2>2. ~misled'
      <3>1. CASE GetBrowserOnTab
        BY <3>1, FindTabRight DEF GetBrowserOnTab
      <3>2. CASE ReplayReads
        BY <1>0, <3>2 DEF ReplayReads
      <3>3. CASE ReplayFinds
        <4>1. first_init /\ found.sel \in 1..Len(pages) /\ pages[found.sel] = found.page
          BY <1>0, <3>3 DEF ReplayFinds, FirstInv, FoundRight
        <4> QED
          BY <3>3, <4>1, FindTabRight DEF ReplayFinds
      <3> QED
        BY <1>4, <3>1, <3>2, <3>3
    <2>3. FoundRight'
      BY <1>0, <1>4, <2>1 DEF GetBrowserOnTab, ReplayReads, ReplayFinds, FoundRight, notebookVars
    <2>4. NewSelected' /\ OnePageEach' /\ EntriesRight' /\ AllListed'
      BY <1>0, <2>1 DEF NewSelected, OnePageEach, EntriesRight, AllListed, RightAt, Host, notebookVars,
         mapVars
    <2> QED
      BY <1>0, <2>1, <2>2, <2>3, <2>4 DEF Calm
  <1> QED
    BY <1>1, <1>2, <1>3, <1>4, TabsSteps DEF MainStep

\* Tabs that were not calm never are again.
LEMMA UnrestStays ==
  ASSUME Typed, [LifeNext]_vars, ~unrest'
  PROVE  ~unrest
  <1> USE DEF tabVars, talkVars
  <1>1. CASE MainStep
    <2>1. CASE LoadCommandLineScript \/ InitWebsocketServer \/ AssignMainFrame \/ OnClose \/ OnExit
               \/ UNCHANGED vars
      BY <2>1 DEF LoadCommandLineScript, InitWebsocketServer, AssignMainFrame, OnClose, OnExit, vars
    <2>2. CASE CloseAllBrowsers \/ UseNoFrame \/ DeleteFrame \/ \E b \in Browsers : DoClose(b)
      BY <2>2 DEF CloseAllBrowsers, UseNoFrame, DoClose, DeleteFrame
    <2>3. CASE \/ \E p \in 1..MaxPopups : AddTabWorker(p)
               \/ \E s \in 1..Len(pages) : SelectTab(s)
               \/ OnCloseTab \/ InitHooks
      BY <2>3 DEF AddTabWorker, SelectTab, OnCloseTab, InitHooks
    <2>4. CASE \/ \E w \in Lookers : WaitFirstInit(w)
               \/ GetBrowserOnTab \/ ReplayReads \/ ReplayFinds
      BY <2>4 DEF WaitFirstInit, GetBrowserOnTab, ReplayReads, ReplayFinds
    <2> QED
      BY <1>1, <2>1, <2>2, <2>3, <2>4 DEF MainStep
  <1>2. CASE ~MainStep
    BY <1>2, StepKinds DEF StartBrowserOnTab, OnBeforePopup, PopupCounts, PopupGets, PopupAllowed,
       PopupRefused, InsertBrowser, SetCefThread, QueueInitHook, OnAfterCreated, OnBeforeClose
  <1> QED
    BY <1>1, <1>2

\* Every step of calm tabs that leaves them calm keeps the invariant.
LEMMA CalmStep ==
  ASSUME Typed, MapInv, PagesInv, FirstInv, CalmInv, [LifeNext]_vars
  PROVE  CalmInv'
  <1> USE PageFacts
  <1> SUFFICES ASSUME ~unrest' PROVE Calm'
    BY DEF CalmInv
  <1>1. Calm
    BY UnrestStays DEF CalmInv
  <1>2. CASE MainStep
    BY <1>1, <1>2, MainSteps
  <1>3. CASE StartBrowserOnTab
    <2>1. /\ UNCHANGED <<notebookVars, sel, open, dying, browser_map, ui, found, misled, missed>>
          /\ creating' = {0} /\ phase = "ctor"
      BY <1>3 DEF StartBrowserOnTab, talkVars, First
    <2>2. open = {} /\ popups = 0 /\ Len(pages) = 1
      <3>1. open = {} /\ popups = 0
        BY <2>1 DEF FirstInv
      <3>2. Len(pages) > 0 /\ Len(pages) + Cardinality(pending) <= popups + 1
        BY DEF Typed, NotebookTyped
      <3>3. Len(pages) \in Nat /\ Cardinality(pending) \in Nat
        OBVIOUS
      <3>4. Len(pages) + Cardinality(pending) <= 1
        BY <3>1, <3>2
      <3>5. \A l, c \in Nat : l > 0 /\ l + c <= 1 => l = 1
        OBVIOUS
      <3>6. Len(pages) = 1
        BY ONLY <3>2, <3>3, <3>4, <3>5
      <3> QED
        BY <3>1, <3>6
    <2>6. ~answered /\ taking = "no"
      BY <2>2 DEF Typed, NotebookTyped
    <2>3. pages[sel] = 0
      BY <2>2 DEF PagesInv
    <2>4. NewSelected' /\ OnePageEach'
      BY <2>1, <2>2, <2>3, <2>6 DEF NewSelected, OnePageEach, Host, First, notebookVars
    <2>5. EntriesRight' /\ AllListed' /\ FoundRight' /\ ~misled' /\ ~missed'
      BY <1>1, <2>1 DEF Calm, EntriesRight, AllListed, FoundRight, RightAt, Host, notebookVars
    <2> QED
      BY <2>4, <2>5 DEF Calm
  <1> QED
    BY <1>1, <1>2, <1>3, StepKinds, TabsSteps, BrowserSteps

\* The inductive invariant.
LEMMA LifeInvInit == LifeInit => LifeInv
  BY TypedInit, MapInit, CalmInit DEF LifeInv

LEMMA LifeInvStep == LifeInv /\ [LifeNext]_vars => LifeInv'
  BY TypedStep, MapStep, PagesStep, FirstStep, CalmStep DEF LifeInv

\* In every behaviour every browser of calm tabs is listed under its tab's index.
THEOREM CalmTabsListedCorrect == LifeSpec => []CalmTabsListed
  <1>1. LifeInv => CalmTabsListed
    <2> SUFFICES ASSUME LifeInv, ~unrest, NEW b \in open \ dying, b # ui.b \/ ui = NoHandler
                 PROVE  \E i \in DOMAIN browser_map :
                          browser_map[i] = b /\ i <= Len(pages) /\ pages[i] = Host(b)
      BY DEF CalmTabsListed
    <2>1. ~(ui.at = "insert" /\ ui.b = b)
      BY DEF NoHandler
    <2>2. PICK i \in DOMAIN browser_map : browser_map[i] = b
      BY <2>1 DEF LifeInv, CalmInv, Calm, AllListed
    <2> QED
      BY <2>2 DEF LifeInv, CalmInv, Calm, EntriesRight, RightAt
  <1> QED
    BY <1>1, LifeInvInit, LifeInvStep, PTL DEF LifeSpec

\* In every behaviour a lookup in calm tabs returns the browser of the tab that was
\* selected, and asserts only where there is none.
THEOREM CalmLookupRightCorrect == LifeSpec => []CalmLookupRight
  <1>1. LifeInv => CalmLookupRight
    BY DEF LifeInv, CalmInv, Calm, CalmLookupRight
  <1> QED
    BY <1>1, LifeInvInit, LifeInvStep, PTL DEF LifeSpec

\* In every behaviour CloseAllBrowsers reaches every browser of calm tabs.
THEOREM CalmSweepCompleteCorrect == LifeSpec => []CalmSweepComplete
  <1>1. LifeInv => CalmSweepComplete
    BY DEF LifeInv, CalmInv, Calm, CalmSweepComplete
  <1> QED
    BY <1>1, LifeInvInit, LifeInvStep, PTL DEF LifeSpec
=============================================================================

---------------------------- MODULE BrowserTabs ----------------------------
(***************************************************************************)
(* Which browser a tab has.  SimpleHandler (cef_handler.cpp) keeps          *)
(* browser_map_ from tab index to browser: OnAfterCreated, on the CEF UI    *)
(* thread, lists a new browser under the tab that is selected then,         *)
(* OnBeforeClose removes it, and GetBrowserOnTab, on the main thread and on *)
(* replay threads, looks up the tab that is selected now.  The notebook is  *)
(* the one of Notebook, with its selection; no lock covers any of this.     *)
(*                                                                         *)
(* A browser is named by its popup, the first one 0.  Its window is a child *)
(* of its tab's panel and dies with it; that, and that CEF reports the      *)
(* death in OnBeforeClose, is external (cef_life_span_handler.h).           *)
(***************************************************************************)
EXTENDS Notebook

VARIABLES
  sel,           \* index of the selected tab
  creating,      \* browsers CEF has been asked for and has not created
  open,          \* browsers between OnAfterCreated and OnBeforeClose
  dying,         \* those of them whose window is gone
  browser_map,   \* SimpleHandler::browser_map_
  first_init,    \* SimpleHandler::first_init
  ui,            \* where the CEF UI thread is in OnAfterCreated
  cef_thread_id, \* MainFrame::cef_thread_id has been set
  hookEvents,    \* pending InitHook events
  hooks,         \* how often the Windows hooks were installed
  spinning,      \* threads that wait for first_init in GetBrowserOnTab
  found,         \* what the replay thread has read there: a tab and its page
  failed,        \* how the process ended, or "no"
  misled,        \* history: GetBrowserOnTab missed the browser of its tab
  unrest         \* history: tabs changed when the map could not follow

mapVars  == <<creating, open, dying, browser_map, first_init, ui>>
hookVars == <<cef_thread_id, hookEvents, hooks>>
talkVars == <<spinning, found, failed, misled>>
tabVars  == <<sel, mapVars, hookVars, talkVars, unrest>>

First     == 0
Browsers  == 0..MaxPopups
Lookers   == {"main", "replay"}
NoHandler == [at |-> "none", b |-> First, sel |-> 0]
NoTab     == [sel |-> 0, page |-> 0]

Host(b) == IF b = First THEN 0 ELSE granted[b]

\* The main thread is in its event loop.
MainFree == "main" \notin spinning

\* A tab was added whose browser has not looked at the selection yet.
Unsettled == answered \/ taking # "no" \/ creating # {}

TabsInit ==
  /\ Init
  /\ sel = 1 /\ creating = {} /\ open = {} /\ dying = {}
  /\ browser_map = [i \in {} |-> First]
  /\ first_init = FALSE /\ ui = NoHandler
  /\ cef_thread_id = FALSE /\ hookEvents = 0 /\ hooks = 0
  /\ spinning = {} /\ found = NoTab
  /\ failed = "no" /\ misled = FALSE /\ unrest = FALSE

-----------------------------------------------------------------------------
(***************************************************************************)
(* The CEF IO thread and the main thread, over the notebook.               *)
(***************************************************************************)
\* A page of an existing browser opens a popup.
OnBeforePopup ==
  /\ open # {}
  /\ RequestTab
  /\ UNCHANGED tabVars

PopupCounts == CountTabs /\ UNCHANGED tabVars

\* assert(new_tab) ends the program when the page is gone.
PopupGets ==
  /\ GetTab
  /\ failed' = IF taking' = "gone" THEN "assert" ELSE failed
  /\ UNCHANGED <<sel, mapVars, hookVars, spinning, found, misled, unrest>>

\* OnBeforePopup returns false, unless the page was deleted under its hands: CEF
\* goes on to create the browser.
PopupAllowed ==
  /\ GrantTab
  /\ IF taking' = "gone"
     THEN failed' = "dangling" /\ UNCHANGED creating
     ELSE creating' = creating \cup {popups} /\ UNCHANGED failed
  /\ UNCHANGED <<sel, open, dying, browser_map, first_init, ui, hookVars, spinning, found,
                 misled, unrest>>

PopupRefused == RefuseTab /\ UNCHANGED tabVars

\* AddTabWorker adds the page and selects it.
AddTabWorker(p) ==
  /\ MainFree
  /\ AddTab(p)
  /\ sel' = Len(pages) + 1
  /\ unrest' = (unrest \/ Unsettled \/ dying # {})
  /\ UNCHANGED <<mapVars, hookVars, talkVars>>

\* The user selects another tab.
SelectTab(s) ==
  /\ MainFree /\ s # sel
  /\ sel' = s
  /\ unrest' = (unrest \/ Unsettled)
  /\ UNCHANGED <<notebookVars, mapVars, hookVars, talkVars>>

\* Mutation: the selection is left where it was.
OnCloseTabStays ==
  LET lost == {b \in Browsers : Host(b) = pages[sel]}
  IN /\ MainFree
     /\ CloseTab(sel)
     /\ creating' = creating \ lost
     /\ dying' = dying \cup (open \cap lost)
     /\ unrest' = (unrest \/ Unsettled \/ sel < Len(pages) \/ found # NoTab)
     /\ UNCHANGED <<sel, open, browser_map, first_init, ui, hookVars, talkVars>>

\* OnCloseTab deletes the selected page with its browser; the tabs behind it
\* move up by one, and the one that takes its place, or the last, is selected.
OnCloseTab ==
  LET lost == {b \in Browsers : Host(b) = pages[sel]}
  IN /\ MainFree
     /\ CloseTab(sel)
     /\ sel' = IF sel = Len(pages) THEN sel - 1 ELSE sel
     /\ creating' = creating \ lost
     /\ dying' = dying \cup (open \cap lost)
     /\ unrest' = (unrest \/ Unsettled \/ sel < Len(pages) \/ found # NoTab)
     /\ UNCHANGED <<open, browser_map, first_init, ui, hookVars, talkVars>>

\* InitHooks, the handler of the event OnAfterCreated queues.
InitHooks ==
  /\ MainFree /\ hookEvents > 0
  /\ hookEvents' = hookEvents - 1
  /\ IF cef_thread_id
     THEN hooks' = hooks + 1 /\ UNCHANGED failed
     ELSE failed' = "assert" /\ UNCHANGED hooks
  /\ UNCHANGED <<notebookVars, sel, mapVars, cef_thread_id, spinning, found, misled, unrest>>

-----------------------------------------------------------------------------
(***************************************************************************)
(* The CEF UI thread.                                                      *)
(***************************************************************************)
\* Mutation: the tab that was made for the browser, wherever it is.
OnAfterCreatedLast(b) ==
  /\ ui = NoHandler /\ b \in creating
  /\ creating' = creating \ {b}
  /\ open' = open \cup {b}
  /\ ui' = [at |-> "insert", b |-> b, sel |-> popups + 1]
  /\ UNCHANGED <<notebookVars, sel, dying, browser_map, first_init, hookVars,
                 talkVars, unrest>>

\* OnAfterCreated reads the selection ...
OnAfterCreated(b) ==
  /\ ui = NoHandler /\ b \in creating
  /\ creating' = creating \ {b}
  /\ open' = open \cup {b}
  /\ ui' = [at |-> "insert", b |-> b, sel |-> sel]
  /\ UNCHANGED <<notebookVars, sel, dying, browser_map, first_init, hookVars,
                 talkVars, unrest>>

\* ... lists the browser, unless the tab has an entry already ...
InsertBrowser ==
  /\ ui.at = "insert"
  /\ browser_map' = [i \in DOMAIN browser_map \cup {ui.sel} |->
                       IF i \in DOMAIN browser_map THEN browser_map[i] ELSE ui.b]
  /\ ui' = IF first_init THEN NoHandler ELSE [ui EXCEPT !.at = "thread"]
  /\ UNCHANGED <<notebookVars, sel, creating, open, dying, first_init, hookVars,
                 talkVars, unrest>>

\* Mutation: the hook is asked for before the thread is known.
SetCefThreadLate ==
  /\ ui.at = "thread"
  /\ hookEvents' = hookEvents + 1
  /\ ui' = [ui EXCEPT !.at = "hook"]
  /\ UNCHANGED <<notebookVars, sel, creating, open, dying, browser_map, first_init,
                 cef_thread_id, hooks, talkVars, unrest>>

\* ... and for the first browser names this thread ...
SetCefThread ==
  /\ ui.at = "thread"
  /\ cef_thread_id' = TRUE
  /\ ui' = [ui EXCEPT !.at = "hook"]
  /\ UNCHANGED <<notebookVars, sel, creating, open, dying, browser_map, first_init,
                 hookEvents, hooks, talkVars, unrest>>

\* Mutation: first_init is never set.
QueueInitHookOnly ==
  /\ ui.at = "hook"
  /\ hookEvents' = hookEvents + 1
  /\ ui' = NoHandler
  /\ UNCHANGED <<notebookVars, sel, creating, open, dying, browser_map, first_init,
                 cef_thread_id, hooks, talkVars, unrest>>

\* ... asks for the hooks, and lets the lookups begin.
QueueInitHook ==
  /\ ui.at = "hook"
  /\ hookEvents' = hookEvents + 1
  /\ first_init' = TRUE
  /\ ui' = NoHandler
  /\ UNCHANGED <<notebookVars, sel, creating, open, dying, browser_map,
                 cef_thread_id, hooks, talkVars, unrest>>

\* Mutation: the entry of the selected tab is erased.
OnBeforeCloseSelected(b) ==
  /\ ui = NoHandler /\ b \in dying
  /\ open' = open \ {b}
  /\ dying' = dying \ {b}
  /\ browser_map' = [i \in DOMAIN browser_map \ {sel} |-> browser_map[i]]
  /\ UNCHANGED <<notebookVars, sel, creating, first_init, ui, hookVars, talkVars, unrest>>

\* OnBeforeClose erases the browser's entry, under whatever index it is.
OnBeforeClose(b) ==
  /\ ui = NoHandler /\ b \in dying
  /\ open' = open \ {b}
  /\ dying' = dying \ {b}
  /\ browser_map' = [i \in {j \in DOMAIN browser_map : browser_map[j] # b} |-> browser_map[i]]
  /\ UNCHANGED <<notebookVars, sel, creating, first_init, ui, hookVars, talkVars, unrest>>

-----------------------------------------------------------------------------
(***************************************************************************)
(* GetBrowserOnTab, on the main thread or a replay thread.                 *)
(***************************************************************************)
\* "wait first initialize".
WaitFirstInit(w) ==
  /\ ~first_init /\ w \notin spinning
  /\ spinning' = spinning \cup {w}
  /\ UNCHANGED <<notebookVars, sel, mapVars, hookVars, found, failed, misled, unrest>>

\* The browser of a page that a lookup should find: its window is there and,
\* but for the first one, OnAfterCreated has returned.
Present(page) ==
  {b \in open \ dying : Host(b) = page /\ (b = First \/ ui.b # b \/ ui = NoHandler)}

\* The lookup asserts that the tab is listed.
FindTab(s, page) ==
  IF s \in DOMAIN browser_map
  THEN /\ misled' = (misled \/ Host(browser_map[s]) # page)
       /\ UNCHANGED failed
  ELSE /\ misled' = (misled \/ Present(page) # {})
       /\ failed' = "assert"

\* On the main thread nothing can change the selection meanwhile.
GetBrowserOnTab ==
  /\ first_init
  /\ FindTab(sel, pages[sel])
  /\ spinning' = spinning \ {"main"}
  /\ UNCHANGED <<notebookVars, sel, mapVars, hookVars, found, unrest>>

\* On a replay thread it can.
ReplayReads ==
  /\ first_init /\ found = NoTab
  /\ found' = [sel |-> sel, page |-> pages[sel]]
  /\ spinning' = spinning \ {"replay"}
  /\ UNCHANGED <<notebookVars, sel, mapVars, hookVars, failed, misled, unrest>>

ReplayFinds ==
  /\ found # NoTab
  /\ FindTab(found.sel, found.page)
  /\ found' = NoTab
  /\ UNCHANGED <<notebookVars, sel, mapVars, hookVars, spinning, unrest>>

-----------------------------------------------------------------------------
(***************************************************************************)
(* Properties.                                                             *)
(***************************************************************************)
TabsTypeOK ==
  /\ sel \in 1..Len(pages)
  /\ creating \subseteq Browsers /\ open \subseteq Browsers /\ dying \subseteq open
  /\ DOMAIN browser_map \subseteq 1..(MaxPopups + 1)
  /\ \A i \in DOMAIN browser_map : browser_map[i] \in Browsers
  /\ first_init \in BOOLEAN /\ cef_thread_id \in BOOLEAN
  /\ misled \in BOOLEAN /\ unrest \in BOOLEAN
  /\ hookEvents \in Nat /\ hooks \in Nat
  /\ ui \in [at: {"none", "insert", "thread", "hook"}, b: Browsers, sel: 0..MaxPopups + 1]
  /\ spinning \subseteq Lookers
  /\ found \in [sel: 0..MaxPopups + 1, page: 0..MaxPopups]
  /\ failed \in {"no", "assert", "frame", "dangling"}

\* Whatever happened to the tabs, the map never lists a browser after its
\* OnBeforeClose, and no browser twice: what CloseAllBrowsers and GetBrowserOnTab
\* find in it exists when they find it.
NoGoneBrowserListed ==
  \A i, j \in DOMAIN browser_map :
    /\ browser_map[i] \in open
    /\ browser_map[i] = browser_map[j] => i = j

\* The map can be trusted as long as no tab is selected, added or closed between
\* a new tab and OnAfterCreated of its browser, none is added while a closed one
\* still dies, and only the last tab is closed: every browser is then listed
\* under the index of its tab.
CalmTabsListed ==
  ~unrest =>
    \A b \in open \ dying : b # ui.b \/ ui = NoHandler =>
      \E i \in DOMAIN browser_map :
        browser_map[i] = b /\ i <= Len(pages) /\ pages[i] = Host(b)

\* Under the same conditions GetBrowserOnTab returns the browser of the tab that
\* was selected, and its assertion fails only on a tab that has no browser (yet);
\* the wait for first_init keeps it from failing on the first tab.
CalmLookupRight == misled => unrest

\* InitHooks finds the thread it asserts to be known (357), and the hooks are
\* asked for and installed once however many browsers are created.
HooksReady ==
  /\ hookEvents + hooks <= 1
  /\ hookEvents + hooks = 1 => cef_thread_id
=============================================================================

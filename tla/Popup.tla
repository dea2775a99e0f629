------------------------------- MODULE Popup -------------------------------
(***************************************************************************)
(* How a page's popup becomes a tab.  OnBeforePopup (cef_handler.cpp) runs  *)
(* on the CEF IO thread; the tab can only be made by the main thread, in    *)
(* AddTabWorker (web_event_browser.cpp).  The two meet on tab_mutex and     *)
(* tab_cond, and OnCloseTab removes tabs at the same time.                  *)
(*                                                                         *)
(* The condition is the one of wxwidgets/include/wx/thrimpl.cpp: a count of *)
(* waiters and a semaphore, so that a signal without a waiter is lost.  The *)
(* mutex is external.  The IO thread never unlocks it except inside the     *)
(* wait, so it comes to lock a mutex it owns; wx/thread.h leaves open what  *)
(* happens then, and Relock is the set of outcomes considered.             *)
(*                                                                         *)
(* OnCloseTab takes no lock: it may delete a page between the count of the  *)
(* pages, the lookup of the last one and its use.                          *)
(***************************************************************************)
EXTENDS Naturals, Sequences, FiniteSets

CONSTANTS
  Relock,        \* outcomes of locking an owned mutex: "refused", "counted"
  MaxPopups,     \* bound on the popups opened
  MaxTimeouts,   \* bound on the waits that reach 10 seconds
  MaxCloses      \* bound on the tabs the user closes

ASSUME PopupAssumption ==
  /\ Relock # {} /\ Relock \subseteq {"refused", "counted"}
  /\ MaxPopups \in Nat /\ MaxTimeouts \in Nat /\ MaxCloses \in Nat

VARIABLES
  io,        \* where the CEF IO thread is in OnBeforePopup
  main,      \* where the main thread is: its event loop, or locking tab_mutex
  held,      \* how often the IO thread holds tab_mutex
  waiters,   \* wxConditionInternal::m_numWaiters
  posted,    \* wxConditionInternal::m_semaphore
  queue,     \* pending WorkerAddTab events, each named by its popup
  serving,   \* the event AddTabWorker is handling
  pages,     \* the notebook; 0 is the first tab, p the tab made for popup p
  popups,    \* number of popups so far; the last one is the current one
  index,     \* the place of the page asked for, counted from 1
  granted,   \* the page each popup was given
  expired,   \* popups refused after the timeout
  closes,    \* number of tabs closed
  raced      \* history: a tab was closed since the pages were last counted

vars == <<io, main, held, waiters, posted, queue, serving, pages, popups,
          index, granted, expired, closes, raced>>

NoPage  == MaxPopups + 1
NoPopup == 0

\* What wxMutex::Lock can leave of the owner's count.
Locked(h) == IF h = 0 THEN {1}
             ELSE {IF r = "counted" THEN h + 1 ELSE h : r \in Relock}

\* The page has not been deleted.
Shown(page) == \E i \in 1..Len(pages) : pages[i] = page

-----------------------------------------------------------------------------
(***************************************************************************)
(* The CEF IO thread.                                                      *)
(***************************************************************************)
\* Lock tab_mutex and queue the request.
OnBeforePopup ==
  /\ io = "idle" /\ popups < MaxPopups
  /\ held' \in Locked(held)
  /\ popups' = popups + 1
  /\ queue' = Append(queue, popups + 1)
  /\ io' = "queued"
  /\ UNCHANGED <<main, waiters, posted, serving, pages, index, granted, expired, closes, raced>>

\* WaitTimeout: count the waiter, release the mutex once, wait.
BeginWait ==
  /\ io = "queued"
  /\ waiters' = waiters + 1
  /\ held' = held - 1
  /\ io' = "waiting"
  /\ UNCHANGED <<main, posted, queue, serving, pages, popups, index, granted, expired,
                 closes, raced>>

\* Mutation: only the first wait is bounded.
ExpireOnce ==
  /\ io = "waiting" /\ posted = 0
  /\ expired = {}
  /\ io' = "expired"
  /\ UNCHANGED <<main, held, waiters, posted, queue, serving, pages, popups, index,
                 granted, expired, closes, raced>>

\* Ten seconds have passed without a signal.
Expire ==
  /\ io = "waiting" /\ posted = 0
  /\ Cardinality(expired) < MaxTimeouts
  /\ io' = "expired"
  /\ UNCHANGED <<main, held, waiters, posted, queue, serving, pages, popups, index,
                 granted, expired, closes, raced>>

\* Mutations: a wait that ends by itself is taken for answered; a signal just
\* after the timeout is not looked at; the page before the last is asked for; the
\* count is taken for the number of the last page.
CountPagesSpurious ==
  /\ io \in {"waiting", "expired"}
  /\ posted' = 0 /\ waiters' = 0
  /\ held' \in Locked(held)
  /\ index' = Len(pages) /\ raced' = FALSE
  /\ io' = "counted"
  /\ UNCHANGED <<main, queue, serving, pages, popups, granted, expired, closes>>

CountPagesInTime ==
  /\ io = "waiting" /\ posted = 1
  /\ posted' = 0
  /\ held' \in Locked(held)
  /\ index' = Len(pages) /\ raced' = FALSE
  /\ io' = "counted"
  /\ UNCHANGED <<main, waiters, queue, serving, pages, popups, granted, expired, closes>>

CountPagesBut(n) ==
  /\ io \in {"waiting", "expired"} /\ posted = 1
  /\ posted' = 0
  /\ held' \in Locked(held)
  /\ index' = n /\ raced' = FALSE
  /\ io' = "counted"
  /\ UNCHANGED <<main, waiters, queue, serving, pages, popups, granted, expired, closes>>

CountPagesBeforeLast == CountPagesBut(Len(pages) - 1)

CountPagesPastLast == CountPagesBut(Len(pages) + 1)

\* The signal ends the wait, also one that came just after the timeout; the
\* mutex is locked again and GetPageCount() gives the place of the last page.
CountPages ==
  /\ io \in {"waiting", "expired"} /\ posted = 1
  /\ posted' = 0
  /\ held' \in Locked(held)
  /\ index' = Len(pages) /\ raced' = FALSE
  /\ io' = "counted"
  /\ UNCHANGED <<main, waiters, queue, serving, pages, popups, granted, expired, closes>>

\* GetPage: NULL when there are fewer pages by now, and assert(new_tab) fails.
GetPage ==
  /\ io = "counted"
  /\ IF index \in 1..Len(pages)
     THEN io' = "got" /\ granted' = [granted EXCEPT ![popups] = pages[index]]
     ELSE io' = "gone" /\ UNCHANGED granted
  /\ index' = 0
  /\ UNCHANGED <<main, held, waiters, posted, queue, serving, pages, popups, expired,
                 closes, raced>>

\* The page's size and window handle make it the parent of the popup, unless the
\* page is deleted by then.  OnBeforePopup returns without unlocking.
SetAsChild ==
  /\ io = "got"
  /\ io' = IF Shown(granted[popups]) THEN "idle" ELSE "gone"
  /\ UNCHANGED <<main, held, waiters, posted, queue, serving, pages, popups, index,
                 granted, expired, closes, raced>>

\* wxCOND_TIMEOUT: the mutex is locked again, the request stays queued.
GiveUp ==
  /\ io = "expired" /\ posted = 0
  /\ waiters' = waiters - 1
  /\ held' \in Locked(held)
  /\ expired' = expired \cup {popups}
  /\ io' = "status"
  /\ UNCHANGED <<main, posted, queue, serving, pages, popups, index, granted, closes, raced>>

\* SetStatusText sends a message to a window of the main thread and returns when
\* that thread has answered it, which it cannot do while it waits for a mutex.
ReportTimeout ==
  /\ io = "status" /\ main = "idle"
  /\ io' = "idle"
  /\ UNCHANGED <<main, held, waiters, posted, queue, serving, pages, popups, index,
                 granted, expired, closes, raced>>

-----------------------------------------------------------------------------
(***************************************************************************)
(* The main thread, which ends with the program when a page is gone.        *)
(***************************************************************************)
\* The event loop takes a WorkerAddTab event; AddTabWorker locks tab_mutex.
AddTabWorker ==
  /\ main = "idle" /\ queue # <<>> /\ io # "gone"
  /\ serving' = Head(queue)
  /\ queue' = Tail(queue)
  /\ main' = "locking"
  /\ UNCHANGED <<io, held, waiters, posted, pages, popups, index, granted, expired,
                 closes, raced>>

\* Mutation: the signal is kept when nobody waits.
AddPageRemembered ==
  /\ main = "locking" /\ held = 0
  /\ pages' = Append(pages, serving)
  /\ posted' = posted + 1
  /\ waiters' = 0
  /\ serving' = NoPopup
  /\ main' = "idle"
  /\ UNCHANGED <<io, held, queue, popups, index, granted, expired, closes, raced>>

\* With the mutex: add the page, select it, signal the waiter if there is one.
AddPage ==
  /\ main = "locking" /\ held = 0
  /\ pages' = Append(pages, serving)
  /\ IF waiters > 0
     THEN posted' = posted + 1 /\ waiters' = waiters - 1
     ELSE UNCHANGED <<posted, waiters>>
  /\ serving' = NoPopup
  /\ main' = "idle"
  /\ UNCHANGED <<io, held, queue, popups, index, granted, expired, closes, raced>>

\* The selected tab, any of them, is deleted unless it is the only one.  No lock.
OnCloseTab ==
  /\ main = "idle" /\ closes < MaxCloses /\ io # "gone"
  /\ Len(pages) > 1
  /\ \E s \in 1..Len(pages) :
       pages' = [i \in 1..Len(pages) - 1 |-> IF i < s THEN pages[i] ELSE pages[i + 1]]
  /\ closes' = closes + 1 /\ raced' = TRUE
  /\ UNCHANGED <<io, main, held, waiters, posted, queue, serving, popups, index,
                 granted, expired>>

-----------------------------------------------------------------------------
Init ==
  /\ io = "idle" /\ main = "idle"
  /\ held = 0 /\ waiters = 0 /\ posted = 0
  /\ queue = <<>> /\ serving = NoPopup
  /\ pages = <<0>> /\ popups = 0 /\ closes = 0 /\ index = 0 /\ raced = FALSE
  /\ granted = [p \in 1..MaxPopups |-> NoPage]
  /\ expired = {}

IoStep   == \/ OnBeforePopup \/ BeginWait \/ Expire \/ GiveUp \/ ReportTimeout
            \/ CountPages \/ GetPage \/ SetAsChild
MainStep == AddTabWorker \/ AddPage \/ OnCloseTab

Next == IoStep \/ MainStep

Spec == Init /\ [][Next]_vars

\* Both threads are scheduled: the IO thread continues what it is inside of, the
\* event loop takes queued events, and a lock that stays free is acquired.
Fairness ==
  /\ WF_vars(BeginWait)
  /\ WF_vars(CountPages) /\ WF_vars(GetPage) /\ WF_vars(SetAsChild)
  /\ WF_vars(Expire) /\ WF_vars(GiveUp) /\ WF_vars(ReportTimeout)
  /\ WF_vars(AddTabWorker) /\ WF_vars(AddPage)

FairSpec == Spec /\ Fairness

-----------------------------------------------------------------------------
(***************************************************************************)
(* Properties.                                                             *)
(***************************************************************************)
\* Types; the semaphore never holds a token that no wait will consume.
TypeOK ==
  /\ io \in {"idle", "queued", "waiting", "expired", "status", "counted", "got", "gone"}
  /\ main \in {"idle", "locking"}
  /\ held \in Nat
  /\ waiters \in 0..1 /\ posted \in 0..1
  /\ waiters + posted <= IF io \in {"waiting", "expired"} THEN 1 ELSE 0
  /\ queue \in Seq(1..MaxPopups)
  /\ serving \in 0..MaxPopups
  /\ pages \in Seq(0..MaxPopups) /\ pages # <<>>
  /\ popups \in 0..MaxPopups /\ closes \in Nat
  /\ index \in Nat /\ raced \in BOOLEAN
  /\ granted \in [1..MaxPopups -> 0..NoPage]
  /\ expired \subseteq 1..MaxPopups

\* Whatever requests were left over from popups that timed out, while no tab is
\* closed two popups never share a page and none takes the first tab.
NoPageShared ==
  closes = 0 =>
    \A p, q \in 1..MaxPopups : granted[p] # NoPage =>
      /\ granted[p] # 0
      /\ granted[p] = granted[q] => p = q

\* A popup can be given a page that was made for an earlier popup, but it lags by
\* no more popups than have timed out before it.
LagBoundedByTimeouts ==
  closes = 0 =>
    \A p \in 1..MaxPopups : granted[p] # NoPage =>
      /\ granted[p] <= p
      /\ p - granted[p] <= Cardinality({q \in expired : q < p})

\* GetPage finds the page it was told of and OnBeforePopup uses one that is still
\* there (cef_handler.cpp:121-132), unless OnCloseTab ran since the pages were
\* counted: AddTabWorker, late requests and relocking cannot make the number stale.
PageThere == io = "gone" => raced

\* The main thread waits for a mutex that the IO thread is not about to release:
\* only the wait releases it, once.
Blocked == main = "locking" /\ held > 0 /\ ~(io = "queued" /\ held = 1)

\* The wait of this popup does not release the mutex, for a lock of a mutex already
\* owned was counted.
WaitKeepsMutex ==
  \/ io = "queued" /\ held > 1
  \/ io \in {"waiting", "expired"} /\ held > 0

\* Although OnBeforePopup keeps tab_mutex, the main thread asks for it while it is
\* kept only after a timeout; or, where a second lock counts, in the wait of the
\* second popup or a later one, whose request then cannot be served.
BlockedOnlyAfterTimeout ==
  Blocked => \/ expired # {}
             \/ WaitKeepsMutex /\ "counted" \in Relock /\ popups > 1

\* No step of the popup at hand ends that: the IO thread waits for the main thread
\* in turn, or has returned and keeps the mutex.
Stuck == Blocked /\ io \in {"status", "idle"}

\* OnBeforePopup returns, after a timeout too (cef_handler.cpp:116), unless the
\* two threads are stuck, or the program ends.
PopupReturnsOrBlocked == io # "idle" ~> io \in {"idle", "gone"} \/ Stuck

\* AddTabWorker gets its mutex and returns to the event loop, with those exceptions;
\* while the IO thread is inside its wait, however the mutex was locked, it is not
\* stuck yet.
MainReleasedOrBlocked == main = "locking" ~> main = "idle" \/ io = "gone" \/ Stuck

\* The handshake keeps the promise of Notebook.
Promise == INSTANCE Notebook
             WITH pending  <- {queue[i] : i \in 1..Len(queue)} \cup ({serving} \ {NoPopup}),
                  waiting  <- io \notin {"idle", "status"},
                  answered <- posted = 1,
                  taking   <- IF io \in {"counted", "got", "gone"} THEN io ELSE "no"
ImplementsNotebook == Promise!Spec

(***************************************************************************)
(* What the repository says and the code does not keep.                    *)
(***************************************************************************)
\* cef_handler.cpp:116, "Error: Timeout of 10s exceeded for load url on new tab":
\* OnBeforePopup answers or gives up, and returns.
PopupReturns == io # "idle" ~> io = "idle"
=============================================================================

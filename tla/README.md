# Verification of WebEventBrowser

WebEventBrowser (`webeventrecorder`) is a Windows browser, wxWidgets around the
Chromium Embedded Framework, that records what its user does, streams the
recording to a websocket client, saves it as a JSON script and plays it again.
This directory holds TLA+ models of it, the TLC instances that check them and
the proofs TLAPS checks. Line numbers are those of the files in `src/`; unless a
file is named they are those of `web_event_browser.cpp`.

The first-party code is about 3100 lines: `web_event_browser.cpp/.h`,
`cef_handler.cpp/.h`, `cef_app.cpp/.h`, `websock_srv.cpp/.h`, `json_schema.cpp`.
Everything else in the repository is vendored (asio, CEF headers, rapidjson,
websocketpp, wxWidgets) or binary.

## 1. Inventory

### Threads

| thread | runs | starts |
|---|---|---|
| main | the wxWidgets event loop: every `MainFrame` handler, the thread-event workers, `OnInit`, `OnExit` | the process |
| CEF UI | `OnAfterCreated`, `DoClose`, `OnBeforeClose`, `OnLoadEnd`, `Visitor::Visit`, and the two Windows hooks, which `InitHooks` (355) installs for this thread | CEF |
| CEF IO | `OnBeforePopup`, `OnResourceResponse` | CEF |
| websocket | `WebSocketSrv::Run`, so `on_open`, `on_close` | `InitWebsocketServer` (689) |
| replay | `ActionsManager::Play`; one detached thread per click on Play | `OnPlay` (651) |

The threads share `ActionsManager`, `WevebApp::is_hooked`, `SimpleHandler`'s
browser map, `WebSocketSrv` and the windows. The only lock in first-party code is
`tab_mutex`. The CEF threads hand work to the main thread with `wxQueueEvent`
(`WorkerAddTab`, `WorkerResourceEvent`, `WorkerContentEvent`, `InitHook`).

### Components

| component | state | operations | what makes it correct |
|---|---|---|---|
| Recorder (`ActionsManager`, 814-1338) | `state`, `actions`, `events`, `start_timestamp`, `is_hooked`, the button label | `StartRecord`, `StopRecord`, `LoadJsonDocument`, `GenerateJsonDocument`, the `Push*` calls | a script holds what happened between its start and its stop, in an order that can be played; a payload has one owner; hooks, state and button agree |
| Popups (`cef_handler.cpp` 95-136, 481-495) | `tab_mutex`, `tab_cond`, the notebook | `OnBeforePopup`, `AddTabWorker`, `OnCloseTab` | a popup gets the tab made for it; both threads always get on |
| Websocket stream (`websock_srv.cpp`, 850-884) | `state`, `con_hdl` | `Run`, `on_open`, `on_close`, `SendJson`, `SendDate`, `StopServer` | the state tells whether a client is there; what is pushed is sent; a client cannot end the program |
| Browser tabs (`cef_handler.cpp` 39-93, 184-237) | `browser_map_`, `first_init`, the notebook's selection | `OnAfterCreated`, `DoClose`, `OnBeforeClose`, `GetBrowserOnTab`, `CloseAllBrowsers` | a tab index finds the browser of that tab |
| Replay (788-799, 1196-1233, 1431-1580) | `time_cursor`, the iterator of `actions`, title, icon | `OnPlay`, `Play`, `DoDelay`, `Execute` | actions are played in order with their delays, and a replay ends |
| Script files (547-649, 1248-1338, `json_schema.cpp`) | none | save, load, validate | loading what was saved restores it; what is invalid is refused |
| Hooks and input (65-168, 1340-1555) | none | which message is recorded, and what CEF event it becomes | a recorded message is played as the same input |
| Start-up and shutdown (176-353, 467-474) | `main_frame`, `actions_manager`, `is_closing_` | `OnInit`, the constructor, `OnClose`, `OnExit` | nothing runs before what it uses exists or after it is gone |
| Status bar, tree, screenshots' pixels, CEF application object, download and dialog handlers | presentation only | | |

### What is hard here

Listed with their lines in `PROJECT.json` under `hazards`. In short: a test of
`state` and the append it guards are not atomic and run on the main thread, the CEF
thread and every replay thread; a timestamp is read before the append; payloads travel through a queue and are
judged by the state at arrival; the condition variable can time out, and its
mutex is never unlocked; a tab is closed between the count of the tabs, the lookup of
the last and its use; the stream reads a state another thread changes; a
replay iterates a list others change, adds to it itself, and waits for windows of the
main thread; start-up and shutdown let callbacks run
before or after the objects they use.

## 2. Plan

Eight steps, the most important behaviour of the system first. All are done.

1. `Recorder`, which refines `RecordingLog`; its proofs are in `RecorderProofs`,
   `RecorderTimeProofs` and `RecorderPayloadProofs`.
2. `Popup`, which refines `Notebook`; proofs in `PopupProofs`.
3. `WebSocketSrv`, `WebSocketSrvProofs`.
4. `BrowserTabs`: `browser_map_` over the notebook. It extends `Notebook`, so that
   the mutex and the condition stay inside `Popup` and only their promise is composed.
5. `Replay`, `ReplayProofs`: replay threads over the action list. It extends
   `RecordingLog`, the promise of `Recorder`, for the same reason.
6. `Lifecycle`, `LifecycleProofs`: start-up and shutdown around `BrowserTabs`.
7. The hooks' messages and the events a replay sends: in `Script`, because the file
   lies between the two.
8. `Script`, `ScriptProofs`: files.

How the modules depend on each other:

    RecordingLog <-- refined by -- Recorder          Notebook <-- refined by -- Popup
         ^                                              ^
         | EXTENDS                                      | EXTENDS
       Replay          Script      WebSocketSrv      BrowserTabs <-- EXTENDS -- Lifecycle

Every safety and action property the runs check is also proved. What is left
is liveness, which only TLC can check, and what section 7 lists.

## 3. The modules

In every module one variable stands for one field of the program, or for a place a
thread can be in; what is there for the properties only is marked "history". A
handler is split into actions where another thread can see the difference and
nowhere else. Definitions marked "Mutation" are wrong on purpose: they show
that a property notices the bug, and no specification uses them.

### Recorder

Fields: `state`, `is_hooked`, `button`, `actions`, `events`, `start_timestamp`. Besides
them: a `clock`, the place of the main thread, the Push call each pushing thread is
inside, the payloads on their way, and history (`rec` numbers the scripts; an action
remembers its thread, its script, whether it was a key or its character, and whether it
was late). The pushing threads are the main thread, the CEF thread and the constant set
`Replays`, of any size.

* `Push*Action`, four steps. A handler is entered, behind its test of the hook flag
  (`Hook`, `OnSize`, `SendSizeEvent`, `PlayResize`); the caller evaluates the arguments,
  the clock among them (`Evaluate`, the default argument at `web_event_browser.h:438`);
  the callee tests `state` (`PushCheck`, 888); it appends (`PushAppend`, 897). Any
  handler of any other thread may run between two of them. The five functions differ in
  their data only. The script an action belongs to is the one at hand when its handler
  was entered, that is when the user acted.
* `MyMouseHook` and `MyKeyboardHook` are `Hook`; a key-down is followed by
  `HookTranslate`, which may push the character as a second action (159) without
  another test of the hook flag. It keeps the script of its key.
* `ResizeAction::Execute` (1569-1573) reaches `OnSize` twice. `SetSize` makes the main
  thread run it, also within the record dialog's event loop and within an `OnSize` under
  way (`OnSize`, nested through `Sizing`). `SendSizeEvent` runs it on the replay thread
  itself (`PlayResize`). The port's own `SendSizeEvent` (`wx/msw/frame.h:88`) has no
  source in the repository; if it posts a message instead, the second way falls together
  with the first, and both are covered.
* `OnRecordScript` and `StartRecord` are `RecordClicked` (the modal dialog),
  `StartRecord` (820), `DeleteActions` (1239), `SetStartTime` (824, after the tree items
  are gone), `SendSizeEvent` with the resize it pushes through `OnSize` (826), and
  `StartHook`; the other branch is `StopRecord`, `StopHook`.
* `LoadJsonFile` and `LoadJsonDocument` are `LoadJsonFile`, `DeleteActions` and
  `SetStartTime` again, one `LoadItem` per item, `LoadDone`; an unknown item
  returns with `state` as it is (1332). The `action` item stands for the five kinds.
* `OnResourceResponse`/`QueueResource`, `OnLoadEnd`/`Visit` and
  `HandlePayload` are the two ways a payload goes from the CEF threads to the
  event list, or to `delete`. A content that cannot be saved is neither (1190).

Coordinates, keys, URLs, headers and the tree control are left out: no handler
reads them back. A replay may play a resize whenever the list is not empty: what is
played, and when, is the business of `Replay`. The timestamps in a file are 0, a moment
before all moments of this run. The clock does not go back. An append to `std::list` is
atomic, although in the code two unsynchronised `push_back` calls are undefined
behaviour; every result about the lists holds for executions in which they do not
overlap. `freed` records `delete` without reusing addresses.

### RecordingLog

What the action list promises: it is opened, erased, grown by one action at a
time, closed, and after that takes at most one more action of each thread in
`Stragglers`, which are the CEF thread and the replay threads. `Recorder!Log` maps
`phase` to `state` and to whether the old list is still there, and `straggled` to the
threads of the late actions in the list.

### Popup

The IO thread inside `OnBeforePopup`, the main thread inside `AddTabWorker`, the
notebook with `OnCloseTab`, and the condition as `thrimpl.cpp` (147-208) implements it:
a count of waiters and a semaphore, so a signal without a waiter is lost and a
timeout looks at the semaphore once more. After an answered wait `OnBeforePopup` counts
the pages (`CountPages`), looks the last one up (`GetPage`, which fails `assert(new_tab)`
if the notebook has become shorter) and uses it (`SetAsChild`); `OnCloseTab` takes no
lock and may run before each of these. Where it leaves nothing to use, `io` is `gone`:
the program ends, by the assertion (123) or on a deleted panel. `OnBeforePopup` never unlocks
`tab_mutex` except inside the wait, so from the second popup on it locks a mutex
it owns. `wx/thread.h` calls that undefined in general; the outcomes are
the constant `Relock`: refused with an error nobody looks at, or counted. In the second case the wait of the
second popup does not give the mutex up, and the main thread is doomed before anything
has timed out (`WaitKeepsMutex`).
`SetStatusText` called off the main thread is a message to a window of the
main thread and returns when that thread has handled it (`ReportTimeout`).

### Notebook

What that handshake promises, without mutex, condition and queue: one page for
each request, also for one that was given up; an answered popup counts the pages, asks
for the last and becomes its child, and no page is added between; tabs are closed at any
time, between these steps too, where that ends the program. `Popup!Promise` maps
`pending` to the queue and the event being served, `waiting` and `taking` to the place
of the IO thread and `answered` to the semaphore.

### BrowserTabs

`Notebook` with its selection, and what `SimpleHandler` makes of it.
The three steps of an answered popup are `PopupCounts`, `PopupGets`, `PopupAllowed`; a
page that is gone ends the program (`failed`). `OnAfterCreated` is `OnAfterCreated` (the selection is read), `InsertBrowser`
(`insert` keeps an entry that is there), and for the first browser `SetCefThread`
and `QueueInitHook`; `OnBeforeClose` erases the entry of the browser.
`GetBrowserOnTab` waits for `first_init` (`WaitFirstInit`), reads the selection,
and looks it up; the main thread does both at once, since only it changes the
selection, a replay thread in two steps (`ReplayReads`, `ReplayFinds`). The history
variable `unrest` becomes true when the tabs change in a way the map cannot follow:
a tab selected, added or closed before the browser of a new tab was
created, or while its popup still asks for the page; one added while a closed one's browser still dies; a tab closed that is
not the last, which shifts the indices behind it. `misled` records a lookup that
missed a browser that was there.

The lookup itself, from `find` to the return (233-236), is one step: no lock keeps
`OnBeforeClose` from erasing the entry in between, which would be one more unsynchronised
use of a `std::map` (section 7). That a browser's window dies with its tab, that CEF then calls `OnBeforeClose`, and
which tab `wxNotebook` selects after a deletion is external.

### Lifecycle

The main thread's life around these tabs, in `phase`: the constructor starts the
first browser (`ctor`), loads the script of the command line (`load`), starts the
websocket server (`server`), returns (`assign`, when `main_frame` is set), runs the
event loop (`running`), closes (`closing`), deletes the frame (`deleted`),
exits. `OnClose` stops the server, posts `CloseAllBrowsers` to the UI thread and
lets the frame be deleted; `DoClose` makes CEF send the frame a close message
(`wmClose`), and `OnClose` runs once more. A callback that uses the frame
before `main_frame` is set or after the frame is gone ends the program
(`UseNoFrame`, `failed = "frame"`), also one that began while the frame was there: the
rest of `OnBeforePopup` (`PopupTaken`) and of `OnAfterCreated` (`HandlerStep`). The code can do
this, at start-up and at shutdown, and nothing in the repository says it cannot. `is_closing_` is set and read by
nobody and is left out.

### WebSocketSrv

The websocket thread's `Run` (which throws if the port is taken, and nobody
catches it), its two handlers, `on_open` in its two assignments, `StopServer`,
the library's connection states (`connection_impl.hpp`: open before `on_open`,
closed before `on_close`, `send` only when open), and the sending half of a
Push call in its steps: read the state, assert it, send, append. An assertion
or an exception ends the process (`failed`). The recorder is on throughout.
The events' `SendJson` has the same form as the actions' and is not told apart.

### Replay

`OnPlay` starts one thread per click; each is a record in `player`: the place in
`Play`, and the list iterator as an index, 0 once its element was deleted.
`BeginPlay` is the early return for an empty list, `SetCursor` the start of the loop,
then for every action `Execute`, `DoDelay` with its assertion, and `WakeUp` after the
sleep. A step of a dangling iterator is `Crash`. `PutTitleBack` and `StopPlay` are the
end. All threads share `time_cursor`, `title` and `icon`.

A resize that is played goes through `Execute` (`SetSize`, whose `OnSize` on the main
thread may record a resize), `TestState` (1043), `PushTested` (1052) and `AppendItem`
(1054-1068), the last three on the replay thread: the recorder may be stopped or started
between the test and the push, and the resize is then a straggler.

The list changes by the steps of `RecordingLog`, which the module extends, with arbitrary
timestamps: `RecordAction` stands for the hook, the main thread and the file, the replays
push for themselves. `main` says whether the main thread takes messages. `SetSize`,
`SetTitle`, `SetStatusText`, `SetIcon` and the tree control reach a window of the main
thread with a message and return when that thread has handled it, so those steps of a
replay need it free; it is not while a script is opened or a file read, and after
`BlockMain` it never is again: `Popup` shows that this can happen. `disturbed` remembers
that two replays overlapped, or that a list was erased or its start time set under one.

### Script

One thread of events from the user's message to the event CEF is sent:
`MyMouseHook`, `MyKeyboardHook` make actions; `GetJsonObject`, `GenerateJsonDocument`
objects and a document; `Accept` is the verdict of the schema, which is only shown
(640); `LoadJsonFile`, `LoadObject`, `LoadDone` read the document one object at a
time; `Execute` with `GetCefMouseModifiers` makes the events. `Restart` begins a
new process with nothing but the file; `ForeignFile` puts another program's
document there. A load does not touch `is_hooked`; the hooks are off whenever one can
begin. Message numbers and mask bits are those of
Windows, since the code takes the one for the other. Of an `LPARAM` only the
key-up bit is kept, and coordinates only travel through. A message's keys are those
the user holds, so a press of the left button has that button among them
(`MessagesOK`). An action's timestamp is the number of its message, which lets the properties
follow an event back to the message that caused it (`Cause`).

A document without a member the loader reads makes an assertion of rapidjson fail;
such documents are not enumerated (`DocumentsOK`).

## 4. The runs

| run | bounds | shows |
|---|---|---|
| `recorder_lists` | 2 scripts, 1 replay thread, clock 0..1, 3 actions, files of 1 and 2 items, no payloads; 2.17 million states | `OneStraggler`, `OneStray`, `ThreadReplayable`, `HookAgreesWithState`; the list refines `RecordingLog` |
| `recorder_payloads` | 2 scripts, 2 payloads; 81 000 states, with fairness | `TypeOK`, `PayloadOwned`, `EventsFrozen`, `PayloadsHandled` |
| `recorder_replay_assert` | 2 scripts, clock 0..2, no replay | a recorded list can go back in time: `assert(t >= time_cursor)` (1227) fails in a replay |
| `popup` | 5 popups, each may time out, 2 tabs closed, both outcomes of a relock; 75 675 states, with fairness | `TypeOK`, `NoPageShared`, `LagBoundedByTimeouts`, `PageThere`, `BlockedOnlyAfterTimeout`, `PopupReturnsOrBlocked`, `MainReleasedOrBlocked`; the handshake refines `Notebook` |
| `popup_timeout` | 2 popups, 1 timeout, with fairness | the two threads wait for each other for ever |
| `websocket_stream` | 2 clients, 2 threads, 2 pushes each; 643 000 states | `TypeOK`, `StateTracksClient`, `NothingMissed`, `StreamIsListed` |
| `websocket_assert` | 1 client, 1 push per thread | a client that leaves at the wrong moment fails `assert` (864) |
| `lifecycle` | 2 popups, 1 tab closed, 1 sweep under way; 1.14 million states, with fairness | `TypeOK`, `NoGoneBrowserListed`, `CalmTabsListed`, `CalmLookupRight`, `HooksReady`, `CalmSweepComplete`, `SpinEnds` |
| `replay` | 2 replays at once, 2 erasures, lists of 2 actions and a third a replay pushes itself, timestamps 0..1; 1.55 million states, with fairness | `TypeOK`, `ReplaySafe`, `Pace`, `TitleAndIconTell`, `KeepsLog`, `ReplayEnds` |
| `replay_load` | 1 replay | a file is loaded under a replay |
| `script` | 2 scripts, 2 messages or resizes of 10 kinds, 2 screenshots before a load, 2 foreign documents; 452 000 states | `TypeOK`, `RoundTrip`, `TextReplayed`, `ClicksReplayed`, `NoPhantomKey`, `OwnFilesAccepted` |
| `script_keys` | 1 script, key A down and up | a key that went down is played as going up |

Why the bounds are enough.

* `recorder_*`: a stray or straggling action needs one call under way
  while a script is stopped or started; two scripts let it cross a start after it
  crossed a stop. Three list elements leave room for the resize every start
  records and one late action of each of the other two threads, or for the two of a
  key-down; one replay thread is one more straggler, and a second would only do the same.
  The clock needs two values to be read before and after. Two payloads are one in the
  IO thread's hands and one from the visitor, in the queue or in the list, at the same
  time and from two scripts. `recorder_payloads` has no replay thread and an empty list:
  neither touches a payload.
* `popup`: five popups that may all time out let a lag of four build up and a
  late page answer a later wait; two closed tabs can hit a popup between its count and
  its lookup and again before its use.
* `websocket_stream`: two clients give all orders of one connection's `on_open` and
  the other's `on_close`; two pushes per thread put one before and one after them.
* `lifecycle`: three tabs, one of them closed, are the least for which an index
  shifts behind a closed tab while another tab's browser is still to come. The
  second `CloseAllBrowsers` comes after the first has run.
* `replay`: two replays overlap, and follow each other; two erasures let a list
  be replaced under a replay that already survived one; a list of two has a
  first, a next and an end, and two timestamps make it ordered or not. The third
  element lets both replays straggle, or one of them and the hook, and would let one
  straggle twice if its test were wrong.
* `script`: two messages are the least that can be swapped, a press and its release, or
  a key and its translation; two scripts make a file outlive the script it was
  saved from.

`CHECK_DEADLOCK FALSE` is set where the program ends or the bounds let the system
stop: `Popup`, `WebSocketSrv`, `Lifecycle`, `Replay`. `Recorder` and `Script` are
checked for deadlock: the user can always do something.

### Fairness

* `Recorder!FairSpec`: weak fairness for each step of a handler that has begun (a
  scheduled thread leaves a handler without a blocking call), strong
  fairness for `HandlePayload`, which the event loop, the dialog's included,
  offers again and again but not while another handler runs: wxWidgets runs pending
  thread events on every iteration.
* `Popup!FairSpec`: the IO thread goes on inside `OnBeforePopup`, a wait
  reaches its timeout if nobody signals, the event loop takes queued events, a
  mutex that stays free is acquired. No new popup and no closed tab is assumed.
* `Lifecycle!FairSpec`: the constructor runs to its end, CEF creates the first
  browser it was asked for and goes on in a handler that has begun, and a
  thread that waits in `GetBrowserOnTab` is scheduled. `SpinEnds` rests on CEF being
  able to create a browser while the main thread does not handle messages; a window
  that notifies its parent of the creation and waits for the answer would end this.
* `Replay!FairSpec`: every replay thread is scheduled, its sleeps end, and a main thread
  that stays free takes the thread's message, as its event loop does. Nothing is assumed
  of a main thread that is stuck, or of one that opens a script or reads a file for ever;
  `ReplayEnds` excludes the first, and the second keeps the recorder on.

Nothing is ever assumed of the user, the page, a client or the clock.

## 5. The proofs

35 results are listed in `PROJECT.json`. Each holds for every value of the
constants; what is assumed of these is what the modules state: `ConstantsOK`
(`Recorder`), `PopupAssumption`, `WebSocketAssumption`, `ReplayAssumption`,
`LifecycleAssumption` (bounds are natural numbers, sets have the members named there),
`MessagesOK` and `DocumentsOK` (`Script`: messages and documents have the members
the code reads, and a message for a pressed left button says that it is held).

The proofs have one form. A type invariant is proved first; an invariant that is not inductive
is strengthened; the theorem combines three lemmas, that the strengthening holds
initially, that every step keeps it, and that it implies the property. Where many
actions do the same to the variables a property looks at, a lemma first
classifies the steps. Before it was proved, each strengthening was an invariant
of a TLC run on the component's instance.

`RecorderProofs`, `RecorderTimeProofs`, `RecorderPayloadProofs`:

* `OneStragglerCorrect`. A late action could be joined by another of the same thread if
  a second call of it had passed the test of `state`. `StragglerInv` says where the main
  thread is when it is inside a Push call (`MainPlace`: it changes `state` itself,
  so a call of its own never spans a stop), and that a thread with a late action
  in the list is not past its test any more (`StragglerSpent`), until the next script
  erases the list.
* `RecorderImplementsLog`. `ListStep` classifies every step by what it does to the
  list and the state; each class is a step of `RecordingLog` or a stutter. That a thread
  straggles once comes from the invariant above.
* `OneStrayCorrect`. `StrayInv`: a call never carries a script number newer than
  the recorder's; the main thread's carries the current one, because it begins
  scripts itself; and while a thread's call carries an older one the list holds no stray
  of that thread but, once the key is done, the key itself.
* `ThreadReplayableCorrect`. `TimeInv`: a call of this script is no older than what its
  thread has listed and, but for a replay's, than the start time; nothing is newer than
  the clock. The CEF thread cannot enter a handler of the new script before the start
  time is taken, since the hooks are off until then; a replay can, hence the exception.
* `PayloadOwnedCorrect`. `OwnerInv`: every payload known anywhere was allocated
  (`Allocated`), what is deleted is nowhere else, and no two of the IO thread, the places of
  the queue and those of the list hold the same one (`Apart`). `PayloadStep` classifies the
  steps by how a payload moves. `EventsFrozenCorrect` follows from the steps alone.
* `HookAgreesCorrect`. `AgreeInv`: its part `HookInv` gives hooks, state and button
  for every place of the main thread, not only for its event loops.

`PopupProofs`:

* `BlockedCorrect`. `WaitInv` relates the waiters, the semaphore and the mutex to the place of
  the IO thread; `OnceInv` says where a lock cannot have been counted twice: in the first
  popup, and when `Relock` is "refused" only.
* `PageThereCorrect`. `PageKnown`: while no tab was closed since the count, the number
  that was counted is that of the last page, and the page looked up is in the notebook.
* `LagCorrect`, `NoPageSharedCorrect`. `QueueInv`: the requests that are outstanding
  are the last ones made, in their order. `OutstandingInv`: they are no more than
  the popups that timed out, and one that waits. `PageInv`: while no tab is closed the
  pages are those of all earlier popups in order. So the last page lags by no more
  than the timeouts.
* `PopupImplementsNotebook`, step by step under these invariants.

`WebSocketSrvProofs`: `CallInv` (nothing is listed that was not pushed), `ListedOnce`
(only the action of a call that has not returned is missing), `HandlerInv` (what state,
handle and connections are inside a handler) and `MissInv` (an action that is past
its sending and not yet listed was sent too) give `StreamCorrect`, `StateCorrect` and
`NothingMissedCorrect`.

`ReplayProofs`: `PlayerInv`: an iterator is at an element of the list or at a deleted
one. `AloneInv`: an undisturbed replay is the only one, its element is not deleted, and
`time_cursor` is the time of the element before it. `ReplaySafeCorrect`, `PaceCorrect` and
`TitleAndIconCorrect` follow. `KeepsLogCorrect` rests on `PushInv`: a replay that is past
its test has not straggled in the closed script, for it passed the test while a script
was open, and a script begins without stragglers.

`ScriptProofs`: `ObjectRoundTrip`: an action and the object written for it determine
each other. `OwnFile`: the file is what `GenerateJsonDocument` made of the
recorded list. `Resumes`: in the middle of a load the list is a beginning of the recorded
one and the unread objects are those of the rest. With them `RoundTripCorrect`;
`OwnFilesAcceptedCorrect` needs the type of what is in memory only.

What a replay sends is a matter of the whole way from the message to the event.
`MadeInv` has a part for each end of it. `Made` says of the recorded script, and of the one
in the file, that every action but a resize was made by the hook of the message
its timestamp names (`FromMessages`), that nothing a hook made is missing
(`AllRecorded`), and that the list has the order of the messages (`InOrder`). `SentMatches`
says that the i-th event of a replay is one that `Execute` may send for the i-th
action. By `RoundTripCorrect` that action is a recorded one even if a file and a restart
came in between. Then:

* `TextReplayedCorrect`: of the two actions of a key only the second sends a character,
  and `SignedChar` is the identity on 1..127; so characters and typed
  messages correspond one to one.
* `ClicksReplayedCorrect`: only `ClickAction` sends a click, and the left button is the only
  one the mouse hook makes an action of.
* `NoPhantomKeyCorrect`: `Masked` computes which bits of `MK` the message numbers contain.
  For a move and a press they happen to contain at most the left button, which is
  why the assumption on presses is needed. For a release the statement is false.

`LifecycleProofs`: `TypeCorrect` is not immediate: that pages stay within their bound needs
that pages and pending requests together are no more than the popups and the first
tab (`NotebookTyped`). `MapInv`: CEF is asked for a browser once (`AskedOnce`), the handler
under way holds an open browser that is not listed yet, and what is listed is
open (`ListInv`); hence `NoGoneBrowserListedCorrect`. `HookInv` counts the hook
event over the places of `OnAfterCreated`; hence `HooksReadyCorrect`.

The three `Calm*` theorems share one invariant, `LifeInv`. Two of its parts hold at all
times: no page occurs twice and a pending one is not there yet (`PagesInv`), and until the
first browser is up there is no other (`FirstInv`). `CalmInv` holds until
`unrest`: the browser being created is that of the selected tab, which is the last
(`NewSelected`); no two browsers share a tab (`OnePageEach`); an entry of the map, made
or about to be, has the index of its browser's tab, or one behind all tabs if that
browser is dying (`EntriesRight`); every browser is listed (`AllListed`); what a replay has
read of the selection is still so (`FoundRight`). `EntriesRight` shows why
`insert`, which keeps a stale entry, does no harm: a tab added while a browser dies is
unrest.

Model-checked only: liveness (`PayloadsHandled`, `PopupReturnsOrBlocked`,
`MainReleasedOrBlocked`, `SpinEnds`, `ReplayEnds`), since fairness and ENABLED are
beyond the prover.

## 6. Where code and comments disagree

Five disagreements, each shown by a run, are listed in `PROJECT.json` under
`findings`: the assertion of `DoDelay` (1227); the deadlock after a popup's timeout
(`cef_handler.cpp:116`); the assertion of `SendJson` (864); the load that means to
wait for a replay (597); the key-up bit (1543 against 137-139).

Others, seen while modelling and present in the models:

* `OnBeforePopup` never unlocks `tab_mutex` (`cef_handler.cpp:109`).
* "The new page (last)" (`cef_handler.cpp:121`) is another popup's page after a
  timeout, or any page after a tab was closed; a tab closed between the count and the
  lookup makes `assert(new_tab)` (123) end the program.
* A resize that a replay plays while recording is recorded again, by the replay thread
  too, without a lock; stopping the recorder does not stop an append under way.
* Events are never erased; a script is saved with those of earlier ones, although
  `web_event_browser.h:464` calls the list "current".
* After a rejected file the recorder is on and the button offers to start it (1332).
* `GetCefMouseModifiers` takes the message number for a mask of keys (1447); moves
  are played without the button that was held, so drags are lost.
* A character from 128 on becomes negative (159).
* The title stays at "playing" after the replay of an empty list (1198).
* The schema requires "events" without listing it under "properties"
  (`json_schema.cpp`); rapidjson takes a required member for a listed one, so the
  program's own files pass (`OwnFilesAccepted`).

## 7. Not modelled

* The CEF application object: it keeps no state that later code reads.
* Status bar, menus, tree control, icons, the pixels of a screenshot: presentation.
* Load errors, downloads and dialogs in `cef_handler.cpp`: handlers that print or
  return a constant. `on_message` is never registered.
* Undefined behaviour of unsynchronised `std::list` and `std::map` operations: it has no
  outcomes to enumerate; the models take each operation as atomic, and `GetBrowserOnTab`'s
  lookup with its return as one.
* Vendored code (asio, CEF, rapidjson, websocketpp, wxWidgets, by far the largest
  part of the repository): modelled only where the code above depends on its order
  of effects, which is the wx condition, the connection states of websocketpp, and
  what rapidjson makes of a required member.

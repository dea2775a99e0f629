------------------------------ MODULE Recorder ------------------------------
(***************************************************************************)
(* The recorder of WebEventBrowser: class ActionsManager (its state, its   *)
(* two lists and the Push* calls), the hook flag of WevebApp, and the       *)
(* handlers of the threads that reach them without a common lock:          *)
(*                                                                         *)
(*   main  the wxWidgets thread: buttons, OnSize, the two thread-event      *)
(*         workers (web_event_browser.cpp);                                *)
(*   cef   the CEF UI thread: the Windows hooks, OnLoadEnd, the source      *)
(*         visitor (web_event_browser.cpp, cef_handler.cpp);               *)
(*   io    the CEF IO thread: OnResourceResponse (cef_handler.cpp);         *)
(*   and any number of replay threads, whose ResizeAction::Execute sends    *)
(*   the frame a size event and so pushes a resize of its own.             *)
(*                                                                         *)
(* A step is a stretch of code between two points at which another thread  *)
(* can observe or change what the stretch uses.  A recorded action keeps   *)
(* the thread that pushed it, which push of its handler it was, its         *)
(* timestamp and two history fields; an event keeps its kind, its heap      *)
(* identity and the script it was seen in.                                 *)
(* The tree control, the status texts and the outgoing websocket stream    *)
(* are left out: none of them feeds back into this state.                  *)
(***************************************************************************)
EXTENDS Naturals, Sequences

CONSTANTS
  Replays,      \* the replay threads
  Scripts,      \* what a JSON file may hold: sequences over ItemTypes
  MaxTime,      \* bound on the clock
  MaxRec,       \* bound on the number of times the action list is erased
  MaxActions,   \* bound on the length of the action list
  MaxPayloads   \* bound on the heap payloads allocated by the CEF threads

ItemTypes == {"action", "screenshot", "unknown"}

ASSUME ConstantsOK ==
  /\ Replays \cap {"main", "cef", "file"} = {}
  /\ Scripts \subseteq Seq(ItemTypes)
  /\ MaxTime \in Nat /\ MaxRec \in Nat
  /\ MaxActions \in Nat /\ MaxPayloads \in Nat

VARIABLES
  state,            \* ActionsManager::state
  is_hooked,        \* WevebApp::is_hooked
  button,           \* label of the record button
  actions,          \* ActionsManager::actions
  events,           \* ActionsManager::events
  start_timestamp,  \* ActionsManager::start_timestamp
  clock,            \* what wxGetLocalTimeMillis returns
  main,             \* where the main thread is
  loading,          \* the items LoadJsonDocument still has to read
  call,             \* the Push*Action call each pushing thread is inside
  io,               \* the resource OnResourceResponse is about to queue, or none
  sources,          \* scripts for which a GetSource visitor is outstanding
  queue,            \* pending WorkerResourceEvent / WorkerContentEvent events
  freed,            \* payloads given to delete
  made,             \* number of payloads allocated
  rec               \* history: which script the action list holds

vars == <<state, is_hooked, button, actions, events, start_timestamp, clock, main,
          loading, call, io, sources, queue, freed, made, rec>>

recVars     == <<state, is_hooked, button>>
listVars    == <<actions, start_timestamp, rec>>
payloadVars == <<io, sources, queue, freed, made>>

START_RECORD == "START_RECORD"
STOP_RECORD  == "STOP_RECORD"

Pushers == {"main", "cef"} \cup Replays

\* Which push of its handler a call is: the only one, or the key and then the
\* character of a key-down.
Parts  == {"single", "key", "char"}
NoCall == [stage |-> "none", part |-> "single", ts |-> 0, rec |-> 0]
NoLoad  == <<>>
NoId    == 0

\* Where the main thread can be.  In "idle" and "dialog" it runs an event loop,
\* in a sizing it is inside OnSize, which then returns to where it was called.
Sizing == [idle |-> "sizing", dialog |-> "dialogSizing", size |-> "nestedSizing"]
AfterSizing == [sizing |-> "idle", dialogSizing |-> "dialog", nestedSizing |-> "size",
                startSizing |-> "begin"]
MainPoints == {"idle", "dialog", "clear", "stamp", "size", "begin", "unhook",
               "loadClear", "loadStamp", "loading"} \cup DOMAIN AfterSizing

\* state is START_RECORD already, but the list of the previous script is
\* not yet erased.
Opening == main \in {"clear", "loadClear"}

-----------------------------------------------------------------------------
(***************************************************************************)
(* Push*Action.  A handler is entered; the caller evaluates the arguments,  *)
(* ts = wxGetLocalTimeMillis() among them; the callee returns unless state  *)
(* is START_RECORD; then it appends.  No lock covers the four steps.        *)
(***************************************************************************)
\* The call of a handler entered now, for an input of the script at hand.
Entered(part) == [stage |-> "entered", part |-> part, ts |-> 0, rec |-> rec]

At(t, stage, ts) == [stage |-> stage, part |-> call[t].part, ts |-> ts, rec |-> call[t].rec]

\* What the handler does when a Push call of its returns: after the key of a
\* key-down the hook goes on to translate it into a character.
AfterPush(t) == IF call[t].part = "key" THEN At(t, "translate", 0) ELSE NoCall

\* main's continuation when its Push call returns.
MainAfterPush(t) == main' = IF t = "main" THEN AfterSizing[main] ELSE main

\* An action of thread t with the history fields: the script it was seen in
\* and whether the recorder had been stopped when it reached the list.
Action(t) == [by |-> t, part |-> call[t].part, ts |-> call[t].ts,
              rec |-> call[t].rec, late |-> state = STOP_RECORD]

\* The bound on the list: no new call is made that could make it longer.
Room == Len(actions) + 2 <= MaxActions

Evaluate(t) ==
  /\ call[t].stage = "entered"
  /\ call' = [call EXCEPT ![t] = At(t, "called", clock)]
  /\ UNCHANGED <<recVars, listVars, events, clock, main, loading, payloadVars>>

\* Mutation: the test of state is forgotten.
PushCheckUntested(t) ==
  /\ call[t].stage = "called"
  /\ call' = [call EXCEPT ![t] = At(t, "checked", call[t].ts)]
  /\ UNCHANGED <<recVars, listVars, events, clock, main, loading, payloadVars>>

PushCheck(t) ==
  /\ call[t].stage = "called"
  /\ IF state = START_RECORD
     THEN /\ call' = [call EXCEPT ![t] = At(t, "checked", call[t].ts)]
          /\ UNCHANGED main
     ELSE /\ call' = [call EXCEPT ![t] = AfterPush(t)]
          /\ MainAfterPush(t)
  /\ UNCHANGED <<recVars, listVars, events, clock, loading, payloadVars>>

\* Mutation: push_front.
PushAppendFront(t) ==
  /\ call[t].stage = "checked"
  /\ actions' = <<Action(t)>> \o actions
  /\ call' = [call EXCEPT ![t] = AfterPush(t)]
  /\ MainAfterPush(t)
  /\ UNCHANGED <<recVars, events, start_timestamp, clock, loading,
                 payloadVars, rec>>

PushAppend(t) ==
  /\ call[t].stage = "checked"
  /\ actions' = Append(actions, Action(t))
  /\ call' = [call EXCEPT ![t] = AfterPush(t)]
  /\ MainAfterPush(t)
  /\ UNCHANGED <<recVars, events, start_timestamp, clock, loading,
                 payloadVars, rec>>

-----------------------------------------------------------------------------
(***************************************************************************)
(* The CEF UI thread.                                                      *)
(***************************************************************************)
\* MyMouseHook, and MyKeyboardHook for a key-up ("single") or a key-down ("key").
Hook(part) ==
  /\ call["cef"] = NoCall /\ Room
  /\ is_hooked
  /\ call' = [call EXCEPT !["cef"] = Entered(part)]
  /\ UNCHANGED <<recVars, listVars, events, clock, main, loading, payloadVars>>

\* MyKeyboardHook after the key itself: ToAscii yields one character, which is
\* pushed as a second action without a new test of the hook flag, or none.
HookTranslate ==
  /\ call["cef"].stage = "translate"
  /\ \E c \in {NoCall, [At("cef", "entered", 0) EXCEPT !.part = "char"]} :
       call' = [call EXCEPT !["cef"] = c]
  /\ UNCHANGED <<recVars, listVars, events, clock, main, loading, payloadVars>>

\* OnLoadEnd of a main frame while recording asks for the page source.
OnLoadEnd ==
  /\ call["cef"] = NoCall
  /\ state = START_RECORD
  /\ made + Len(sources) < MaxPayloads
  /\ sources' = Append(sources, rec)
  /\ UNCHANGED <<recVars, listVars, events, clock, main, loading,
                 call, io, queue, freed, made>>

\* The source arrives some time later; Visit does not look at state again.
Visit ==
  /\ call["cef"] = NoCall
  /\ sources # <<>>
  /\ made < MaxPayloads
  /\ made' = made + 1
  /\ queue' = Append(queue, [kind |-> "content", id |-> made + 1, rec |-> Head(sources)])
  /\ sources' = Tail(sources)
  /\ UNCHANGED <<recVars, listVars, events, clock, main, loading, call, io, freed>>

(***************************************************************************)
(* A replay thread: ResizeAction::Execute, for an action of the list.  Its   *)
(* SetSize makes the main thread run OnSize (below), its SendSizeEvent makes *)
(* the replay thread run it.                                               *)
(***************************************************************************)
PlayResize(r) ==
  /\ call[r] = NoCall /\ Room
  /\ actions # <<>>
  /\ call' = [call EXCEPT ![r] = Entered("single")]
  /\ UNCHANGED <<recVars, listVars, events, clock, main, loading, payloadVars>>

(***************************************************************************)
(* The CEF IO thread: state is read, the HTTPResourceEvent is filled, and   *)
(* only then the event is queued.                                          *)
(***************************************************************************)
OnResourceResponse ==
  /\ io.id = NoId
  /\ state = START_RECORD
  /\ made < MaxPayloads
  /\ made' = made + 1
  /\ io' = [id |-> made + 1, rec |-> rec]
  /\ UNCHANGED <<recVars, listVars, events, clock, main, loading,
                 call, sources, queue, freed>>

\* Mutation: the event is queued though the response was ignored.
QueueResourceAlways ==
  /\ queue' = Append(queue, [kind |-> "resource", id |-> io.id, rec |-> io.rec])
  /\ io' = [id |-> NoId, rec |-> 0]
  /\ Len(queue) < MaxPayloads
  /\ UNCHANGED <<recVars, listVars, events, clock, main, loading,
                 call, sources, freed, made>>

QueueResource ==
  /\ io.id # NoId
  /\ queue' = Append(queue, [kind |-> "resource", id |-> io.id, rec |-> io.rec])
  /\ io' = [id |-> NoId, rec |-> 0]
  /\ UNCHANGED <<recVars, listVars, events, clock, main, loading,
                 call, sources, freed, made>>

-----------------------------------------------------------------------------
(***************************************************************************)
(* The main thread.                                                        *)
(***************************************************************************)
\* PushScreenshot looks at no state; TakeScreenshot skips it if no path exists.
TakeScreenshot ==
  events' \in {events, Append(events, [kind |-> "screenshot", id |-> NoId, rec |-> rec])}

\* Mutations: the payload is listed after it was deleted; the test of state is
\* forgotten; the events wait until no dialog is open and nothing is recorded.
HandlePayloadDeleted ==
  /\ main \in {"idle", "dialog"} /\ queue # <<>>
  /\ queue' = Tail(queue)
  /\ events' = Append(events, Head(queue))
  /\ freed' = IF state = START_RECORD THEN freed ELSE freed \cup {Head(queue).id}
  /\ UNCHANGED <<recVars, listVars, clock, main, loading, call, io, sources, made>>

HandlePayloadUntested ==
  /\ main \in {"idle", "dialog"} /\ queue # <<>>
  /\ queue' = Tail(queue)
  /\ events' = Append(events, Head(queue))
  /\ UNCHANGED <<recVars, listVars, clock, main, loading, call, io, sources, freed, made>>

HandlePayloadStopped ==
  /\ main = "idle" /\ state = STOP_RECORD /\ queue # <<>>
  /\ queue' = Tail(queue)
  /\ freed' = freed \cup {Head(queue).id}
  /\ UNCHANGED <<recVars, listVars, events, clock, main, loading, call, io, sources, made>>

\* AddResourceWorker / AddContentWorker: PushResourceEvent, PushContentEvent.
\* A content whose file cannot be written is neither kept nor deleted.
HandlePayload ==
  /\ main \in {"idle", "dialog"}
  /\ queue # <<>>
  /\ queue' = Tail(queue)
  /\ IF state # START_RECORD
     THEN /\ freed' = freed \cup {Head(queue).id}
          /\ UNCHANGED events
     ELSE /\ \/ events' = Append(events, Head(queue))
             \/ Head(queue).kind = "content" /\ UNCHANGED events
          /\ UNCHANGED freed
  /\ UNCHANGED <<recVars, listVars, clock, main, loading, call, io, sources, made>>

\* OnRecordScript while stopped: the modal dialog for the initial URL.
RecordClicked ==
  /\ main = "idle" /\ state = STOP_RECORD
  /\ main' = "dialog"
  /\ UNCHANGED <<recVars, listVars, events, clock, loading, call, payloadVars>>

DialogCancelled ==
  /\ main = "dialog"
  /\ main' = "idle"
  /\ UNCHANGED <<recVars, listVars, events, clock, loading, call, payloadVars>>

\* StartRecord, one action per stretch: set state; erase the actions; take the
\* start time; send the size event, whose handler pushes a resize; record the URL
\* and the screenshot, and switch the hooks on.
StartRecord ==
  /\ main = "dialog" /\ rec < MaxRec
  /\ button' = "StopRecord"
  /\ state' = START_RECORD
  /\ main' = "clear"
  /\ UNCHANGED <<is_hooked, listVars, events, clock, loading, call, payloadVars>>

\* Mutation: the list is kept.
DeleteActionsKept ==
  /\ Opening
  /\ rec' = rec + 1
  /\ main' = IF main = "clear" THEN "stamp" ELSE "loadStamp"
  /\ UNCHANGED <<recVars, actions, start_timestamp, events, clock, loading, call,
                 payloadVars>>

\* DeleteActions, called by StartRecord and by LoadJsonDocument.
DeleteActions ==
  /\ Opening
  /\ actions' = <<>>
  /\ rec' = rec + 1
  /\ main' = IF main = "clear" THEN "stamp" ELSE "loadStamp"
  /\ UNCHANGED <<recVars, start_timestamp, events, clock, loading, call, payloadVars>>

\* After the tree items are deleted: the time of day, or what the file says.
SetStartTime ==
  /\ \/ main = "stamp" /\ start_timestamp' = clock /\ main' = "size"
     \/ main = "loadStamp" /\ start_timestamp' = 0 /\ main' = "loading"
  /\ UNCHANGED <<recVars, actions, rec, events, clock, loading, call, payloadVars>>

SendSizeEvent ==
  /\ main = "size"
  /\ call' = [call EXCEPT !["main"] = Entered("single")]
  /\ main' = "startSizing"
  /\ UNCHANGED <<recVars, listVars, events, clock, loading, payloadVars>>

StartHook ==
  /\ main = "begin"
  /\ TakeScreenshot
  /\ is_hooked' = TRUE
  /\ main' = "idle"
  /\ UNCHANGED <<state, button, listVars, clock, loading, call, payloadVars>>

\* Mutation: stopping erases the list.
StopRecordErased ==
  /\ main = "idle" /\ state = START_RECORD
  /\ button' = "RecordScript" /\ state' = STOP_RECORD /\ actions' = <<>>
  /\ main' = "unhook"
  /\ UNCHANGED <<is_hooked, start_timestamp, rec, events, clock, loading, call,
                 payloadVars>>

\* OnRecordScript while recording: StopRecord.
StopRecord ==
  /\ main = "idle" /\ state = START_RECORD
  /\ button' = "RecordScript"
  /\ state' = STOP_RECORD
  /\ main' = "unhook"
  /\ UNCHANGED <<is_hooked, listVars, events, clock, loading, call, payloadVars>>

\* Mutation: the hooks stay on.
StopHookForgotten ==
  /\ main = "unhook"
  /\ TakeScreenshot
  /\ main' = "idle"
  /\ UNCHANGED <<recVars, listVars, clock, loading, call, payloadVars>>

StopHook ==
  /\ main = "unhook"
  /\ is_hooked' = FALSE
  /\ TakeScreenshot
  /\ main' = "idle"
  /\ UNCHANGED <<state, button, listVars, clock, loading, call, payloadVars>>

\* OnSize when the user resizes the frame, or when a replay's SetSize does: then
\* also in the dialog, and within an OnSize that waits for the browser's window.
OnSize ==
  /\ main = "idle" \/ (main \in {"dialog", "size"} /\ Replays # {})
  /\ Room
  /\ call' = [call EXCEPT !["main"] = Entered("single")]
  /\ main' = Sizing[main]
  /\ UNCHANGED <<recVars, listVars, events, clock, loading, payloadVars>>

\* LoadJsonFile refuses unless stopped; LoadJsonDocument then replays the file
\* through the Push calls with state set to START_RECORD.  The timestamps of a
\* file lie before those of this run and are all 0 here.
LoadJsonFile ==
  /\ main = "idle" /\ state = STOP_RECORD /\ rec < MaxRec
  /\ \E s \in Scripts : loading' = s
  /\ state' = START_RECORD
  /\ main' = "loadClear"
  /\ UNCHANGED <<is_hooked, button, listVars, events, clock, call, payloadVars>>

LoadItem ==
  /\ main = "loading" /\ loading # <<>>
  /\ \/ /\ Head(loading) = "action"
        /\ actions' = Append(actions, [by |-> "file", part |-> "single", ts |-> 0,
                                     rec |-> rec, late |-> FALSE])
        /\ loading' = Tail(loading)
        /\ UNCHANGED <<events, main>>
     \/ /\ Head(loading) = "screenshot"
        /\ events' = Append(events, [kind |-> "screenshot", id |-> NoId, rec |-> rec])
        /\ loading' = Tail(loading)
        /\ UNCHANGED <<actions, main>>
     \/ /\ Head(loading) = "unknown"          \* return false: state is left as it is
        /\ loading' = NoLoad
        /\ main' = "idle"
        /\ UNCHANGED <<actions, events>>
  /\ UNCHANGED <<recVars, start_timestamp, clock, call, payloadVars, rec>>

LoadDone ==
  /\ main = "loading" /\ loading = <<>>
  /\ state' = STOP_RECORD
  /\ main' = "idle"
  /\ UNCHANGED <<is_hooked, button, listVars, events, clock, loading, call, payloadVars>>

\* OnSaveToFile writes this document when it is allowed to.
CanSave == main = "idle" /\ state = STOP_RECORD
SavedDocument == [start_time |-> start_timestamp, events |-> events, actions |-> actions]

Tick ==
  /\ clock < MaxTime
  /\ clock' = clock + 1
  /\ UNCHANGED <<recVars, listVars, events, main, loading, call, payloadVars>>

-----------------------------------------------------------------------------
Init ==
  /\ state = STOP_RECORD /\ is_hooked = FALSE /\ button = "RecordScript"
  /\ actions = <<>> /\ events = <<>> /\ start_timestamp = 0
  /\ clock = 0 /\ main = "idle" /\ loading = NoLoad
  /\ call = [t \in Pushers |-> NoCall]
  /\ io = [id |-> NoId, rec |-> 0] /\ sources = <<>> /\ queue = <<>>
  /\ freed = {} /\ made = 0 /\ rec = 0

MainStep ==
  \/ RecordClicked \/ DialogCancelled
  \/ StartRecord \/ DeleteActions \/ SetStartTime \/ SendSizeEvent \/ StartHook
  \/ StopRecord \/ StopHook \/ OnSize
  \/ LoadJsonFile \/ LoadItem \/ LoadDone
  \/ HandlePayload

CefStep == (\E part \in {"single", "key"} : Hook(part)) \/ HookTranslate \/ OnLoadEnd \/ Visit

IoStep == OnResourceResponse \/ QueueResource

Next ==
  \/ MainStep \/ CefStep \/ IoStep \/ Tick
  \/ \E r \in Replays : PlayResize(r)
  \/ \E t \in Pushers : Evaluate(t) \/ PushCheck(t) \/ PushAppend(t)

Spec == Init /\ [][Next]_vars

\* The event loop runs the pending thread events on every iteration, and a
\* thread that has entered a handler is scheduled until it leaves it.
Fairness ==
  /\ SF_vars(HandlePayload)
  /\ WF_vars(DeleteActions) /\ WF_vars(SetStartTime) /\ WF_vars(SendSizeEvent)
  /\ WF_vars(StartHook) /\ WF_vars(StopHook)
  /\ WF_vars(LoadItem) /\ WF_vars(LoadDone)
  /\ WF_vars(QueueResource)
  /\ \A t \in Pushers : WF_vars(Evaluate(t)) /\ WF_vars(PushCheck(t)) /\ WF_vars(PushAppend(t))

FairSpec == Spec /\ Fairness

-----------------------------------------------------------------------------
(***************************************************************************)
(* Properties.                                                             *)
(***************************************************************************)
CallType    == [stage: {"none", "entered", "called", "checked", "translate"},
                part: Parts, ts: Nat, rec: Nat]
ActionType  == [by: Pushers \cup {"file"}, part: Parts, ts: Nat, rec: Nat, late: BOOLEAN]
PayloadType == [kind: {"resource", "content"}, id: Nat \ {NoId}, rec: Nat]
EventType   == PayloadType \cup [kind: {"screenshot"}, id: {NoId}, rec: Nat]

\* The variables keep their types; in particular every queued event carries a
\* payload that was allocated (AddResourceWorker dereferences it unasked).
TypeOK ==
  /\ state \in {START_RECORD, STOP_RECORD}
  /\ is_hooked \in BOOLEAN
  /\ button \in {"RecordScript", "StopRecord"}
  /\ actions \in Seq(ActionType)
  /\ events \in Seq(EventType)
  /\ start_timestamp \in Nat /\ clock \in Nat
  /\ main \in MainPoints
  /\ loading \in Seq(ItemTypes)
  /\ call \in [Pushers -> CallType]
  /\ io \in [id: Nat, rec: Nat]
  /\ sources \in Seq(Nat)
  /\ queue \in Seq(PayloadType)
  /\ freed \subseteq Nat \ {NoId}
  /\ made \in Nat /\ rec \in Nat

\* Stopping the recorder is not a barrier for the hooks and the replays, but it
\* nearly is: of all the Push calls, only those that had passed their test of state
\* before StopRecord can still reach the list, so a stopped script grows by one
\* action of the CEF thread and of each replay thread at most, and by none of main.
OneStraggler ==
  \A i, j \in 1..Len(actions) : actions[i].late /\ actions[j].late =>
    /\ actions[i].by # "main"
    /\ actions[i].by = actions[j].by => i = j

\* Starting a script erases the previous one, and only what a thread had under way
\* can slip into the new list: one resize of each replay thread, and one input of
\* the CEF thread, which is two actions when it is a key-down, the key and then its
\* character.
Stray(i) == actions[i].rec # rec
OneStray ==
  \A i, j \in 1..Len(actions) : Stray(i) /\ Stray(j) =>
    /\ actions[i].by \in {"cef"} \cup Replays
    /\ i < j /\ actions[i].by = actions[j].by
         => actions[i].part = "key" /\ actions[j].part = "char"

\* What DoDelay asserts before each wait (t >= time_cursor) does hold for the
\* actions of this script that one thread has pushed: their timestamps never go
\* back, and unless a replay pushed them between the erasing of the list and the
\* taking of the start time, they start no earlier than start_timestamp.
ThreadReplayable ==
  \A j \in 1..Len(actions) : actions[j].rec = rec =>
    /\ actions[j].by \notin Replays => start_timestamp <= actions[j].ts
    /\ \A i \in 1..j : actions[i].rec = rec /\ actions[i].by = actions[j].by
                         => actions[i].ts <= actions[j].ts

\* A payload allocated by a CEF thread has at most one owner: the handler that
\* fills it, one queued event, one element of the event list, or the heap it was
\* returned to.  So none is deleted twice, or listed after it was deleted.
PayloadOwned ==
  LET owners == <<io.id>> \o [i \in 1..Len(queue) |-> queue[i].id]
                          \o [i \in 1..Len(events) |-> events[i].id]
  IN \A i \in 1..Len(owners) : owners[i] # NoId =>
       /\ owners[i] \in 1..made
       /\ owners[i] \notin freed
       /\ \A j \in 1..Len(owners) : owners[i] = owners[j] => i = j

\* While the recorder is stopped and the main thread is in its event loop, no
\* resource or source that arrives late changes the list that would be saved.
EventsFrozen == [][CanSave => events' = events]_vars

\* Every queued payload is eventually taken off the queue, in a dialog too.
Queued(id) == \E i \in 1..Len(queue) : queue[i].id = id
PayloadsHandled == \A id \in 1..MaxPayloads : Queued(id) ~> ~Queued(id)

\* Whenever the main thread is in an event loop, whatever was recorded, loaded or
\* rejected before, the hooks are on exactly while the button offers to stop them,
\* and then the recorder takes what they push.  Only a rejected file leaves the
\* recorder on with neither (1332); the next click on the button ends that.
HookAgreesWithState ==
  main \in {"idle", "dialog"} =>
    /\ is_hooked <=> button = "StopRecord"
    /\ is_hooked => state = START_RECORD

\* The list keeps the promise of RecordingLog.
Phase == IF state = STOP_RECORD THEN "off" ELSE IF Opening THEN "opening" ELSE "on"
Straggled == {actions[i].by : i \in {k \in 1..Len(actions) : actions[k].late}}
Log == INSTANCE RecordingLog
         WITH phase <- Phase, log <- actions, straggled <- Straggled,
              Stragglers <- Pushers \ {"main"}
ImplementsLog == Log!Spec

(***************************************************************************)
(* What the repository says and the code does not keep.                    *)
(***************************************************************************)
\* web_event_browser.cpp:1227, "assert(t >= time_cursor)": replaying a recorded
\* script from start_timestamp never meets a timestamp that goes back.
ReplayAssertHolds ==
  \A i \in 1..Len(actions) :
    actions[i].ts >= (IF i = 1 THEN start_timestamp ELSE actions[i-1].ts)
=============================================================================

------------------------------- MODULE Replay -------------------------------
(***************************************************************************)
(* Playing the recorded list.  Every click on Play starts a thread of its   *)
(* own (ReplayingThread) that walks ActionsManager::actions, executes each  *)
(* action and sleeps; all of them share time_cursor, the title and the      *)
(* playing icon, and no lock keeps the list in place.  What the hooks do to *)
(* the list meanwhile is what RecordingLog, the specification of the        *)
(* recorder, allows; the main thread opens, loads and closes scripts and    *)
(* has the windows: a replay thread that calls one of them waits until the  *)
(* main thread takes the message, for ever if that is stuck.  The           *)
(* timestamps are arbitrary, as they are in a file.                         *)
(*                                                                         *)
(* A list iterator is an index, 0 when the element it was at is deleted: the *)
(* list only grows at its end or is erased as a whole.                      *)
(***************************************************************************)
EXTENDS RecordingLog, FiniteSets

CONSTANTS
  Cef,          \* the thread of the hook; the other Stragglers are the replay threads
  Kinds,        \* kinds of actions: "plain", "resize"
  MaxTime,      \* bound on the timestamps
  MaxLog,       \* bound on the length of the list; the last place is left to what
                \* a replay's own OnSize pushes
  MaxErasures   \* bound on the number of scripts

ASSUME ReplayAssumption ==
  /\ Cef \in Stragglers
  /\ Kinds \subseteq {"plain", "resize"}
  /\ {MaxTime, MaxLog, MaxErasures} \subseteq Nat

VARIABLES
  main,             \* the main thread: "free" for messages; "opening" a script in
                    \* StartRecord or LoadJsonDocument; "reading" the actions of a
                    \* file; "stuck"
  start_timestamp,  \* ActionsManager::start_timestamp
  erasures,         \* the number of scripts that were opened
  time_cursor,      \* ActionsManager::time_cursor
  title,            \* the title of the frame says "playing"
  icon,             \* the playing icon is shown
  player,           \* one record for each replay thread
  fault,            \* "no", "dangling" or "assert"
  disturbed,        \* history: the last replay began while another ran, or a list
                    \* was erased or its start time set under it
  foundEmpty        \* history: the last replay found the list empty

listVars   == <<logVars, main, start_timestamp, erasures>>
showVars   == <<title, icon>>
replayVars == <<time_cursor, showVars, player, fault, foundEmpty>>
vars       == <<listVars, replayVars, disturbed>>

Replays == Stragglers \ {Cef}
Times   == 0..MaxTime

Idle == [at |-> "none", i |-> 0]

\* Replay r is in the call of Execute for a resize.
Resizing(r) == player[r].at \in {"sized", "tested", "listed"}

\* Inside Play, and inside ReplayingThread::Entry.
Playing(r) == player[r].at \in {"new", "begun", "exec", "delay", "sleep", "title"} \/ Resizing(r)
Alive(r)   == Playing(r) \/ player[r].at = "stop"

SomeAlive == \E r \in Replays : Alive(r)

\* A message sent to a window of the main thread is handled.
MainFree == main = "free"

Running == fault = "no"

\* There is room for n elements besides those the replays are about to push.
Room(n) == Len(log) + Cardinality({r \in Replays : player[r].at = "tested"}) + n <= MaxLog

-----------------------------------------------------------------------------
(***************************************************************************)
(* The recorder, and a file being loaded.                                  *)
(***************************************************************************)
Elements == [ts: Times, kind: Kinds]

\* A script is started, by the button or by LoadJsonDocument; either looks
\* only at the state of the recorder.
OpenScript ==
  /\ MainFree
  /\ Open
  /\ erasures < MaxErasures
  /\ main' = "opening"
  /\ UNCHANGED <<start_timestamp, erasures, replayVars, disturbed>>

\* The actions are deleted, and with them what every iterator is at.
EraseScript ==
  /\ Erase
  /\ erasures' = erasures + 1
  /\ player' = [r \in Replays |-> [player[r] EXCEPT !.i = 0]]
  /\ disturbed' = (disturbed \/ SomeAlive)
  /\ UNCHANGED <<main, start_timestamp, time_cursor, showVars, fault, foundEmpty>>

\* The time of the start is set when the list is empty already: the time it is, or
\* the one of the file.
SetStartTime ==
  /\ main = "opening" /\ phase = "on"
  /\ main' \in {"free", "reading"}
  /\ start_timestamp' \in Times
  /\ disturbed' = (disturbed \/ SomeAlive)
  /\ UNCHANGED <<logVars, erasures, replayVars>>

\* An action of the main thread, of the hook or of a file; after StopRecord one of
\* the hook.
RecordAction ==
  /\ Room(2)
  /\ \E e \in Elements : log' = Append(log, e)
  /\ \/ Note
     \/ Straggle /\ straggled' = straggled \cup {Cef}
  /\ UNCHANGED <<main, start_timestamp, erasures, replayVars, disturbed>>

\* StopRecord, or the end of the file.
CloseScript ==
  /\ Close
  /\ main \in {"free", "reading"} /\ main' = "free"
  /\ UNCHANGED <<start_timestamp, erasures, replayVars, disturbed>>

\* An action of an unknown type: the load is given up and the recorder stays on.
RejectScript ==
  /\ main = "reading" /\ main' = "free"
  /\ UNCHANGED <<logVars, start_timestamp, erasures, replayVars, disturbed>>

\* The main thread waits for ever, as Popup shows it can.
BlockMain ==
  /\ MainFree
  /\ main' = "stuck"
  /\ UNCHANGED <<logVars, start_timestamp, erasures, replayVars, disturbed>>

-----------------------------------------------------------------------------
(***************************************************************************)
(* OnPlay, on the main thread.                                             *)
(***************************************************************************)
OnPlay(r) ==
  /\ MainFree
  /\ player[r] = Idle /\ r = CHOOSE s \in Replays : player[s] = Idle
  /\ title' = TRUE /\ icon' = TRUE
  /\ player' = [player EXCEPT ![r].at = "new"]
  /\ disturbed' = SomeAlive
  /\ foundEmpty' = FALSE
  /\ UNCHANGED <<listVars, time_cursor, fault>>

-----------------------------------------------------------------------------
(***************************************************************************)
(* The replay thread r.                                                    *)
(***************************************************************************)
\* The range-for comes to the i-th element, or to the end.
Iterate(r, i) ==
  player' = [player EXCEPT ![r] = IF i <= Len(log)
               THEN [at |-> "exec", i |-> i]
               ELSE [Idle EXCEPT !.at = "title"]]

\* Play returns at once from an empty list; the title stays.
BeginPlay(r) ==
  /\ player[r].at = "new"
  /\ player' = [player EXCEPT ![r].at = IF log = <<>> THEN "stop" ELSE "begun"]
  /\ foundEmpty' = (log = <<>>)
  /\ UNCHANGED <<time_cursor, showVars, fault>>

\* Mutation: time_cursor keeps the value of the last replay.
SetCursorForgotten(r) ==
  /\ player[r].at = "begun"
  /\ Iterate(r, 1)
  /\ UNCHANGED <<time_cursor, showVars, fault, foundEmpty>>

\* The start page is being loaded; then time_cursor is set and the loop begins.
SetCursor(r) ==
  /\ player[r].at = "begun"
  /\ time_cursor' = start_timestamp
  /\ Iterate(r, 1)
  /\ UNCHANGED <<showVars, fault, foundEmpty>>

\* The element the iterator of r is at; it may have been deleted.
Dangling(r) == player[r].i = 0
Element(r)  == log[player[r].i]

Crash(r) ==
  /\ player[r].at \in {"exec", "delay", "sleep"} /\ Dangling(r)
  /\ fault' = "dangling"
  /\ UNCHANGED <<time_cursor, showVars, player, foundEmpty>>

\* A resize of the time it is.
PushResize == \E t \in Times : log' = Append(log, [ts |-> t, kind |-> "resize"])

\* Execute sends the action to the browser.  For a resize SetSize makes the main
\* thread size the frame, which then calls OnSize if the size is another one and
\* records another resize if the recorder is on; and SendSizeEvent calls OnSize on
\* the replay thread itself, which has the main thread size the tree, ...
Execute(r) ==
  /\ player[r].at = "exec" /\ ~Dangling(r)
  /\ IF Element(r).kind = "resize"
     THEN /\ MainFree
          /\ player' = [player EXCEPT ![r].at = "sized"]
          /\ \/ UNCHANGED logVars
             \/ phase = "on" /\ Room(2) /\ PushResize /\ Note
     ELSE /\ player' = [player EXCEPT ![r].at = "delay"]
          /\ UNCHANGED logVars
  /\ UNCHANGED <<main, start_timestamp, erasures, time_cursor, showVars, fault, foundEmpty>>

\* Mutation: whether the recorder is on or not.
TestStateForgotten(r) ==
  /\ player[r].at = "sized"
  /\ Room(1)
  /\ player' = [player EXCEPT ![r].at = "tested"]
  /\ UNCHANGED <<time_cursor, showVars, fault, foundEmpty>>

\* ... and goes to PushResizeAction, which tests whether the recorder is on, ...
TestState(r) ==
  /\ player[r].at = "sized"
  /\ \/ /\ phase = "off"
        /\ player' = [player EXCEPT ![r].at = "delay"]
     \/ /\ phase # "off" /\ Room(1)
        /\ player' = [player EXCEPT ![r].at = "tested"]
  /\ UNCHANGED <<time_cursor, showVars, fault, foundEmpty>>

\* ... pushes the resize, whatever became of the recorder meanwhile, ...
PushTested(r) ==
  /\ player[r].at = "tested"
  /\ PushResize
  /\ straggled' = IF phase = "off" THEN straggled \cup {r} ELSE straggled
  /\ player' = [player EXCEPT ![r].at = "listed"]
  /\ UNCHANGED <<phase, main, start_timestamp, erasures, time_cursor, showVars, fault, foundEmpty>>

\* ... and adds it to the tree.
AppendItem(r) ==
  /\ player[r].at = "listed" /\ MainFree
  /\ player' = [player EXCEPT ![r].at = "delay"]
  /\ UNCHANGED <<time_cursor, showVars, fault, foundEmpty>>

\* DoDelay: how long until the time of this action, after it was executed?
DoDelay(r) ==
  LET t == Element(r).ts
  IN /\ player[r].at = "delay" /\ ~Dangling(r)
     /\ IF t >= time_cursor
        THEN /\ player' = [player EXCEPT ![r].at = "sleep"]
             /\ UNCHANGED fault
        ELSE fault' = "assert" /\ UNCHANGED player
     /\ UNCHANGED <<time_cursor, showVars, foundEmpty>>

\* Mutation: time_cursor stays where the replay began.
WakeUpOnly(r) ==
  /\ player[r].at = "sleep" /\ ~Dangling(r)
  /\ Iterate(r, player[r].i + 1)
  /\ UNCHANGED <<time_cursor, showVars, fault, foundEmpty>>

\* Mutation: the time is added to time_cursor.
WakeUpAdds(r) ==
  /\ player[r].at = "sleep" /\ ~Dangling(r)
  /\ time_cursor' = time_cursor + Element(r).ts
  /\ Iterate(r, player[r].i + 1)
  /\ UNCHANGED <<showVars, fault, foundEmpty>>

\* After the sleep: time_cursor is set and the loop goes on.
WakeUp(r) ==
  /\ player[r].at = "sleep" /\ ~Dangling(r)
  /\ time_cursor' = Element(r).ts
  /\ Iterate(r, player[r].i + 1)
  /\ UNCHANGED <<showVars, fault, foundEmpty>>

\* The loop is over and the title put back.
PutTitleBack(r) ==
  /\ player[r].at = "title" /\ MainFree
  /\ title' = FALSE
  /\ player' = [player EXCEPT ![r].at = "stop"]
  /\ UNCHANGED <<time_cursor, icon, fault, foundEmpty>>

\* Mutation: the icon is left on.
StopPlayForgotten(r) ==
  /\ player[r].at = "stop" /\ MainFree
  /\ player' = [player EXCEPT ![r] = Idle]
  /\ UNCHANGED <<time_cursor, showVars, fault, foundEmpty>>

\* Play has returned to Entry.
StopPlay(r) ==
  /\ player[r].at = "stop" /\ MainFree
  /\ icon' = FALSE
  /\ player' = [player EXCEPT ![r] = Idle]
  /\ UNCHANGED <<time_cursor, title, fault, foundEmpty>>

-----------------------------------------------------------------------------
ReplayInit ==
  /\ Init
  /\ main = "free" /\ start_timestamp = 0 /\ erasures = 0 /\ time_cursor = 0
  /\ title = FALSE /\ icon = FALSE
  /\ player = [r \in Replays |-> Idle]
  /\ fault = "no" /\ disturbed = FALSE /\ foundEmpty = FALSE

ListStep ==
  \/ OpenScript \/ EraseScript \/ SetStartTime \/ RecordAction \/ CloseScript \/ RejectScript
  \/ BlockMain

ThreadStep(r) ==
  /\ Running
  /\ UNCHANGED disturbed
  /\ \/ Execute(r) \/ PushTested(r)
     \/ /\ UNCHANGED listVars
        /\ \/ BeginPlay(r) \/ SetCursor(r) \/ TestState(r) \/ AppendItem(r)
           \/ DoDelay(r) \/ WakeUp(r) \/ PutTitleBack(r) \/ StopPlay(r) \/ Crash(r)

ReplayNext ==
  \/ Running /\ ListStep
  \/ Running /\ \E r \in Replays : OnPlay(r)
  \/ \E r \in Replays : ThreadStep(r)

ReplaySpec == ReplayInit /\ [][ReplayNext]_vars

\* A replay thread is scheduled, its sleeps end, and a main thread that stays free
\* takes its messages.
FairSpec == ReplaySpec /\ \A r \in Replays : WF_vars(ThreadStep(r))

-----------------------------------------------------------------------------
(***************************************************************************)
(* Properties.                                                             *)
(***************************************************************************)
Points == {"none", "new", "begun", "exec", "sized", "tested", "listed", "delay", "sleep",
           "title", "stop"}

TypeOK ==
  /\ log \in Seq(Elements) /\ phase \in {"off", "opening", "on"}
  /\ straggled \subseteq Stragglers
  /\ main \in {"free", "opening", "reading", "stuck"}
  /\ start_timestamp \in Times /\ time_cursor \in Times /\ erasures \in 0..MaxErasures
  /\ title \in BOOLEAN /\ icon \in BOOLEAN
  /\ player \in [Replays -> [at: Points, i: Nat]]
  /\ fault \in {"no", "dangling", "assert"}
  /\ disturbed \in BOOLEAN /\ foundEmpty \in BOOLEAN

\* The list can be played: nothing in it is older than what is before it.
Ordered ==
  \A i \in 1..Len(log) :
    log[i].ts >= IF i = 1 THEN start_timestamp ELSE log[i - 1].ts

\* A replay that runs alone over a list that is not erased meanwhile never
\* touches a deleted action, and the assertion of DoDelay fails only on a list
\* that goes back in time, whatever was recorded or played before.
ReplaySafe ==
  /\ fault = "dangling" => disturbed
  /\ fault = "assert" => disturbed \/ ~Ordered

\* Such a replay keeps the recorded pace, one action early: when action i is
\* executed, time_cursor is the time of action i-1 (at first the start time), so
\* that the sleeps so far, each up to an action's time from the cursor before it,
\* add up to that.
Pace ==
  ~disturbed =>
    \A r \in Replays : player[r].at = "exec" =>
      time_cursor = IF player[r].i = 1 THEN start_timestamp ELSE log[player[r].i - 1].ts

\* Title and icon tell whether a replay runs; but after the replay of an empty
\* list the title goes on to say so.
TitleAndIconTell ==
  ~disturbed =>
    /\ icon <=> SomeAlive
    /\ (\E r \in Replays : Playing(r)) => title
    /\ title => foundEmpty \/ \E r \in Replays : Playing(r)

\* The recorder's promise: with replays that push resizes too, the list of a script
\* that was closed grows by one action of each replay and one of the hook at most.
KeepsLog == Spec

\* A replay ends if the recorder is off for good, which adds a resize for every
\* resize played as long as it is on, and if the main thread does not get stuck.
\* Two replays may run and files be loaded.
ReplayEnds ==
  \A r \in Replays :
    []<>(player[r] = Idle \/ phase # "off" \/ main = "stuck" \/ ~Running)

(***************************************************************************)
(* What the repository says and the code does not keep.                    *)
(***************************************************************************)
\* web_event_browser.cpp:597, "Failed to open, please stop play actions": no file
\* is loaded, and the list erased for it, while actions are played.
LoadWaitsForReplay ==
  main = "reading" => \A r \in Replays : ~Playing(r)
=============================================================================

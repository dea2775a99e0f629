------------------------------- MODULE Script -------------------------------
(***************************************************************************)
(* What a script is made of, from the window messages the hooks see to the  *)
(* events CEF is sent: MyMouseHook and MyKeyboardHook make actions of       *)
(* messages, GetJsonObject and GenerateJsonDocument make a file of the      *)
(* actions, LoadJsonFile and LoadJsonDocument read it, in this process or   *)
(* the next one, and Execute makes events of them.  Who calls these when,   *)
(* and from which threads, is in Recorder and Replay; here one thing        *)
(* happens after the other.                                                *)
(*                                                                         *)
(* The key-up bit of an LPARAM stands for all of it.                        *)
(***************************************************************************)
EXTENDS Naturals, Integers, Sequences

CONSTANTS
  Messages,    \* window messages the user may cause, see MessagesOK
  Foreign,     \* documents written by other programs
  Live,        \* sets of keys that may be down or toggled during a replay
  MaxInput,    \* bound on the messages of all scripts
  MaxScripts,  \* bound on the scripts recorded
  MaxEvents    \* bound on the screenshots in memory when a file is loaded

\* Windows' message and key-mask numbers.
WM_MOUSEMOVE   == 512
WM_LBUTTONDOWN == 513
WM_LBUTTONUP   == 514
WM_RBUTTONDOWN == 516
WM_RBUTTONUP   == 517
WM_MOUSEWHEEL  == 522

MK == [LBUTTON |-> 1, RBUTTON |-> 2, SHIFT |-> 4, CONTROL |-> 8, MBUTTON |-> 16]

MouseMessage == [dev: {"mouse"}, wp: Nat, x: Int, y: Int, delta: Int, keys: SUBSET DOMAIN MK]
KeyMessage   == [dev: {"key"}, wp: Nat, up: BOOLEAN, text: Seq(0..255)]

\* keys are those the user holds, the button that goes down included; text is what
\* ToAscii makes of the key.
ASSUME MessagesOK ==
  /\ Messages \subseteq MouseMessage \cup KeyMessage
  /\ \A m \in Messages : m.dev = "mouse" /\ m.wp = WM_LBUTTONDOWN => "LBUTTON" \in m.keys
  /\ MaxInput \in Nat /\ MaxScripts \in Nat /\ MaxEvents \in Nat

VARIABLES
  recording,  \* ActionsManager::state is START_RECORD
  is_hooked,  \* the hooks record
  actions,    \* ActionsManager::actions
  events,     \* ActionsManager::events: the screenshots, by their time
  start,      \* start_timestamp and start_url
  loading,    \* inside LoadJsonDocument ...
  unread,     \* ... with these objects of the document still to come
  scripts,    \* number of scripts recorded, ...
  inputs,     \* ... and of messages
  file,       \* the file on disk, or NoFile
  warned,     \* LoadJsonFile has shown the schema's verdict
  playing,    \* index of the next action of the replay, or 0
  sent,       \* what the replay of this script has sent to CEF, with the actions
  origin,     \* history: messages and actions of the script in memory, ...
  fileOrigin  \* ... of the one in the file

memory == <<recording, is_hooked, actions, events, start, loading, unread>>
counts == <<scripts, inputs>>
vars   == <<memory, counts, file, warned, playing, sent, origin, fileOrigin>>

NoFile   == [actions |-> <<>>]
NoScript == [known |-> FALSE, input |-> <<>>, actions |-> <<>>, start |-> [time |-> 0, url |-> ""]]

-----------------------------------------------------------------------------
(***************************************************************************)
(* The hooks.                                                              *)
(***************************************************************************)
\* A character code as the char of PushTypeAction.
SignedChar(c) == IF c >= 128 THEN c - 256 ELSE c

Click(m, ts) == [class |-> "ClickAction", x |-> m.x, y |-> m.y, wp |-> m.wp, timestamp |-> ts]
Move(m, ts)  == [Click(m, ts) EXCEPT !.class = "MouseMoveAction"]
Wheel(m, ts) == [class |-> "MouseWheelAction", x |-> m.x, y |-> m.y, wp |-> m.wp,
                 delta |-> m.delta, timestamp |-> ts]
Type(m, c, ts) == [class |-> "TypeAction", wp |-> m.wp, up |-> m.up, ch |-> c, timestamp |-> ts]

MyMouseHook(m, ts) ==
  CASE m.wp \in {WM_LBUTTONDOWN, WM_LBUTTONUP} -> <<Click(m, ts)>>
    [] m.wp = WM_MOUSEMOVE                     -> <<Move(m, ts)>>
    [] m.wp = WM_MOUSEWHEEL                    -> <<Wheel(m, ts)>>
    [] OTHER                                   -> <<>>

\* "WM_KEYDOWN -> WM_CHAR": a key that goes down and makes one character is
\* recorded twice.
MyKeyboardHook(m, ts) ==
  <<Type(m, 0, ts)>> \o
  (IF ~m.up /\ Len(m.text) = 1 THEN <<Type(m, SignedChar(m.text[1]), ts)>> ELSE <<>>)

\* OnSize pushes the frame's size.
Resized(width, ts) ==
  [class |-> "ResizeAction", width |-> width, height |-> 600, timestamp |-> ts]

Hook(m, ts) == IF m.dev = "mouse" THEN MyMouseHook(m, ts) ELSE MyKeyboardHook(m, ts)

-----------------------------------------------------------------------------
(***************************************************************************)
(* Files.  A JSON object is a record of its members.                       *)
(***************************************************************************)
\* Mutation: a wheel is written like a move.
WheelObjectMove(a) == [type |-> "wheel", x |-> a.x, y |-> a.y, wp |-> a.wp, delta |-> 0,
                       time |-> a.timestamp]

ClickObject(a)  == [type |-> "click", x |-> a.x, y |-> a.y, wp |-> a.wp, time |-> a.timestamp]
MoveObject(a)   == [type |-> "move", x |-> a.x, y |-> a.y, wp |-> a.wp, time |-> a.timestamp]
WheelObject(a)  == [type |-> "wheel", x |-> a.x, y |-> a.y, wp |-> a.wp, delta |-> a.delta,
                    time |-> a.timestamp]
TypeObject(a)   == [type |-> "type", wp |-> a.wp, lp |-> a.up, ch |-> a.ch, time |-> a.timestamp]
ResizeObject(a) == [type |-> "resize", width |-> a.width, height |-> a.height,
                    time |-> a.timestamp]

\* The virtual Action::GetJsonObject.
GetJsonObject(a) ==
  CASE a.class = "ClickAction"      -> ClickObject(a)
    [] a.class = "MouseMoveAction"  -> MoveObject(a)
    [] a.class = "MouseWheelAction" -> WheelObject(a)
    [] a.class = "TypeAction"       -> TypeObject(a)
    [] a.class = "ResizeAction"     -> ResizeObject(a)

GenerateJsonDocument ==
  [start_time |-> start.time, start_url |-> start.url,
   events     |-> [i \in DOMAIN events |-> [type |-> "screenshot", time |-> events[i]]],
   actions    |-> [i \in DOMAIN actions |-> GetJsonObject(actions[i])]]

\* The action a JSON object is turned into.
ActionOf(o) ==
  CASE o.type = "click"  -> [class |-> "ClickAction", x |-> o.x, y |-> o.y, wp |-> o.wp,
                             timestamp |-> o.time]
    [] o.type = "move"   -> [class |-> "MouseMoveAction", x |-> o.x, y |-> o.y, wp |-> o.wp,
                             timestamp |-> o.time]
    [] o.type = "wheel"  -> [class |-> "MouseWheelAction", x |-> o.x, y |-> o.y, wp |-> o.wp,
                             delta |-> o.delta, timestamp |-> o.time]
    [] o.type = "type"   -> [class |-> "TypeAction", wp |-> o.wp, up |-> o.lp, ch |-> o.ch,
                             timestamp |-> o.time]
    [] o.type = "resize" -> [class |-> "ResizeAction", width |-> o.width, height |-> o.height,
                             timestamp |-> o.time]

IsScreenshot(o) == o.type = "screenshot"
IsAction(o)     == o.type \in {"click", "move", "wheel", "type", "resize"}

Actions ==
  [class: {"ClickAction", "MouseMoveAction"}, x: Int, y: Int, wp: Nat, timestamp: Int]
    \cup [class: {"MouseWheelAction"}, x: Int, y: Int, wp: Nat, delta: Int, timestamp: Int]
    \cup [class: {"TypeAction"}, wp: Nat, up: BOOLEAN, ch: -128..127, timestamp: Int]
    \cup [class: {"ResizeAction"}, width: Int, height: Int, timestamp: Int]

\* A document that lacks a member the loader reads, or has one of another type,
\* makes rapidjson's assertions fail and is not among Foreign.
ASSUME DocumentsOK ==
  \A doc \in Foreign :
    /\ doc.actions \in Seq({doc.actions[i] : i \in DOMAIN doc.actions})
    /\ \A i \in DOMAIN doc.actions :
         /\ IsAction(doc.actions[i]) => ActionOf(doc.actions[i]) \in Actions
         /\ IsScreenshot(doc.actions[i]) => doc.actions[i].time \in Int

\* Mutation: the members are those of "properties".
SchemaMembersListed == {"start_time", "start_url", "actions"}

\* The schema: "required", and "properties" with no additional ones.  Those listed
\* leave out "events", but rapidjson takes every required member for a property
\* (rapidjson/schema.h:428-441).
SchemaRequired == {"start_time", "start_url", "actions", "events"}
SchemaMembers  == {"start_time", "start_url", "actions"} \cup SchemaRequired

Accept(doc) ==
  /\ SchemaRequired \subseteq DOMAIN doc /\ DOMAIN doc \subseteq SchemaMembers
  /\ doc.start_time >= 0
  /\ \A i \in DOMAIN doc.actions : {"type", "time"} \subseteq DOMAIN doc.actions[i]

-----------------------------------------------------------------------------
(***************************************************************************)
(* Execute.                                                                *)
(***************************************************************************)
Masks(wp, k) == (wp \div MK[k]) % 2 = 1

\* Mutation: Shift is looked up like Alt.
GetCefMouseModifiersShift(wp, live) ==
  {k \in DOMAIN MK : Masks(wp, k)} \cup (live \cap {"SHIFT", "ALT", "NUMLOCK", "CAPSLOCK"})

\* The modifiers are read from wp, which is meant to be a key mask and is a
\* message number, and from the keys that are down now.
GetCefMouseModifiers(wp, live) ==
  {k \in DOMAIN MK : Masks(wp, k)} \cup (live \cap {"ALT", "NUMLOCK", "CAPSLOCK"})

Button(wp) ==
  CASE wp \in {WM_LBUTTONDOWN, WM_LBUTTONUP} -> "MBT_LEFT"
    [] wp \in {WM_RBUTTONDOWN, WM_RBUTTONUP} -> "MBT_RIGHT"
    [] OTHER                                 -> "MBT_MIDDLE"

\* Mutation: everything but a release is a press.
ClickEventPress(a, live) ==
  [call |-> "SendMouseClickEvent", button |-> Button(a.wp), up |-> a.wp = WM_RBUTTONUP,
   modifiers |-> GetCefMouseModifiers(a.wp, live)]

ClickEvent(a, live) ==
  [call |-> "SendMouseClickEvent", button |-> Button(a.wp),
   up |-> a.wp \notin {WM_LBUTTONDOWN, WM_RBUTTONDOWN},
   modifiers |-> GetCefMouseModifiers(a.wp, live)]

MoveEvent(a, live) ==
  [call |-> "SendMouseMoveEvent", modifiers |-> GetCefMouseModifiers(a.wp, live)]

WheelEvent(a, live) ==
  [call |-> "SendMouseWheelEvent", modifiers |-> GetCefMouseModifiers(a.wp, live),
   dx |-> IF "SHIFT" \in live THEN a.delta ELSE 0,
   dy |-> IF "SHIFT" \in live THEN 0 ELSE a.delta]

\* Mutation: every key event is a character.
KeyEventChar(a) == [call |-> "SendKeyEvent", type |-> "CHAR", code |-> a.ch]

KeyEvent(a) ==
  IF a.ch = 0
  THEN [call |-> "SendKeyEvent", code |-> a.wp,
        type |-> IF ~a.up THEN "KEYUP" ELSE "RAWKEYDOWN"]
  ELSE [call |-> "SendKeyEvent", code |-> a.ch, type |-> "CHAR"]

\* A window Chrome has opened for a select box gets the click instead.
EventToPopup == [call |-> "WM_LBUTTONDOWN, WM_LBUTTONUP"]

Resize == [call |-> "SetSize, SendSizeEvent"]

\* What action a may send while the keys in live are down or toggled.
Execute(a, live) ==
  CASE a.class = "ClickAction"      -> {ClickEvent(a, live)} \cup
                                       (IF a.wp = WM_LBUTTONDOWN THEN {EventToPopup} ELSE {})
    [] a.class = "MouseMoveAction"  -> {MoveEvent(a, live)}
    [] a.class = "MouseWheelAction" -> {WheelEvent(a, live)}
    [] a.class = "TypeAction"       -> {KeyEvent(a)}
    [] a.class = "ResizeAction"     -> {Resize}

-----------------------------------------------------------------------------
Init ==
  /\ recording = FALSE /\ is_hooked = FALSE /\ loading = FALSE
  /\ actions = <<>> /\ events = <<>> /\ start = NoScript.start /\ unread = <<>>
  /\ scripts = 0 /\ inputs = 0 /\ file = NoFile /\ warned = FALSE
  /\ playing = 0 /\ sent = <<>>
  /\ origin = NoScript /\ fileOrigin = NoScript

\* The list is erased, SendSizeEvent has OnSize push the first action, and a
\* screenshot is taken.
StartRecord ==
  /\ ~recording /\ playing = 0 /\ scripts < MaxScripts
  /\ recording' = TRUE /\ is_hooked' = TRUE
  /\ actions' = <<Resized(800, 0)>>
  /\ start' = [time |-> Len(events) + 1, url |-> "recorded"]
  /\ events' = Append(events, start'.time)
  /\ scripts' = scripts + 1
  /\ origin' = [known |-> TRUE, input |-> <<>>, actions |-> actions', start |-> start']
  /\ sent' = <<>>
  /\ UNCHANGED <<loading, unread, inputs, file, warned, playing, fileOrigin>>

RecordMessage(m) ==
  LET new == Hook(m, Len(origin.input) + 1)
  IN /\ recording /\ is_hooked /\ inputs < MaxInput
     /\ inputs' = inputs + 1
     /\ actions' = actions \o new
     /\ origin' = [origin EXCEPT !.input = Append(@, m), !.actions = @ \o new]
     /\ UNCHANGED <<recording, is_hooked, events, start, loading, unread, scripts, file, warned,
                    playing, sent, fileOrigin>>

\* The user resizes the frame; only a recorder that is on takes note, hooks or not.
OnSize ==
  LET new == <<Resized(640, Len(origin.input))>>
  IN /\ recording /\ ~loading /\ inputs < MaxInput
     /\ inputs' = inputs + 1
     /\ actions' = actions \o new
     /\ origin' = [origin EXCEPT !.actions = @ \o new]
     /\ UNCHANGED <<recording, is_hooked, events, start, loading, unread, scripts, file, warned,
                    playing, sent, fileOrigin>>

StopRecord ==
  /\ recording /\ ~loading
  /\ recording' = FALSE /\ is_hooked' = FALSE
  /\ events' = Append(events, Len(events) + 1)
  /\ UNCHANGED <<actions, start, loading, unread, counts, file, warned, playing, sent, origin,
                 fileOrigin>>

OnSaveToFile ==
  /\ ~recording /\ playing = 0
  /\ file' = GenerateJsonDocument
  /\ fileOrigin' = origin
  /\ UNCHANGED <<memory, counts, warned, playing, sent, origin>>

\* Another program writes the file.
ForeignFile(doc) ==
  /\ file' = doc
  /\ fileOrigin' = NoScript
  /\ UNCHANGED <<memory, counts, warned, playing, sent, origin>>

\* The schema's verdict is shown, and the document read all the same.  Its events
\* stay where they are.
LoadJsonFile ==
  /\ ~recording /\ playing = 0 /\ file # NoFile /\ Len(events) <= MaxEvents
  /\ warned' = ~Accept(file)
  /\ recording' = TRUE /\ loading' = TRUE
  /\ actions' = <<>> /\ unread' = file.actions
  /\ start' = [time |-> file.start_time, url |-> file.start_url]
  /\ origin' = fileOrigin
  /\ sent' = <<>>
  /\ UNCHANGED <<is_hooked, events, counts, file, playing, fileOrigin>>

\* One round of the loop.  Screenshots among the actions become events; an unknown
\* type ends the loading with the recorder on.
LoadObject ==
  LET o == Head(unread)
  IN /\ loading /\ unread # <<>>
     /\ \/ /\ IsAction(o)
           /\ actions' = Append(actions, ActionOf(o)) /\ unread' = Tail(unread)
           /\ UNCHANGED <<events, loading>>
        \/ /\ IsScreenshot(o)
           /\ events' = Append(events, o.time) /\ unread' = Tail(unread)
           /\ UNCHANGED <<actions, loading>>
        \/ /\ ~IsAction(o) /\ ~IsScreenshot(o)
           /\ loading' = FALSE /\ unread' = <<>>
           /\ UNCHANGED <<actions, events>>
     /\ UNCHANGED <<recording, is_hooked, start, counts, file, warned, playing, sent, origin,
                    fileOrigin>>

LoadDone ==
  /\ loading /\ unread = <<>>
  /\ recording' = FALSE /\ loading' = FALSE
  /\ UNCHANGED <<is_hooked, actions, events, start, unread, counts, file, warned, playing, sent,
                 origin, fileOrigin>>

\* The program ends, however, and is started again.
Restart ==
  /\ recording' = FALSE /\ is_hooked' = FALSE /\ loading' = FALSE
  /\ actions' = <<>> /\ events' = <<>> /\ start' = NoScript.start /\ unread' = <<>>
  /\ playing' = 0 /\ sent' = <<>>
  /\ origin' = NoScript
  /\ UNCHANGED <<counts, file, warned, fileOrigin>>

Play ==
  /\ ~recording /\ playing = 0 /\ actions # <<>>
  /\ playing' = 1
  /\ sent' = <<>>
  /\ UNCHANGED <<memory, counts, file, warned, origin, fileOrigin>>

\* Mutation: the end of the list is not noticed.
PlayActionOn(live) ==
  /\ playing \in DOMAIN actions
  /\ \E e \in Execute(actions[playing], live) :
       sent' = Append(sent, [action |-> actions[playing], event |-> e])
  /\ playing' = playing + 1
  /\ UNCHANGED <<memory, counts, file, warned, origin, fileOrigin>>

PlayAction(live) ==
  /\ playing \in DOMAIN actions
  /\ \E e \in Execute(actions[playing], live) :
       sent' = Append(sent, [action |-> actions[playing], event |-> e])
  /\ playing' = IF playing = Len(actions) THEN 0 ELSE playing + 1
  /\ UNCHANGED <<memory, counts, file, warned, origin, fileOrigin>>

Next ==
  \/ StartRecord \/ OnSize \/ StopRecord \/ OnSaveToFile \/ Restart \/ Play
  \/ LoadJsonFile \/ LoadObject \/ LoadDone
  \/ \E m \in Messages : RecordMessage(m)
  \/ \E doc \in Foreign : ForeignFile(doc)
  \/ \E live \in Live : PlayAction(live)

Spec == Init /\ [][Next]_vars

-----------------------------------------------------------------------------
(***************************************************************************)
(* Properties.                                                             *)
(***************************************************************************)
TypeOK ==
  /\ recording \in BOOLEAN /\ is_hooked \in BOOLEAN /\ warned \in BOOLEAN
  /\ loading \in BOOLEAN /\ (loading => recording)
  /\ actions \in Seq(Actions) /\ events \in Seq(Int)
  /\ scripts \in 0..MaxScripts /\ inputs \in 0..MaxInput
  /\ playing \in 0..Len(actions)
  /\ Len(sent) <= Len(actions)

\* However often a script is saved, read back, played and saved again, in this
\* process or another, the list in memory is what the hooks made of the messages:
\* nothing is lost, doubled or changed on the way through the file.
RoundTrip ==
  origin.known /\ ~loading => actions = origin.actions /\ start = origin.start

Finished == origin.known /\ ~recording /\ playing = 0 /\ sent # <<>>

IsText(m)  == m.dev = "key" /\ ~m.up /\ Len(m.text) = 1
IsClick(m) == m.dev = "mouse" /\ m.wp \in {WM_LBUTTONDOWN, WM_LBUTTONUP}

\* The message an event of the replay goes back to.
Cause(i) == sent[i].action.timestamp

\* The events outs go back to the messages ins, each to one of its own and in
\* their order.
Mirrors(outs, ins) ==
  /\ {Cause(i) : i \in outs} = ins
  /\ \A i, j \in outs : i < j => Cause(i) < Cause(j)

\* A replay sends the characters the user typed, in that order and each once, if
\* they are all in 1..127: a char turns the others negative, and NUL is taken for
\* a key without a character.
TextReplayed ==
  LET typed == {n \in DOMAIN origin.input : IsText(origin.input[n])}
      chars == {i \in DOMAIN sent : sent[i].event.call = "SendKeyEvent"
                                       /\ sent[i].event.type = "CHAR"}
  IN Finished /\ (\A n \in typed : origin.input[n].text[1] \in 1..127) =>
       /\ Mirrors(chars, typed)
       /\ \A i \in chars : sent[i].event.code = origin.input[Cause(i)].text[1]

\* A replay presses and releases the left button as often and in the order the
\* user did, unless a select box's window takes a press; it then also gets the
\* release, and the browser a second one.
ClicksReplayed ==
  LET asked == {n \in DOMAIN origin.input : IsClick(origin.input[n])}
      done  == {i \in DOMAIN sent : sent[i].event.call = "SendMouseClickEvent"
                                       \/ sent[i].event = EventToPopup}
  IN Finished =>
       /\ Mirrors(done, asked)
       /\ \A i \in done :
            LET e  == sent[i].event
                wp == origin.input[Cause(i)].wp
            IN \/ e = EventToPopup /\ wp = WM_LBUTTONDOWN
               \/ /\ e.call = "SendMouseClickEvent" /\ e.button = "MBT_LEFT"
                  /\ e.up <=> wp = WM_LBUTTONUP

\* Although a message number is taken for a key mask, a replayed press or move
\* claims no button or key that was not down when it was recorded.  (A release
\* and a wheel do.)
NoPhantomKey ==
  Finished =>
    \A i \in DOMAIN sent :
      LET a == sent[i].action
          e == sent[i].event
      IN e.call \in {"SendMouseClickEvent", "SendMouseMoveEvent"} /\ a.wp # WM_LBUTTONUP =>
           e.modifiers \cap DOMAIN MK \subseteq origin.input[a.timestamp].keys

\* The user is not warned of a file this program wrote: what GenerateJsonDocument
\* writes satisfies the schema, although its "events" are not among the schema's
\* properties.
OwnFilesAccepted == [][LoadJsonFile /\ fileOrigin.known => ~warned']_vars

(***************************************************************************)
(* What the repository says and the code does not keep.                    *)
(***************************************************************************)
\* web_event_browser.cpp:139, "WM_KEYDOWN -> WM_CHAR": with the key-up bit clear a
\* key goes down.  So it should when it is replayed.
KeyTransitionKept ==
  \A i \in DOMAIN sent :
    LET e == sent[i].event
    IN e.call = "SendKeyEvent" /\ sent[i].action.ch = 0 =>
         (e.type = "KEYUP") = sent[i].action.up
=============================================================================

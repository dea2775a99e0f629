--------------------------- MODULE RecorderProofs ---------------------------
(***************************************************************************)
(* Proofs about Recorder, for every value of its constants.                 *)
(***************************************************************************)
EXTENDS Recorder, TLAPS

\* What the type invariant is unfolded to in the proofs below.
USE DEF START_RECORD, STOP_RECORD, NoId, recVars, listVars, payloadVars

\* Appending one more element keeps a sequence typed and its elements in place.
LEMMA AppendFacts ==
  ASSUME NEW S, NEW s \in Seq(S), NEW e \in S
  PROVE  /\ Append(s, e) \in Seq(S)
         /\ Len(Append(s, e)) = Len(s) + 1
         /\ \A i \in 1..Len(s) : Append(s, e)[i] = s[i]
         /\ Append(s, e)[Len(s) + 1] = e
  OBVIOUS

\* The empty sequence is typed, and so are the two parts of a non-empty one.
LEMMA SeqFacts ==
  ASSUME NEW S
  PROVE  /\ <<>> \in Seq(S)
         /\ \A s \in Seq(S) : s # <<>> => Head(s) \in S /\ Tail(s) \in Seq(S)
  OBVIOUS

\* What may be appended to the event list: a payload, or a screenshot.
LEMMA EventTypes ==
  /\ \A p \in PayloadType : p \in EventType
  /\ \A r \in Nat : [kind |-> "screenshot", id |-> NoId, rec |-> r] \in EventType
  BY DEF PayloadType, EventType

\* A call in progress is well typed, whichever way it goes on.
LEMMA CallTypes ==
  ASSUME TypeOK, NEW t \in Pushers
  PROVE  /\ NoCall \in CallType
         /\ \A part \in Parts : Entered(part) \in CallType
         /\ AfterPush(t) \in CallType
         /\ At(t, "called", clock) \in CallType
         /\ At(t, "checked", call[t].ts) \in CallType
         /\ [At(t, "entered", 0) EXCEPT !.part = "char"] \in CallType
         /\ Action(t) \in ActionType
<1>1. call[t] \in CallType /\ clock \in Nat /\ rec \in Nat
  BY DEF TypeOK
<1> QED
  BY <1>1 DEF NoCall, Entered, At, AfterPush, CallType, Parts, Action, ActionType

\* The main thread is at a point of its own after a sizing, too.
LEMMA SizingPoints ==
  /\ DOMAIN AfterSizing = {"sizing", "dialogSizing", "nestedSizing", "startSizing"}
  /\ DOMAIN Sizing = {"idle", "dialog", "size"}
  /\ \A m \in DOMAIN AfterSizing : AfterSizing[m] \in {"idle", "dialog", "size", "begin"}
  /\ \A m \in DOMAIN Sizing : Sizing[m] \in DOMAIN AfterSizing \ {"startSizing"}
  /\ \A m \in DOMAIN Sizing : AfterSizing[Sizing[m]] = m
  /\ AfterSizing["startSizing"] = "begin"
  /\ Pushers = {"main", "cef"} \cup Replays /\ "main" \notin Replays /\ "cef" \notin Replays
  BY ConstantsOK DEF AfterSizing, Sizing, Pushers

(***************************************************************************)
(* Where the Push call of the main thread can be, and what state is at each *)
(* point of the main thread.                                               *)
(***************************************************************************)
MainPlace ==
  /\ call["main"] # NoCall =>
       /\ main \in DOMAIN AfterSizing
       /\ call["main"].stage \in {"entered", "called", "checked"}
       /\ call["main"].part = "single"
  /\ main \in DOMAIN AfterSizing => call["main"] # NoCall
  /\ call["main"].stage = "checked" => state = START_RECORD
  /\ main \in {"clear", "stamp", "size", "nestedSizing", "startSizing", "begin",
              "loadClear", "loadStamp", "loading"} => state = START_RECORD
  /\ main \in {"dialog", "dialogSizing"} => state = STOP_RECORD

\* What the main thread does after its Push call keeps it at one of its points.
LEMMA MainAfterType ==
  ASSUME TypeOK, MainPlace, NEW t \in Pushers, call[t].stage # "none", MainAfterPush(t)
  PROVE  main' \in MainPoints
<1>1. t = "main" => main \in DOMAIN AfterSizing
  BY DEF MainPlace, NoCall
<1> QED
  BY <1>1, SizingPoints DEF MainAfterPush, MainPoints, TypeOK

\* The type invariant is preserved by every step.
LEMMA TypeStep == TypeOK /\ MainPlace /\ [Next]_vars => TypeOK'
<1> SUFFICES ASSUME TypeOK, MainPlace, [Next]_vars PROVE TypeOK'
  OBVIOUS
<1>1. ASSUME NEW t \in Pushers, PushCheck(t) PROVE TypeOK'
  BY <1>1, CallTypes, MainAfterType DEF PushCheck, TypeOK
<1>2. ASSUME NEW t \in Pushers, PushAppend(t) PROVE TypeOK'
  BY <1>2, CallTypes, AppendFacts, MainAfterType DEF PushAppend, TypeOK
<1>22. ASSUME NEW t \in Pushers, Evaluate(t) PROVE TypeOK'
  BY <1>22, CallTypes DEF Evaluate, TypeOK
<1>3. ASSUME NEW part \in {"single", "key"}, Hook(part) PROVE TypeOK'
  BY <1>3, CallTypes DEF Hook, TypeOK, Pushers, Parts
<1>23. ASSUME NEW r \in Replays, PlayResize(r) PROVE TypeOK'
  BY <1>23, CallTypes DEF PlayResize, TypeOK, Pushers, Parts
<1>4. CASE HookTranslate
  <2>1. "cef" \in Pushers
    BY DEF Pushers
  <2>2. /\ NoCall \in CallType
        /\ [At("cef", "entered", 0) EXCEPT !.part = "char"] \in CallType
    BY <2>1, CallTypes
  <2>3. PICK c \in CallType : call' = [call EXCEPT !["cef"] = c]
    BY <1>4, <2>2 DEF HookTranslate
  <2>4. call' \in [Pushers -> CallType]
    BY <2>1, <2>3 DEF TypeOK
  <2> QED
    BY <1>4, <2>4 DEF HookTranslate, TypeOK
<1>5. CASE OnLoadEnd
  BY <1>5 DEF OnLoadEnd, TypeOK
<1>6. CASE Visit
  BY <1>6 DEF Visit, TypeOK, PayloadType
<1>7. CASE OnResourceResponse
  BY <1>7 DEF OnResourceResponse, TypeOK
<1>8. CASE QueueResource
  BY <1>8 DEF QueueResource, TypeOK, PayloadType
<1>9. CASE HandlePayload
  <2>1. /\ queue \in Seq(PayloadType) /\ events \in Seq(EventType)
        /\ freed \subseteq Nat \ {NoId}
    BY DEF TypeOK
  <2>2. /\ Head(queue) \in PayloadType /\ queue' \in Seq(PayloadType)
    BY <1>9, <2>1 DEF HandlePayload
  <2>3. /\ Head(queue) \in EventType /\ Head(queue).id \in Nat \ {NoId}
    BY <2>2, EventTypes DEF PayloadType
  <2>4. events' = events \/ events' = Append(events, Head(queue))
    BY <1>9 DEF HandlePayload
  <2>5. events' \in Seq(EventType)
    <3>1. CASE events' = events
      BY <2>1, <3>1
    <3>2. CASE events' = Append(events, Head(queue))
      BY <2>1, <2>3, <3>2, AppendFacts
    <3> QED
      BY <2>4, <3>1, <3>2
  <2>6. freed' \subseteq Nat \ {NoId}
    BY <1>9, <2>1, <2>3 DEF HandlePayload
  <2> QED
    BY <1>9, <2>2, <2>5, <2>6 DEF HandlePayload, TypeOK
<1>10. ASSUME TakeScreenshot PROVE events' \in Seq(EventType)
  <2>1. events \in Seq(EventType) /\ rec \in Nat
    BY DEF TypeOK
  <2> QED
    BY <1>10, <2>1, EventTypes DEF TakeScreenshot
<1>11. CASE StartHook
  BY <1>10, <1>11 DEF StartHook, TypeOK, MainPoints
<1>12. CASE StopHook
  BY <1>10, <1>12 DEF StopHook, TypeOK, MainPoints
<1>13. CASE RecordClicked \/ DialogCancelled \/ StartRecord \/ StopRecord
  BY <1>13 DEF RecordClicked, DialogCancelled, StartRecord, StopRecord, TypeOK, MainPoints
<1>14. CASE DeleteActions
  <2>1. actions' \in Seq(ActionType)
    BY <1>14 DEF DeleteActions
  <2> QED
    BY <1>14, <2>1 DEF DeleteActions, TypeOK, MainPoints
<1>15. CASE SetStartTime
  BY <1>15 DEF SetStartTime, TypeOK, MainPoints
<1>16. CASE SendSizeEvent \/ OnSize
  <2>1. main' \in MainPoints
    BY <1>16, SizingPoints DEF SendSizeEvent, OnSize, MainPoints
  <2> QED
    BY <1>16, <2>1, CallTypes DEF SendSizeEvent, OnSize, TypeOK, Pushers, Parts
<1>17. CASE LoadJsonFile
  BY <1>17, ConstantsOK DEF LoadJsonFile, TypeOK, MainPoints
<1>18. CASE LoadItem
  <2>1. /\ loading \in Seq(ItemTypes) /\ actions \in Seq(ActionType)
        /\ events \in Seq(EventType) /\ rec \in Nat /\ main \in MainPoints
    BY DEF TypeOK
  <2> DEFINE read == [by |-> "file", part |-> "single", ts |-> 0, rec |-> rec, late |-> FALSE]
             shot == [kind |-> "screenshot", id |-> NoId, rec |-> rec]
  <2>2. read \in ActionType /\ shot \in EventType
    BY <2>1, EventTypes DEF ActionType, Parts
  <2>3. loading' = Tail(loading) \/ loading' = <<>>
    BY <1>18 DEF LoadItem, NoLoad
  <2>4. loading' \in Seq(ItemTypes)
    <3>1. CASE loading' = Tail(loading)
      <4>1. loading # <<>>
        BY <1>18 DEF LoadItem
      <4> QED
        BY <2>1, <3>1, <4>1
    <3>2. CASE loading' = <<>>
      BY <3>2
    <3> QED
      BY <2>3, <3>1, <3>2
  <2>5. actions' = actions \/ actions' = Append(actions, read)
    BY <1>18 DEF LoadItem
  <2>6. events' = events \/ events' = Append(events, shot)
    BY <1>18 DEF LoadItem
  <2> HIDE DEF read, shot
  <2>7. actions' \in Seq(ActionType)
    <3>1. CASE actions' = actions
      BY <2>1, <3>1
    <3>2. CASE actions' = Append(actions, read)
      BY <2>1, <2>2, <3>2, AppendFacts
    <3> QED
      BY <2>5, <3>1, <3>2
  <2>8. events' \in Seq(EventType)
    <3>1. CASE events' = events
      BY <2>1, <3>1
    <3>2. CASE events' = Append(events, shot)
      BY <2>1, <2>2, <3>2, AppendFacts
    <3> QED
      BY <2>6, <3>1, <3>2
  <2>9. main' \in MainPoints
    BY <1>18, <2>1 DEF LoadItem, MainPoints
  <2> QED
    BY <1>18, <2>4, <2>7, <2>8, <2>9 DEF LoadItem, TypeOK
<1>19. CASE LoadDone
  BY <1>19 DEF LoadDone, TypeOK, MainPoints
<1>20. CASE Tick
  BY <1>20 DEF Tick, TypeOK
<1>21. CASE UNCHANGED vars
  BY <1>21 DEF vars, TypeOK
<1> QED
  BY <1>1, <1>2, <1>22, <1>3, <1>23, <1>4, <1>5, <1>6, <1>7, <1>8, <1>9, <1>11, <1>12,
     <1>13, <1>14, <1>15, <1>16, <1>17, <1>18, <1>19, <1>20, <1>21
     DEF Next, MainStep, CefStep, IoStep

\* The initial state is well typed.
LEMMA TypeInit == Init => TypeOK
<1> SUFFICES ASSUME Init PROVE TypeOK
  OBVIOUS
<1>1. /\ actions \in Seq(ActionType) /\ events \in Seq(EventType)
      /\ loading \in Seq(ItemTypes) /\ sources \in Seq(Nat)
      /\ queue \in Seq(PayloadType)
  BY SeqFacts DEF Init, NoLoad
<1>2. call \in [Pushers -> CallType]
  BY DEF Init, NoCall, CallType, Parts
<1> QED
  BY <1>1, <1>2 DEF Init, TypeOK, MainPoints

\* The main thread's place is kept by every step.
LEMMA MainPlaceStep == TypeOK /\ MainPlace /\ [Next]_vars => MainPlace'
<1> SUFFICES ASSUME TypeOK, MainPlace, [Next]_vars PROVE MainPlace'
  OBVIOUS
<1>1. /\ call \in [Pushers -> CallType] /\ "main" \in Pushers /\ "cef" \in Pushers
      /\ main \in MainPoints
  BY DEF TypeOK, Pushers
<1>2. CASE Evaluate("main")
  <2>1. /\ call'["main"] = At("main", "called", clock) /\ UNCHANGED <<main, state>>
        /\ call["main"] # NoCall
    BY <1>1, <1>2 DEF Evaluate, NoCall
  <2>2. /\ At("main", "called", clock).stage = "called"
        /\ At("main", "called", clock).part = call["main"].part
        /\ At("main", "called", clock) # NoCall
    BY DEF At, NoCall
  <2> QED
    BY <2>1, <2>2 DEF MainPlace
<1>3. CASE PushCheck("main") \/ PushAppend("main")
  <2>1. /\ call["main"].stage \in {"called", "checked"} /\ call["main"].part = "single"
        /\ main \in DOMAIN AfterSizing /\ state' = state
    BY <1>1, <1>3 DEF PushCheck, PushAppend, MainPlace, NoCall
  <2>2. AfterPush("main") = NoCall
    BY <2>1 DEF AfterPush
  <2>3. CASE PushCheck("main") /\ state = START_RECORD
    <3>1. /\ call'["main"] = At("main", "checked", call["main"].ts) /\ main' = main
      BY <1>1, <2>3 DEF PushCheck
    <3>2. /\ At("main", "checked", call["main"].ts).stage = "checked"
          /\ At("main", "checked", call["main"].ts).part = "single"
          /\ At("main", "checked", call["main"].ts) # NoCall
      BY <2>1 DEF At, NoCall
    <3> QED
      BY <2>1, <2>3, <3>1, <3>2 DEF MainPlace
  <2>4. CASE ~(PushCheck("main") /\ state = START_RECORD)
    <3>1. call'["main"] = NoCall /\ main' = AfterSizing[main]
      BY <1>1, <1>3, <2>2, <2>4 DEF PushCheck, PushAppend, MainAfterPush
    <3>2. /\ main = "sizing" => main' = "idle"
          /\ main = "dialogSizing" => main' = "dialog"
          /\ main = "nestedSizing" => main' = "size"
          /\ main = "startSizing" => main' = "begin"
      BY <3>1 DEF AfterSizing
    <3>3. main \in {"sizing", "dialogSizing", "nestedSizing", "startSizing"}
      BY <2>1, SizingPoints
    <3> QED
      BY <2>1, <3>1, <3>2, <3>3, SizingPoints DEF MainPlace, NoCall
  <2> QED
    BY <2>3, <2>4
<1>4. ASSUME NEW t \in Pushers \ {"main"}, Evaluate(t) \/ PushCheck(t) \/ PushAppend(t)
      PROVE  MainPlace'
  <2>1. main' = main /\ state' = state /\ call'["main"] = call["main"]
    BY <1>1, <1>4 DEF Evaluate, PushCheck, PushAppend, MainAfterPush
  <2> QED
    BY <2>1 DEF MainPlace
<1>5. ASSUME NEW t \in Pushers \ {"main"}, NEW c, call' = [call EXCEPT ![t] = c],
             UNCHANGED <<main, state>>
      PROVE  MainPlace'
  BY <1>1, <1>5 DEF MainPlace
<1>6. CASE CefStep \/ IoStep \/ Tick \/ HandlePayload \/ \E r \in Replays : PlayResize(r)
  <2>1. CASE UNCHANGED <<main, state, call>>
    BY <2>1 DEF MainPlace
  <2>2. CASE \E part \in {"single", "key"} : Hook(part)
    BY <1>1, <1>5, <2>2 DEF Hook
  <2>3. CASE HookTranslate
    <3>1. PICK c : call' = [call EXCEPT !["cef"] = c]
      BY <2>3 DEF HookTranslate
    <3>2. UNCHANGED <<main, state>>
      BY <2>3 DEF HookTranslate
    <3> QED
      BY <1>1, <1>5, <3>1, <3>2
  <2>4. CASE \E r \in Replays : PlayResize(r)
    <3>1. PICK r \in Replays : PlayResize(r)
      BY <2>4
    <3>2. r \in Pushers \ {"main"}
      BY SizingPoints
    <3> QED
      BY <1>5, <3>1, <3>2 DEF PlayResize
  <2> QED
    BY <1>6, <2>1, <2>2, <2>3, <2>4 DEF CefStep, OnLoadEnd, Visit, IoStep, OnResourceResponse,
       QueueResource, Tick, HandlePayload
<1>7. CASE SendSizeEvent \/ OnSize
  <2>1. /\ call'["main"] = Entered("single") /\ state' = state
        /\ \/ main = "size" /\ main' = "startSizing"
           \/ main \in DOMAIN Sizing /\ main' = Sizing[main]
    BY <1>1, <1>7, SizingPoints DEF SendSizeEvent, OnSize
  <2>2. Entered("single").stage = "entered" /\ Entered("single").part = "single"
    BY DEF Entered
  <2>3. Entered("single") # NoCall /\ call'["main"].stage # "checked"
    BY <2>1, <2>2 DEF NoCall
  <2>4. main' \in DOMAIN AfterSizing
    BY <2>1, SizingPoints
  <2>5. /\ main = "idle" => Sizing[main] = "sizing"
        /\ main = "dialog" => Sizing[main] = "dialogSizing"
        /\ main = "size" => Sizing[main] = "nestedSizing"
    BY DEF Sizing
  <2>6. main \in {"idle", "dialog", "size"}
    BY <2>1, SizingPoints
  <2> QED
    BY <2>1, <2>2, <2>3, <2>4, <2>5, <2>6 DEF MainPlace
<1>8. ASSUME main \notin DOMAIN AfterSizing, main' \notin DOMAIN AfterSizing, UNCHANGED call
      PROVE  call["main"] = NoCall /\ call'["main"] = NoCall
  BY <1>8 DEF MainPlace
<1>9. CASE RecordClicked \/ DialogCancelled \/ StartRecord
  <2>1. main \notin DOMAIN AfterSizing /\ main' \notin DOMAIN AfterSizing /\ UNCHANGED call
    BY <1>9, SizingPoints DEF RecordClicked, DialogCancelled, StartRecord
  <2> QED
    BY <1>8, <1>9, <2>1, SizingPoints DEF RecordClicked, DialogCancelled, StartRecord, MainPlace, NoCall
<1>10. CASE DeleteActions \/ SetStartTime \/ StartHook
  <2>1. main \notin DOMAIN AfterSizing /\ main' \notin DOMAIN AfterSizing /\ UNCHANGED call
    BY <1>10, SizingPoints DEF DeleteActions, SetStartTime, StartHook, Opening
  <2> QED
    BY <1>8, <1>10, <2>1, SizingPoints DEF DeleteActions, SetStartTime, StartHook, Opening, MainPlace, NoCall
<1>11. CASE StopRecord \/ StopHook
  <2>1. main \notin DOMAIN AfterSizing /\ main' \notin DOMAIN AfterSizing /\ UNCHANGED call
    BY <1>11, SizingPoints DEF StopRecord, StopHook
  <2> QED
    BY <1>8, <1>11, <2>1, SizingPoints DEF StopRecord, StopHook, MainPlace, NoCall
<1>12. CASE LoadJsonFile \/ LoadItem \/ LoadDone
  <2>1. /\ main \notin DOMAIN AfterSizing /\ main' \notin DOMAIN AfterSizing /\ UNCHANGED call
        /\ main' \in {"loadClear", "loading", "idle"} /\ (main' = "loading" => state' = START_RECORD)
        /\ (main' = "loadClear" => state' = START_RECORD)
    BY <1>12, SizingPoints DEF LoadJsonFile, LoadItem, LoadDone, MainPlace
  <2> QED
    BY <1>8, <2>1 DEF MainPlace, NoCall
<1>16. CASE UNCHANGED vars
  BY <1>16 DEF vars, MainPlace
<1> QED
  BY <1>2, <1>3, <1>4, <1>6, <1>7, <1>9, <1>10, <1>11, <1>12, <1>16 DEF Next, MainStep

\* The main thread begins at its place.
LEMMA MainPlaceInit == Init => MainPlace
  BY SizingPoints DEF Init, MainPlace, NoCall

\* Every variable keeps its type in every behaviour.
THEOREM TypeCorrect == Spec => []TypeOK
  BY TypeInit, MainPlaceInit, TypeStep, MainPlaceStep, PTL DEF Spec

-----------------------------------------------------------------------------
(***************************************************************************)
(* Hooks, button and state, at every point of the main thread.             *)
(***************************************************************************)
HookInv ==
  /\ main \notin {"clear", "stamp", "size", "nestedSizing", "startSizing", "begin", "unhook"} =>
       /\ is_hooked <=> button = "StopRecord"
       /\ is_hooked => state = START_RECORD
  /\ main \in {"clear", "stamp", "size", "nestedSizing", "startSizing", "begin"} =>
       ~is_hooked /\ button = "StopRecord" /\ state = START_RECORD
  /\ main = "unhook" => button = "RecordScript"
  /\ main \in {"loadClear", "loadStamp", "loading"} => ~is_hooked

\* The hooks, the button and the state are kept together by every step.
LEMMA HookStep == TypeOK /\ MainPlace /\ HookInv /\ [Next]_vars => HookInv'
<1> SUFFICES ASSUME TypeOK, MainPlace, HookInv, [Next]_vars PROVE HookInv'
  OBVIOUS
<1>2. state \in {START_RECORD, STOP_RECORD} /\ button \in {"RecordScript", "StopRecord"}
      /\ is_hooked \in BOOLEAN /\ main \in MainPoints
  BY DEF TypeOK
<1>3. CASE UNCHANGED <<state, is_hooked, button, main>>
  BY <1>3 DEF HookInv
<1>4. CASE \E t \in Pushers : Evaluate(t) \/ PushCheck(t) \/ PushAppend(t)
  <2>1. UNCHANGED <<state, is_hooked, button>>
    BY <1>4 DEF Evaluate, PushCheck, PushAppend
  <2>2. main' = main \/ (main \in DOMAIN AfterSizing /\ main' = AfterSizing[main])
    BY <1>4 DEF Evaluate, PushCheck, PushAppend, MainAfterPush, MainPlace, NoCall
  <2>3. \/ main' = main
        \/ main = "startSizing" /\ main' = "begin"
        \/ main = "nestedSizing" /\ main' = "size"
        \/ main = "dialogSizing" /\ main' = "dialog"
        \/ main = "sizing" /\ main' = "idle"
    BY <2>2, SizingPoints DEF AfterSizing
  <2> QED
    BY <2>1, <2>3 DEF HookInv
<1>5. CASE RecordClicked \/ DialogCancelled
  BY <1>5 DEF RecordClicked, DialogCancelled, HookInv
<1>13. CASE OnSize
  <2>1. /\ \/ main = "idle" /\ main' = "sizing"
           \/ main = "dialog" /\ main' = "dialogSizing"
           \/ main = "size" /\ main' = "nestedSizing"
        /\ UNCHANGED <<state, is_hooked, button>>
    BY <1>13 DEF OnSize, Sizing
  <2> QED
    BY <2>1 DEF HookInv
<1>6. CASE StartRecord
  BY <1>2, <1>6 DEF StartRecord, HookInv, MainPlace
<1>7. CASE DeleteActions \/ SetStartTime \/ SendSizeEvent
  <2>1. UNCHANGED <<state, is_hooked, button>>
    BY <1>7 DEF DeleteActions, SetStartTime, SendSizeEvent
  <2>2. \/ main \in {"clear", "stamp", "size"} /\ main' \in {"stamp", "size", "startSizing"}
        \/ main \in {"loadClear", "loadStamp"} /\ main' \in {"loadStamp", "loading"}
    BY <1>7 DEF DeleteActions, SetStartTime, SendSizeEvent, Opening
  <2> QED
    BY <2>1, <2>2 DEF HookInv
<1>8. CASE StartHook
  BY <1>8 DEF StartHook, HookInv
<1>9. CASE StopRecord \/ StopHook
  BY <1>9 DEF StopRecord, StopHook, HookInv
<1>11. CASE LoadJsonFile
  BY <1>2, <1>11 DEF LoadJsonFile, HookInv
<1>12. CASE LoadItem \/ LoadDone
  <2>1. /\ main = "loading" /\ main' \in {"loading", "idle"}
        /\ UNCHANGED <<is_hooked, button>>
    BY <1>12 DEF LoadItem, LoadDone
  <2> QED
    BY <2>1 DEF HookInv
<1>14. CASE \/ CefStep \/ IoStep \/ Tick \/ HandlePayload \/ UNCHANGED vars
            \/ \E r \in Replays : PlayResize(r)
  BY <1>3, <1>14 DEF CefStep, Hook, HookTranslate, OnLoadEnd, Visit, IoStep, OnResourceResponse,
     QueueResource, Tick, HandlePayload, PlayResize, vars
<1> QED
  BY <1>4, <1>5, <1>6, <1>7, <1>8, <1>9, <1>11, <1>12, <1>13, <1>14 DEF Next, MainStep

\* The three invariants so far, on which all the others rest.
BaseInv == TypeOK /\ MainPlace /\ HookInv

LEMMA BaseStep == BaseInv /\ [Next]_vars => BaseInv'
  BY TypeStep, MainPlaceStep, HookStep DEF BaseInv

LEMMA BaseInit == Init => BaseInv
<1>1. Init => HookInv
  BY DEF Init, HookInv
<1> QED
  BY <1>1, TypeInit, MainPlaceInit DEF BaseInv

\* In an event loop the hooks are on exactly while the button offers to stop them,
\* and then the recorder takes what they push.
THEOREM HookAgreesCorrect == Spec => []HookAgreesWithState
<1>1. BaseInv => HookAgreesWithState
  BY DEF BaseInv, HookInv, HookAgreesWithState
<1> QED
  BY <1>1, BaseInit, BaseStep, PTL DEF Spec

-----------------------------------------------------------------------------
(***************************************************************************)
(* What a step can do to the list and to the recorder's phase: nothing, or  *)
(* one of the five things RecordingLog allows.                             *)
(***************************************************************************)
Quiet  == UNCHANGED <<actions, state, Opening>>
Opens  == /\ state = STOP_RECORD /\ state' = START_RECORD /\ Opening'
          /\ UNCHANGED actions
Erases == /\ Opening /\ ~Opening' /\ state = START_RECORD
          /\ actions' = <<>> /\ UNCHANGED state
Closes == /\ state = START_RECORD /\ state' = STOP_RECORD /\ ~Opening
          /\ UNCHANGED actions
Notes  == /\ state = START_RECORD /\ UNCHANGED <<state, Opening>>
          /\ \E e \in ActionType : ~e.late /\ actions' = Append(actions, e)
Strays(t) == /\ state = STOP_RECORD /\ UNCHANGED <<state, Opening>> /\ t # "main"
             /\ call[t].stage = "checked" /\ call'[t].stage # "checked"
             /\ \E e \in ActionType : e.by = t /\ e.late /\ actions' = Append(actions, e)

\* No step does anything else.
LEMMA ListStep ==
  ASSUME TypeOK, MainPlace, [Next]_vars
  PROVE  \/ Quiet \/ Opens \/ Erases \/ Closes \/ Notes
         \/ \E t \in Pushers : Strays(t)
<1> USE DEF Opening
<1>1. call \in [Pushers -> CallType] /\ rec \in Nat /\ state \in {START_RECORD, STOP_RECORD}
  BY DEF TypeOK
<1>17. ASSUME NEW t \in Pushers, PushCheck(t) \/ PushAppend(t) PROVE Opening' = Opening
  <2>1. main' = main \/ (main \in DOMAIN AfterSizing /\ main' = AfterSizing[main])
    BY <1>17 DEF PushCheck, PushAppend, MainAfterPush, MainPlace, NoCall
  <2>2. main' # main => main \notin {"clear", "loadClear"} /\ main' \notin {"clear", "loadClear"}
    BY <2>1, SizingPoints
  <2> QED
    BY <2>2
<1>2. ASSUME NEW t \in Pushers, PushCheck(t) \/ Evaluate(t) PROVE Quiet
  BY <1>2, <1>17 DEF PushCheck, Evaluate, Quiet
<1>3. ASSUME NEW t \in Pushers, PushAppend(t) PROVE Notes \/ Strays(t)
  <2>1. Opening' = Opening
    BY <1>3, <1>17
  <2>2. /\ Action(t) \in ActionType /\ (Action(t).late <=> state = STOP_RECORD)
        /\ Action(t).by = t
    BY CallTypes DEF Action
  <2>3. /\ actions' = Append(actions, Action(t)) /\ state' = state
        /\ call[t].stage = "checked" /\ call' = [call EXCEPT ![t] = AfterPush(t)]
    BY <1>3 DEF PushAppend
  <2>4. AfterPush(t).stage # "checked"
    BY DEF AfterPush, NoCall, At
  <2>5. CASE state = START_RECORD
    BY <2>1, <2>2, <2>3, <2>5 DEF Notes
  <2>6. CASE state = STOP_RECORD
    <3>1. t # "main"
      BY <2>3, <2>6 DEF MainPlace
    <3> QED
      BY <1>1, <2>1, <2>2, <2>3, <2>4, <2>6, <3>1 DEF Strays
  <2> QED
    BY <1>1, <2>5, <2>6
<1>4. CASE CefStep \/ IoStep \/ Tick \/ HandlePayload \/ \E r \in Replays : PlayResize(r)
  BY <1>4 DEF CefStep, Hook, HookTranslate, OnLoadEnd, Visit, IoStep,
     OnResourceResponse, QueueResource, Tick, HandlePayload, PlayResize, Quiet
<1>5. CASE RecordClicked \/ DialogCancelled
  BY <1>5 DEF RecordClicked, DialogCancelled, Quiet
<1>6. CASE SendSizeEvent \/ SetStartTime
  BY <1>6 DEF SendSizeEvent, SetStartTime, Quiet
<1>7. CASE OnSize
  <2>1. main \in DOMAIN Sizing /\ main' = Sizing[main] /\ UNCHANGED <<actions, state>>
    BY <1>7, SizingPoints DEF OnSize
  <2>2. main \notin {"clear", "loadClear"} /\ main' \notin {"clear", "loadClear"}
    BY <2>1, SizingPoints
  <2> QED
    BY <2>1, <2>2 DEF Quiet
<1>8. CASE StartHook \/ StopHook
  BY <1>8 DEF StartHook, StopHook, Quiet
<1>9. CASE StartRecord
  BY <1>9 DEF StartRecord, Opens, MainPlace
<1>10. CASE LoadJsonFile
  BY <1>10 DEF LoadJsonFile, Opens
<1>11. CASE DeleteActions
  BY <1>11 DEF DeleteActions, Erases, MainPlace
<1>13. CASE StopRecord
  BY <1>13 DEF StopRecord, Closes
<1>14. CASE LoadItem
  <2>1. /\ state = START_RECORD /\ state' = state
        /\ ~Opening /\ ~Opening'
    BY <1>14 DEF LoadItem, MainPlace
  <2> DEFINE read == [by |-> "file", part |-> "single", ts |-> 0, rec |-> rec, late |-> FALSE]
  <2>2. read \in ActionType /\ ~read.late
    BY <1>1 DEF ActionType, Parts
  <2>3. actions' = actions \/ actions' = Append(actions, read)
    BY <1>14 DEF LoadItem
  <2> QED
    BY <2>1, <2>2, <2>3 DEF Quiet, Notes
<1>15. CASE LoadDone
  BY <1>15 DEF LoadDone, Closes, MainPlace
<1>16. CASE UNCHANGED vars
  BY <1>16 DEF vars, Quiet
<1> QED
  BY <1>2, <1>3, <1>4, <1>5, <1>8, <1>9, <1>10, <1>11, <1>13, <1>14, <1>15,
     <1>16, <1>6, <1>7 DEF Next, MainStep

\* No step takes a thread past its test of state while the recorder is stopped.
LEMMA TestStep ==
  ASSUME TypeOK, [Next]_vars, NEW u \in Pushers, call'[u].stage = "checked"
  PROVE  call[u].stage = "checked" \/ state = START_RECORD
<1>1. call \in [Pushers -> CallType] /\ "cef" \in Pushers /\ "main" \in Pushers
  BY DEF TypeOK, Pushers
<1>2. ASSUME NEW t \in Pushers, NEW c, call' = [call EXCEPT ![t] = c], c.stage # "checked"
      PROVE  call[u].stage = "checked"
  BY <1>1, <1>2
<1>3. ASSUME NEW t \in Pushers
      PROVE  /\ NoCall.stage # "checked" /\ AfterPush(t).stage # "checked"
             /\ At(t, "called", clock).stage # "checked"
             /\ [At(t, "entered", 0) EXCEPT !.part = "char"].stage # "checked"
             /\ \A part \in Parts : Entered(part).stage # "checked"
  BY DEF NoCall, AfterPush, At, Entered
<1>4. CASE \E t \in Pushers : Evaluate(t) \/ PushAppend(t)
  BY <1>2, <1>3, <1>4 DEF Evaluate, PushAppend
<1>5. CASE \E t \in Pushers : PushCheck(t)
  BY <1>2, <1>3, <1>5 DEF PushCheck
<1>6. CASE \E part \in {"single", "key"} : Hook(part)
  BY <1>1, <1>2, <1>3, <1>6 DEF Hook, Parts
<1>7. CASE HookTranslate
  BY <1>1, <1>2, <1>3, <1>7 DEF HookTranslate
<1>8. CASE SendSizeEvent \/ OnSize
  BY <1>1, <1>2, <1>3, <1>8 DEF SendSizeEvent, OnSize, Parts
<1>9. CASE \E r \in Replays : PlayResize(r)
  BY <1>2, <1>3, <1>9 DEF PlayResize, Pushers, Parts
<1>10. CASE call' = call
  BY <1>10
<1>11. CASE MainStep
  BY <1>8, <1>10, <1>11 DEF MainStep, RecordClicked, DialogCancelled, StartRecord,
     DeleteActions, SetStartTime, StartHook, StopRecord, StopHook, LoadJsonFile,
     LoadItem, LoadDone, HandlePayload
<1>12. CASE CefStep \/ IoStep \/ Tick \/ UNCHANGED vars
  BY <1>6, <1>7, <1>10, <1>12 DEF CefStep, OnLoadEnd, Visit, IoStep, OnResourceResponse,
     QueueResource, Tick, vars
<1> QED
  BY <1>4, <1>5, <1>9, <1>11, <1>12 DEF Next

(***************************************************************************)
(* At most one straggler of a thread.  A late action comes from a call that *)
(* had passed its test before the recorder was stopped, and a thread is in  *)
(* one call at a time.  So the invariant says: once an action of a thread   *)
(* is late, the thread is not past the test again until the list is erased. *)
(***************************************************************************)
StragglerSpent ==
  \A i \in 1..Len(actions) : actions[i].late =>
    /\ actions[i].by \in Pushers \ {"main"}
    /\ Opening \/ (state = STOP_RECORD /\ call[actions[i].by].stage # "checked")

StragglerInv == TypeOK /\ MainPlace /\ StragglerSpent /\ OneStraggler

\* The straggler invariant is inductive.
LEMMA StragglerStep == StragglerInv /\ [Next]_vars => StragglerInv'
<1> SUFFICES ASSUME StragglerInv, [Next]_vars PROVE StragglerInv'
  OBVIOUS
<1>1. TypeOK /\ MainPlace /\ StragglerSpent /\ OneStraggler
  BY DEF StragglerInv
<1>2. TypeOK' /\ MainPlace'
  BY <1>1, TypeStep, MainPlaceStep
<1>3. actions \in Seq(ActionType) /\ state \in {START_RECORD, STOP_RECORD} /\ Len(actions) \in Nat
  BY <1>1 DEF TypeOK
<1>4. \A t \in Pushers :
        call'[t].stage = "checked" => call[t].stage = "checked" \/ state = START_RECORD
  BY <1>1, TestStep
<1>11. Opening => state = START_RECORD
  BY <1>1 DEF Opening, MainPlace
<1> SUFFICES StragglerSpent' /\ OneStraggler'
  BY <1>2 DEF StragglerInv
<1>5. CASE Quiet
  BY <1>1, <1>4, <1>5, <1>11 DEF Quiet, StragglerSpent, OneStraggler
<1>6. CASE Opens
  BY <1>1, <1>6 DEF Opens, StragglerSpent, OneStraggler
<1>7. CASE Erases
  BY <1>7 DEF Erases, StragglerSpent, OneStraggler
<1>8. CASE Closes
  BY <1>1, <1>8 DEF Closes, StragglerSpent, OneStraggler
<1>9. CASE Notes
  <2>1. PICK e \in ActionType : ~e.late /\ actions' = Append(actions, e)
    BY <1>9 DEF Notes
  <2>2. \A i \in 1..Len(actions') :
          actions'[i].late => i \in 1..Len(actions) /\ actions'[i] = actions[i]
    BY <1>3, <2>1, AppendFacts
  <2> QED
    BY <1>1, <1>9, <2>2 DEF Notes, StragglerSpent, OneStraggler
<1>10. ASSUME NEW t \in Pushers, Strays(t) PROVE StragglerSpent' /\ OneStraggler'
  <2>1. PICK e \in ActionType : e.by = t /\ e.late /\ actions' = Append(actions, e)
    BY <1>10 DEF Strays
  <2>2. /\ state = STOP_RECORD /\ state' = state /\ Opening' = Opening /\ ~Opening
        /\ t # "main" /\ call[t].stage = "checked" /\ call'[t].stage # "checked"
    BY <1>10, <1>11 DEF Strays
  <2>3. \A i \in 1..Len(actions) :
          actions[i].late => actions[i].by \in Pushers \ {"main"} /\ actions[i].by # t
                             /\ call[actions[i].by].stage # "checked"
    BY <1>1, <2>2 DEF StragglerSpent
  <2>4. /\ Len(actions') = Len(actions) + 1 /\ actions'[Len(actions) + 1] = e
        /\ \A i \in 1..Len(actions) : actions'[i] = actions[i]
    BY <1>3, <2>1, AppendFacts
  <2>5. \A i \in 1..Len(actions') : \/ i \in 1..Len(actions) /\ actions'[i] = actions[i]
                                    \/ i = Len(actions) + 1 /\ actions'[i] = e
    BY <1>3, <2>4
  <2>6. StragglerSpent'
    BY <1>4, <2>1, <2>2, <2>3, <2>5 DEF StragglerSpent
  <2>7. OneStraggler'
    BY <1>1, <2>1, <2>2, <2>3, <2>5 DEF OneStraggler
  <2> QED
    BY <2>6, <2>7
<1> QED
  BY <1>1, <1>5, <1>6, <1>7, <1>8, <1>9, <1>10, ListStep

\* The straggler invariant holds initially.
LEMMA StragglerInit == Init => StragglerInv
  BY BaseInit DEF Init, BaseInv, StragglerInv, StragglerSpent, OneStraggler

\* A stopped script grows by one action of each thread at most, in every behaviour
\* and with any number of replay threads: the test of state in Push*Action
\* (web_event_browser.cpp:888, 1043) and the order in which StartRecord sets state
\* and erases the list make it so, without a lock.
THEOREM OneStragglerCorrect == Spec => []OneStraggler
<1>1. StragglerInv => OneStraggler
  BY DEF StragglerInv
<1> QED
  BY <1>1, StragglerInit, StragglerStep, PTL DEF Spec

-----------------------------------------------------------------------------
(***************************************************************************)
(* Recorder implements RecordingLog: each kind of step above is one of its  *)
(* actions under the mapping of Recorder, or changes none of its variables. *)
(***************************************************************************)
LEMMA LogStep == StragglerInv /\ [Next]_vars => [Log!Next]_(Log!logVars)
<1> SUFFICES ASSUME StragglerInv, [Next]_vars PROVE [Log!Next]_(Log!logVars)
  OBVIOUS
<1>1. TypeOK /\ MainPlace /\ StragglerSpent
  BY DEF StragglerInv
<1>2. MainPlace' /\ state' \in {START_RECORD, STOP_RECORD}
  BY <1>1, TypeStep, MainPlaceStep DEF TypeOK
<1>3. actions \in Seq(ActionType) /\ state \in {START_RECORD, STOP_RECORD} /\ Len(actions) \in Nat
  BY <1>1 DEF TypeOK
<1>4. CASE Quiet
  BY <1>4 DEF Quiet, Log!logVars, Phase, Straggled
<1>5. CASE Opens
  <2>1. ~Opening
    BY <1>1, <1>5 DEF Opens, Opening, MainPlace
  <2> QED
    BY <1>5, <2>1 DEF Opens, Log!Next, Log!Open, Phase, Straggled
<1>6. CASE Erases
  <2>1. Straggled' = {}
    BY <1>6 DEF Erases, Straggled
  <2> QED
    BY <1>6, <2>1 DEF Erases, Log!Next, Log!Erase, Phase
<1>7. CASE Closes
  BY <1>7 DEF Closes, Log!Next, Log!Close, Phase, Straggled
<1>8. CASE Notes
  <2>1. PICK e \in ActionType : ~e.late /\ actions' = Append(actions, e)
    BY <1>8 DEF Notes
  <2>2. Log!Grows
    BY <1>3, <2>1, AppendFacts DEF Log!Grows
  <2>3. /\ \A i \in 1..Len(actions) : i \in 1..Len(actions') /\ actions'[i] = actions[i]
        /\ \A i \in 1..Len(actions') :
             actions'[i].late => i \in 1..Len(actions) /\ actions'[i] = actions[i]
    BY <1>3, <2>1, AppendFacts
  <2>4. Straggled' = Straggled
    BY <2>3 DEF Straggled
  <2> QED
    BY <1>8, <2>2, <2>4 DEF Notes, Log!Next, Log!Note, Phase
<1>9. ASSUME NEW t \in Pushers, Strays(t) PROVE [Log!Next]_(Log!logVars)
  <2>1. PICK e \in ActionType : e.by = t /\ e.late /\ actions' = Append(actions, e)
    BY <1>9 DEF Strays
  <2>2. Log!Grows
    BY <1>3, <2>1, AppendFacts DEF Log!Grows
  <2>3. t \in Pushers \ {"main"} /\ t \notin Straggled
    BY <1>1, <1>9 DEF Strays, StragglerSpent, Straggled, Opening, MainPlace
  <2>4. /\ \A i \in 1..Len(actions) : i \in 1..Len(actions') /\ actions'[i] = actions[i]
        /\ Len(actions) + 1 \in 1..Len(actions') /\ actions'[Len(actions) + 1] = e
        /\ \A i \in 1..Len(actions') : i \in 1..Len(actions) \/ i = Len(actions) + 1
    BY <1>3, <2>1, AppendFacts
  <2>5. Straggled' = Straggled \cup {t}
    BY <2>1, <2>4 DEF Straggled
  <2>6. state = STOP_RECORD /\ state' = state
    BY <1>9 DEF Strays
  <2>7. Phase = "off" /\ Phase' = Phase
    BY <2>6 DEF Phase
  <2> QED
    BY <2>2, <2>3, <2>5, <2>7 DEF Log!Next, Log!Straggle
<1> QED
  BY <1>1, <1>4, <1>5, <1>6, <1>7, <1>8, <1>9, ListStep

\* In every behaviour, with any number of replay threads, the action list does only
\* what RecordingLog promises.
THEOREM RecorderImplementsLog == Spec => ImplementsLog
<1>1. Init => Log!Init
  BY DEF Init, Log!Init, Phase, Straggled
<1> QED
  BY <1>1, StragglerInit, StragglerStep, LogStep, PTL DEF Spec, ImplementsLog, Log!Spec
=============================================================================

------------------------- MODULE RecorderTimeProofs -------------------------
(***************************************************************************)
(* Proofs about Recorder, continued: which script an action belongs to, and *)
(* in which order the timestamps of one thread are listed.                  *)
(***************************************************************************)
EXTENDS RecorderProofs

\* What the type invariant is unfolded to in the proofs below.
USE DEF START_RECORD, STOP_RECORD, NoId, recVars, listVars, payloadVars

\* Thread t is inside a handler; it has read the clock for the Push call it is
\* making; it is past the key of a key-down.
InCall(t) == call[t].stage # "none"
Timed(t)  == call[t].stage \in {"called", "checked"}
KeyDone(t) == call[t].part = "char" \/ call[t].stage = "translate"

\* The list of this script is erased but its start time is not yet taken.
Unstamped == main \in {"stamp", "loadStamp"}

(***************************************************************************)
(* What a step can do to the list, the calls and the script number.        *)
(***************************************************************************)
Others(t) == \A u \in Pushers \ {t} : call'[u] = call[u]

\* The main thread gets to no point at which a start time is taken or was read.
Aside == /\ main' = "loading" => main = "loading"
         /\ Unstamped' => Unstamped

\* Thread t is where it was, or has gone on in its call or left it.
Goes(t) == InCall(t)' => /\ InCall(t) /\ call'[t].rec = call[t].rec
                         /\ KeyDone(t) => KeyDone(t)'
                         /\ Timed(t)' => Timed(t) /\ call'[t].ts = call[t].ts

\* Nothing is listed or begun; calls may end or go on, time may pass.
Calm == /\ UNCHANGED <<actions, rec, start_timestamp>>
        /\ clock' \in Nat /\ clock <= clock'
        /\ \A t \in Pushers : Goes(t)
        /\ Aside

\* Thread t enters a handler.
Begins(t) == /\ UNCHANGED <<actions, rec, start_timestamp, clock>>
             /\ InCall(t)' /\ ~Timed(t)' /\ call'[t].rec = rec /\ Others(t)
             /\ Unstamped' => t \in Replays
             /\ Aside

\* Thread t reads the clock for its Push call.
Times(t) == /\ UNCHANGED <<actions, rec, start_timestamp, clock>>
            /\ InCall(t) /\ call'[t].ts = clock /\ call'[t].rec = call[t].rec
            /\ KeyDone(t) => KeyDone(t)'
            /\ Others(t) /\ Aside

\* Thread t appends its action; only a key's handler goes on after that.
Appends(t) == /\ UNCHANGED <<rec, start_timestamp, clock>>
              /\ Timed(t) /\ ~Timed(t)' /\ Others(t)
              /\ InCall(t)' => /\ call[t].part = "key" /\ KeyDone(t)'
                               /\ call'[t].rec = call[t].rec
              /\ \E e \in ActionType :
                   /\ e.by = t /\ e.part = call[t].part /\ e.ts = call[t].ts
                   /\ e.rec = call[t].rec /\ actions' = Append(actions, e)
              /\ Aside

\* An action is read from a file.
Reads == /\ UNCHANGED <<rec, start_timestamp, clock, call>> /\ main = "loading" /\ ~Unstamped'
         /\ \E e \in ActionType : /\ e.by = "file" /\ e.ts = 0 /\ e.rec = rec
                                  /\ actions' = Append(actions, e)

\* A script begins: its list is erased, then its start time is taken.
Renews == /\ actions' = <<>> /\ rec' = rec + 1 /\ UNCHANGED <<clock, call, start_timestamp>>
          /\ ~InCall("main") /\ Unstamped'
Stamps == /\ UNCHANGED <<actions, rec, clock, call>> /\ Unstamped /\ ~Unstamped'
          /\ start_timestamp' \in {clock, 0}
          /\ main' = "loading" => start_timestamp' = 0

\* A thread whose call is replaced by c; the other threads stay where they are.
LEMMA CallReplaced ==
  ASSUME TypeOK, NEW t \in Pushers, NEW c, call' = [call EXCEPT ![t] = c]
  PROVE  /\ Others(t) /\ call'[t] = c
         /\ InCall(t)' <=> c.stage # "none"
         /\ Timed(t)' <=> c.stage \in {"called", "checked"}
         /\ KeyDone(t)' <=> c.part = "char" \/ c.stage = "translate"
         /\ \A u \in Pushers \ {t} : Goes(u)
<1>1. call \in [Pushers -> CallType]
  BY DEF TypeOK
<1>2. Others(t) /\ call'[t] = c
  BY <1>1 DEF Others
<1>3. \A u \in Pushers \ {t} : Goes(u)
  BY <1>2 DEF Others, Goes, InCall, Timed, KeyDone
<1> QED
  BY <1>2, <1>3 DEF InCall, Timed, KeyDone

\* The calm steps in which nothing but time and other variables change.
LEMMA CalmIfUnchanged ==
  ASSUME TypeOK, UNCHANGED <<actions, rec, start_timestamp, call>>,
         clock' \in Nat, clock <= clock', Aside
  PROVE  Calm
  BY DEF Calm, Goes, InCall, Timed, KeyDone

\* The steps by which a handler is entered.
LEMMA BeginsIfEntered ==
  ASSUME TypeOK, NEW t \in Pushers, NEW part, call' = [call EXCEPT ![t] = Entered(part)],
         UNCHANGED <<actions, rec, start_timestamp, clock>>,
         Unstamped' => t \in Replays, Aside
  PROVE  Begins(t)
<1>1. Entered(part).stage = "entered" /\ Entered(part).rec = rec
  BY DEF Entered
<1> QED
  BY <1>1, CallReplaced DEF Begins

\* The steps of the main thread around its own Push call leave the script alone.
LEMMA SizingAside ==
  ASSUME TypeOK, main' = main \/ main' \in DOMAIN AfterSizing
                   \/ (main \in DOMAIN AfterSizing /\ main' = AfterSizing[main])
  PROVE  Aside
  BY SizingPoints DEF Aside, Unstamped

\* No step does anything else.
LEMMA ScriptStep ==
  ASSUME TypeOK, MainPlace, HookInv, [Next]_vars
  PROVE  \/ Calm \/ Reads \/ Renews \/ Stamps
         \/ \E t \in Pushers : Begins(t) \/ Times(t) \/ Appends(t)
<1>1. /\ call \in [Pushers -> CallType] /\ rec \in Nat /\ clock \in Nat
      /\ "main" \in Pushers /\ "cef" \in Pushers
  BY DEF TypeOK, Pushers
<1>2. ASSUME NEW t \in Pushers, PushCheck(t) PROVE Calm
  <2>1. Aside
    BY <1>2, SizingAside DEF PushCheck, MainAfterPush, MainPlace, NoCall
  <2>2. /\ call[t].stage = "called" /\ UNCHANGED <<actions, rec, start_timestamp, clock>>
    BY <1>2 DEF PushCheck
  <2>3. CASE call' = [call EXCEPT ![t] = At(t, "checked", call[t].ts)]
    <3> DEFINE c == At(t, "checked", call[t].ts)
    <3>1. c.stage = "checked" /\ c.part = call[t].part /\ c.ts = call[t].ts /\ c.rec = call[t].rec
      BY DEF At
    <3> HIDE DEF c
    <3>2. Goes(t)
      BY <2>2, <2>3, <3>1, CallReplaced DEF Goes, InCall, Timed, KeyDone, c
    <3>3. \A u \in Pushers : Goes(u)
      BY <2>3, <3>2, CallReplaced
    <3> QED
      BY <1>1, <2>1, <2>2, <3>3 DEF Calm
  <2>4. CASE call' = [call EXCEPT ![t] = AfterPush(t)]
    <3>1. /\ AfterPush(t).stage \notin {"called", "checked"}
          /\ AfterPush(t).stage # "none" =>
               AfterPush(t).rec = call[t].rec /\ AfterPush(t).stage = "translate"
      BY DEF AfterPush, NoCall, At
    <3>2. Goes(t)
      BY <2>2, <2>4, <3>1, CallReplaced DEF Goes, InCall
    <3>3. \A u \in Pushers : Goes(u)
      BY <2>4, <3>2, CallReplaced
    <3> QED
      BY <1>1, <2>1, <2>2, <3>3 DEF Calm
  <2> QED
    BY <1>2, <2>3, <2>4 DEF PushCheck
<1>3. ASSUME NEW t \in Pushers, PushAppend(t) PROVE Appends(t)
  <2>1. Aside
    BY <1>3, SizingAside DEF PushAppend, MainAfterPush, MainPlace, NoCall
  <2>2. /\ call' = [call EXCEPT ![t] = AfterPush(t)] /\ call[t].stage = "checked"
        /\ actions' = Append(actions, Action(t))
        /\ UNCHANGED <<rec, start_timestamp, clock>>
    BY <1>3 DEF PushAppend
  <2>3. /\ AfterPush(t).stage \notin {"called", "checked"}
        /\ AfterPush(t).stage # "none" =>
             /\ AfterPush(t).rec = call[t].rec /\ AfterPush(t).stage = "translate"
             /\ call[t].part = "key"
    BY DEF AfterPush, NoCall, At
  <2>4. /\ Timed(t) /\ ~Timed(t)' /\ Others(t)
        /\ InCall(t)' => call[t].part = "key" /\ KeyDone(t)' /\ call'[t].rec = call[t].rec
    BY <2>2, <2>3, CallReplaced DEF Timed
  <2>5. Action(t) \in ActionType
    BY CallTypes
  <2>6. /\ Action(t).by = t /\ Action(t).part = call[t].part
        /\ Action(t).ts = call[t].ts /\ Action(t).rec = call[t].rec
    BY DEF Action
  <2> QED
    BY <2>1, <2>2, <2>4, <2>5, <2>6 DEF Appends
<1>4. ASSUME NEW t \in Pushers, Evaluate(t) PROVE Times(t)
  <2> DEFINE c == At(t, "called", clock)
  <2>1. c.stage = "called" /\ c.part = call[t].part /\ c.ts = clock /\ c.rec = call[t].rec
    BY DEF At
  <2>2. /\ call' = [call EXCEPT ![t] = c] /\ call[t].stage = "entered"
        /\ UNCHANGED <<actions, rec, start_timestamp, clock, main>>
    BY <1>4 DEF Evaluate
  <2>3. Aside
    BY <2>2, SizingAside
  <2> HIDE DEF c
  <2>4. Others(t) /\ call'[t] = c /\ (KeyDone(t)' <=> c.part = "char" \/ c.stage = "translate")
    BY <2>2, CallReplaced
  <2> QED
    BY <2>1, <2>2, <2>3, <2>4 DEF Times, InCall, KeyDone
<1>5. ASSUME NEW part, Hook(part) PROVE Begins("cef")
  <2>1. ~Unstamped /\ main' = main
    BY <1>5 DEF Hook, HookInv, Unstamped
  <2>2. ~Unstamped' /\ Aside
    BY <2>1 DEF Unstamped, Aside
  <2> QED
    BY <1>1, <1>5, <2>2, BeginsIfEntered DEF Hook
<1>6. CASE HookTranslate
  <2> DEFINE c1 == [At("cef", "entered", 0) EXCEPT !.part = "char"]
  <2>1. /\ c1.stage = "entered" /\ c1.part = "char" /\ c1.rec = call["cef"].rec
        /\ NoCall.stage = "none"
    BY DEF At, NoCall
  <2> HIDE DEF c1
  <2>2. PICK c \in {NoCall, c1} : call' = [call EXCEPT !["cef"] = c]
    BY <1>6 DEF HookTranslate, c1
  <2>3. /\ UNCHANGED <<actions, rec, start_timestamp, clock, main>>
        /\ call["cef"].stage = "translate"
    BY <1>6 DEF HookTranslate
  <2>4. Goes("cef")
    <3>1. /\ call'["cef"] = c /\ (InCall("cef")' <=> c.stage # "none")
          /\ (Timed("cef")' <=> c.stage \in {"called", "checked"})
          /\ (KeyDone("cef")' <=> c.part = "char" \/ c.stage = "translate")
      BY <1>1, <2>2, CallReplaced
    <3> QED
      BY <2>1, <2>3, <3>1 DEF Goes, InCall
  <2>5. Aside
    BY <2>3, SizingAside
  <2>6. \A u \in Pushers : Goes(u)
    BY <1>1, <2>2, <2>4, CallReplaced
  <2> QED
    BY <1>1, <2>3, <2>5, <2>6 DEF Calm
<1>7. ASSUME NEW r \in Replays, PlayResize(r) PROVE Begins(r)
  <2>1. Aside /\ r \in Pushers
    BY <1>7, SizingAside DEF PlayResize, Pushers
  <2> QED
    BY <1>7, <2>1, BeginsIfEntered DEF PlayResize
<1>8. CASE SendSizeEvent \/ OnSize
  <2>1. main' \in DOMAIN AfterSizing
    BY <1>8, SizingPoints DEF SendSizeEvent, OnSize
  <2>2. ~Unstamped' /\ Aside
    BY <2>1, SizingPoints, SizingAside DEF Unstamped
  <2>3. Begins("main")
    BY <1>1, <1>8, <2>2, BeginsIfEntered DEF SendSizeEvent, OnSize
  <2> QED
    BY <1>1, <2>3
<1>9. CASE DeleteActions
  <2>1. ~InCall("main")
    BY <1>1, <1>9, SizingPoints DEF DeleteActions, Opening, MainPlace, InCall, NoCall
  <2> QED
    BY <1>9, <2>1 DEF DeleteActions, Opening, Renews, Unstamped
<1>10. CASE SetStartTime
  BY <1>10 DEF SetStartTime, Stamps, Unstamped
<1>11. CASE LoadItem
  <2> DEFINE read == [by |-> "file", part |-> "single", ts |-> 0, rec |-> rec, late |-> FALSE]
  <2>1. read \in ActionType /\ read.by = "file" /\ read.ts = 0 /\ read.rec = rec
    BY <1>1 DEF ActionType, Parts
  <2>2. /\ main = "loading" /\ UNCHANGED <<rec, start_timestamp, clock, call>>
        /\ actions' = actions \/ actions' = Append(actions, read)
        /\ main' \in {"loading", "idle"}
    BY <1>11 DEF LoadItem
  <2> HIDE DEF read
  <2>3. ~Unstamped' /\ Aside
    BY <2>2 DEF Unstamped, Aside
  <2>4. CASE actions' = actions
    BY <1>1, <2>2, <2>3, <2>4, CalmIfUnchanged
  <2>5. CASE actions' = Append(actions, read)
    BY <2>1, <2>2, <2>3, <2>5 DEF Reads
  <2> QED
    BY <2>2, <2>4, <2>5
<1>12. CASE OnLoadEnd \/ Visit \/ IoStep \/ Tick \/ HandlePayload \/ UNCHANGED vars
  <2>1. UNCHANGED <<actions, rec, start_timestamp, call, main>> /\ clock' \in {clock, clock + 1}
    BY <1>12 DEF OnLoadEnd, Visit, IoStep, OnResourceResponse, QueueResource, Tick,
       HandlePayload, vars
  <2> QED
    BY <1>1, <2>1, CalmIfUnchanged, SizingAside
<1>13. CASE RecordClicked \/ DialogCancelled \/ StartRecord \/ StopRecord
  <2>1. /\ UNCHANGED <<actions, rec, start_timestamp, call, clock>>
        /\ main' \in {"dialog", "idle", "clear", "unhook"}
    BY <1>13 DEF RecordClicked, DialogCancelled, StartRecord, StopRecord
  <2>2. Aside
    BY <2>1 DEF Aside, Unstamped
  <2> QED
    BY <1>1, <2>1, <2>2, CalmIfUnchanged
<1>14. CASE StartHook \/ StopHook \/ LoadJsonFile \/ LoadDone
  <2>1. /\ UNCHANGED <<actions, rec, start_timestamp, call, clock>>
        /\ main' \in {"idle", "loadClear"}
    BY <1>14 DEF StartHook, StopHook, LoadJsonFile, LoadDone
  <2>2. Aside
    BY <2>1 DEF Aside, Unstamped
  <2> QED
    BY <1>1, <2>1, <2>2, CalmIfUnchanged
<1>15. Replays \subseteq Pushers
  BY DEF Pushers
<1> QED
  BY <1>1, <1>2, <1>3, <1>4, <1>5, <1>6, <1>7, <1>8, <1>9, <1>10, <1>11, <1>12, <1>13,
     <1>14, <1>15 DEF Next, MainStep, CefStep

-----------------------------------------------------------------------------
(***************************************************************************)
(* Strays.  While a thread is in a call that began under an earlier script, *)
(* its only stray so far is the key whose character the call is about.      *)
(***************************************************************************)
StrayInv ==
  /\ \A t \in Pushers : InCall(t) => call[t].rec \in 0..rec
  /\ InCall("main") => call["main"].rec = rec
  /\ \A t \in Pushers : InCall(t) /\ call[t].rec # rec =>
       \A i \in 1..Len(actions) : Stray(i) /\ actions[i].by = t =>
         actions[i].part = "key" /\ KeyDone(t)
  /\ OneStray

\* Types of the list and the numbers, of a table of calls, and the threads' names.
LEMMA NumberTypes ==
  TypeOK => /\ rec \in Nat /\ clock \in Nat /\ start_timestamp \in Nat
            /\ actions \in Seq(ActionType) /\ Len(actions) \in Nat
            /\ call \in [Pushers -> CallType]
BY DEF TypeOK

LEMMA TableTypes ==
  ASSUME NEW table \in [Pushers -> CallType]
  PROVE  \A t \in Pushers : table[t].ts \in Nat /\ table[t].rec \in Nat
BY DEF CallType

LEMMA ThreadNames ==
  "main" \in Pushers /\ "main" \notin Replays /\ "file" \notin Pushers /\ Replays \subseteq Pushers
BY ConstantsOK DEF Pushers

\* A place of a list that has grown is an old one or the last.
LEMMA PlaceFacts ==
  ASSUME NEW n \in Nat, NEW i \in 1..n + 1
  PROVE  i \in 1..n \/ i = n + 1
OBVIOUS

\* Every kind of step keeps the strays of a thread to one input.
LEMMA StrayStep ==
  ASSUME TypeOK, TypeOK', MainPlace, HookInv, StrayInv, [Next]_vars
  PROVE  StrayInv'
<1>1. /\ rec \in Nat /\ actions \in Seq(ActionType) /\ Len(actions) \in Nat
      /\ "main" \in Pushers /\ "main" \notin Replays
      /\ \A t \in Pushers : call'[t].rec \in Nat
  <2>1. call' \in [Pushers -> CallType]
    BY Zenon DEF TypeOK
  <2>2. \A t \in Pushers : call'[t].rec \in Nat
    BY <2>1, TableTypes, Zenon
  <2> QED
    BY <2>2, NumberTypes, ThreadNames, Zenon
<1>10. \A t \in Pushers : Others(t) =>
         \A u \in Pushers \ {t} : /\ call'[u] = call[u] /\ (InCall(u)' <=> InCall(u))
                                  /\ (KeyDone(u)' <=> KeyDone(u))
  BY DEF Others, InCall, KeyDone
<1>2. CASE Calm
  <2>1. UNCHANGED <<actions, rec>> /\ \A t \in Pushers : Goes(t)
    BY <1>2 DEF Calm
  <2>2. OneStray'
    BY <2>1 DEF StrayInv, OneStray, Stray
  <2> QED
    BY <1>1, <2>1, <2>2 DEF Goes, StrayInv, Stray
<1>3. ASSUME NEW t \in Pushers, Begins(t) \/ Times(t) PROVE StrayInv'
  <2>1. /\ UNCHANGED <<actions, rec>> /\ Others(t)
        /\ \/ call'[t].rec = rec
           \/ InCall(t) /\ call'[t].rec = call[t].rec /\ (KeyDone(t) => KeyDone(t)')
    BY <1>3 DEF Begins, Times
  <2>2. OneStray'
    BY <2>1 DEF StrayInv, OneStray, Stray
  <2> QED
    BY <1>1, <1>10, <2>1, <2>2 DEF StrayInv, Stray
<1>4. ASSUME NEW t \in Pushers, Appends(t) PROVE StrayInv'
  <2>1. PICK e \in ActionType : /\ e.by = t /\ e.part = call[t].part /\ e.rec = call[t].rec
                                /\ actions' = Append(actions, e)
    BY <1>4 DEF Appends
  <2>2. /\ Len(actions') = Len(actions) + 1 /\ actions'[Len(actions) + 1] = e
        /\ \A i \in 1..Len(actions) : actions'[i] = actions[i]
    BY <1>1, <2>1, AppendFacts
  <2>3. \A i \in 1..Len(actions') : \/ i \in 1..Len(actions) /\ actions'[i] = actions[i]
                                    \/ i = Len(actions) + 1 /\ actions'[i] = e
    BY <1>1, <2>2, PlaceFacts, Zenon
  <2>4. /\ rec' = rec /\ Timed(t) /\ InCall(t) /\ Others(t)
        /\ InCall(t)' => call[t].part = "key" /\ KeyDone(t)' /\ call'[t].rec = call[t].rec
    BY <1>4 DEF Appends, Timed, InCall
  <2>5. e.rec # rec => /\ t \in {"cef"} \cup Replays
                       /\ \A i \in 1..Len(actions) : Stray(i) /\ actions[i].by = t =>
                            actions[i].part = "key" /\ e.part = "char"
    <3>1. KeyDone(t) => call[t].part = "char"
      BY <2>4 DEF Timed, KeyDone
    <3> QED
      BY <2>1, <2>4, <3>1 DEF StrayInv, Pushers
  <2>6. OneStray'
    <3> SUFFICES ASSUME NEW i \in 1..Len(actions'), NEW j \in 1..Len(actions'),
                        actions'[i].rec # rec, actions'[j].rec # rec
                 PROVE  /\ actions'[i].by \in {"cef"} \cup Replays
                        /\ i < j /\ actions'[i].by = actions'[j].by
                             => actions'[i].part = "key" /\ actions'[j].part = "char"
      BY <2>4 DEF OneStray, Stray
    <3>1. CASE i \in 1..Len(actions) /\ j \in 1..Len(actions)
      BY <2>2, <3>1 DEF StrayInv, OneStray, Stray
    <3>2. CASE i = Len(actions) + 1
      BY <1>1, <2>1, <2>2, <2>3, <2>5, <3>2
    <3>3. CASE i \in 1..Len(actions) /\ j = Len(actions) + 1
      BY <2>1, <2>2, <2>5, <3>3 DEF StrayInv, OneStray, Stray
    <3> QED
      BY <2>3, <3>1, <3>2, <3>3
  <2>7. ASSUME NEW u \in Pushers, InCall(u)', call'[u].rec # rec,
               NEW i \in 1..Len(actions'), actions'[i].rec # rec, actions'[i].by = u
        PROVE  actions'[i].part = "key" /\ KeyDone(u)'
    <3>1. CASE u # t
      <4>1. InCall(u) /\ call[u].rec # rec /\ (KeyDone(u) => KeyDone(u)')
        BY <1>10, <2>4, <2>7, <3>1
      <4>2. i \in 1..Len(actions) /\ actions'[i] = actions[i]
        BY <2>1, <2>3, <2>7, <3>1
      <4> QED
        BY <2>7, <4>1, <4>2 DEF StrayInv, Stray
    <3>2. CASE u = t
      <4>1. call[t].part = "key" /\ KeyDone(t)' /\ call[t].rec # rec
        BY <2>4, <2>7, <3>2
      <4>2. e.part = "key" /\ e.rec # rec
        BY <2>1, <4>1
      <4>3. CASE i \in 1..Len(actions) /\ actions'[i] = actions[i]
        BY <2>5, <2>7, <3>2, <4>1, <4>2, <4>3 DEF Stray
      <4>4. CASE i = Len(actions) + 1 /\ actions'[i] = e
        BY <3>2, <4>1, <4>2, <4>4
      <4> QED
        BY <2>3, <4>3, <4>4
    <3> QED
      BY <3>1, <3>2
  <2>8. \A u \in Pushers : InCall(u)' => InCall(u) /\ call'[u].rec = call[u].rec
    BY <1>10, <2>4
  <2> QED
    BY <1>1, <2>4, <2>6, <2>7, <2>8 DEF StrayInv, Stray
<1>5. CASE Reads
  <2>1. PICK e \in ActionType : e.rec = rec /\ actions' = Append(actions, e)
    BY <1>5 DEF Reads
  <2>2. /\ Len(actions') = Len(actions) + 1 /\ actions'[Len(actions) + 1] = e
        /\ \A i \in 1..Len(actions) : actions'[i] = actions[i]
    BY <1>1, <2>1, AppendFacts
  <2>3. rec' = rec /\ call' = call
    BY <1>5 DEF Reads
  <2>4. \A i \in 1..Len(actions') : actions'[i].rec # rec =>
          i \in 1..Len(actions) /\ actions'[i] = actions[i]
    BY <1>1, <2>1, <2>2
  <2>5. OneStray'
    BY <2>3, <2>4 DEF OneStray, Stray, StrayInv
  <2> QED
    BY <2>3, <2>4, <2>5 DEF StrayInv, InCall, KeyDone, Stray
<1>6. CASE Renews
  <2>1. Len(actions') = 0 /\ call' = call /\ rec' = rec + 1 /\ ~InCall("main")
    BY <1>6 DEF Renews
  <2>2. OneStray'
    BY <2>1 DEF OneStray
  <2> QED
    BY <1>1, <2>1, <2>2 DEF StrayInv, InCall
<1>7. CASE Stamps
  BY <1>7 DEF Stamps, StrayInv, OneStray, Stray, InCall, KeyDone
<1> QED
  BY <1>2, <1>3, <1>4, <1>5, <1>6, <1>7, ScriptStep

StrayBase == BaseInv /\ StrayInv

LEMMA StrayInit == Init => StrayBase
<1> SUFFICES ASSUME Init PROVE StrayBase
  OBVIOUS
<1>1. \A t \in Pushers : ~InCall(t)
  BY DEF Init, InCall, NoCall
<1>2. StrayInv
  BY <1>1 DEF Init, StrayInv, OneStray, Pushers
<1> QED
  BY <1>2, BaseInit DEF StrayBase

LEMMA StrayBaseStep == StrayBase /\ [Next]_vars => StrayBase'
  BY BaseStep, StrayStep DEF StrayBase, BaseInv

\* A recording holds of each other thread at most the one input it had under way
\* when DeleteActions (web_event_browser.cpp:1235) erased the list: a resize of a
\* replay (1572), or what one run of a hook pushes (135, 159), in every behaviour
\* and with any number of replay threads.
THEOREM OneStrayCorrect == Spec => []OneStray
<1>1. StrayBase => OneStray
  BY DEF StrayBase, StrayInv
<1> QED
  BY <1>1, StrayInit, StrayBaseStep, PTL DEF Spec

-----------------------------------------------------------------------------
(***************************************************************************)
(* Times.  A call of this script is no older than what its thread has       *)
(* listed, and no older than the script unless it is a replay's; nothing is *)
(* newer than the clock.                                                   *)
(***************************************************************************)
\* What holds of thread t once it has read the clock.
TimedOK(t) ==
  Timed(t) =>
    /\ call[t].ts <= clock
    /\ call[t].rec = rec /\ t \notin Replays => start_timestamp <= call[t].ts
    /\ \A i \in 1..Len(actions) :
         call[t].rec = rec /\ actions[i].rec = rec /\ actions[i].by = t
           => actions[i].ts <= call[t].ts

TimeInv ==
  /\ start_timestamp <= clock /\ (main = "loading" => start_timestamp = 0)
  /\ Unstamped =>
       /\ \A t \in Pushers \ Replays : InCall(t) => call[t].rec # rec
       /\ \A i \in 1..Len(actions) : actions[i].rec = rec => actions[i].by \in Replays
  /\ \A t \in Pushers : TimedOK(t)
  /\ \A i \in 1..Len(actions) :
       actions[i].ts <= clock /\ (actions[i].by = "file" => actions[i].ts = 0)

\* Every kind of step keeps each thread's actions in order.
LEMMA TimeStep ==
  ASSUME TypeOK, TypeOK', MainPlace, HookInv, StrayInv, TimeInv, ThreadReplayable, [Next]_vars
  PROVE  TimeInv' /\ ThreadReplayable'
<1>1. /\ rec \in Nat /\ actions \in Seq(ActionType) /\ Len(actions) \in Nat
      /\ clock \in Nat /\ start_timestamp \in Nat
      /\ "file" \notin Pushers /\ Replays \subseteq Pushers
      /\ \A t \in Pushers : call[t].ts \in Nat /\ call[t].rec \in Nat
  <2>1. \A t \in Pushers : call[t].ts \in Nat /\ call[t].rec \in Nat
    BY NumberTypes, TableTypes, Zenon
  <2> QED
    BY <2>1, NumberTypes, ThreadNames, Zenon
<1>2. \A i \in 1..Len(actions) : actions[i].ts \in Nat
  <2>1. \A i \in 1..Len(actions) : actions[i] \in ActionType
    BY <1>1
  <2>2. \A a \in ActionType : a.ts \in Nat
    BY DEF ActionType
  <2> QED
    BY <2>1, <2>2
<1>10. \A t \in Pushers : Others(t) =>
         \A u \in Pushers \ {t} : /\ call'[u] = call[u] /\ (InCall(u)' <=> InCall(u))
                                  /\ (Timed(u)' <=> Timed(u))
  BY DEF Others, InCall, Timed
<1>3. CASE Calm
  <2>1. ThreadReplayable'
    BY <1>3 DEF Calm, ThreadReplayable
  <2>2. /\ UNCHANGED <<actions, rec, start_timestamp>> /\ clock' \in Nat /\ clock <= clock'
        /\ \A t \in Pushers : Goes(t)
        /\ Aside
    BY <1>3 DEF Calm
  <2>3. \A i \in 1..Len(actions') :
          actions'[i].ts <= clock' /\ (actions'[i].by = "file" => actions'[i].ts = 0)
    BY <1>1, <1>2, <2>2 DEF TimeInv
  <2>4. ASSUME NEW t \in Pushers PROVE TimedOK(t)'
    <3>1. Timed(t)' => Timed(t) /\ call'[t].ts = call[t].ts /\ call'[t].rec = call[t].rec
      BY <2>2 DEF Goes, InCall, Timed
    <3> QED
      BY <1>1, <2>2, <3>1 DEF TimeInv, TimedOK
  <2>5. start_timestamp' <= clock' /\ (main' = "loading" => start_timestamp' = 0)
    BY <1>1, <2>2 DEF TimeInv, Aside
  <2>6. Unstamped' =>
          /\ \A t \in Pushers \ Replays : InCall(t)' => call'[t].rec # rec'
          /\ \A i \in 1..Len(actions') : actions'[i].rec = rec' => actions'[i].by \in Replays
    BY <2>2 DEF TimeInv, Aside, Goes
  <2> QED
    BY <2>1, <2>3, <2>4, <2>5, <2>6 DEF TimeInv
<1>4. ASSUME NEW t \in Pushers, Begins(t) \/ Times(t) PROVE TimeInv' /\ ThreadReplayable'
  <2>1. ThreadReplayable'
    BY <1>4 DEF Begins, Times, ThreadReplayable
  <2>2. /\ UNCHANGED <<actions, rec, start_timestamp, clock>> /\ Others(t) /\ Aside
        /\ Timed(t)' => call'[t].ts = clock
        /\ \/ Unstamped' => t \in Replays
           \/ InCall(t) /\ call'[t].rec = call[t].rec
    BY <1>4 DEF Begins, Times
  <2>3. ASSUME NEW u \in Pushers PROVE TimedOK(u)'
    <3>1. CASE u = t
      BY <1>1, <2>2, <3>1 DEF TimeInv, TimedOK
    <3>2. CASE u # t
      BY <1>10, <2>2, <3>2 DEF TimeInv, TimedOK
    <3> QED
      BY <3>1, <3>2
  <2>4. Unstamped' => \A u \in Pushers \ Replays : InCall(u)' => call'[u].rec # rec'
    BY <1>10, <2>2 DEF TimeInv, Aside
  <2> QED
    BY <2>1, <2>2, <2>3, <2>4 DEF TimeInv, Aside
<1>5. ASSUME NEW t \in Pushers, Appends(t) PROVE TimeInv' /\ ThreadReplayable'
  <2>1. PICK e \in ActionType :
          /\ e.by = t /\ e.ts = call[t].ts /\ e.rec = call[t].rec
          /\ actions' = Append(actions, e)
    BY <1>5 DEF Appends
  <2>2. /\ Len(actions') = Len(actions) + 1 /\ actions'[Len(actions) + 1] = e
        /\ \A i \in 1..Len(actions) : actions'[i] = actions[i]
    BY <1>1, <2>1, AppendFacts
  <2>3. \A i \in 1..Len(actions') : \/ i \in 1..Len(actions) /\ actions'[i] = actions[i]
                                    \/ i = Len(actions) + 1 /\ actions'[i] = e
    BY <1>1, <2>2, PlaceFacts, Zenon
  <2>4. /\ UNCHANGED <<rec, start_timestamp, clock>> /\ Others(t) /\ Aside
        /\ Timed(t) /\ InCall(t) /\ ~Timed(t)'
        /\ InCall(t)' => call'[t].rec = call[t].rec
    BY <1>5 DEF Appends, Timed, InCall
  <2>5. TimedOK(t)
    BY DEF TimeInv
  <2>6. ThreadReplayable'
    <3>0. SUFFICES ASSUME NEW j \in 1..Len(actions'), actions'[j].rec = rec'
                   PROVE  /\ actions'[j].by \notin Replays => start_timestamp' <= actions'[j].ts
                          /\ \A i \in 1..j :
                               actions'[i].rec = rec' /\ actions'[i].by = actions'[j].by
                                 => actions'[i].ts <= actions'[j].ts
      BY Zenon DEF ThreadReplayable
    <3>1. CASE j \in 1..Len(actions)
      BY <1>1, <2>2, <2>4, <3>0, <3>1 DEF ThreadReplayable
    <3>2. CASE j = Len(actions) + 1
      <4>1. actions'[j].by = t /\ actions'[j].ts = call[t].ts /\ call[t].rec = rec
        BY <2>1, <2>2, <2>4, <3>0, <3>2
      <4>2. /\ t \notin Replays => start_timestamp <= call[t].ts
            /\ \A i \in 1..Len(actions) :
                 actions[i].rec = rec /\ actions[i].by = t => actions[i].ts <= call[t].ts
        BY <2>4, <2>5, <4>1 DEF TimedOK
      <4>3. call[t].ts \in Nat
        BY <1>1
      <4> QED
        BY <1>1, <1>2, <2>2, <2>4, <3>2, <4>1, <4>2, <4>3
    <3> QED
      BY <2>3, <3>1, <3>2
  <2>7. \A i \in 1..Len(actions') :
          actions'[i].ts <= clock' /\ (actions'[i].by = "file" => actions'[i].ts = 0)
    BY <1>1, <2>1, <2>3, <2>4, <2>5 DEF TimeInv, TimedOK
  <2>8. ASSUME NEW u \in Pushers PROVE TimedOK(u)'
    <3>1. CASE u = t
      BY <2>4, <3>1 DEF TimedOK
    <3>2. CASE u # t
      <4>1. call'[u] = call[u] /\ (Timed(u)' <=> Timed(u))
        BY <1>10, <2>4, <3>2
      <4> QED
        BY <2>1, <2>3, <2>4, <3>2, <4>1 DEF TimeInv, TimedOK
    <3> QED
      BY <3>1, <3>2
  <2>9. Unstamped' =>
          /\ \A u \in Pushers \ Replays : InCall(u)' => call'[u].rec # rec'
          /\ \A i \in 1..Len(actions') : actions'[i].rec = rec' => actions'[i].by \in Replays
    <3> SUFFICES ASSUME Unstamped
                 PROVE  /\ \A u \in Pushers \ Replays : InCall(u)' => call'[u].rec # rec
                        /\ \A i \in 1..Len(actions') :
                             actions'[i].rec = rec => actions'[i].by \in Replays
      BY <2>4 DEF Aside
    <3>1. \A u \in Pushers \ Replays : InCall(u) => call[u].rec # rec
      BY DEF TimeInv
    <3>2. e.rec = rec => e.by \in Replays
      BY <2>1, <2>4, <3>1
    <3>3. \A u \in Pushers : InCall(u)' => InCall(u) /\ call'[u].rec = call[u].rec
      BY <1>10, <2>4
    <3> QED
      BY <2>3, <3>1, <3>2, <3>3 DEF TimeInv
  <2> QED
    BY <2>4, <2>6, <2>7, <2>8, <2>9 DEF TimeInv, Aside
<1>6. CASE Reads
  <2>1. PICK e \in ActionType :
          e.by = "file" /\ e.ts = 0 /\ e.rec = rec /\ actions' = Append(actions, e)
    BY <1>6 DEF Reads
  <2>2. /\ Len(actions') = Len(actions) + 1 /\ actions'[Len(actions) + 1] = e
        /\ \A i \in 1..Len(actions) : actions'[i] = actions[i]
    BY <1>1, <2>1, AppendFacts
  <2>3. UNCHANGED <<rec, start_timestamp, clock, call>> /\ start_timestamp = 0 /\ ~Unstamped'
    BY <1>6 DEF Reads, TimeInv
  <2>4. \A i \in 1..Len(actions') : \/ i \in 1..Len(actions) /\ actions'[i] = actions[i]
                                    \/ i = Len(actions) + 1 /\ actions'[i] = e
    BY <1>1, <2>2, PlaceFacts, Zenon
  <2>5. ThreadReplayable'
    BY <1>1, <1>2, <2>1, <2>2, <2>3, <2>4 DEF ThreadReplayable, TimeInv
  <2>6. \A i \in 1..Len(actions') :
          actions'[i].ts <= clock' /\ (actions'[i].by = "file" => actions'[i].ts = 0)
    BY <1>1, <2>1, <2>3, <2>4 DEF TimeInv
  <2>7. ASSUME NEW t \in Pushers PROVE TimedOK(t)'
    <3>1. t # "file" /\ (Timed(t)' <=> Timed(t))
      BY <1>1, <2>3 DEF Timed
    <3>2. \A i \in 1..Len(actions') :
            actions'[i].by = t => i \in 1..Len(actions) /\ actions'[i] = actions[i]
      BY <2>1, <2>4, <3>1
    <3> QED
      BY <2>3, <3>1, <3>2 DEF TimeInv, TimedOK
  <2> QED
    BY <2>3, <2>5, <2>6, <2>7 DEF TimeInv
<1>7. CASE Renews
  <2>1. Len(actions') = 0 /\ UNCHANGED <<clock, call, start_timestamp>> /\ rec' = rec + 1 /\ Unstamped'
    BY <1>7 DEF Renews
  <2>2. \A t \in Pushers : InCall(t)' => InCall(t) /\ call'[t].rec # rec'
    BY <1>1, <2>1 DEF InCall, StrayInv
  <2>3. \A t \in Pushers : (Timed(t)' => Timed(t)) /\ (Timed(t) => InCall(t)')
    BY <2>1 DEF Timed, InCall
  <2>4. \A t \in Pushers : TimedOK(t)'
    BY <2>1, <2>2, <2>3 DEF TimeInv, TimedOK
  <2>5. ThreadReplayable'
    BY <2>1 DEF ThreadReplayable
  <2>6. main' # "loading"
    BY <2>1 DEF Unstamped
  <2> QED
    BY <2>1, <2>2, <2>4, <2>5, <2>6 DEF TimeInv
<1>8. CASE Stamps
  <2>1. /\ UNCHANGED <<actions, rec, clock, call>> /\ Unstamped /\ ~Unstamped'
        /\ start_timestamp' <= clock' /\ (main' = "loading" => start_timestamp' = 0)
    BY <1>1, <1>8 DEF Stamps
  <2>2. \A i \in 1..Len(actions) : actions[i].rec = rec => actions[i].by \in Replays
    BY <2>1 DEF TimeInv
  <2>3. ThreadReplayable'
    BY <2>1, <2>2 DEF ThreadReplayable
  <2>4. ASSUME NEW t \in Pushers PROVE TimedOK(t)'
    <3>1. (Timed(t)' <=> Timed(t)) /\ (Timed(t) => InCall(t))
      BY <2>1 DEF Timed, InCall
    <3>2. InCall(t) /\ call[t].rec = rec => t \in Replays
      BY <2>1 DEF TimeInv
    <3> QED
      BY <2>1, <3>1, <3>2 DEF TimeInv, TimedOK
  <2> QED
    BY <2>1, <2>3, <2>4 DEF TimeInv
<1> QED
  BY <1>3, <1>4, <1>5, <1>6, <1>7, <1>8, ScriptStep

\* What one thread has recorded of a script is listed in time order, and not before
\* start_timestamp (web_event_browser.cpp:824) unless a replay pushed it while the
\* script was opened, in every behaviour, so that DoDelay's assertion (1227) can
\* otherwise only fail between actions of two threads or two scripts.
THEOREM ThreadReplayableCorrect == Spec => []ThreadReplayable
<1> DEFINE Inv == StrayBase /\ TimeInv /\ ThreadReplayable
<1>1. Init => Inv
  <2> SUFFICES ASSUME Init PROVE Inv
    OBVIOUS
  <2>1. \A t \in Pushers : ~Timed(t)
    BY DEF Init, Timed, NoCall
  <2>2. TimeInv /\ ThreadReplayable
    BY <2>1 DEF Init, TimeInv, TimedOK, ThreadReplayable, Unstamped
  <2> QED
    BY <2>2, StrayInit
<1>2. Inv /\ [Next]_vars => Inv'
  BY StrayBaseStep, BaseStep, TimeStep DEF StrayBase, BaseInv
<1>3. Inv => ThreadReplayable
  OBVIOUS
<1> QED
  BY <1>1, <1>2, <1>3, PTL DEF Spec
=============================================================================

----------------------- MODULE RecorderPayloadProofs -----------------------
(***************************************************************************)
(* Proofs about Recorder, for every value of its constants: who owns a      *)
(* payload, and when the event list may change.                            *)
(***************************************************************************)
EXTENDS RecorderProofs

USE DEF START_RECORD, STOP_RECORD, NoId, recVars, listVars, payloadVars

\* No owner has a payload that was not allocated or that was deleted.
Allocated ==
  /\ io.id \in 0..made /\ io.id \notin freed
  /\ \A i \in 1..Len(queue) : queue[i].id \in 1..made /\ queue[i].id \notin freed
  /\ \A i \in 1..Len(events) : events[i].id \in 0..made /\ events[i].id \notin freed
  /\ freed \subseteq 1..made

\* No two owners have the same one.
Apart ==
  /\ \A i \in 1..Len(queue) : queue[i].id # io.id
  /\ \A i \in 1..Len(events) : events[i].id # NoId => events[i].id # io.id
  /\ \A i, j \in 1..Len(queue) : queue[i].id = queue[j].id => i = j
  /\ \A i, j \in 1..Len(events) : events[i].id # NoId /\ events[i].id = events[j].id => i = j
  /\ \A i \in 1..Len(queue) : \A j \in 1..Len(events) : queue[i].id # events[j].id

OwnerInv == TypeOK /\ MainPlace /\ Allocated /\ Apart

-----------------------------------------------------------------------------
(***************************************************************************)
(* What a step can do to the payloads.                                     *)
(***************************************************************************)
Keeps    == UNCHANGED <<io, queue, events, freed, made>>
Shoots   == /\ UNCHANGED <<io, queue, freed, made>>
            /\ \E e \in EventType : e.id = NoId /\ events' = Append(events, e)
Fills    == /\ io.id = NoId /\ io'.id = made + 1 /\ made' = made + 1
            /\ UNCHANGED <<queue, events, freed>>
Sources  == /\ made' = made + 1 /\ UNCHANGED <<io, events, freed>>
            /\ \E p \in PayloadType : p.id = made + 1 /\ queue' = Append(queue, p)
Queues   == /\ io.id # NoId /\ io'.id = NoId /\ UNCHANGED <<events, freed, made>>
            /\ \E p \in PayloadType : p.id = io.id /\ queue' = Append(queue, p)
Unqueues == /\ queue # <<>> /\ queue' = Tail(queue) /\ UNCHANGED <<io, made>>
            /\ \/ freed' = freed \cup {Head(queue).id} /\ UNCHANGED events
               \/ events' = Append(events, Head(queue)) /\ UNCHANGED freed
               \/ UNCHANGED <<events, freed>>

\* No step does anything else.
LEMMA PayloadStep ==
  TypeOK /\ [Next]_vars => Keeps \/ Shoots \/ Fills \/ Sources \/ Queues \/ Unqueues
<1> SUFFICES ASSUME TypeOK, [Next]_vars
             PROVE  Keeps \/ Shoots \/ Fills \/ Sources \/ Queues \/ Unqueues
  OBVIOUS
<1>1. ASSUME TakeScreenshot, UNCHANGED <<io, queue, freed, made>> PROVE Keeps \/ Shoots
  <2>1. rec \in Nat
    BY DEF TypeOK
  <2>2. [kind |-> "screenshot", id |-> NoId, rec |-> rec] \in EventType
    BY <2>1, EventTypes
  <2> QED
    BY <1>1, <2>2 DEF TakeScreenshot, Keeps, Shoots
<1>2. CASE StartHook \/ StopHook
  BY <1>1, <1>2 DEF StartHook, StopHook
<1>3. CASE LoadItem
  <2>1. [kind |-> "screenshot", id |-> NoId, rec |-> rec] \in EventType
    BY EventTypes DEF TypeOK
  <2> QED
    BY <1>3, <2>1 DEF LoadItem, Keeps, Shoots
<1>4. CASE OnResourceResponse
  BY <1>4 DEF OnResourceResponse, Fills
<1>5. CASE Visit
  <2>1. sources \in Seq(Nat) /\ sources # <<>> /\ made \in Nat
    BY <1>5 DEF Visit, TypeOK
  <2>2. [kind |-> "content", id |-> made + 1, rec |-> Head(sources)] \in PayloadType
    BY <2>1 DEF PayloadType
  <2> QED
    BY <1>5, <2>2 DEF Visit, Sources
<1>6. CASE QueueResource
  <2>1. [kind |-> "resource", id |-> io.id, rec |-> io.rec] \in PayloadType
    BY <1>6 DEF QueueResource, TypeOK, PayloadType
  <2> QED
    BY <1>6, <2>1 DEF QueueResource, Queues
<1>7. CASE HandlePayload
  BY <1>7 DEF HandlePayload, Unqueues
<1>8. CASE \/ \E t \in Pushers : Evaluate(t) \/ PushCheck(t) \/ PushAppend(t)
           \/ \E r \in Replays : PlayResize(r)
  BY <1>8 DEF Evaluate, PushCheck, PushAppend, PlayResize, Keeps
<1>9. CASE (\E part \in {"single", "key"} : Hook(part)) \/ HookTranslate \/ OnLoadEnd \/ Tick
  BY <1>9 DEF Hook, HookTranslate, OnLoadEnd, Tick, Keeps
<1>10. CASE \/ RecordClicked \/ DialogCancelled \/ StartRecord \/ DeleteActions \/ SetStartTime
            \/ SendSizeEvent \/ StopRecord \/ OnSize \/ LoadJsonFile \/ LoadDone
  BY <1>10 DEF RecordClicked, DialogCancelled, StartRecord, DeleteActions, SetStartTime,
     SendSizeEvent, StopRecord, OnSize, LoadJsonFile, LoadDone, Keeps
<1>11. CASE UNCHANGED vars
  BY <1>11 DEF vars, Keeps
<1> QED
  BY <1>2, <1>3, <1>4, <1>5, <1>6, <1>7, <1>8, <1>9, <1>10, <1>11
     DEF Next, MainStep, CefStep, IoStep

\* The rest of a sequence is the sequence one place on.
LEMMA TailFacts ==
  ASSUME NEW S, NEW s \in Seq(S), s # <<>>
  PROVE  /\ Head(s) \in S /\ Head(s) = s[1] /\ Len(s) \in Nat \ {0}
         /\ Tail(s) \in Seq(S) /\ Len(Tail(s)) = Len(s) - 1
         /\ \A i \in 1..Len(Tail(s)) : Tail(s)[i] = s[i + 1]
  OBVIOUS

\* Types of the places a payload can be in.
LEMMA PlaceTypes ==
  TypeOK => /\ queue \in Seq(PayloadType) /\ Len(queue) \in Nat
            /\ events \in Seq(EventType) /\ Len(events) \in Nat
            /\ made \in Nat /\ io.id \in Nat
BY DEF TypeOK

\* A payload changes hands and is never copied.
LEMMA OwnerStep == OwnerInv /\ [Next]_vars => OwnerInv'
<1> SUFFICES ASSUME OwnerInv, [Next]_vars PROVE OwnerInv'
  OBVIOUS
<1>1. TypeOK /\ TypeOK' /\ MainPlace' /\ Allocated /\ Apart
  BY TypeStep, MainPlaceStep DEF OwnerInv
<1>2. /\ queue \in Seq(PayloadType) /\ events \in Seq(EventType) /\ made \in Nat
      /\ Len(queue) \in Nat /\ Len(events) \in Nat
  BY <1>1, PlaceTypes, Zenon
<1>3. CASE Keeps
  BY <1>1, <1>3 DEF Keeps, OwnerInv, Allocated, Apart
<1>4. CASE Shoots
  <2>1. PICK e \in EventType : e.id = NoId /\ events' = Append(events, e)
    BY <1>4 DEF Shoots
  <2>2. /\ Len(events') = Len(events) + 1 /\ events'[Len(events) + 1].id = NoId
        /\ \A i \in 1..Len(events) : events'[i] = events[i]
    BY <1>2, <2>1, AppendFacts
  <2>3. \A i \in 1..Len(events') : events'[i].id # NoId =>
          i \in 1..Len(events) /\ events'[i] = events[i]
    BY <1>2, <2>2
  <2>4. \A i \in 1..Len(events') : events'[i].id = NoId \/ i \in 1..Len(events)
    BY <2>3
  <2>5. Allocated'
    <3>1. NoId \in 0..made /\ NoId \notin freed
      BY <1>1, <1>2 DEF Allocated
    <3> QED
      BY <1>1, <1>4, <2>2, <2>4, <3>1 DEF Shoots, Allocated
  <2>6. Apart'
    <3>1. \A i \in 1..Len(queue) : queue[i].id # NoId
      BY <1>1, <1>2 DEF Allocated
    <3> QED
      BY <1>1, <1>4, <2>3, <3>1 DEF Shoots, Apart
  <2> QED
    BY <1>1, <2>5, <2>6 DEF OwnerInv
<1>5. CASE Fills
  <2>1. Allocated'
    BY <1>1, <1>2, <1>5 DEF Fills, Allocated
  <2>2. Apart'
    BY <1>1, <1>2, <1>5 DEF Fills, Allocated, Apart
  <2> QED
    BY <1>1, <2>1, <2>2 DEF OwnerInv
<1>6. CASE Sources \/ Queues
  <2>1. PICK p \in PayloadType :
          /\ queue' = Append(queue, p)
          /\ \/ p.id = made + 1 /\ made' = made + 1 /\ io' = io
             \/ p.id = io.id /\ io.id # NoId /\ made' = made /\ io'.id = NoId
    BY <1>6 DEF Sources, Queues
  <2>2. UNCHANGED <<events, freed>>
    BY <1>6 DEF Sources, Queues
  <2>3. /\ Len(queue') = Len(queue) + 1 /\ queue'[Len(queue) + 1] = p
        /\ \A i \in 1..Len(queue) : queue'[i] = queue[i]
    BY <1>2, <2>1, AppendFacts
  <2>4. \A i \in 1..Len(queue') : \/ i \in 1..Len(queue) /\ queue'[i] = queue[i]
                                  \/ i = Len(queue) + 1 /\ queue'[i] = p
    BY <1>2, <2>3
  <2>5. /\ p.id \in 1..made' /\ p.id \notin freed /\ p.id # io'.id
        /\ \A i \in 1..Len(queue) : queue[i].id # p.id
        /\ \A i \in 1..Len(events) : events[i].id # p.id
    BY <1>1, <1>2, <2>1 DEF Allocated, Apart
  <2>6. io'.id \in 0..made' /\ io'.id \notin freed /\ made' \in Nat /\ made <= made'
    BY <1>1, <1>2, <2>1 DEF Allocated
  <2>7. Allocated'
    <3>1. 0..made \subseteq 0..made' /\ 1..made \subseteq 1..made'
      BY <1>2, <2>6
    <3> QED
      BY <1>1, <2>2, <2>4, <2>5, <2>6, <3>1 DEF Allocated
  <2>8. Apart'
    <3>1. \A i \in 1..Len(queue) : queue[i].id # io'.id
      BY <1>1, <1>2, <2>1 DEF Allocated, Apart
    <3>2. \A i \in 1..Len(events) : events[i].id # NoId => events[i].id # io'.id
      BY <1>1, <2>1 DEF Apart
    <3>3. \A i \in 1..Len(queue') : queue'[i].id # io'.id
      BY <2>4, <2>5, <3>1
    <3>4. \A i, j \in 1..Len(queue') : queue'[i].id = queue'[j].id => i = j
      BY <1>1, <2>4, <2>5 DEF Apart
    <3>5. \A i \in 1..Len(queue') : \A j \in 1..Len(events) : queue'[i].id # events[j].id
      BY <1>1, <2>4, <2>5 DEF Apart
    <3> QED
      BY <1>1, <2>2, <3>2, <3>3, <3>4, <3>5 DEF Apart
  <2> QED
    BY <1>1, <2>7, <2>8 DEF OwnerInv
<1>7. CASE Unqueues
  <2>1. PICK h : h = Head(queue)
    OBVIOUS
  <2>2. /\ h \in PayloadType /\ h = queue[1] /\ Len(queue) > 0
        /\ Len(queue') = Len(queue) - 1
        /\ \A i \in 1..Len(queue') : queue'[i] = queue[i + 1]
    BY <1>2, <1>7, <2>1, TailFacts DEF Unqueues
  <2>3. \A i \in 1..Len(queue') : i + 1 \in 1..Len(queue) /\ i + 1 # 1
    BY <1>2, <2>2
  <2>4. 1 \in 1..Len(queue)
    BY <1>2, <2>2
  <2>5. /\ h.id \in 1..made /\ h.id \notin freed /\ h.id # io.id
        /\ \A i \in 1..Len(queue') : queue'[i].id # h.id
        /\ \A i \in 1..Len(events) : events[i].id # h.id
    BY <1>1, <2>2, <2>3, <2>4 DEF Allocated, Apart
  <2>6. UNCHANGED <<io, made>>
    BY <1>7 DEF Unqueues
  <2>7. /\ \A i \in 1..Len(queue') : queue'[i].id \in 1..made /\ queue'[i].id \notin freed
        /\ \A i \in 1..Len(queue') : queue'[i].id # io.id
        /\ \A i \in 1..Len(queue') : \A j \in 1..Len(events) : queue'[i].id # events[j].id
    <3>1. \A i \in 1..Len(queue') : queue'[i] = queue[i + 1] /\ i + 1 \in 1..Len(queue)
      BY <2>2, <2>3
    <3>2. /\ \A i \in 1..Len(queue) : queue[i].id \in 1..made /\ queue[i].id \notin freed
          /\ \A i \in 1..Len(queue) : queue[i].id # io.id
      BY <1>1 DEF Allocated, Apart
    <3>3. \A i \in 1..Len(queue) : \A j \in 1..Len(events) : queue[i].id # events[j].id
      BY <1>1 DEF Apart
    <3> QED
      BY <3>1, <3>2, <3>3
  <2>8. \A i, j \in 1..Len(queue') : queue'[i].id = queue'[j].id => i = j
    <3> SUFFICES ASSUME NEW i \in 1..Len(queue'), NEW j \in 1..Len(queue'),
                        queue'[i].id = queue'[j].id
                 PROVE  i = j
      OBVIOUS
    <3>1. i + 1 = j + 1
      BY <1>1, <2>2, <2>3 DEF Apart
    <3> QED
      BY <1>2, <2>2, <3>1
  <2>9. CASE freed' = freed \cup {h.id} /\ UNCHANGED events
    <3>1. Allocated'
      BY <1>1, <2>5, <2>6, <2>7, <2>9 DEF Allocated
    <3>2. Apart'
      BY <1>1, <2>6, <2>7, <2>8, <2>9 DEF Apart
    <3> QED
      BY <1>1, <3>1, <3>2 DEF OwnerInv
  <2>10. CASE events' = Append(events, h) /\ UNCHANGED freed
    <3>1. /\ Len(events') = Len(events) + 1 /\ events'[Len(events) + 1] = h
          /\ \A i \in 1..Len(events) : events'[i] = events[i]
      BY <1>2, <2>2, <2>10, EventTypes, AppendFacts
    <3>2. \A i \in 1..Len(events') : \/ i \in 1..Len(events) /\ events'[i] = events[i]
                                     \/ i = Len(events) + 1 /\ events'[i] = h
      BY <1>2, <3>1
    <3>3. Allocated'
      <4>1. h.id \in 0..made
        BY <1>2, <2>5
      <4> QED
        BY <1>1, <2>5, <2>6, <2>7, <2>10, <3>2, <4>1 DEF Allocated
    <3>4. Apart'
      <4>1. \A i \in 1..Len(events') : events'[i].id # NoId => events'[i].id # io.id
        BY <1>1, <2>5, <3>2 DEF Apart
      <4>2. \A i, j \in 1..Len(events') :
              events'[i].id # NoId /\ events'[i].id = events'[j].id => i = j
        BY <1>1, <2>5, <3>2 DEF Apart
      <4>3. \A i \in 1..Len(queue') : \A j \in 1..Len(events') : queue'[i].id # events'[j].id
        BY <2>5, <2>7, <3>2
      <4> QED
        BY <2>6, <2>7, <2>8, <4>1, <4>2, <4>3 DEF Apart
    <3> QED
      BY <1>1, <3>3, <3>4 DEF OwnerInv
  <2>11. CASE UNCHANGED <<events, freed>>
    <3>1. Allocated'
      BY <1>1, <2>6, <2>7, <2>11 DEF Allocated
    <3>2. Apart'
      BY <1>1, <2>6, <2>7, <2>8, <2>11 DEF Apart
    <3> QED
      BY <1>1, <3>1, <3>2 DEF OwnerInv
  <2> QED
    BY <1>7, <2>1, <2>9, <2>10, <2>11 DEF Unqueues
<1> QED
  BY <1>1, <1>3, <1>4, <1>5, <1>6, <1>7, PayloadStep

LEMMA OwnerInit == Init => OwnerInv
<1> SUFFICES ASSUME Init PROVE OwnerInv
  OBVIOUS
<1>1. TypeOK /\ MainPlace
  BY TypeInit, MainPlaceInit
<1>2. io.id = 0 /\ made = 0 /\ freed = {} /\ Len(queue) = 0 /\ Len(events) = 0
  BY DEF Init
<1>3. Allocated /\ Apart
  BY <1>2 DEF Allocated, Apart
<1> QED
  BY <1>1, <1>3 DEF OwnerInv

-----------------------------------------------------------------------------
(***************************************************************************)
(* The list of owners in PayloadOwned: the handler, the queue, the events.  *)
(***************************************************************************)
LEMMA OwnerList ==
  ASSUME NEW x \in Nat, NEW q \in Seq(Nat), NEW e \in Seq(Nat),
         NEW owners, owners = <<x>> \o q \o e
  PROVE  /\ Len(owners) = 1 + Len(q) + Len(e)
         /\ \A i \in 1..Len(owners) :
              owners[i] = IF i = 1 THEN x
                          ELSE IF i <= 1 + Len(q) THEN q[i - 1] ELSE e[i - 1 - Len(q)]
<1>1. <<x>> \o q \in Seq(Nat) /\ Len(<<x>> \o q) = 1 + Len(q)
  OBVIOUS
<1>2. \A i \in 1..(1 + Len(q)) : (<<x>> \o q)[i] = IF i = 1 THEN x ELSE q[i - 1]
  OBVIOUS
<1>3. PICK p : p = <<x>> \o q
  OBVIOUS
<1>4. p \in Seq(Nat) /\ Len(p) \in Nat /\ Len(e) \in Nat
  BY <1>1, <1>3
<1>5. /\ Len(p \o e) = Len(p) + Len(e)
      /\ \A i \in 1..Len(p \o e) : (p \o e)[i] = IF i <= Len(p) THEN p[i] ELSE e[i - Len(p)]
  BY <1>4
<1> QED
  BY <1>1, <1>2, <1>3, <1>4, <1>5

\* In every behaviour a payload of a CEF thread has at most one owner: none is
\* deleted twice, queued twice, or listed after it was deleted.
THEOREM PayloadOwnedCorrect == Spec => []PayloadOwned
<1>1. OwnerInv => PayloadOwned
  <2> SUFFICES ASSUME OwnerInv PROVE PayloadOwned
    OBVIOUS
  <2>1. PICK x, q, e : /\ x = io.id
                       /\ q = [i \in 1..Len(queue) |-> queue[i].id]
                       /\ e = [i \in 1..Len(events) |-> events[i].id]
    OBVIOUS
  <2>2. queue \in Seq(PayloadType) /\ events \in Seq(EventType) /\ io.id \in Nat /\ made \in Nat
    BY PlaceTypes DEF OwnerInv
  <2>3. Len(queue) \in Nat /\ Len(events) \in Nat
    BY <2>2
  <2>4. /\ \A i \in 1..Len(queue) : q[i] = queue[i].id
        /\ \A i \in 1..Len(events) : e[i] = events[i].id
    BY <2>1
  <2>5. /\ \A i \in 1..Len(queue) : q[i] \in Nat
        /\ \A i \in 1..Len(events) : e[i] \in Nat
    <3>1. /\ \A i \in 1..Len(queue) : queue[i].id \in 1..made
          /\ \A i \in 1..Len(events) : events[i].id \in 0..made
      BY Zenon DEF OwnerInv, Allocated
    <3> QED
      BY <2>2, <2>4, <3>1
  <2>6. /\ x \in Nat /\ q \in Seq(Nat) /\ e \in Seq(Nat)
        /\ Len(q) = Len(queue) /\ Len(e) = Len(events)
    BY <2>1, <2>2, <2>3, <2>5
  <2>7. PICK owners : owners = <<x>> \o q \o e
    OBVIOUS
  <2>8. /\ Len(owners) = 1 + Len(queue) + Len(events)
        /\ \A i \in 1..Len(owners) :
             owners[i] = IF i = 1 THEN x
                         ELSE IF i <= 1 + Len(queue) THEN q[i - 1] ELSE e[i - 1 - Len(queue)]
    <3>1. /\ Len(owners) = 1 + Len(q) + Len(e)
          /\ \A i \in 1..Len(owners) :
               owners[i] = IF i = 1 THEN x
                           ELSE IF i <= 1 + Len(q) THEN q[i - 1] ELSE e[i - 1 - Len(q)]
      <4>1. x \in Nat
        BY <2>6
      <4>2. q \in Seq(Nat) /\ e \in Seq(Nat)
        BY <2>6
      <4> QED
        BY ONLY <2>7, <4>1, <4>2, OwnerList
    <3> QED
      BY <2>6, <3>1
  <2>9. \A i \in 1..Len(owners) :
          \/ i = 1 /\ owners[i] = io.id
          \/ i - 1 \in 1..Len(queue) /\ owners[i] = queue[i - 1].id
          \/ i - 1 - Len(queue) \in 1..Len(events)
             /\ owners[i] = events[i - 1 - Len(queue)].id
    <3> SUFFICES ASSUME NEW i \in 1..Len(owners)
                 PROVE  \/ i = 1 /\ owners[i] = io.id
                        \/ i - 1 \in 1..Len(queue) /\ owners[i] = queue[i - 1].id
                        \/ i - 1 - Len(queue) \in 1..Len(events)
                           /\ owners[i] = events[i - 1 - Len(queue)].id
      OBVIOUS
    <3>1. CASE i = 1
      BY <2>1, <2>8, <3>1
    <3>2. CASE i # 1 /\ i <= 1 + Len(queue)
      <4>1. i - 1 \in 1..Len(queue)
        BY <2>3, <2>8, <3>2
      <4> QED
        BY <2>4, <2>8, <3>2, <4>1
    <3>3. CASE i > 1 + Len(queue)
      <4>1. i - 1 - Len(queue) \in 1..Len(events) /\ i # 1 /\ ~(i <= 1 + Len(queue))
        BY <2>3, <2>8, <3>3
      <4> QED
        BY <2>4, <2>8, <4>1
    <3> QED
      BY <2>3, <2>8, <3>1, <3>2, <3>3
  <2>10. ASSUME NEW i \in 1..Len(owners), owners[i] # NoId
         PROVE  owners[i] \in 1..made /\ owners[i] \notin freed
    <3>1. Allocated
      BY DEF OwnerInv
    <3>2. CASE i = 1 /\ owners[i] = io.id
      BY <2>2, <2>10, <3>1, <3>2 DEF Allocated
    <3>3. CASE i - 1 \in 1..Len(queue) /\ owners[i] = queue[i - 1].id
      BY <3>1, <3>3 DEF Allocated
    <3>4. CASE /\ i - 1 - Len(queue) \in 1..Len(events)
               /\ owners[i] = events[i - 1 - Len(queue)].id
      BY <2>2, <2>10, <3>1, <3>4 DEF Allocated
    <3> QED
      BY <2>9, <3>2, <3>3, <3>4
  <2>11. ASSUME NEW i \in 1..Len(owners), NEW j \in 1..Len(owners), owners[i] # NoId,
                owners[i] = owners[j]
         PROVE  i = j
    <3> DEFINE inQueue(k) == k - 1 \in 1..Len(queue) /\ owners[k] = queue[k - 1].id
               inEvents(k) == /\ k - 1 - Len(queue) \in 1..Len(events)
                              /\ owners[k] = events[k - 1 - Len(queue)].id
    <3>1. i \in Nat /\ j \in Nat
      <4>1. Len(owners) \in Nat
        BY <2>3, <2>8
      <4> QED
        BY <4>1
    <3>2. (i = 1 /\ owners[i] = io.id) \/ inQueue(i) \/ inEvents(i)
      BY <2>9
    <3>3. (j = 1 /\ owners[j] = io.id) \/ inQueue(j) \/ inEvents(j)
      BY <2>9
    <3>4. Apart
      BY DEF OwnerInv
    <3>5. ~(inQueue(i) /\ inEvents(j)) /\ ~(inEvents(i) /\ inQueue(j))
      BY <2>11, <3>4 DEF Apart
    <3>6. i = 1 /\ owners[i] = io.id => ~inQueue(j) /\ ~inEvents(j)
      BY <2>11, <3>4 DEF Apart
    <3>7. j = 1 /\ owners[j] = io.id => ~inQueue(i) /\ ~inEvents(i)
      BY <2>11, <3>4 DEF Apart
    <3>8. ASSUME inQueue(i), inQueue(j) PROVE i = j
      <4>1. i - 1 = j - 1
        BY <2>11, <3>4, <3>8 DEF Apart
      <4> QED
        BY <3>1, <4>1
    <3>9. ASSUME inEvents(i), inEvents(j) PROVE i = j
      <4>1. i - 1 - Len(queue) = j - 1 - Len(queue)
        BY <2>11, <3>4, <3>9 DEF Apart
      <4> QED
        BY <2>3, <3>1, <4>1
    <3> HIDE DEF inQueue, inEvents
    <3> QED
      BY <3>2, <3>3, <3>5, <3>6, <3>7, <3>8, <3>9
  <2> QED
    BY <2>1, <2>7, <2>10, <2>11 DEF PayloadOwned
<1> QED
  BY <1>1, OwnerInit, OwnerStep, PTL DEF Spec

-----------------------------------------------------------------------------
\* Only a handler that found the recorder on adds to the event list, so a stopped
\* script is saved with the events it had, whatever arrives late.
THEOREM EventsFrozenCorrect == Spec => EventsFrozen
<1>1. [Next]_vars => [CanSave => events' = events]_vars
  <2> SUFFICES ASSUME Next, main = "idle", state = STOP_RECORD PROVE events' = events
    BY DEF CanSave, vars
  <2>1. CASE HandlePayload
    BY <2>1 DEF HandlePayload
  <2>2. CASE \/ StartHook \/ StopHook \/ LoadItem
    BY <2>2 DEF StartHook, StopHook, LoadItem
  <2>3. CASE \/ CefStep \/ IoStep \/ Tick \/ \E r \in Replays : PlayResize(r)
             \/ \E t \in Pushers : Evaluate(t) \/ PushCheck(t) \/ PushAppend(t)
    BY <2>3 DEF CefStep, Hook, HookTranslate, OnLoadEnd, Visit, IoStep, OnResourceResponse,
       QueueResource, Tick, PlayResize, Evaluate, PushCheck, PushAppend
  <2>4. CASE \/ RecordClicked \/ DialogCancelled \/ StartRecord \/ DeleteActions
             \/ SetStartTime \/ SendSizeEvent \/ StopRecord \/ OnSize \/ LoadJsonFile
             \/ LoadDone
    BY <2>4 DEF RecordClicked, DialogCancelled, StartRecord, DeleteActions, SetStartTime,
       SendSizeEvent, StopRecord, OnSize, LoadJsonFile, LoadDone
  <2> QED
    BY <2>1, <2>2, <2>3, <2>4 DEF Next, MainStep
<1> QED
  BY <1>1, PTL DEF Spec, EventsFrozen

=============================================================================

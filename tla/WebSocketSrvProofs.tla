------------------------- MODULE WebSocketSrvProofs -------------------------
(***************************************************************************)
(* Proofs about WebSocketSrv, for every set of clients and of threads and   *)
(* every number of calls.                                                  *)
(***************************************************************************)
EXTENDS WebSocketSrv, TLAPS

USE DEF WSOCK_OPEN, WSOCK_CLOSE

\* The types of TypeOK, and its account of what is listed.
Typed ==
  /\ state \in {WSOCK_OPEN, WSOCK_CLOSE}
  /\ con_hdl \in Clients \cup {NoClient} /\ ws \in Clients \cup {NoClient}
  /\ server \in {"none", "running", "stopped"}
  /\ conn \in [Clients -> {"none", "open", "closing", "closed"}]
  /\ pc \in [Pushers -> {"out", "assert", "send", "append"}]
  /\ pushed \in [Pushers -> 0..MaxPushes]
  /\ actions \in Seq(Items)
  /\ stream \in [Clients -> Seq(Items)]
  /\ failed \in {"no", "assert", "exception"}
  /\ since \in [Clients -> [Pushers -> 0..MaxPushes]]
  /\ overlap \in BOOLEAN

ListedOnce ==
  \A t \in Pushers : \A n \in 1..pushed[t] :
    [by |-> t, n |-> n] \in Listed <=> n < pushed[t] \/ pc[t] = "out"

\* What makes it inductive: a thread inside a Push call has a number for it, and
\* nothing is listed that was not pushed.
CallInv ==
  /\ \A t \in Pushers : pc[t] # "out" => pushed[t] > 0
  /\ \A x \in Listed : x.n <= pushed[x.by]

\* No handler has run before the server does; a handle names a connection that
\* was made; and during on_open the state is open, the client is there, and if
\* nobody else has been there it is alone.
HandlerInv ==
  /\ server = "none" => \A c \in Clients : conn[c] = "none"
  /\ con_hdl \in Clients => conn[con_hdl] # "none"
  /\ ws \in Clients => /\ state = WSOCK_OPEN
                       /\ conn[ws] = "open"
                       /\ ~overlap => Up = {ws}

IInv == Typed /\ CallInv /\ ListedOnce /\ HandlerInv

\* A pushed action is one that can be listed and sent.
LEMMA ItemTyped ==
  ASSUME Typed, CallInv, NEW t \in Pushers, pc[t] # "out"
  PROVE  Item(t) \in Items /\ Item(t).by = t /\ Item(t).n = pushed[t]
  <1>1. pushed[t] \in 0..MaxPushes /\ pushed[t] > 0
    BY DEF Typed, CallInv
  <1> QED
    BY <1>1, WebSocketAssumption DEF Item, Items

\* Appending to a sequence adds one element and leaves the others in place.
LEMMA AppendFacts ==
  ASSUME NEW S, NEW s \in Seq(S), NEW e \in S
  PROVE  /\ Append(s, e) \in Seq(S)
         /\ Len(Append(s, e)) = Len(s) + 1
         /\ \A i \in 1..Len(s) : Append(s, e)[i] = s[i]
         /\ Append(s, e)[Len(s) + 1] = e
  OBVIOUS

\* What is listed is an item.
LEMMA ListedTyped ==
  ASSUME Typed
  PROVE  \A x \in Listed : x \in Items /\ x.by \in Pushers /\ x.n \in 1..MaxPushes
                           /\ x = [by |-> x.by, n |-> x.n]
  <1>1. \A x \in Listed : x \in Items
    BY DEF Typed, Listed
  <1> QED
    BY <1>1 DEF Items

\* The types are kept.
LEMMA TypedStep == Typed /\ CallInv /\ [Next]_vars => Typed'
<1> SUFFICES ASSUME Typed, CallInv, [Next]_vars PROVE Typed'
  OBVIOUS
<1>1. CASE Run
  BY <1>1 DEF Run, Typed
<1>2. CASE StopServer
  BY <1>2 DEF StopServer, Typed
<1>3. CASE OnOpenHandle
  BY <1>3 DEF OnOpenHandle, Typed
<1>4. ASSUME NEW c \in Clients, OnOpen(c) PROVE Typed'
  BY <1>4 DEF OnOpen, Typed
<1>5. ASSUME NEW c \in Clients, Disconnect(c) PROVE Typed'
  BY <1>5 DEF Disconnect, Typed
<1>6. ASSUME NEW c \in Clients, OnClose(c) PROVE Typed'
  BY <1>6 DEF OnClose, Typed
<1>7. ASSUME NEW t \in Pushers, Push(t) PROVE Typed'
  BY <1>7, WebSocketAssumption DEF Push, Typed
<1>8. ASSUME NEW t \in Pushers, SendJson(t) PROVE Typed'
  BY <1>8 DEF SendJson, Typed
<1>9. ASSUME NEW t \in Pushers, SendDate(t) PROVE Typed'
  <2>1. Item(t) \in Items
    BY <1>9, ItemTyped DEF SendDate
  <2>2. stream' = stream \/ (con_hdl \in Clients /\ stream' = [stream EXCEPT ![con_hdl] = Append(@, Item(t))])
    BY <1>9 DEF SendDate, Reachable
  <2>3. stream' \in [Clients -> Seq(Items)]
    <3>1. CASE stream' = stream
      BY <3>1 DEF Typed
    <3>2. CASE con_hdl \in Clients /\ stream' = [stream EXCEPT ![con_hdl] = Append(@, Item(t))]
      <4>1. stream[con_hdl] \in Seq(Items)
        BY <3>2 DEF Typed
      <4>2. Append(stream[con_hdl], Item(t)) \in Seq(Items)
        BY <2>1, <4>1, AppendFacts
      <4> QED
        BY <3>2, <4>2 DEF Typed
    <3> QED
      BY <2>2, <3>1, <3>2
  <2> QED
    BY <1>9, <2>3 DEF SendDate, Typed
<1>10. ASSUME NEW t \in Pushers, PushBack(t) PROVE Typed'
  BY <1>10, ItemTyped, AppendFacts DEF PushBack, Typed
<1>11. CASE UNCHANGED vars
  BY <1>11 DEF vars, Typed
<1> QED
  BY <1>1, <1>2, <1>3, <1>4, <1>5, <1>6, <1>7, <1>8, <1>9, <1>10, <1>11 DEF Next

\* What is listed grows by the action that is being pushed, when it is listed.
LEMMA ListedStep ==
  ASSUME Typed, CallInv, NEW t \in Pushers, PushBack(t)
  PROVE  Listed' = Listed \cup {Item(t)}
  <1>1. Item(t) \in Items
    BY ItemTyped DEF PushBack
  <1>2. actions' = Append(actions, Item(t))
    BY DEF PushBack
  <1>3. /\ Len(actions') = Len(actions) + 1 /\ Len(actions) \in Nat
        /\ \A i \in 1..Len(actions) : actions'[i] = actions[i]
        /\ actions'[Len(actions) + 1] = Item(t)
    BY <1>1, <1>2, AppendFacts DEF Typed
  <1>4. ASSUME NEW x PROVE x \in Listed' <=> x \in Listed \/ x = Item(t)
    <2>1. x \in Listed' <=> \E i \in 1..Len(actions) + 1 : x = actions'[i]
      BY <1>3 DEF Listed
    <2>2. x \in Listed <=> \E i \in 1..Len(actions) : x = actions[i]
      BY DEF Listed
    <2> QED
      BY <1>3, <2>1, <2>2
  <1> QED
    BY <1>4

\* Threads outside their call list nothing.
LEMMA AccountStep == Typed /\ CallInv /\ ListedOnce /\ [Next]_vars => CallInv' /\ ListedOnce'
<1> SUFFICES ASSUME Typed, CallInv, ListedOnce, [Next]_vars PROVE CallInv' /\ ListedOnce'
  OBVIOUS
<1>1. CASE UNCHANGED <<pc, pushed, actions>>
  BY <1>1 DEF CallInv, ListedOnce, Listed
<1>2. ASSUME NEW t \in Pushers, Push(t) PROVE CallInv' /\ ListedOnce'
  <2>1. /\ pc[t] = "out" /\ pushed[t] < MaxPushes /\ pushed[t] \in 0..MaxPushes
        /\ pushed' = [pushed EXCEPT ![t] = @ + 1] /\ Listed' = Listed
        /\ \A u \in Pushers : u # t => pc'[u] = pc[u]
        /\ pc'[t] \in {"assert", "append"}
    BY <1>2 DEF Push, Typed, Listed
  <2>2. \A u \in Pushers : pushed'[u] = IF u = t THEN pushed[t] + 1 ELSE pushed[u]
    BY <2>1 DEF Typed
  <2>3. \A u \in Pushers : pushed[u] \in Nat
    BY WebSocketAssumption DEF Typed
  <2>4. CallInv'
    <3>1. ASSUME NEW u \in Pushers, pc'[u] # "out" PROVE pushed'[u] > 0
      BY <2>1, <2>2, <2>3, <3>1 DEF CallInv
    <3>2. ASSUME NEW x \in Listed PROVE x.n <= pushed'[x.by]
      <4>1. x.by \in Pushers /\ x.n \in Nat /\ x.n <= pushed[x.by]
        BY <3>2, ListedTyped DEF CallInv
      <4> QED
        BY <2>2, <2>3, <4>1
    <3> QED
      BY <2>1, <3>1, <3>2 DEF CallInv
  <2>5. ListedOnce'
    <3> SUFFICES ASSUME NEW u \in Pushers, NEW n \in 1..pushed'[u]
                 PROVE  [by |-> u, n |-> n] \in Listed <=> n < pushed'[u] \/ pc'[u] = "out"
      BY <2>1 DEF ListedOnce
    <3>1. CASE u # t
      BY <2>1, <2>2, <3>1 DEF ListedOnce
    <3>2. CASE u = t /\ n <= pushed[t]
      BY <2>1, <2>2, <2>3, <3>2 DEF ListedOnce
    <3>3. CASE u = t /\ n = pushed[t] + 1
      <4>1. [by |-> u, n |-> n] \notin Listed
        BY <2>3, <3>3 DEF CallInv
      <4> QED
        BY <2>1, <2>2, <3>3, <4>1
    <3> QED
      BY <2>2, <2>3, <3>1, <3>2, <3>3
  <2> QED
    BY <2>4, <2>5
<1>3. ASSUME NEW t \in Pushers, SendJson(t) \/ SendDate(t) PROVE CallInv' /\ ListedOnce'
  <2>1. /\ pc[t] # "out" /\ pushed' = pushed /\ Listed' = Listed
        /\ \A u \in Pushers : u # t => pc'[u] = pc[u]
        /\ pc'[t] # "out"
    BY <1>3 DEF SendJson, SendDate, Typed, Listed
  <2> QED
    BY <2>1 DEF CallInv, ListedOnce
<1>4. ASSUME NEW t \in Pushers, PushBack(t) PROVE CallInv' /\ ListedOnce'
  <2>1. /\ pc[t] = "append" /\ pushed' = pushed /\ pc'[t] = "out"
        /\ \A u \in Pushers : u # t => pc'[u] = pc[u]
    BY <1>4 DEF PushBack, Typed
  <2>2. Listed' = Listed \cup {Item(t)}
    BY <1>4, ListedStep
  <2>3. Item(t) = [by |-> t, n |-> pushed[t]] /\ Item(t).by = t /\ Item(t).n = pushed[t]
    BY DEF Item
  <2>4. \A u \in Pushers : pushed[u] \in Nat
    BY WebSocketAssumption DEF Typed
  <2>5. CallInv'
    BY <2>1, <2>2, <2>3, <2>4 DEF CallInv
  <2>6. ListedOnce'
    <3> SUFFICES ASSUME NEW u \in Pushers, NEW n \in 1..pushed[u]
                 PROVE  [by |-> u, n |-> n] \in Listed' <=> n < pushed[u] \/ pc'[u] = "out"
      BY <2>1 DEF ListedOnce
    <3>1. CASE u # t
      BY <2>1, <2>2, <2>3, <3>1 DEF ListedOnce
    <3>2. CASE u = t
      BY <2>1, <2>2, <2>3, <2>4, <3>2 DEF ListedOnce
    <3> QED
      BY <3>1, <3>2
  <2> QED
    BY <2>5, <2>6
<1> QED
  BY <1>1, <1>2, <1>3, <1>4 DEF Next, vars, Run, StopServer, OnOpen, OnOpenHandle, Disconnect, OnClose

\* The websocket thread's places are kept.
LEMMA HandlerStep == Typed /\ HandlerInv /\ [Next]_vars => HandlerInv'
<1> SUFFICES ASSUME Typed, HandlerInv, [Next]_vars PROVE HandlerInv'
  OBVIOUS
<1>1. CASE UNCHANGED <<state, con_hdl, ws, server, conn, overlap>>
  BY <1>1 DEF HandlerInv, Up
<1>2. CASE Run \/ StopServer
  BY <1>2 DEF HandlerInv, Up, Run, StopServer, Typed
<1>3. ASSUME NEW c \in Clients, OnOpen(c) PROVE HandlerInv'
  <2>1. /\ server = "running" /\ server' = server /\ con_hdl' = con_hdl
        /\ state' = WSOCK_OPEN /\ ws' = c /\ c # NoClient
        /\ conn'[c] = "open" /\ \A d \in Clients : d # c => conn'[d] = conn[d]
        /\ overlap' = (overlap \/ Up # {})
    BY <1>3, WebSocketAssumption DEF OnOpen, Typed
  <2>2. Up' = Up \cup {c}
    BY <2>1 DEF Up
  <2> QED
    BY <2>1, <2>2 DEF HandlerInv
<1>4. CASE OnOpenHandle
  BY <1>4, WebSocketAssumption DEF OnOpenHandle, HandlerInv, Typed
<1>5. ASSUME NEW c \in Clients, Disconnect(c) PROVE HandlerInv'
  BY <1>5, WebSocketAssumption DEF Disconnect, HandlerInv, Typed
<1>6. ASSUME NEW c \in Clients, OnClose(c) PROVE HandlerInv'
  BY <1>6, WebSocketAssumption DEF OnClose, HandlerInv, Typed
<1> QED
  BY <1>1, <1>2, <1>3, <1>4, <1>5, <1>6
  DEF Next, vars, Push, SendJson, SendDate, PushBack

\* It all holds initially.
LEMMA InitInv == Init => IInv
<1> SUFFICES ASSUME Init PROVE IInv
  OBVIOUS
<1>1. Typed
  <2>1. pushed \in [Pushers -> 0..MaxPushes]
    BY WebSocketAssumption DEF Init
  <2>2. since \in [Clients -> [Pushers -> 0..MaxPushes]]
    BY <2>1 DEF Init
  <2>3. <<>> \in Seq(Items)
    OBVIOUS
  <2>4. actions \in Seq(Items) /\ stream \in [Clients -> Seq(Items)]
    BY <2>3 DEF Init
  <2>5. /\ conn \in [Clients -> {"none", "open", "closing", "closed"}]
        /\ pc \in [Pushers -> {"out", "assert", "send", "append"}]
    BY DEF Init
  <2> QED
    BY <2>1, <2>2, <2>4, <2>5 DEF Init, Typed
<1>2. Listed = {}
  BY DEF Init, Listed
<1> QED
  BY <1>1, <1>2, WebSocketAssumption DEF Init, IInv, CallInv, ListedOnce, HandlerInv

LEMMA InvStep == IInv /\ [Next]_vars => IInv'
  BY TypedStep, AccountStep, HandlerStep DEF IInv

\* TypeOK holds in every reachable state: but for the action being pushed, what the
\* threads pushed is listed, however the calls and the connections interleave.
THEOREM TypeCorrect == Spec => []TypeOK
<1>1. IInv => TypeOK
  BY DEF IInv, Typed, ListedOnce, HandlerInv, TypeOK
<1> QED
  BY InitInv, InvStep, <1>1, PTL DEF Spec

\* The steps of a Push call do not touch the connections.
LEMMA PushLeaves ==
  ASSUME NEW t \in Pushers, Push(t) \/ SendJson(t) \/ SendDate(t) \/ PushBack(t)
  PROVE  UNCHANGED <<state, con_hdl, ws, server, conn, overlap, since>>
  BY DEF Push, SendJson, SendDate, PushBack

\* StateTracksClient holds in every reachable state (on_open, on_close).
THEOREM StateCorrect == Spec => []StateTracksClient
<1>1. Init => StateTracksClient
  BY WebSocketAssumption DEF Init, StateTracksClient, Up
<1>2. ASSUME IInv, StateTracksClient, [Next]_vars PROVE StateTracksClient'
  <2>1. CASE UNCHANGED <<state, con_hdl, ws, conn, overlap>>
    BY <1>2, <2>1 DEF StateTracksClient, Up
  <2>2. ASSUME NEW c \in Clients, OnOpen(c) PROVE StateTracksClient'
    BY <2>2, WebSocketAssumption DEF OnOpen, StateTracksClient
  <2>3. CASE OnOpenHandle
    <3>1. ws \in Clients /\ con_hdl' = ws /\ Up' = Up /\ UNCHANGED <<state, conn, overlap>>
      BY <1>2, <2>3 DEF OnOpenHandle, IInv, Typed, Up
    <3>2. state = WSOCK_OPEN /\ conn[ws] = "open" /\ (~overlap => Up = {ws})
      BY <1>2, <3>1 DEF IInv, HandlerInv
    <3>3. ws \in Up
      BY <3>1, <3>2 DEF Up
    <3> QED
      BY <3>1, <3>2, <3>3 DEF StateTracksClient
  <2>4. ASSUME NEW c \in Clients, Disconnect(c) PROVE StateTracksClient'
    <3>1. /\ ws = NoClient /\ UNCHANGED <<state, con_hdl, ws, overlap>>
          /\ conn[c] = "open" /\ conn' = [conn EXCEPT ![c] = "closing"]
      BY <2>4 DEF Disconnect
    <3>2. Up' = Up
      BY <1>2, <3>1 DEF IInv, Typed, Up
    <3> QED
      BY <1>2, <3>1, <3>2 DEF StateTracksClient
  <2>5. ASSUME NEW c \in Clients, OnClose(c) PROVE StateTracksClient'
    <3>1. /\ ws = NoClient /\ UNCHANGED <<con_hdl, ws, overlap>> /\ state' = WSOCK_CLOSE
          /\ conn[c] = "closing" /\ conn' = [conn EXCEPT ![c] = "closed"]
      BY <2>5 DEF OnClose
    <3>2. c \in Up /\ Up' = Up \ {c}
      BY <1>2, <3>1 DEF IInv, Typed, Up
    <3> QED
      BY <1>2, <3>1, <3>2 DEF StateTracksClient
  <2> QED
    BY <1>2, <2>1, <2>2, <2>3, <2>4, <2>5, PushLeaves DEF Next, vars, Run, StopServer
<1> QED
  BY <1>1, <1>2, InitInv, InvStep, PTL DEF Spec

-----------------------------------------------------------------------------
(***************************************************************************)
(* What reaches a client.                                                  *)
(***************************************************************************)
\* Sending appends the thread's action to one stream.
LEMMA SendFacts ==
  ASSUME Typed, CallInv, NEW t \in Pushers, SendDate(t), stream' # stream
  PROVE  /\ con_hdl \in Clients /\ conn[con_hdl] = "open" /\ server # "stopped"
         /\ pc[t] = "send" /\ pc'[t] = "append"
         /\ \A d \in Clients \ {con_hdl} : stream'[d] = stream[d]
         /\ stream[con_hdl] \in Seq(Items)
         /\ Len(stream'[con_hdl]) = Len(stream[con_hdl]) + 1
         /\ \A i \in 1..Len(stream[con_hdl]) : stream'[con_hdl][i] = stream[con_hdl][i]
         /\ stream'[con_hdl][Len(stream[con_hdl]) + 1] = Item(t)
  <1>1. /\ con_hdl \in Clients /\ conn[con_hdl] = "open" /\ server # "stopped"
        /\ pc[t] = "send" /\ pc'[t] = "append"
        /\ stream' = [stream EXCEPT ![con_hdl] = Append(@, Item(t))]
    BY DEF SendDate, Reachable, Typed
  <1>2. stream[con_hdl] \in Seq(Items) /\ Item(t) \in Items
    BY <1>1, ItemTyped DEF Typed
  <1>3. stream'[con_hdl] = Append(stream[con_hdl], Item(t))
    BY <1>1 DEF Typed
  <1>4. \A d \in Clients \ {con_hdl} : stream'[d] = stream[d]
    BY <1>1 DEF Typed
  <1> QED
    BY <1>1, <1>2, <1>3, <1>4, AppendFacts

\* What is in a stream is an item of some thread.
LEMMA StreamTyped ==
  ASSUME Typed, NEW c \in Clients, NEW j \in 1..Len(stream[c])
  PROVE  /\ stream[c][j] \in Items /\ stream[c][j].by \in Pushers
         /\ stream[c][j].n \in 1..MaxPushes
         /\ stream[c][j] = [by |-> stream[c][j].by, n |-> stream[c][j].n]
  <1>1. stream[c] \in Seq(Items)
    BY DEF Typed
  <1>2. stream[c][j] \in Items
    BY <1>1
  <1> QED
    BY <1>2 DEF Items

\* What a Push call that is about to send has listed is what it pushed before.
LEMMA SentBefore ==
  ASSUME Typed, CallInv, ListedOnce, StreamIsListed, NEW t \in Pushers, pc[t] = "send",
         NEW c \in Clients, NEW i \in 1..Len(stream[c]), stream[c][i].by = t
  PROVE  stream[c][i].n < pushed[t]
  <1> DEFINE x == stream[c][i]
  <1>1. x \in Items /\ x.n \in 1..MaxPushes /\ x = [by |-> t, n |-> x.n]
    BY StreamTyped
  <1>2. x \in Listed
    BY <1>1 DEF StreamIsListed
  <1>3. x.n <= pushed[t] /\ pushed[t] \in 0..MaxPushes
    BY <1>1, <1>2 DEF CallInv, Typed
  <1>4. x.n \in 1..pushed[t]
    BY <1>1, <1>3, WebSocketAssumption
  <1>5. [by |-> t, n |-> x.n] \in Listed <=> x.n < pushed[t] \/ pc[t] = "out"
    BY <1>4 DEF ListedOnce
  <1> QED
    BY <1>1, <1>2, <1>5

\* StreamIsListed holds in every reachable state (SendJson, SendDate and
\* push_back): no stream has an action twice, out of its thread's order or unlisted.
THEOREM StreamCorrect == Spec => []StreamIsListed
<1>1. Init => StreamIsListed
  BY DEF Init, StreamIsListed
<1>2. ASSUME IInv, StreamIsListed, [Next]_vars PROVE StreamIsListed'
  <2>0. Typed /\ CallInv /\ ListedOnce
    BY <1>2 DEF IInv
  <2>1. ASSUME UNCHANGED stream, Listed \subseteq Listed',
               \A u \in Pushers : pc[u] = "append" =>
                 \/ pc'[u] = "append" /\ pushed'[u] = pushed[u]
                 \/ Item(u) \in Listed'
        PROVE  StreamIsListed'
    <3> SUFFICES ASSUME NEW c \in Clients, NEW j \in 1..Len(stream[c])
                 PROVE  LET x == stream[c][j] IN
                          /\ x \in Listed' \/ (pc'[x.by] = "append" /\ x = Item(x.by)')
                          /\ \A i \in 1..j - 1 : stream[c][i].by = x.by => stream[c][i].n < x.n
      BY <2>1 DEF StreamIsListed
    <3> DEFINE x == stream[c][j]
    <3>1. x.by \in Pushers
      BY <2>0, StreamTyped
    <3>2. /\ x \in Listed \/ (pc[x.by] = "append" /\ x = Item(x.by))
          /\ \A i \in 1..j - 1 : stream[c][i].by = x.by => stream[c][i].n < x.n
      BY <1>2 DEF StreamIsListed
    <3>3. x \in Listed' \/ (pc'[x.by] = "append" /\ x = Item(x.by)')
      <4>1. CASE x \in Listed
        BY <2>1, <4>1
      <4>2. CASE pc[x.by] = "append" /\ x = Item(x.by)
        BY <2>1, <3>1, <4>2 DEF Item
      <4> QED
        BY <3>2, <4>1, <4>2
    <3> QED
      BY <3>2, <3>3
  <2>2. ASSUME NEW t \in Pushers, SendDate(t), stream' # stream PROVE StreamIsListed'
    <3>1. /\ pc[t] = "send" /\ pc'[t] = "append" /\ pushed' = pushed /\ Listed' = Listed
          /\ \A u \in Pushers : u # t => pc'[u] = pc[u]
      BY <2>0, <2>2 DEF SendDate, Typed, Listed
    <3>2. Item(t).by = t /\ Item(t).n = pushed[t] /\ Item(t)' = Item(t)
      BY <3>1 DEF Item
    <3> SUFFICES ASSUME NEW c \in Clients, NEW j \in 1..Len(stream'[c]),
                        NEW x, x = stream'[c][j]
                 PROVE  /\ x \in Listed' \/ (pc'[x.by] = "append" /\ x = [by |-> x.by, n |-> pushed'[x.by]])
                        /\ \A i \in 1..j - 1 : stream'[c][i].by = x.by => stream'[c][i].n < x.n
      BY DEF StreamIsListed, Item
    <3>3. CASE c = con_hdl /\ j = Len(stream[c]) + 1
      <4>1. stream'[c][j] = Item(t) /\ \A i \in 1..j - 1 : i \in 1..Len(stream[c]) /\ stream'[c][i] = stream[c][i]
        BY <2>0, <2>2, <3>3, SendFacts
      <4>2. \A i \in 1..Len(stream[c]) : stream[c][i].by = t => stream[c][i].n < pushed[t]
        BY <1>2, <2>0, <3>1, SentBefore
      <4>3. x = [by |-> x.by, n |-> pushed'[x.by]] /\ x.by = t /\ x.n = pushed[t]
        BY <3>1, <4>1 DEF Item
      <4> QED
        BY <3>1, <4>1, <4>2, <4>3
    <3>4. CASE ~(c = con_hdl /\ j = Len(stream[c]) + 1)
      <4>1. /\ j \in 1..Len(stream[c]) /\ stream'[c][j] = stream[c][j]
            /\ \A i \in 1..j - 1 : stream'[c][i] = stream[c][i]
        <5>1. CASE c = con_hdl
          BY <2>0, <2>2, <3>4, <5>1, SendFacts
        <5>2. CASE c # con_hdl
          BY <2>0, <2>2, <5>2, SendFacts
        <5> QED
          BY <5>1, <5>2
      <4>2. /\ stream[c][j] \in Listed \/ (pc[stream[c][j].by] = "append" /\ stream[c][j] = Item(stream[c][j].by))
            /\ \A i \in 1..j - 1 : stream[c][i].by = stream[c][j].by => stream[c][i].n < stream[c][j].n
        BY <1>2, <4>1 DEF StreamIsListed
      <4>3. pc[stream[c][j].by] = "append" => pc'[stream[c][j].by] = "append"
        BY <2>0, <3>1, <4>1, StreamTyped
      <4> QED
        BY <3>1, <4>1, <4>2, <4>3 DEF Item
    <3> QED
      BY <3>3, <3>4
  <2>3. ASSUME NEW t \in Pushers, PushBack(t) PROVE StreamIsListed'
    <3>1. stream' = stream /\ pushed' = pushed /\ \A u \in Pushers : u # t => pc'[u] = pc[u]
      BY <2>0, <2>3 DEF PushBack, Typed
    <3>2. Listed' = Listed \cup {Item(t)}
      BY <2>0, <2>3, ListedStep
    <3> QED
      BY <2>1, <3>1, <3>2
  <2>4. ASSUME NEW t \in Pushers, Push(t) \/ SendJson(t) \/ (SendDate(t) /\ stream' = stream)
        PROVE  StreamIsListed'
    <3>1. /\ stream' = stream /\ Listed' = Listed /\ pc[t] # "append"
          /\ \A u \in Pushers : u # t => pc'[u] = pc[u] /\ pushed'[u] = pushed[u]
      BY <2>0, <2>4 DEF Push, SendJson, SendDate, Listed, Typed
    <3> QED
      BY <2>1, <3>1
  <2>5. CASE UNCHANGED <<pc, pushed, actions, stream>>
    BY <2>1, <2>5 DEF Listed
  <2> QED
    BY <1>2, <2>2, <2>3, <2>4, <2>5
    DEF Next, vars, Run, StopServer, OnOpen, OnOpenHandle, Disconnect, OnClose
<1> QED
  BY <1>1, <1>2, InitInv, InvStep, PTL DEF Spec

\* StateTracksClient and its strengthening are kept together.
Tracked == IInv /\ StateTracksClient

\* The client of NothingMissed.
Served(c) == server = "running" /\ ~overlap /\ conn[c] = "open" /\ ws # c

\* What makes NothingMissed inductive: an action that is past its sending and not
\* yet listed was sent too.
MissInv ==
  \A c \in Clients : Served(c) =>
    /\ \A x \in Listed : x.n > since[c][x.by] => x \in Sent(c)
    /\ \A t \in Pushers : pc[t] = "append" /\ pushed[t] > since[c][t] => Item(t) \in Sent(c)

\* While a client is served it is the only one, the state says so and the handle
\* is its own.
LEMMA ServedAlone ==
  ASSUME Tracked, NEW c \in Clients, Served(c)
  PROVE  state = WSOCK_OPEN /\ con_hdl = c /\ ws = NoClient
  <1>1. c \in Up
    BY DEF Served, Up
  <1>2. ws = NoClient
    BY <1>1 DEF Served, Tracked, IInv, HandlerInv, Typed
  <1> QED
    BY <1>1, <1>2 DEF StateTracksClient, Served, Tracked

\* A stream that does not lose anything keeps what was sent in it.
LEMMA SentGrows ==
  ASSUME Typed, CallInv, NEW t \in Pushers, SendDate(t), stream' # stream
  PROVE  /\ \A c \in Clients : Sent(c) \subseteq Sent(c)'
         /\ Item(t) \in Sent(con_hdl)'
  <1>1. ASSUME NEW c \in Clients, NEW i \in 1..Len(stream[c])
        PROVE  i \in 1..Len(stream'[c]) /\ stream'[c][i] = stream[c][i]
    <2>1. CASE c = con_hdl
      BY <2>1, SendFacts
    <2>2. CASE c # con_hdl
      BY <2>2, SendFacts
    <2> QED
      BY <2>1, <2>2
  <1>2. \A c \in Clients : Sent(c) \subseteq Sent(c)'
    BY <1>1 DEF Sent
  <1>3. /\ con_hdl' = con_hdl /\ Len(stream[con_hdl]) + 1 \in 1..Len(stream'[con_hdl])
        /\ stream'[con_hdl][Len(stream[con_hdl]) + 1] = Item(t)
    BY SendFacts DEF SendDate
  <1>4. Item(t) \in Sent(con_hdl)'
    BY <1>3 DEF Sent
  <1> QED
    BY <1>2, <1>4

\* Every step keeps MissInv.
LEMMA MissStep == Tracked /\ MissInv /\ [Next]_vars => MissInv'
<1> SUFFICES ASSUME Tracked, MissInv, [Next]_vars, NEW c \in Clients, Served(c)'
             PROVE  /\ \A x \in Listed' : x.n > since'[c][x.by] => x \in Sent(c)'
                    /\ \A t \in Pushers : pc'[t] = "append" /\ pushed'[t] > since'[c][t]
                                            => Item(t)' \in Sent(c)'
  BY DEF MissInv
<1> DEFINE Goal == /\ \A x \in Listed' : x.n > since'[c][x.by] => x \in Sent(c)'
                   /\ \A t \in Pushers : pc'[t] = "append" /\ pushed'[t] > since'[c][t]
                                           => Item(t)' \in Sent(c)'
<1>0. Typed /\ CallInv /\ ListedOnce /\ HandlerInv /\ StateTracksClient
  BY DEF Tracked, IInv
<1>1. CASE Run \/ StopServer
  BY <1>0, <1>1 DEF Run, StopServer, Served, HandlerInv
<1>2. ASSUME NEW d \in Clients, OnOpen(d) PROVE FALSE
  BY <1>0, <1>2 DEF OnOpen, Served, Up, Typed
<1>3. CASE OnOpenHandle
  <2>1. /\ ws \in Clients /\ UNCHANGED <<server, conn, pc, pushed, actions, stream, overlap>>
        /\ since' = [since EXCEPT ![ws] = pushed]
    BY <1>0, <1>3 DEF OnOpenHandle, Typed
  <2>2. c = ws
    BY <1>0, <2>1 DEF Served, HandlerInv, Up
  <2>3. since'[c] = pushed
    BY <1>0, <2>1, <2>2 DEF Typed
  <2>4. \A t \in Pushers : pushed[t] \in Nat
    BY <1>0, WebSocketAssumption DEF Typed
  <2>5. \A x \in Listed : x.by \in Pushers /\ x.n \in Nat /\ x.n <= pushed[x.by]
    BY <1>0, ListedTyped DEF CallInv
  <2> QED
    BY <2>1, <2>3, <2>4, <2>5 DEF Listed
<1>4. CASE UNCHANGED <<server, overlap, ws, since, pc, pushed, actions, stream>>
           /\ (conn'[c] = "open" => conn[c] = "open")
  <2>1. Served(c)
    BY <1>4 DEF Served
  <2> QED
    BY <1>4, <2>1 DEF MissInv, Listed, Sent, Item
<1>5. ASSUME NEW d \in Clients, Disconnect(d) \/ OnClose(d) PROVE Goal
  <2>1. UNCHANGED <<server, overlap, ws, since, pc, pushed, actions, stream>>
        /\ (conn'[c] = "open" => conn[c] = "open")
    BY <1>0, <1>5 DEF Disconnect, OnClose, Typed
  <2> QED
    BY <1>4, <2>1
<1>6. ASSUME NEW t \in Pushers, Push(t) \/ SendJson(t) \/ SendDate(t) \/ PushBack(t)
      PROVE Goal
  <2>1. Served(c) /\ since' = since
    BY <1>6, PushLeaves DEF Served
  <2>2. state = WSOCK_OPEN /\ con_hdl = c
    BY <2>1, ServedAlone
  <2>3. /\ \A x \in Listed : x.n > since[c][x.by] => x \in Sent(c)
        /\ \A u \in Pushers : pc[u] = "append" /\ pushed[u] > since[c][u] => Item(u) \in Sent(c)
    BY <2>1 DEF MissInv
  <2>4. CASE Push(t) \/ SendJson(t)
    <3>1. /\ stream' = stream /\ actions' = actions /\ pc'[t] # "append"
          /\ \A u \in Pushers : u # t => pc'[u] = pc[u] /\ pushed'[u] = pushed[u]
      BY <1>0, <2>2, <2>4 DEF Push, SendJson, Typed
    <3> QED
      BY <2>1, <2>3, <3>1 DEF Listed, Sent, Item
  <2>5. CASE SendDate(t) /\ stream' # stream
    <3>1. /\ actions' = actions /\ pushed' = pushed
          /\ \A u \in Pushers : u # t => pc'[u] = pc[u]
      BY <1>0, <2>5 DEF SendDate, Typed
    <3>2. Sent(c) \subseteq Sent(c)' /\ Item(t) \in Sent(con_hdl)' /\ con_hdl' = c
      BY <1>0, <2>2, <2>5, SentGrows DEF SendDate
    <3>3. Item(t) \in Sent(c)'
      BY <3>2 DEF Sent
    <3> QED
      BY <2>1, <2>3, <3>1, <3>2, <3>3 DEF Listed, Item
  <2>6. CASE SendDate(t) /\ stream' = stream
    <3>1. stream'[c] = Append(stream[c], Item(t))
      BY <1>0, <2>1, <2>2, <2>6 DEF SendDate, Reachable, Served, Typed
    <3>2. stream[c] \in Seq(Items) /\ Item(t) \in Items
      BY <1>0, <2>6, ItemTyped DEF SendDate, Typed
    <3> QED
      BY <2>6, <3>1, <3>2, AppendFacts
  <2>7. CASE PushBack(t)
    <3>1. /\ stream' = stream /\ pushed' = pushed /\ pc[t] = "append" /\ pc'[t] # "append"
          /\ \A u \in Pushers : u # t => pc'[u] = pc[u]
      BY <1>0, <2>7 DEF PushBack, Typed
    <3>2. Listed' = Listed \cup {Item(t)}
      BY <1>0, <2>7, ListedStep
    <3>3. Item(t).by = t /\ Item(t).n = pushed[t]
      BY DEF Item
    <3> QED
      BY <2>1, <2>3, <3>1, <3>2, <3>3 DEF Sent, Item
  <2> QED
    BY <1>6, <2>4, <2>5, <2>6, <2>7
<1>7. CASE UNCHANGED vars
  BY <1>4, <1>7 DEF vars
<1> QED
  BY <1>1, <1>2, <1>3, <1>5, <1>6, <1>7 DEF Next

\* NothingMissed holds in every reachable state: a client that came alone is sent
\* every action pushed since its on_open, however the threads interleave.
THEOREM NothingMissedCorrect == Spec => []NothingMissed
<1>1. Init => MissInv
  BY DEF Init, MissInv, Served
<1>2. IInv /\ MissInv => NothingMissed
  BY DEF MissInv, NothingMissed, Served, Listed
<1>3. Spec => []StateTracksClient
  BY StateCorrect
<1>4. IInv /\ StateTracksClient => Tracked
  BY DEF Tracked
<1> QED
  BY <1>1, <1>2, <1>3, <1>4, InitInv, InvStep, MissStep, PTL DEF Spec
=============================================================================

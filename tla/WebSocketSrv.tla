---------------------------- MODULE WebSocketSrv ----------------------------
(***************************************************************************)
(* The websocket stream of what is recorded: class WebSocketSrv, whose      *)
(* handlers run on the websocket thread, and the sending half of every Push *)
(* call, which runs on the thread that pushes (SendJson and SendDate).      *)
(* Nothing synchronises them.  The recorder is recording all the time here; *)
(* Recorder is about when it is.  The library (websocketpp) opens a         *)
(* connection before it calls on_open and closes it some time before it     *)
(* calls on_close, calls one handler at a time, and throws from send if the *)
(* connection of the handle is not open.  Nothing catches what it throws.   *)
(***************************************************************************)
EXTENDS Naturals, Sequences, FiniteSets

CONSTANTS
  Clients,     \* connections, each made once
  NoClient,    \* the handle before the first connection
  Pushers,     \* the threads that call Push*
  MaxPushes    \* bound on the calls of each thread

ASSUME WebSocketAssumption ==
  NoClient \notin Clients /\ MaxPushes \in Nat

VARIABLES
  state,     \* WebSocketSrv::state
  con_hdl,   \* WebSocketSrv::con_hdl
  ws,        \* the client whose on_open has set state but not con_hdl yet
  server,    \* the library's event loop: "none", "running" or "stopped"
  conn,      \* the library's state of each connection
  pc,        \* where each pushing thread is in its Push call
  pushed,    \* number of Push calls of each thread, the current one included
  actions,   \* ActionsManager::actions, an action being its thread and number
  stream,    \* what was sent on each connection
  failed,    \* how the process ended, or "no"
  since,     \* history: pushed, when on_open of the client returned
  overlap    \* history: two connections were open together

vars == <<state, con_hdl, ws, server, conn, pc, pushed, actions, stream, failed, since, overlap>>

WSOCK_OPEN  == "WSOCK_OPEN"
WSOCK_CLOSE == "WSOCK_CLOSE"

Items == [by: Pushers, n: 1..MaxPushes]
Item(t) == [by |-> t, n |-> pushed[t]]
Up == {c \in Clients : conn[c] \in {"open", "closing"}}

\* The library can send to con_hdl.
Reachable == con_hdl \in {c \in Clients : conn[c] = "open"}

-----------------------------------------------------------------------------
(***************************************************************************)
(* The websocket thread.                                                   *)
(***************************************************************************)
\* Run listens and enters the loop, unless StopServer came first.  The port may be
\* taken, by another instance of the program for one; listen then throws.
Run ==
  /\ failed = "no" /\ server = "none"
  /\ \/ server' = "running" /\ UNCHANGED failed
     \/ failed' = "exception" /\ UNCHANGED server
  /\ UNCHANGED <<state, con_hdl, ws, conn, pc, pushed, actions, stream, since, overlap>>

\* StopServer, on the main thread: the loop ends after the handler it is in.
StopServer ==
  /\ failed = "no"
  /\ server' = "stopped"
  /\ UNCHANGED <<state, con_hdl, ws, conn, pc, pushed, actions, stream, failed, since, overlap>>

\* A client connects and on_open begins: state first.
OnOpen(c) ==
  /\ failed = "no" /\ server = "running" /\ ws = NoClient
  /\ conn[c] = "none"
  /\ conn' = [conn EXCEPT ![c] = "open"]
  /\ overlap' = (overlap \/ Up # {})
  /\ state' = WSOCK_OPEN
  /\ ws' = c
  /\ UNCHANGED <<con_hdl, server, pc, pushed, actions, stream, failed, since>>

\* ... then the handle.
OnOpenHandle ==
  /\ failed = "no" /\ ws # NoClient
  /\ con_hdl' = ws
  /\ since' = [since EXCEPT ![ws] = pushed]
  /\ ws' = NoClient
  /\ UNCHANGED <<state, server, conn, pc, pushed, actions, stream, failed, overlap>>

\* The connection ends, in the library first.
Disconnect(c) ==
  /\ failed = "no" /\ server = "running" /\ ws = NoClient
  /\ conn[c] = "open"
  /\ conn' = [conn EXCEPT ![c] = "closing"]
  /\ UNCHANGED <<state, con_hdl, ws, server, pc, pushed, actions, stream, failed, since, overlap>>

\* Mutation: the state is kept.
OnCloseKept(c) ==
  /\ failed = "no" /\ server = "running" /\ ws = NoClient
  /\ conn[c] = "closing"
  /\ conn' = [conn EXCEPT ![c] = "closed"]
  /\ UNCHANGED <<state, con_hdl, ws, server, pc, pushed, actions, stream, failed, since, overlap>>

\* on_close, of whichever client.
OnClose(c) ==
  /\ failed = "no" /\ server = "running" /\ ws = NoClient
  /\ conn[c] = "closing"
  /\ conn' = [conn EXCEPT ![c] = "closed"]
  /\ state' = WSOCK_CLOSE
  /\ UNCHANGED <<con_hdl, ws, server, pc, pushed, actions, stream, failed, since, overlap>>

-----------------------------------------------------------------------------
(***************************************************************************)
(* A Push call.                                                            *)
(***************************************************************************)
\* Mutation: one kind of action is not streamed.
PushUnstreamed(t) ==
  /\ failed = "no" /\ pc[t] = "out" /\ pushed[t] < MaxPushes
  /\ pushed' = [pushed EXCEPT ![t] = @ + 1]
  /\ pc' = [pc EXCEPT ![t] = IF state = WSOCK_OPEN /\ pushed[t] = 0 THEN "assert" ELSE "append"]
  /\ UNCHANGED <<state, con_hdl, ws, server, conn, actions, stream, failed, since, overlap>>

\* GetState, to decide whether to stream the action.
Push(t) ==
  /\ failed = "no" /\ pc[t] = "out" /\ pushed[t] < MaxPushes
  /\ pushed' = [pushed EXCEPT ![t] = @ + 1]
  /\ pc' = [pc EXCEPT ![t] = IF state = WSOCK_OPEN THEN "assert" ELSE "append"]
  /\ UNCHANGED <<state, con_hdl, ws, server, conn, actions, stream, failed, since, overlap>>

\* SendJson builds the document, then asserts that the state is still open.
SendJson(t) ==
  /\ failed = "no" /\ pc[t] = "assert"
  /\ IF state = WSOCK_OPEN
     THEN /\ pc' = [pc EXCEPT ![t] = "send"]
          /\ UNCHANGED failed
     ELSE /\ failed' = "assert"
          /\ UNCHANGED pc
  /\ UNCHANGED <<state, con_hdl, ws, server, conn, pushed, actions, stream, since, overlap>>

\* Mutation: a streamed action is not listed.
SendDateOnly(t) ==
  /\ failed = "no" /\ pc[t] = "send"
  /\ Reachable
  /\ stream' = [stream EXCEPT ![con_hdl] = Append(@, Item(t))]
  /\ pc' = [pc EXCEPT ![t] = "out"]
  /\ UNCHANGED <<state, con_hdl, ws, server, conn, pushed, actions, failed, since, overlap>>

\* SendDate: to the connection con_hdl names now, if it is open.  What is sent
\* after the loop has ended stays in the library.
SendDate(t) ==
  /\ failed = "no" /\ pc[t] = "send"
  /\ \/ /\ Reachable
        /\ stream' = IF server = "stopped" THEN stream
                     ELSE [stream EXCEPT ![con_hdl] = Append(@, Item(t))]
        /\ pc' = [pc EXCEPT ![t] = "append"]
        /\ UNCHANGED failed
     \/ /\ ~Reachable
        /\ failed' = "exception"
        /\ UNCHANGED <<stream, pc>>
  /\ UNCHANGED <<state, con_hdl, ws, server, conn, pushed, actions, since, overlap>>

\* actions.push_back.
PushBack(t) ==
  /\ failed = "no" /\ pc[t] = "append"
  /\ actions' = Append(actions, Item(t))
  /\ pc' = [pc EXCEPT ![t] = "out"]
  /\ UNCHANGED <<state, con_hdl, ws, server, conn, pushed, stream, failed, since, overlap>>

-----------------------------------------------------------------------------
Init ==
  /\ state = WSOCK_CLOSE /\ con_hdl = NoClient /\ ws = NoClient
  /\ server = "none"
  /\ conn = [c \in Clients |-> "none"]
  /\ pc = [t \in Pushers |-> "out"]
  /\ pushed = [t \in Pushers |-> 0]
  /\ actions = <<>>
  /\ stream = [c \in Clients |-> <<>>]
  /\ failed = "no"
  /\ since = [c \in Clients |-> pushed]
  /\ overlap = FALSE

Next ==
  \/ Run \/ StopServer \/ OnOpenHandle
  \/ \E c \in Clients : OnOpen(c) \/ Disconnect(c) \/ OnClose(c)
  \/ \E t \in Pushers : Push(t) \/ SendJson(t) \/ SendDate(t) \/ PushBack(t)

Spec == Init /\ [][Next]_vars

-----------------------------------------------------------------------------
(***************************************************************************)
(* Properties.                                                             *)
(***************************************************************************)
Sent(c)  == {stream[c][i] : i \in 1..Len(stream[c])}
Listed   == {actions[i] : i \in 1..Len(actions)}

\* Types; a handle once set names a connection that was made, and only the action
\* of a Push call that has not returned is missing from the list.
TypeOK ==
  /\ state \in {WSOCK_OPEN, WSOCK_CLOSE}
  /\ con_hdl \in Clients \cup {NoClient} /\ ws \in Clients \cup {NoClient}
  /\ con_hdl \in Clients => conn[con_hdl] # "none"
  /\ server \in {"none", "running", "stopped"}
  /\ conn \in [Clients -> {"none", "open", "closing", "closed"}]
  /\ pc \in [Pushers -> {"out", "assert", "send", "append"}]
  /\ pushed \in [Pushers -> 0..MaxPushes]
  /\ actions \in Seq(Items)
  /\ stream \in [Clients -> Seq(Items)]
  /\ failed \in {"no", "assert", "exception"}
  /\ since \in [Clients -> [Pushers -> 0..MaxPushes]]
  /\ overlap \in BOOLEAN
  /\ \A t \in Pushers : \A n \in 1..pushed[t] :
       [by |-> t, n |-> n] \in Listed <=> n < pushed[t] \/ pc[t] = "out"

\* Between two handlers an open state means that con_hdl names the last client to
\* come and that its on_close has not run, however many clients there are; and if
\* clients came one at a time, the state is open exactly while one is there.
StateTracksClient ==
  ws = NoClient =>
    /\ state = WSOCK_OPEN => con_hdl \in Up
    /\ ~overlap => /\ (state = WSOCK_OPEN <=> Up # {})
                   /\ \A c \in Up : con_hdl = c

\* A client that came alone misses nothing: every action pushed after its on_open
\* has returned is sent to it before it is listed, while it is connected and the
\* server runs.
NothingMissed ==
  \A c \in Clients :
    server = "running" /\ ~overlap /\ conn[c] = "open" /\ ws # c =>
      \A i \in 1..Len(actions) :
        actions[i].n > since[c][actions[i].by] => actions[i] \in Sent(c)

\* A client is never sent an action twice, nor two actions of one thread in the
\* wrong order, and what it was sent is listed or is just being listed.
StreamIsListed ==
  \A c \in Clients : \A j \in 1..Len(stream[c]) :
    LET x == stream[c][j] IN
      /\ x \in Listed \/ (pc[x.by] = "append" /\ x = Item(x.by))
      /\ \A i \in 1..j - 1 : stream[c][i].by = x.by => stream[c][i].n < x.n

(***************************************************************************)
(* What the repository says and the code does not keep.                    *)
(***************************************************************************)
\* web_event_browser.cpp:864, "assert(WebSocketSrv::instance().GetState() ==
\* WebSocketSrv::WSOCK_OPEN)": the state the caller saw is still there.
SendAssertHolds == failed # "assert"
=============================================================================

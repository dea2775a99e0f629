---------------------------- MODULE ReplayProofs ----------------------------
(***************************************************************************)
(* Proofs about Replay, for every list, every timestamp and every number of *)
(* replays.                                                                *)
(***************************************************************************)
EXTENDS Replay, TLAPS

\* Replay r holds an iterator of the list.
InLoop(r) == player[r].at \in {"exec", "delay", "sleep"} \/ Resizing(r)

\* What makes TypeOK inductive: an iterator names an element of the list or one
\* that was deleted, and a resize can only be pushed if there are resizes.
PlayerInv ==
  /\ phase = "opening" => erasures < MaxErasures
  /\ \A r \in Replays : InLoop(r) => player[r].i \in 0..Len(log)
  /\ \A r \in Replays : player[r].at \in {"sized", "tested"} => "resize" \in Kinds

IInv == TypeOK /\ PlayerInv

Player == [at: Points, i: Nat]

LEMMA MoveFacts ==
  ASSUME TypeOK, NEW r \in Replays, NEW p \in Points, player' = [player EXCEPT ![r].at = p]
  PROVE  /\ player' \in [Replays -> Player]
         /\ player'[r].at = p /\ player'[r].i = player[r].i
         /\ \A s \in Replays : s # r => player'[s] = player[s]
  <1>1. player \in [Replays -> Player]
    BY DEF TypeOK, Player
  <1>2. player' = [player EXCEPT ![r] = [player[r] EXCEPT !.at = p]]
    BY <1>1
  <1>3. player[r] \in Player
    BY <1>1
  <1>4. /\ [player[r] EXCEPT !.at = p] \in Player
        /\ [player[r] EXCEPT !.at = p].at = p
        /\ [player[r] EXCEPT !.at = p].i = player[r].i
    BY <1>3 DEF Player
  <1> QED
    BY <1>1, <1>2, <1>4

\* The range-for reaches an element or the end of the list.
LEMMA IterateFacts ==
  ASSUME IInv, NEW r \in Replays, NEW i \in 1..Len(log) + 1, Iterate(r, i)
  PROVE  /\ player' \in [Replays -> Player]
         /\ \A s \in Replays : s # r => player'[s] = player[s]
         /\ \/ i \in 1..Len(log) /\ player'[r].at = "exec" /\ player'[r].i = i
            \/ i = Len(log) + 1 /\ player'[r].at = "title"
  <1>1. player \in [Replays -> Player] /\ Len(log) \in Nat
    BY DEF IInv, TypeOK, Player
  <1>2. CASE i <= Len(log)
    <2>1. player' = [player EXCEPT ![r] = [at |-> "exec", i |-> i]]
      BY <1>2 DEF Iterate
    <2>2. [at |-> "exec", i |-> i] \in Player /\ i \in 1..Len(log)
      BY <1>1, <1>2 DEF Player, Points
    <2> QED
      BY <1>1, <2>1, <2>2
  <1>3. CASE ~(i <= Len(log))
    <2>0. [Idle EXCEPT !.at = "title"] = [at |-> "title", i |-> 0]
      BY DEF Idle
    <2>1. player' = [player EXCEPT ![r] = [at |-> "title", i |-> 0]]
      BY <1>3, <2>0 DEF Iterate
    <2>2. [at |-> "title", i |-> 0] \in Player /\ i = Len(log) + 1
      BY <1>1, <1>3 DEF Player, Points
    <2> QED
      BY <1>1, <2>1, <2>2
  <1> QED
    BY <1>2, <1>3

\* The list stays or grows at its end.
ListGrows ==
  /\ UNCHANGED <<phase, start_timestamp, erasures>>
  /\ log' \in Seq(Elements)
  /\ Len(log) <= Len(log')
  /\ \A i \in 1..Len(log) : log'[i] = log[i]

LEMMA AppendFacts ==
  ASSUME NEW S, NEW s \in Seq(S), NEW e \in S
  PROVE  /\ Append(s, e) \in Seq(S)
         /\ Len(Append(s, e)) = Len(s) + 1
         /\ Append(s, e)[Len(s) + 1] = e
         /\ \A i \in 1..Len(s) : Append(s, e)[i] = s[i]
  OBVIOUS

LEMMA GrowFacts ==
  ASSUME IInv, NEW e \in Elements, log' = Append(log, e),
         UNCHANGED <<phase, start_timestamp, erasures>>
  PROVE  ListGrows /\ Grows
  <1>1. log \in Seq(Elements) /\ Len(log) \in Nat
    BY DEF IInv, TypeOK
  <1>2. ListGrows
    BY <1>1, AppendFacts DEF ListGrows
  <1>3. Len(log') = Len(log) + 1 /\ log'[Len(log) + 1] = e
    BY <1>1, AppendFacts
  <1> QED
    BY <1>2, <1>3 DEF Grows

LEMMA KeepFacts ==
  ASSUME IInv, UNCHANGED <<log, phase, start_timestamp, erasures>>
  PROVE  ListGrows
  <1>1. log \in Seq(Elements) /\ Len(log) \in Nat
    BY DEF IInv, TypeOK
  <1> QED
    BY <1>1 DEF ListGrows

LEMMA PushFacts ==
  ASSUME IInv, PushResize, "resize" \in Kinds, UNCHANGED <<phase, start_timestamp, erasures>>
  PROVE  ListGrows /\ Grows
  <1>1. PICK t \in Times : log' = Append(log, [ts |-> t, kind |-> "resize"])
    BY DEF PushResize
  <1>2. [ts |-> t, kind |-> "resize"] \in Elements
    BY DEF Elements
  <1> QED
    BY <1>1, <1>2, GrowFacts

\* The element under a valid iterator.
LEMMA ElementFacts ==
  ASSUME IInv, NEW r \in Replays, InLoop(r), ~Dangling(r)
  PROVE  /\ player[r].i \in 1..Len(log) /\ Len(log) \in Nat
         /\ Element(r) = log[player[r].i] /\ Element(r).ts \in Times /\ Element(r).kind \in Kinds
         /\ \A i \in 1..Len(log) : log[i].ts \in Times
  <1>1. log \in Seq(Elements) /\ Len(log) \in Nat
    BY DEF IInv, TypeOK
  <1>2. player[r].i \in 1..Len(log)
    BY <1>1 DEF IInv, PlayerInv, Dangling
  <1>3. \A i \in 1..Len(log) : log[i] \in Elements
    BY <1>1
  <1> QED
    BY <1>1, <1>2, <1>3 DEF Elements, Element

(***************************************************************************)
(* What each step of the replay thread does, in terms of its own record.   *)
(***************************************************************************)
\* Only the record of r changes, and only in its place.
Moves(r, p) ==
  /\ player' \in [Replays -> Player]
  /\ player'[r].at = p /\ player'[r].i = player[r].i
  /\ \A s \in Replays : s # r => player'[s] = player[s]

\* The thread takes the iterator to index i, or ends the loop.
Goes(r, i) ==
  /\ player' \in [Replays -> Player]
  /\ \A s \in Replays : s # r => player'[s] = player[s]
  /\ \/ i \in 1..Len(log) /\ player'[r].at = "exec" /\ player'[r].i = i
     \/ player'[r].at = "title"

Begins(r)  == /\ player[r].at = "new" /\ ListGrows
              /\ UNCHANGED <<showVars, time_cursor, fault>>
              /\ \/ Moves(r, "stop") /\ foundEmpty' = TRUE
                 \/ Moves(r, "begun") /\ foundEmpty' = FALSE
Enters(r)  == /\ player[r].at = "begun" /\ ListGrows
              /\ UNCHANGED <<log, showVars, fault, foundEmpty>>
              /\ time_cursor' = start_timestamp /\ Goes(r, 1)
Acts(r)    == /\ player[r].at \in {"exec", "delay"} \/ Resizing(r)
              /\ ListGrows
              /\ UNCHANGED <<showVars, time_cursor, fault, foundEmpty>>
              /\ \E p \in {"sized", "tested", "listed", "delay", "sleep"} :
                   /\ Moves(r, p)
                   /\ p \in {"sized", "tested"} => "resize" \in Kinds
Advances(r) == /\ player[r].at = "sleep" /\ player[r].i \in 1..Len(log) /\ ListGrows
               /\ UNCHANGED <<log, showVars, fault, foundEmpty>>
               /\ time_cursor' = log[player[r].i].ts /\ time_cursor' \in Times
               /\ Goes(r, player[r].i + 1)
Ends(r)    == /\ player[r].at = "title" /\ ListGrows
              /\ UNCHANGED <<icon, time_cursor, fault, foundEmpty>>
              /\ title' = FALSE /\ Moves(r, "stop")
Leaves(r)  == /\ player[r].at = "stop" /\ ListGrows
              /\ UNCHANGED <<title, time_cursor, fault, foundEmpty>>
              /\ icon' = FALSE /\ player' \in [Replays -> Player] /\ player'[r].at = "none"
              /\ \A s \in Replays : s # r => player'[s] = player[s]
Fails(r)   == /\ InLoop(r) /\ ListGrows
              /\ UNCHANGED <<player, log, showVars, time_cursor, foundEmpty>>
              /\ \/ fault' = "dangling" /\ Dangling(r)
                 \/ /\ fault' = "assert" /\ ~Dangling(r)
                    /\ log[player[r].i].ts < time_cursor

\* A step of r that changes nothing but its own place in the list's loop.
LEMMA ActsFacts ==
  ASSUME IInv, NEW r \in Replays, player[r].at \in {"exec", "delay"} \/ Resizing(r), ListGrows,
         UNCHANGED <<showVars, time_cursor, fault, foundEmpty>>,
         NEW p \in {"sized", "tested", "listed", "delay", "sleep"},
         player' = [player EXCEPT ![r].at = p],
         p \in {"sized", "tested"} => "resize" \in Kinds
  PROVE  Acts(r)
  <1>1. Moves(r, p)
    BY MoveFacts DEF IInv, Moves, Points
  <1> QED
    BY <1>1 DEF Acts

LEMMA ThreadKinds ==
  ASSUME IInv, NEW r \in Replays, ThreadStep(r)
  PROVE  /\ UNCHANGED <<main, disturbed>> /\ straggled' \subseteq Stragglers /\ fault = "no"
         /\ \/ Begins(r) \/ Enters(r) \/ Acts(r) \/ Advances(r) \/ Ends(r) \/ Leaves(r)
            \/ Fails(r)
<1>0. /\ TypeOK /\ Len(log) \in Nat /\ straggled \subseteq Stragglers /\ r \in Stragglers
      /\ UNCHANGED disturbed /\ fault = "no"
  BY DEF IInv, TypeOK, ThreadStep, Running, Replays
<1>1. CASE Execute(r)
  <2>1. InLoop(r) /\ ~Dangling(r) /\ UNCHANGED <<start_timestamp, erasures, main>>
    BY <1>1 DEF Execute, InLoop
  <2>2. CASE Element(r).kind = "resize"
    <3>1. "resize" \in Kinds
      BY <2>1, <2>2, ElementFacts
    <3>2. ListGrows /\ straggled' = straggled
      <4>1. CASE UNCHANGED logVars
        BY <2>1, <4>1, KeepFacts DEF logVars
      <4>2. CASE PushResize /\ Note
        BY <2>1, <3>1, <4>2, PushFacts DEF Note
      <4> QED
        BY <1>1, <2>2, <4>1, <4>2 DEF Execute
    <3>3. player' = [player EXCEPT ![r].at = "sized"]
      BY <1>1, <2>2 DEF Execute
    <3> QED
      BY <1>0, <1>1, <2>1, <3>1, <3>2, <3>3, ActsFacts DEF Execute
  <2>3. CASE Element(r).kind # "resize"
    <3>1. ListGrows /\ straggled' = straggled
      BY <1>1, <2>1, <2>3, KeepFacts DEF Execute, logVars
    <3>2. player' = [player EXCEPT ![r].at = "delay"]
      BY <1>1, <2>3 DEF Execute
    <3> QED
      BY <1>0, <1>1, <2>1, <3>1, <3>2, ActsFacts DEF Execute
  <2> QED
    BY <2>2, <2>3
<1>2. CASE PushTested(r)
  <2>1. ListGrows
    BY <1>2, PushFacts DEF PushTested, IInv, PlayerInv
  <2>2. straggled' \subseteq Stragglers
    BY <1>0, <1>2 DEF PushTested
  <2> QED
    BY <1>0, <1>2, <2>1, <2>2, ActsFacts DEF PushTested, Resizing
<1>3. ASSUME UNCHANGED listVars,
             \/ BeginPlay(r) \/ SetCursor(r) \/ TestState(r) \/ AppendItem(r) \/ DoDelay(r)
             \/ WakeUp(r) \/ PutTitleBack(r) \/ StopPlay(r) \/ Crash(r)
      PROVE  /\ UNCHANGED <<main, straggled>>
             /\ \/ Begins(r) \/ Enters(r) \/ Acts(r) \/ Advances(r) \/ Ends(r) \/ Leaves(r)
                \/ Fails(r)
  <2>0. ListGrows /\ UNCHANGED <<main, straggled, log>>
    BY <1>3, KeepFacts DEF listVars, logVars
  <2>1. CASE BeginPlay(r)
    <3>1. CASE log = <<>>
      BY <1>0, <2>0, <2>1, <3>1, MoveFacts DEF BeginPlay, Begins, Moves, Points, showVars
    <3>2. CASE log # <<>>
      BY <1>0, <2>0, <2>1, <3>2, MoveFacts DEF BeginPlay, Begins, Moves, Points, showVars
    <3> QED
      BY <2>0, <3>1, <3>2
  <2>2. CASE SetCursor(r)
    <3>1. 1 \in 1..Len(log) + 1 /\ Iterate(r, 1)
      BY <1>0, <2>2 DEF SetCursor
    <3>2. Goes(r, 1)
      BY <3>1, IterateFacts DEF Goes
    <3> QED
      BY <2>0, <2>2, <3>2 DEF SetCursor, Enters
  <2>3. CASE TestState(r)
    <3>1. "resize" \in Kinds
      BY <2>3 DEF TestState, IInv, PlayerInv
    <3> QED
      BY <2>0, <2>3, <3>1, ActsFacts DEF TestState, Resizing
  <2>4. CASE AppendItem(r)
    BY <2>0, <2>4, ActsFacts DEF AppendItem, Resizing
  <2>5. CASE DoDelay(r)
    <3>1. InLoop(r) /\ ~Dangling(r) /\ player[r].at = "delay"
      BY <2>5 DEF DoDelay, InLoop
    <3>2. CASE Element(r).ts >= time_cursor
      <4>1. /\ player' = [player EXCEPT ![r].at = "sleep"]
            /\ UNCHANGED <<time_cursor, showVars, fault, foundEmpty>>
        BY <2>5, <3>2 DEF DoDelay
      <4> QED
        BY <2>0, <3>1, <4>1, ActsFacts
    <3>3. CASE ~(Element(r).ts >= time_cursor)
      <4>1. log[player[r].i].ts < time_cursor
        <5>1. Element(r).ts \in Times /\ time_cursor \in Times /\ Element(r).ts = log[player[r].i].ts
          BY <1>0, <3>1, ElementFacts DEF TypeOK
        <5>2. \A a, b \in Times : ~(a >= b) => a < b
          BY ReplayAssumption DEF Times
        <5> QED
          BY <3>3, <5>1, <5>2
      <4>2. fault' = "assert" /\ UNCHANGED <<player, time_cursor, showVars, foundEmpty>>
        BY <2>5, <3>3 DEF DoDelay
      <4> QED
        BY <2>0, <3>1, <4>1, <4>2 DEF Fails
    <3> QED
      BY <3>2, <3>3
  <2>6. CASE WakeUp(r)
    <3>1. InLoop(r) /\ ~Dangling(r) /\ player[r].at = "sleep"
      BY <2>6 DEF WakeUp, InLoop
    <3>2. /\ player[r].i \in 1..Len(log) /\ Element(r) = log[player[r].i]
          /\ Element(r).ts \in Times
      BY <3>1, ElementFacts
    <3>3. player[r].i + 1 \in 1..Len(log) + 1
      BY <1>0, <3>2
    <3>4. Goes(r, player[r].i + 1)
      BY <2>6, <3>3, IterateFacts DEF WakeUp, Goes
    <3> QED
      BY <2>0, <2>6, <3>1, <3>2, <3>4 DEF WakeUp, Advances
  <2>7. CASE PutTitleBack(r)
    <3>1. Moves(r, "stop")
      BY <1>0, <2>7, MoveFacts DEF PutTitleBack, Moves, Points
    <3> QED
      BY <2>0, <2>7, <3>1 DEF PutTitleBack, Ends
  <2>8. CASE StopPlay(r)
    <3>1. Idle \in Player /\ player \in [Replays -> Player] /\ Idle.at = "none"
      BY <1>0 DEF TypeOK, Idle, Player, Points
    <3>2. /\ player' \in [Replays -> Player] /\ player'[r].at = "none"
          /\ \A s \in Replays : s # r => player'[s] = player[s]
      BY <2>8, <3>1 DEF StopPlay
    <3> QED
      BY <2>0, <2>8, <3>2 DEF StopPlay, Leaves
  <2>9. CASE Crash(r)
    BY <2>0, <2>9 DEF Crash, InLoop, Fails
  <2> QED
    BY <1>3, <2>0, <2>1, <2>2, <2>3, <2>4, <2>5, <2>6, <2>7, <2>8, <2>9
<1> QED
  BY <1>0, <1>1, <1>2, <1>3 DEF ThreadStep

-----------------------------------------------------------------------------
(***************************************************************************)
(* Types.                                                                  *)
(***************************************************************************)
LEMMA InitInv == ReplayInit => IInv
<1> SUFFICES ASSUME ReplayInit PROVE IInv
  OBVIOUS
<1>1. Idle \in Player /\ Idle.at = "none"
  BY DEF Player, Idle, Points
<1>2. player \in [Replays -> Player] /\ \A r \in Replays : player[r].at = "none"
  BY <1>1 DEF ReplayInit
<1>3. log \in Seq(Elements)
  BY DEF ReplayInit, Init
<1>4. 0 \in Times /\ 0 \in 0..MaxErasures
  BY ReplayAssumption DEF Times
<1>5. TypeOK
  BY <1>2, <1>3, <1>4 DEF ReplayInit, Init, TypeOK, Player
<1> QED
  BY <1>2, <1>5 DEF ReplayInit, Init, IInv, PlayerInv, InLoop, Resizing

\* A list that stays or grows keeps every iterator of it good.
LEMMA ThreadInv ==
  ASSUME IInv, NEW r \in Replays, ThreadStep(r)
  PROVE  IInv'
<1>0. /\ TypeOK /\ PlayerInv /\ Len(log) \in Nat
      /\ UNCHANGED <<main, disturbed>> /\ straggled' \subseteq Stragglers
  BY ThreadKinds DEF IInv, TypeOK
<1>1. SUFFICES ASSUME ListGrows,
                      player' \in [Replays -> Player],
                      time_cursor' \in Times, title' \in BOOLEAN, icon' \in BOOLEAN,
                      fault' \in {"no", "dangling", "assert"}, foundEmpty' \in BOOLEAN,
                      \A s \in Replays : s # r => player'[s] = player[s],
                      InLoop(r)' => player'[r].i \in 0..Len(log),
                      player'[r].at \in {"sized", "tested"} => "resize" \in Kinds
               PROVE  IInv'
  <2>1. CASE Begins(r)
    BY <1>0, <1>1, <2>1 DEF Begins, Moves, TypeOK, InLoop, Resizing, showVars
  <2>2. CASE Enters(r)
    <3>1. /\ time_cursor' \in Times /\ title' \in BOOLEAN /\ icon' \in BOOLEAN
          /\ fault' \in {"no", "dangling", "assert"} /\ foundEmpty' \in BOOLEAN
      BY <1>0, <2>2 DEF Enters, TypeOK, showVars
    <3>2. ListGrows /\ Goes(r, 1)
      BY <2>2 DEF Enters
    <3> QED
      BY <1>0, <1>1, <3>1, <3>2 DEF Goes, InLoop, Resizing
  <2>3. CASE Acts(r)
    <3>1. InLoop(r)
      BY <1>0, <2>3 DEF Acts, InLoop
    <3>2. player[r].i \in 0..Len(log)
      BY <1>0, <3>1 DEF PlayerInv
    <3>3. /\ player' \in [Replays -> Player] /\ player'[r].i = player[r].i
          /\ \A s \in Replays : s # r => player'[s] = player[s]
          /\ player'[r].at \in {"sized", "tested"} => "resize" \in Kinds
      BY <2>3 DEF Acts, Moves
    <3> QED
      BY <1>0, <1>1, <2>3, <3>2, <3>3 DEF Acts, TypeOK, showVars
  <2>4. CASE Advances(r)
    <3>1. /\ time_cursor' \in Times /\ title' \in BOOLEAN /\ icon' \in BOOLEAN
          /\ fault' \in {"no", "dangling", "assert"} /\ foundEmpty' \in BOOLEAN
      BY <1>0, <2>4 DEF Advances, TypeOK, showVars
    <3>2. ListGrows /\ Goes(r, player[r].i + 1)
      BY <2>4 DEF Advances
    <3>3. InLoop(r)' => player'[r].i \in 1..Len(log)
      BY <3>2 DEF Goes, InLoop, Resizing
    <3> QED
      BY <1>0, <1>1, <3>1, <3>2, <3>3 DEF Goes
  <2>5. CASE Ends(r)
    BY <1>0, <1>1, <2>5 DEF Ends, Moves, TypeOK, InLoop, Resizing
  <2>6. CASE Leaves(r)
    BY <1>0, <1>1, <2>6 DEF Leaves, TypeOK, InLoop, Resizing
  <2>7. CASE Fails(r)
    BY <1>0, <1>1, <2>7 DEF Fails, TypeOK, InLoop, Resizing, PlayerInv, Player, showVars
  <2> QED
    BY <2>1, <2>2, <2>3, <2>4, <2>5, <2>6, <2>7, ThreadKinds
<1>2. /\ log' \in Seq(Elements) /\ Len(log') \in Nat
      /\ Len(log) <= Len(log') /\ UNCHANGED <<phase, start_timestamp, erasures>>
  BY <1>1 DEF ListGrows
<1>3. TypeOK'
  BY <1>0, <1>1, <1>2 DEF TypeOK, Player
<1>4. ASSUME NEW s \in Replays, InLoop(s)'
      PROVE  player'[s].i \in 0..Len(log')
  <2>1. player'[s].i \in 0..Len(log)
    BY <1>0, <1>1, <1>4 DEF InLoop, Resizing, PlayerInv
  <2> QED
    BY <1>0, <1>2, <2>1
<1>5. \A s \in Replays : player'[s].at \in {"sized", "tested"} => "resize" \in Kinds
  BY <1>0, <1>1 DEF PlayerInv
<1> QED
  BY <1>0, <1>2, <1>3, <1>4, <1>5 DEF IInv, PlayerInv

\* What erasing the list does to the replays.
LEMMA EraseFacts ==
  ASSUME IInv, EraseScript
  PROVE  /\ player' \in [Replays -> Player]
         /\ \A r \in Replays : player'[r].at = player[r].at /\ player'[r].i = 0
  <1>1. player \in [Replays -> Player]
    BY DEF IInv, TypeOK, Player
  <1>2. \A r \in Replays : /\ [player[r] EXCEPT !.i = 0] \in Player
                           /\ [player[r] EXCEPT !.i = 0].at = player[r].at
                           /\ [player[r] EXCEPT !.i = 0].i = 0
    BY <1>1 DEF Player
  <1> QED
    BY <1>2 DEF EraseScript

LEMMA InvStep == IInv /\ [ReplayNext]_vars => IInv'
<1> SUFFICES ASSUME IInv, [ReplayNext]_vars PROVE IInv'
  OBVIOUS
<1>0. TypeOK /\ PlayerInv /\ Len(log) \in Nat /\ MaxErasures \in Nat
  BY ReplayAssumption DEF IInv, TypeOK
<1>1. CASE OpenScript
  BY <1>0, <1>1
  DEF OpenScript, Open, replayVars, showVars, IInv, TypeOK, PlayerInv, InLoop, Resizing
<1>2. CASE EraseScript
  <2>1. /\ log' = <<>> /\ phase' = "on" /\ straggled' = {} /\ phase = "opening"
        /\ erasures' = erasures + 1
        /\ UNCHANGED <<main, start_timestamp, time_cursor, title, icon, fault, foundEmpty>>
        /\ disturbed' \in BOOLEAN
    BY <1>0, <1>2 DEF EraseScript, Erase, showVars, TypeOK
  <2>2. log' \in Seq(Elements) /\ Len(log') \in Nat /\ erasures' \in 0..MaxErasures
    BY <1>0, <2>1 DEF PlayerInv, TypeOK
  <2>3. TypeOK'
    BY <1>0, <1>2, <2>1, <2>2, EraseFacts DEF TypeOK, Player
  <2> QED
    BY <1>0, <1>2, <2>1, <2>2, <2>3, EraseFacts DEF IInv, PlayerInv
<1>3. CASE SetStartTime
  <2>1. disturbed' \in BOOLEAN
    BY <1>3 DEF SetStartTime, SomeAlive
  <2> QED
    BY <1>0, <1>3, <2>1
    DEF SetStartTime, logVars, replayVars, showVars, IInv, TypeOK, PlayerInv, InLoop, Resizing
<1>4. CASE RecordAction
  <2>1. PICK e \in Elements : log' = Append(log, e)
    BY <1>4 DEF RecordAction
  <2>2. /\ straggled' \subseteq Stragglers
        /\ UNCHANGED <<phase, start_timestamp, erasures, main, time_cursor, title, icon,
                       player, fault, foundEmpty, disturbed>>
    BY <1>0, <1>4, ReplayAssumption
    DEF RecordAction, Note, Straggle, replayVars, showVars, TypeOK
  <2>3. log' \in Seq(Elements) /\ Len(log') \in Nat /\ Len(log) <= Len(log')
    BY <2>1, <2>2, GrowFacts DEF ListGrows
  <2>4. TypeOK'
    BY <1>0, <2>2, <2>3 DEF TypeOK
  <2> QED
    BY <1>0, <2>2, <2>3, <2>4 DEF IInv, PlayerInv, InLoop, Resizing
<1>5. CASE CloseScript \/ RejectScript \/ BlockMain
  BY <1>0, <1>5
  DEF CloseScript, Close, RejectScript, BlockMain, logVars, replayVars, showVars, IInv, TypeOK,
      PlayerInv, InLoop, Resizing
<1>6. ASSUME NEW r \in Replays, OnPlay(r) PROVE IInv'
  <2>1. Moves(r, "new")
    BY <1>0, <1>6, MoveFacts DEF OnPlay, Moves, Points
  <2>2. /\ UNCHANGED <<log, phase, straggled, main, start_timestamp, erasures,
                       time_cursor, fault>>
        /\ title' = TRUE /\ icon' = TRUE /\ foundEmpty' = FALSE /\ disturbed' = SomeAlive
    BY <1>6 DEF OnPlay, listVars, logVars
  <2>3. disturbed' \in BOOLEAN
    BY <2>2 DEF SomeAlive
  <2>4. TypeOK'
    BY <1>0, <2>1, <2>2, <2>3 DEF TypeOK, Moves, Player
  <2> QED
    BY <1>0, <2>1, <2>2, <2>4 DEF IInv, PlayerInv, InLoop, Resizing, Moves
<1>7. CASE UNCHANGED vars
  BY <1>0, <1>7
  DEF vars, listVars, logVars, replayVars, showVars, IInv, TypeOK, PlayerInv, InLoop, Resizing
<1> QED
  BY <1>1, <1>2, <1>3, <1>4, <1>5, <1>6, <1>7, ThreadInv DEF ReplayNext, ListStep

\* TypeOK holds in every reachable state: no iterator leaves the list it is of.
THEOREM TypeCorrect == ReplaySpec => []TypeOK
  BY InitInv, InvStep, PTL DEF ReplaySpec, IInv

-----------------------------------------------------------------------------
(***************************************************************************)
(* A replay that runs alone.                                               *)
(***************************************************************************)
\* The time of the element before the i-th.
Before(i) == IF i = 1 THEN start_timestamp ELSE log[i - 1].ts

\* If the last replay was not disturbed it is the only one, its iterator is good,
\* and time_cursor is at the element before its own.
AloneInv ==
  ~disturbed =>
    /\ \A r, s \in Replays : Alive(r) /\ Alive(s) => r = s
    /\ \A r \in Replays : InLoop(r) =>
         player[r].i # 0 /\ time_cursor = Before(player[r].i)

SafeInv == AloneInv /\ ReplaySafe /\ TitleAndIconTell

LEMMA AliveFacts ==
  ASSUME NEW r \in Replays
  PROVE  /\ InLoop(r) => Playing(r)
         /\ Playing(r) => Alive(r)
         /\ Alive(r) <=> Playing(r) \/ player[r].at = "stop"
  BY DEF InLoop, Resizing, Playing, Alive

LEMMA SafeInit == ReplayInit => SafeInv
<1> SUFFICES ASSUME ReplayInit PROVE SafeInv
  OBVIOUS
<1>1. \A r \in Replays : ~Alive(r) /\ ~Playing(r) /\ ~InLoop(r)
  BY DEF ReplayInit, Idle, Alive, Playing, InLoop, Resizing
<1> QED
  BY <1>1 DEF ReplayInit, SafeInv, AloneInv, ReplaySafe, TitleAndIconTell, SomeAlive

\* What is known of the time before an element stays known while the list grows.
LEMMA BeforeKept ==
  ASSUME IInv, NEW i \in 1..Len(log), start_timestamp' = start_timestamp,
         \A j \in 1..Len(log) : log'[j] = log[j]
  PROVE  Before(i)' = Before(i)
  <1>1. Len(log) \in Nat
    BY DEF IInv, TypeOK
  <1>2. i # 1 => i - 1 \in 1..Len(log)
    BY <1>1
  <1> QED
    BY <1>2 DEF Before

\* The steps of the recorder that leave the replays alone.
LEMMA RecorderSafe ==
  ASSUME IInv, SafeInv, fault = "no",
         UNCHANGED <<player, time_cursor, title, icon, fault, disturbed, foundEmpty,
                     start_timestamp>>,
         \A j \in 1..Len(log) : log'[j] = log[j]
  PROVE  SafeInv'
<1>1. ASSUME NEW r \in Replays, ~disturbed, InLoop(r) PROVE time_cursor = Before(player[r].i)'
  <2>1. player[r].i # 0 /\ time_cursor = Before(player[r].i)
    BY <1>1 DEF SafeInv, AloneInv
  <2>2. player[r].i \in 1..Len(log) /\ player'[r].i = player[r].i
    BY <1>1, <2>1, ElementFacts DEF Dangling
  <2>3. PICK i \in 1..Len(log) : i = player[r].i
    BY <2>2
  <2>4. Before(i)' = Before(i)
    BY BeforeKept
  <2> QED
    BY <2>1, <2>2, <2>3, <2>4 DEF Before
<1>2. AloneInv'
  BY <1>1 DEF SafeInv, AloneInv, InLoop, Resizing, Alive, Playing
<1>3. TitleAndIconTell'
  BY DEF SafeInv, TitleAndIconTell, SomeAlive, Alive, Playing, Resizing
<1> QED
  BY <1>2, <1>3 DEF SafeInv, ReplaySafe

\* Erasing the list, and setting its start time, disturbs a replay if there is one.
LEMMA EraseSafe ==
  ASSUME IInv, SafeInv, fault = "no", EraseScript \/ SetStartTime
  PROVE  SafeInv'
<1>1. /\ disturbed' = (disturbed \/ SomeAlive)
      /\ UNCHANGED <<title, icon, fault, foundEmpty>>
      /\ \A r \in Replays : player'[r].at = player[r].at
  BY EraseFacts DEF EraseScript, SetStartTime, replayVars, showVars
<1>2. ASSUME ~disturbed'
      PROVE  ~disturbed /\ \A r \in Replays : ~Alive(r)' /\ ~Playing(r)' /\ ~InLoop(r)'
                                              /\ ~Alive(r) /\ ~Playing(r)
  BY <1>1, <1>2 DEF SomeAlive, Alive, Playing, InLoop, Resizing
<1> QED
  BY <1>1, <1>2 DEF SafeInv, AloneInv, ReplaySafe, TitleAndIconTell, SomeAlive

\* A replay that begins while none runs starts afresh.
LEMMA OnPlaySafe ==
  ASSUME IInv, SafeInv, fault = "no", NEW r \in Replays, OnPlay(r)
  PROVE  SafeInv'
<1>1. /\ disturbed' = SomeAlive /\ fault' = fault
      /\ title' = TRUE /\ icon' = TRUE
  BY DEF OnPlay
<1>2. Moves(r, "new")
  BY MoveFacts DEF IInv, OnPlay, Moves, Points
<1>3. Alive(r)' /\ Playing(r)' /\ ~InLoop(r)'
  BY <1>2 DEF Moves, Alive, Playing, InLoop, Resizing
<1>4. ASSUME ~disturbed', NEW s \in Replays, s # r
      PROVE  ~Alive(s)' /\ ~Playing(s)' /\ ~InLoop(s)'
  BY <1>1, <1>2, <1>4 DEF SomeAlive, Moves, Alive, Playing, InLoop, Resizing
<1> QED
  BY <1>1, <1>3, <1>4 DEF SafeInv, AloneInv, ReplaySafe, TitleAndIconTell, SomeAlive

\* The steps of a replay.
LEMMA ThreadSafe ==
  ASSUME IInv, SafeInv, NEW r \in Replays, ThreadStep(r)
  PROVE  SafeInv'
<1>0. /\ disturbed' = disturbed /\ fault = "no" /\ disturbed \in BOOLEAN
      /\ \/ Begins(r) \/ Enters(r) \/ Acts(r) \/ Advances(r) \/ Ends(r) \/ Leaves(r)
         \/ Fails(r)
  BY ThreadKinds DEF IInv, TypeOK
<1>1. /\ ListGrows /\ \A s \in Replays : s # r => player'[s] = player[s]
      /\ Fails(r) \/ fault' = fault
  BY <1>0 DEF Begins, Enters, Acts, Advances, Ends, Leaves, Fails, Moves, Goes
<1>2. Alive(r)
  BY <1>0 DEF Begins, Enters, Acts, Advances, Ends, Leaves, Fails, Alive, Playing, InLoop
<1>3. start_timestamp' = start_timestamp /\ \A j \in 1..Len(log) : log'[j] = log[j]
  BY <1>1 DEF ListGrows
<1>4. CASE disturbed
  BY <1>0, <1>4 DEF SafeInv, AloneInv, ReplaySafe, TitleAndIconTell
<1>5. CASE ~disturbed
  <2>1. \A s \in Replays : s # r => ~Alive(s) /\ ~Playing(s)
    BY <1>2, <1>5, AliveFacts DEF SafeInv, AloneInv
  <2>2. \A s \in Replays : s # r => ~Alive(s)' /\ ~Playing(s)' /\ ~InLoop(s)'
    BY <1>1, <2>1 DEF Alive, Playing, InLoop, Resizing
  <2>3. /\ InLoop(r) => time_cursor = Before(player[r].i) /\ player[r].i \in 1..Len(log)
        /\ icon = TRUE /\ (Playing(r) => title = TRUE)
        /\ title => foundEmpty \/ Playing(r)
    <3>1. icon \in BOOLEAN /\ title \in BOOLEAN
      BY DEF IInv, TypeOK
    <3> QED
      BY <1>2, <1>5, <2>1, <3>1, ElementFacts
      DEF SafeInv, AloneInv, TitleAndIconTell, SomeAlive, Dangling
  <2>4. ASSUME InLoop(r)'
        PROVE  /\ player'[r].i # 0
               /\ time_cursor' = IF player'[r].i = 1 THEN start_timestamp'
                                 ELSE log'[player'[r].i - 1].ts
    <3>1. CASE Begins(r) \/ Ends(r) \/ Leaves(r)
      BY <2>4, <3>1 DEF Begins, Ends, Leaves, Moves, InLoop, Resizing
    <3>2. CASE Enters(r)
      BY <1>3, <2>4, <3>2 DEF Enters, Goes, InLoop, Resizing
    <3>3. CASE Acts(r) \/ Fails(r)
      <4>1. /\ InLoop(r) /\ time_cursor' = time_cursor
            /\ player'[r].i = player[r].i
        BY <3>3 DEF Acts, Fails, Moves, InLoop
      <4>2. PICK i \in 1..Len(log) : i = player[r].i
        BY <2>3, <4>1
      <4>3. Before(i)' = Before(i)
        BY <1>3, BeforeKept
      <4> QED
        BY <1>3, <2>3, <4>1, <4>2, <4>3 DEF Before
    <3>4. CASE Advances(r)
      <4>1. /\ player'[r].i = player[r].i + 1 /\ player[r].i \in 1..Len(log)
            /\ time_cursor' = log[player[r].i].ts /\ log' = log
        BY <2>4, <3>4 DEF Advances, Goes, InLoop, Resizing
      <4>2. player[r].i \in Nat /\ player[r].i + 1 \notin {0, 1} /\ player[r].i + 1 - 1 = player[r].i
        BY <4>1
      <4> QED
        BY <1>3, <4>1, <4>2
    <3> QED
      BY <1>0, <3>1, <3>2, <3>3, <3>4
  <2>5. AloneInv'
    BY <1>0, <2>2, <2>4 DEF AloneInv, Before
  <2>6. /\ icon' <=> Alive(r)'
        /\ Playing(r)' => title'
        /\ title' => foundEmpty' \/ Playing(r)'
    <3>1. CASE Begins(r)
      BY <2>3, <3>1 DEF Begins, Moves, showVars, Alive, Playing, Resizing
    <3>2. CASE Enters(r) \/ Acts(r) \/ Advances(r)
      <4>1. Playing(r) /\ UNCHANGED <<title, icon>>
        BY <3>2 DEF Enters, Acts, Advances, showVars, Playing
      <4>2. Playing(r)' /\ Alive(r)'
        BY <3>2 DEF Enters, Acts, Advances, Goes, Moves, Playing, Alive, Resizing
      <4> QED
        BY <2>3, <4>1, <4>2
    <3>3. CASE Ends(r)
      BY <2>3, <3>3 DEF Ends, Moves, Alive, Playing, Resizing
    <3>4. CASE Leaves(r)
      <4>1. ~Playing(r) /\ ~Playing(r)' /\ ~Alive(r)'
        BY <3>4 DEF Leaves, Alive, Playing, Resizing
      <4> QED
        BY <2>3, <3>4, <4>1 DEF Leaves
    <3>5. CASE Fails(r)
      BY <1>2, <2>3, <3>5 DEF Fails, showVars, Alive, Playing, Resizing
    <3> QED
      BY <1>0, <3>1, <3>2, <3>3, <3>4, <3>5
  <2>7. TitleAndIconTell'
    BY <2>2, <2>6 DEF TitleAndIconTell, SomeAlive
  <2>8. ReplaySafe'
    <3>1. CASE Fails(r)
      <4>1. InLoop(r) /\ player[r].i \in 1..Len(log) /\ Len(log) \in Nat
        BY <2>3, <3>1 DEF Fails, IInv, TypeOK
      <4>2. ~Dangling(r)
        BY <4>1 DEF Dangling
      <4>3. fault' = "assert" /\ log[player[r].i].ts < time_cursor /\ log' = log
        BY <3>1, <4>2 DEF Fails
      <4>4. /\ time_cursor = Before(player[r].i)
            /\ time_cursor \in Nat /\ log[player[r].i].ts \in Nat
        BY <2>3, <4>1, <4>2, ElementFacts DEF IInv, TypeOK, Times
      <4>5. ~(log[player[r].i].ts >= IF player[r].i = 1 THEN start_timestamp ELSE log[player[r].i - 1].ts)
        BY <4>3, <4>4 DEF Before
      <4>6. ~Ordered
        BY <4>1, <4>5 DEF Ordered
      <4> QED
        BY <1>3, <4>3, <4>6 DEF ReplaySafe, Ordered
    <3>2. CASE fault' = fault
      BY <1>0, <3>2 DEF ReplaySafe
    <3> QED
      BY <1>1, <3>1, <3>2
  <2> QED
    BY <2>5, <2>7, <2>8 DEF SafeInv
<1> QED
  BY <1>0, <1>4, <1>5

LEMMA SafeStep == IInv /\ SafeInv /\ [ReplayNext]_vars => SafeInv'
<1> SUFFICES ASSUME IInv, SafeInv, [ReplayNext]_vars PROVE SafeInv'
  OBVIOUS
<1>1. ASSUME OpenScript \/ CloseScript \/ RejectScript \/ BlockMain, fault = "no" PROVE SafeInv'
  BY <1>1, RecorderSafe
  DEF OpenScript, Open, CloseScript, Close, RejectScript, BlockMain, logVars, replayVars, showVars
<1>2. ASSUME RecordAction, fault = "no" PROVE SafeInv'
  <2>1. PICK e \in Elements : log' = Append(log, e)
    BY <1>2 DEF RecordAction
  <2>2. UNCHANGED <<phase, start_timestamp, erasures>>
    BY <1>2 DEF RecordAction, Note, Straggle
  <2>3. \A j \in 1..Len(log) : log'[j] = log[j]
    BY <2>1, <2>2, GrowFacts DEF ListGrows
  <2> QED
    BY <1>2, <2>3, RecorderSafe DEF RecordAction, replayVars, showVars
<1>3. CASE UNCHANGED vars
  BY <1>3 DEF vars, listVars, logVars, replayVars, showVars, SafeInv, AloneInv, ReplaySafe,
              TitleAndIconTell, SomeAlive, Alive, Playing, InLoop, Resizing, Before, Ordered
<1> QED
  BY <1>1, <1>2, <1>3, EraseSafe, OnPlaySafe, ThreadSafe
  DEF ReplayNext, ListStep, Running

LEMMA SafeInvariant == ReplaySpec => [](IInv /\ SafeInv)
  BY InitInv, InvStep, SafeInit, SafeStep, PTL DEF ReplaySpec

\* ReplaySafe holds in every reachable state: over a list that is not erased under
\* it, a replay that runs alone touches no deleted action, and DoDelay's assertion
\* fails only if the list goes back in time.
THEOREM ReplaySafeCorrect == ReplaySpec => []ReplaySafe
  BY SafeInvariant, PTL DEF SafeInv

\* Pace holds in every reachable state: such a replay executes an action when
\* time_cursor is at the one before it (Play, DoDelay).
THEOREM PaceCorrect == ReplaySpec => []Pace
<1>1. SafeInv => Pace
  BY DEF SafeInv, AloneInv, Pace, InLoop, Before
<1> QED
  BY <1>1, SafeInvariant, PTL

\* TitleAndIconTell holds in every reachable state (OnPlay, Play and Entry).
THEOREM TitleAndIconCorrect == ReplaySpec => []TitleAndIconTell
  BY SafeInvariant, PTL DEF SafeInv

-----------------------------------------------------------------------------
(***************************************************************************)
(* What replays push.                                                      *)
(***************************************************************************)
\* A replay that is about to push has not pushed to the closed script before: it
\* passed the test while a script was open, which began with no straggler.
PushInv ==
  /\ phase = "on" => straggled = {}
  /\ phase # "opening" => \A r \in Replays : player[r].at = "tested" => r \notin straggled

LEMMA PushInit == ReplayInit => PushInv /\ Init
  BY DEF ReplayInit, Init, PushInv

\* A step of a replay pushes as the log allows, or not at all.
LEMMA ThreadKeepsLog ==
  ASSUME IInv, PushInv, NEW r \in Replays, ThreadStep(r)
  PROVE  PushInv' /\ [Next]_logVars
<1>0. phase \in {"off", "opening", "on"} /\ r \in Stragglers
  BY DEF IInv, TypeOK, Replays
<1>1. \A s \in Replays : s # r => player'[s] = player[s]
  BY ThreadKinds DEF Begins, Enters, Acts, Advances, Ends, Leaves, Fails, Moves, Goes
<1>2. ASSUME UNCHANGED phase, UNCHANGED straggled,
             player'[r].at = "tested" => player[r].at = "tested" \/ phase # "off"
      PROVE  PushInv'
  <2>1. phase = "on" => straggled = {}
    BY DEF PushInv
  <2>2. ASSUME NEW s \in Replays, player'[s].at = "tested", phase # "opening"
        PROVE  s \notin straggled
    BY <1>0, <1>1, <1>2, <2>1, <2>2 DEF PushInv
  <2> QED
    BY <1>2, <2>1, <2>2 DEF PushInv
<1>3. CASE Execute(r)
  <2>1. player'[r].at # "tested" /\ UNCHANGED <<phase, straggled>> /\ (UNCHANGED logVars \/ Note)
    <3>1. player'[r].at \in {"sized", "delay"}
      BY <1>3, MoveFacts DEF Execute, IInv, Points
    <3> QED
      BY <1>3, <3>1 DEF Execute, Note, logVars
  <2> QED
    BY <1>2, <2>1 DEF Next
<1>4. CASE PushTested(r)
  <2>1. Grows /\ UNCHANGED phase /\ player[r].at = "tested"
    BY <1>4, PushFacts DEF PushTested, IInv, PlayerInv
  <2>2. player'[r].at = "listed"
    BY <1>4, MoveFacts DEF PushTested, IInv, Points
  <2>3. CASE phase = "off"
    <3>1. straggled' = straggled \cup {r} /\ r \notin straggled
      BY <1>4, <2>1, <2>3 DEF PushTested, PushInv
    <3>2. Straggle
      BY <1>0, <2>1, <2>3, <3>1 DEF Straggle
    <3>3. \A s \in Replays : player'[s].at = "tested" => s \notin straggled'
      BY <1>1, <2>2, <2>3, <3>1 DEF PushInv
    <3> QED
      BY <2>1, <2>3, <3>2, <3>3 DEF PushInv, Next
  <2>4. CASE phase # "off"
    <3>1. Note
      BY <1>4, <2>1, <2>4 DEF PushTested, Note
    <3> QED
      BY <1>2, <2>2, <3>1 DEF Note, Next
  <2> QED
    BY <2>3, <2>4
<1>5. ASSUME UNCHANGED listVars,
             \/ BeginPlay(r) \/ SetCursor(r) \/ TestState(r) \/ AppendItem(r) \/ DoDelay(r)
             \/ WakeUp(r) \/ PutTitleBack(r) \/ StopPlay(r) \/ Crash(r)
      PROVE  PushInv' /\ [Next]_logVars
  <2>1. UNCHANGED logVars /\ UNCHANGED <<phase, log, straggled>>
    BY <1>5 DEF listVars, logVars
  <2>2. CASE TestState(r)
    <3>1. player'[r].at = "tested" => phase # "off"
      BY <2>2, MoveFacts DEF TestState, IInv, Points
    <3> QED
      BY <1>2, <2>1, <3>1
  <2>3. CASE ~TestState(r)
    <3>1. player'[r].at = "tested" => player[r].at = "tested"
      <4>1. CASE BeginPlay(r) \/ AppendItem(r) \/ PutTitleBack(r)
        BY <4>1, MoveFacts DEF BeginPlay, AppendItem, PutTitleBack, IInv, Points
      <4>2. CASE SetCursor(r)
        <5>1. 1 \in 1..Len(log) + 1
          BY DEF IInv, TypeOK
        <5> QED
          BY <4>2, <5>1, IterateFacts DEF SetCursor
      <4>3. CASE WakeUp(r)
        <5>1. player[r].i + 1 \in 1..Len(log) + 1
          <6>1. player[r].i \in 1..Len(log) /\ Len(log) \in Nat
            BY <4>3, ElementFacts DEF WakeUp, InLoop
          <6> QED
            BY <6>1
        <5> QED
          BY <4>3, <5>1, IterateFacts DEF WakeUp
      <4>4. CASE DoDelay(r)
        BY <4>4, MoveFacts DEF DoDelay, IInv, Points
      <4>5. CASE StopPlay(r)
        BY <4>5 DEF StopPlay, Idle, IInv, TypeOK
      <4>6. CASE Crash(r)
        BY <4>6 DEF Crash
      <4> QED
        BY <1>5, <2>3, <4>1, <4>2, <4>3, <4>4, <4>5, <4>6
    <3> QED
      BY <1>2, <2>1, <3>1
  <2> QED
    BY <2>2, <2>3
<1> QED
  BY <1>3, <1>4, <1>5 DEF ThreadStep

LEMMA PushStep == IInv /\ PushInv /\ [ReplayNext]_vars => PushInv' /\ [Next]_logVars
<1> SUFFICES ASSUME IInv, PushInv, [ReplayNext]_vars PROVE PushInv' /\ [Next]_logVars
  OBVIOUS
<1>1. CASE OpenScript
  BY <1>1 DEF OpenScript, Open, PushInv, Next
<1>2. CASE EraseScript
  BY <1>2, EraseFacts DEF EraseScript, Erase, PushInv, Next
<1>3. CASE SetStartTime \/ RejectScript \/ BlockMain
  BY <1>3 DEF SetStartTime, RejectScript, BlockMain, replayVars, logVars, PushInv
<1>4. CASE RecordAction
  <2>1. UNCHANGED player
    BY <1>4 DEF RecordAction, replayVars
  <2>2. CASE Note
    BY <2>1, <2>2 DEF Note, PushInv, Next
  <2>3. CASE Straggle /\ straggled' = straggled \cup {Cef}
    <3>1. phase = "off" /\ phase' = "off" /\ \A r \in Replays : r # Cef
      BY <2>3 DEF Straggle, Replays
    <3> QED
      BY <2>1, <2>3, <3>1 DEF PushInv, Next
  <2> QED
    BY <1>4, <2>2, <2>3 DEF RecordAction
<1>5. CASE CloseScript
  BY <1>5 DEF CloseScript, Close, replayVars, PushInv, Next
<1>6. ASSUME NEW r \in Replays, OnPlay(r) PROVE PushInv' /\ [Next]_logVars
  <2>1. UNCHANGED logVars /\ UNCHANGED <<phase, straggled>>
    BY <1>6 DEF OnPlay, listVars, logVars
  <2>2. \A s \in Replays : player'[s].at = "tested" => player[s].at = "tested"
    BY <1>6, MoveFacts DEF OnPlay, IInv, Points
  <2> QED
    BY <2>1, <2>2 DEF PushInv
<1>7. CASE UNCHANGED vars
  BY <1>7 DEF vars, listVars, logVars, replayVars, PushInv
<1> QED
  BY <1>1, <1>2, <1>3, <1>4, <1>5, <1>6, <1>7, ThreadKeepsLog DEF ReplayNext, ListStep

\* KeepsLog holds for any number of replays: with all that replays push while a
\* script is recorded, or was just closed, the list stays within the recorder's
\* promise (OnSize called by a replay, PushResizeAction).
THEOREM KeepsLogCorrect == ReplaySpec => KeepsLog
  BY InitInv, InvStep, PushInit, PushStep, PTL DEF ReplaySpec, KeepsLog, Spec
=============================================================================

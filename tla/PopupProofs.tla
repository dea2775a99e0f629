---------------------------- MODULE PopupProofs ----------------------------
(***************************************************************************)
(* Proofs about Popup, for every number of popups, timeouts and closed tabs *)
(* and every outcome of locking an owned mutex.                            *)
(***************************************************************************)
EXTENDS Popup, FiniteSetTheorems, TLAPS

\* The current popup has neither a signal nor a timeout, or it has the signal and
\* not its page.
Waiting == io \in {"queued", "waiting", "expired"}
Called  == io \notin {"idle", "status"}

\* The place of the last page.
LastPage == pages[Len(pages)]

\* Requests that AddTabWorker has not answered with a page yet.
Outstanding == Len(queue) + (IF serving = NoPopup THEN 0 ELSE 1)

\* What makes TypeOK inductive: the wait has a waiter or a token, the mutex is
\* held when the wait begins, and a popup is under way while the thread is busy.
WaitInv ==
  /\ waiters + posted = IF io \in {"waiting", "expired"} THEN 1 ELSE 0
  /\ io \in {"queued", "counted", "got", "gone"} => held > 0
  /\ io # "idle" => popups > 0
  /\ main = "locking" <=> serving # NoPopup

\* Requests are answered in order: those outstanding are the last ones made.
QueueInv ==
  /\ \A i \in 1..Len(queue) : queue[i] = popups - Len(queue) + i
  /\ serving # NoPopup => serving = popups - Len(queue)

IInv == TypeOK /\ WaitInv /\ QueueInv

LEMMA LockedType ==
  ASSUME NEW h \in Nat
  PROVE  \A g \in Locked(h) : g \in Nat /\ g > 0
  BY DEF Locked

LEMMA AppendFacts ==
  ASSUME NEW S, NEW s \in Seq(S), NEW e \in S
  PROVE  /\ Append(s, e) \in Seq(S) /\ Append(s, e) # <<>>
         /\ Len(Append(s, e)) = Len(s) + 1
         /\ \A i \in 1..Len(s) : Append(s, e)[i] = s[i]
         /\ Append(s, e)[Len(s) + 1] = e
  OBVIOUS

LEMMA TailFacts ==
  ASSUME NEW S, NEW s \in Seq(S), s # <<>>
  PROVE  /\ Head(s) = s[1] /\ Head(s) \in S
         /\ Tail(s) \in Seq(S) /\ Len(Tail(s)) = Len(s) - 1 /\ Len(s) \in Nat \ {0}
         /\ \A i \in 1..Len(s) - 1 : Tail(s)[i] = s[i + 1]
  OBVIOUS

LEMMA LastFacts ==
  ASSUME NEW S, NEW s \in Seq(S), s # <<>>
  PROVE  Len(s) \in Nat \ {0} /\ s[Len(s)] \in S
  OBVIOUS

\* A sequence without one of its elements.
LEMMA WithoutFacts ==
  ASSUME NEW S, NEW s \in Seq(S), Len(s) > 1, NEW k
  PROVE  /\ [i \in 1..Len(s) - 1 |-> IF i < k THEN s[i] ELSE s[i + 1]] \in Seq(S)
         /\ [i \in 1..Len(s) - 1 |-> IF i < k THEN s[i] ELSE s[i + 1]] # <<>>
  <1> DEFINE t == [i \in 1..Len(s) - 1 |-> IF i < k THEN s[i] ELSE s[i + 1]]
  <1>0. Len(s) \in Nat
    OBVIOUS
  <1>1. Len(s) - 1 \in Nat \ {0}
    <2>1. \A n \in Nat : n > 1 => n - 1 \in Nat \ {0}
      OBVIOUS
    <2> QED
      BY <1>0, <2>1
  <1>2. \A i \in 1..Len(s) - 1 : s[i] \in S /\ s[i + 1] \in S
    OBVIOUS
  <1>3. t \in Seq(S) /\ Len(t) = Len(s) - 1
    BY <1>1, <1>2
  <1>4. t # <<>>
    <2> HIDE DEF t
    <2> QED
      BY <1>1, <1>3
  <1> QED
    BY <1>3, <1>4

\* The last page of a notebook that is never empty.
LEMMA LastPageFacts ==
  ASSUME TypeOK
  PROVE  Len(pages) \in Nat \ {0} /\ LastPage \in 0..MaxPopups
  <1>1. pages \in Seq(0..MaxPopups) /\ pages # <<>>
    BY DEF TypeOK
  <1> QED
    BY <1>1, LastFacts DEF LastPage

LEMMA InitInv == Init => IInv
<1> SUFFICES ASSUME Init PROVE IInv
  OBVIOUS
<1>1. /\ <<0>> \in Seq(0..MaxPopups) /\ <<0>> # <<>> /\ 0 \in 0..MaxPopups
      /\ NoPage \in 0..NoPage /\ queue \in Seq(1..MaxPopups) /\ Len(queue) = 0
  BY PopupAssumption DEF Init, NoPage
<1>2. granted \in [1..MaxPopups -> 0..NoPage]
  BY <1>1 DEF Init
<1>3. raced \in BOOLEAN
  BY DEF Init
<1> QED
  BY <1>1, <1>2, <1>3, PopupAssumption DEF Init, IInv, TypeOK, WaitInv, QueueInv, NoPopup

\* Every step of either thread keeps the invariant.
LEMMA InvStep == IInv /\ [Next]_vars => IInv'
<1> SUFFICES ASSUME IInv, [Next]_vars PROVE IInv'
  OBVIOUS
<1>0. TypeOK /\ WaitInv /\ QueueInv /\ popups \in Nat /\ held \in Nat /\ Len(queue) \in Nat
  BY PopupAssumption DEF IInv, TypeOK
<1>1. CASE OnBeforePopup
  <2>1. held' \in Nat /\ held' > 0
    BY <1>0, <1>1, LockedType DEF OnBeforePopup
  <2>2. popups' = popups + 1 /\ popups' \in 1..MaxPopups
    BY <1>0, <1>1, PopupAssumption DEF OnBeforePopup, TypeOK
  <2>3. /\ queue' \in Seq(1..MaxPopups) /\ Len(queue') = Len(queue) + 1
        /\ \A i \in 1..Len(queue) : queue'[i] = queue[i]
        /\ queue'[Len(queue) + 1] = popups'
    BY <1>0, <1>1, <2>2, AppendFacts DEF OnBeforePopup, TypeOK
  <2>4. QueueInv'
    <3>1. ASSUME NEW i \in 1..Len(queue') PROVE queue'[i] = popups' - Len(queue') + i
      <4>1. CASE i \in 1..Len(queue)
        <5>1. queue[i] = popups - Len(queue) + i
          BY <1>0, <4>1 DEF QueueInv
        <5> QED
          BY <1>0, <2>2, <2>3, <4>1, <5>1
      <4>2. CASE i = Len(queue) + 1
        BY <1>0, <2>2, <2>3, <4>2
      <4> QED
        BY <1>0, <2>3, <4>1, <4>2
    <3>2. serving' # NoPopup => serving' = popups' - Len(queue')
      BY <1>0, <1>1, <2>2, <2>3 DEF OnBeforePopup, QueueInv
    <3> QED
      BY <3>1, <3>2 DEF QueueInv
  <2> QED
    BY <1>0, <1>1, <2>1, <2>2, <2>3, <2>4, PopupAssumption
    DEF OnBeforePopup, IInv, TypeOK, WaitInv
<1>2. CASE BeginWait
  BY <1>0, <1>2 DEF BeginWait, IInv, TypeOK, WaitInv, QueueInv
<1>3. CASE Expire \/ ReportTimeout
  BY <1>0, <1>3 DEF Expire, ReportTimeout, IInv, TypeOK, WaitInv, QueueInv
<1>4. CASE CountPages
  <2>1. held' \in Nat /\ held' > 0
    BY <1>0, <1>4, LockedType DEF CountPages
  <2>2. index' \in Nat /\ raced' \in BOOLEAN
    <3>1. raced' \in BOOLEAN
      BY <1>4 DEF CountPages
    <3>2. index' \in Nat
      BY <1>0, <1>4, LastPageFacts DEF CountPages
    <3> QED
      BY <3>1, <3>2
  <2> QED
    BY <1>0, <1>4, <2>1, <2>2 DEF CountPages, IInv, TypeOK, WaitInv, QueueInv
<1>10. CASE GetPage
  <2>1. granted \in [1..MaxPopups -> 0..NoPage] /\ pages \in Seq(0..MaxPopups)
    BY <1>0 DEF TypeOK
  <2>2. \A i \in 1..Len(pages) : pages[i] \in 0..NoPage
    BY <2>1, PopupAssumption DEF NoPage
  <2>3. granted' \in [1..MaxPopups -> 0..NoPage]
    BY <1>10, <2>1, <2>2 DEF GetPage
  <2> QED
    BY <1>0, <1>10, <2>3 DEF GetPage, IInv, TypeOK, WaitInv, QueueInv
<1>11. CASE SetAsChild
  BY <1>0, <1>11 DEF SetAsChild, IInv, TypeOK, WaitInv, QueueInv
<1>5. CASE GiveUp
  <2>1. held' \in Nat
    BY <1>0, <1>5, LockedType DEF GiveUp
  <2>2. popups \in 1..MaxPopups
    BY <1>0, <1>5, PopupAssumption DEF GiveUp, WaitInv, TypeOK
  <2> QED
    BY <1>0, <1>5, <2>1, <2>2 DEF GiveUp, IInv, TypeOK, WaitInv, QueueInv
<1>6. CASE AddTabWorker
  <2>1. /\ serving' = queue[1] /\ serving' \in 1..MaxPopups
        /\ queue' \in Seq(1..MaxPopups) /\ Len(queue') = Len(queue) - 1 /\ Len(queue) > 0
        /\ \A i \in 1..Len(queue) - 1 : queue'[i] = queue[i + 1]
    <3>1. queue \in Seq(1..MaxPopups) /\ queue # <<>>
      BY <1>0, <1>6 DEF AddTabWorker, TypeOK
    <3>2. /\ Head(queue) = queue[1] /\ Head(queue) \in 1..MaxPopups
          /\ Tail(queue) \in Seq(1..MaxPopups) /\ Len(Tail(queue)) = Len(queue) - 1
          /\ Len(queue) \in Nat \ {0}
          /\ \A i \in 1..Len(queue) - 1 : Tail(queue)[i] = queue[i + 1]
      BY <3>1, TailFacts
    <3> QED
      BY <1>6, <3>2 DEF AddTabWorker
  <2>2. QueueInv'
    BY <1>0, <1>6, <2>1 DEF AddTabWorker, QueueInv
  <2> QED
    BY <1>0, <1>6, <2>1, <2>2, PopupAssumption DEF AddTabWorker, IInv, TypeOK, WaitInv, NoPopup
<1>7. CASE AddPage
  <2>1. pages' \in Seq(0..MaxPopups) /\ pages' # <<>>
    BY <1>0, <1>7, AppendFacts DEF AddPage, TypeOK
  <2>2. serving' = 0 /\ serving' \in 0..MaxPopups /\ NoPopup = 0
    BY <1>7, PopupAssumption DEF AddPage, NoPopup
  <2>3. waiters' \in 0..1 /\ posted' \in 0..1 /\ waiters' + posted' = waiters + posted
    <3>1. waiters \in 0..1 /\ posted \in 0..1 /\ waiters + posted \in 0..1
      BY <1>0 DEF TypeOK, WaitInv
    <3> QED
      BY <1>7, <3>1 DEF AddPage
  <2> QED
    BY <1>0, <1>7, <2>1, <2>2, <2>3, PopupAssumption DEF AddPage, IInv, TypeOK, WaitInv, QueueInv
<1>8. CASE OnCloseTab
  <2>1. PICK s \in 1..Len(pages) :
          pages' = [i \in 1..Len(pages) - 1 |-> IF i < s THEN pages[i] ELSE pages[i + 1]]
    BY <1>8 DEF OnCloseTab
  <2>2. pages \in Seq(0..MaxPopups) /\ Len(pages) > 1
    BY <1>0, <1>8 DEF OnCloseTab, TypeOK
  <2>3. pages' \in Seq(0..MaxPopups) /\ pages' # <<>>
    BY <2>1, <2>2, WithoutFacts
  <2> QED
    BY <1>0, <1>8, <2>3 DEF OnCloseTab, IInv, TypeOK, WaitInv, QueueInv
<1>9. CASE UNCHANGED vars
  BY <1>0, <1>9 DEF vars, IInv, TypeOK, WaitInv, QueueInv
<1> QED
  BY <1>1, <1>2, <1>3, <1>4, <1>5, <1>6, <1>7, <1>8, <1>9, <1>10, <1>11
  DEF Next, IoStep, MainStep

\* TypeOK holds in every reachable state: above all, the semaphore of tab_cond never
\* keeps a token that no wait will take (thrimpl.cpp, OnBeforePopup, AddTabWorker).
THEOREM TypeCorrect == Spec => []TypeOK
  BY InitInv, InvStep, PTL DEF Spec, IInv

-----------------------------------------------------------------------------
(***************************************************************************)
(* Popup implements Notebook: each step of the two threads is a step of the *)
(* notebook or changes nothing of it.                                      *)
(***************************************************************************)
\* The pending requests of Notebook under the mapping.
Pending == {queue[i] : i \in 1..Len(queue)} \cup ({serving} \ {NoPopup})

\* Queueing a request makes it pending.
LEMMA PendingGrows ==
  ASSUME IInv, OnBeforePopup
  PROVE  Pending' = Pending \cup {popups + 1}
  <1>1. queue \in Seq(1..MaxPopups) /\ popups + 1 \in 1..MaxPopups
    BY PopupAssumption DEF IInv, TypeOK, OnBeforePopup
  <1>2. queue' = Append(queue, popups + 1) /\ serving' = serving
    BY DEF OnBeforePopup
  <1>3. /\ Len(queue') = Len(queue) + 1 /\ Len(queue) \in Nat
        /\ \A i \in 1..Len(queue) : queue'[i] = queue[i]
        /\ queue'[Len(queue) + 1] = popups + 1
    BY <1>1, <1>2, AppendFacts
  <1>4. ASSUME NEW x
        PROVE  (\E i \in 1..Len(queue') : x = queue'[i])
                 <=> (\E i \in 1..Len(queue) : x = queue[i]) \/ x = popups + 1
    BY <1>3
  <1> QED
    BY <1>2, <1>4 DEF Pending

\* Taking an event from the queue does not.
LEMMA PendingTaken ==
  ASSUME IInv, AddTabWorker
  PROVE  Pending' = Pending
  <1>1. queue \in Seq(1..MaxPopups) /\ queue # <<>> /\ serving = NoPopup
    BY DEF IInv, TypeOK, WaitInv, AddTabWorker
  <1>2. /\ Len(queue') = Len(queue) - 1 /\ Len(queue) \in Nat \ {0}
        /\ serving' = queue[1] /\ serving' \in 1..MaxPopups
        /\ \A i \in 1..Len(queue) - 1 : queue'[i] = queue[i + 1]
    BY <1>1, TailFacts DEF AddTabWorker
  <1>3. ASSUME NEW x
        PROVE  (\E i \in 1..Len(queue) : x = queue[i])
                 <=> (\E i \in 1..Len(queue') : x = queue'[i]) \/ x = serving'
    <2>1. ASSUME NEW i \in 1..Len(queue) PROVE i = 1 \/ (i - 1 \in 1..Len(queue') /\ queue'[i - 1] = queue[i])
      BY <1>2
    <2>2. ASSUME NEW i \in 1..Len(queue') PROVE i + 1 \in 1..Len(queue) /\ queue'[i] = queue[i + 1]
      BY <1>2
    <2>3. 1 \in 1..Len(queue)
      BY <1>2
    <2> QED
      BY <1>2, <2>1, <2>2, <2>3
  <1>4. serving' # NoPopup
    BY <1>2, PopupAssumption DEF NoPopup
  <1> QED
    BY <1>1, <1>3, <1>4 DEF Pending

\* The request whose page is added is no longer pending, and it was.
LEMMA PendingAnswered ==
  ASSUME IInv, AddPage
  PROVE  serving \in Pending /\ serving \in 1..MaxPopups /\ Pending' = Pending \ {serving}
  <1>1. /\ serving # NoPopup /\ serving \in 1..MaxPopups
        /\ serving' = NoPopup /\ queue' = queue
    BY PopupAssumption DEF IInv, TypeOK, WaitInv, AddPage, NoPopup
  <1>2. Len(queue) \in Nat /\ popups \in Nat
    BY PopupAssumption DEF IInv, TypeOK
  <1>3. \A i \in 1..Len(queue) : queue[i] # serving
    BY <1>1, <1>2 DEF IInv, QueueInv
  <1> QED
    BY <1>1, <1>3 DEF Pending

\* A page that is added answers whoever waits: the popup that has begun its call
\* holds the mutex until it waits, and one that waits is counted.
LEMMA AnswersWaiter ==
  ASSUME IInv, AddPage
  PROVE  /\ (posted' = 1) <=> Waiting
         /\ io \in {"idle", "status", "waiting", "expired"}
  <1>1. /\ io \in {"idle", "status", "waiting", "expired"}
        /\ waiters \in 0..1 /\ posted \in 0..1
    BY DEF IInv, TypeOK, WaitInv, AddPage
  <1>2. CASE io \in {"waiting", "expired"}
    <2>1. waiters + posted = 1
      BY <1>2 DEF IInv, WaitInv
    <2> QED
      BY <1>1, <1>2, <2>1 DEF AddPage, Waiting
  <1>3. CASE io \notin {"waiting", "expired"}
    <2>1. waiters + posted = 0
      BY <1>3 DEF IInv, WaitInv
    <2> QED
      BY <1>1, <1>3, <2>1 DEF AddPage, Waiting
  <1> QED
    BY <1>1, <1>2, <1>3

\* The notebook's step for each step of Popup.
LEMMA PromiseStep == IInv /\ [Next]_vars => [Promise!Next]_(Promise!notebookVars)
<1> SUFFICES ASSUME IInv, [Next]_vars PROVE [Promise!Next]_(Promise!notebookVars)
  OBVIOUS
<1>0. TypeOK /\ WaitInv /\ Pending = {queue[i] : i \in 1..Len(queue)} \cup ({serving} \ {NoPopup})
  BY DEF IInv, Pending
<1>1. CASE OnBeforePopup
  BY <1>0, <1>1, PendingGrows DEF OnBeforePopup, Pending, Promise!Next, Promise!RequestTab
<1>2. CASE BeginWait \/ Expire \/ ReportTimeout
  BY <1>2 DEF BeginWait, Expire, ReportTimeout, Promise!notebookVars
<1>3. CASE CountPages
  BY <1>0, <1>3 DEF CountPages, Promise!Next, Promise!CountTabs
<1>9. CASE GetPage
  <2>1. Promise!GetTab
    BY <1>0, <1>9 DEF GetPage, Promise!GetTab
  <2> QED
    BY <2>1 DEF Promise!Next
<1>10. CASE SetAsChild
  BY <1>0, <1>10 DEF SetAsChild, Shown, Promise!Next, Promise!GrantTab, Promise!Shown
<1>4. CASE GiveUp
  BY <1>0, <1>4 DEF GiveUp, Promise!Next, Promise!RefuseTab
<1>5. CASE AddTabWorker
  BY <1>0, <1>5, PendingTaken DEF AddTabWorker, Pending, Promise!notebookVars
<1>6. CASE AddPage
  <2>1. PICK p \in 1..MaxPopups : p = serving
    BY <1>6, PendingAnswered
  <2>2. Promise!AddTab(p)
    BY <1>6, <2>1, PendingAnswered, AnswersWaiter
    DEF AddPage, Pending, Waiting, Promise!AddTab
  <2> QED
    BY <2>2 DEF Promise!Next
<1>7. CASE OnCloseTab
  <2>1. PICK s \in 1..Len(pages) :
          pages' = [i \in 1..Len(pages) - 1 |-> IF i < s THEN pages[i] ELSE pages[i + 1]]
    BY <1>7 DEF OnCloseTab
  <2>2. Promise!CloseTab(s)
    BY <1>7, <2>1 DEF OnCloseTab, Promise!CloseTab, Promise!Without
  <2> QED
    BY <2>2 DEF Promise!Next
<1>8. CASE UNCHANGED vars
  BY <1>8 DEF vars, Promise!notebookVars
<1> QED
  BY <1>1, <1>2, <1>3, <1>4, <1>5, <1>6, <1>7, <1>8, <1>9, <1>10 DEF Next, IoStep, MainStep

\* ImplementsNotebook: for the rest of the browser the mutex, the condition and the
\* event queue come to what Notebook says, timeouts, relocking and tabs closed while
\* the page is taken included (OnBeforePopup, AddTabWorker, OnCloseTab).
THEOREM PopupImplementsNotebook == Spec => ImplementsNotebook
<1>1. Init => Promise!Init
  <2> SUFFICES ASSUME Init PROVE Promise!Init
    OBVIOUS
  <2>1. {queue[i] : i \in 1..Len(queue)} \cup ({serving} \ {NoPopup}) = {}
    BY DEF Init
  <2> QED
    BY <2>1 DEF Init, Promise!Init, Promise!NoPage, NoPage
<1> QED
  BY <1>1, InitInv, InvStep, PromiseStep, PTL DEF Spec, ImplementsNotebook, Promise!Spec

-----------------------------------------------------------------------------
(***************************************************************************)
(* How far requests and pages can be apart.                                *)
(***************************************************************************)
\* An event the queue holds beyond those of the popup that is waiting was left by
\* one that timed out.
OutstandingInv ==
  /\ expired \subseteq 1..popups /\ (Called => popups \notin expired)
  /\ Outstanding <= Cardinality(expired) + (IF Waiting /\ posted = 0 THEN 1 ELSE 0)
  /\ io = "status" => expired # {}

LEMMA FiniteBelow ==
  ASSUME NEW n \in Nat, NEW S, S \subseteq 1..n
  PROVE  IsFiniteSet(S) /\ Cardinality(S) \in Nat
  <1>1. IsFiniteSet(1..n)
    BY FS_Interval
  <1>2. IsFiniteSet(S)
    BY <1>1, FS_Subset
  <1> QED
    BY <1>2, FS_CardinalityType

LEMMA OutstandingType ==
  ASSUME IInv
  PROVE  /\ Outstanding \in Nat /\ popups \in Nat /\ Len(queue) \in Nat
         /\ \A S : S \subseteq 1..popups => IsFiniteSet(S) /\ Cardinality(S) \in Nat
  <1>1. Outstanding \in Nat /\ popups \in Nat /\ Len(queue) \in Nat
    BY PopupAssumption DEF IInv, TypeOK, Outstanding
  <1> QED
    BY <1>1, FiniteBelow

\* What each step does to the requests, the timeouts and the wait.
Requests == OnBeforePopup /\ Outstanding' = Outstanding + 1 /\ expired' = expired
            /\ popups' = popups + 1
Answers  == AddPage /\ Outstanding' = Outstanding - 1 /\ expired' = expired /\ popups' = popups
Counts   == CountPages /\ Outstanding' = Outstanding /\ expired' = expired /\ popups' = popups
Grants   == GetPage /\ io' = "got" /\ Outstanding' = Outstanding /\ expired' = expired
            /\ popups' = popups
Refuses  == GiveUp /\ Outstanding' = Outstanding /\ expired' = expired \cup {popups}
            /\ popups' = popups
Others   == /\ UNCHANGED <<Outstanding, expired, popups, posted, granted>>
            /\ closes' = 0 => UNCHANGED <<pages, closes>>
            /\ Waiting' = Waiting /\ (io' = "status" => io = "status")
            /\ Called' => Called
            /\ io' = "counted" => io = "counted" /\ index' = index

LEMMA RequestStep ==
  IInv /\ [Next]_vars => Requests \/ Answers \/ Counts \/ Grants \/ Refuses \/ Others
<1> SUFFICES ASSUME IInv, [Next]_vars
             PROVE  Requests \/ Answers \/ Counts \/ Grants \/ Refuses \/ Others
  OBVIOUS
<1>0. /\ queue \in Seq(1..MaxPopups) /\ Len(queue) \in Nat
      /\ (main = "locking" <=> serving # NoPopup) /\ closes \in Nat
  BY DEF IInv, TypeOK, WaitInv
<1>1. CASE OnBeforePopup
  <2>1. popups + 1 \in 1..MaxPopups
    BY <1>1, PopupAssumption DEF IInv, TypeOK, OnBeforePopup
  <2>2. Len(queue') = Len(queue) + 1
    BY <1>0, <1>1, <2>1, AppendFacts DEF OnBeforePopup
  <2> QED
    BY <1>0, <1>1, <2>2 DEF OnBeforePopup, Requests, Outstanding
<1>2. CASE BeginWait \/ Expire \/ ReportTimeout \/ OnCloseTab \/ SetAsChild \/ UNCHANGED vars
  BY <1>0, <1>2 DEF BeginWait, Expire, ReportTimeout, OnCloseTab, SetAsChild, vars, Others,
                    Outstanding, Waiting, Called
<1>3. CASE CountPages
  BY <1>3 DEF CountPages, Counts, Outstanding
<1>7. CASE GetPage
  <2>1. Outstanding' = Outstanding
    BY <1>7 DEF GetPage, Outstanding
  <2> QED
    BY <1>7, <2>1 DEF GetPage, Grants, Others, Waiting, Called
<1>4. CASE GiveUp
  BY <1>4 DEF GiveUp, Refuses, Outstanding
<1>5. CASE AddTabWorker
  <2>1. Len(queue') = Len(queue) - 1 /\ serving' \in 1..MaxPopups
    BY <1>0, <1>5, TailFacts DEF AddTabWorker
  <2>2. serving' # NoPopup
    BY <2>1, PopupAssumption DEF NoPopup
  <2>3. Outstanding' = Outstanding
    BY <1>0, <1>5, <2>1, <2>2 DEF AddTabWorker, Outstanding
  <2> QED
    BY <1>5, <2>3 DEF AddTabWorker, Others, Waiting, Called
<1>6. CASE AddPage
  BY <1>0, <1>6 DEF AddPage, Answers, Outstanding
<1> QED
  BY <1>1, <1>2, <1>3, <1>4, <1>5, <1>6, <1>7 DEF Next, IoStep, MainStep

LEMMA OutstandingStep == IInv /\ OutstandingInv /\ [Next]_vars => OutstandingInv'
<1> SUFFICES ASSUME IInv, OutstandingInv, [Next]_vars PROVE OutstandingInv'
  OBVIOUS
<1>0. /\ Outstanding \in Nat /\ popups \in Nat /\ Cardinality(expired) \in Nat
      /\ IsFiniteSet(expired) /\ posted \in 0..1
      /\ expired \subseteq 1..popups /\ (Called => popups \notin expired)
      /\ Outstanding <= Cardinality(expired) + (IF Waiting /\ posted = 0 THEN 1 ELSE 0)
  BY OutstandingType DEF OutstandingInv, IInv, TypeOK
<1>1. CASE Requests
  <2>1. posted' = 0 /\ posted = 0 /\ ~Waiting /\ Waiting' /\ io' # "status"
    BY <1>1 DEF Requests, OnBeforePopup, Waiting, IInv, TypeOK, WaitInv
  <2>2. popups' \notin expired'
    BY <1>0, <1>1 DEF Requests
  <2> QED
    BY <1>0, <1>1, <2>1, <2>2 DEF Requests, OutstandingInv
<1>2. CASE Answers
  <2>1. ((posted' = 1) <=> Waiting) /\ Waiting' = Waiting /\ Called' = Called /\ io' = io
    BY <1>2, AnswersWaiter DEF Answers, AddPage, Waiting, Called
  <2> QED
    BY <1>0, <1>2, <2>1 DEF Answers, OutstandingInv
<1>3. CASE Counts
  <2>1. posted = 1 /\ ~Waiting' /\ io' # "status" /\ Called
    BY <1>3 DEF Counts, CountPages, Waiting, Called
  <2> QED
    BY <1>0, <1>3, <2>1 DEF Counts, OutstandingInv
<1>6. CASE Grants
  <2>1. posted' = posted /\ ~Waiting /\ ~Waiting' /\ io' # "status" /\ Called
    BY <1>6 DEF Grants, GetPage, Waiting, Called
  <2> QED
    BY <1>0, <1>6, <2>1 DEF Grants, OutstandingInv
<1>4. CASE Refuses
  <2>1. Waiting /\ Called /\ posted = 0 /\ ~Waiting' /\ ~Called' /\ popups > 0
    BY <1>4 DEF Refuses, GiveUp, Waiting, Called, IInv, WaitInv
  <2>2. Cardinality(expired') = Cardinality(expired) + 1
    BY <1>0, <1>4, <2>1, FS_AddElement DEF Refuses
  <2> QED
    BY <1>0, <1>4, <2>1, <2>2 DEF Refuses, OutstandingInv
<1>5. CASE Others
  BY <1>0, <1>5 DEF Others, OutstandingInv
<1> QED
  BY <1>1, <1>2, <1>3, <1>4, <1>5, <1>6, RequestStep

LEMMA OutstandingInit == Init => OutstandingInv
  BY FS_EmptySet DEF Init, OutstandingInv, Outstanding, Waiting, Called

\* Where a second lock is not counted, and for the first popup anyway, the mutex is
\* held once at most, and not during the wait.
OnceInv ==
  popups <= 1 \/ "counted" \notin Relock =>
    /\ held <= 1 /\ (io \in {"waiting", "expired"} \/ popups = 0 => held = 0)

LEMMA OnceStep == IInv /\ OnceInv /\ [Next]_vars => OnceInv'
<1> SUFFICES ASSUME IInv, OnceInv, [Next]_vars,
                    popups' <= 1 \/ "counted" \notin Relock
             PROVE  /\ held' <= 1
                    /\ (io' \in {"waiting", "expired"} \/ popups' = 0 => held' = 0)
  BY DEF OnceInv
<1>0. held \in Nat /\ popups \in Nat /\ (io # "idle" => popups > 0)
  BY PopupAssumption DEF IInv, TypeOK, WaitInv
<1>1. ASSUME held \in 0..1, "counted" \notin Relock \/ held = 0
      PROVE  \A h \in Locked(held) : h = 1
  BY <1>1 DEF Locked
<1>2. CASE OnBeforePopup
  <2>1. held \in 0..1 /\ ("counted" \notin Relock \/ held = 0) /\ popups' # 0
    BY <1>0, <1>2 DEF OnBeforePopup, OnceInv
  <2> QED
    BY <1>1, <1>2, <2>1 DEF OnBeforePopup
<1>3. CASE BeginWait
  BY <1>0, <1>3 DEF BeginWait, OnceInv, IInv, WaitInv
<1>4. CASE CountPages \/ GiveUp
  <2>1. held = 0 /\ popups' = popups /\ popups' # 0
    BY <1>0, <1>4 DEF CountPages, GiveUp, OnceInv
  <2> QED
    BY <1>1, <1>4, <2>1 DEF CountPages, GiveUp
<1>5. CASE /\ UNCHANGED <<held, popups>>
           /\ io' \in {"waiting", "expired"} => io \in {"waiting", "expired"}
  BY <1>0, <1>5 DEF OnceInv
<1> QED
  BY <1>2, <1>3, <1>4, <1>5
  DEF Next, IoStep, MainStep, Expire, ReportTimeout, GetPage, SetAsChild, AddTabWorker,
      AddPage, OnCloseTab, vars

\* BlockedOnlyAfterTimeout holds in every reachable state: a main thread that locks
\* tab_mutex serves a request; with no popup waiting it is one of a popup that has
\* timed out, and a wait that keeps the mutex is that of a later popup, relocking.
THEOREM BlockedCorrect == Spec => []BlockedOnlyAfterTimeout
<1>1. IInv /\ OutstandingInv /\ OnceInv => BlockedOnlyAfterTimeout
  <2> SUFFICES ASSUME IInv, OutstandingInv, OnceInv, Blocked, expired = {}
               PROVE  WaitKeepsMutex /\ "counted" \in Relock /\ popups > 1
    BY DEF BlockedOnlyAfterTimeout
  <2>0. held \in Nat /\ popups \in Nat
    BY PopupAssumption DEF IInv, TypeOK
  <2>1. CASE Waiting
    <3>1. WaitKeepsMutex
      BY <2>0, <2>1 DEF Blocked, WaitKeepsMutex, Waiting
    <3> QED
      BY <2>0, <3>1 DEF WaitKeepsMutex, OnceInv
  <2>2. CASE ~Waiting
    <3>1. Len(queue) \in Nat /\ serving # NoPopup
      BY DEF Blocked, IInv, TypeOK, WaitInv
    <3>2. Outstanding > 0
      BY <3>1 DEF Outstanding
    <3>3. Outstanding \in Nat /\ Cardinality(expired) = 0 /\ Outstanding <= 0
      <4>1. Outstanding \in Nat /\ Cardinality(expired) = 0
        BY OutstandingType, FS_EmptySet
      <4> QED
        BY <2>2, <4>1 DEF OutstandingInv
    <3> QED
      BY <3>2, <3>3
  <2> QED
    BY <2>1, <2>2
<1>2. Init => OnceInv
  BY DEF Init, OnceInv
<1> QED
  BY <1>1, <1>2, InitInv, InvStep, OutstandingInit, OutstandingStep, OnceStep, PTL DEF Spec

-----------------------------------------------------------------------------
(***************************************************************************)
(* Which page a popup is given while no tab is closed.                     *)
(***************************************************************************)
\* The popups that had timed out before popup p.
EarlierTimeouts(p) == {q \in expired : q < p}

\* A page was added that the current popup has yet to be given.
Fresh == IF posted = 1 \/ io = "counted" THEN 1 ELSE 0

\* What is known of the page of popup p: it is older than the fresh one.
PageOf(p) ==
  /\ granted[p] \in 1..(Len(pages) - 1 - Fresh)
  /\ \A q \in 1..MaxPopups : granted[p] = granted[q] => p = q
  /\ p <= popups /\ granted[p] <= p
  /\ p - granted[p] <= Cardinality(EarlierTimeouts(p))

\* The notebook holds the first tab and the pages of all requests but those
\* outstanding, in order.
PageInv ==
  closes = 0 =>
    /\ Len(pages) + Outstanding = popups + 1
    /\ \A i \in 1..Len(pages) : pages[i] = i - 1
    /\ Len(pages) > Fresh /\ (io = "counted" => index = Len(pages))
    /\ \A p \in 1..MaxPopups : granted[p] # NoPage => PageOf(p)

LEMMA EarlierType ==
  ASSUME IInv, OutstandingInv, NEW p
  PROVE  Cardinality(EarlierTimeouts(p)) \in Nat
  BY OutstandingType DEF EarlierTimeouts, OutstandingInv

\* Earlier timeouts are not forgotten.
LEMMA EarlierGrows ==
  ASSUME IInv, OutstandingInv, [Next]_vars, NEW p
  PROVE  Cardinality(EarlierTimeouts(p)) <= Cardinality(EarlierTimeouts(p)')
  <1>1. IInv' /\ OutstandingInv'
    BY InvStep, OutstandingStep
  <1>2. expired \subseteq expired'
    BY RequestStep DEF Requests, Answers, Counts, Grants, Refuses, Others
  <1>3. EarlierTimeouts(p) \subseteq EarlierTimeouts(p)'
    BY <1>2 DEF EarlierTimeouts
  <1>4. EarlierTimeouts(p)' \subseteq 1..popups'
    BY <1>1 DEF OutstandingInv, EarlierTimeouts
  <1>5. popups' \in Nat
    BY <1>1, OutstandingType, PopupAssumption DEF IInv, TypeOK
  <1>6. IsFiniteSet(EarlierTimeouts(p)')
    BY <1>4, <1>5, FiniteBelow
  <1> QED
    BY <1>3, <1>6, FS_Subset

\* A page that is kept is kept with what is known of it.
LEMMA PageKept ==
  ASSUME IInv, OutstandingInv, [Next]_vars, NEW p \in 1..MaxPopups, PageOf(p),
         granted' = granted, popups' >= popups,
         Len(pages') - Fresh' >= Len(pages) - Fresh, Len(pages') \in Nat
  PROVE  PageOf(p)'
  <1>1. /\ Len(pages) \in Nat /\ Fresh \in 0..1 /\ Fresh' \in 0..1 /\ popups \in Nat
        /\ popups' \in Nat
    BY InvStep, PopupAssumption, LastPageFacts DEF IInv, TypeOK, Fresh
  <1>2. /\ Cardinality(EarlierTimeouts(p)) \in Nat /\ Cardinality(EarlierTimeouts(p)') \in Nat
        /\ Cardinality(EarlierTimeouts(p)) <= Cardinality(EarlierTimeouts(p)')
    <2>1. OutstandingInv' /\ IInv'
      BY InvStep, OutstandingStep
    <2>2. EarlierTimeouts(p)' \subseteq 1..popups'
      BY <2>1 DEF OutstandingInv, EarlierTimeouts
    <2> QED
      BY <1>1, <2>2, FiniteBelow, EarlierType, EarlierGrows
  <1>3. granted'[p] = granted[p] /\ granted[p] \in Nat
    BY DEF PageOf
  <1>4. granted'[p] \in 1..(Len(pages') - 1 - Fresh')
    BY <1>1, <1>3 DEF PageOf
  <1>5. p - granted'[p] <= Cardinality(EarlierTimeouts(p)')
    BY <1>2, <1>3 DEF PageOf
  <1> QED
    BY <1>1, <1>3, <1>4, <1>5 DEF PageOf

LEMMA PageStep == IInv /\ OutstandingInv /\ PageInv /\ [Next]_vars => PageInv'
<1> SUFFICES ASSUME IInv, OutstandingInv, PageInv, [Next]_vars, closes' = 0
             PROVE  /\ Len(pages') + Outstanding' = popups' + 1
                    /\ \A i \in 1..Len(pages') : pages'[i] = i - 1
                    /\ Len(pages') > Fresh' /\ (io' = "counted" => index' = Len(pages'))
                    /\ \A p \in 1..MaxPopups : granted'[p] # NoPage => PageOf(p)'
  BY DEF PageInv, NoPage
<1>0. /\ Outstanding \in Nat /\ popups \in Nat /\ Len(queue) \in Nat
      /\ Len(pages) \in Nat \ {0} /\ posted \in 0..1 /\ posted' \in 0..1
      /\ Fresh \in 0..1 /\ Fresh' \in 0..1 /\ Cardinality(expired) \in Nat
  <2>1. IInv' /\ TypeOK /\ expired \subseteq 1..popups
    BY InvStep DEF IInv, OutstandingInv
  <2>2. posted \in 0..1 /\ posted' \in 0..1
    BY <2>1 DEF IInv, TypeOK
  <2>3. Fresh \in 0..1 /\ Fresh' \in 0..1
    BY DEF Fresh
  <2> QED
    BY <2>1, <2>2, <2>3, OutstandingType, LastPageFacts
<1>1. /\ closes = 0 /\ Len(pages) + Outstanding = popups + 1
      /\ \A i \in 1..Len(pages) : pages[i] = i - 1
      /\ Len(pages) > Fresh /\ (io = "counted" => index = Len(pages))
      /\ \A p \in 1..MaxPopups : granted[p] # NoPage => PageOf(p)
  <2>1. closes = 0
    BY RequestStep DEF Requests, OnBeforePopup, Answers, AddPage, Counts, CountPages,
                       Grants, GetPage, Refuses, GiveUp, Others
  <2> QED
    BY <2>1 DEF PageInv
<1>2. CASE Requests \/ Counts \/ Refuses \/ Others
  <2>1. /\ UNCHANGED <<pages, granted>> /\ popups' - Outstanding' = popups - Outstanding
        /\ popups' >= popups /\ popups' \in Nat /\ Outstanding' \in Nat
    BY <1>0, <1>2 DEF Requests, OnBeforePopup, Counts, CountPages, Refuses, GiveUp, Others
  <2>4. Fresh' <= Fresh /\ (io' = "counted" => index' = Len(pages))
    BY <1>1, <1>2 DEF Requests, OnBeforePopup, Counts, CountPages, Refuses, GiveUp, Others, Fresh
  <2>2. \A p \in 1..MaxPopups : granted'[p] # NoPage => PageOf(p)'
    BY <1>0, <1>1, <2>1, <2>4, PageKept
  <2>3. Len(pages') + Outstanding' = popups' + 1
    <3>1. Len(pages') = Len(pages) /\ Len(pages) \in Int /\ Outstanding \in Int /\ popups \in Int
      BY <1>0, <2>1
    <3>2. \/ Outstanding' = Outstanding + 1 /\ popups' = popups + 1
          \/ Outstanding' = Outstanding /\ popups' = popups
      BY <1>2 DEF Requests, Counts, Refuses, Others
    <3> QED
      BY <1>1, <3>1, <3>2
  <2> QED
    BY <1>0, <1>1, <2>1, <2>2, <2>3, <2>4
<1>3. CASE Answers
  <2>1. /\ pages' = Append(pages, serving) /\ granted' = granted /\ popups' = popups
        /\ Outstanding' = Outstanding - 1 /\ serving # NoPopup
    BY <1>3 DEF Answers, AddPage, IInv, WaitInv
  <2>2. serving = Len(pages)
    BY <1>0, <1>1, <2>1 DEF IInv, QueueInv, Outstanding
  <2>3. /\ Len(pages') = Len(pages) + 1
        /\ \A i \in 1..Len(pages) : pages'[i] = pages[i]
        /\ pages'[Len(pages) + 1] = serving
    <3>1. pages \in Seq(0..MaxPopups) /\ serving \in 0..MaxPopups
      BY DEF IInv, TypeOK
    <3> QED
      BY <2>1, <3>1, AppendFacts
  <2>4. \A i \in 1..Len(pages') : pages'[i] = i - 1
    BY <1>0, <1>1, <2>2, <2>3
  <2>5. \A p \in 1..MaxPopups : granted'[p] # NoPage => PageOf(p)'
    BY <1>0, <1>1, <2>1, <2>3, PageKept
  <2>6. io' # "counted"
    BY <1>3, AnswersWaiter DEF Answers, AddPage
  <2> QED
    BY <1>0, <1>1, <2>1, <2>3, <2>4, <2>5, <2>6
<1>4. CASE Grants
  <2>1. /\ UNCHANGED <<pages, Outstanding, popups, expired>> /\ Fresh = 1 /\ Fresh' = 0
        /\ granted' = [granted EXCEPT ![popups] = LastPage] /\ popups > 0 /\ Called /\ ~Waiting
        /\ io' # "counted"
    BY <1>1, <1>4 DEF Grants, GetPage, IInv, TypeOK, WaitInv, Waiting, Called, Fresh, LastPage
  <2>2. /\ popups \in 1..MaxPopups /\ granted \in [1..MaxPopups -> 0..NoPage]
        /\ MaxPopups \in Nat /\ LastPage \in 0..MaxPopups
    BY <1>0, <2>1, LastPageFacts, PopupAssumption DEF IInv, TypeOK
  <2>3. /\ granted'[popups] = LastPage /\ LastPage # NoPage
        /\ \A p \in 1..MaxPopups : p # popups => granted'[p] = granted[p]
    BY <2>1, <2>2 DEF NoPage
  <2>4. LastPage = Len(pages) - 1 /\ LastPage = popups - Outstanding /\ LastPage > 0
    BY <1>0, <1>1, <2>1 DEF LastPage
  <2>5. \A p \in 1..MaxPopups : granted[p] # NoPage =>
          granted[p] \in 1..(Len(pages) - 2) /\ granted[p] # LastPage
    BY <1>0, <1>1, <2>1, <2>4 DEF PageOf
  <2>6. \A p \in 1..MaxPopups : EarlierTimeouts(p)' = EarlierTimeouts(p)
    BY <2>1 DEF EarlierTimeouts
  <2>7. ASSUME NEW p \in 1..MaxPopups, granted'[p] # NoPage PROVE PageOf(p)'
    <3>1. CASE p = popups
      <4>1. EarlierTimeouts(p)' = expired
        <5>1. \A q \in expired : q \in 1..popups /\ q # popups
          BY <2>1 DEF OutstandingInv
        <5>2. \A q \in expired : q < p
          BY <1>0, <3>1, <5>1
        <5> QED
          BY <2>1, <5>2 DEF EarlierTimeouts
      <4>2. Outstanding <= Cardinality(expired)
        BY <1>0, <2>1 DEF OutstandingInv
      <4>3. p - granted'[p] <= Cardinality(EarlierTimeouts(p)')
        <5>1. p - granted'[p] = Outstanding
          BY <1>0, <2>3, <2>4, <3>1
        <5> QED
          BY <4>1, <4>2, <5>1
      <4>4. \A q \in 1..MaxPopups : granted'[p] = granted'[q] => p = q
        BY <2>3, <2>5, <3>1
      <4> QED
        BY <1>0, <2>1, <2>3, <2>4, <3>1, <4>3, <4>4 DEF PageOf
    <3>2. CASE p # popups
      <4>1. PageOf(p) /\ granted'[p] = granted[p]
        BY <1>1, <2>3, <2>7, <3>2
      <4>2. \A q \in 1..MaxPopups : granted'[p] = granted'[q] => p = q
        BY <2>3, <2>5, <2>7, <3>2, <4>1 DEF PageOf
      <4>3. granted'[p] \in 1..(Len(pages') - 1 - Fresh')
        BY <1>0, <2>1, <4>1 DEF PageOf
      <4> QED
        BY <2>1, <2>6, <4>1, <4>2, <4>3 DEF PageOf
    <3> QED
      BY <3>1, <3>2
  <2> QED
    BY <1>0, <1>1, <2>1, <2>7
<1> QED
  BY <1>2, <1>3, <1>4, RequestStep

LEMMA PageInit == Init => PageInv
<1> SUFFICES ASSUME Init PROVE PageInv
  OBVIOUS
<1>1. Len(pages) = 1 /\ pages[1] = 0 /\ Outstanding = 0
  BY DEF Init, Outstanding
<1>2. \A p \in 1..MaxPopups : granted[p] = NoPage
  BY DEF Init
<1> QED
  BY <1>1, <1>2 DEF Init, PageInv, Fresh

\* The whole invariant.
FullInv == IInv /\ OutstandingInv /\ PageInv

LEMMA FullInvariant == Spec => []FullInv
  BY InitInv, InvStep, OutstandingInit, OutstandingStep, PageInit, PageStep, PTL
  DEF Spec, FullInv

\* NoPageShared holds in every reachable state (AddTabWorker and the return of
\* OnBeforePopup): a granted page is newer than all those granted before.
THEOREM NoPageSharedCorrect == Spec => []NoPageShared
<1>1. FullInv => NoPageShared
  <2> SUFFICES ASSUME FullInv, closes = 0, NEW p \in 1..MaxPopups, NEW q \in 1..MaxPopups,
                      granted[p] # NoPage
               PROVE  granted[p] # 0 /\ (granted[p] = granted[q] => p = q)
    BY DEF NoPageShared
  <2>1. PageOf(p)
    BY DEF FullInv, PageInv
  <2> QED
    BY <2>1 DEF PageOf
<1> QED
  BY <1>1, FullInvariant, PTL

\* LagBoundedByTimeouts holds in every reachable state: a popup is given the page of
\* an earlier one at most as many popups back as have timed out before it.
THEOREM LagCorrect == Spec => []LagBoundedByTimeouts
<1>1. FullInv => LagBoundedByTimeouts
  BY DEF FullInv, PageInv, PageOf, EarlierTimeouts, LagBoundedByTimeouts
<1> QED
  BY <1>1, FullInvariant, PTL

\* What is known of the page being taken while no tab is closed.
PageKnown ==
  ~raced => /\ io = "counted" => index = Len(pages)
            /\ io = "got" => Shown(granted[popups])
            /\ io # "gone"

\* PageThere holds in every reachable state: while the page is taken no page is
\* added, so only a tab closed in between makes GetPage fail (cef_handler.cpp:121).
THEOREM PageThereCorrect == Spec => []PageThere
<1>1. IInv /\ PageKnown /\ [Next]_vars => PageKnown'
  <2> SUFFICES ASSUME IInv, PageKnown, [Next]_vars PROVE PageKnown'
    OBVIOUS
  <2>1. CASE CountPages
    BY <2>1 DEF CountPages, PageKnown
  <2>2. CASE GetPage
    <3>1. Len(pages) \in 1..Len(pages) /\ popups \in 1..MaxPopups
      BY <2>2, LastPageFacts, PopupAssumption DEF GetPage, IInv, TypeOK, WaitInv
    <3>2. granted' = [granted EXCEPT ![popups] = pages[index]] => granted'[popups] = pages[index]
      BY <3>1 DEF IInv, TypeOK
    <3> QED
      BY <2>2, <3>1, <3>2 DEF GetPage, PageKnown, Shown
  <2>3. CASE SetAsChild
    BY <2>3 DEF SetAsChild, PageKnown
  <2>4. CASE AddPage
    BY <2>4, AnswersWaiter DEF AddPage, PageKnown
  <2>5. CASE OnCloseTab
    BY <2>5 DEF OnCloseTab, PageKnown
  <2>6. CASE OnBeforePopup \/ BeginWait \/ Expire \/ GiveUp \/ ReportTimeout
    BY <2>6 DEF OnBeforePopup, BeginWait, Expire, GiveUp, ReportTimeout, PageKnown
  <2>7. CASE AddTabWorker \/ UNCHANGED vars
    BY <2>7 DEF AddTabWorker, vars, PageKnown, Shown
  <2> QED
    BY <2>1, <2>2, <2>3, <2>4, <2>5, <2>6, <2>7 DEF Next, IoStep, MainStep
<1>2. Init => PageKnown
  BY DEF Init, PageKnown
<1>3. PageKnown => PageThere
  BY DEF PageKnown, PageThere
<1> QED
  BY <1>1, <1>2, <1>3, InitInv, InvStep, PTL DEF Spec
=============================================================================

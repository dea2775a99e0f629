------------------------------ MODULE Notebook ------------------------------
(***************************************************************************)
(* What the handshake of OnBeforePopup and AddTabWorker promises to the     *)
(* rest of the browser, without its mutex, condition and event queue: one   *)
(* page is added for each request, late or not; once a page was added for   *)
(* it to see, the popup counts the pages, asks for the last and becomes its *)
(* child, and no page is added meanwhile.  Tabs are closed at any time, in  *)
(* those three steps too: then the page is NULL or deleted, and the program *)
(* ends.                                                                   *)
(***************************************************************************)
EXTENDS Naturals, Sequences

CONSTANTS
  MaxPopups,   \* bound on the popups opened
  MaxCloses    \* bound on the tabs closed

VARIABLES
  pages,     \* the notebook; 0 is the first tab, p the tab made for popup p
  pending,   \* requests for which no page has been added yet
  popups,    \* number of popups so far; the last one is the current one
  waiting,   \* the current popup has not been given its page, nor refused
  answered,  \* a page was added since it began to wait
  taking,    \* it has "counted" the pages, or "got" one, or found it "gone"
  index,     \* the place of the page it asks for
  granted,   \* the page each popup was given
  closes     \* number of tabs closed

notebookVars == <<pages, pending, popups, waiting, answered, taking, index, granted, closes>>

NoPage == MaxPopups + 1

\* The sequence without its s-th element.
Without(seq, s) ==
  [i \in 1..Len(seq) - 1 |-> IF i < s THEN seq[i] ELSE seq[i + 1]]

\* The page has not been deleted.
Shown(page) == \E i \in 1..Len(pages) : pages[i] = page

Init ==
  /\ pages = <<0>> /\ pending = {} /\ popups = 0 /\ closes = 0
  /\ waiting = FALSE /\ answered = FALSE
  /\ taking = "no" /\ index = 0
  /\ granted = [p \in 1..MaxPopups |-> NoPage]

RequestTab ==
  /\ ~waiting /\ popups < MaxPopups
  /\ popups' = popups + 1
  /\ pending' = pending \cup {popups + 1}
  /\ waiting' = TRUE
  /\ UNCHANGED <<pages, answered, taking, index, granted, closes>>

AddTab(p) ==
  /\ p \in pending /\ taking = "no"
  /\ pages' = Append(pages, p)
  /\ pending' = pending \ {p}
  /\ answered' = waiting
  /\ UNCHANGED <<popups, waiting, taking, index, granted, closes>>

CountTabs ==
  /\ waiting /\ answered
  /\ answered' = FALSE
  /\ taking' = "counted" /\ index' = Len(pages)
  /\ UNCHANGED <<pages, pending, popups, waiting, granted, closes>>

GetTab ==
  /\ taking = "counted"
  /\ IF index \in 1..Len(pages)
     THEN taking' = "got" /\ granted' = [granted EXCEPT ![popups] = pages[index]]
     ELSE taking' = "gone" /\ UNCHANGED granted
  /\ index' = 0
  /\ UNCHANGED <<pages, pending, popups, waiting, answered, closes>>

GrantTab ==
  /\ waiting /\ taking = "got"
  /\ IF Shown(granted[popups])
     THEN taking' = "no" /\ waiting' = FALSE
     ELSE taking' = "gone" /\ UNCHANGED waiting
  /\ UNCHANGED <<pages, pending, popups, answered, index, granted, closes>>

\* The ten seconds are over; the request stays.
RefuseTab ==
  /\ waiting /\ ~answered /\ taking = "no"
  /\ waiting' = FALSE
  /\ UNCHANGED <<pages, pending, popups, answered, taking, index, granted, closes>>

CloseTab(s) ==
  /\ taking # "gone"
  /\ closes < MaxCloses
  /\ Len(pages) > 1
  /\ pages' = Without(pages, s)
  /\ closes' = closes + 1
  /\ UNCHANGED <<pending, popups, waiting, answered, taking, index, granted>>

Next ==
  \/ RequestTab \/ CountTabs \/ GetTab \/ GrantTab \/ RefuseTab
  \/ \E p \in 1..MaxPopups : AddTab(p)
  \/ \E s \in 1..Len(pages) : CloseTab(s)

Spec == Init /\ [][Next]_notebookVars
=============================================================================

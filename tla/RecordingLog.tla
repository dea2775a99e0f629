---------------------------- MODULE RecordingLog ----------------------------
(***************************************************************************)
(* What the recorder promises of its action list, whatever the threads do: *)
(* a script is opened, erased, grown one action at a time and closed, and   *)
(* after it is closed each of the other threads that push adds one          *)
(* straggling action to it at most.  Nothing is ever removed or reordered   *)
(* except by erasing everything.                                           *)
(***************************************************************************)
EXTENDS Naturals, Sequences

CONSTANT Stragglers   \* the threads that may push while the script is closed

VARIABLES
  phase,      \* "off"; "opening", started but not yet erased; or "on"
  log,        \* the recorded actions
  straggled   \* those of them whose straggler the closed script has taken

logVars == <<phase, log, straggled>>

\* log' is log with one more element, of any value.
Grows ==
  /\ Len(log') = Len(log) + 1
  /\ log' = Append(log, log'[Len(log) + 1])

Init ==
  /\ phase = "off" /\ log = <<>> /\ straggled = {}

Open ==
  /\ phase = "off"
  /\ phase' = "opening"
  /\ UNCHANGED <<log, straggled>>

Erase ==
  /\ phase = "opening"
  /\ phase' = "on"
  /\ log' = <<>>
  /\ straggled' = {}

Note ==
  /\ phase # "off"
  /\ Grows
  /\ UNCHANGED <<phase, straggled>>

Close ==
  /\ phase = "on"
  /\ phase' = "off"
  /\ UNCHANGED <<log, straggled>>

Straggle ==
  /\ phase = "off"
  /\ Grows
  /\ \E t \in Stragglers \ straggled : straggled' = straggled \cup {t}
  /\ UNCHANGED phase

Next == Open \/ Erase \/ Note \/ Close \/ Straggle

Spec == Init /\ [][Next]_logVars
=============================================================================

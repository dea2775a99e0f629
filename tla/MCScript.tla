------------------------------ MODULE MCScript ------------------------------
(***************************************************************************)
(* Instances of Script for TLC: the left button with and without Control, a *)
(* move while it is down, a wheel, a message the hook does not know, keys   *)
(* that make a character, a negative one and none; a file with every kind   *)
(* of action and one that is not known.                                    *)
(***************************************************************************)
EXTENDS Script

Mouse(wp, delta, keys) ==
  [dev |-> "mouse", wp |-> wp, x |-> 3, y |-> 5, delta |-> delta, keys |-> keys]
Key(wp, up, text) == [dev |-> "key", wp |-> wp, up |-> up, text |-> text]

MCMessages == {
  Mouse(WM_LBUTTONDOWN, 0, {"LBUTTON", "CONTROL"}), Mouse(WM_LBUTTONUP, 0, {}),
  Mouse(WM_MOUSEMOVE, 0, {"LBUTTON"}), Mouse(WM_MOUSEWHEEL, 120, {}),
  Mouse(WM_RBUTTONDOWN, 0, {"RBUTTON"}),
  Key(65, FALSE, <<97>>), Key(65, TRUE, <<97>>), Key(66, FALSE, <<98>>),
  Key(222, FALSE, <<228>>), Key(16, FALSE, <<>>)}

MCKeys == {Key(65, FALSE, <<97>>), Key(65, TRUE, <<97>>)}

ForeignActions(last) ==
  <<[type |-> "resize", width |-> 800, height |-> 600, time |-> 7],
    [type |-> "screenshot", file |-> "a.jpeg", time |-> 8],
    [type |-> "click", x |-> 1, y |-> 2, wp |-> WM_RBUTTONDOWN, time |-> 9],
    [type |-> last, x |-> 1, y |-> 2, wp |-> WM_RBUTTONUP, time |-> 9]>>

\* The second document lacks "events", which only the schema asks for.
MCForeign == {
  [start_time |-> 7, start_url |-> "foreign", events |-> <<>>, actions |-> ForeignActions("click")],
  [start_time |-> 7, start_url |-> "foreign", actions |-> ForeignActions("drag")]}
MCNone    == {}
MCLive    == {{}, {"SHIFT", "ALT"}}
MCQuiet   == {{}}
=============================================================================

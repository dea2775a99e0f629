----------------------------- MODULE MCRecorder -----------------------------
(***************************************************************************)
(* Instances of Recorder for TLC.  A script file is a short sequence of     *)
(* items; MCScripts are files the recorder could have written and one with  *)
(* an item it does not know.                                               *)
(***************************************************************************)
EXTENDS Recorder

MCScripts == {<<"action">>, <<"action", "screenshot">>, <<"action", "unknown">>}
MCNoScripts == {}
=============================================================================

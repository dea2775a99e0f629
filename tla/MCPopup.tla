------------------------------ MODULE MCPopup ------------------------------
(***************************************************************************)
(* Instances of Popup for TLC: the outcomes of locking an owned wxMutex.    *)
(***************************************************************************)
EXTENDS Popup

MCRefused == {"refused"}
MCAny == {"refused", "counted"}
=============================================================================

------------------------------ MODULE MCReplay ------------------------------
(***************************************************************************)
(* Instances of Replay for TLC.                                            *)
(***************************************************************************)
EXTENDS Replay

MCPlain == {"plain"}
MCAll   == {"plain", "resize"}
=============================================================================

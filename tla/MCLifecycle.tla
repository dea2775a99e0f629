---------------------------- MODULE MCLifecycle ----------------------------
(***************************************************************************)
(* The instance of Lifecycle for TLC is given by the constants of its cfg. *)
(***************************************************************************)
EXTENDS Lifecycle
=============================================================================

--------------------------- MODULE MCWebSocketSrv ---------------------------
(***************************************************************************)
(* WebSocketSrv for TLC: clients are interchangeable.                       *)
(***************************************************************************)
EXTENDS WebSocketSrv, TLC

ClientSymmetry == Permutations(Clients)
=============================================================================

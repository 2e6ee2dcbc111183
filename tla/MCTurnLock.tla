---------------------------- MODULE MCTurnLock ----------------------------
(* The turn lock on a small instance. *)
EXTENDS TurnLock
=============================================================================

---------------------------- MODULE MCKeyedMutex ----------------------------
(* KeyedMutex for TLC: three goroutines, two agents, an address each.       *)
EXTENDS KeyedMutex
=============================================================================

---------------------------- MODULE MCTurnLimiter ----------------------------
(* TurnLimiter for TLC: four goroutines compete for two slots.              *)
EXTENDS TurnLimiter
==============================================================================

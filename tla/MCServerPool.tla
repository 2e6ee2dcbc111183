---------------------------- MODULE MCServerPool ----------------------------
(* ServerPool for TLC: sessions of one agent, and as many servers as it      *)
(* takes for a stale session to meet a replacement.                          *)
EXTENDS ServerPool
=============================================================================

---------------------------- MODULE MCInboxEvict ----------------------------
(* InboxEvict for TLC: two producers and a usage hold race one eviction.     *)
EXTENDS InboxEvict
=============================================================================

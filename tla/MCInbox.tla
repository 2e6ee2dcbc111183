------------------------------- MODULE MCInbox -------------------------------
(* Inbox for TLC.  The cfgs choose the messages, the holds and the events.  *)
EXTENDS Inbox

\* Injections with no ask of their own.
NoAskOf == [i \in Injects |-> Nothing]

\* Every injection is the result of the ask.
AllAskOf == [i \in Injects |-> CHOOSE a \in Asks : TRUE]
==============================================================================

------------------------------ MODULE SlotQueue ------------------------------
(***************************************************************************)
(* What a turn limiter promises, with no counter, no mutex and no channel: *)
(* at most Limit callers own a slot, whoever cannot have one at once joins *)
(* a queue, and a slot that is given up while somebody queues passes to    *)
(* the head of the queue in the same step.  TurnLimiter is shown to        *)
(* implement this specification.                                           *)
(***************************************************************************)
EXTENDS Naturals, Sequences, FiniteSets

CONSTANTS Callers,  \* everyone who may ask for a slot
          Limit     \* how many may own one at a time

VARIABLES owners,   \* the callers that own a slot
          queue     \* the callers waiting for one, first come first

vars == <<owners, queue>>

Init == owners = {} /\ queue = <<>>

\* A slot is free and nobody queues: the caller takes it.
Take(c) ==
    /\ c \notin owners
    /\ queue = <<>>
    /\ Cardinality(owners) < Limit
    /\ owners' = owners \cup {c}
    /\ UNCHANGED queue

\* No slot is free, or others were first: the caller joins the queue.
Join(c) ==
    /\ c \notin owners
    /\ \A i \in 1..Len(queue) : queue[i] # c
    /\ Cardinality(owners) >= Limit \/ queue # <<>>
    /\ queue' = Append(queue, c)
    /\ UNCHANGED owners

\* A waiting caller gives up; the others keep their order.
Abandon(i) ==
    /\ queue' = SubSeq(queue, 1, i - 1) \o SubSeq(queue, i + 1, Len(queue))
    /\ UNCHANGED owners

\* An owner gives its slot up: to the head of the queue if there is one.
GiveUp(c) ==
    /\ c \in owners
    /\ \/ /\ queue # <<>>
          /\ owners' = (owners \ {c}) \cup {Head(queue)}
          /\ queue' = Tail(queue)
       \/ /\ queue = <<>>
          /\ owners' = owners \ {c}
          /\ UNCHANGED queue

Next ==
    \/ \E c \in Callers : Take(c) \/ Join(c) \/ GiveUp(c)
    \/ \E i \in 1..Len(queue) : Abandon(i)

Spec == Init /\ [][Next]_vars
==============================================================================

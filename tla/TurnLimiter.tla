----------------------------- MODULE TurnLimiter -----------------------------
(***************************************************************************)
(* The counting semaphore of internal/agent/turn_limit.go: N slots, FIFO   *)
(* waiters, waits that a context can end.  A caller is one goroutine that  *)
(* calls TryAcquire, Acquire and Release; each critical section of the     *)
(* limiter's mutex is one step, and the select between the grant channel   *)
(* and ctx.Done() lies between two of them.                                *)
(***************************************************************************)
EXTENDS Naturals, Sequences, FiniteSets

CONSTANTS Callers,  \* the goroutines that use the limiter
          Limit     \* max_concurrent_turns; 0 builds no limiter at all

ASSUME LimiterAssumption ==
    /\ IsFiniteSet(Callers)
    /\ Limit \in Nat \ {0}

VARIABLES
    held,      \* the limiter's count of slots in use
    waiters,   \* the limiter's queue of grant channels, one per caller
    granted,   \* callers whose grant channel has been closed
    ended,     \* callers whose context is done
    pc         \* where each caller is

limiter == <<held, waiters>>
vars == <<held, waiters, granted, ended, pc>>

\* "idle":   outside the limiter, without a slot
\* "wait":   in Acquire's select
\* "leave":  the select returned through ctx.Done(), the mutex not yet taken
\* "return": granted while leaving: about to hand the slot back
\* "own":    holds a slot it was told about
PC == {"idle", "wait", "leave", "return", "own"}

Waiting == {waiters[i] : i \in 1..Len(waiters)}

\* The callers a slot is charged to: told about it, or granted one.
Owners == {c \in Callers : pc[c] = "own"} \cup granted

TypeOK ==
    /\ held \in 0..Limit
    /\ waiters \in Seq(Callers)
    /\ granted \subseteq Callers
    /\ ended \subseteq Callers
    /\ pc \in [Callers -> PC]

Init ==
    /\ held = 0
    /\ waiters = <<>>
    /\ granted = {}
    /\ ended = {}
    /\ pc = [c \in Callers |-> "idle"]

Goto(c, l) == pc' = [pc EXCEPT ![c] = l]

------------------------------------------------------------------------------
\* tryAcquireLocked: a slot is free and no waiter would be overtaken.
TryAcquireLocked == held < Limit /\ waiters = <<>>

\* TryAcquire, or Acquire whose first critical section finds a free slot.
\* A TryAcquire that fails changes nothing.
TryAcquire(c) ==
    /\ pc[c] = "idle"
    /\ TryAcquireLocked
    /\ held' = held + 1
    /\ Goto(c, "own")
    /\ UNCHANGED <<waiters, granted, ended>>

\* Acquire with no free slot: the check and the registration are one
\* critical section.
Acquire(c) ==
    /\ pc[c] = "idle"
    /\ ~TryAcquireLocked
    /\ waiters' = Append(waiters, c)
    /\ Goto(c, "wait")
    /\ UNCHANGED <<held, granted, ended>>

\* The context of a waiting caller is cancelled.
End(c) ==
    /\ pc[c] = "wait"
    /\ c \notin ended
    /\ ended' = ended \cup {c}
    /\ UNCHANGED <<held, waiters, granted, pc>>

\* Acquire's select returns through the grant channel.
SeeGrant(c) ==
    /\ pc[c] = "wait"
    /\ c \in granted
    /\ granted' = granted \ {c}
    /\ ended' = ended \ {c}
    /\ Goto(c, "own")
    /\ UNCHANGED <<held, waiters>>

\* Acquire's select returns through ctx.Done(); it may do so even when the
\* grant channel is closed too.
SeeEnd(c) ==
    /\ pc[c] = "wait"
    /\ c \in ended
    /\ ended' = ended \ {c}
    /\ Goto(c, "leave")
    /\ UNCHANGED <<held, waiters, granted>>

\* The waiters but for the one at position i.
Without(i) == SubSeq(waiters, 1, i - 1) \o SubSeq(waiters, i + 1, Len(waiters))

\* The re-check under the mutex: still queued, so the caller can leave.
Leave(c) ==
    /\ pc[c] = "leave"
    /\ \E i \in 1..Len(waiters) : waiters[i] = c /\ waiters' = Without(i)
    /\ Goto(c, "idle")
    /\ UNCHANGED <<held, granted, ended>>

\* Mutation: a caller that was granted while it left keeps quiet about it.
LeaveLeaking(c) ==
    /\ pc[c] = "leave"
    /\ c \notin Waiting
    /\ granted' = granted \ {c}
    /\ Goto(c, "idle")
    /\ UNCHANGED <<held, waiters, ended>>

\* The re-check under the mutex: no longer queued, so the grant won.
LeaveGranted(c) ==
    /\ pc[c] = "leave"
    /\ c \notin Waiting
    /\ Goto(c, "return")
    /\ UNCHANGED <<held, waiters, granted, ended>>

\* Mutation: the slot handed to the head waiter is given back to the pool too.
ReleaseTwice(keep) ==
    /\ held' = IF held > 0 THEN held - 1 ELSE held
    /\ IF waiters = <<>>
         THEN granted' = keep /\ UNCHANGED waiters
         ELSE granted' = keep \cup {Head(waiters)} /\ waiters' = Tail(waiters)

\* Mutation: the slot always returns to the pool and nobody is woken.
ReleaseToPool(keep) ==
    /\ held' = held - 1
    /\ granted' = keep
    /\ UNCHANGED waiters

\* Release's critical section: the head waiter gets the slot, or it returns
\* to the pool.  "keep" is granted without the releasing caller.
ReleaseLocked(keep) ==
    \/ /\ waiters # <<>>
       /\ granted' = keep \cup {Head(waiters)}
       /\ waiters' = Tail(waiters)
       /\ UNCHANGED held
    \/ /\ waiters = <<>>
       /\ held' = IF held > 0 THEN held - 1 ELSE held
       /\ granted' = keep
       /\ UNCHANGED waiters

\* A caller that was told it owns a slot releases it.
Release(c) ==
    /\ pc[c] = "own"
    /\ ReleaseLocked(granted)
    /\ Goto(c, "idle")
    /\ UNCHANGED ended

\* Acquire hands back the slot that was granted while the caller left.
HandBack(c) ==
    /\ pc[c] = "return"
    /\ c \in granted
    /\ ReleaseLocked(granted \ {c})
    /\ Goto(c, "idle")
    /\ UNCHANGED ended

------------------------------------------------------------------------------
Step(c) ==
    \/ TryAcquire(c) \/ Acquire(c) \/ End(c) \/ SeeGrant(c) \/ SeeEnd(c)
    \/ Leave(c) \/ LeaveGranted(c) \/ Release(c) \/ HandBack(c)

Next == \E c \in Callers : Step(c)

Spec == Init /\ [][Next]_vars

\* A goroutine that can run runs, and a turn that owns a slot ends: the
\* worker releases in a defer.  Nobody has to ask for a slot or to cancel.
Fairness ==
    \A c \in Callers :
        WF_vars(SeeGrant(c) \/ SeeEnd(c) \/ Leave(c) \/ LeaveGranted(c)
                \/ Release(c) \/ HandBack(c))

FairSpec == Spec /\ Fairness

------------------------------------------------------------------------------
(* Properties *)

\* Every slot the limiter counts is charged to exactly one caller, whatever
\* cancels raced with whatever grants: no slot leaks and none is made up.
SlotsAccounted == held = Cardinality(Owners)

\* The cap max_concurrent_turns is for: never more than Limit turns own a
\* slot, the ones granted but not yet told included.
CapHolds == Cardinality(Owners) <= Limit

\* Nobody queues on a free limiter: with a waiter queued every slot is in
\* use, so some Release will come to wake it (the wedge of #2337).
NoWedge == waiters # <<>> => held = Limit

\* The queue holds exactly the callers that wait without a grant, once each.
QueueExact ==
    /\ \A i, j \in 1..Len(waiters) : waiters[i] = waiters[j] => i = j
    /\ Waiting = {c \in Callers : pc[c] \in {"wait", "leave"} /\ c \notin granted}

\* First come, first served: whoever gets a slot was at the head of the
\* queue, or nobody was queueing.
NoOvertaking ==
    [][\A c \in Owners' \ Owners : waiters # <<>> => c = Head(waiters)]_vars

\* A caller that waits is served, or leaves because its context ended.
WaiterServed ==
    \A c \in Callers : pc[c] = "wait" ~> (pc[c] = "own" \/ pc[c] = "leave")

\* The limiter implements the abstract slot queue.
Abstract == INSTANCE SlotQueue WITH owners <- Owners, queue <- waiters

Refines == Abstract!Spec

==============================================================================

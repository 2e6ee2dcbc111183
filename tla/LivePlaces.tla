------------------------------ MODULE LivePlaces ------------------------------
(***************************************************************************)
(* The critical sections of LiveSessionLimiter (internal/agent/            *)
(* live_sessions.go): the counts of live delegated backends, for the       *)
(* gateway and for each agent, and the FIFO queue of user creations that   *)
(* wait for a place.  The limiter is one record; each operator is what one *)
(* hold of l.mu does to it.                                                *)
(***************************************************************************)
EXTENDS Naturals, Sequences, FiniteSets, SequencesExt

CONSTANTS Agents,     \* one DelegatedManager each
          Keys,       \* session keys
          Callers,    \* goroutines that ask for a backend, once each
          AgentOf,    \* [Keys -> Agents]
          KeyOf,      \* [Callers -> Keys]
          Users,      \* the callers that come for a user turn
          GlobalCap,  \* [sessions] max_live_sessions; 0 is no cap
          AgentCap    \* [Agents -> Nat], each agent's max_live_sessions

ASSUME PlacesAssumption ==
    /\ IsFiniteSet(Callers) /\ Users \subseteq Callers
    /\ AgentOf \in [Keys -> Agents] /\ KeyOf \in [Callers -> Keys]
    /\ GlobalCap \in Nat /\ AgentCap \in [Agents -> Nat]

Agent(p) == AgentOf[KeyOf[p]]

Limiter == [live : Nat,
            perAgent : [Agents -> Nat],
            waiters : Seq(Callers),
            granted : SUBSET Callers]

NoPlaces == [live |-> 0, perAgent |-> [a \in Agents |-> 0],
             waiters |-> <<>>, granted |-> {}]

\* fullLocked, for each of the two caps.
AgentFull(l, a) == AgentCap[a] > 0 /\ l.perAgent[a] >= AgentCap[a]
GlobalFull(l) == GlobalCap > 0 /\ l.live >= GlobalCap
Full(l, a) == AgentFull(l, a) \/ GlobalFull(l)

\* overCapLocked.
AgentOver(l, a) == AgentCap[a] > 0 /\ l.perAgent[a] > AgentCap[a]
GlobalOver(l) == GlobalCap > 0 /\ l.live > GlobalCap
OverCap(l) == GlobalOver(l) \/ \E a \in Agents : AgentOver(l, a)

\* reserveLocked.
Reserve(l, a) == [l EXCEPT !.live = @ + 1, !.perAgent[a] = @ + 1]

Unreserve(l, a) == [l EXCEPT !.live = @ - 1, !.perAgent[a] = @ - 1]

Queued(l, p) == \E i \in 1..Len(l.waiters) : l.waiters[i] = p

\* The waiters ahead of p; all of them when p has not queued.
Ahead(l, p) ==
    {i \in 1..Len(l.waiters) : \A j \in 1..i : l.waiters[j] # p}

\* blockedByEarlierLocked: an ungranted waiter ahead of p needs a cap p would
\* take too.
BlockedByEarlier(l, p) ==
    \E i \in Ahead(l, p) :
        LET x == l.waiters[i] IN
        /\ x \notin l.granted
        /\ \/ Agent(x) = Agent(p) /\ AgentCap[Agent(p)] > 0
           \/ GlobalFull(l)

\* grantLocked's test of one waiter.
Fits(l, p) == /\ p \notin l.granted
              /\ ~Full(l, Agent(p))
              /\ ~BlockedByEarlier(l, p)

\* The limiter once the waiters at the positions G have their places.
Serve(l, G) ==
    LET served == {l.waiters[i] : i \in G} IN
    [live |-> l.live + Cardinality(served),
     perAgent |-> [a \in Agents |-> l.perAgent[a]
                      + Cardinality({p \in served : Agent(p) = a})],
     waiters |-> l.waiters,
     granted |-> l.granted \cup served]

\* Mutation: the newest waiter is served first.
GrantNewest(l) ==
    Serve(l, CHOOSE G \in SUBSET DOMAIN l.waiters :
                \A i \in DOMAIN l.waiters :
                    LET s == Serve(l, G \cap (i + 1)..Len(l.waiters))
                        p == l.waiters[i]
                    IN  i \in G <=> p \notin s.granted /\ ~Full(s, Agent(p)))

\* G is what a walk of the queue in arrival order serves: a waiter is served
\* when it fits after those before it have been.
Walk(l, G) ==
    \A i \in DOMAIN l.waiters :
        i \in G <=> Fits(Serve(l, G \cap 1..(i - 1)), l.waiters[i])

\* grantLocked.
Grant(l) == Serve(l, CHOOSE G \in SUBSET DOMAIN l.waiters : Walk(l, G))

\* Mutation: a freed place is not offered to the queue.
FreeQuietly(l, a) == Unreserve(l, a)

\* The critical section of livePlace.release.
Free(l, a) == Grant(Unreserve(l, a))

\* removeWaiterLocked, and the waiter's grant mark goes with it.
RemoveWaiter(l, p) ==
    LET at == CHOOSE i \in DOMAIN l.waiters :
                 /\ l.waiters[i] = p
                 /\ \A j \in 1..(i - 1) : l.waiters[j] # p
    IN  [l EXCEPT !.waiters = RemoveAt(@, at), !.granted = @ \ {p}]

\* Mutation: a cancelled wait keeps what it was granted.
LeaveQueueKeeping(l, p) == RemoveWaiter(l, p)

\* acquire's deferred removal: the grant still marked was never handed out.
LeaveQueue(l, p) ==
    IF p \in l.granted THEN Free(RemoveWaiter(l, p), Agent(p))
                       ELSE RemoveWaiter(l, p)

\* acquire's registration of a new waiter.
JoinQueue(l, p) == Grant([l EXCEPT !.waiters = Append(@, p)])

===============================================================================

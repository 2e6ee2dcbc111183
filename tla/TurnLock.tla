------------------------------ MODULE TurnLock ------------------------------
(***************************************************************************)
(* The per-session turn lock of an API agent (internal/agent: turnLock,    *)
(* lockTurn, dropTurnLock).  A session's mutex is dropped from the map     *)
(* while nobody holds it (idle eviction, ClearSessionState); a caller that *)
(* fetched it before finds out once it has locked it, and starts again.    *)
(***************************************************************************)
EXTENDS Naturals, FiniteSets

CONSTANTS
    Turns,     \* callers of lockTurn
    Sessions,  \* session keys
    Mutexes,   \* addresses a mutex can be allocated at
    MaxDrops,  \* bound on removals that remove something
    NoOne      \* no turn, no mutex, no session

ASSUME TurnLockAssumption ==
    NoOne \notin Turns \cup Sessions \cup Mutexes /\ MaxDrops \in Nat

VARIABLES
    turnLocks,  \* the map: the mutex of each session, NoOne when there is none
    holder,     \* who holds each mutex
    stage,      \* "out", "fetch" (about to call turnLock), "fetched" (waiting for
                \* the mutex), "locked" (not yet checked), "in"
    session,    \* the session of a turn that is not out
    mutex,      \* the mutex it fetched
    drops       \* removals left

turnVars == <<turnLocks, holder, stage, session, mutex, drops>>

TurnTypeOK ==
    /\ turnLocks \in [Sessions -> Mutexes \cup {NoOne}]
    /\ holder \in [Mutexes -> Turns \cup {NoOne}]
    /\ stage \in [Turns -> {"out", "fetch", "fetched", "locked", "in"}]
    /\ session \in [Turns -> Sessions \cup {NoOne}]
    /\ mutex \in [Turns -> Mutexes \cup {NoOne}]
    /\ drops \in 0..MaxDrops
    /\ \A c \in Turns : stage[c] # "out" => session[c] # NoOne
    /\ \A c \in Turns : stage[c] \in {"fetched", "locked", "in"} => mutex[c] # NoOne

TurnInit ==
    /\ turnLocks = [k \in Sessions |-> NoOne]
    /\ holder = [n \in Mutexes |-> NoOne]
    /\ stage = [c \in Turns |-> "out"]
    /\ session = [c \in Turns |-> NoOne]
    /\ mutex = [c \in Turns |-> NoOne]
    /\ drops = MaxDrops

\* A turn on session k begins.
AcquireTurnLock(c, k) ==
    /\ stage[c] = "out"
    /\ stage' = [stage EXCEPT ![c] = "fetch"]
    /\ session' = [session EXCEPT ![c] = k]
    /\ UNCHANGED <<turnLocks, holder, mutex, drops>>

\* An address nothing refers to: what &sync.Mutex{} can return.
FreshMutex(n) == (\A k \in Sessions : turnLocks[k] # n) /\ (\A c \in Turns : mutex[c] # n)

\* turnLock: the key's mutex, or a new one.
FetchTurnLock(c, n) ==
    /\ stage[c] = "fetch"
    /\ IF turnLocks[session[c]] = NoOne THEN FreshMutex(n) ELSE n = turnLocks[session[c]]
    /\ turnLocks' = [turnLocks EXCEPT ![session[c]] = n]
    /\ mutex' = [mutex EXCEPT ![c] = n]
    /\ stage' = [stage EXCEPT ![c] = "fetched"]
    /\ UNCHANGED <<holder, session, drops>>

\* mu.Lock returns.
LockMutex(c) ==
    /\ stage[c] = "fetched" /\ holder[mutex[c]] = NoOne
    /\ holder' = [holder EXCEPT ![mutex[c]] = c]
    /\ stage' = [stage EXCEPT ![c] = "locked"]
    /\ UNCHANGED <<turnLocks, session, mutex, drops>>

\* Mutation: the locked mutex is taken for the session's without a look.
CheckNothing(c) ==
    /\ stage[c] = "locked"
    /\ stage' = [stage EXCEPT ![c] = "in"]
    /\ UNCHANGED <<turnLocks, holder, session, mutex, drops>>

\* Mutation: the mutex is fetched once, before the loop.
CheckFetchedOnce(c) ==
    /\ stage[c] = "locked"
    /\ IF turnLocks[session[c]] = mutex[c]
         THEN stage' = [stage EXCEPT ![c] = "in"] /\ UNCHANGED holder
         ELSE /\ holder' = [holder EXCEPT ![mutex[c]] = NoOne]
              /\ stage' = [stage EXCEPT ![c] = "fetched"]
    /\ UNCHANGED <<turnLocks, session, mutex, drops>>

\* lockTurn's check: still the map's mutex, or unlock and start again.
CheckCurrent(c) ==
    /\ stage[c] = "locked"
    /\ IF turnLocks[session[c]] = mutex[c]
         THEN stage' = [stage EXCEPT ![c] = "in"] /\ UNCHANGED <<holder, mutex>>
         ELSE /\ holder' = [holder EXCEPT ![mutex[c]] = NoOne]
              /\ stage' = [stage EXCEPT ![c] = "fetch"]
              /\ mutex' = [mutex EXCEPT ![c] = NoOne]
    /\ UNCHANGED <<turnLocks, session, drops>>

\* The turn ends.
UnlockTurn(c) ==
    /\ stage[c] = "in"
    /\ holder' = [holder EXCEPT ![mutex[c]] = NoOne]
    /\ stage' = [stage EXCEPT ![c] = "out"]
    /\ session' = [session EXCEPT ![c] = NoOne]
    /\ mutex' = [mutex EXCEPT ![c] = NoOne]
    /\ UNCHANGED <<turnLocks, drops>>

\* dropTurnLock, when it removes something: TryLock succeeds under turnLocksMu.
DropTurnLock(k) ==
    /\ turnLocks[k] # NoOne /\ holder[turnLocks[k]] = NoOne /\ drops > 0
    /\ turnLocks' = [turnLocks EXCEPT ![k] = NoOne]
    /\ drops' = drops - 1
    /\ UNCHANGED <<holder, stage, session, mutex>>

Locking(c) ==
    \/ \E n \in Mutexes : FetchTurnLock(c, n)
    \/ LockMutex(c) \/ CheckCurrent(c)

TurnNext ==
    \/ \E c \in Turns :
          (\E k \in Sessions : AcquireTurnLock(c, k)) \/ Locking(c) \/ UnlockTurn(c)
    \/ \E k \in Sessions : DropTurnLock(k)

TurnSpec == TurnInit /\ [][TurnNext]_turnVars

\* Go's mutexes do not starve a waiter, and a turn ends.
TurnFairSpec ==
    /\ TurnSpec
    /\ \A c \in Turns : SF_turnVars(LockMutex(c)) /\ WF_turnVars(Locking(c)) /\ WF_turnVars(UnlockTurn(c))

-----------------------------------------------------------------------------
\* Two turns of one session never run at once, although its mutex is dropped
\* and made anew while callers still wait on the old one (#2283).
TurnExclusion ==
    \A c, d \in Turns : stage[c] = "in" /\ stage[d] = "in" /\ session[c] = session[d] => c = d

\* The mutex a turn runs under is the one the next turn will fetch.
HeldIsCurrent ==
    \A c \in Turns : stage[c] = "in" => turnLocks[session[c]] = mutex[c] /\ holder[mutex[c]] = c

\* A turn that asks for the lock runs, however it is sent round the loop by the
\* removals of an idle eviction or a reset.
TurnRuns == \A c \in Turns : stage[c] = "fetch" ~> stage[c] = "in"

-----------------------------------------------------------------------------
\* The map implements one lock per session.
SessionLock == INSTANCE KeyedLock WITH
    Callers <- Turns, Keys <- Sessions, Nobody <- NoOne,
    at <- session,
    inside <- {c \in Turns : stage[c] = "in"}

TurnRefines == SessionLock!Spec
=============================================================================

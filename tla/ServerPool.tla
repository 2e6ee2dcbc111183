----------------------------- MODULE ServerPool -----------------------------
(***************************************************************************)
(* One agent's slot of the opencode server pool                            *)
(* (internal/delegator/opencode/opencode.go, lifecycle.go): sessions       *)
(* acquire and release the agent's server, whose subprocess can die at any *)
(* moment, and the gateway shuts down.  The per-agent lock of              *)
(* acquireServer is used as KeyedLock.tla promises it.                     *)
(***************************************************************************)
EXTENDS Naturals, FiniteSets

CONSTANTS
    Sessions,  \* backends that acquire the agent's server
    Servers,   \* the Server objects the agent can ever have
    None       \* no server, no session

ASSUME PoolAssumption == IsFiniteSet(Sessions) /\ None \notin Sessions \cup Servers

VARIABLES
    pool,    \* serverPool[agentID]
    server,  \* the Server objects
    b,       \* the sessions: where acquireServer is, and the server in hand
    lock,    \* who holds acquireLocks for the agent
    gateway  \* "up", "closing" (inside CloseAllServers), "gone"; the closes it waits for

vars == <<pool, server, b, lock, gateway>>

\* proc: the subprocess.  final: how far finalizeExit is (it runs once).
\* close: how far Close is (it runs once).
Server == [proc : {"none", "alive", "dead"},
           running : BOOLEAN,
           refCount : Nat,
           final : {"no", "begun", "done"},
           close : {"no", "asked", "begun", "done"}]

\* "out", "waiting" (for the lock), "check", "start", "probe" (healthProbe),
\* "up" (healthy, up to running = true), "insert", "has"
PCs == {"out", "waiting", "check", "start", "probe", "up", "insert", "has"}

TypeOK ==
    /\ pool \in Servers \cup {None}
    /\ server \in [Servers -> Server]
    /\ b \in [Sessions -> [pc : PCs, server : Servers \cup {None}]]
    /\ lock \in Sessions \cup {None}
    /\ gateway \in [phase : {"up", "closing", "gone"}, waits : SUBSET Servers]

Init ==
    /\ pool = None
    /\ server = [s \in Servers |-> [proc |-> "none", running |-> FALSE, refCount |-> 0,
                                    final |-> "no", close |-> "no"]]
    /\ b = [x \in Sessions |-> [pc |-> "out", server |-> None]]
    /\ lock = None
    /\ gateway = [phase |-> "up", waits |-> {}]

\* Nothing of the gateway runs once it has exited.
Alive == gateway.phase # "gone"

Goto(x, pc, s) == b' = [b EXCEPT ![x] = [pc |-> pc, server |-> s]]

-----------------------------------------------------------------------------
(* acquireServer.                                                          *)

Acquire(x) ==
    /\ Alive /\ b[x].pc = "out"
    /\ Goto(x, "waiting", None)
    /\ UNCHANGED <<pool, server, lock, gateway>>

\* Mutation: no per-agent lock (#1718).
LockedFree(x) ==
    /\ Alive /\ b[x].pc = "waiting"
    /\ lock' = x
    /\ Goto(x, "check", None)
    /\ UNCHANGED <<pool, server, gateway>>

Locked(x) ==
    /\ Alive /\ b[x].pc = "waiting" /\ lock = None
    /\ lock' = x
    /\ Goto(x, "check", None)
    /\ UNCHANGED <<pool, server, gateway>>

\* Mutation: an error return forgets the lock.
StartFailsLocked(x) ==
    /\ Alive /\ b[x].pc = "start"
    /\ Goto(x, "out", None)
    /\ UNCHANGED <<pool, server, lock, gateway>>

\* Mutation: the count is left to the first session (singleflight).
CheckUncounted(x) ==
    /\ Alive /\ b[x].pc = "check"
    /\ IF pool # None /\ server[pool].running
         THEN Goto(x, "has", pool) /\ lock' = None /\ UNCHANGED <<pool, server>>
         ELSE Goto(x, "start", None) /\ pool' = None /\ UNCHANGED <<server, lock>>
    /\ UNCHANGED gateway

\* The pooled server is counted and handed back; a dead one is evicted.
Check(x) ==
    /\ Alive /\ b[x].pc = "check"
    /\ IF pool # None /\ server[pool].running
         THEN /\ server' = [server EXCEPT ![pool].refCount = @ + 1]
              /\ Goto(x, "has", pool)
              /\ lock' = None
              /\ UNCHANGED pool
         ELSE /\ pool' = None
              /\ Goto(x, "start", None)
              /\ UNCHANGED <<server, lock>>
    /\ UNCHANGED gateway

\* Start: the subprocess is launched, with its waiter and its subscriber.
Start(x) ==
    /\ Alive /\ b[x].pc = "start"
    /\ \E s \in Servers :
          /\ server[s].proc = "none"
          /\ server' = [server EXCEPT ![s].proc = "alive"]
          /\ Goto(x, "probe", s)
    /\ UNCHANGED <<pool, lock, gateway>>

\* ... or it cannot be launched, and acquireServer returns the error.
StartFails(x) ==
    /\ Alive /\ b[x].pc = "start"
    /\ Goto(x, "out", None)
    /\ lock' = None
    /\ UNCHANGED <<pool, server, gateway>>

\* healthProbe returns: the server answered ...
Healthy(x) ==
    /\ Alive /\ b[x].pc = "probe" /\ server[b[x].server].proc = "alive"
    /\ Goto(x, "up", b[x].server)
    /\ UNCHANGED <<pool, server, lock, gateway>>

\* ... or its waiter has seen it die, and Start closes it and fails.
ProbeFails(x) ==
    /\ Alive /\ b[x].pc = "probe"
    /\ server[b[x].server].proc = "dead" /\ server[b[x].server].final = "done"
    /\ server' = [server EXCEPT ![b[x].server].close = "done"]
    /\ Goto(x, "out", None)
    /\ lock' = None
    /\ UNCHANGED <<pool, gateway>>

\* waitForSubscriber is over: running = true.
Running(x) ==
    /\ Alive /\ b[x].pc = "up"
    /\ server' = [server EXCEPT ![b[x].server].running = TRUE]
    /\ Goto(x, "insert", b[x].server)
    /\ UNCHANGED <<pool, lock, gateway>>

\* The server enters the pool; had another one got there first, that one
\* would be shared and this one closed.
Insert(x) ==
    /\ Alive /\ b[x].pc = "insert"
    /\ IF pool = None
         THEN /\ pool' = b[x].server
              /\ server' = [server EXCEPT ![b[x].server].refCount = 1]
              /\ Goto(x, "has", b[x].server)
         ELSE /\ server' = [server EXCEPT ![pool].refCount = @ + 1,
                                          ![b[x].server].close = "asked"]
              /\ Goto(x, "has", pool)
              /\ UNCHANGED pool
    /\ lock' = None
    /\ UNCHANGED gateway

-----------------------------------------------------------------------------
(* releaseServer, finalizeExit, Close, CloseAllServers.                    *)

\* Mutation: a stale session releases whatever server is pooled now.
ReleaseBlind(x) ==
    /\ Alive /\ b[x].pc = "has"
    /\ IF pool = None THEN UNCHANGED <<pool, server>>
       ELSE IF server[pool].refCount > 1
         THEN server' = [server EXCEPT ![pool].refCount = @ - 1] /\ UNCHANGED pool
         ELSE /\ server' = [server EXCEPT ![pool].refCount = 0, ![pool].close = "asked"]
              /\ pool' = None
    /\ Goto(x, "out", None)
    /\ UNCHANGED <<lock, gateway>>

\* Only the pooled server is uncounted; the last session has it closed.
Release(x) ==
    /\ Alive /\ b[x].pc = "has"
    /\ LET s == b[x].server
           left == server[s].refCount - 1
       IN  IF pool # s THEN UNCHANGED <<pool, server>>
           ELSE /\ server' = [server EXCEPT ![s].refCount = left,
                                            ![s].close = IF left > 0 THEN @ ELSE "asked"]
                /\ pool' = IF left > 0 THEN pool ELSE None
    /\ Goto(x, "out", None)
    /\ UNCHANGED <<lock, gateway>>

\* The subprocess dies by itself.
Dies(s) ==
    /\ Alive /\ server[s].proc = "alive"
    /\ server' = [server EXCEPT ![s].proc = "dead"]
    /\ UNCHANGED <<pool, b, lock, gateway>>

\* finalizeExit: the waiter saw the death, or the event stream ended.  First
\* the running flag ...
FinalizeExit(s) ==
    /\ Alive /\ server[s].proc # "none" /\ server[s].final = "no"
    /\ server' = [server EXCEPT ![s].running = FALSE, ![s].final = "begun"]
    /\ UNCHANGED <<pool, b, lock, gateway>>

\* Mutation: whatever is pooled is evicted.
EvictBlind(s) ==
    /\ Alive /\ server[s].final = "begun"
    /\ pool' = None
    /\ server' = [server EXCEPT ![s].final = "done"]
    /\ UNCHANGED <<b, lock, gateway>>

\* ... then the pool, if it still has this server.
Evict(s) ==
    /\ Alive /\ server[s].final = "begun"
    /\ pool' = IF pool = s THEN None ELSE pool
    /\ server' = [server EXCEPT ![s].final = "done"]
    /\ UNCHANGED <<b, lock, gateway>>

\* Close, on a goroutine of its own: the flag, then the kill ladder.
CloseBegins(s) ==
    /\ Alive /\ server[s].close = "asked"
    /\ server' = [server EXCEPT ![s].running = FALSE, ![s].close = "begun"]
    /\ UNCHANGED <<pool, b, lock, gateway>>

CloseEnds(s) ==
    /\ Alive /\ server[s].close = "begun"
    /\ server' = [server EXCEPT ![s].proc = "dead", ![s].close = "done"]
    /\ UNCHANGED <<pool, b, lock, gateway>>

\* CloseAllServers empties the pool and closes what was in it ...
CloseAllServers ==
    /\ gateway.phase = "up"
    /\ gateway' = [phase |-> "closing", waits |-> {pool} \ {None}]
    /\ pool' = None
    /\ server' = IF pool = None THEN server ELSE [server EXCEPT ![pool].close = "asked"]
    /\ UNCHANGED <<b, lock>>

\* ... waits for those closes, and the gateway exits.
GatewayExits ==
    /\ gateway.phase = "closing"
    /\ \A s \in gateway.waits : server[s].close = "done"
    /\ gateway' = [gateway EXCEPT !.phase = "gone"]
    /\ UNCHANGED <<pool, server, b, lock>>

AcquireStep(x) ==
    \/ Locked(x) \/ Check(x) \/ Start(x) \/ StartFails(x)
    \/ Healthy(x) \/ ProbeFails(x) \/ Running(x) \/ Insert(x)

ServerStep(s) ==
    Dies(s) \/ FinalizeExit(s) \/ Evict(s) \/ CloseBegins(s) \/ CloseEnds(s)

Next ==
    \/ \E x \in Sessions : Acquire(x) \/ AcquireStep(x) \/ Release(x)
    \/ \E s \in Servers : ServerStep(s)
    \/ CloseAllServers \/ GatewayExits

Spec == Init /\ [][Next]_vars

\* Go's mutexes do not starve a waiter; the health probe ends, healthy or by
\* the subprocess's death; the exit of a dead subprocess is seen.
FairSpec ==
    /\ Spec
    /\ \A x \in Sessions : SF_vars(Locked(x)) /\ WF_vars(AcquireStep(x))
    /\ \A s \in Servers :
          WF_vars(server[s].proc = "dead" /\ FinalizeExit(s)) /\ WF_vars(Evict(s))

-----------------------------------------------------------------------------
(* Properties.                                                             *)

Holders(s) == {x \in Sessions : b[x].pc = "has" /\ b[x].server = s}

\* The pooled server's count is the number of sessions that hold it, although
\* servers die, are evicted and replaced under sessions that hold the old one.
RefsExact ==
    \A s \in Servers : pool = s => server[s].refCount = Cardinality(Holders(s))

\* A server a session still uses is closed only by the gateway's shutdown:
\* never by a stale release of another server, nor by a lost count.
InUseNotClosed ==
    gateway.phase = "up" =>
        \A s \in Servers : server[s].close # "no" => Holders(s) = {}

\* The branch of acquireServer marked UNREACHABLE is: whoever has started a
\* server finds the pool empty.
NoRacedInsert == \A x \in Sessions : b[x].pc = "insert" => pool = None

\* A healthy successor is never evicted: a pooled server leaves the pool by its
\* own death, its last release, or the shutdown.
SuccessorKept ==
    [][\A s \in Servers : pool = s /\ pool' # s =>
          \/ server[s].final # "no" \/ server'[s].close # "no" \/ ~server[s].running]_vars

\* Every acquireServer call returns: a server, or an error.
AcquireReturns ==
    \A x \in Sessions :
        b[x].pc = "waiting" ~> b[x].pc \in {"has", "out"} \/ gateway.phase = "gone"

-----------------------------------------------------------------------------
(* What comments of the source promise and the code does not keep.         *)

\* A dead server is not handed back "forever, with no respawn": the flag
\* acquireServer goes by is cleared "on ANY death path" and stays so.
NoCorpse ==
    pool # None /\ server[pool].final = "done" => ~server[pool].running

\* "One Server per agent": two subprocesses of an agent never run at once.
OneProcess == Cardinality({s \in Servers : server[s].proc = "alive"}) <= 1

\* CloseAllServers "guarantees no server survives the restart".
NoOrphan == gateway.phase = "gone" => \A s \in Servers : server[s].proc # "alive"
=============================================================================

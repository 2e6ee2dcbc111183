-------------------------- MODULE ServerPoolProofs --------------------------
(***************************************************************************)
(* The opencode server pool, for any number of sessions and of servers:    *)
(* counts are exact, no server in use is closed, no acquire is raced.      *)
(*                                                                         *)
(* The count is exact only because a server enters the pool with nobody    *)
(* holding it, which needs the pool to stay empty from acquireServer's     *)
(* check to its insert, which the per-agent lock gives.  IInv adds those   *)
(* facts, and that a pooled server is not closed before the shutdown.      *)
(***************************************************************************)
EXTENDS ServerPool, FiniteSetTheorems, TLAPS

\* Only the holder of the per-agent lock is between the check and the insert.
LockHeld ==
    \A x \in Sessions :
        b[x].pc \in {"check", "start", "probe", "up", "insert"} => lock = x

\* ... and the slot it found empty stays empty.
SlotEmpty ==
    \A x \in Sessions : b[x].pc \in {"start", "probe", "up", "insert"} => pool = None

\* The server being started is open, and no session holds it.
InHand ==
    \A x \in Sessions : b[x].pc \in {"probe", "up", "insert"} =>
        /\ b[x].server \in Servers
        /\ server[b[x].server].proc # "none" /\ server[b[x].server].close = "no"
        /\ \A y \in Sessions : ~(b[y].pc = "has" /\ b[y].server = b[x].server)

\* A session that has a server has one that was started; a pooled server was
\* started too, and is open until the shutdown.
Started ==
    /\ \A x \in Sessions : b[x].pc = "has" =>
          b[x].server \in Servers /\ server[b[x].server].proc # "none"
    /\ pool # None =>
          /\ server[pool].proc # "none"
          /\ gateway.phase = "up" => server[pool].close = "no"
    /\ \A s \in Servers : server[s].proc = "none" => server[s].close = "no"

IInv ==
    /\ TypeOK /\ LockHeld /\ SlotEmpty /\ InHand /\ Started
    /\ RefsExact /\ InUseNotClosed

------------------------------------------------------------------------------
LEMMA HoldersFinite == \A s : IsFiniteSet(Holders(s))
  BY PoolAssumption, FS_Subset DEF Holders

LEMMA InitIInv == Init => IInv
  <1> SUFFICES ASSUME Init PROVE IInv
    OBVIOUS
  <1>1. TypeOK
    BY DEF Init, TypeOK, Server, PCs
  <1>2. LockHeld /\ SlotEmpty /\ InHand /\ Started
    BY PoolAssumption DEF Init, LockHeld, SlotEmpty, InHand, Started
  <1>3. RefsExact /\ InUseNotClosed
    BY PoolAssumption DEF Init, RefsExact, InUseNotClosed
  <1> QED BY <1>1, <1>2, <1>3 DEF IInv

\* Steps that leave the pool, the counts and the holders alone: an acquire on
\* its way, and what happens to a server by itself.
LEMMA QuietPreserves ==
    ASSUME IInv, UNCHANGED pool, gateway'.phase = gateway.phase,
           \A s \in Servers : server'[s].refCount = server[s].refCount,
           \A s \in Servers : Holders(s)' = Holders(s),
           \A s \in Servers : server[s].close = "no" => server'[s].close = "no" \/ Holders(s) = {}
    PROVE  RefsExact' /\ InUseNotClosed'
  <1>1. RefsExact'
    BY DEF IInv, RefsExact
  <1>2. InUseNotClosed'
    BY DEF IInv, InUseNotClosed
  <1> QED BY <1>1, <1>2

LEMMA AcquirePreserves ==
    ASSUME IInv, NEW x \in Sessions,
           Acquire(x) \/ Locked(x) \/ StartFails(x) \/ Healthy(x)
    PROVE  IInv'
  <1> USE PoolAssumption
  <1>1. TypeOK'
    BY DEF IInv, TypeOK, PCs, InHand, Acquire, Locked, StartFails, Healthy, Goto
  <1>2. LockHeld' /\ SlotEmpty'
    BY DEF IInv, TypeOK, LockHeld, SlotEmpty, Acquire, Locked, StartFails, Healthy, Goto
  <1>3. InHand' /\ Started'
    BY DEF IInv, TypeOK, InHand, Started, Acquire, Locked, StartFails, Healthy, Goto
  <1>4. \A s \in Servers : Holders(s)' = Holders(s)
    BY DEF IInv, TypeOK, Holders, Acquire, Locked, StartFails, Healthy, Goto
  <1>5. RefsExact' /\ InUseNotClosed'
    BY <1>4, QuietPreserves DEF Acquire, Locked, StartFails, Healthy
  <1> QED BY <1>1, <1>2, <1>3, <1>5 DEF IInv

LEMMA StartPreserves ==
    ASSUME IInv, NEW x \in Sessions, Start(x)
    PROVE  IInv'
  <1> USE PoolAssumption
  <1>a. PICK s \in Servers :
           /\ server[s].proc = "none"
           /\ server' = [server EXCEPT ![s].proc = "alive"]
           /\ Goto(x, "probe", s)
    BY DEF Start
  <1>b. b[x].pc = "start" /\ UNCHANGED <<pool, lock, gateway>>
    BY DEF Start
  <1>1. TypeOK'
    BY <1>a, <1>b DEF IInv, TypeOK, PCs, Server, Goto
  <1>2. LockHeld' /\ SlotEmpty'
    BY <1>a, <1>b DEF IInv, TypeOK, LockHeld, SlotEmpty, Goto
  <1>3. InHand'
    BY <1>a, <1>b DEF IInv, TypeOK, Server, LockHeld, InHand, Started, Goto
  <1>4. Started'
    BY <1>a, <1>b DEF IInv, TypeOK, Server, Started, Goto
  <1>5. \A t \in Servers : Holders(t)' = Holders(t)
    BY <1>a, <1>b DEF IInv, TypeOK, Holders, Goto
  <1>6. \A t \in Servers : server'[t].refCount = server[t].refCount /\ server'[t].close = server[t].close
    BY <1>a DEF IInv, TypeOK, Server
  <1>7. RefsExact' /\ InUseNotClosed'
    BY <1>b, <1>5, <1>6, QuietPreserves
  <1> QED BY <1>1, <1>2, <1>3, <1>4, <1>7 DEF IInv

\* Between the check and the insert there is one session only.
LEMMA OthersElsewhere ==
    ASSUME IInv, NEW x \in Sessions,
           b[x].pc \in {"check", "start", "probe", "up", "insert"}
    PROVE  \A y \in Sessions : y # x =>
               b[y].pc \notin {"check", "start", "probe", "up", "insert"}
  BY DEF IInv, LockHeld

LEMMA RunningPreserves ==
    ASSUME IInv, NEW x \in Sessions, Running(x)
    PROVE  IInv'
  <1> USE PoolAssumption
  <1>a. PICK s \in Servers : s = b[x].server
    BY DEF IInv, InHand, Running
  <1>b. /\ b[x].pc = "up" /\ UNCHANGED <<pool, lock, gateway>>
        /\ server' = [server EXCEPT ![s].running = TRUE]
        /\ b' = [b EXCEPT ![x] = [pc |-> "insert", server |-> s]]
    BY <1>a DEF Running, Goto
  <1>1. TypeOK'
    BY <1>b DEF IInv, TypeOK, PCs, Server
  <1>2. LockHeld' /\ SlotEmpty'
    BY <1>b DEF IInv, TypeOK, LockHeld, SlotEmpty
  <1>3. \A t \in Servers : /\ server'[t].refCount = server[t].refCount
                           /\ server'[t].close = server[t].close
                           /\ server'[t].proc = server[t].proc
    BY <1>b DEF IInv, TypeOK, Server
  <1>4. \A t \in Servers : Holders(t)' = Holders(t)
    BY <1>b DEF IInv, TypeOK, Holders
  <1>5. InHand' /\ Started'
    BY <1>a, <1>b, <1>3 DEF IInv, TypeOK, InHand, Started
  <1>6. RefsExact' /\ InUseNotClosed'
    BY <1>b, <1>3, <1>4, QuietPreserves
  <1> QED BY <1>1, <1>2, <1>5, <1>6 DEF IInv

\* A failed start closes its server, which nobody holds.
LEMMA ProbeFailsPreserves ==
    ASSUME IInv, NEW x \in Sessions, ProbeFails(x)
    PROVE  IInv'
  <1> USE PoolAssumption
  <1>a. PICK s \in Servers : s = b[x].server
    BY DEF IInv, InHand, ProbeFails
  <1>b. /\ b[x].pc = "probe" /\ UNCHANGED <<pool, gateway>> /\ lock' = None
        /\ server[s].proc = "dead"
        /\ server' = [server EXCEPT ![s].close = "done"]
        /\ b' = [b EXCEPT ![x] = [pc |-> "out", server |-> None]]
    BY <1>a DEF ProbeFails, Goto
  <1>c. pool = None /\ Holders(s) = {}
    BY <1>a, <1>b DEF IInv, SlotEmpty, InHand, Holders
  <1>1. TypeOK'
    BY <1>b DEF IInv, TypeOK, PCs, Server
  <1>d. \A y \in Sessions : y # x =>
           b[y].pc \notin {"check", "start", "probe", "up", "insert"}
    BY <1>b, OthersElsewhere
  <1>2. LockHeld' /\ SlotEmpty'
    BY <1>b, <1>c, <1>d DEF IInv, TypeOK, LockHeld, SlotEmpty
  <1>3. \A t \in Servers : /\ server'[t].refCount = server[t].refCount
                           /\ t # s => server'[t].close = server[t].close
                           /\ server'[t].proc = server[t].proc
    BY <1>b DEF IInv, TypeOK, Server
  <1>4. \A t \in Servers : Holders(t)' = Holders(t)
    BY <1>b DEF IInv, TypeOK, Holders
  <1>5. InHand'
    BY <1>b, <1>d DEF IInv, TypeOK, InHand
  <1>6. Started'
    BY <1>b, <1>c, <1>3 DEF IInv, TypeOK, Started
  <1>7. RefsExact' /\ InUseNotClosed'
    BY <1>b, <1>c, <1>3, <1>4, QuietPreserves
  <1> QED BY <1>1, <1>2, <1>5, <1>6, <1>7 DEF IInv

\* The steps of a server alone.
LEMMA ServerPreserves ==
    ASSUME IInv, NEW s \in Servers,
           Dies(s) \/ FinalizeExit(s) \/ CloseBegins(s) \/ CloseEnds(s)
    PROVE  IInv'
  <1> USE PoolAssumption
  <1>a. UNCHANGED <<pool, b, lock, gateway>>
    BY DEF Dies, FinalizeExit, CloseBegins, CloseEnds
  <1>1. server' \in [Servers -> Server]
    BY DEF IInv, TypeOK, Server, Dies, FinalizeExit, CloseBegins, CloseEnds
  <1>2. \A t \in Servers : /\ server'[t].refCount = server[t].refCount
                           /\ server[t].close = "no" <=> server'[t].close = "no"
                           /\ server[t].proc = "none" <=> server'[t].proc = "none"
    BY DEF IInv, TypeOK, Server, Started, Dies, FinalizeExit, CloseBegins, CloseEnds
  <1>3. TypeOK' /\ LockHeld' /\ SlotEmpty'
    BY <1>a, <1>1 DEF IInv, TypeOK, LockHeld, SlotEmpty
  <1>4. InHand' /\ Started'
    BY <1>a, <1>2 DEF IInv, TypeOK, InHand, Started
  <1>5. \A t \in Servers : Holders(t)' = Holders(t)
    BY <1>a DEF Holders
  <1>6. RefsExact' /\ InUseNotClosed'
    BY <1>a, <1>2, <1>5, QuietPreserves
  <1> QED BY <1>3, <1>4, <1>6 DEF IInv

\* finalizeExit can only empty the slot.
LEMMA EvictPreserves ==
    ASSUME IInv, NEW s \in Servers, Evict(s)
    PROVE  IInv'
  <1> USE PoolAssumption
  <1>a. UNCHANGED <<b, lock, gateway>> /\ pool' \in {pool, None}
    BY DEF Evict
  <1>1. server' \in [Servers -> Server]
    BY DEF IInv, TypeOK, Server, Evict
  <1>2. \A t \in Servers : /\ server'[t].refCount = server[t].refCount
                           /\ server[t].close = server'[t].close
                           /\ server[t].proc = server'[t].proc
    BY DEF IInv, TypeOK, Server, Evict
  <1>3. TypeOK' /\ LockHeld' /\ SlotEmpty'
    BY <1>a, <1>1 DEF IInv, TypeOK, LockHeld, SlotEmpty
  <1>4. InHand' /\ Started'
    BY <1>a, <1>2 DEF IInv, TypeOK, InHand, Started
  <1>5. \A t \in Servers : Holders(t)' = Holders(t)
    BY <1>a DEF Holders
  <1>6. RefsExact'
    BY <1>a, <1>2, <1>5 DEF IInv, RefsExact
  <1>7. InUseNotClosed'
    BY <1>a, <1>2, <1>5 DEF IInv, InUseNotClosed
  <1> QED BY <1>3, <1>4, <1>6, <1>7 DEF IInv

\* The shutdown empties the slot; from then on closing a server in use is right.
LEMMA ShutdownPreserves ==
    ASSUME IInv, CloseAllServers \/ GatewayExits
    PROVE  IInv'
  <1> USE PoolAssumption
  <1>a. UNCHANGED <<b, lock>> /\ pool' \in {pool, None} /\ gateway'.phase # "up"
    BY DEF IInv, TypeOK, CloseAllServers, GatewayExits
  <1>1. TypeOK'
    <2>1. server' \in [Servers -> Server]
      BY DEF IInv, TypeOK, Server, CloseAllServers, GatewayExits
    <2>2. gateway' \in [phase : {"up", "closing", "gone"}, waits : SUBSET Servers]
      BY DEF IInv, TypeOK, CloseAllServers, GatewayExits
    <2> QED BY <1>a, <2>1, <2>2 DEF IInv, TypeOK
  <1>2. \A t \in Servers : /\ server'[t].refCount = server[t].refCount
                           /\ t # pool => server[t].close = server'[t].close
                           /\ server[t].proc = server'[t].proc
    BY DEF IInv, TypeOK, Server, CloseAllServers, GatewayExits
  <1>3. LockHeld' /\ SlotEmpty'
    BY <1>a DEF IInv, TypeOK, LockHeld, SlotEmpty
  <1>4. InHand'
    BY <1>a, <1>2 DEF IInv, TypeOK, InHand, SlotEmpty
  <1>5. Started'
    BY <1>a, <1>2 DEF IInv, TypeOK, Started
  <1>6. \A t \in Servers : Holders(t)' = Holders(t)
    BY <1>a DEF Holders
  <1>7. RefsExact'
    BY <1>a, <1>2, <1>6 DEF IInv, RefsExact
  <1>8. InUseNotClosed'
    BY <1>a DEF InUseNotClosed
  <1> QED BY <1>1, <1>3, <1>4, <1>5, <1>7, <1>8 DEF IInv

\* A session attaches to the pooled server, or evicts a dead one and goes on.
LEMMA CheckPreserves ==
    ASSUME IInv, NEW x \in Sessions, Check(x)
    PROVE  IInv'
  <1> USE PoolAssumption
  <1>a. b[x].pc = "check" /\ UNCHANGED gateway
    BY DEF Check
  <1>b. \A y \in Sessions : y # x =>
           b[y].pc \notin {"check", "start", "probe", "up", "insert"}
    BY <1>a, OthersElsewhere
  <1>1. CASE pool # None /\ server[pool].running
    <2>a. PICK s \in Servers : s = pool
      BY <1>1 DEF IInv, TypeOK
    <2>b. /\ server' = [server EXCEPT ![s].refCount = @ + 1]
          /\ b' = [b EXCEPT ![x] = [pc |-> "has", server |-> s]]
          /\ lock' = None /\ pool' = s
      BY <1>1, <2>a DEF Check, Goto
    <2>1. TypeOK'
      <3>1. server' \in [Servers -> Server]
        BY <2>b DEF IInv, TypeOK, Server
      <3>2. b' \in [Sessions -> [pc : PCs, server : Servers \cup {None}]]
        BY <2>b DEF IInv, TypeOK, PCs
      <3> QED BY <1>a, <2>b, <3>1, <3>2 DEF IInv, TypeOK
    <2>2. LockHeld' /\ SlotEmpty' /\ InHand'
      BY <1>b, <2>b DEF IInv, TypeOK, LockHeld, SlotEmpty, InHand
    <2>3. \A t \in Servers : /\ server'[t].close = server[t].close
                             /\ server'[t].proc = server[t].proc
                             /\ t # s => server'[t].refCount = server[t].refCount
      BY <2>b DEF IInv, TypeOK, Server
    <2>4. Started'
      BY <1>a, <2>a, <2>b, <2>3 DEF IInv, TypeOK, Started
    <2>5. Holders(s)' = Holders(s) \cup {x} /\ x \notin Holders(s)
      BY <1>a, <2>b DEF IInv, TypeOK, Holders
    <2>6. \A t \in Servers : t # s => Holders(t)' = Holders(t)
      BY <1>a, <2>b DEF IInv, TypeOK, Holders
    <2>7. RefsExact'
      <3>1. server'[s].refCount = server[s].refCount + 1
        BY <2>b DEF IInv, TypeOK, Server
      <3>2. server[s].refCount = Cardinality(Holders(s))
        BY <2>a DEF IInv, RefsExact
      <3>3. Cardinality(Holders(s) \cup {x}) = Cardinality(Holders(s)) + 1
        BY <2>5, HoldersFinite, FS_AddElement
      <3> QED BY <2>b, <2>5, <3>1, <3>2, <3>3 DEF RefsExact
    <2>8. InUseNotClosed'
      <3>1. gateway.phase = "up" => server[s].close = "no"
        BY <2>a DEF IInv, Started
      <3> QED BY <1>a, <2>3, <2>6, <3>1 DEF IInv, InUseNotClosed
    <2> QED BY <2>1, <2>2, <2>4, <2>7, <2>8 DEF IInv
  <1>2. CASE ~(pool # None /\ server[pool].running)
    <2>b. /\ UNCHANGED <<server, lock>> /\ pool' = None
          /\ b' = [b EXCEPT ![x] = [pc |-> "start", server |-> None]]
      BY <1>2 DEF Check, Goto
    <2>1. TypeOK' /\ LockHeld' /\ SlotEmpty' /\ InHand'
      BY <1>a, <1>b, <2>b DEF IInv, TypeOK, PCs, LockHeld, SlotEmpty, InHand
    <2>2. Started'
      BY <1>a, <2>b DEF IInv, TypeOK, Started
    <2>3. \A t \in Servers : Holders(t)' = Holders(t)
      BY <1>a, <2>b DEF IInv, TypeOK, Holders
    <2>4. RefsExact' /\ InUseNotClosed'
      BY <1>a, <2>b, <2>3 DEF IInv, RefsExact, InUseNotClosed
    <2> QED BY <2>1, <2>2, <2>4 DEF IInv
  <1> QED BY <1>1, <1>2

\* A new server enters the pool with its one session.
LEMMA InsertPreserves ==
    ASSUME IInv, NEW x \in Sessions, Insert(x)
    PROVE  IInv'
  <1> USE PoolAssumption
  <1>a. PICK s \in Servers : s = b[x].server
    BY DEF IInv, InHand, Insert
  <1>b. /\ b[x].pc = "insert" /\ pool = None /\ server[s].close = "no"
        /\ server[s].proc # "none" /\ Holders(s) = {}
    BY <1>a DEF IInv, SlotEmpty, InHand, Holders, Insert
  <1>c. /\ server' = [server EXCEPT ![s].refCount = 1]
        /\ b' = [b EXCEPT ![x] = [pc |-> "has", server |-> s]]
        /\ lock' = None /\ pool' = s /\ UNCHANGED gateway
    BY <1>a, <1>b DEF Insert, Goto
  <1>d. \A y \in Sessions : y # x =>
           b[y].pc \notin {"check", "start", "probe", "up", "insert"}
    BY <1>b, OthersElsewhere
  <1>1. TypeOK'
    BY <1>c DEF IInv, TypeOK, PCs, Server
  <1>2. LockHeld' /\ SlotEmpty' /\ InHand'
    BY <1>c, <1>d DEF IInv, TypeOK, LockHeld, SlotEmpty, InHand
  <1>3. \A t \in Servers : /\ server'[t].close = server[t].close
                           /\ server'[t].proc = server[t].proc
    BY <1>c DEF IInv, TypeOK, Server
  <1>4. Started'
    BY <1>b, <1>c, <1>3 DEF IInv, TypeOK, Started
  <1>5. Holders(s)' = {x} /\ \A t \in Servers : t # s => Holders(t)' = Holders(t)
    BY <1>b, <1>c DEF IInv, TypeOK, Holders
  <1>6. RefsExact'
    <2>1. server'[s].refCount = 1
      BY <1>c DEF IInv, TypeOK, Server
    <2> QED BY <1>c, <1>5, <2>1, FS_Singleton DEF RefsExact
  <1>7. InUseNotClosed'
    BY <1>b, <1>c, <1>3, <1>5 DEF IInv, InUseNotClosed
  <1> QED BY <1>1, <1>2, <1>4, <1>6, <1>7 DEF IInv

\* A session gives its server back: a replaced one changes nothing, the pooled
\* one loses a holder, and is closed with its last.
LEMMA ReleasePreserves ==
    ASSUME IInv, NEW x \in Sessions, Release(x)
    PROVE  IInv'
  <1> USE PoolAssumption
  <1>a. PICK s \in Servers : s = b[x].server
    BY DEF IInv, Started, Release
  <1>b. /\ b[x].pc = "has" /\ UNCHANGED <<lock, gateway>>
        /\ b' = [b EXCEPT ![x] = [pc |-> "out", server |-> None]]
    BY DEF Release, Goto
  <1>c. x \in Holders(s) /\ Holders(s)' = Holders(s) \ {x}
    BY <1>a, <1>b DEF IInv, TypeOK, Holders
  <1>d. \A t \in Servers : t # s => Holders(t)' = Holders(t)
    BY <1>a, <1>b DEF IInv, TypeOK, Holders
  <1>1. CASE pool # s
    <2>a. UNCHANGED <<pool, server>>
      BY <1>a, <1>1 DEF Release
    <2>1. TypeOK' /\ LockHeld' /\ SlotEmpty' /\ InHand' /\ Started'
      BY <1>b, <2>a DEF IInv, TypeOK, PCs, LockHeld, SlotEmpty, InHand, Started
    <2>2. RefsExact'
      BY <1>1, <1>d, <2>a DEF IInv, RefsExact
    <2>3. InUseNotClosed'
      BY <1>b, <1>c, <1>d, <2>a DEF IInv, InUseNotClosed
    <2> QED BY <2>1, <2>2, <2>3 DEF IInv
  <1>2. CASE pool = s
    <2>a. /\ server' = [server EXCEPT ![s].refCount = server[s].refCount - 1,
                          ![s].close = IF server[s].refCount - 1 > 0 THEN @ ELSE "asked"]
          /\ pool' = IF server[s].refCount - 1 > 0 THEN s ELSE None
      BY <1>a, <1>2 DEF Release
    <2>b. server[s].refCount = Cardinality(Holders(s)) /\ server[s].refCount \in Nat
      BY <1>2 DEF IInv, RefsExact, TypeOK, Server
    <2>c. /\ Cardinality(Holders(s)) # 0
          /\ Cardinality(Holders(s) \ {x}) = Cardinality(Holders(s)) - 1
          /\ Cardinality(Holders(s)) = 1 => Holders(s) = {x}
      <3>1. Cardinality(Holders(s)) # 0
        BY <1>c, HoldersFinite, FS_EmptySet
      <3>2. Cardinality(Holders(s) \ {x}) = Cardinality(Holders(s)) - 1
        BY <1>c, HoldersFinite, FS_RemoveElement
      <3>3. Cardinality(Holders(s)) = 1 => Holders(s) = {x}
        BY <1>c, HoldersFinite, FS_Singleton
      <3> QED BY <3>1, <3>2, <3>3
    <2>d. /\ server'[s].refCount = server[s].refCount - 1
          /\ server'[s].close = IF server[s].refCount - 1 > 0 THEN server[s].close ELSE "asked"
          /\ server'[s].proc = server[s].proc
          /\ \A t \in Servers : t # s => server'[t] = server[t]
      BY <2>a DEF IInv, TypeOK, Server
    <2>1. TypeOK'
      <3>1. server[s].refCount - 1 \in Nat
        BY <2>b, <2>c
      <3>2. server' \in [Servers -> Server]
        <4>1. CASE server[s].refCount - 1 > 0
          <5>1. server' = [server EXCEPT ![s].refCount = server[s].refCount - 1]
            BY <2>a, <4>1 DEF IInv, TypeOK, Server
          <5> QED BY <5>1, <3>1 DEF IInv, TypeOK, Server
        <4>2. CASE ~(server[s].refCount - 1 > 0)
          <5> DEFINE u == [server EXCEPT ![s].refCount = server[s].refCount - 1]
          <5>1. u \in [Servers -> Server]
            BY <3>1 DEF IInv, TypeOK, Server
          <5>2. server' = [u EXCEPT ![s].close = "asked"]
            BY <2>a, <4>2 DEF IInv, TypeOK, Server
          <5> HIDE DEF u
          <5> QED BY <5>1, <5>2 DEF Server
        <4> QED BY <4>1, <4>2
      <3>3. b' \in [Sessions -> [pc : PCs, server : Servers \cup {None}]]
        BY <1>b DEF IInv, TypeOK, PCs
      <3> QED BY <1>b, <2>a, <3>2, <3>3 DEF IInv, TypeOK
    <2>2. LockHeld' /\ SlotEmpty'
      BY <1>2, <1>b, <2>a DEF IInv, TypeOK, LockHeld, SlotEmpty
    <2>3. InHand'
      BY <1>2, <1>b DEF IInv, TypeOK, SlotEmpty, InHand
    <2>4. Started'
      BY <1>2, <1>b, <2>a, <2>d DEF IInv, TypeOK, Started
    <2>5. RefsExact'
      BY <1>c, <2>a, <2>b, <2>c, <2>d DEF RefsExact
    <2>6. InUseNotClosed'
      <3> SUFFICES ASSUME gateway.phase = "up", NEW t \in Servers, server'[t].close # "no"
                   PROVE  Holders(t)' = {}
        BY <1>b DEF InUseNotClosed
      <3>1. CASE t # s
        BY <3>1, <1>d, <2>d DEF IInv, InUseNotClosed
      <3>2. CASE t = s
        <4>1. server[s].close = "no"
          BY <1>2 DEF IInv, Started
        <4>2. server[s].refCount = 1
          BY <3>2, <4>1, <2>b, <2>c, <2>d
        <4> QED BY <3>2, <4>2, <1>c, <2>b, <2>c
      <3> QED BY <3>1, <3>2
    <2> QED BY <2>1, <2>2, <2>3, <2>4, <2>5, <2>6 DEF IInv
  <1> QED BY <1>1, <1>2

LEMMA NextPreserves == IInv /\ [Next]_vars => IInv'
  <1> SUFFICES ASSUME IInv, [Next]_vars PROVE IInv'
    OBVIOUS
  <1>1. ASSUME NEW x \in Sessions, Acquire(x) \/ AcquireStep(x) \/ Release(x)
        PROVE  IInv'
    BY <1>1, AcquirePreserves, StartPreserves, RunningPreserves, ProbeFailsPreserves,
       CheckPreserves, InsertPreserves, ReleasePreserves DEF AcquireStep
  <1>2. ASSUME NEW s \in Servers, ServerStep(s)
        PROVE  IInv'
    BY <1>2, ServerPreserves, EvictPreserves DEF ServerStep
  <1>3. CASE UNCHANGED vars
    <2>1. \A t \in Servers : Holders(t)' = Holders(t)
      BY <1>3 DEF vars, Holders
    <2>2. RefsExact' /\ InUseNotClosed'
      BY <1>3, <2>1 DEF IInv, RefsExact, InUseNotClosed, vars
    <2> QED BY <1>3, <2>2 DEF IInv, TypeOK, LockHeld, SlotEmpty, InHand, Started, vars
  <1> QED BY <1>1, <1>2, <1>3, ShutdownPreserves DEF Next

------------------------------------------------------------------------------
\* The inductive invariant holds in every reachable state of the pool.
THEOREM PoolInvariant == Spec => []IInv
  BY InitIInv, NextPreserves, PTL DEF Spec

\* The pool's state is well typed: no release takes a count below zero.
THEOREM PoolTypeOK == Spec => []TypeOK
  <1>1. IInv => TypeOK
    BY DEF IInv
  <1> QED BY <1>1, PoolInvariant, PTL

\* The pooled server's refCount is the number of sessions that hold it,
\* whatever dies, is evicted or replaced in the meantime.
THEOREM PoolRefsExact == Spec => []RefsExact
  <1>1. IInv => RefsExact
    BY DEF IInv
  <1> QED BY <1>1, PoolInvariant, PTL

\* releaseServer and Start never close a server some session still uses.
THEOREM PoolInUseNotClosed == Spec => []InUseNotClosed
  <1>1. IInv => InUseNotClosed
    BY DEF IInv
  <1> QED BY <1>1, PoolInvariant, PTL

\* The branch of acquireServer marked UNREACHABLE is unreachable.
THEOREM PoolNoRacedInsert == Spec => []NoRacedInsert
  <1>1. IInv => NoRacedInsert
    BY DEF IInv, SlotEmpty, NoRacedInsert
  <1> QED BY <1>1, PoolInvariant, PTL

\* A healthy successor is never evicted by the exit handler of a dead server, a
\* stale release or a new acquire (finalizeExit and releaseServer compare
\* addresses): a pooled server leaves the pool by its own death, its last
\* release or the shutdown, for any number of sessions and servers.
THEOREM PoolSuccessorKept == Spec => SuccessorKept
  <1> DEFINE Kept(s) == pool = s /\ pool' # s =>
                 \/ server[s].final # "no" \/ server'[s].close # "no" \/ ~server[s].running
  <1>1. ASSUME IInv, [Next]_vars, NEW s \in Servers
        PROVE  Kept(s)
    <2> SUFFICES ASSUME pool = s, pool' # s
                 PROVE  \/ server[s].final # "no" \/ server'[s].close # "no"
                        \/ ~server[s].running
      OBVIOUS
    <2> USE PoolAssumption
    <2>0. server \in [Servers -> Server] /\ pool # None
      BY <1>1 DEF IInv, TypeOK
    <2>1. ASSUME NEW x \in Sessions, Acquire(x) \/ AcquireStep(x)
          PROVE  ~server[s].running
      <3>1. Check(x)
        BY <1>1, <2>1, <2>0 DEF AcquireStep, Acquire, Locked, Start, StartFails, Healthy, ProbeFails,
           Running, Insert
      <3> QED BY <2>0, <3>1 DEF Check
    <2>2. ASSUME NEW x \in Sessions, Release(x)
          PROVE  server'[s].close # "no"
      BY <2>0, <2>2 DEF Release, Server
    <2>3. ASSUME NEW t \in Servers, ServerStep(t)
          PROVE  server[s].final # "no"
      <3>1. Evict(t) /\ t = s
        BY <2>3 DEF ServerStep, Dies, FinalizeExit, Evict, CloseBegins, CloseEnds
      <3> QED BY <3>1 DEF Evict
    <2>4. CASE CloseAllServers \/ GatewayExits
      BY <2>0, <2>4 DEF CloseAllServers, GatewayExits, Server
    <2>5. ~UNCHANGED vars
      BY DEF vars
    <2> QED BY <1>1, <2>1, <2>2, <2>3, <2>4, <2>5 DEF Next
  <1>2. IInv /\ [Next]_vars => [\A s \in Servers : Kept(s)]_vars
    BY <1>1
  <1> QED BY <1>2, PoolInvariant, PTL DEF Spec, SuccessorKept
=============================================================================

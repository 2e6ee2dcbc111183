--------------------------- MODULE UsageHoldProofs ---------------------------
(***************************************************************************)
(* One account's usage hold, for any windows, agents, goroutines, spawns   *)
(* and background work: the paused set is exact, a hold's start misses no  *)
(* registered turn, and what the store has is what the account has.        *)
(*                                                                         *)
(* PausedExact needs to know where a turn can be while it is registered    *)
(* and where it can carry an old hit (Placed).  InterruptCovers needs that *)
(* no registration is newer than the account (SinceBounded); its bound on  *)
(* the epochs needs that only a report starts a hold, which rests on the   *)
(* phase being the windows' (PhaseExact).                                  *)
(***************************************************************************)
EXTENDS UsageHold, TLAPS

\* A turn is registered from UsageHoldTurn to its done; one that has not run yet
\* in this process carries no hit.  Only background work has a record to save.
Placed ==
    /\ \A t \in Turns : t \in registered <=> pc[t] \in {"gate", "run", "ended"}
    /\ \A t \in Turns : pc[t] \in {"idle", "check"} => t \notin hit
    /\ \A t \in Turns : pc[t] = "save" => t \in Works

\* The phase follows the windows.
PhaseExact == phase = PhaseOf(windows)

\* Every change of the windows is in the store before anyone is told of it.
StoredExact == stored = windows

\* Hold starts are at most the reports, and a restart into a hold.
EpochBounded == epoch <= reports + 1

SinceBounded == \A t \in Turns : since[t] <= epoch

\* PausedExact, turn by turn.
PausedIff ==
    \A t \in Turns : t \in paused <=>
        \/ pc[t] \in Waiting
        \/ t \in hit /\ (t \in registered \/ pc[t] \in {"save", "pause"})

IInv ==
    /\ TypeOK /\ Placed /\ PhaseExact /\ StoredExact /\ EpochBounded /\ SinceBounded
    /\ PausedIff /\ InterruptCovers

PCs == {"idle", "check", "register", "gate", "run", "ended", "save", "pause", "over"} \cup Waiting

------------------------------------------------------------------------------
LEMMA PhaseType == \A ws : PhaseOf(ws) \in {"open", "hold", "stop"}
  BY DEF PhaseOf

\* The account is open exactly when no window has an entry.
LEMMA PhaseOpen ==
    ASSUME NEW ws \in [Windows -> Entry]
    PROVE  PhaseOf(ws) = "open" <=> \A w \in Windows : ws[w] = "none"
  BY DEF PhaseOf, Entry

LEMMA InitIInv == Init => IInv
  <1> SUFFICES ASSUME Init PROVE IInv
    OBVIOUS
  <1> USE HoldAssumption DEF Init
  <1>1. TypeOK
    BY DEF TypeOK, NoCall, Entry, Waiting
  <1>2. Placed /\ StoredExact /\ EpochBounded /\ SinceBounded
    BY DEF Placed, StoredExact, EpochBounded, SinceBounded
  <1>3. PhaseExact
    <2>1. windows \in [Windows -> Entry] /\ \A w \in Windows : windows[w] = "none"
      BY DEF Entry
    <2> QED BY <2>1, PhaseOpen DEF PhaseExact
  <1>4. PausedIff /\ InterruptCovers
    BY DEF PausedIff, InterruptCovers, Waiting
  <1> QED BY <1>1, <1>2, <1>3, <1>4 DEF IInv

LEMMA StillBelow == \A i, j, k \in Nat : i <= j + 1 /\ k >= j => i <= k + 1
  OBVIOUS

\* What settleLocked does to the account, whoever calls it: the registry's part
\* of the invariant, and no call to an agent is forgotten.
LEMMA SettleKeeps ==
    ASSUME IInv, NEW g \in Goroutines,
           NEW ws \in [Windows -> Entry], NEW past, NEW changed \in BOOLEAN,
           Settle(g, ws, past, changed),
           reports' \in 0..MaxReports,
           \/ reports' = reports + 1 /\ changed
           \/ reports' = reports /\ ws = windows
    PROVE  /\ windows' \in [Windows -> Entry] /\ stored' = windows' /\ due' = {}
           /\ phase' \in {"open", "hold", "stop"} /\ phase' = PhaseOf(windows')
           /\ epoch' \in 0..(MaxReports + 1) /\ epoch' <= reports' + 1 /\ epoch' >= epoch
           /\ calls' \in [Goroutines -> [left : SUBSET Agents, epoch : 0..(MaxReports + 1)]]
           /\ epoch' = epoch => calls' = calls
           /\ epoch' # epoch => /\ calls'[g].left = Agents /\ calls'[g].epoch = epoch'
                                /\ epoch' > epoch
  <1> DEFINE now == [w \in Windows |-> IF w \in past THEN "none" ELSE ws[w]]
             start == phase = "open" /\ PhaseOf(now) # "open"
  <1>0. /\ windows' = now /\ due' = {} /\ phase' = PhaseOf(now)
        /\ stored' = IF changed \/ now # ws THEN now ELSE stored
        /\ epoch' = IF start THEN epoch + 1 ELSE epoch
        /\ calls' = IF start THEN [calls EXCEPT ![g] = [left |-> Agents, epoch |-> epoch + 1]]
                             ELSE calls
    BY DEF Settle
  <1>1. now \in [Windows -> Entry]
    BY DEF Entry
  <1> HIDE DEF now
  <1>2. stored' = windows'
    BY <1>0 DEF IInv, StoredExact
  <1>3. start => reports' = reports + 1
    <2> SUFFICES ASSUME start, reports' = reports, ws = windows PROVE FALSE
      OBVIOUS
    <2>1. \A w \in Windows : windows[w] = "none"
      BY PhaseOpen DEF IInv, TypeOK, PhaseExact
    <2>2. \A w \in Windows : now[w] = "none"
      BY <2>1 DEF now
    <2> QED BY <1>1, <2>2, PhaseOpen
  <1>4. /\ epoch \in 0..(MaxReports + 1) /\ epoch <= reports + 1
        /\ MaxReports \in Nat /\ reports \in 0..MaxReports
        /\ calls \in [Goroutines -> [left : SUBSET Agents, epoch : 0..(MaxReports + 1)]]
    BY HoldAssumption DEF IInv, TypeOK, EpochBounded
  <1>5. CASE start
    <2>1. /\ epoch' = epoch + 1 /\ reports' = reports + 1
          /\ calls' = [calls EXCEPT ![g] = [left |-> Agents, epoch |-> epoch']]
      BY <1>0, <1>3, <1>5
    <2>2. epoch' \in 0..(MaxReports + 1) /\ epoch' <= reports' + 1 /\ epoch' > epoch
      <3> HIDE DEF start
      <3> QED BY <1>4, <2>1
    <2>3. [left |-> Agents, epoch |-> epoch'] \in [left : SUBSET Agents, epoch : 0..(MaxReports + 1)]
      BY <2>2
    <2>4. /\ calls' \in [Goroutines -> [left : SUBSET Agents, epoch : 0..(MaxReports + 1)]]
          /\ calls'[g] = [left |-> Agents, epoch |-> epoch']
      BY <1>4, <2>1, <2>3
    <2>5. epoch' # epoch /\ epoch' >= epoch
      BY <2>2, <1>4
    <2> QED BY <1>0, <1>1, <1>2, <2>2, <2>4, <2>5, PhaseType
  <1>6. CASE ~start
    <2>1. epoch' = epoch /\ calls' = calls
      BY <1>0, <1>6
    <2>2. reports' >= reports /\ reports' \in Nat
      <3>1. reports' = reports + 1 \/ reports' = reports
        OBVIOUS
      <3> HIDE DEF start
      <3> QED BY <1>4, <3>1
    <2>3. epoch' \in 0..(MaxReports + 1) /\ epoch' <= reports' + 1 /\ epoch' >= epoch
      <3> HIDE DEF start
      <3>1. epoch' \in Nat /\ reports \in Nat /\ epoch' <= reports + 1 /\ epoch' >= epoch
        BY <1>4, <2>1
      <3>2. epoch' <= reports' + 1
        BY <3>1, <2>2, StillBelow
      <3> QED BY <1>4, <2>1, <3>1, <3>2
    <2> QED BY <1>0, <1>1, <1>2, <1>4, <2>1, <2>3, PhaseType
  <1> QED BY <1>5, <1>6

------------------------------------------------------------------------------
(* The invariant in two halves: what the registry keeps and the marks of   *)
(* the registered turns, and where the turns are.                          *)

AccountPart ==
    /\ windows \in [Windows -> Entry] /\ stored \in [Windows -> Entry]
    /\ due \subseteq {w \in Windows : windows[w] \in {"high", "reached"}}
    /\ phase \in {"open", "hold", "stop"} /\ epoch \in 0..(MaxReports + 1)
    /\ calls \in [Goroutines -> [left : SUBSET Agents, epoch : 0..(MaxReports + 1)]]
    /\ since \in [Turns -> 0..(MaxReports + 1)] /\ reports \in 0..MaxReports
    /\ PhaseExact /\ StoredExact /\ EpochBounded /\ SinceBounded /\ InterruptCovers

TurnPart ==
    /\ pc \in [Turns -> PCs]
    /\ registered \subseteq Turns /\ hit \subseteq Turns /\ paused \subseteq Turns
    /\ record \subseteq Works /\ stopped \subseteq Spawns
    /\ fate \in [Turns -> {"none", "ran", "refused", "stopped", "cold", "lost"}]
    /\ crashes \in 0..MaxCrashes
    /\ Placed /\ PausedIff

LEMMA Halves == IInv <=> AccountPart /\ TurnPart
  BY DEF IInv, TypeOK, AccountPart, TurnPart, PCs

LEMMA HalvesNext == AccountPart' /\ TurnPart' => IInv'
  BY DEF IInv, TypeOK, AccountPart, TurnPart, PCs

\* A step of a turn's owner that leaves the registry and the marks alone.
LEMMA AccountSame ==
    ASSUME IInv, UNCHANGED <<account, marks, reports>>
    PROVE  AccountPart'
  BY Halves
     DEF AccountPart, account, marks, PhaseExact, StoredExact, EpochBounded,
         SinceBounded,
                InterruptCovers, PhaseOf

\* A settle by any goroutine, with the marks left alone: a hold that starts has
\* every agent to be called with the new epoch, which is above every mark.
LEMMA AccountSettles ==
    ASSUME IInv, NEW g \in Goroutines,
           NEW ws \in [Windows -> Entry], NEW past, NEW changed \in BOOLEAN,
           Settle(g, ws, past, changed), UNCHANGED marks,
           reports' \in 0..MaxReports,
           \/ reports' = reports + 1 /\ changed
           \/ reports' = reports /\ ws = windows
    PROVE  AccountPart'
  <1> USE DEF IInv, TypeOK
  <1>1. /\ windows' \in [Windows -> Entry] /\ stored' = windows' /\ due' = {}
        /\ phase' \in {"open", "hold", "stop"} /\ phase' = PhaseOf(windows')
        /\ epoch' \in 0..(MaxReports + 1) /\ epoch' <= reports' + 1 /\ epoch' >= epoch
        /\ calls' \in [Goroutines -> [left : SUBSET Agents, epoch : 0..(MaxReports + 1)]]
        /\ epoch' = epoch => calls' = calls
        /\ epoch' # epoch => /\ calls'[g].left = Agents /\ calls'[g].epoch = epoch'
                             /\ epoch' > epoch
    BY SettleKeeps
  <1>2. registered' = registered /\ since' = since /\ hit' = hit
    BY DEF marks
  <1>3. \A t \in Turns : /\ since[t] \in 0..(MaxReports + 1) /\ since[t] <= epoch
                         /\ AgentOf[t] \in Agents
    BY HoldAssumption DEF SinceBounded
  <1>4. MaxReports \in Nat /\ epoch \in Nat /\ epoch' \in Nat
    BY <1>1, HoldAssumption
  <1>5. SinceBounded'
    <2> SUFFICES ASSUME NEW t \in Turns PROVE since[t] <= epoch'
      BY <1>2 DEF SinceBounded
    <2>1. since[t] \in Nat /\ since[t] <= epoch
      BY <1>3, <1>4
    <2> QED BY <2>1, <1>1, <1>4
  <1>6. InterruptCovers'
    <2> SUFFICES ASSUME NEW t \in registered \ hit, since[t] < epoch'
                 PROVE  \E h \in Goroutines : /\ AgentOf[t] \in calls'[h].left
                                              /\ calls'[h].epoch > since[t]
      BY <1>2 DEF InterruptCovers
    <2>1. CASE epoch' = epoch
      BY <1>1, <2>1 DEF InterruptCovers
    <2>2. CASE epoch' # epoch
      <3>1. t \in Turns
        OBVIOUS
      <3>2. AgentOf[t] \in calls'[g].left
        BY <1>1, <1>3, <2>2, <3>1
      <3>3. calls'[g].epoch > since[t]
        BY <1>1, <1>3, <1>4, <2>2, <3>1
      <3> QED BY <3>2, <3>3
    <2> QED BY <2>1, <2>2
  <1> QED BY <1>1, <1>2, <1>5, <1>6 DEF AccountPart, PhaseExact, StoredExact, EpochBounded

\* State, called by any goroutine.
LEMMA ReadKeeps ==
    ASSUME IInv, NEW g \in Goroutines, ReadState(g), UNCHANGED <<marks, reports>>
    PROVE  AccountPart'
  <1>1. windows \in [Windows -> Entry] /\ reports \in 0..MaxReports
    BY DEF IInv, TypeOK
  <1>2. Settle(g, windows, due, FALSE)
    BY DEF ReadState
  <1> QED BY <1>1, <1>2, AccountSettles

\* One turn moves to p: it is enough that what is said of every turn still holds
\* of this one.
LEMMA TurnMoves ==
    ASSUME IInv, NEW t \in Turns, NEW p \in PCs, Goto(t, p),
           registered' \subseteq Turns, hit' \subseteq Turns, paused' \subseteq Turns,
           \A u \in Turns \ {t} : /\ u \in registered' <=> u \in registered
                                  /\ u \in hit' <=> u \in hit
                                  /\ u \in paused' <=> u \in paused,
           t \in registered' <=> p \in {"gate", "run", "ended"},
           p \in {"idle", "check"} => t \notin hit', p = "save" => t \in Works,
           t \in paused' <=> \/ p \in Waiting
                             \/ t \in hit' /\ (t \in registered' \/ p \in {"save", "pause"}),
           record' \subseteq Works, UNCHANGED <<stopped, crashes>>,
           fate' \in [Turns -> {"none", "ran", "refused", "stopped", "cold", "lost"}]
    PROVE  TurnPart'
  <1>1. TurnPart
    BY Halves
  <1>2. /\ pc' \in [Turns -> PCs] /\ pc'[t] = p
        /\ \A u \in Turns \ {t} : pc'[u] = pc[u]
    BY <1>1 DEF TurnPart, Goto
  <1>3. Placed'
    BY <1>1, <1>2 DEF TurnPart, Placed
  <1>4. PausedIff'
    <2> SUFFICES ASSUME NEW u \in Turns
                 PROVE  u \in paused' <=>
                          \/ pc'[u] \in Waiting
                          \/ u \in hit' /\ (u \in registered' \/ pc'[u] \in {"save", "pause"})
      BY DEF PausedIff
    <2>1. CASE u = t
      BY <1>2, <2>1
    <2>2. CASE u # t
      BY <1>1, <1>2, <2>2 DEF TurnPart, PausedIff
    <2> QED BY <2>1, <2>2
  <1> QED BY <1>1, <1>2, <1>3, <1>4 DEF TurnPart

\* The same for a turn that was in no set and is in none.
LEMMA TurnSame ==
    ASSUME IInv, UNCHANGED <<pc, marks, paused, fate, crashes>>,
           record' \subseteq Works, stopped' \subseteq Spawns
    PROVE  TurnPart'
  BY Halves DEF TurnPart, marks, Placed, PausedIff

------------------------------------------------------------------------------
(* Every action preserves the invariant.                                   *)

LEMMA ObservePreserves ==
    ASSUME IInv, NEW g \in Observers, NEW w \in Windows, NEW r \in Reports, Observe(g, w, r)
    PROVE  IInv'
  <1> DEFINE ws == CASE r = "low" -> [windows EXCEPT ![w] = "none"]
                     [] r = "unclear" -> windows
                     [] OTHER -> [windows EXCEPT ![w] = r]
             past == IF r = "unclear" THEN due ELSE due \ {w}
  <1>1. /\ Settle(g, ws, past, TRUE) /\ reports < MaxReports /\ reports' = reports + 1
        /\ UNCHANGED <<pc, marks, paused, record, stopped, fate, crashes>>
    BY DEF Observe
  <1>2. ws \in [Windows -> Entry]
    <2>1. windows \in [Windows -> Entry] /\ (r \in Entry \/ r \in {"low", "unclear"})
      BY HoldAssumption DEF IInv, TypeOK, Entry
    <2>2. [windows EXCEPT ![w] = "none"] \in [Windows -> Entry]
      BY <2>1 DEF Entry
    <2>3. r \in Entry => [windows EXCEPT ![w] = r] \in [Windows -> Entry]
      BY <2>1
    <2>4. CASE r = "low"
      BY <2>2, <2>4
    <2>5. CASE r = "unclear"
      BY <2>1, <2>5
    <2>6. CASE r \notin {"low", "unclear"}
      BY <2>1, <2>3, <2>6
    <2> QED BY <2>4, <2>5, <2>6
  <1>3. reports' \in 0..MaxReports
    BY <1>1, HoldAssumption DEF IInv, TypeOK
  <1>4. g \in Goroutines
    BY DEF Goroutines
  <1> HIDE DEF ws, past
  <1>5. AccountPart'
    BY <1>1, <1>2, <1>3, <1>4, AccountSettles
  <1>6. TurnPart'
    BY <1>1, TurnSame DEF IInv, TypeOK
  <1> QED BY <1>5, <1>6, HalvesNext

LEMMA TickPreserves ==
    ASSUME IInv, NEW g \in Observers, Tick(g)
    PROVE  IInv'
  <1>1. g \in Goroutines
    BY DEF Goroutines
  <1>2. AccountPart'
    BY <1>1, ReadKeeps DEF Tick, bounds
  <1>3. TurnPart'
    BY TurnSame DEF Tick, IInv, TypeOK, bounds
  <1> QED BY <1>2, <1>3, HalvesNext

LEMMA ResetPassesPreserves ==
    ASSUME IInv, NEW w \in Windows, ResetPasses(w)
    PROVE  IInv'
  <1>1. AccountPart'
    BY Halves
       DEF ResetPasses, AccountPart, bounds, marks, PhaseExact, StoredExact,
           EpochBounded,
                  SinceBounded, InterruptCovers, PhaseOf
  <1>2. TurnPart'
    BY TurnSame DEF ResetPasses, IInv, TypeOK, bounds
  <1> QED BY <1>1, <1>2, HalvesNext

\* The interrupt of one agent's turns: every one of them is hit now, so nobody
\* needs this call any more.
LEMMA InterruptPreserves ==
    ASSUME IInv, NEW g \in Goroutines, NEW a \in Agents, Interrupt(g, a)
    PROVE  IInv'
  <1> DEFINE Call == [left : SUBSET Agents, epoch : 0..(MaxReports + 1)]
  <1>1. /\ calls' = [calls EXCEPT ![g].left = @ \ {a}]
        /\ UNCHANGED <<windows, due, phase, epoch, stored, pc, registered, since, record,
                       stopped, fate, reports, crashes>>
        /\ \A t : t \in hit' <=> t \in hit \/ (t \in registered /\ AgentOf[t] = a)
        /\ \A t : t \in paused' <=> t \in paused \/ (t \in registered /\ AgentOf[t] = a)
    BY DEF Interrupt, bounds
  <1>2. calls \in [Goroutines -> Call]
    BY DEF IInv, TypeOK
  <1>3. calls[g] \in Call
    BY <1>2
  <1>4. calls' = [calls EXCEPT ![g] = [left |-> calls[g].left \ {a}, epoch |-> calls[g].epoch]]
    <2>1. [calls[g] EXCEPT !.left = calls[g].left \ {a}]
              = [left |-> calls[g].left \ {a}, epoch |-> calls[g].epoch]
      BY <1>3
    <2>2. calls' = [calls EXCEPT ![g] = [calls[g] EXCEPT !.left = calls[g].left \ {a}]]
      BY <1>1, <1>2
    <2> QED BY <2>1, <2>2
  <1>5. [left |-> calls[g].left \ {a}, epoch |-> calls[g].epoch] \in Call
    BY <1>3
  <1>6. /\ calls' \in [Goroutines -> Call]
        /\ \A h \in Goroutines, b \in Agents : b \in calls[h].left /\ b # a => b \in calls'[h].left
        /\ \A h \in Goroutines : calls'[h].epoch = calls[h].epoch
    BY <1>2, <1>4, <1>5
  <1>7. InterruptCovers'
    <2> SUFFICES ASSUME NEW t \in registered', t \notin hit', since'[t] < epoch'
                 PROVE  \E h \in Goroutines : /\ AgentOf[t] \in calls'[h].left
                                              /\ calls'[h].epoch > since'[t]
      BY DEF InterruptCovers
    <2>1. t \in registered \ hit /\ since[t] < epoch /\ AgentOf[t] # a /\ t \in Turns
      BY <1>1 DEF IInv, TypeOK
    <2>2. AgentOf[t] \in Agents
      BY <2>1, HoldAssumption
    <2>3. PICK h \in Goroutines : AgentOf[t] \in calls[h].left /\ calls[h].epoch > since[t]
      BY <2>1 DEF IInv, InterruptCovers
    <2>4. AgentOf[t] \in calls'[h].left /\ calls'[h].epoch > since'[t]
      BY <1>1, <1>6, <2>1, <2>2, <2>3
    <2> QED BY <2>4
  <1>8. AccountPart'
    BY <1>1, <1>6, <1>7, Halves
       DEF AccountPart, PhaseExact, StoredExact, EpochBounded, SinceBounded, PhaseOf
  <1>9. TurnPart'
    <2>1. TurnPart
      BY Halves
    <2>2. hit' \subseteq Turns /\ paused' \subseteq Turns
      BY <1>1, <2>1 DEF TurnPart
    <2>3. Placed'
      BY <1>1, <2>1 DEF TurnPart, Placed
    <2>4. PausedIff'
      BY <1>1, <2>1 DEF TurnPart, PausedIff
    <2> QED BY <1>1, <2>1, <2>2, <2>3, <2>4 DEF TurnPart
  <1> QED BY <1>8, <1>9, HalvesNext

\* What the owner of a turn may assume of the turn and of the sets.
LEMMA TurnFacts ==
    ASSUME IInv, NEW t \in Turns
    PROVE  /\ pc \in [Turns -> PCs] /\ pc[t] \in PCs
           /\ registered \subseteq Turns /\ hit \subseteq Turns /\ paused \subseteq Turns
           /\ record \subseteq Works /\ stopped \subseteq Spawns
           /\ fate \in [Turns -> {"none", "ran", "refused", "stopped", "cold", "lost"}]
           /\ t \in registered <=> pc[t] \in {"gate", "run", "ended"}
           /\ pc[t] \in {"idle", "check"} => t \notin hit
           /\ pc[t] = "save" => t \in Works
           /\ t \in paused <=> \/ pc[t] \in Waiting
                               \/ t \in hit /\ (t \in registered \/ pc[t] \in {"save", "pause"})
           /\ t \in Goroutines /\ (t \in Spawns \/ t \in Works) /\ ~(t \in Spawns /\ t \in Works)
  BY HoldAssumption DEF IInv, TypeOK, Placed, PausedIff, PCs, Turns, Goroutines

LEMMA BeginPreserves ==
    ASSUME IInv, NEW t \in Turns, Begin(t)
    PROVE  IInv'
  <1>1. AccountPart'
    BY AccountSame DEF Begin, bounds
  <1>2. PICK p \in {"check", "register"} : Goto(t, p)
    BY DEF Begin
  <1>3. /\ pc[t] = "idle" /\ registered' = registered /\ hit' = hit /\ paused' = paused
        /\ UNCHANGED <<record, stopped, fate, crashes>>
    BY DEF Begin, Step, marks, bounds
  <1>4. TurnPart'
    BY <1>2, <1>3, TurnFacts, TurnMoves DEF PCs, Waiting
  <1> QED BY <1>1, <1>4, HalvesNext

LEMMA CheckPreserves ==
    ASSUME IInv, NEW t \in Turns, Check(t)
    PROVE  IInv'
  <1>1. AccountPart'
    BY ReadKeeps, TurnFacts DEF Check, bounds
  <1>2. PICK p \in {"register", "pause"} : Goto(t, p)
    BY DEF Check
  <1>3. /\ pc[t] = "check" /\ registered' = registered /\ hit' = hit /\ paused' = paused
        /\ UNCHANGED <<record, stopped, fate, crashes>>
    BY DEF Check, Step, marks, bounds
  <1>4. TurnPart'
    BY <1>2, <1>3, TurnFacts, TurnMoves DEF PCs, Waiting
  <1> QED BY <1>1, <1>4, HalvesNext

\* A turn registers in the epoch of the moment: no start has missed it yet.
LEMMA RegisterPreserves ==
    ASSUME IInv, NEW t \in Turns, Register(t)
    PROVE  IInv'
  <1>1. AccountPart
    BY Halves
  <1>2. /\ UNCHANGED <<windows, due, phase, epoch, stored, calls, paused, record, stopped, fate,
                       reports, crashes>>
        /\ since' = [since EXCEPT ![t] = epoch] /\ pc[t] = "register"
        /\ registered' = registered \cup {t} /\ hit' = hit \ {t}
    BY DEF Register, Step, account, bounds
  <1>3. /\ since' \in [Turns -> 0..(MaxReports + 1)] /\ since'[t] = epoch
        /\ \A u \in Turns \ {t} : since'[u] = since[u]
    BY <1>1, <1>2 DEF AccountPart
  <1>4. SinceBounded'
    BY <1>1, <1>2, <1>3, HoldAssumption DEF AccountPart, SinceBounded
  <1>5. InterruptCovers'
    <2> SUFFICES ASSUME NEW u \in registered', u \notin hit', since'[u] < epoch'
                 PROVE  \E g \in Goroutines : /\ AgentOf[u] \in calls'[g].left
                                              /\ calls'[g].epoch > since'[u]
      BY DEF InterruptCovers
    <2>1. u # t
      BY <1>1, <1>2, <1>3, HoldAssumption DEF AccountPart
    <2>2. u \in registered \ hit /\ u \in Turns \ {t}
      BY <1>2, <2>1, TurnFacts
    <2>3. since'[u] = since[u] /\ since[u] < epoch
      BY <1>2, <1>3, <2>2
    <2> QED BY <1>1, <1>2, <2>2, <2>3 DEF AccountPart, InterruptCovers
  <1>6. AccountPart'
    BY <1>1, <1>2, <1>3, <1>4, <1>5
       DEF AccountPart, PhaseExact, StoredExact, EpochBounded, PhaseOf
  <1>7. PICK p \in {"gate", "run"} : Goto(t, p)
    BY DEF Register
  <1>8. TurnPart'
    BY <1>2, <1>7, TurnFacts, TurnMoves DEF PCs, Waiting
  <1> QED BY <1>6, <1>8, HalvesNext

LEMMA GatePreserves ==
    ASSUME IInv, NEW t \in Turns, Gate(t)
    PROVE  IInv'
  <1>1. AccountPart'
    BY ReadKeeps, TurnFacts DEF Gate, bounds
  <1>2. PICK p \in {"run", "ended"} : Goto(t, p)
    BY DEF Gate
  <1>3. /\ pc[t] = "gate" /\ registered' = registered /\ hit' = hit /\ paused' = paused
        /\ UNCHANGED <<record, stopped, crashes>>
    BY DEF Gate, Step, marks, bounds
  <1>4. fate' \in [Turns -> {"none", "ran", "refused", "stopped", "cold", "lost"}]
    BY TurnFacts DEF Gate
  <1>5. TurnPart'
    BY <1>2, <1>3, <1>4, TurnFacts, TurnMoves DEF PCs, Waiting
  <1> QED BY <1>1, <1>5, HalvesNext

LEMMA TurnEndsPreserves ==
    ASSUME IInv, NEW t \in Turns, TurnEnds(t)
    PROVE  IInv'
  <1>1. AccountPart'
    BY AccountSame DEF TurnEnds, bounds
  <1>2. /\ pc[t] = "run" /\ registered' = registered /\ hit' = hit /\ paused' = paused
        /\ UNCHANGED <<record, stopped, crashes>> /\ Goto(t, "ended")
    BY DEF TurnEnds, Step, marks, bounds
  <1>3. fate' \in [Turns -> {"none", "ran", "refused", "stopped", "cold", "lost"}]
    BY TurnFacts DEF TurnEnds
  <1>4. TurnPart'
    BY <1>2, <1>3, TurnFacts, TurnMoves DEF PCs, Waiting
  <1> QED BY <1>1, <1>4, HalvesNext

\* A step that takes turns out of the registered or the hit, but hits no fewer
\* of those that stay.
LEMMA FewerRegistered ==
    ASSUME IInv, UNCHANGED <<account, since, reports>>,
           \A u : u \in registered' => u \in registered,
           \A u \in registered' : u \in hit => u \in hit'
    PROVE  AccountPart'
  <1>1. AccountPart
    BY Halves
  <1>2. InterruptCovers'
    BY <1>1 DEF AccountPart, InterruptCovers, account
  <1> QED BY <1>1, <1>2 DEF AccountPart, account, PhaseExact, StoredExact, EpochBounded,
                           SinceBounded, PhaseOf

LEMMA DonePreserves ==
    ASSUME IInv, NEW t \in Turns, Done(t)
    PROVE  IInv'
  <1>1. /\ pc[t] = "ended" /\ registered' = registered \ {t} /\ hit' = hit
        /\ UNCHANGED <<account, since, stopped, reports, crashes>>
    BY DEF Done, Step, bounds
  <1>2. AccountPart'
    BY <1>1, FewerRegistered
  <1>3. /\ record' \subseteq Works
        /\ fate' \in [Turns -> {"none", "ran", "refused", "stopped", "cold", "lost"}]
    BY TurnFacts DEF Done
  <1>4. \/ t \notin hit /\ Goto(t, "over") /\ paused' = paused
        \/ Goto(t, "over") /\ paused' = paused \ {t}
        \/ t \in hit /\ ((Goto(t, "save") /\ t \in Works) \/ Goto(t, "pause")) /\ paused' = paused
    BY DEF Done
  <1>5. CASE t \notin hit /\ Goto(t, "over") /\ paused' = paused
    BY <1>1, <1>3, <1>5, TurnFacts, TurnMoves, <1>2, HalvesNext DEF PCs, Waiting
  <1>6. CASE Goto(t, "over") /\ paused' = paused \ {t}
    BY <1>1, <1>3, <1>6, TurnFacts, TurnMoves, <1>2, HalvesNext DEF PCs, Waiting
  <1>7. CASE t \in hit /\ ((Goto(t, "save") /\ t \in Works) \/ Goto(t, "pause")) /\ paused' = paused
    <2>1. PICK p \in {"save", "pause"} : Goto(t, p) /\ (p = "save" => t \in Works)
      BY <1>7
    <2>2. TurnPart'
      BY <1>1, <1>3, <1>7, <2>1, TurnFacts, TurnMoves DEF PCs, Waiting
    <2> QED BY <1>2, <2>2, HalvesNext
  <1> QED BY <1>4, <1>5, <1>6, <1>7

LEMMA SavePreserves ==
    ASSUME IInv, NEW t \in Turns, Save(t)
    PROVE  IInv'
  <1>1. AccountPart'
    BY AccountSame DEF Save, bounds
  <1>2. /\ pc[t] = "save" /\ registered' = registered /\ hit' = hit /\ paused' = paused
        /\ UNCHANGED <<stopped, fate, crashes>> /\ Goto(t, "pause")
        /\ record' = record \cup {t}
    BY DEF Save, Step, marks, bounds
  <1>3. TurnPart'
    BY <1>2, TurnFacts, TurnMoves DEF PCs, Waiting
  <1> QED BY <1>1, <1>3, HalvesNext

LEMMA PausePreserves ==
    ASSUME IInv, NEW t \in Turns, Pause(t)
    PROVE  IInv'
  <1>1. AccountPart'
    BY AccountSame DEF Pause, bounds
  <1>2. /\ pc[t] = "pause" /\ registered' = registered /\ hit' = hit /\ paused' = paused \cup {t}
        /\ UNCHANGED <<record, stopped, fate, crashes>> /\ Goto(t, "wait")
    BY DEF Pause, Step, marks, bounds
  <1>3. TurnPart'
    BY <1>2, TurnFacts, TurnMoves DEF PCs, Waiting
  <1> QED BY <1>1, <1>3, HalvesNext

LEMMA LookAgainPreserves ==
    ASSUME IInv, NEW t \in Turns, LookAgain(t)
    PROVE  IInv'
  <1>1. AccountPart'
    BY ReadKeeps, TurnFacts DEF LookAgain, bounds
  <1>2. PICK p \in {"lifted", "sleep"} : Goto(t, p)
    BY DEF LookAgain
  <1>3. /\ pc[t] = "wait" /\ registered' = registered /\ hit' = hit /\ paused' = paused
        /\ UNCHANGED <<record, stopped, fate, crashes>>
    BY DEF LookAgain, Step, marks, bounds
  <1>4. TurnPart'
    BY <1>2, <1>3, TurnFacts, TurnMoves DEF PCs, Waiting
  <1> QED BY <1>1, <1>4, HalvesNext

LEMMA WakePreserves ==
    ASSUME IInv, NEW t \in Turns, Wake(t)
    PROVE  IInv'
  <1>1. AccountPart'
    BY AccountSame DEF Wake, bounds
  <1>2. /\ pc[t] = "sleep" /\ registered' = registered /\ hit' = hit /\ paused' = paused
        /\ UNCHANGED <<record, stopped, fate, crashes>> /\ Goto(t, "wait")
    BY DEF Wake, Step, marks, bounds
  <1>3. TurnPart'
    BY <1>2, TurnFacts, TurnMoves DEF PCs, Waiting
  <1> QED BY <1>1, <1>3, HalvesNext

LEMMA ResumePreserves ==
    ASSUME IInv, NEW t \in Turns, Resume(t)
    PROVE  IInv'
  <1>1. /\ pc[t] = "lifted" /\ registered' = registered /\ paused' = paused \ {t}
        /\ UNCHANGED <<account, since, record, stopped, reports, crashes>>
    BY DEF Resume, Step, bounds
  <1>2. /\ \A u \in Turns \ {t} : u \in hit' <=> u \in hit
        /\ hit' \subseteq Turns
        /\ fate' \in [Turns -> {"none", "ran", "refused", "stopped", "cold", "lost"}]
    BY TurnFacts DEF Resume
  <1>3. t \notin registered
    BY <1>1, TurnFacts
  <1>4. AccountPart'
    <2>1. \A u \in registered' : u \in hit => u \in hit'
      BY <1>1, <1>2, <1>3, TurnFacts
    <2> QED BY <1>1, <2>1, FewerRegistered
  <1>5. PICK p \in {"register", "check", "over"} : Goto(t, p) /\ (p = "check" => t \notin hit')
    BY DEF Resume
  <1>6. TurnPart'
    BY <1>1, <1>2, <1>3, <1>5, TurnFacts, TurnMoves DEF PCs, Waiting
  <1> QED BY <1>4, <1>6, HalvesNext

LEMMA WaitStoppedPreserves ==
    ASSUME IInv, NEW t \in Turns, WaitStopped(t)
    PROVE  IInv'
  <1>1. AccountPart'
    BY AccountSame DEF WaitStopped, bounds
  <1>2. /\ pc[t] = "sleep" /\ registered' = registered /\ hit' = hit /\ paused' = paused \ {t}
        /\ UNCHANGED <<record, stopped, crashes>> /\ Goto(t, "over")
    BY DEF WaitStopped, Step, marks, bounds
  <1>3. fate' \in [Turns -> {"none", "ran", "refused", "stopped", "cold", "lost"}]
    BY TurnFacts DEF WaitStopped
  <1>4. TurnPart'
    BY <1>2, <1>3, TurnFacts, TurnMoves DEF PCs, Waiting
  <1> QED BY <1>1, <1>4, HalvesNext

LEMMA StopPreserves ==
    ASSUME IInv, NEW t \in Turns, Stop(t)
    PROVE  IInv'
  <1>1. AccountPart'
    BY AccountSame DEF Stop, bounds
  <1>2. TurnPart'
    BY TurnSame, TurnFacts DEF Stop, bounds
  <1> QED BY <1>1, <1>2, HalvesNext

\* The windows that come back from the store are the ones that were there, and
\* no turn is registered.
LEMMA CrashPreserves ==
    ASSUME IInv, Crash
    PROVE  IInv'
  <1>1. AccountPart /\ TurnPart
    BY Halves
  <1>2. /\ crashes < MaxCrashes /\ crashes' = crashes + 1
        /\ windows' = stored /\ phase' = PhaseOf(stored) /\ stored' = stored
        /\ due' \subseteq due
        /\ epoch' \in {0, 1} /\ reports' = reports
        /\ calls' = [g \in Goroutines |-> NoCall]
        /\ registered' = {} /\ hit' = {} /\ paused' = {}
        /\ since' = [t \in Turns |-> 0]
        /\ record' = record /\ stopped' = stopped
    BY DEF Crash
  <1>3. /\ pc' \in [Turns -> PCs]
        /\ \A t \in Turns : pc'[t] \in {"pause", "idle", "over"}
        /\ fate' \in [Turns -> {"none", "ran", "refused", "stopped", "cold", "lost"}]
    BY <1>1 DEF Crash, PCs, TurnPart
  <1>4. MaxReports \in Nat /\ reports \in Nat /\ MaxCrashes \in Nat /\ crashes \in Nat
    BY <1>1, HoldAssumption DEF AccountPart, TurnPart
  <1>5. NoCall \in [left : SUBSET Agents, epoch : 0..(MaxReports + 1)]
    BY <1>4 DEF NoCall
  <1>6. epoch' \in 0..(MaxReports + 1) /\ epoch' <= reports' + 1
    BY <1>2, <1>4
  <1>7. windows' = windows /\ phase' \in {"open", "hold", "stop"}
    BY <1>1, <1>2, PhaseType DEF AccountPart, StoredExact
  <1>8. since' \in [Turns -> 0..(MaxReports + 1)] /\ SinceBounded'
    BY <1>2, <1>4 DEF SinceBounded
  <1>9. PhaseExact' /\ StoredExact' /\ InterruptCovers'
    BY <1>2 DEF PhaseExact, StoredExact, InterruptCovers
  <1>10. calls' \in [Goroutines -> [left : SUBSET Agents, epoch : 0..(MaxReports + 1)]]
    BY <1>2, <1>5
  <1>11. AccountPart'
    BY <1>1, <1>2, <1>6, <1>7, <1>8, <1>9, <1>10 DEF AccountPart, EpochBounded
  <1>12. Placed' /\ PausedIff'
    BY <1>2, <1>3 DEF Placed, PausedIff, Waiting
  <1>13. TurnPart'
    BY <1>1, <1>2, <1>3, <1>4, <1>12 DEF TurnPart
  <1> QED BY <1>11, <1>13, HalvesNext

LEMMA NextPreserves == IInv /\ [Next]_vars => IInv'
  <1> SUFFICES ASSUME IInv, [Next]_vars PROVE IInv'
    OBVIOUS
  <1>1. ASSUME NEW g \in Observers, Tick(g) PROVE IInv'
    BY <1>1, TickPreserves
  <1>2. ASSUME NEW g \in Observers, NEW w \in Windows, NEW r \in Reports, Observe(g, w, r)
        PROVE  IInv'
    BY <1>2, ObservePreserves
  <1>3. ASSUME NEW w \in Windows, ResetPasses(w) PROVE IInv'
    BY <1>3, ResetPassesPreserves
  <1>4. ASSUME NEW g \in Goroutines, NEW a \in Agents, Interrupt(g, a) PROVE IInv'
    BY <1>4, InterruptPreserves
  <1>5. ASSUME NEW t \in Turns, Begin(t) \/ Stop(t) PROVE IInv'
    BY <1>5, BeginPreserves, StopPreserves
  <1>6. ASSUME NEW t \in Turns, Owner(t) PROVE IInv'
    BY <1>6, CheckPreserves, RegisterPreserves, GatePreserves, TurnEndsPreserves,
       DonePreserves,
       SavePreserves, PausePreserves, LookAgainPreserves, WakePreserves, ResumePreserves,
       WaitStoppedPreserves DEF Owner
  <1>7. CASE Crash
    BY <1>7, CrashPreserves
  <1>8. CASE UNCHANGED vars
    <2>1. AccountPart'
      BY <1>8, AccountSame DEF vars, account, marks
    <2>2. TurnPart'
      BY <1>8, TurnSame DEF vars, marks, IInv, TypeOK
    <2> QED BY <2>1, <2>2, HalvesNext
  <1> QED BY <1>1, <1>2, <1>3, <1>4, <1>5, <1>6, <1>7, <1>8 DEF Next

------------------------------------------------------------------------------
(* The theorems.                                                           *)

\* Every step of the registry, of the goroutines that call the agents and of the
\* turns' owners keeps the inductive invariant, crashes included.
THEOREM HoldInductive == Spec => []IInv
  BY InitIInv, NextPreserves, PTL DEF Spec

\* Account, marks and turns keep their types; the epoch stays within the hold
\* starts that the reports can cause, so the epoch's bound cuts nothing off.
THEOREM HoldTypeOK == Spec => []TypeOK
  <1>1. IInv => TypeOK
    BY DEF IInv
  <1> QED BY <1>1, HoldInductive, PTL

\* usageHold.paused has exactly the turns that are interrupted or wait for the
\* lift, for any number of agents, turns, holds and crashes.
THEOREM HoldPausedExact == Spec => []PausedExact
  <1>1. IInv => PausedExact
    <2> SUFFICES ASSUME IInv PROVE PausedExact
      OBVIOUS
    <2>1. paused \subseteq Turns /\ PausedIff
      BY DEF IInv, TypeOK
    <2> QED BY <2>1 DEF PausedIff, PausedExact
  <1> QED BY <1>1, HoldInductive, PTL

\* interruptForUsageHold reaches every turn that was registered when the hold
\* started, though the agents are called one by one outside the registry's lock.
THEOREM HoldInterruptCovers == Spec => []InterruptCovers
  <1>1. IInv => InterruptCovers
    BY DEF IInv
  <1> QED BY <1>1, HoldInductive, PTL

\* settleLocked saves every change of the windows, so a restart finds the phase
\* that the process had.
THEOREM HoldStoredExact == Spec => [](stored = windows /\ PhaseOf(stored) = phase)
  <1>1. IInv => stored = windows /\ PhaseOf(stored) = phase
    BY DEF IInv, StoredExact, PhaseExact
  <1> QED BY <1>1, HoldInductive, PTL

==============================================================================

----------------------------- MODULE LockProofs -----------------------------
(***************************************************************************)
(* The program's two locks per key implement KeyedLock, for any number of  *)
(* callers and keys.                                                       *)
(*                                                                         *)
(* keyedmutex.Map (KeyedMutex): exclusion needs that two callers of one    *)
(* key meet on one entry, which needs that no entry is reaped under a      *)
(* caller, which needs the counts to be exact.  IInv is the conjunction of *)
(* those facts.                                                            *)
(*                                                                         *)
(* lockTurn (TurnLock): HeldIsCurrent says that a running turn holds its   *)
(* session's mutex, so a second turn of that session would have to hold    *)
(* the same one.  It is kept because a mutex leaves the map only while     *)
(* nobody owns it, and that takes LockedOwns: whoever passed mu.Lock owns  *)
(* the mutex it fetched, whether or not it has checked yet that the mutex  *)
(* is still the current.  TurnIInv is the conjunction of those facts.      *)
(***************************************************************************)
EXTENDS KeyedMutex, TurnLock, FiniteSetTheorems, TLAPS

\* A caller that is not out has a key and an entry; one that is out has none.
Placed ==
    \A c \in Callers :
        /\ pc[c] = "out" => key[c] = Nobody /\ at[c] = Nobody
        /\ pc[c] # "out" => key[c] \in Keys /\ at[c] \in Entries

\* Two keys never share an entry.
EntryOfOneKey == \A k, l \in Keys : m[k] = m[l] /\ m[k] # Nobody => k = l

\* Who is in owns its entry's mutex.
OwnsMutex == \A c \in Callers : pc[c] = "in" => owner[at[c]] = c

IInv == TypeOK /\ Placed /\ OneEntry /\ EntryOfOneKey /\ OwnsMutex /\ CountExact

------------------------------------------------------------------------------
LEMMA UsersFinite == \A e : IsFiniteSet(Users(e))
  BY KeyedAssumption, FS_Subset DEF Users

LEMMA InitIInv == Init => IInv
  <1> SUFFICES ASSUME Init PROVE IInv
    OBVIOUS
  <1>1. TypeOK /\ Placed /\ OneEntry /\ EntryOfOneKey /\ OwnsMutex
    BY DEF Init, TypeOK, Placed, OneEntry, EntryOfOneKey, OwnsMutex
  <1>2. CountExact
    BY KeyedAssumption DEF Init, CountExact
  <1> QED BY <1>1, <1>2 DEF IInv

\* The first section of Lock: the entry found is shared and counted once more,
\* a new one is nobody else's.
LEMMA CountPreserves ==
    ASSUME IInv, NEW c \in Callers, NEW k \in Keys, NEW e \in Entries, Count(c, k, e)
    PROVE  IInv'
  <1> USE KeyedAssumption
  <1>0. pc[c] = "out" /\ at[c] = Nobody /\ e # Nobody /\ k # Nobody
    BY DEF IInv, Placed, Count
  <1>1. TypeOK'
    BY DEF IInv, TypeOK, Count
  <1>2. Placed'
    BY DEF IInv, TypeOK, Placed, Count
  <1>3. m[k] = Nobody => \A d \in Callers : pc[d] # "out" => key[d] # k
    BY DEF IInv, OneEntry, Placed
  <1>4. OneEntry'
    BY <1>3 DEF IInv, TypeOK, OneEntry, Placed, Count
  <1>5. EntryOfOneKey'
    BY DEF IInv, TypeOK, EntryOfOneKey, Count, Fresh
  <1>6. OwnsMutex'
    BY DEF IInv, TypeOK, Placed, OwnsMutex, Count
  <1>7. Users(e)' = Users(e) \cup {c} /\ c \notin Users(e)
    BY <1>0 DEF IInv, TypeOK, Placed, Users, Count
  <1>8. \A d \in Entries : d # e => Users(d)' = Users(d) /\ refs'[d] = refs[d]
    BY <1>0 DEF IInv, TypeOK, Placed, Users, Count
  <1>9. refs'[e] = Cardinality(Users(e)')
    <2>1. Cardinality(Users(e) \cup {c}) = Cardinality(Users(e)) + 1
      BY <1>7, UsersFinite, FS_AddElement
    <2>2. CASE m[k] = Nobody
      <3>1. Users(e) = {}
        BY <2>2 DEF Count, Fresh, Users
      <3>2. refs'[e] = 1
        BY <2>2 DEF IInv, TypeOK, Count
      <3> QED BY <1>7, <2>1, <3>1, <3>2, FS_EmptySet
    <2>3. CASE m[k] # Nobody
      <3>1. refs'[e] = refs[e] + 1 /\ m[k] = e
        BY <2>3 DEF IInv, TypeOK, Count
      <3>2. refs[e] = Cardinality(Users(e))
        BY <3>1 DEF IInv, CountExact
      <3> QED BY <1>7, <2>1, <3>1, <3>2
    <2> QED BY <2>2, <2>3
  <1>10. CountExact'
    <2> SUFFICES ASSUME NEW d \in Entries, NEW l \in Keys, m'[l] = d
                 PROVE  Users(d)' # {} /\ refs'[d] = Cardinality(Users(d)')
      BY DEF CountExact
    <2>1. CASE d = e
      BY <1>7, <1>9, <2>1
    <2>2. CASE d # e
      <3>1. m[l] = d
        BY <2>2 DEF IInv, TypeOK, Count
      <3> QED BY <1>8, <2>2, <3>1 DEF IInv, CountExact
    <2> QED BY <2>1, <2>2
  <1> QED BY <1>1, <1>2, <1>4, <1>5, <1>6, <1>10 DEF IInv

\* Taking and releasing the entry's mutex moves no caller to another entry.
LEMMA EnterPreserves ==
    ASSUME IInv, NEW c \in Callers, Enter(c)
    PROVE  IInv'
  <1> USE KeyedAssumption
  <1>1. TypeOK' /\ Placed' /\ OneEntry' /\ EntryOfOneKey'
    BY DEF IInv, TypeOK, Placed, OneEntry, EntryOfOneKey, Enter
  <1>2. OwnsMutex'
    BY DEF IInv, TypeOK, Placed, OwnsMutex, Enter
  <1>3. \A e : Users(e)' = Users(e)
    BY DEF IInv, TypeOK, Users, Enter
  <1>4. CountExact'
    BY <1>3 DEF IInv, CountExact, Enter
  <1> QED BY <1>1, <1>2, <1>4 DEF IInv

LEMMA UnlockPreserves ==
    ASSUME IInv, NEW c \in Callers, Unlock(c)
    PROVE  IInv'
  <1> USE KeyedAssumption
  <1>1. TypeOK' /\ Placed' /\ OneEntry' /\ EntryOfOneKey'
    BY DEF IInv, TypeOK, Placed, OneEntry, EntryOfOneKey, Unlock
  <1>2. OwnsMutex'
    <2> SUFFICES ASSUME NEW d \in Callers, pc'[d] = "in" PROVE owner'[at'[d]] = d
      BY DEF OwnsMutex
    <2>1. d # c /\ pc[d] = "in"
      BY DEF IInv, TypeOK, Unlock
    <2>2. owner[at[d]] = d /\ owner[at[c]] = c
      BY <2>1 DEF IInv, OwnsMutex, Unlock
    <2> QED BY <2>1, <2>2 DEF IInv, TypeOK, Placed, Unlock
  <1>3. \A e : Users(e)' = Users(e)
    BY DEF IInv, TypeOK, Users, Unlock
  <1>4. CountExact'
    BY <1>3 DEF IInv, CountExact, Unlock
  <1> QED BY <1>1, <1>2, <1>4 DEF IInv

\* Only the last caller of an entry reaps it.
LEMMA ReapPreserves ==
    ASSUME IInv, NEW c \in Callers, Reap(c)
    PROVE  IInv'
  <1> USE KeyedAssumption
  <1>a. PICK e \in Entries : e = at[c]
    BY DEF IInv, Placed, Reap
  <1>0. /\ pc[c] = "leaving" /\ e \in Entries /\ key[c] \in Keys
        /\ m[key[c]] = e /\ at[c] = e
    BY <1>a DEF IInv, Placed, OneEntry, Reap
  <1>1. refs[e] = Cardinality(Users(e)) /\ c \in Users(e)
    BY <1>0 DEF IInv, CountExact, Users
  <1>2. Users(e)' = Users(e) \ {c}
    BY <1>0 DEF IInv, TypeOK, Users, Reap
  <1>3. \A d \in Entries : d # e => Users(d)' = Users(d) /\ refs'[d] = refs[d]
    BY <1>0 DEF IInv, TypeOK, Users, Reap
  <1>4. Cardinality(Users(e)) \in Nat /\ Cardinality(Users(e)) # 0
    BY <1>1, UsersFinite, FS_CardinalityType, FS_EmptySet
  <1>5. refs[e] = 1 <=> Users(e) = {c}
    BY <1>1, UsersFinite, FS_Singleton
  <1>6. refs'[e] = refs[e] - 1 /\ Cardinality(Users(e)') = Cardinality(Users(e)) - 1
    <2>1. refs'[e] = refs[e] - 1
      BY <1>0 DEF IInv, TypeOK, Reap
    <2>2. Cardinality(Users(e) \ {c}) = Cardinality(Users(e)) - 1
      BY <1>1, UsersFinite, FS_RemoveElement
    <2> QED BY <2>1, <2>2, <1>2
  <1>7. TypeOK'
    <2>1. refs[e] - 1 \in Nat
      BY <1>1, <1>4
    <2> QED BY <1>0, <2>1 DEF IInv, TypeOK, Reap
  <1>8. Placed'
    BY <1>0 DEF IInv, TypeOK, Placed, Reap
  <1>9. OneEntry'
    <2> SUFFICES ASSUME NEW d \in Callers, pc'[d] # "out" PROVE m'[key'[d]] = at'[d]
      BY DEF OneEntry
    <2>1. /\ d # c /\ pc[d] # "out" /\ key'[d] = key[d] /\ at'[d] = at[d]
      BY DEF IInv, TypeOK, Reap
    <2>2. m[key[d]] = at[d] /\ key[d] \in Keys
      BY <2>1 DEF IInv, OneEntry, Placed
    <2>3. key[d] = key[c] => d \in Users(e)
      BY <1>0, <2>1, <2>2 DEF Users
    <2> QED BY <1>0, <1>5, <2>1, <2>2, <2>3 DEF IInv, TypeOK, Reap
  <1>10. EntryOfOneKey'
    BY <1>0 DEF IInv, TypeOK, EntryOfOneKey, Reap
  <1>11. OwnsMutex'
    BY <1>0 DEF IInv, TypeOK, OwnsMutex, Reap
  <1>12. CountExact'
    <2> SUFFICES ASSUME NEW d \in Entries, NEW l \in Keys, m'[l] = d
                 PROVE  Users(d)' # {} /\ refs'[d] = Cardinality(Users(d)')
      BY DEF CountExact
    <2>1. m[l] = d
      BY <1>0 DEF IInv, TypeOK, Reap
    <2>2. Users(d) # {} /\ refs[d] = Cardinality(Users(d))
      BY <2>1 DEF IInv, CountExact
    <2>3. CASE d = e
      <3>1. l = key[c]
        BY <1>0, <2>1, <2>3 DEF IInv, EntryOfOneKey
      <3>2. refs[e] # 1
        BY <1>0, <2>3, <3>1 DEF IInv, TypeOK, Reap
      <3> QED BY <1>1, <1>2, <1>5, <1>6, <2>3, <3>2
    <2>4. CASE d # e
      BY <1>3, <2>2, <2>4
    <2> QED BY <2>3, <2>4
  <1> QED BY <1>7, <1>8, <1>9, <1>10, <1>11, <1>12 DEF IInv

LEMMA NextPreserves == IInv /\ [Next]_vars => IInv'
  <1> SUFFICES ASSUME IInv, [Next]_vars PROVE IInv'
    OBVIOUS
  <1>1. CASE Next
    BY <1>1, CountPreserves, EnterPreserves, UnlockPreserves, ReapPreserves DEF Next
  <1>2. CASE UNCHANGED vars
    <2>1. \A e : Users(e)' = Users(e)
      BY <1>2 DEF vars, Users
    <2>2. CountExact'
      BY <1>2, <2>1 DEF IInv, CountExact, vars
    <2> QED BY <1>2, <2>2 DEF IInv, TypeOK, Placed, OneEntry, EntryOfOneKey, OwnsMutex, vars
  <1> QED BY <1>1, <1>2

------------------------------------------------------------------------------
\* The inductive invariant holds in every reachable state of the map.
THEOREM KeyedInvariant == Spec => []IInv
  BY InitIInv, NextPreserves, PTL DEF Spec

\* The state of the map is well typed: no count goes below zero.
THEOREM KeyedTypeOK == Spec => []TypeOK
  <1>1. IInv => TypeOK
    BY DEF IInv
  <1> QED BY <1>1, KeyedInvariant, PTL

\* Lock and its unlock exclude each other per key (#1718): no two callers hold
\* one key, for any number of goroutines.
THEOREM KeyedExclusion == Spec => []Exclusion
  <1>1. IInv => Exclusion
    <2> SUFFICES ASSUME IInv, NEW c \in Callers, NEW d \in Callers,
                        pc[c] = "in", pc[d] = "in", key[c] = key[d]
                 PROVE  c = d
      BY DEF Exclusion
    <2>1. at[c] = at[d]
      BY DEF IInv, OneEntry
    <2> QED BY <2>1 DEF IInv, OwnsMutex
  <1> QED BY <1>1, KeyedInvariant, PTL

\* Entries are counted exactly and reaped with their last caller.
THEOREM KeyedCountExact == Spec => []CountExact
  <1>1. IInv => CountExact
    BY DEF IInv
  <1> QED BY <1>1, KeyedInvariant, PTL

\* The map implements KeyedLock, one lock per key: every step of the two
\* critical sections and of the entry's mutex is a step of the abstract lock,
\* or changes nothing of it.
THEOREM KeyedRefines == Spec => Refines
  <1> DEFINE At == [c \in Callers |-> IF pc[c] \in {"waiting", "in"} THEN key[c] ELSE Nobody]
             Inside == {c \in Callers : pc[c] = "in"}
  <1>1. Init => Lock!Init
    BY DEF Init, Lock!Init
  <1>2. IInv /\ [Next]_vars => [Lock!Next]_<<At, Inside>>
    <2> SUFFICES ASSUME IInv, [Next]_vars
                 PROVE  Lock!Next \/ UNCHANGED <<At, Inside>>
      OBVIOUS
    <2> USE KeyedAssumption
    <2>1. ASSUME NEW c \in Callers, NEW k \in Keys, NEW e \in Entries, Count(c, k, e)
          PROVE  Lock!Ask(c, k)
      BY <2>1 DEF IInv, TypeOK, Count, Lock!Ask
    <2>2. ASSUME NEW c \in Callers, Enter(c)
          PROVE  Lock!Enter(c)
      <3>1. \A d \in Callers : pc[d] = "in" => key[d] # key[c]
        BY <2>2 DEF IInv, TypeOK, Placed, OneEntry, OwnsMutex, Enter
      <3>2. pc[c] = "waiting" /\ key[c] \in Keys /\ key[c] # Nobody
        BY <2>2 DEF IInv, Placed, Enter
      <3>3. At[c] = key[c] /\ \A d \in Inside : At[d] = key[d]
        BY <3>2
      <3>4. At' = At /\ Inside' = Inside \cup {c}
        BY <2>2 DEF IInv, TypeOK, Enter
      <3> QED BY <3>1, <3>2, <3>3, <3>4 DEF Lock!Enter
    <2>3. ASSUME NEW c \in Callers, Unlock(c)
          PROVE  Lock!Leave(c)
      BY <2>3 DEF IInv, TypeOK, Unlock, Lock!Leave
    <2>4. ASSUME NEW c \in Callers, Reap(c)
          PROVE  UNCHANGED <<At, Inside>>
      BY <2>4 DEF IInv, TypeOK, Reap
    <2>5. CASE UNCHANGED vars
      BY <2>5 DEF vars
    <2> QED BY <2>1, <2>2, <2>3, <2>4, <2>5 DEF Next, Lock!Next
  <1> QED BY <1>1, <1>2, KeyedInvariant, PTL DEF Spec, Refines, Lock!Spec

-----------------------------------------------------------------------------
(* The turn lock.                                                          *)

\* A turn past mu.Lock owns its mutex.
LockedOwns == \A c \in Turns : stage[c] \in {"locked", "in"} => holder[mutex[c]] = c

\* A turn that is out has no session.
OutHasNone == \A c \in Turns : stage[c] = "out" => session[c] = NoOne

\* The inductive invariant of the turn lock.
TurnIInv == TurnTypeOK /\ LockedOwns /\ OutHasNone /\ HeldIsCurrent

-----------------------------------------------------------------------------
LEMMA TurnInitIInv == TurnInit => TurnIInv
  BY TurnLockAssumption DEF TurnInit, TurnIInv, TurnTypeOK, LockedOwns, OutHasNone, HeldIsCurrent

LEMMA AcquirePreserves ==
    ASSUME TurnIInv, NEW c \in Turns, NEW k \in Sessions, AcquireTurnLock(c, k)
    PROVE  TurnIInv'
  BY TurnLockAssumption
     DEF AcquireTurnLock, TurnIInv, TurnTypeOK, LockedOwns, OutHasNone, HeldIsCurrent

\* A session that has a mutex keeps it, so no running turn loses its own.
LEMMA FetchPreserves ==
    ASSUME TurnIInv, NEW c \in Turns, NEW n \in Mutexes, FetchTurnLock(c, n)
    PROVE  TurnIInv'
  <1> USE TurnLockAssumption
  <1>1. session[c] \in Sessions /\ n # NoOne
    BY DEF FetchTurnLock, TurnIInv, TurnTypeOK
  <1>2. TurnTypeOK' /\ LockedOwns' /\ OutHasNone'
    BY <1>1 DEF FetchTurnLock, TurnIInv, TurnTypeOK, LockedOwns, OutHasNone
  <1>3. HeldIsCurrent'
    <2> SUFFICES ASSUME NEW d \in Turns, stage'[d] = "in"
                 PROVE  turnLocks'[session'[d]] = mutex'[d] /\ holder'[mutex'[d]] = d
      BY DEF HeldIsCurrent
    <2>1. d # c /\ stage[d] = "in" /\ mutex'[d] = mutex[d] /\ session'[d] = session[d] /\ holder' = holder
      BY DEF FetchTurnLock, TurnIInv, TurnTypeOK
    <2>2. turnLocks[session[d]] = mutex[d] /\ holder[mutex[d]] = d /\ mutex[d] # NoOne /\ session[d] \in Sessions
      BY <2>1 DEF TurnIInv, TurnTypeOK, HeldIsCurrent
    <2>3. turnLocks'[session[d]] = turnLocks[session[d]]
      BY <1>1, <2>2 DEF FetchTurnLock, TurnIInv, TurnTypeOK
    <2> QED BY <2>1, <2>2, <2>3
  <1> QED BY <1>2, <1>3 DEF TurnIInv

LEMMA LockPreserves ==
    ASSUME TurnIInv, NEW c \in Turns, LockMutex(c)
    PROVE  TurnIInv'
  BY TurnLockAssumption DEF LockMutex, TurnIInv, TurnTypeOK, LockedOwns, OutHasNone, HeldIsCurrent

LEMMA CheckPreserves ==
    ASSUME TurnIInv, NEW c \in Turns, CheckCurrent(c)
    PROVE  TurnIInv'
  <1> USE TurnLockAssumption
  <1>1. CASE turnLocks[session[c]] = mutex[c]
    BY <1>1 DEF CheckCurrent, TurnIInv, TurnTypeOK, LockedOwns, OutHasNone, HeldIsCurrent
  <1>2. CASE turnLocks[session[c]] # mutex[c]
    BY <1>2 DEF CheckCurrent, TurnIInv, TurnTypeOK, LockedOwns, OutHasNone, HeldIsCurrent
  <1> QED BY <1>1, <1>2

LEMMA UnlockTurnPreserves ==
    ASSUME TurnIInv, NEW c \in Turns, UnlockTurn(c)
    PROVE  TurnIInv'
  BY TurnLockAssumption DEF UnlockTurn, TurnIInv, TurnTypeOK, LockedOwns, OutHasNone, HeldIsCurrent

\* What is dropped is owned by nobody, and so under no running turn.
LEMMA DropPreserves ==
    ASSUME TurnIInv, NEW k \in Sessions, DropTurnLock(k)
    PROVE  TurnIInv'
  <1> USE TurnLockAssumption
  <1>1. drops' \in 0..MaxDrops
    BY DEF DropTurnLock, TurnIInv, TurnTypeOK
  <1>2. TurnTypeOK' /\ LockedOwns' /\ OutHasNone'
    BY <1>1 DEF DropTurnLock, TurnIInv, TurnTypeOK, LockedOwns, OutHasNone
  <1>3. HeldIsCurrent'
    BY DEF DropTurnLock, TurnIInv, TurnTypeOK, HeldIsCurrent
  <1> QED BY <1>2, <1>3 DEF TurnIInv

LEMMA TurnNextPreserves == TurnIInv /\ [TurnNext]_turnVars => TurnIInv'
  <1> SUFFICES ASSUME TurnIInv, [TurnNext]_turnVars PROVE TurnIInv'
    OBVIOUS
  <1>1. CASE TurnNext
    BY <1>1, AcquirePreserves, FetchPreserves, LockPreserves, CheckPreserves,
       UnlockTurnPreserves, DropPreserves DEF TurnNext, Locking
  <1>2. CASE UNCHANGED turnVars
    BY <1>2 DEF turnVars, TurnIInv, TurnTypeOK, LockedOwns, OutHasNone, HeldIsCurrent
  <1> QED BY <1>1, <1>2

-----------------------------------------------------------------------------
\* The inductive invariant holds in every reachable state of the turn locks.
THEOREM TurnLockInvariant == TurnSpec => []TurnIInv
  BY TurnInitIInv, TurnNextPreserves, PTL DEF TurnSpec

\* The turn lock a running turn holds is the map's entry for its session
\* (lockTurn's re-check and dropTurnLock's TryLock together).
THEOREM TurnLockHeldIsCurrent == TurnSpec => []HeldIsCurrent
  <1>1. TurnIInv => HeldIsCurrent
    BY DEF TurnIInv
  <1> QED BY <1>1, TurnLockInvariant, PTL

\* "at most one holder of a current entry exists per key": no two turns of one
\* session run at once.
THEOREM TurnLockExclusion == TurnSpec => []TurnExclusion
  <1>1. TurnIInv => TurnExclusion
    BY DEF TurnIInv, HeldIsCurrent, TurnExclusion
  <1> QED BY <1>1, TurnLockInvariant, PTL

\* The map with removals implements KeyedLock, a lock per session that is never
\* removed: fetching, locking a stale mutex and starting again are invisible.
THEOREM TurnLockRefines == TurnSpec => TurnRefines
  <1> DEFINE Inside == {c \in Turns : stage[c] = "in"}
  <1>1. TurnInit => SessionLock!Init
    BY DEF TurnInit, SessionLock!Init
  <1>2. TurnIInv /\ [TurnNext]_turnVars => [SessionLock!Next]_<<session, Inside>>
    <2> SUFFICES ASSUME TurnIInv, [TurnNext]_turnVars
                 PROVE  SessionLock!Next \/ UNCHANGED <<session, Inside>>
      OBVIOUS
    <2> USE TurnLockAssumption
    <2>1. ASSUME NEW c \in Turns, NEW k \in Sessions, AcquireTurnLock(c, k)
          PROVE  SessionLock!Ask(c, k)
      BY <2>1 DEF TurnIInv, TurnTypeOK, OutHasNone, AcquireTurnLock, SessionLock!Ask
    <2>2. ASSUME NEW c \in Turns, NEW n \in Mutexes, FetchTurnLock(c, n)
          PROVE  UNCHANGED <<session, Inside>>
      BY <2>2 DEF TurnIInv, TurnTypeOK, FetchTurnLock
    <2>3. ASSUME NEW c \in Turns, LockMutex(c)
          PROVE  UNCHANGED <<session, Inside>>
      BY <2>3 DEF TurnIInv, TurnTypeOK, LockMutex
    <2>4. ASSUME NEW c \in Turns, CheckCurrent(c)
          PROVE  SessionLock!Enter(c) \/ UNCHANGED <<session, Inside>>
      <3>1. CASE turnLocks[session[c]] = mutex[c]
        <4>1. stage[c] = "locked" /\ holder[mutex[c]] = c /\ session[c] # NoOne
          BY <2>4 DEF TurnIInv, TurnTypeOK, LockedOwns, CheckCurrent
        <4>2. \A d \in Inside : session[d] # session[c]
          BY <3>1, <4>1 DEF TurnIInv, HeldIsCurrent
        <4>3. session' = session /\ Inside' = Inside \cup {c}
          BY <2>4, <3>1 DEF TurnIInv, TurnTypeOK, CheckCurrent
        <4> QED BY <4>1, <4>2, <4>3 DEF SessionLock!Enter
      <3>2. CASE turnLocks[session[c]] # mutex[c]
        BY <2>4, <3>2 DEF TurnIInv, TurnTypeOK, CheckCurrent
      <3> QED BY <3>1, <3>2
    <2>5. ASSUME NEW c \in Turns, UnlockTurn(c)
          PROVE  SessionLock!Leave(c)
      BY <2>5 DEF TurnIInv, TurnTypeOK, UnlockTurn, SessionLock!Leave
    <2>6. ASSUME NEW k \in Sessions, DropTurnLock(k)
          PROVE  UNCHANGED <<session, Inside>>
      BY <2>6 DEF DropTurnLock
    <2>7. CASE UNCHANGED turnVars
      BY <2>7 DEF turnVars
    <2> QED BY <2>1, <2>2, <2>3, <2>4, <2>5, <2>6, <2>7 DEF TurnNext, Locking, SessionLock!Next
  <1> QED BY <1>1, <1>2, TurnLockInvariant, PTL DEF TurnSpec, TurnRefines, SessionLock!Spec
=============================================================================

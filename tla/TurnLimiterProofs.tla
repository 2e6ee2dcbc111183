-------------------------- MODULE TurnLimiterProofs --------------------------
(***************************************************************************)
(* The turn limiter's invariants and its refinement of SlotQueue, for any  *)
(* finite set of callers and any limit.                                    *)
(*                                                                         *)
(* The cap and the wedge freedom are not inductive alone: that held never  *)
(* exceeds the limit needs held to count exactly the owners, which needs   *)
(* the queue to hold exactly the callers that wait without a grant.  IInv  *)
(* is the conjunction of those facts with what each program point implies  *)
(* about the grant.                                                        *)
(***************************************************************************)
EXTENDS TurnLimiter, FiniteSetTheorems, SequenceTheorems, TLAPS

\* A grant is only outstanding for a caller inside Acquire, and a caller that
\* found itself dequeued while leaving has one.
GrantsPlaced ==
    /\ \A c \in granted : pc[c] \in {"wait", "leave", "return"}
    /\ \A c \in Callers : pc[c] = "return" => c \in granted

IInv == TypeOK /\ SlotsAccounted /\ NoWedge /\ QueueExact /\ GrantsPlaced

------------------------------------------------------------------------------
\* What removing one position of a duplicate-free queue leaves: the same
\* elements but one, still without duplicates (Acquire's re-check, which
\* cuts its channel out of the waiters).
LEMMA WithoutProperties ==
    ASSUME NEW S, NEW s \in Seq(S), NEW i \in 1..Len(s),
           \A j, k \in 1..Len(s) : s[j] = s[k] => j = k
    PROVE  LET t == SubSeq(s, 1, i - 1) \o SubSeq(s, i + 1, Len(s))
           IN  /\ t \in Seq(S)
               /\ Len(t) = Len(s) - 1
               /\ \A j, k \in 1..Len(t) : t[j] = t[k] => j = k
               /\ {t[j] : j \in 1..Len(t)} = {s[j] : j \in 1..Len(s)} \ {s[i]}
PROOF
  <1> DEFINE a == SubSeq(s, 1, i - 1)
             b == SubSeq(s, i + 1, Len(s))
             t == a \o b
  <1>0. Len(s) \in Nat /\ \A j \in 1..Len(s) : s[j] \in S
    BY LenProperties, ElementOfSeq
  <1>1. /\ a \in Seq(S) /\ Len(a) = i - 1
        /\ \A j \in 1..(i - 1) : a[j] = s[j]
    <2>1. \A j \in 1..(i - 1) : s[j] \in S
      BY <1>0
    <2> QED
      BY <1>0, <2>1, SubSeqProperties, Z3
  <1>2. /\ b \in Seq(S) /\ Len(b) = Len(s) - i
        /\ \A j \in 1..(Len(s) - i) : b[j] = s[j + i]
    <2>1. \A j \in (i + 1)..Len(s) : s[j] \in S
      BY <1>0
    <2>2. /\ b \in Seq(S)
          /\ Len(b) = IF i + 1 <= Len(s) THEN Len(s) - (i + 1) + 1 ELSE 0
          /\ \A j \in 1..(Len(s) - (i + 1) + 1) : b[j] = s[(i + 1) + j - 1]
      BY <1>0, <2>1, SubSeqProperties
    <2>3. \A j \in 1..(Len(s) - i) : (i + 1) + j - 1 = j + i
      BY <1>0
    <2> QED
      BY <1>0, <2>2, <2>3
  <1> HIDE DEF a, b
  <1>3. /\ t \in Seq(S) /\ Len(t) = Len(s) - 1
        /\ \A j \in 1..(Len(s) - 1) : t[j] = IF j <= i - 1 THEN s[j] ELSE s[j + 1]
    <2>1. /\ t \in Seq(S)
          /\ Len(t) = Len(a) + Len(b)
          /\ \A j \in 1..(Len(a) + Len(b)) :
                t[j] = IF j <= Len(a) THEN a[j] ELSE b[j - Len(a)]
      BY <1>1, <1>2, ConcatProperties
    <2>2. \A j \in 1..(Len(s) - 1) :
             t[j] = IF j <= i - 1 THEN s[j] ELSE s[j + 1]
      <3> TAKE j \in 1..(Len(s) - 1)
      <3>1. CASE j <= i - 1
        BY <1>0, <1>1, <1>2, <2>1, <3>1
      <3>2. CASE ~(j <= i - 1)
        <4>1. j - (i - 1) \in 1..(Len(s) - i) /\ (j - (i - 1)) + i = j + 1
          BY <1>0, <3>2
        <4>2. t[j] = b[j - (i - 1)]
          BY <1>0, <1>1, <1>2, <2>1, <3>2
        <4> QED
          BY <4>1, <4>2, <1>2, <3>2
      <3> QED BY <3>1, <3>2
    <2> QED
      BY <1>0, <1>1, <1>2, <2>1, <2>2
  <1> HIDE DEF t
  <1>4. \A j, k \in 1..Len(t) : t[j] = t[k] => j = k
    BY <1>0, <1>3
  <1>5. {t[j] : j \in 1..Len(t)} \subseteq {s[j] : j \in 1..Len(s)} \ {s[i]}
    BY <1>0, <1>3
  <1>6. ASSUME NEW k \in 1..Len(s), k # i
        PROVE  \E j \in 1..Len(t) : t[j] = s[k]
    <2>1. CASE k < i
      <3>1. k \in 1..Len(t) /\ t[k] = s[k]
        BY <1>0, <1>3, <2>1
      <3> QED BY <3>1
    <2>2. CASE k > i
      <3>1. k - 1 \in 1..Len(t) /\ t[k - 1] = s[k]
        BY <1>0, <1>3, <2>2
      <3> QED BY <3>1
    <2> QED BY <1>6, <2>1, <2>2
  <1>7. {s[j] : j \in 1..Len(s)} \ {s[i]} \subseteq {t[j] : j \in 1..Len(t)}
    BY <1>6
  <1> QED
    BY <1>0, <1>3, <1>4, <1>5, <1>7 DEF t, a, b

\* What dequeueing the head of a duplicate-free queue leaves (Release).
LEMMA TailProperties ==
    ASSUME NEW S, NEW s \in Seq(S), s # <<>>,
           \A j, k \in 1..Len(s) : s[j] = s[k] => j = k
    PROVE  /\ Head(s) \in S /\ Head(s) = s[1]
           /\ Tail(s) \in Seq(S)
           /\ \A j, k \in 1..Len(Tail(s)) : Tail(s)[j] = Tail(s)[k] => j = k
           /\ {Tail(s)[j] : j \in 1..Len(Tail(s))}
                = {s[j] : j \in 1..Len(s)} \ {Head(s)}
PROOF
  <1>1. Len(s) \in Nat \ {0}
    BY EmptySeq
  <1>2. /\ Head(s) \in S /\ Head(s) = s[1]
        /\ Tail(s) \in Seq(S) /\ Len(Tail(s)) = Len(s) - 1
        /\ \A i \in 1..(Len(s) - 1) : Tail(s)[i] = s[i + 1]
    BY <1>1, HeadTailProperties
  <1>3. \A j, k \in 1..Len(Tail(s)) : Tail(s)[j] = Tail(s)[k] => j = k
    BY <1>1, <1>2
  <1>4. {Tail(s)[j] : j \in 1..Len(Tail(s))}
           \subseteq {s[j] : j \in 1..Len(s)} \ {Head(s)}
    BY <1>1, <1>2
  <1>5. ASSUME NEW k \in 1..Len(s), s[k] # Head(s)
        PROVE  \E j \in 1..Len(Tail(s)) : Tail(s)[j] = s[k]
    <2>1. k - 1 \in 1..Len(Tail(s)) /\ Tail(s)[k - 1] = s[k]
      BY <1>1, <1>2, <1>5
    <2> QED BY <2>1
  <1>6. {s[j] : j \in 1..Len(s)} \ {Head(s)}
           \subseteq {Tail(s)[j] : j \in 1..Len(Tail(s))}
    BY <1>5
  <1> QED BY <1>2, <1>3, <1>4, <1>6

\* What appending a new element to a duplicate-free queue gives (Acquire).
LEMMA AppendNew ==
    ASSUME NEW S, NEW s \in Seq(S), NEW e \in S,
           e \notin {s[j] : j \in 1..Len(s)},
           \A j, k \in 1..Len(s) : s[j] = s[k] => j = k
    PROVE  /\ Append(s, e) \in Seq(S) /\ Append(s, e) # <<>>
           /\ \A j, k \in 1..Len(Append(s, e)) :
                 Append(s, e)[j] = Append(s, e)[k] => j = k
           /\ {Append(s, e)[j] : j \in 1..Len(Append(s, e))}
                = {s[j] : j \in 1..Len(s)} \cup {e}
PROOF
  <1>1. Len(s) \in Nat
    BY LenProperties
  <1>2. /\ Append(s, e) \in Seq(S) /\ Append(s, e) # <<>>
        /\ Len(Append(s, e)) = Len(s) + 1
        /\ \A i \in 1..Len(s) : Append(s, e)[i] = s[i]
        /\ Append(s, e)[Len(s) + 1] = e
    BY AppendProperties
  <1>3. 1..(Len(s) + 1) = 1..Len(s) \cup {Len(s) + 1}
    BY <1>1
  <1>4. {Append(s, e)[j] : j \in 1..Len(Append(s, e))}
           = {s[j] : j \in 1..Len(s)} \cup {e}
    <2> DEFINE t == Append(s, e)
    <2>1. /\ Len(t) = Len(s) + 1
          /\ \A i \in 1..Len(s) : t[i] = s[i]
          /\ t[Len(s) + 1] = e
      BY <1>2
    <2> HIDE DEF t
    <2>2. {t[j] : j \in 1..Len(t)} = {s[j] : j \in 1..Len(s)} \cup {e}
      BY <1>1, <1>3, <2>1
    <2> QED BY <2>2 DEF t
  <1>5. \A j, k \in 1..Len(Append(s, e)) :
           Append(s, e)[j] = Append(s, e)[k] => j = k
    BY <1>1, <1>2
  <1> QED BY <1>2, <1>4, <1>5

------------------------------------------------------------------------------
\* Owners is finite, so counting it is meaningful.
LEMMA OwnersFinite ==
    ASSUME TypeOK
    PROVE  /\ Owners \subseteq Callers
           /\ IsFiniteSet(Owners)
           /\ Cardinality(Owners) \in Nat
  <1>1. Owners \subseteq Callers
    BY DEF TypeOK, Owners
  <1> QED
    BY <1>1, LimiterAssumption, FS_Subset, FS_CardinalityType

\* The limiter starts with no slot in use and nobody waiting.
LEMMA InitIInv == Init => IInv
  <1> SUFFICES ASSUME Init PROVE IInv
    OBVIOUS
  <1>1. TypeOK
    BY LimiterAssumption, EmptySeq DEF Init, TypeOK, PC
  <1>2. Owners = {}
    BY DEF Init, Owners
  <1>3. SlotsAccounted
    BY <1>2, FS_EmptySet DEF Init, SlotsAccounted
  <1>4. Len(waiters) = 0
    BY DEF Init
  <1>5. QueueExact
    BY <1>4 DEF Init, QueueExact, Waiting
  <1> QED
    BY <1>1, <1>3, <1>5 DEF Init, IInv, NoWedge, GrantsPlaced

\* A caller that takes a free slot is one more owner, and the count follows.
LEMMA TryAcquireIInv ==
    ASSUME IInv, NEW c \in Callers, TryAcquire(c)
    PROVE  IInv'
  <1> USE DEF IInv
  <1>1. TypeOK'
    BY LimiterAssumption DEF TypeOK, TryAcquire, TryAcquireLocked, Goto, PC
  <1>2. c \notin Owners
    BY DEF TryAcquire, Owners, GrantsPlaced
  <1>3. Owners' = Owners \cup {c}
    BY DEF TypeOK, TryAcquire, Goto, Owners
  <1>4. SlotsAccounted'
    BY <1>2, <1>3, OwnersFinite, FS_AddElement
    DEF SlotsAccounted, TryAcquire
  <1>5. QueueExact'
    BY DEF TypeOK, TryAcquire, Goto, QueueExact, Waiting
  <1>6. GrantsPlaced'
    BY DEF TypeOK, TryAcquire, Goto, GrantsPlaced
  <1>7. NoWedge'
    BY DEF TryAcquire, TryAcquireLocked, NoWedge
  <1> QED BY <1>1, <1>4, <1>5, <1>6, <1>7

\* A caller queues only on a limiter whose slots are all in use.
LEMMA AcquireIInv ==
    ASSUME IInv, NEW c \in Callers, Acquire(c)
    PROVE  IInv'
  <1> USE DEF IInv
  <1>1. c \notin Waiting /\ c \notin granted
    BY DEF Acquire, QueueExact, GrantsPlaced
  <1>2. /\ waiters' \in Seq(Callers) /\ waiters' # <<>>
        /\ \A j, k \in 1..Len(waiters') : waiters'[j] = waiters'[k] => j = k
        /\ Waiting' = Waiting \cup {c}
    BY <1>1, AppendNew DEF TypeOK, Acquire, QueueExact, Waiting
  <1>3. TypeOK'
    BY <1>2 DEF TypeOK, Acquire, Goto, PC
  <1>4. Owners' = Owners
    BY DEF TypeOK, Acquire, Goto, Owners
  <1>5. SlotsAccounted'
    BY <1>4 DEF SlotsAccounted, Acquire
  <1>6. QueueExact'
    BY <1>1, <1>2 DEF TypeOK, Acquire, Goto, QueueExact
  <1>7. GrantsPlaced'
    BY <1>1 DEF TypeOK, Acquire, Goto, GrantsPlaced
  <1>8. NoWedge'
    BY LimiterAssumption DEF TypeOK, Acquire, TryAcquireLocked, NoWedge
  <1> QED BY <1>3, <1>5, <1>6, <1>7, <1>8

\* The steps that only move a caller between program points inside Acquire.
LEMMA MoveIInv ==
    ASSUME IInv, NEW c \in Callers, End(c) \/ SeeEnd(c) \/ LeaveGranted(c)
    PROVE  IInv'
  <1> USE DEF IInv
  <1>1. UNCHANGED <<held, waiters, granted>> /\ Waiting' = Waiting
    BY DEF End, SeeEnd, LeaveGranted, Waiting
  <1>2. TypeOK'
    BY DEF TypeOK, End, SeeEnd, LeaveGranted, Goto, PC
  <1>3. Owners' = Owners
    BY DEF TypeOK, End, SeeEnd, LeaveGranted, Goto, Owners
  <1>4. SlotsAccounted' /\ NoWedge'
    BY <1>1, <1>3 DEF SlotsAccounted, NoWedge
  <1>5. LeaveGranted(c) => c \in granted
    BY DEF TypeOK, LeaveGranted, QueueExact
  <1>6. QueueExact'
    BY <1>1, <1>5 DEF TypeOK, End, SeeEnd, LeaveGranted, Goto, QueueExact
  <1>7. GrantsPlaced'
    BY <1>1, <1>5 DEF TypeOK, End, SeeEnd, LeaveGranted, Goto, GrantsPlaced
  <1> QED BY <1>2, <1>4, <1>6, <1>7

\* Being told of a grant changes who knows about the slot, not who owns it.
LEMMA SeeGrantIInv ==
    ASSUME IInv, NEW c \in Callers, SeeGrant(c)
    PROVE  IInv'
  <1> USE DEF IInv
  <1>1. TypeOK'
    BY DEF TypeOK, SeeGrant, Goto, PC
  <1>2. Owners' = Owners
    BY DEF TypeOK, SeeGrant, Goto, Owners
  <1>3. SlotsAccounted' /\ NoWedge'
    BY <1>2 DEF SlotsAccounted, NoWedge, SeeGrant
  <1>4. QueueExact'
    BY DEF TypeOK, SeeGrant, Goto, QueueExact, Waiting
  <1>5. GrantsPlaced'
    BY DEF TypeOK, SeeGrant, Goto, GrantsPlaced
  <1> QED BY <1>1, <1>3, <1>4, <1>5

\* A caller that leaves the queue had no grant: nothing it owned is lost.
LEMMA LeaveIInv ==
    ASSUME IInv, NEW c \in Callers, Leave(c)
    PROVE  IInv'
  <1> USE DEF IInv
  <1>1. PICK i \in 1..Len(waiters) : waiters[i] = c /\ waiters' = Without(i)
    BY DEF Leave
  <1>2. c \in Waiting /\ c \notin granted
    BY <1>1 DEF Waiting, QueueExact
  <1>3. /\ waiters' \in Seq(Callers)
        /\ \A j, k \in 1..Len(waiters') : waiters'[j] = waiters'[k] => j = k
        /\ Waiting' = Waiting \ {c}
    <2> DEFINE t == SubSeq(waiters, 1, i - 1) \o SubSeq(waiters, i + 1, Len(waiters))
    <2>1. /\ t \in Seq(Callers)
          /\ \A j, k \in 1..Len(t) : t[j] = t[k] => j = k
          /\ {t[j] : j \in 1..Len(t)} = {waiters[j] : j \in 1..Len(waiters)} \ {waiters[i]}
      BY WithoutProperties DEF TypeOK, QueueExact
    <2>2. waiters' = t
      BY <1>1 DEF Without
    <2> HIDE DEF t
    <2> QED BY <1>1, <2>1, <2>2 DEF Waiting
  <1>4. TypeOK'
    BY <1>3 DEF TypeOK, Leave, Goto, PC
  <1>5. Owners' = Owners
    BY DEF TypeOK, Leave, Goto, Owners
  <1>6. waiters # <<>>
    BY <1>1 DEF TypeOK
  <1>7. SlotsAccounted' /\ NoWedge'
    BY <1>5, <1>6 DEF SlotsAccounted, NoWedge, Leave
  <1>8. QueueExact'
    BY <1>2, <1>3 DEF TypeOK, Leave, Goto, QueueExact
  <1>9. GrantsPlaced'
    BY <1>2 DEF TypeOK, Leave, Goto, GrantsPlaced
  <1> QED BY <1>4, <1>7, <1>8, <1>9

------------------------------------------------------------------------------
\* What giving a slot up does to the owners and the queue: the head waiter
\* replaces the caller, or the count drops by one (Release's two outcomes).
LEMMA ReleaseLockedEffect ==
    ASSUME IInv, NEW c \in Callers, Release(c) \/ HandBack(c)
    PROVE  /\ c \in Owners
           /\ pc' = [pc EXCEPT ![c] = "idle"] /\ ended' = ended
           /\ \/ /\ waiters # <<>> /\ Head(waiters) \in Waiting
                 /\ Head(waiters) # c
                 /\ granted' = (granted \ {c}) \cup {Head(waiters)}
                 /\ Owners' = (Owners \ {c}) \cup {Head(waiters)}
                 /\ waiters' = Tail(waiters) /\ held' = held
              \/ /\ waiters = <<>> /\ waiters' = waiters
                 /\ granted' = granted \ {c}
                 /\ Owners' = Owners \ {c}
                 /\ held > 0 /\ held' = held - 1
  <1> USE DEF IInv
  <1>1. c \in Owners /\ pc[c] \in {"own", "return"}
    BY DEF Release, HandBack, Owners
  <1>2. pc' = [pc EXCEPT ![c] = "idle"] /\ ended' = ended
    BY DEF Release, HandBack, Goto
  <1>3. Release(c) => granted \ {c} = granted
    BY DEF Release, GrantsPlaced
  <1>4. ReleaseLocked(granted \ {c})
    BY <1>3 DEF Release, HandBack
  <1>5. ASSUME waiters # <<>>
        PROVE  Head(waiters) \in Waiting /\ Head(waiters) # c
    <2>1. Head(waiters) = waiters[1] /\ Len(waiters) \in Nat \ {0}
      BY <1>5, EmptySeq DEF TypeOK
    <2>2. Head(waiters) \in Waiting
      BY <2>1 DEF Waiting
    <2> QED BY <1>1, <2>2 DEF QueueExact
  <1>6. \A h : granted' = (granted \ {c}) \cup {h} => Owners' = (Owners \ {c}) \cup {h}
    BY <1>2 DEF TypeOK, Owners
  <1>7. granted' = granted \ {c} => Owners' = Owners \ {c}
    BY <1>2 DEF TypeOK, Owners
  <1>8. held > 0
    <2>1. Cardinality(Owners) # 0
      BY <1>1, OwnersFinite, FS_EmptySet
    <2> QED BY <2>1 DEF SlotsAccounted, TypeOK
  <1> QED
    BY <1>1, <1>2, <1>4, <1>5, <1>6, <1>7, <1>8 DEF ReleaseLocked

\* Giving a slot up keeps the books, whether the head waiter gets it or not.
LEMMA ReleaseIInv ==
    ASSUME IInv, NEW c \in Callers, Release(c) \/ HandBack(c)
    PROVE  IInv'
  <1> USE DEF IInv
  <1> DEFINE h == Head(waiters)
  <1>0. /\ c \in Owners
        /\ pc' = [pc EXCEPT ![c] = "idle"] /\ ended' = ended
    BY ReleaseLockedEffect
  <1>1. CASE /\ waiters # <<>> /\ h \in Waiting /\ h # c
             /\ granted' = (granted \ {c}) \cup {h}
             /\ Owners' = (Owners \ {c}) \cup {h}
             /\ waiters' = Tail(waiters) /\ held' = held
    <2>1. /\ h \in Callers /\ waiters' \in Seq(Callers)
          /\ \A j, k \in 1..Len(waiters') : waiters'[j] = waiters'[k] => j = k
          /\ Waiting' = Waiting \ {h}
      <3> DEFINE t == Tail(waiters)
      <3>1. /\ h \in Callers /\ t \in Seq(Callers)
            /\ \A j, k \in 1..Len(t) : t[j] = t[k] => j = k
            /\ {t[j] : j \in 1..Len(t)} = {waiters[j] : j \in 1..Len(waiters)} \ {h}
        BY <1>1, TailProperties DEF TypeOK, QueueExact
      <3>2. waiters' = t
        BY <1>1
      <3> HIDE DEF t, h
      <3> QED BY <3>1, <3>2 DEF Waiting
    <2>2. h \notin Owners /\ pc[h] \in {"wait", "leave"} /\ h \notin granted
      BY <1>1, <2>1 DEF QueueExact, Owners
    <2>3. TypeOK'
      BY <1>0, <1>1, <2>1 DEF TypeOK, PC
    <2>4. Cardinality(Owners') = Cardinality(Owners)
      <3>1. /\ IsFiniteSet(Owners \ {c})
            /\ Cardinality(Owners \ {c}) = Cardinality(Owners) - 1
        BY <1>0, OwnersFinite, FS_RemoveElement
      <3>2. Cardinality((Owners \ {c}) \cup {h}) = Cardinality(Owners \ {c}) + 1
        BY <2>2, <3>1, FS_AddElement
      <3> QED BY <1>1, <3>1, <3>2, OwnersFinite
    <2>5. SlotsAccounted'
      BY <1>1, <2>4 DEF SlotsAccounted
    <2>6. NoWedge'
      BY <1>1 DEF NoWedge
    <2>7. \A d \in Callers : d # c => pc'[d] = pc[d]
      BY <1>0 DEF TypeOK
    <2>8. pc'[c] = "idle" /\ c \notin Waiting
      BY <1>0 DEF TypeOK, QueueExact, Owners, GrantsPlaced, Release, HandBack
    <2>9. Waiting' = {d \in Callers : pc'[d] \in {"wait", "leave"} /\ d \notin granted'}
      BY <1>1, <2>1, <2>2, <2>7, <2>8, Zenon DEF QueueExact
    <2>10. QueueExact'
      BY <2>1, <2>9 DEF QueueExact
    <2>11. GrantsPlaced'
      BY <1>1, <2>2, <2>7, <2>8 DEF TypeOK, GrantsPlaced
    <2> QED BY <2>3, <2>5, <2>6, <2>10, <2>11
  <1>2. CASE /\ waiters = <<>> /\ waiters' = waiters
             /\ granted' = granted \ {c}
             /\ Owners' = Owners \ {c}
             /\ held > 0 /\ held' = held - 1
    <2>1. TypeOK'
      BY <1>0, <1>2, LimiterAssumption DEF TypeOK, PC
    <2>2. SlotsAccounted'
      BY <1>0, <1>2, OwnersFinite, FS_RemoveElement DEF SlotsAccounted
    <2>3. NoWedge'
      BY <1>2 DEF NoWedge
    <2>4. Waiting' = Waiting /\ pc'[c] = "idle" /\ c \notin Waiting
          /\ \A d \in Callers : d # c => pc'[d] = pc[d]
      BY <1>0, <1>2
      DEF TypeOK, QueueExact, Owners, GrantsPlaced, Waiting, Release, HandBack
    <2>5. QueueExact'
      BY <1>2, <2>4 DEF QueueExact
    <2>6. GrantsPlaced'
      BY <1>2, <2>4 DEF TypeOK, GrantsPlaced
    <2> QED BY <2>1, <2>2, <2>3, <2>5, <2>6
  <1> QED BY <1>1, <1>2, ReleaseLockedEffect

\* Every step of every caller preserves the inductive invariant.
LEMMA NextIInv == IInv /\ [Next]_vars => IInv'
  <1> SUFFICES ASSUME IInv, [Next]_vars PROVE IInv'
    OBVIOUS
  <1>1. CASE Next
    <2>1. PICK c \in Callers : Step(c)
      BY <1>1 DEF Next
    <2> QED
      BY <2>1, TryAcquireIInv, AcquireIInv, MoveIInv, SeeGrantIInv,
         LeaveIInv, ReleaseIInv DEF Step
  <1>2. CASE UNCHANGED vars
    BY <1>2 DEF vars, IInv, TypeOK, SlotsAccounted, NoWedge, QueueExact,
                GrantsPlaced, Owners, Waiting
  <1> QED BY <1>1, <1>2

\* The inductive invariant holds in every reachable state of the limiter.
THEOREM LimiterInvariant == Spec => []IInv
  BY InitIInv, NextIInv, PTL DEF Spec

\* turn_limit.go: the count and the queue always have their type, and the
\* count never exceeds the configured limit.
THEOREM LimiterTypeOK == Spec => []TypeOK
  <1>1. IInv => TypeOK
    BY DEF IInv
  <1> QED BY <1>1, LimiterInvariant, PTL

\* turn_limit.go: however grants and cancellations race, the count is the
\* number of callers a slot is charged to, at most Limit of them, and nobody
\* waits while a slot is free (#2337).
THEOREM LimiterSafety ==
    Spec => [](SlotsAccounted /\ CapHolds /\ NoWedge /\ QueueExact)
  <1>1. IInv => SlotsAccounted /\ CapHolds /\ NoWedge /\ QueueExact
    BY LimiterAssumption DEF IInv, TypeOK, SlotsAccounted, CapHolds
  <1> QED BY <1>1, LimiterInvariant, PTL

\* An initial limiter is an initial slot queue, and every step of the limiter
\* is a step of the slot queue or leaves it unchanged.
THEOREM LimiterRefines == Spec => Refines
  <1>0. Abstract!Cardinality(Owners) = Cardinality(Owners)
    BY DEF Abstract!Cardinality, Cardinality
  <1>1. Init => Abstract!Init
    BY DEF Init, Abstract!Init, Owners
  <1>2. ASSUME IInv, [Next]_vars PROVE [Abstract!Next]_(Abstract!vars)
    <2> USE <1>2 DEF IInv
    <2>1. CASE UNCHANGED vars
      BY <2>1 DEF vars, Abstract!vars, Owners
    <2>2. ASSUME NEW c \in Callers, TryAcquire(c) PROVE Abstract!Take(c)
      <3>1. c \notin Owners
        BY <2>2 DEF TryAcquire, Owners, GrantsPlaced
      <3>2. Owners' = Owners \cup {c}
        BY <2>2 DEF TypeOK, TryAcquire, Goto, Owners
      <3> QED
        BY <1>0, <2>2, <3>1, <3>2
        DEF TryAcquire, TryAcquireLocked, SlotsAccounted, Abstract!Take
    <2>3. ASSUME NEW c \in Callers, Acquire(c) PROVE Abstract!Join(c)
      <3>1. c \notin Owners /\ c \notin Waiting
        BY <2>3 DEF Acquire, Owners, GrantsPlaced, QueueExact
      <3>2. Owners' = Owners
        BY <2>3 DEF TypeOK, Acquire, Goto, Owners
      <3>3. Cardinality(Owners) >= Limit \/ waiters # <<>>
        BY <2>3, LimiterAssumption
        DEF Acquire, TryAcquireLocked, SlotsAccounted, TypeOK
      <3> QED
        BY <1>0, <2>3, <3>1, <3>2, <3>3 DEF Acquire, Waiting, Abstract!Join
    <2>4. ASSUME NEW c \in Callers,
                 End(c) \/ SeeEnd(c) \/ LeaveGranted(c) \/ SeeGrant(c)
          PROVE  UNCHANGED Abstract!vars
      BY <2>4 DEF TypeOK, End, SeeEnd, LeaveGranted, SeeGrant, Goto, Owners,
                  Abstract!vars
    <2>5. ASSUME NEW c \in Callers, Leave(c)
          PROVE  \E i \in 1..Len(waiters) : Abstract!Abandon(i)
      BY <2>5 DEF TypeOK, Leave, Without, Goto, Owners, Abstract!Abandon
    <2>6. ASSUME NEW c \in Callers, Release(c) \/ HandBack(c)
          PROVE  Abstract!GiveUp(c)
      BY <2>6, ReleaseLockedEffect DEF Abstract!GiveUp
    <2> QED
      BY <2>1, <2>2, <2>3, <2>4, <2>5, <2>6 DEF Next, Step, Abstract!Next
  <1> QED
    BY <1>1, <1>2, LimiterInvariant, PTL DEF Spec, Refines, Abstract!Spec

\* First come, first served: a slot only ever goes to the head of the queue,
\* or to a caller that found the queue empty.
THEOREM LimiterNoOvertaking == Spec => NoOvertaking
  <1>1. ASSUME IInv, [Next]_vars,
               NEW c \in Owners' \ Owners, waiters # <<>>
        PROVE  c = Head(waiters)
    <2> USE <1>1 DEF IInv
    <2>1. CASE UNCHANGED vars
      BY <2>1 DEF vars, Owners
    <2>2. ASSUME NEW d \in Callers,
                 Acquire(d) \/ End(d) \/ SeeEnd(d) \/ LeaveGranted(d)
                 \/ SeeGrant(d) \/ Leave(d)
          PROVE  Owners' = Owners
      BY <2>2 DEF TypeOK, Acquire, End, SeeEnd, LeaveGranted, SeeGrant, Leave,
                  Goto, Owners
    <2>3. ASSUME NEW d \in Callers, Release(d) \/ HandBack(d)
          PROVE  Owners' \subseteq Owners \cup {Head(waiters)}
      BY <2>3, ReleaseLockedEffect
    <2>4. \A d \in Callers : ~TryAcquire(d)
      BY DEF TryAcquire, TryAcquireLocked
    <2> QED
      BY <2>1, <2>2, <2>3, <2>4 DEF Next, Step
  <1>2. IInv /\ [Next]_vars
          => [\A c \in Owners' \ Owners : waiters # <<>> => c = Head(waiters)]_vars
    BY <1>1
  <1> QED
    BY <1>2, LimiterInvariant, PTL DEF Spec, NoOvertaking
==============================================================================

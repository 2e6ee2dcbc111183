----------------------------- MODULE InboxProofs -----------------------------
(***************************************************************************)
(* The inbox keeps its safety invariants for any messages, asks, channel   *)
(* size, number of events and interleaving, crashes included.              *)
(*                                                                         *)
(* ExactlyOnce counts the places that hold a message.  It is kept because  *)
(* every step moves a message from one place to one other, or ends it      *)
(* (Conserved), which needs to know what the worker has in hand at each of *)
(* its positions (Control: CurPlaced, WalkPlaced, BatchPlaced,             *)
(* SlotsPlaced) and that no message is in two places even when it has come *)
(* back from the restart store (AtMostOnce).  A crash brings back what is  *)
(* stored, so the store must hold a message once (StoredOnce) and none     *)
(* that was never accepted (StoredAccepted).  IInv is the conjunction of   *)
(* those facts with the invariants themselves.                             *)
(*                                                                         *)
(* The run order (HeadOfLine) and the reach of a /stop (StopCovers) need   *)
(* the order of the queues besides: OrderInv.  The order within a class of *)
(* injections (ClassFIFO) needs that of the held list and of the injection *)
(* in hand: LineInv, at the end.                                           *)
(***************************************************************************)
EXTENDS Inbox, FiniteSetTheorems, SequenceTheorems, TLAPS

AtGate == w.pc \in {"gate1", "gate2", "gate3", "gate4"}

\* The worker serves one injection (or walks the held list): from its loop, or
\* inside the slot wait of a batch.
Serving ==
    \/ w.pc \in {"walk", "dispatch", "ready", "run", "pausing", "paused", "deferring", "inject"}
    \/ AtGate /\ w.cur # Nothing

\* The worker is inside acquireTurnSlots.
Waiting == w.pc \in {"take", "slot", "claim"} \/ (Serving /\ w.batch # <<>>)

\* The worker drives a batch, or is about to.
Driving == w.pc \in {"recheck", "batch", "drive", "after", "inactive"}

\* What is in hand where.
CurPlaced ==
    /\ w.pc \in {"dequeued", "relogin"} => w.cur \in Messages
    /\ w.pc \in {"dispatch", "ready", "run", "pausing", "deferring"} => w.cur \in Injects
    /\ AtGate => w.cur \in Injects \cup {Nothing}
    /\ w.pc \notin {"dequeued", "relogin", "dispatch", "ready", "run", "pausing", "deferring"}
       /\ ~AtGate => w.cur = Nothing
    /\ w.pc = "deferring" => w.ask \in Asks

\* Where the walk over the held list is.
WalkPlaced ==
    /\ w.pc = "walk" => w.walk > 0
    /\ w.walk > 0 => w.pc \in {"walk", "ready", "run", "pausing", "paused", "deferring", "inject"}
    /\ w.pc = "ready" /\ w.walk > 0 => w.walk <= Len(held) /\ w.cur = held[w.walk]

\* When there is a batch.
BatchPlaced ==
    /\ w.pc \in {"top", "resume", "usage", "arm", "select", "dequeued", "relogin",
                  "drive", "after", "inactive", "settle", "exited"} => w.batch = <<>>
    /\ \/ w.pc \in {"acquire", "take", "slot", "claim", "recheck", "batch"}
       \/ AtGate /\ w.cur = Nothing
       => w.batch # <<>>

\* When slots and the handles of their wait are held.
SlotsPlaced ==
    /\ w.waitCancel # "none" <=> Waiting
    /\ w.grant # "none" => Waiting /\ w.pc \notin {"take", "claim"}
    /\ Waiting /\ w.pc # "claim" => w.slots < Limiters
    /\ w.pc = "claim" \/ Driving => w.slots = Limiters
    /\ ~Waiting /\ ~Driving => w.slots = 0

\* No message is in two places, though it may have come back from the store.
AtMostOnce == \A m \in Messages : Places(m) <= 1
\* The store holds a message at most once ...
StoredOnce == \A m \in Messages : Occurs(m, stored) <= 1
\* ... and none that was not handed to the inbox.
StoredAccepted == ToSet(stored) \cap (out.unsent \cup out.fresh) = {}

\* What the worker's position says about what it holds.
Control == CurPlaced /\ WalkPlaced /\ BatchPlaced /\ SlotsPlaced

\* Without usage events no hold starts, so nothing is parked by one.
NoUsage == env.phase = "Open" /\ usageHeld = <<>> /\ ~wake.resume

\* The worker walks the held list, or will before it waits.
Looking == w.pc \in {"top", "resume", "usage", "arm", "exit"} \/ w.walk > 0

\* Every parked injection is watched, or a signal is pending, or the watch is
\* down and the worker arms it again before it waits.
Watched ==
    \/ wake.hint
    \/ ToSet(held) \subseteq wake.watch
    \/ wake.watch = {} /\ Looking

WatchInv == NoUsage /\ Watched

\* The inductive invariant.
IInv ==
    /\ TypeOK /\ Control
    /\ AtMostOnce /\ ExactlyOnce
    /\ HeldStored /\ StoredOnce /\ StoredAccepted
    /\ LoginNotStranded

-----------------------------------------------------------------------------
\* The places of s that hold an element of T, how many there are up to k, and
\* the n-th of them.
At(s, T) == {k \in DOMAIN s : s[k] \in T}
UpTo(s, T, k) == Cardinality({j \in At(s, T) : j <= k})
Pos(s, T, n) == CHOOSE k \in At(s, T) : UpTo(s, T, k) = n

\* Kept, in the terms of the lemmas below.
LEMMA KeptIs ==
    ASSUME NEW s, NEW T
    PROVE  Kept(s, T) = [n \in 1..Cardinality(At(s, T)) |-> s[Pos(s, T, n)]]
  BY DEF Kept, At, UpTo, Pos

\* The places of the elements of T are some of the sequence's.
LEMMA AtFinite ==
    ASSUME NEW S, NEW s \in Seq(S), NEW T
    PROVE  /\ At(s, T) \subseteq 1..Len(s) /\ IsFiniteSet(At(s, T))
           /\ Cardinality(At(s, T)) \in Nat
  <1>1. IsFiniteSet(1..Len(s)) /\ At(s, T) \subseteq 1..Len(s)
    BY FS_Interval DEF At
  <1>2. IsFiniteSet(At(s, T))
    BY <1>1, FS_Subset
  <1> QED BY <1>1, <1>2, FS_CardinalityType

\* A later place has more places up to it.
LEMMA UpToGrows ==
    ASSUME NEW S, NEW s \in Seq(S), NEW T,
           NEW k \in At(s, T), NEW l \in At(s, T), k < l
    PROVE  UpTo(s, T, k) < UpTo(s, T, l)
  <1> DEFINE A == {j \in At(s, T) : j <= k}
             B == {j \in At(s, T) : j <= l}
  <1>0. At(s, T) \subseteq 1..Len(s) /\ IsFiniteSet(At(s, T))
    BY AtFinite
  <1>1. IsFiniteSet(A) /\ IsFiniteSet(B)
    BY <1>0, FS_Subset
  <1>2. A \subseteq B /\ l \in B /\ l \notin A
    BY <1>0
  <1>3. Cardinality(A) \in Nat /\ Cardinality(B) \in Nat
    BY <1>1, FS_CardinalityType
  <1>4. Cardinality(A) <= Cardinality(B) /\ (Cardinality(B) = Cardinality(A) => B = A)
    BY <1>1, <1>2, FS_Subset
  <1>5. A # B
    BY <1>2
  <1> QED BY <1>3, <1>4, <1>5 DEF UpTo

\* There are between one and all places up to a place.
LEMMA UpToRange ==
    ASSUME NEW S, NEW s \in Seq(S), NEW T, NEW k \in At(s, T)
    PROVE  UpTo(s, T, k) \in 1..Cardinality(At(s, T))
  <1> DEFINE A == {j \in At(s, T) : j <= k}
  <1>0. At(s, T) \subseteq 1..Len(s) /\ IsFiniteSet(At(s, T)) /\ Cardinality(At(s, T)) \in Nat
    BY AtFinite
  <1>1. IsFiniteSet(A) /\ Cardinality(A) <= Cardinality(At(s, T))
    BY <1>0, FS_Subset
  <1>2. Cardinality(A) \in Nat /\ Cardinality(A) # 0
    BY SMTT(30), <1>0, <1>1, FS_CardinalityType, FS_EmptySet
  <1> QED BY <1>0, <1>1, <1>2 DEF UpTo

\* The n-th kept place exists, is the only one, and the places are in order.
LEMMA PosIs ==
    ASSUME NEW S, NEW s \in Seq(S), NEW T
    PROVE  /\ \A n \in 1..Cardinality(At(s, T)) :
                 Pos(s, T, n) \in At(s, T) /\ UpTo(s, T, Pos(s, T, n)) = n
           /\ \A k \in At(s, T) : Pos(s, T, UpTo(s, T, k)) = k
  <1> DEFINE A == At(s, T)
             N == Cardinality(A)
             f == [k \in A |-> UpTo(s, T, k)]
  <1>0. A \subseteq 1..Len(s) /\ IsFiniteSet(A) /\ N \in Nat
    BY AtFinite
  <1>1. f \in [A -> 1..N]
    BY UpToRange
  <1>2. \A k, l \in A : f[k] = f[l] => k = l
    <2> SUFFICES ASSUME NEW k \in A, NEW l \in A, f[k] = f[l], k # l
                 PROVE  FALSE
      OBVIOUS
    <2>1. k < l \/ l < k
      BY <1>0
    <2>2. k < l => f[k] < f[l]
      BY UpToGrows
    <2>3. l < k => f[l] < f[k]
      BY UpToGrows
    <2>4. f[k] \in 1..N
      BY <1>1
    <2> QED BY <2>1, <2>2, <2>3, <2>4, <1>0
  <1>3. f \in Injection(A, 1..N)
    BY <1>1, <1>2 DEF Injection, IsInjective
  <1>4. IsFiniteSet(1..N) /\ Cardinality(1..N) = N
    BY <1>0, FS_Interval
  <1>5. f \in Surjection(A, 1..N)
    BY <1>3, <1>4, FS_Injection
  <1>6. \A n \in 1..N : \E k \in A : f[k] = n
    BY <1>5 DEF Surjection
  <1>7. ASSUME NEW n \in 1..N
        PROVE  Pos(s, T, n) \in A /\ UpTo(s, T, Pos(s, T, n)) = n
    <2>1. \E k \in A : UpTo(s, T, k) = n
      BY <1>6
    <2> QED BY <2>1 DEF Pos
  <1>8. ASSUME NEW k \in A
        PROVE  Pos(s, T, UpTo(s, T, k)) = k
    <2>1. UpTo(s, T, k) \in 1..N
      BY UpToRange
    <2>2. Pos(s, T, UpTo(s, T, k)) \in A /\ UpTo(s, T, Pos(s, T, UpTo(s, T, k))) = UpTo(s, T, k)
      BY <2>1, <1>7
    <2> QED BY <2>2, <1>2
  <1> QED BY <1>7, <1>8

\* What is kept, and how often.
Count(s, Q) == Cardinality(At(s, Q))

\* Kept keeps the elements of T and nothing else.
LEMMA KeptSeq ==
    ASSUME NEW S, NEW s \in Seq(S), NEW T
    PROVE  /\ Kept(s, T) \in Seq(S) /\ Kept(s, T) \in Seq(T)
           /\ ToSet(Kept(s, T)) = ToSet(s) \cap T
           /\ Len(Kept(s, T)) = Count(s, T)
  <1> DEFINE N == Cardinality(At(s, T))
  <1>0. At(s, T) \subseteq 1..Len(s) /\ N \in Nat
    BY AtFinite
  <1>1. Kept(s, T) = [n \in 1..N |-> s[Pos(s, T, n)]]
    BY KeptIs
  <1>2. \A n \in 1..N : Pos(s, T, n) \in At(s, T)
    BY PosIs
  <1>3. \A n \in 1..N : s[Pos(s, T, n)] \in S \cap T
    BY <1>2, <1>0 DEF At
  <1>4. Kept(s, T) \in Seq(S) /\ Kept(s, T) \in Seq(T) /\ Len(Kept(s, T)) = N
    BY <1>0, <1>1, <1>3
  <1>5. ToSet(Kept(s, T)) \subseteq ToSet(s) \cap T
    BY <1>0, <1>1, <1>2 DEF ToSet, At
  <1>6. ASSUME NEW x \in ToSet(s) \cap T
        PROVE  x \in ToSet(Kept(s, T))
    <2>1. PICK k \in DOMAIN s : s[k] = x
      BY DEF ToSet
    <2>2. k \in At(s, T)
      BY <2>1 DEF At
    <2>3. UpTo(s, T, k) \in 1..N /\ Pos(s, T, UpTo(s, T, k)) = k
      BY <2>2, UpToRange, PosIs
    <2>4. UpTo(s, T, k) \in DOMAIN Kept(s, T) /\ Kept(s, T)[UpTo(s, T, k)] = x
      BY <1>1, <2>1, <2>3
    <2> QED BY <2>4 DEF ToSet
  <1> QED BY <1>4, <1>5, <1>6 DEF Count

\* A count is a number, zero when there is nothing to count.
LEMMA CountType ==
    ASSUME NEW S, NEW s \in Seq(S), NEW Q
    PROVE  Count(s, Q) \in Nat /\ (Count(s, Q) = 0 <=> ToSet(s) \cap Q = {})
  <1>1. Cardinality(At(s, Q)) \in Nat /\ (Cardinality(At(s, Q)) = 0 <=> At(s, Q) = {})
    BY AtFinite, FS_EmptySet
  <1>2. At(s, Q) = {} <=> ToSet(s) \cap Q = {}
    BY DEF At, ToSet
  <1> QED BY <1>1, <1>2 DEF Count

\* Kept keeps each element as often as it was there.
LEMMA KeptCount ==
    ASSUME NEW S, NEW s \in Seq(S), NEW T, NEW Q
    PROVE  Count(Kept(s, T), Q) = Count(s, Q \cap T)
  <1> DEFINE N == Cardinality(At(s, T))
             A == At(Kept(s, T), Q)
             B == At(s, Q \cap T)
             g == [n \in A |-> Pos(s, T, n)]
  <1>0. At(s, T) \subseteq 1..Len(s) /\ N \in Nat
    BY AtFinite
  <1>1. Kept(s, T) = [n \in 1..N |-> s[Pos(s, T, n)]]
    BY KeptIs
  <1>2. \A n \in 1..N : Pos(s, T, n) \in At(s, T) /\ UpTo(s, T, Pos(s, T, n)) = n
    BY PosIs
  <1>3. A \subseteq 1..N /\ \A n \in A : Pos(s, T, n) \in B
    BY <1>1, <1>2 DEF At
  <1>4. g \in Injection(A, B)
    <2>1. g \in [A -> B]
      BY <1>3
    <2>2. \A a, b \in A : g[a] = g[b] => a = b
      BY <1>2, <1>3
    <2> QED BY <2>1, <2>2 DEF Injection, IsInjective
  <1>5. g \in Surjection(A, B)
    <2>1. ASSUME NEW k \in B
          PROVE  \E n \in A : g[n] = k
      <3>1. k \in At(s, T) /\ s[k] \in Q
        BY DEF At
      <3>2. UpTo(s, T, k) \in 1..N /\ Pos(s, T, UpTo(s, T, k)) = k
        BY <3>1, UpToRange, PosIs
      <3>3. UpTo(s, T, k) \in A
        BY <1>1, <3>1, <3>2 DEF At
      <3> QED BY <3>2, <3>3
    <2> QED BY <1>3, <2>1 DEF Surjection
  <1>6. Kept(s, T) \in Seq(S)
    BY KeptSeq
  <1>7. IsFiniteSet(A)
    BY <1>6, AtFinite
  <1>8. ExistsBijection(A, B)
    BY <1>4, <1>5 DEF ExistsBijection, Bijection
  <1> QED BY <1>7, <1>8, FS_Bijection DEF Count

\* Counts add up over a concatenation ...
LEMMA CountConcat ==
    ASSUME NEW S, NEW s \in Seq(S), NEW t \in Seq(S), NEW Q
    PROVE  Count(s \o t, Q) = Count(s, Q) + Count(t, Q)
  <1> DEFINE A == At(s, Q)
             B == At(t, Q)
             C == {k + Len(s) : k \in B}
             g == [k \in B |-> k + Len(s)]
  <1>0. /\ A \subseteq 1..Len(s) /\ IsFiniteSet(A) /\ B \subseteq 1..Len(t) /\ IsFiniteSet(B)
        /\ Cardinality(A) \in Nat /\ Cardinality(B) \in Nat /\ Len(s) \in Nat /\ Len(t) \in Nat
    BY AtFinite
  <1>1. /\ g \in [B -> C] /\ \A a, b \in B : g[a] = g[b] => a = b
        /\ \A c \in C : \E b \in B : g[b] = c
    BY <1>0
  <1>2. ExistsBijection(B, C)
    BY <1>1 DEF ExistsBijection, Bijection, Injection, IsInjective, Surjection
  <1>3. IsFiniteSet(C) /\ Cardinality(C) = Cardinality(B)
    BY <1>0, <1>2, FS_Bijection
  <1>4. At(s \o t, Q) = A \cup C
    <2>1. DOMAIN (s \o t) = 1..(Len(s) + Len(t))
      BY <1>0
    <2>2. \A k \in 1..(Len(s) + Len(t)) :
             (s \o t)[k] = IF k <= Len(s) THEN s[k] ELSE t[k - Len(s)]
      BY ConcatProperties
    <2>3. ASSUME NEW k \in At(s \o t, Q) PROVE k \in A \cup C
      <3>1. k \in 1..(Len(s) + Len(t)) /\ (s \o t)[k] \in Q
        BY <2>1 DEF At
      <3>2. CASE k <= Len(s)
        BY <3>1, <3>2, <2>2, <1>0 DEF At
      <3>3. CASE ~(k <= Len(s))
        <4>1. k - Len(s) \in 1..Len(t) /\ t[k - Len(s)] \in Q
          BY <3>1, <3>3, <2>2, <1>0
        <4>2. k - Len(s) \in B /\ k = (k - Len(s)) + Len(s)
          BY <4>1, <3>1, <1>0 DEF At
        <4> QED BY <4>2
      <3> QED BY <3>2, <3>3
    <2>4. ASSUME NEW k \in A PROVE k \in At(s \o t, Q)
      BY <2>1, <2>2, <1>0 DEF At
    <2>5. ASSUME NEW j \in B PROVE j + Len(s) \in At(s \o t, Q)
      <3>1. j \in 1..Len(t) /\ t[j] \in Q
        BY <1>0 DEF At
      <3>2. j + Len(s) \in 1..(Len(s) + Len(t)) /\ ~(j + Len(s) <= Len(s)) /\ (j + Len(s)) - Len(s) = j
        BY <3>1, <1>0
      <3>3. (s \o t)[j + Len(s)] = t[j]
        BY <3>2, <2>2
      <3> QED BY <3>1, <3>2, <3>3, <2>1 DEF At
    <2> QED BY <2>3, <2>4, <2>5
  <1>5. A \cap C = {}
    BY <1>0
  <1>6. Cardinality(A \cup C) = Cardinality(A) + Cardinality(C) - Cardinality(A \cap C)
    BY <1>0, <1>3, FS_Union
  <1>7. Cardinality(A \cap C) = 0
    BY <1>5, FS_EmptySet
  <1>8. Cardinality(A \cup C) = Cardinality(A) + Cardinality(B)
    BY <1>0, <1>3, <1>6, <1>7
  <1> QED BY <1>4, <1>8 DEF Count

\* ... and over disjoint sets.
LEMMA CountSplit ==
    ASSUME NEW S, NEW s \in Seq(S), NEW P, NEW Q, P \cap Q = {}
    PROVE  Count(s, P \cup Q) = Count(s, P) + Count(s, Q)
  <1>1. /\ IsFiniteSet(At(s, P)) /\ IsFiniteSet(At(s, Q))
        /\ Cardinality(At(s, P)) \in Nat /\ Cardinality(At(s, Q)) \in Nat
    BY AtFinite
  <1>2. At(s, P \cup Q) = At(s, P) \cup At(s, Q) /\ At(s, P) \cap At(s, Q) = {}
    BY DEF At
  <1>3. Cardinality(At(s, P) \cup At(s, Q))
          = Cardinality(At(s, P)) + Cardinality(At(s, Q)) - Cardinality(At(s, P) \cap At(s, Q))
    BY <1>1, FS_Union
  <1>4. Cardinality(At(s, P) \cap At(s, Q)) = 0
    BY <1>2, FS_EmptySet
  <1>5. Cardinality(At(s, P) \cup At(s, Q)) = Cardinality(At(s, P)) + Cardinality(At(s, Q))
    BY <1>1, <1>3, <1>4
  <1> QED BY <1>2, <1>5 DEF Count

\* Counts in a sequence of one element and of none.
LEMMA CountOne ==
    ASSUME NEW x, NEW Q
    PROVE  Count(<<x>>, Q) = (IF x \in Q THEN 1 ELSE 0) /\ Count(<<>>, Q) = 0
  <1>1. At(<<>>, Q) = {}
    BY DEF At
  <1>2. CASE x \in Q
    <2>1. At(<<x>>, Q) = {1}
      BY <1>2 DEF At
    <2> QED BY <1>1, <1>2, <2>1, FS_Singleton, FS_EmptySet DEF Count
  <1>3. CASE x \notin Q
    <2>1. At(<<x>>, Q) = {}
      BY <1>3 DEF At
    <2> QED BY <1>1, <1>3, <2>1, FS_EmptySet DEF Count
  <1> QED BY <1>2, <1>3

\* Counting one: x is m, and m belongs to S.
Is(x, m) == IF x = m THEN 1 ELSE 0
In(m, S) == IF m \in S THEN 1 ELSE 0

\* Is and In are zero or one.
LEMMA IsType ==
    /\ \A x, m : Is(x, m) \in Nat /\ Is(x, m) <= 1 /\ (Is(x, m) = 1 <=> x = m) /\ (Is(x, m) = 0 <=> x # m)
    /\ \A m, S : In(m, S) \in Nat /\ In(m, S) <= 1 /\ (In(m, S) = 1 <=> m \in S) /\ (In(m, S) = 0 <=> m \notin S)
  BY DEF Is, In

\* Occurs counts one value.
LEMMA OccursIsCount == \A m, s : Occurs(m, s) = Count(s, {m})
  <1> SUFFICES ASSUME NEW m, NEW s PROVE Occurs(m, s) = Count(s, {m})
    OBVIOUS
  <1>1. {k \in DOMAIN s : s[k] = m} = At(s, {m})
    BY DEF At
  <1> QED BY <1>1 DEF Occurs, Count

\* How often a message occurs is a number, zero when it is not there.
LEMMA OccursType ==
    ASSUME NEW S, NEW s \in Seq(S), NEW m
    PROVE  Occurs(m, s) \in Nat /\ (Occurs(m, s) = 0 <=> m \notin ToSet(s))
  <1>1. Count(s, {m}) \in Nat /\ (Count(s, {m}) = 0 <=> ToSet(s) \cap {m} = {})
    BY CountType
  <1>2. ToSet(s) \cap {m} = {} <=> m \notin ToSet(s)
    OBVIOUS
  <1>3. Occurs(m, s) = Count(s, {m})
    BY OccursIsCount
  <1> QED BY <1>1, <1>2, <1>3

\* Occurrences add up over a concatenation.
LEMMA OccursConcat ==
    ASSUME NEW S, NEW s \in Seq(S), NEW t \in Seq(S), NEW m
    PROVE  Occurs(m, s \o t) = Occurs(m, s) + Occurs(m, t)
  BY OccursIsCount, CountConcat

\* Occurrences in a sequence of one element and of none.
LEMMA OccursOne ==
    ASSUME NEW x, NEW m
    PROVE  Occurs(m, <<x>>) = Is(x, m) /\ Occurs(m, <<>>) = 0
  <1>1. Count(<<x>>, {m}) = (IF x \in {m} THEN 1 ELSE 0) /\ Count(<<>>, {m}) = 0
    BY CountOne
  <1> QED BY <1>1, OccursIsCount DEF Is

\* Adding an element at the end or at the head.
LEMMA OccursAppend ==
    ASSUME NEW S, NEW s \in Seq(S), NEW x \in S, NEW m
    PROVE  /\ Occurs(m, Append(s, x)) = Occurs(m, s) + Is(x, m)
           /\ Occurs(m, <<x>> \o s) = Occurs(m, s) + Is(x, m)
  <1>1. Append(s, x) = s \o <<x>> /\ <<x>> \in Seq(S)
    OBVIOUS
  <1>2. Occurs(m, s) \in Nat 
    BY OccursType
  <1>3. Occurs(m, s \o <<x>>) = Occurs(m, s) + Occurs(m, <<x>>)
    BY <1>1, OccursConcat
  <1>4. Occurs(m, <<x>> \o s) = Occurs(m, <<x>>) + Occurs(m, s)
    BY <1>1, OccursConcat
  <1>5. Occurs(m, <<x>>) = Is(x, m) /\ Is(x, m) \in Nat
    BY OccursOne, IsType
  <1> QED BY <1>1, <1>2, <1>3, <1>4, <1>5

\* Taking the head off.
LEMMA OccursPop ==
    ASSUME NEW S, NEW s \in Seq(S), s # <<>>, NEW m
    PROVE  Occurs(m, s) = Occurs(m, Tail(s)) + Is(Head(s), m)
  <1>1. s = <<Head(s)>> \o Tail(s) /\ Head(s) \in S /\ Tail(s) \in Seq(S)
    OBVIOUS
  <1>2. Occurs(m, <<Head(s)>> \o Tail(s)) = Occurs(m, Tail(s)) + Is(Head(s), m)
    BY <1>1, OccursAppend
  <1> QED BY <1>1, <1>2

\* The elements of a concatenation.
LEMMA ToSetConcat ==
    ASSUME NEW S, NEW s \in Seq(S), NEW t \in Seq(S)
    PROVE  ToSet(s \o t) = ToSet(s) \cup ToSet(t)
  <1>1. \A x : x \in ToSet(s \o t) <=> x \in ToSet(s) \/ x \in ToSet(t)
    <2> SUFFICES ASSUME NEW x PROVE x \in ToSet(s \o t) <=> x \in ToSet(s) \/ x \in ToSet(t)
      OBVIOUS
    <2>1. s \o t \in Seq(S)
      OBVIOUS
    <2>2. /\ Occurs(x, s \o t) \in Nat /\ (Occurs(x, s \o t) = 0 <=> x \notin ToSet(s \o t))
          /\ Occurs(x, s) \in Nat /\ (Occurs(x, s) = 0 <=> x \notin ToSet(s))
          /\ Occurs(x, t) \in Nat /\ (Occurs(x, t) = 0 <=> x \notin ToSet(t))
      BY <2>1, OccursType
    <2>3. Occurs(x, s \o t) = Occurs(x, s) + Occurs(x, t)
      BY OccursConcat
    <2> QED BY <2>2, <2>3
  <1> QED BY <1>1

\* Taking out one element.
LEMMA OccursRemoveAt ==
    ASSUME NEW S, NEW s \in Seq(S), NEW k \in 1..Len(s), NEW m
    PROVE  /\ RemoveAt(s, k) \in Seq(S)
           /\ ToSet(RemoveAt(s, k)) \subseteq ToSet(s)
           /\ Occurs(m, RemoveAt(s, k)) + Is(s[k], m) = Occurs(m, s)
  <1> DEFINE a == SubSeq(s, 1, k - 1)
             b == SubSeq(s, k + 1, Len(s))
  <1>1. /\ a \in Seq(S) /\ Len(a) = k - 1 /\ \A i \in 1..(k - 1) : a[i] = s[i]
        /\ b \in Seq(S) /\ Len(b) = Len(s) - k /\ \A i \in 1..(Len(s) - k) : b[i] = s[k + i]
        /\ s[k] \in S /\ RemoveAt(s, k) = a \o b
    BY DEF RemoveAt
  <1> HIDE DEF a, b
  <1>2. s = Append(a, s[k]) \o b /\ Append(a, s[k]) \in Seq(S)
    <2>1. Append(a, s[k]) \in Seq(S) /\ Len(Append(a, s[k])) = k
          /\ \A i \in 1..k : Append(a, s[k])[i] = s[i]
      BY <1>1
    <2>2. Append(a, s[k]) \o b \in Seq(S) /\ Len(Append(a, s[k]) \o b) = k + Len(b)
      BY <1>1, <2>1, ConcatProperties
    <2>0. Len(s) \in Nat /\ k + Len(b) = Len(s)
      BY <1>1
    <2>3. ASSUME NEW i \in 1..Len(s) PROVE (Append(a, s[k]) \o b)[i] = s[i]
      <3>1. CASE i <= k
        BY <1>1, <2>1, <3>1
      <3>2. CASE ~(i <= k)
        <4>1. i - k \in 1..(Len(s) - k) /\ k + (i - k) = i
          BY <3>2
        <4>2. (Append(a, s[k]) \o b)[i] = b[i - k]
          BY SMTT(30), <1>1, <2>1, <3>2
        <4> QED BY <1>1, <4>1, <4>2
      <3> QED BY <3>1, <3>2
    <2> QED BY <2>0, <2>1, <2>2, <2>3, SeqEqual
  <1>3. Occurs(m, s) = Occurs(m, a) + Is(s[k], m) + Occurs(m, b)
    <2>1. Occurs(m, Append(a, s[k]) \o b) = Occurs(m, Append(a, s[k])) + Occurs(m, b)
      BY <1>1, <1>2, OccursConcat
    <2>0. a \in Seq(S)
      BY <1>1
    <2>2. \A x \in S : Occurs(m, Append(a, x)) = Occurs(m, a) + Is(x, m)
      BY <2>0, OccursAppend
    <2> QED BY <1>1, <1>2, <2>1, <2>2
  <1>4. Occurs(m, a \o b) = Occurs(m, a) + Occurs(m, b)
    BY <1>1, OccursConcat
  <1>5. Occurs(m, a) \in Nat /\ Occurs(m, b) \in Nat /\ Is(s[k], m) \in Nat
    BY <1>1, OccursType, IsType
  <1>6. a \o b \in Seq(S) /\ ToSet(a) \subseteq ToSet(s) /\ ToSet(b) \subseteq ToSet(s)
    <2>1. DOMAIN a = 1..(k - 1) /\ DOMAIN b = 1..(Len(s) - k) /\ DOMAIN s = 1..Len(s)
      BY <1>1
    <2>2. \A i \in 1..(Len(s) - k) : k + i \in 1..Len(s)
      OBVIOUS
    <2>3. \A i \in 1..(k - 1) : i \in 1..Len(s)
      OBVIOUS
    <2>4. ToSet(a) \subseteq ToSet(s)
      BY <1>1, <2>1, <2>3 DEF ToSet
    <2>5. ASSUME NEW i \in 1..(Len(s) - k) PROVE b[i] \in ToSet(s)
      BY <1>1, <2>1, <2>2 DEF ToSet
    <2>6. ToSet(b) \subseteq ToSet(s)
      BY <2>1, <2>5 DEF ToSet
    <2> QED BY <1>1, <2>4, <2>6
  <1>7. ToSet(a \o b) \subseteq ToSet(a) \cup ToSet(b)
    BY <1>1, ToSetConcat
  <1> QED BY <1>1, <1>3, <1>4, <1>5, <1>6, <1>7

\* Occurrences in what Kept keeps.
LEMMA OccursKept ==
    ASSUME NEW S, NEW s \in Seq(S), NEW T, NEW m
    PROVE  Occurs(m, Kept(s, T)) = IF m \in T THEN Occurs(m, s) ELSE 0
  <1>1. Occurs(m, Kept(s, T)) = Count(s, {m} \cap T)
    BY ZenonT(30), OccursIsCount, KeptCount
  <1>2. CASE m \in T
    <2>1. {m} \cap T = {m}
      BY <1>2
    <2> QED BY <1>1, <1>2, <2>1, OccursIsCount
  <1>3. CASE m \notin T
    <2>1. {m} \cap T = {}
      BY <1>3
    <2>2. Count(s, {}) = 0
      BY CountType
    <2> QED BY <1>1, <1>3, <2>1, <2>2
  <1> QED BY <1>2, <1>3

\* An entry of the deferred list.
Deferral == [msg : Injects, by : Asks \cup {Login}]

\* The messages of a list of deferrals.
LEMMA MessagesOfSeq ==
    ASSUME NEW l \in Seq(Deferral)
    PROVE  /\ MessagesOf(l) \in Seq(Injects) /\ Len(MessagesOf(l)) = Len(l)
           /\ ToSet(MessagesOf(l)) = {d.msg : d \in ToSet(l)}
           /\ \A m : Occurs(m, MessagesOf(l)) = Count(l, {d \in Deferral : d.msg = m})
  <1>1. MessagesOf(l) \in Seq(Injects) /\ Len(MessagesOf(l)) = Len(l)
    <2>1. \A k \in 1..Len(l) : l[k] \in Deferral
      OBVIOUS
    <2>2. \A k \in 1..Len(l) : l[k].msg \in Injects
      BY <2>1 DEF Deferral
    <2>3. MessagesOf(l) \in [1..Len(l) -> Injects] /\ Len(l) \in Nat
      BY <2>2 DEF MessagesOf
    <2> QED BY <2>3
  <1>2. ToSet(MessagesOf(l)) = {d.msg : d \in ToSet(l)}
    <2>1. DOMAIN MessagesOf(l) = DOMAIN l /\ \A k \in DOMAIN l : MessagesOf(l)[k] = l[k].msg
      BY DEF MessagesOf
    <2> QED BY <2>1 DEF ToSet
  <1>3. ASSUME NEW m
        PROVE  Occurs(m, MessagesOf(l)) = Count(l, {d \in Deferral : d.msg = m})
    <2>1. {k \in DOMAIN MessagesOf(l) : MessagesOf(l)[k] = m} = At(l, {d \in Deferral : d.msg = m})
      BY DEF MessagesOf, At
    <2> QED BY <2>1 DEF Occurs, Count
  <1> QED BY <1>1, <1>2, <1>3

\* Occurrences of a message in a list of deferrals.
LEMMA OccursDeferred ==
    ASSUME NEW l \in Seq(Deferral), NEW m
    PROVE  /\ \A A, B : A \cap B = {} /\ ToSet(l) \subseteq A \cup B =>
                 Occurs(m, MessagesOf(Kept(l, A))) + Occurs(m, MessagesOf(Kept(l, B)))
                   = Occurs(m, MessagesOf(l))
           /\ \A d \in Deferral :
                 Occurs(m, MessagesOf(Append(l, d))) = Occurs(m, MessagesOf(l)) + Is(d.msg, m)
  <1> DEFINE Q == {d \in Deferral : d.msg = m}
  <1>1. ASSUME NEW A, NEW B, A \cap B = {}, ToSet(l) \subseteq A \cup B
        PROVE  Occurs(m, MessagesOf(Kept(l, A))) + Occurs(m, MessagesOf(Kept(l, B)))
                 = Occurs(m, MessagesOf(l))
    <2>1. Kept(l, A) \in Seq(Deferral) /\ Kept(l, B) \in Seq(Deferral)
      BY KeptSeq
    <2>2. /\ Occurs(m, MessagesOf(Kept(l, A))) = Count(Kept(l, A), Q)
          /\ Occurs(m, MessagesOf(Kept(l, B))) = Count(Kept(l, B), Q)
          /\ Occurs(m, MessagesOf(l)) = Count(l, Q)
      BY <2>1, MessagesOfSeq
    <2>3. Count(Kept(l, A), Q) = Count(l, Q \cap A) /\ Count(Kept(l, B), Q) = Count(l, Q \cap B)
      BY KeptCount
    <2>4. Count(l, (Q \cap A) \cup (Q \cap B)) = Count(l, Q \cap A) + Count(l, Q \cap B)
      <3>1. (Q \cap A) \cap (Q \cap B) = {}
        BY <1>1
      <3> QED BY <3>1, CountSplit
    <2>5. At(l, (Q \cap A) \cup (Q \cap B)) = At(l, Q)
      <3>1. \A k \in DOMAIN l : l[k] \in A \cup B
        BY <1>1 DEF ToSet
      <3> QED BY <3>1 DEF At
    <2> QED BY <2>2, <2>3, <2>4, <2>5 DEF Count
  <1>2. ASSUME NEW d \in Deferral
        PROVE  Occurs(m, MessagesOf(Append(l, d))) = Occurs(m, MessagesOf(l)) + Is(d.msg, m)
    <2>1. MessagesOf(Append(l, d)) = Append(MessagesOf(l), d.msg)
      BY DEF MessagesOf
    <2>2. MessagesOf(l) \in Seq(Injects) /\ d.msg \in Injects
      BY MessagesOfSeq DEF Deferral
    <2>3. Occurs(m, Append(MessagesOf(l), d.msg)) = Occurs(m, MessagesOf(l)) + Is(d.msg, m)
      BY <2>2, OccursAppend
    <2> QED BY <2>1, <2>3
  <1> QED BY <1>1, <1>2

-----------------------------------------------------------------------------
(* Types: every step keeps TypeOK, one lemma per action.                   *)

\* The fates, as a set.
FateType == [Messages -> Seq(Outcomes)]

\* The fates after some messages ended.
LEMMA EndedType ==
    ASSUME fate \in FateType, NEW S, NEW o \in Outcomes
    PROVE  Ended(S, o) \in FateType
  BY DEF FateType, Ended

\* Each field of the worker may be set to a value of its type.
LEMMA WorkerSet ==
    ASSUME NEW x \in Worker
    PROVE  /\ \A v \in PCs : [x EXCEPT !.pc = v] \in Worker
           /\ \A v \in Messages \cup {Nothing} : [x EXCEPT !.cur = v] \in Worker
           /\ \A v \in Seq(Messages) : [x EXCEPT !.batch = v] \in Worker
           /\ \A v \in Nat : [x EXCEPT !.walk = v] \in Worker
           /\ \A v \in 0..2 : [x EXCEPT !.slots = v] \in Worker
           /\ \A v \in {"none", "asked", "given"} : [x EXCEPT !.grant = v] \in Worker
           /\ \A v \in {"none", "set", "fired"} : [x EXCEPT !.waitCancel = v] \in Worker
           /\ \A v \in BOOLEAN : [x EXCEPT !.active = v] \in Worker
           /\ \A v \in Users \cup Lines \cup {Nothing} : [x EXCEPT !.head = v] \in Worker
           /\ \A v \in Nat : [x EXCEPT !.attempt = v] \in Worker
           /\ \A v \in Asks \cup {Nothing} : [x EXCEPT !.ask = v] \in Worker
  <1>1. \A v \in PCs : [x EXCEPT !.pc = v] \in Worker
    BY DEF Worker
  <1>2. \A v \in Messages \cup {Nothing} : [x EXCEPT !.cur = v] \in Worker
    BY DEF Worker
  <1>3. \A v \in Seq(Messages) : [x EXCEPT !.batch = v] \in Worker
    BY DEF Worker
  <1>4. \A v \in Nat : [x EXCEPT !.walk = v] \in Worker
    BY DEF Worker
  <1>5. \A v \in 0..2 : [x EXCEPT !.slots = v] \in Worker
    BY DEF Worker
  <1>6. \A v \in {"none", "asked", "given"} : [x EXCEPT !.grant = v] \in Worker
    BY DEF Worker
  <1>7. \A v \in {"none", "set", "fired"} : [x EXCEPT !.waitCancel = v] \in Worker
    BY DEF Worker
  <1>8. \A v \in BOOLEAN : [x EXCEPT !.active = v] \in Worker
    BY DEF Worker
  <1>9. \A v \in Users \cup Lines \cup {Nothing} : [x EXCEPT !.head = v] \in Worker
    BY DEF Worker
  <1>10. \A v \in Nat : [x EXCEPT !.attempt = v] \in Worker
    BY DEF Worker
  <1>11. \A v \in Asks \cup {Nothing} : [x EXCEPT !.ask = v] \in Worker
    BY DEF Worker
  <1> QED BY <1>1, <1>2, <1>3, <1>4, <1>5, <1>6, <1>7, <1>8, <1>9, <1>10, <1>11

\* ... and of what can wake it.
LEMMA WakeSet ==
    ASSUME NEW x \in Wakeups
    PROVE  /\ \A v \in SUBSET Injects : [x EXCEPT !.watch = v] \in Wakeups
           /\ \A v \in BOOLEAN : [x EXCEPT !.hint = v] \in Wakeups
           /\ \A v \in {"off", "live", "closed"} : [x EXCEPT !.usage = v] \in Wakeups
           /\ \A v \in BOOLEAN : [x EXCEPT !.resume = v] \in Wakeups
           /\ \A v \in BOOLEAN : [x EXCEPT !.kick = v] \in Wakeups
  <1>1. \A v \in SUBSET Injects : [x EXCEPT !.watch = v] \in Wakeups
    BY DEF Wakeups
  <1>2. \A v \in BOOLEAN : [x EXCEPT !.hint = v] \in Wakeups
    BY DEF Wakeups
  <1>3. \A v \in {"off", "live", "closed"} : [x EXCEPT !.usage = v] \in Wakeups
    BY DEF Wakeups
  <1>4. \A v \in BOOLEAN : [x EXCEPT !.resume = v] \in Wakeups
    BY DEF Wakeups
  <1>5. \A v \in BOOLEAN : [x EXCEPT !.kick = v] \in Wakeups
    BY DEF Wakeups
  <1> QED BY <1>1, <1>2, <1>3, <1>4, <1>5

\* ... of the holds.
LEMMA EnvSet ==
    ASSUME NEW x \in Environment
    PROVE  /\ \A v \in Phases : [x EXCEPT !.phase = v] \in Environment
           /\ \A v \in BOOLEAN : [x EXCEPT !.relogin = v] \in Environment
           /\ \A v \in BOOLEAN : [x EXCEPT !.login = v] \in Environment
           /\ \A v \in Nat : [x EXCEPT !.attempt = v] \in Environment
           /\ \A v \in Asks \cup {Nothing} : [x EXCEPT !.ask = v] \in Environment
           /\ \A v \in BOOLEAN : [x EXCEPT !.silent = v] \in Environment
           /\ \A v \in BOOLEAN : [x EXCEPT !.compacting = v] \in Environment
           /\ \A v \in BOOLEAN : [x EXCEPT !.work = v] \in Environment
           /\ \A v \in BOOLEAN : [x EXCEPT !.adopted = v] \in Environment
           /\ \A v \in BOOLEAN : [x EXCEPT !.shutting = v] \in Environment
           /\ \A v \in BOOLEAN : [x EXCEPT !.done = v] \in Environment
  <1>1. \A v \in Phases : [x EXCEPT !.phase = v] \in Environment
    BY DEF Environment
  <1>2. \A v \in BOOLEAN : [x EXCEPT !.relogin = v] \in Environment
    BY DEF Environment
  <1>3. \A v \in BOOLEAN : [x EXCEPT !.login = v] \in Environment
    BY DEF Environment
  <1>4. \A v \in Nat : [x EXCEPT !.attempt = v] \in Environment
    BY DEF Environment
  <1>5. \A v \in Asks \cup {Nothing} : [x EXCEPT !.ask = v] \in Environment
    BY DEF Environment
  <1>6. \A v \in BOOLEAN : [x EXCEPT !.silent = v] \in Environment
    BY DEF Environment
  <1>7. \A v \in BOOLEAN : [x EXCEPT !.compacting = v] \in Environment
    BY DEF Environment
  <1>8. \A v \in BOOLEAN : [x EXCEPT !.work = v] \in Environment
    BY DEF Environment
  <1>9. \A v \in BOOLEAN : [x EXCEPT !.adopted = v] \in Environment
    BY DEF Environment
  <1>10. \A v \in BOOLEAN : [x EXCEPT !.shutting = v] \in Environment
    BY DEF Environment
  <1>11. \A v \in BOOLEAN : [x EXCEPT !.done = v] \in Environment
    BY DEF Environment
  <1> QED BY <1>1, <1>2, <1>3, <1>4, <1>5, <1>6, <1>7, <1>8, <1>9, <1>10, <1>11

\* ... of the clock.
LEMMA ClockSet ==
    ASSUME NEW x \in Clock
    PROVE  /\ \A v \in SUBSET Injects : [x EXCEPT !.parked = v] \in Clock
           /\ \A v \in SUBSET Injects : [x EXCEPT !.aged = v] \in Clock
           /\ \A v \in SUBSET Injects : [x EXCEPT !.asked = v] \in Clock
           /\ \A v \in SUBSET Injects : [x EXCEPT !.askAged = v] \in Clock
           /\ \A v \in SUBSET Injects : [x EXCEPT !.timers = v] \in Clock
  <1>1. \A v \in SUBSET Injects : [x EXCEPT !.parked = v] \in Clock
    BY DEF Clock
  <1>2. \A v \in SUBSET Injects : [x EXCEPT !.aged = v] \in Clock
    BY DEF Clock
  <1>3. \A v \in SUBSET Injects : [x EXCEPT !.asked = v] \in Clock
    BY DEF Clock
  <1>4. \A v \in SUBSET Injects : [x EXCEPT !.askAged = v] \in Clock
    BY DEF Clock
  <1>5. \A v \in SUBSET Injects : [x EXCEPT !.timers = v] \in Clock
    BY DEF Clock
  <1> QED BY <1>1, <1>2, <1>3, <1>4, <1>5

\* ... and of the goroutines outside.
LEMMA OutSet ==
    ASSUME NEW x \in Outside
    PROVE  /\ \A v \in SUBSET (Users \cup Injects) : [x EXCEPT !.unsent = v] \in Outside
           /\ \A v \in SUBSET Lines : [x EXCEPT !.fresh = v] \in Outside
           /\ \A v \in SUBSET (Users \cup Injects) : [x EXCEPT !.steering = v] \in Outside
           /\ \A v \in SUBSET (Asks \cup {Login}) : [x EXCEPT !.due = v] \in Outside
           /\ \A v \in Seq(Injects) : [x EXCEPT !.requeue = v] \in Outside
           /\ \A v \in Seq(Messages) : [x EXCEPT !.restore = v] \in Outside
           /\ \A v \in SUBSET Messages : [x EXCEPT !.restored = v] \in Outside
           /\ \A v \in 0..MaxEvents : [x EXCEPT !.events = v] \in Outside
  <1>1. \A v \in SUBSET (Users \cup Injects) : [x EXCEPT !.unsent = v] \in Outside
    BY DEF Outside
  <1>2. \A v \in SUBSET Lines : [x EXCEPT !.fresh = v] \in Outside
    BY DEF Outside
  <1>3. \A v \in SUBSET (Users \cup Injects) : [x EXCEPT !.steering = v] \in Outside
    BY DEF Outside
  <1>4. \A v \in SUBSET (Asks \cup {Login}) : [x EXCEPT !.due = v] \in Outside
    BY DEF Outside
  <1>5. \A v \in Seq(Injects) : [x EXCEPT !.requeue = v] \in Outside
    BY DEF Outside
  <1>6. \A v \in Seq(Messages) : [x EXCEPT !.restore = v] \in Outside
    BY DEF Outside
  <1>7. \A v \in SUBSET Messages : [x EXCEPT !.restored = v] \in Outside
    BY DEF Outside
  <1>8. \A v \in 0..MaxEvents : [x EXCEPT !.events = v] \in Outside
    BY DEF Outside
  <1> QED BY <1>1, <1>2, <1>3, <1>4, <1>5, <1>6, <1>7, <1>8

\* The values the fields of the worker take.
LEMMA WorkerValues ==
    /\ 0 \in 0..2 /\ 0 \in Nat /\ 1 \in Nat /\ <<>> \in Seq(Messages)
    /\ Nothing \in Messages \cup {Nothing} /\ Nothing \in Users \cup Lines \cup {Nothing}
    /\ Nothing \in Asks \cup {Nothing}
  OBVIOUS

\* The worker after it returned to where it dispatched from.
LEMMA DoneIs ==
    ASSUME w \in Worker
    PROVE  /\ Done \in Worker
           /\ Done.pc = Back /\ Done.cur = Nothing /\ Done.batch = w.batch /\ Done.walk = w.walk
           /\ Done.slots = w.slots /\ Done.grant = w.grant /\ Done.waitCancel = w.waitCancel
  <1>1. Done \in Worker
    BY ZenonT(30) DEF Done, Back, Worker, PCs
  <1> QED BY <1>1 DEF Done, Worker

\* The worker on its way out.
LEMMA LeavingIs ==
    ASSUME w \in Worker
    PROVE  /\ Leaving \in Worker
           /\ Leaving.pc = "exit" /\ Leaving.cur = Nothing /\ Leaving.batch = w.batch
           /\ Leaving.walk = 0 /\ Leaving.slots = 0 /\ Leaving.grant = "none"
           /\ Leaving.waitCancel = "none"
  <1>1. "exit" \in PCs
    BY DEF PCs
  <1>2. [w EXCEPT !.pc = "exit", !.cur = Nothing, !.walk = 0] \in Worker
    BY <1>1, WorkerSet, WorkerValues
  <1>3. ASSUME NEW y \in Worker
        PROVE  [y EXCEPT !.slots = 0, !.grant = "none", !.waitCancel = "none"] \in Worker
    BY WorkerSet, WorkerValues
  <1>4. Leaving \in Worker
    BY <1>2, <1>3 DEF Leaving
  <1> QED BY <1>4 DEF Leaving, Worker

\* The worker after it took a slot.
LEMMA SlotTakenIs ==
    ASSUME w \in Worker, w.slots < Limiters
    PROVE  /\ SlotTaken \in Worker
           /\ SlotTaken.pc = (IF w.slots + 1 = Limiters THEN "claim" ELSE "take")
           /\ SlotTaken.cur = w.cur /\ SlotTaken.batch = w.batch /\ SlotTaken.walk = w.walk
           /\ SlotTaken.slots = w.slots + 1 /\ SlotTaken.grant = "none"
           /\ SlotTaken.waitCancel = w.waitCancel
  <1>1. w.slots + 1 \in 0..2
    BY InboxAssumption DEF Worker
  <1>2. (IF w.slots + 1 = Limiters THEN "claim" ELSE "take") \in PCs
    BY DEF PCs
  <1>3. ASSUME NEW s \in 0..2, NEW p \in PCs
        PROVE  [w EXCEPT !.slots = s, !.grant = "none", !.pc = p] \in Worker
    BY DEF Worker
  <1>4. SlotTaken \in Worker
    BY <1>1, <1>2, <1>3 DEF SlotTaken
  <1>5. /\ SlotTaken.cur = w.cur /\ SlotTaken.batch = w.batch /\ SlotTaken.walk = w.walk
        /\ SlotTaken.grant = "none" /\ SlotTaken.waitCancel = w.waitCancel
    BY DEF SlotTaken, Worker
  <1>6. ASSUME NEW s, NEW p
        PROVE  /\ [w EXCEPT !.slots = s, !.grant = "none", !.pc = p].slots = s
               /\ [w EXCEPT !.slots = s, !.grant = "none", !.pc = p].pc = p
    BY DEF Worker
  <1>7. SlotTaken.slots = w.slots + 1 /\ SlotTaken.pc = (IF w.slots + 1 = Limiters THEN "claim" ELSE "take")
    BY <1>6 DEF SlotTaken
  <1> QED BY <1>4, <1>5, <1>7

\* The watch, stopped and armed.
LEMMA WatchTypes ==
    ASSUME wake \in Wakeups
    PROVE  /\ StopHeldWatch \in Wakeups
           /\ \A l \in Seq(Injects) : Watching(l) \in Wakeups /\ EnsureHeldWatch(l) \in Wakeups
  <1>1. ASSUME NEW l \in Seq(Injects) PROVE Watching(l) \in Wakeups
    <2>1. ToSet(l) \subseteq Injects
      BY DEF ToSet
    <2> QED BY <2>1 DEF Watching, Wakeups
  <1>2. StopHeldWatch \in Wakeups
    BY DEF StopHeldWatch, Wakeups
  <1> QED BY <1>1, <1>2 DEF EnsureHeldWatch

\* Head and tail of a queue.
LEMMA HeadTailTypes ==
    ASSUME NEW S, NEW s \in Seq(S), s # <<>>
    PROVE  Head(s) \in S /\ Tail(s) \in Seq(S) /\ Len(Tail(s)) = Len(s) - 1
  BY HeadTailProperties

\* The restart store after a store or a forget.
LEMMA StoreTypes ==
    ASSUME stored \in Seq(Messages)
    PROVE  /\ \A m \in Messages : Store(m) \in Seq(Messages)
           /\ \A S : Forget(S) \in Seq(Messages)
           /\ \A l \in Seq(Messages) : StoreAll(l) \in Seq(Messages)
  <1>1. \A m \in Messages : Store(m) \in Seq(Messages)
    BY DEF Store
  <1>2. \A S : Forget(S) \in Seq(Messages)
    BY KeptSeq DEF Forget
  <1>3. ASSUME NEW l \in Seq(Messages) PROVE StoreAll(l) \in Seq(Messages)
    <2>1. Kept(l, Messages \ ToSet(stored)) \in Seq(Messages)
      BY KeptSeq
    <2> QED BY <2>1 DEF StoreAll
  <1> QED BY <1>1, <1>2, <1>3

\* The usage-held list after a park.
LEMMA ParkTypes ==
    ASSUME usageHeld \in Seq(Messages), fate \in FateType, NEW m \in Messages
    PROVE  ParkUsageHeld(m) \in Seq(Messages) /\ ParkFate(m) \in FateType
  <1>1. ParkUsageHeld(m) \in Seq(Messages)
    BY DEF ParkUsageHeld
  <1>2. "dropped" \in Outcomes
    BY DEF Outcomes
  <1>3. Ended({m}, "dropped") \in FateType
    BY <1>2, EndedType
  <1> QED BY <1>1, <1>3 DEF ParkFate

\* What a drain takes off the deferred list and what it leaves.
LEMMA DeferredTypes ==
    ASSUME deferred \in Seq(Deferral), NEW by
    PROVE  HeldBy(by) \in Seq(Injects) /\ NotHeldBy(by) \in Seq(Deferral)
  <1>1. \A T : Kept(deferred, T) \in Seq(Deferral)
    BY KeptSeq
  <1> QED BY <1>1, MessagesOfSeq DEF HeldBy, NotHeldBy

\* What takeQueuedUsers takes and leaves.
LEMMA QueuedTypes ==
    ASSUME ch \in Seq(Messages), pending \in Seq(Messages)
    PROVE  /\ Queued \in Seq(Messages) /\ QueuedUsers \in Seq(Messages)
           /\ Kept(Queued, Injects) \in Seq(Messages)
  <1>1. Queued \in Seq(Messages)
    BY DEF Queued
  <1> QED BY <1>1, KeptSeq DEF QueuedUsers

\* A step of the worker that changes its own record only.
LEMMA OnlyWorkerType ==
    ASSUME TypeOK, w' \in Worker,
           UNCHANGED <<ch, pending, held, deferred, usageHeld, stored, steer, numbers,
                       wake, env, clock, out, fate>>
    PROVE  TypeOK'
  BY DEF TypeOK

\* The steps that change the worker's record only.
LEMMA StillWorkerTypes ==
    ASSUME TypeOK, Control,
           \/ LoopTop \/ ReleaseHeldKeep \/ ReleaseHeldRun \/ DispatchUserInput \/ DispatchNow
           \/ InjectReturns \/ PassGate \/ AcquireTurnSlots \/ TakeSlot \/ RecheckGates
           \/ TurnReturns \/ BatchReturns \/ PrimaryWritten \/ Grant
    PROVE  TypeOK'
  <1>0. w \in Worker /\ held \in Seq(Injects)
    BY DEF TypeOK
  <1> USE <1>0
  <1>1. CASE LoopTop
    <2>1. w' \in Worker BY <1>1 DEF LoopTop, Worker, PCs
    <2> QED BY <1>1, <2>1, OnlyWorkerType DEF LoopTop
  <1>2. CASE ReleaseHeldKeep
    <2>1. w' \in Worker 
      <3>1. w.walk + 1 \in Nat BY DEF Worker
      <3> QED BY <1>2, <3>1, WorkerSet DEF ReleaseHeldKeep
    <2> QED BY <1>2, <2>1, OnlyWorkerType DEF ReleaseHeldKeep
  <1>3. CASE ReleaseHeldRun
    <2>1. w.walk \in 1..Len(held) /\ w.walk \in Nat
      BY <1>3 DEF ReleaseHeldRun, Worker, Control, WalkPlaced
    <2>2. held[w.walk] \in Messages
      BY <2>1 DEF Messages
    <2>3. w' \in Worker BY <1>3, <2>2 DEF ReleaseHeldRun, Worker, PCs
    <2> QED BY <1>3, <2>3, OnlyWorkerType DEF ReleaseHeldRun
  <1>4. CASE DispatchUserInput
    <2>1. w' \in Worker BY <1>4 DEF DispatchUserInput, Worker, PCs
    <2> QED BY <1>4, <2>1, OnlyWorkerType DEF DispatchUserInput
  <1>5. CASE DispatchNow
    <2>1. w' \in Worker BY <1>5 DEF DispatchNow, Worker, PCs
    <2> QED BY <1>5, <2>1, OnlyWorkerType DEF DispatchNow
  <1>6. CASE InjectReturns
    <2>1. w' \in Worker BY <1>6, DoneIs DEF InjectReturns
    <2> QED BY <1>6, <2>1, OnlyWorkerType DEF InjectReturns
  <1>7. CASE PassGate
    <2>0. PICK g \in 1..4 : w' = [w EXCEPT !.pc = IF g < 4 THEN Gates[g + 1]
                                                   ELSE IF w.cur = Nothing THEN "acquire" ELSE "run"]
      BY <1>7 DEF PassGate
    <2>2. (IF g < 4 THEN Gates[g + 1] ELSE IF w.cur = Nothing THEN "acquire" ELSE "run") \in PCs
      BY DEF Gates, PCs
    <2>1. w' \in Worker BY <2>0, <2>2, WorkerSet
    <2> QED BY <1>7, <2>1, OnlyWorkerType DEF PassGate
  <1>8. CASE AcquireTurnSlots
    <2>1. w' \in Worker BY ZenonT(30), <1>8 DEF AcquireTurnSlots, Worker, PCs
    <2> QED BY <1>8, <2>1, OnlyWorkerType DEF AcquireTurnSlots
  <1>9. CASE TakeSlot
    <2>1. w.slots < Limiters
      BY <1>9 DEF TakeSlot, Control, SlotsPlaced, Waiting
    <2>2. [w EXCEPT !.pc = "slot", !.grant = "asked"] \in Worker
      BY DEF Worker, PCs
    <2>3. w' \in Worker BY <1>9, <2>1, <2>2, SlotTakenIs DEF TakeSlot
    <2> QED BY <1>9, <2>3, OnlyWorkerType DEF TakeSlot
  <1>10. CASE RecheckGates
    <2>1. w' \in Worker 
      <3>1. "gate1" \in PCs /\ "batch" \in PCs BY DEF PCs
      <3> QED BY <1>10, <3>1, WorkerSet, WorkerValues DEF RecheckGates
    <2> QED BY <1>10, <2>1, OnlyWorkerType DEF RecheckGates
  <1>11. CASE TurnReturns
    <2>1. w' \in Worker BY <1>11 DEF TurnReturns, Worker, PCs
    <2> QED BY <1>11, <2>1, OnlyWorkerType DEF TurnReturns
  <1>12. CASE BatchReturns
    <2>1. w' \in Worker 
      <3>1. "settle" \in PCs /\ FALSE \in BOOLEAN BY DEF PCs
      <3> QED BY <1>12, <3>1, WorkerSet, WorkerValues DEF BatchReturns
    <2> QED BY <1>12, <2>1, OnlyWorkerType DEF BatchReturns
  <1>13. CASE PrimaryWritten
    <2>1. w' \in Worker BY <1>13 DEF PrimaryWritten, Worker
    <2> QED BY <1>13, <2>1, OnlyWorkerType DEF PrimaryWritten
  <1>14. CASE Grant
    <2>1. w' \in Worker BY <1>14 DEF Grant, Worker
    <2> QED BY <1>14, <2>1, OnlyWorkerType DEF Grant
  <1> QED BY <1>1, <1>2, <1>3, <1>4, <1>5, <1>6, <1>7, <1>8, <1>9, <1>10, <1>11, <1>12,
             <1>13, <1>14

LEMMA ReleaseHeldDoneType == ASSUME TypeOK, Control, ReleaseHeldDone PROVE TypeOK'
  <1>0. w \in Worker /\ wake \in Wakeups /\ held \in Seq(Injects)
    BY DEF TypeOK
  <1>1. "resume" \in PCs /\ "slot" \in PCs
    BY DEF PCs
  <1>2. w' \in Worker
    BY <1>0, <1>1, WorkerSet, WorkerValues DEF ReleaseHeldDone
  <1>3. wake' \in Wakeups
    BY <1>0, WatchTypes DEF ReleaseHeldDone
  <1> QED BY <1>2, <1>3 DEF ReleaseHeldDone, TypeOK

LEMMA TakeUsageResumeType == ASSUME TypeOK, Control, TakeUsageResume PROVE TypeOK'
  <1>0. /\ w \in Worker /\ wake \in Wakeups /\ out \in Outside /\ stored \in Seq(Messages)
        /\ usageHeld \in Seq(Messages) /\ fate \in FateType /\ out.fresh \subseteq Lines
    BY DEF TypeOK, FateType, Outside
  <1>1. "usage" \in PCs /\ FALSE \in BOOLEAN
    BY DEF PCs
  <1>2. w' \in Worker
    BY <1>0, <1>1, WorkerSet DEF TakeUsageResume
  <1>3. /\ wake' \in Wakeups /\ out' \in Outside /\ stored' \in Seq(Messages)
        /\ usageHeld' \in Seq(Messages) /\ fate' \in FateType
    <2>1. CASE /\ wake.resume
               /\ \E l \in out.fresh :
                     /\ out' = [out EXCEPT !.fresh = @ \ {l}]
                     /\ stored' = Store(l) /\ usageHeld' = ParkUsageHeld(l) /\ fate' = ParkFate(l)
               /\ wake' = [wake EXCEPT !.resume = FALSE]
      <3>1. PICK l \in out.fresh :
                     /\ out' = [out EXCEPT !.fresh = @ \ {l}]
                     /\ stored' = Store(l) /\ usageHeld' = ParkUsageHeld(l) /\ fate' = ParkFate(l)
        BY <2>1
      <3>2. l \in Messages /\ out.fresh \ {l} \in SUBSET Lines
        BY <1>0 DEF Messages
      <3>3. wake' \in Wakeups
        BY <1>0, <1>1, <2>1, WakeSet
      <3>4. out' \in Outside
        BY <1>0, <3>1, <3>2, OutSet
      <3> QED BY <1>0, <3>1, <3>2, <3>3, <3>4, StoreTypes, ParkTypes
    <2>2. CASE UNCHANGED <<out, stored, usageHeld, fate, wake>>
      BY <1>0, <2>2
    <2> QED BY <2>1, <2>2 DEF TakeUsageResume
  <1> QED BY <1>2, <1>3 DEF TakeUsageResume, TypeOK, FateType

\* The worker at the start of runUserBatch.
LEMMA StartBatchIs ==
    ASSUME w \in Worker, env \in Environment, NEW b \in Seq(Messages),
           NEW h \in Users \cup Lines \cup {Nothing}, StartBatch(b, h)
    PROVE  /\ w' \in Worker
           /\ w'.pc = "gate1" /\ w'.cur = Nothing /\ w'.batch = b /\ w'.walk = w.walk
           /\ w'.slots = w.slots /\ w'.grant = w.grant /\ w'.waitCancel = w.waitCancel
  <1>1. "gate1" \in PCs /\ (IF h = Nothing THEN 0 ELSE env.attempt) \in Nat
    BY DEF PCs, Environment
  <1>2. ASSUME NEW a \in Nat
        PROVE  LET x == [w EXCEPT !.pc = "gate1", !.cur = Nothing, !.batch = b, !.head = h,
                                  !.attempt = a]
               IN  /\ x \in Worker
                   /\ x.pc = "gate1" /\ x.cur = Nothing /\ x.batch = b /\ x.walk = w.walk
                   /\ x.slots = w.slots /\ x.grant = w.grant /\ x.waitCancel = w.waitCancel
    <2>1. [w EXCEPT !.pc = "gate1", !.cur = Nothing, !.batch = b] \in Worker
      BY <1>1, WorkerSet, WorkerValues
    <2>2. ASSUME NEW y \in Worker
          PROVE  [y EXCEPT !.head = h, !.attempt = a] \in Worker
      BY WorkerSet
    <2>3. [w EXCEPT !.pc = "gate1", !.cur = Nothing, !.batch = b, !.head = h, !.attempt = a] \in Worker
      BY <2>1, <2>2
    <2> QED BY <2>3 DEF Worker
  <1> QED BY <1>1, <1>2 DEF StartBatch

LEMMA ReleaseUsageHeldType == ASSUME TypeOK, Control, ReleaseUsageHeld PROVE TypeOK'
  <1>0. w \in Worker /\ env \in Environment /\ stored \in Seq(Messages) /\ usageHeld \in Seq(Messages)
    BY DEF TypeOK
  <1>1. "arm" \in PCs
    BY DEF PCs
  <1>2. w' \in Worker /\ stored' \in Seq(Messages) /\ usageHeld' \in Seq(Messages)
    <2>1. CASE usageHeld = <<>> \/ UsageHoldsUser
      BY <1>0, <1>1, <2>1, WorkerSet DEF ReleaseUsageHeld
    <2>2. CASE ~(usageHeld = <<>> \/ UsageHoldsUser)
      <3>1. StartBatch(usageHeld, Nothing) /\ usageHeld' = <<>>
        BY <2>2 DEF ReleaseUsageHeld
      <3>2. stored' \in Seq(Messages)
        BY <1>0, <3>1, StoreTypes DEF StartBatch
      <3> QED BY <1>0, <3>1, <3>2, StartBatchIs, WorkerValues
    <2> QED BY <2>1, <2>2
  <1> QED BY <1>2 DEF ReleaseUsageHeld, TypeOK

LEMMA ArmType == ASSUME TypeOK, Control, Arm PROVE TypeOK'
  <1>0. w \in Worker /\ wake \in Wakeups /\ held \in Seq(Injects) /\ pending \in Seq(Messages)
    BY DEF TypeOK
  <1> DEFINE armed == IF held = <<>> THEN StopHeldWatch ELSE EnsureHeldWatch(held)
  <1>1. "dequeued" \in PCs /\ "select" \in PCs
    BY DEF PCs
  <1>2. armed \in Wakeups
    BY <1>0, WatchTypes
  <1>3. w' \in Worker /\ wake' \in Wakeups /\ pending' \in Seq(Messages)
    <2>1. CASE w' = Leaving /\ wake' = armed /\ UNCHANGED pending
      BY <1>0, <1>2, <2>1, LeavingIs
    <2>2. CASE /\ pending # <<>> /\ w' = [w EXCEPT !.pc = "dequeued", !.cur = Head(pending)]
               /\ pending' = Tail(pending) /\ wake' = armed
      <3>1. Head(pending) \in Messages \cup {Nothing} /\ Tail(pending) \in Seq(Messages)
        BY <1>0, <2>2, HeadTailTypes
      <3> QED BY <1>0, <1>1, <1>2, <2>2, <3>1, WorkerSet
    <2>3. CASE /\ w' = [w EXCEPT !.pc = "select"]
               /\ wake' = [armed EXCEPT !.usage = IF usageHeld = <<>> THEN "off" ELSE "live"]
               /\ UNCHANGED pending
      <3>1. (IF usageHeld = <<>> THEN "off" ELSE "live") \in {"off", "live", "closed"}
        OBVIOUS
      <3> HIDE DEF armed
      <3>2. w' \in Worker
        BY <1>0, <1>1, <2>3, WorkerSet
      <3>3. wake' \in Wakeups
        BY <1>2, <2>3, <3>1, WakeSet
      <3> QED BY <1>0, <2>3, <3>2, <3>3
    <2> QED BY <2>1, <2>2, <2>3 DEF Arm
  <1> QED BY <1>3 DEF Arm, TypeOK

LEMMA SelectType == ASSUME TypeOK, Control, Select PROVE TypeOK'
  <1>0. w \in Worker /\ wake \in Wakeups /\ ch \in Seq(Messages) /\ Len(ch) <= ChanSize
    BY DEF TypeOK
  <1>1. "top" \in PCs /\ "dequeued" \in PCs /\ "off" \in {"off", "live", "closed"} /\ FALSE \in BOOLEAN
    BY DEF PCs
  <1>2. StopHeldWatch \in Wakeups
    BY <1>0, WatchTypes
  <1>3. wake' \in Wakeups
    <2>1. [wake EXCEPT !.usage = "off"] \in Wakeups /\ [StopHeldWatch EXCEPT !.usage = "off"] \in Wakeups
      BY <1>0, <1>1, <1>2, WakeSet
    <2>2. [wake EXCEPT !.usage = "off", !.kick = FALSE] \in Wakeups
      BY <1>1, <2>1, WakeSet
    <2> QED BY <2>1, <2>2 DEF Select
  <1>4. [w EXCEPT !.pc = "top"] \in Worker /\ Leaving \in Worker
    BY <1>0, <1>1, WorkerSet, LeavingIs
  <1>5. ch # <<>> => /\ [w EXCEPT !.pc = "dequeued", !.cur = Head(ch)] \in Worker
                     /\ Tail(ch) \in Seq(Messages) /\ Len(Tail(ch)) = Len(ch) - 1
    <2> SUFFICES ASSUME ch # <<>>
                 PROVE  /\ [w EXCEPT !.pc = "dequeued", !.cur = Head(ch)] \in Worker
                        /\ Tail(ch) \in Seq(Messages) /\ Len(Tail(ch)) = Len(ch) - 1
      OBVIOUS
    <2>1. Head(ch) \in Messages \cup {Nothing} /\ Tail(ch) \in Seq(Messages) /\ Len(Tail(ch)) = Len(ch) - 1
      BY <1>0, HeadTailTypes
    <2> QED BY <1>0, <1>1, <2>1, WorkerSet
  <1>6. w' \in Worker /\ ch' \in Seq(Messages) /\ Len(ch') <= ChanSize
    <2>0. ChanSize \in Nat /\ Len(ch) \in Nat
      BY <1>0, InboxAssumption
    <2>1. CASE ch # <<>> /\ w' = [w EXCEPT !.pc = "dequeued", !.cur = Head(ch)] /\ ch' = Tail(ch)
      BY <1>0, <1>5, <2>0, <2>1
    <2>2. CASE (w' = Leaving \/ w' = [w EXCEPT !.pc = "top"]) /\ UNCHANGED ch
      BY <1>0, <1>4, <2>2
    <2> QED BY <2>1, <2>2 DEF Select
  <1> QED BY <1>3, <1>6 DEF Select, TypeOK

LEMMA DequeuedType == ASSUME TypeOK, Control, Dequeued PROVE TypeOK'
  <1>0. w \in Worker /\ fate \in FateType
    BY DEF TypeOK, FateType
  <1>1. "relogin" \in PCs /\ "stopped" \in Outcomes
    BY DEF PCs, Outcomes
  <1>2. w' \in Worker
    BY <1>0, <1>1, WorkerSet, DoneIs DEF Dequeued
  <1>3. fate' \in FateType
    BY <1>0, <1>1, EndedType DEF Dequeued
  <1> QED BY <1>2, <1>3 DEF Dequeued, TypeOK, FateType

LEMMA HandleDequeuedType == ASSUME TypeOK, Control, HandleDequeued PROVE TypeOK'
  <1>0. /\ w \in Worker /\ env \in Environment /\ stored \in Seq(Messages)
        /\ usageHeld \in Seq(Messages) /\ fate \in FateType /\ w.cur \in Messages
    BY DEF TypeOK, FateType, Control, CurPlaced, HandleDequeued
  <1>1. "dispatch" \in PCs
    BY DEF PCs
  <1>2. /\ w' \in Worker /\ stored' \in Seq(Messages) /\ usageHeld' \in Seq(Messages)
        /\ fate' \in FateType
    <2>1. CASE w' = [w EXCEPT !.pc = "dispatch"] /\ UNCHANGED <<usageHeld, stored, fate>>
      BY <1>0, <1>1, <2>1, WorkerSet
    <2>2. CASE /\ usageHeld' = ParkUsageHeld(w.cur) /\ stored' = Store(w.cur)
               /\ fate' = ParkFate(w.cur) /\ w' = Done
      BY <1>0, <2>2, StoreTypes, ParkTypes, DoneIs
    <2>3. CASE /\ w.cur \notin Injects
               /\ StartBatch(<<w.cur>>, IF Delegated /\ env.login THEN w.cur ELSE Nothing)
               /\ UNCHANGED <<usageHeld, fate>>
      <3>1. <<w.cur>> \in Seq(Messages)
        BY <1>0
      <3>2. (IF Delegated /\ env.login THEN w.cur ELSE Nothing) \in Users \cup Lines \cup {Nothing}
        BY <1>0, <2>3 DEF Messages
      <3>3. w' \in Worker
        BY <1>0, <2>3, <3>1, <3>2, StartBatchIs
      <3>4. stored' \in Seq(Messages)
        BY <1>0, <2>3, StoreTypes DEF StartBatch
      <3> QED BY <1>0, <2>3, <3>3, <3>4
    <2> QED BY <2>1, <2>2, <2>3 DEF HandleDequeued
  <1> QED BY <1>2 DEF HandleDequeued, TypeOK, FateType

LEMMA GateEndedType == ASSUME TypeOK, Control, GateEnded PROVE TypeOK'
  <1>0. w \in Worker /\ fate \in FateType
    BY DEF TypeOK, FateType
  <1>1. "refused" \in Outcomes /\ "dropped" \in Outcomes
    BY DEF Outcomes
  <1>2. fate' \in FateType
    BY <1>0, <1>1, EndedType DEF GateEnded, RefuseCur
  <1>3. w' \in Worker
    BY <1>0, LeavingIs DEF GateEnded
  <1> QED BY <1>2, <1>3 DEF GateEnded, TypeOK, FateType

LEMMA DispatchParkType == ASSUME TypeOK, Control, DispatchPark PROVE TypeOK'
  <1>0. /\ w \in Worker /\ wake \in Wakeups /\ clock \in Clock /\ stored \in Seq(Messages)
        /\ held \in Seq(Injects) /\ w.cur \in Injects /\ w.cur \in Messages
        /\ clock.parked \subseteq Injects
    BY DEF TypeOK, Control, CurPlaced, DispatchPark, Messages, Clock
  <1>1. held' \in Seq(Injects)
    BY <1>0 DEF DispatchPark
  <1>2. stored' \in Seq(Messages)
    BY <1>0, StoreTypes DEF DispatchPark
  <1>3. clock' \in Clock
    BY <1>0, ClockSet DEF DispatchPark
  <1>4. wake' \in Wakeups
    BY <1>0, <1>1, WatchTypes DEF DispatchPark
  <1>5. w' \in Worker
    BY <1>0, DoneIs DEF DispatchPark
  <1> QED BY <1>1, <1>2, <1>3, <1>4, <1>5 DEF DispatchPark, TypeOK

LEMMA ReadyType == ASSUME TypeOK, Control, Ready PROVE TypeOK'
  <1>0. w \in Worker /\ held \in Seq(Injects) /\ w.walk \in Nat
    BY DEF TypeOK, Worker
  <1>1. "run" \in PCs
    BY DEF PCs
  <1>2. w' \in Worker
    BY <1>0, <1>1, WorkerSet DEF Ready
  <1>3. held' \in Seq(Injects)
    <2>1. CASE w.walk > 0
      <3>1. w.walk \in 1..Len(held)
        BY <1>0, <2>1 DEF Control, WalkPlaced, Ready
      <3> QED BY <1>0, <2>1, <3>1, OccursRemoveAt DEF Ready
    <2>2. CASE ~(w.walk > 0)
      BY <1>0, <2>2 DEF Ready
    <2> QED BY <2>1, <2>2
  <1> QED BY <1>2, <1>3 DEF Ready, TypeOK

LEMMA RunInjectType == ASSUME TypeOK, Control, RunInject PROVE TypeOK'
  <1>0. /\ w \in Worker /\ fate \in FateType /\ stored \in Seq(Messages)
        /\ env.ask \in Asks \cup {Nothing}
    BY DEF TypeOK, FateType, Environment
  <1>1. /\ "pausing" \in PCs /\ "deferring" \in PCs /\ "inject" \in PCs
        /\ "refused" \in Outcomes /\ "ran" \in Outcomes
    BY DEF PCs, Outcomes
  <1>2. /\ [w EXCEPT !.pc = "pausing"] \in Worker
        /\ [w EXCEPT !.pc = "deferring", !.ask = env.ask] \in Worker
        /\ [w EXCEPT !.pc = "inject", !.cur = Nothing] \in Worker
    BY <1>0, <1>1, WorkerSet, WorkerValues
  <1>3. w' \in Worker
    BY <1>0, <1>2, DoneIs DEF RunInject
  <1>4. fate' \in FateType
    BY <1>0, <1>1, EndedType DEF RunInject
  <1>5. stored' \in Seq(Messages)
    BY <1>0, StoreTypes DEF RunInject
  <1> QED BY <1>3, <1>4, <1>5 DEF RunInject, TypeOK, FateType

LEMMA RunPauseType == ASSUME TypeOK, Control, RunPause PROVE TypeOK'
  <1>0. w \in Worker /\ deferred \in Seq(Deferral) /\ w.cur \in Injects
    BY DEF TypeOK, Deferral, Control, CurPlaced, RunPause
  <1>1. "paused" \in PCs
    BY DEF PCs
  <1>2. w' \in Worker
    BY <1>0, <1>1, WorkerSet, WorkerValues DEF RunPause
  <1>3. [msg |-> w.cur, by |-> Login] \in Deferral
    BY <1>0 DEF Deferral
  <1>4. deferred' \in Seq(Deferral)
    BY <1>0, <1>3 DEF RunPause
  <1> QED BY <1>2, <1>4 DEF RunPause, TypeOK, Deferral

LEMMA RunPausedType == ASSUME TypeOK, Control, RunPaused PROVE TypeOK'
  <1>0. w \in Worker /\ deferred \in Seq(Deferral) /\ out \in Outside /\ out.requeue \in Seq(Injects)
    BY DEF TypeOK, Deferral, Outside
  <1>1. w' \in Worker
    BY <1>0, DoneIs DEF RunPaused
  <1>2. HeldBy(Login) \in Seq(Injects) /\ NotHeldBy(Login) \in Seq(Deferral)
    BY <1>0, DeferredTypes
  <1>3. out.requeue \o HeldBy(Login) \in Seq(Injects)
    BY <1>0, <1>2
  <1>4. [out EXCEPT !.requeue = @ \o HeldBy(Login)] \in Outside
    BY <1>0, <1>3, OutSet
  <1>5. deferred' \in Seq(Deferral) /\ out' \in Outside
    BY <1>0, <1>2, <1>4 DEF RunPaused
  <1> QED BY <1>1, <1>5 DEF RunPaused, TypeOK, Deferral

LEMMA RunDeferType == ASSUME TypeOK, Control, RunDefer PROVE TypeOK'
  <1>0. /\ w \in Worker /\ deferred \in Seq(Deferral) /\ w.cur \in Injects /\ w.ask \in Asks
        /\ clock \in Clock /\ clock.asked \subseteq Injects /\ clock.timers \subseteq Injects
    BY DEF TypeOK, Deferral, Control, CurPlaced, RunDefer, Clock
  <1>1. w' \in Worker
    BY <1>0, DoneIs DEF RunDefer
  <1>2. [msg |-> w.cur, by |-> w.ask] \in Deferral
    BY <1>0 DEF Deferral
  <1>3. deferred' \in Seq(Deferral)
    BY <1>0, <1>2 DEF RunDefer
  <1>4. [clock EXCEPT !.asked = @ \cup {w.cur}, !.timers = @ \cup {w.cur}] \in Clock
    BY <1>0 DEF Clock
  <1>5. clock' \in Clock
    BY <1>0, <1>4 DEF RunDefer
  <1> QED BY <1>1, <1>3, <1>5 DEF RunDefer, TypeOK, Deferral

\* A slot wait that gives up.
LEMMA AbortIs ==
    ASSUME w \in Worker, fate \in FateType, Abort
    PROVE  /\ w' \in Worker /\ fate' \in FateType
           /\ w'.cur = (IF env.done THEN Nothing ELSE w.cur)
           /\ w'.walk = (IF env.done THEN 0 ELSE w.walk)
           /\ w'.pc = (IF env.done THEN "exit" ELSE "settle")
           /\ w'.batch = (IF env.done THEN w.batch ELSE <<>>)
           /\ w'.slots = 0 /\ w'.grant = "none" /\ w'.waitCancel = "none"
           /\ fate' = (IF env.done THEN fate ELSE Ended(ToSet(w.batch), "stopped"))
  <1> DEFINE x == [w EXCEPT !.pc = "settle", !.batch = <<>>, !.slots = 0,
                            !.grant = "none", !.waitCancel = "none"]
  <1>1. "settle" \in PCs /\ "stopped" \in Outcomes
    BY DEF PCs, Outcomes
  <1>2. [w EXCEPT !.pc = "settle", !.batch = <<>>, !.slots = 0] \in Worker
    BY <1>1, WorkerSet, WorkerValues
  <1>3. ASSUME NEW y \in Worker
        PROVE  [y EXCEPT !.grant = "none", !.waitCancel = "none"] \in Worker
    BY WorkerSet
  <1>4. x \in Worker
    BY <1>2, <1>3
  <1>5. /\ x.cur = w.cur /\ x.walk = w.walk /\ x.pc = "settle" /\ x.batch = <<>>
        /\ x.slots = 0 /\ x.grant = "none" /\ x.waitCancel = "none"
    BY DEF Worker
  <1> HIDE DEF x
  <1>6. CASE env.done
    <2>1. w' = Leaving /\ fate' = fate
      BY <1>6 DEF Abort
    <2> QED BY <1>6, <2>1, LeavingIs
  <1>7. CASE ~env.done
    <2>1. w' = x /\ fate' = Ended(ToSet(w.batch), "stopped")
      BY <1>7 DEF Abort, x
    <2>2. fate' \in FateType
      BY <1>1, <2>1, EndedType
    <2> QED BY <1>4, <1>5, <1>7, <2>1, <2>2
  <1> QED BY <1>6, <1>7

LEMMA WaitTurnSlotType == ASSUME TypeOK, Control, WaitTurnSlot PROVE TypeOK'
  <1>0. /\ w \in Worker /\ wake \in Wakeups /\ ch \in Seq(Messages) /\ Len(ch) <= ChanSize
        /\ fate \in FateType /\ w.batch \in Seq(Messages)
    BY DEF TypeOK, FateType, Worker
  <1>1. "dispatch" \in PCs /\ "walk" \in PCs
    BY DEF PCs
  <1>2. w.slots < Limiters
    BY DEF WaitTurnSlot, Control, SlotsPlaced, Waiting
  <1>3. ch # <<>> => Head(ch) \in Messages /\ Tail(ch) \in Seq(Messages) /\ Len(Tail(ch)) <= ChanSize
    <2> SUFFICES ASSUME ch # <<>>
                 PROVE  Head(ch) \in Messages /\ Tail(ch) \in Seq(Messages) /\ Len(Tail(ch)) <= ChanSize
      OBVIOUS
    <2>1. Head(ch) \in Messages /\ Tail(ch) \in Seq(Messages) /\ Len(Tail(ch)) = Len(ch) - 1
      BY <1>0, HeadTailTypes
    <2>2. ChanSize \in Nat /\ Len(ch) \in Nat
      BY <1>0, InboxAssumption
    <2> QED BY <1>0, <2>1, <2>2
  <1>4. w' \in Worker /\ fate' \in FateType
    <2>1. CASE w' = SlotTaken /\ UNCHANGED fate
      BY <1>0, <1>2, <2>1, SlotTakenIs
    <2>2. CASE Abort
      BY <1>0, <2>2, AbortIs
    <2>3. CASE ch # <<>> /\ w' = [w EXCEPT !.batch = Append(@, Head(ch))] /\ UNCHANGED fate
      <3>1. Append(w.batch, Head(ch)) \in Seq(Messages)
        BY <1>0, <1>3, <2>3
      <3> QED BY <1>0, <2>3, <3>1, WorkerSet
    <2>4. CASE ch # <<>> /\ w' = [w EXCEPT !.pc = "dispatch", !.cur = Head(ch)] /\ UNCHANGED fate
      <3>1. Head(ch) \in Messages \cup {Nothing}
        BY <1>3, <2>4
      <3> QED BY <1>0, <1>1, <2>4, <3>1, WorkerSet
    <2>5. CASE w' = [w EXCEPT !.pc = "walk", !.walk = 1] /\ UNCHANGED fate
      BY <1>0, <1>1, <2>5, WorkerSet, WorkerValues
    <2> QED BY <2>1, <2>2, <2>3, <2>4, <2>5 DEF WaitTurnSlot
  <1>5. wake' \in Wakeups /\ ch' \in Seq(Messages) /\ Len(ch') <= ChanSize
    BY <1>0, <1>3, WatchTypes DEF WaitTurnSlot
  <1> QED BY <1>4, <1>5 DEF WaitTurnSlot, TypeOK, FateType

LEMMA ClaimWaitCancelType == ASSUME TypeOK, Control, ClaimWaitCancel PROVE TypeOK'
  <1>0. w \in Worker /\ fate \in FateType
    BY DEF TypeOK, FateType
  <1>1. "recheck" \in PCs /\ "none" \in {"none", "set", "fired"}
    BY DEF PCs
  <1>2. [w EXCEPT !.pc = "recheck", !.waitCancel = "none"] \in Worker
    BY <1>0, <1>1, WorkerSet
  <1>3. w' \in Worker /\ fate' \in FateType
    BY <1>0, <1>2, AbortIs DEF ClaimWaitCancel
  <1> QED BY <1>3 DEF ClaimWaitCancel, TypeOK, FateType

LEMMA DriveBatchType == ASSUME TypeOK, Control, DriveBatch PROVE TypeOK'
  <1>0. /\ w \in Worker /\ ch \in Seq(Messages) /\ pending \in Seq(Messages)
        /\ stored \in Seq(Messages) /\ fate \in FateType
    BY DEF TypeOK, FateType
  <1>1. "drive" \in PCs /\ "ran" \in Outcomes /\ "stopped" \in Outcomes
    BY DEF PCs, Outcomes
  <1>2. w' \in Worker
    BY <1>0, <1>1, WorkerSet, WorkerValues DEF DriveBatch
  <1>3. pending' \in Seq(Messages)
    BY <1>0, QueuedTypes DEF DriveBatch
  <1>4. stored' \in Seq(Messages)
    BY <1>0, StoreTypes DEF DriveBatch
  <1>5. fate' \in FateType
    BY <1>0, <1>1 DEF DriveBatch, FateType
  <1>6. ch' \in Seq(Messages) /\ Len(ch') <= ChanSize
    BY InboxAssumption DEF DriveBatch
  <1> QED BY <1>2, <1>3, <1>4, <1>5, <1>6 DEF DriveBatch, TypeOK, FateType

LEMMA DrainSteerTextsType == ASSUME TypeOK, Control, DrainSteerTexts PROVE TypeOK'
  <1>0. fate \in FateType /\ "ran" \in Outcomes
    BY DEF TypeOK, FateType, Outcomes
  <1>1. fate' \in FateType
    BY <1>0, EndedType DEF DrainSteerTexts
  <1>2. steer' \in Seq(Users \cup Injects)
    BY DEF DrainSteerTexts
  <1> QED BY <1>1, <1>2 DEF DrainSteerTexts, TypeOK, FateType

LEMMA FollowUpType == ASSUME TypeOK, Control, FollowUp PROVE TypeOK'
  <1>0. /\ w \in Worker /\ ch \in Seq(Messages) /\ pending \in Seq(Messages)
        /\ stored \in Seq(Messages) /\ fate \in FateType /\ usageHeld \in Seq(Messages)
        /\ steer \in Seq(Messages) /\ Len(ch) <= ChanSize
    BY DEF TypeOK, FateType, Messages
  <1>1. /\ "drive" \in PCs /\ "inactive" \in PCs /\ "ran" \in Outcomes /\ "stopped" \in Outcomes
        /\ <<>> \in Seq(Messages) /\ Len(<<>>) <= ChanSize
    BY InboxAssumption DEF PCs, Outcomes
  <1>2. w' \in Worker
    BY ZenonT(30), <1>0, <1>1, WorkerSet DEF FollowUp
  <1>3. pending' \in Seq(Messages) /\ ch' \in Seq(Messages) /\ Len(ch') <= ChanSize
    BY <1>0, <1>1, QueuedTypes DEF FollowUp
  <1>4. stored' \in Seq(Messages)
    BY <1>0, StoreTypes DEF FollowUp
  <1>5. fate' \in FateType
    <2>1. CASE UNCHANGED fate
      BY <1>0, <2>1
    <2>2. ASSUME NEW A, NEW B
          PROVE  [m \in Messages |-> IF m \in A THEN Append(fate[m], "ran")
                                     ELSE IF m \in B THEN Append(fate[m], "stopped") ELSE fate[m]]
                 \in FateType
      BY <1>0, <1>1 DEF FateType
    <2>3. CASE ~UNCHANGED fate
      <3> DEFINE extras == IF PendingHeadIsInject THEN <<>> ELSE QueuedUsers
                 B == {m \in Messages : ~PendingHeadIsInject /\ m \in QueuedStopped}
      <3>1. fate' = [m \in Messages |-> IF m \in ToSet(steer \o extras) THEN Append(fate[m], "ran")
                       ELSE IF m \in B THEN Append(fate[m], "stopped") ELSE fate[m]]
        BY <2>3 DEF FollowUp
      <3> HIDE DEF extras, B
      <3> QED BY <3>1, <2>2
    <2> QED BY <2>1, <2>3
  <1>6. usageHeld' \in Seq(Messages)
    <2>1. usageHeld \o steer \in Seq(Messages)
      BY <1>0
    <2> QED BY <1>0, <2>1 DEF FollowUp
  <1>7. steer' \in Seq(Users \cup Injects)
    BY DEF FollowUp
  <1> QED BY <1>2, <1>3, <1>4, <1>5, <1>6, <1>7 DEF FollowUp, TypeOK, FateType

LEMMA SettleType == ASSUME TypeOK, Control, Settle PROVE TypeOK'
  <1>0. /\ w \in Worker /\ env \in Environment /\ out \in Outside
        /\ out.due \cup {Login} \in SUBSET (Asks \cup {Login})
    BY DEF TypeOK, Outside
  <1>1. "top" \in PCs /\ FALSE \in BOOLEAN
    BY DEF PCs
  <1>2. w' \in Worker
    BY <1>0, <1>1, WorkerSet, WorkerValues DEF Settle
  <1>3. [env EXCEPT !.login = FALSE] \in Environment
    BY <1>0, <1>1, EnvSet
  <1>4. [out EXCEPT !.due = @ \cup {Login}] \in Outside
    BY <1>0, OutSet
  <1>5. env' \in Environment /\ out' \in Outside
    BY <1>0, <1>3, <1>4 DEF Settle
  <1> QED BY <1>2, <1>5 DEF Settle, TypeOK

LEMMA ExitType == ASSUME TypeOK, Control, Exit PROVE TypeOK'
  <1>0. w \in Worker /\ wake \in Wakeups /\ fate \in FateType
    BY DEF TypeOK, FateType
  <1>1. "exited" \in PCs /\ "refused" \in Outcomes /\ "dropped" \in Outcomes
    BY DEF PCs, Outcomes
  <1>2. w' \in Worker
    BY <1>0, <1>1, WorkerSet, WorkerValues DEF Exit
  <1>3. wake' \in Wakeups
    BY <1>0, WatchTypes DEF Exit
  <1>4. fate' \in FateType
    BY <1>0, <1>1 DEF Exit, FateType
  <1>5. held' \in Seq(Injects) /\ pending' \in Seq(Messages)
    BY DEF Exit
  <1> QED BY <1>2, <1>3, <1>4, <1>5 DEF Exit, TypeOK, FateType

\* Every step of the worker keeps the types.
LEMMA WorkerStepType ==
    ASSUME TypeOK, Control, WorkerStep \/ PrimaryWritten \/ DrainSteerTexts \/ Grant
    PROVE  TypeOK'
  <1>1. CASE \/ LoopTop \/ ReleaseHeldKeep \/ ReleaseHeldRun \/ DispatchUserInput \/ DispatchNow
             \/ InjectReturns \/ PassGate \/ AcquireTurnSlots \/ TakeSlot \/ RecheckGates
             \/ TurnReturns \/ BatchReturns \/ PrimaryWritten \/ Grant
    BY <1>1, StillWorkerTypes
  <1>2. CASE ReleaseHeldDone \/ TakeUsageResume \/ ReleaseUsageHeld \/ Arm \/ Select \/ Dequeued
    BY <1>2, ReleaseHeldDoneType, TakeUsageResumeType, ReleaseUsageHeldType, ArmType, SelectType,
       DequeuedType
  <1>3. CASE HandleDequeued \/ GateEnded \/ DispatchPark \/ Ready \/ RunInject \/ RunPause
    BY <1>3, HandleDequeuedType, GateEndedType, DispatchParkType, ReadyType, RunInjectType,
       RunPauseType
  <1>4. CASE RunPaused \/ RunDefer \/ WaitTurnSlot \/ ClaimWaitCancel \/ DriveBatch
    BY <1>4, RunPausedType, RunDeferType, WaitTurnSlotType, ClaimWaitCancelType, DriveBatchType
  <1>5. CASE DrainSteerTexts \/ FollowUp \/ Settle \/ Exit
    BY <1>5, DrainSteerTextsType, FollowUpType, SettleType, ExitType
  <1> QED BY <1>1, <1>2, <1>3, <1>4, <1>5 DEF WorkerStep

-----------------------------------------------------------------------------

\* Push, SteerOrPush and EnqueueInjection keep the types of what they change.
LEMMA PushType ==
    ASSUME TypeOK, NEW m \in Messages, NEW o \in Outcomes, Push(m, o)
    PROVE  /\ ch' \in Seq(Messages) /\ Len(ch') <= ChanSize /\ fate' \in FateType
           /\ numbers' \in [of : [Messages -> Nat], last : Nat, stop : Nat]
  <1>0. /\ ch \in Seq(Messages) /\ Len(ch) <= ChanSize /\ fate \in FateType
        /\ numbers \in [of : [Messages -> Nat], last : Nat, stop : Nat] /\ ChanSize \in Nat
    BY InboxAssumption DEF TypeOK, FateType
  <1>1. Append(ch, m) \in Seq(Messages) /\ Len(Append(ch, m)) = Len(ch) + 1 /\ Len(ch) \in Nat
    BY <1>0
  <1>2. Ended({m}, o) \in FateType
    BY <1>0, EndedType
  <1>3. ch' \in Seq(Messages) /\ Len(ch') <= ChanSize /\ fate' \in FateType
    <2>1. CASE Len(ch) < ChanSize
      <3>1. ch' = Append(ch, m) /\ fate' = fate
        BY <2>1 DEF Push
      <3> QED BY <1>0, <1>1, <2>1, <3>1
    <2>2. CASE ~(Len(ch) < ChanSize)
      <3>1. ch' = ch /\ fate' = Ended({m}, o)
        BY <2>2 DEF Push
      <3> QED BY <1>0, <1>2, <3>1
    <2> QED BY <2>1, <2>2
  <1>4. numbers' \in [of : [Messages -> Nat], last : Nat, stop : Nat]
    <2>1. numbers.of \in [Messages -> Nat] /\ numbers.last + 1 \in Nat
      BY <1>0
    <2>2. [numbers.of EXCEPT ![m] = numbers.last + 1] \in [Messages -> Nat]
      BY <2>1
    <2>3. numbers' = [numbers EXCEPT !.of = [numbers.of EXCEPT ![m] = numbers.last + 1],
                                     !.last = numbers.last + 1]
      BY <1>0 DEF Push
    <2> QED BY <1>0, <2>1, <2>2, <2>3
  <1> QED BY <1>3, <1>4

LEMMA SteerOrPushType ==
    ASSUME TypeOK, NEW m \in Users \cup Injects, NEW o \in Outcomes, NEW rest \in Outside,
           SteerOrPush(m, o, rest)
    PROVE  /\ ch' \in Seq(Messages) /\ Len(ch') <= ChanSize /\ fate' \in FateType
           /\ numbers' \in [of : [Messages -> Nat], last : Nat, stop : Nat] /\ out' \in Outside
  <1>0. /\ ch \in Seq(Messages) /\ Len(ch) <= ChanSize /\ fate \in FateType
        /\ numbers \in [of : [Messages -> Nat], last : Nat, stop : Nat]
        /\ m \in Messages /\ "consumed" \in Outcomes
    BY DEF TypeOK, FateType, Messages, Outcomes
  <1>1. CASE out' = [rest EXCEPT !.steering = @ \cup {m}] /\ UNCHANGED <<ch, numbers, fate>>
    <2>1. rest.steering \cup {m} \in SUBSET (Users \cup Injects)
      BY DEF Outside
    <2>2. out' \in Outside
      BY <1>1, <2>1, OutSet
    <2> QED BY <1>0, <1>1, <2>2
  <1>2. CASE fate' = Ended({m}, "consumed") /\ out' = rest /\ UNCHANGED <<ch, numbers>>
    BY <1>0, <1>2, EndedType
  <1>3. CASE Push(m, o) /\ out' = rest
    BY <1>0, <1>3, PushType
  <1> QED BY <1>1, <1>2, <1>3 DEF SteerOrPush

LEMMA EnqueueUserType == ASSUME TypeOK, NEW m \in Users, EnqueueUser(m) PROVE TypeOK'
  <1> DEFINE rest == [out EXCEPT !.unsent = @ \ {m}]
  <1>0. /\ ch \in Seq(Messages) /\ Len(ch) <= ChanSize /\ fate \in FateType /\ out \in Outside
        /\ numbers \in [of : [Messages -> Nat], last : Nat, stop : Nat]
        /\ m \in Messages /\ "consumed" \in Outcomes /\ "rejected" \in Outcomes
    BY DEF TypeOK, FateType, Messages, Outcomes
  <1>1. out.unsent \ {m} \in SUBSET (Users \cup Injects)
    BY <1>0 DEF Outside
  <1>2. rest \in Outside
    BY <1>0, <1>1, OutSet
  <1>3. /\ ch' \in Seq(Messages) /\ Len(ch') <= ChanSize /\ fate' \in FateType
        /\ numbers' \in [of : [Messages -> Nat], last : Nat, stop : Nat] /\ out' \in Outside
    <2> HIDE DEF rest
    <2>1. CASE fate' = Ended({m}, "consumed") /\ out' = rest /\ UNCHANGED <<ch, numbers>>
      BY <1>0, <1>2, <2>1, EndedType
    <2>2. CASE Push(m, "rejected") /\ out' = rest
      BY <1>0, <1>2, <2>2, PushType
    <2>3. CASE SteerOrPush(m, "rejected", rest)
      BY <1>0, <1>2, <2>3, SteerOrPushType
    <2> QED BY <2>1, <2>2, <2>3 DEF EnqueueUser, rest
  <1> QED BY <1>3 DEF EnqueueUser, TypeOK, FateType

LEMMA EnqueueInjectionType ==
    ASSUME TypeOK, NEW i \in Injects, NEW o \in Outcomes, NEW rest \in Outside,
           EnqueueInjection(i, o, rest)
    PROVE  /\ ch' \in Seq(Messages) /\ Len(ch') <= ChanSize /\ fate' \in FateType
           /\ numbers' \in [of : [Messages -> Nat], last : Nat, stop : Nat] /\ out' \in Outside
  <1>0. i \in Messages /\ i \in Users \cup Injects
    BY DEF Messages
  <1>1. CASE SteerOrPush(i, o, rest)
    BY <1>0, <1>1, SteerOrPushType
  <1>2. CASE Push(i, o) /\ out' = rest
    BY <1>0, <1>2, PushType
  <1> QED BY <1>1, <1>2 DEF EnqueueInjection

LEMMA EnqueueInjectType == ASSUME TypeOK, NEW i \in Injects, EnqueueInject(i) PROVE TypeOK'
  <1> DEFINE rest == [out EXCEPT !.unsent = @ \ {i}]
  <1>0. out \in Outside /\ "rejected" \in Outcomes
    BY DEF TypeOK, Outcomes
  <1>1. out.unsent \ {i} \in SUBSET (Users \cup Injects)
    BY <1>0 DEF Outside
  <1>2. rest \in Outside
    BY <1>0, <1>1, OutSet
  <1>3. EnqueueInjection(i, "rejected", rest)
    BY DEF EnqueueInject
  <1> HIDE DEF rest
  <1>4. /\ ch' \in Seq(Messages) /\ Len(ch') <= ChanSize /\ fate' \in FateType
        /\ numbers' \in [of : [Messages -> Nat], last : Nat, stop : Nat] /\ out' \in Outside
    BY <1>0, <1>2, <1>3, EnqueueInjectionType
  <1> QED BY <1>4 DEF EnqueueInject, TypeOK, FateType

LEMMA RequeueType == ASSUME TypeOK, Requeue PROVE TypeOK'
  <1> DEFINE rest == [out EXCEPT !.requeue = Tail(@)]
             i == Head(out.requeue)
  <1>0. out \in Outside /\ out.requeue \in Seq(Injects) /\ out.requeue # <<>> /\ "refused" \in Outcomes
    BY DEF TypeOK, Outcomes, Requeue, Outside
  <1>1. i \in Injects /\ Tail(out.requeue) \in Seq(Injects)
    BY <1>0, HeadTailTypes
  <1>2. rest \in Outside
    BY <1>0, <1>1, OutSet
  <1>3. EnqueueInjection(i, "refused", rest)
    BY DEF Requeue
  <1> HIDE DEF rest, i
  <1>4. /\ ch' \in Seq(Messages) /\ Len(ch') <= ChanSize /\ fate' \in FateType
        /\ numbers' \in [of : [Messages -> Nat], last : Nat, stop : Nat] /\ out' \in Outside
    BY <1>0, <1>1, <1>2, <1>3, EnqueueInjectionType
  <1> QED BY <1>4 DEF Requeue, TypeOK, FateType

LEMMA RestoreType == ASSUME TypeOK, Restore PROVE TypeOK'
  <1> DEFINE m == Head(out.restore)
  <1>0. out \in Outside /\ out.restore \in Seq(Messages) /\ out.restore # <<>> /\ "rejected" \in Outcomes
    BY DEF TypeOK, Outcomes, Restore, Outside
  <1>1. m \in Messages /\ Tail(out.restore) \in Seq(Messages)
    BY <1>0, HeadTailTypes
  <1>2. out' \in Outside
    BY <1>0, <1>1, OutSet DEF Restore
  <1>3. Push(m, "rejected")
    BY DEF Restore
  <1> HIDE DEF m
  <1>4. /\ ch' \in Seq(Messages) /\ Len(ch') <= ChanSize /\ fate' \in FateType
        /\ numbers' \in [of : [Messages -> Nat], last : Nat, stop : Nat]
    BY <1>0, <1>1, <1>3, PushType
  <1> QED BY <1>2, <1>4 DEF Restore, TypeOK, FateType

LEMMA AppendSteerType == ASSUME TypeOK, NEW m, AppendSteer(m) PROVE TypeOK'
  <1>0. out \in Outside /\ steer \in Seq(Users \cup Injects) /\ m \in Users \cup Injects
        /\ out.steering \ {m} \in SUBSET (Users \cup Injects)
    BY DEF TypeOK, Outside, AppendSteer
  <1>1. out' \in Outside
    BY <1>0, OutSet DEF AppendSteer
  <1>2. steer' \in Seq(Users \cup Injects)
    BY <1>0 DEF AppendSteer
  <1> QED BY <1>1, <1>2 DEF AppendSteer, TypeOK

LEMMA CancelSessionType == ASSUME TypeOK, CancelSession PROVE TypeOK'
  <1>1. w' \in Worker
    BY DEF CancelSession, TypeOK, Worker
  <1>2. numbers' \in [of : [Messages -> Nat], last : Nat, stop : Nat]
    BY DEF CancelSession, TypeOK
  <1> QED BY <1>1, <1>2 DEF CancelSession, TypeOK

LEMMA WatchInjectGateType == ASSUME TypeOK, WatchInjectGate PROVE TypeOK'
  <1>1. wake' \in Wakeups
    BY DEF WatchInjectGate, TypeOK, Wakeups
  <1> QED BY <1>1 DEF WatchInjectGate, TypeOK

LEMMA DrainDeferredInjectsType == ASSUME TypeOK, NEW by, DrainDeferredInjects(by) PROVE TypeOK'
  <1>0. /\ out \in Outside /\ out.requeue \in Seq(Injects) /\ deferred \in Seq(Deferral)
        /\ out.due \ {by} \in SUBSET (Asks \cup {Login})
    BY DEF TypeOK, Outside, Deferral
  <1>1. HeldBy(by) \in Seq(Injects) /\ NotHeldBy(by) \in Seq(Deferral)
    BY <1>0, DeferredTypes
  <1>2. out.requeue \o HeldBy(by) \in Seq(Injects)
    BY <1>0, <1>1
  <1>3. ASSUME NEW d \in SUBSET (Asks \cup {Login}), NEW q \in Seq(Injects)
        PROVE  [out EXCEPT !.due = d, !.requeue = q] \in Outside
    BY <1>0, OutSet
  <1>4. out' = [out EXCEPT !.due = out.due \ {by}, !.requeue = out.requeue \o HeldBy(by)]
    BY DEF DrainDeferredInjects
  <1>5. out' \in Outside
    BY <1>0, <1>2, <1>3, <1>4
  <1>6. deferred' \in Seq(Deferral)
    BY <1>1 DEF DrainDeferredInjects
  <1> QED BY <1>5, <1>6 DEF DrainDeferredInjects, TypeOK, Deferral

LEMMA HoldAgesType == ASSUME TypeOK, NEW i \in Injects, HoldAges(i) PROVE TypeOK'
  <1>0. clock \in Clock /\ clock.aged \cup {i} \in SUBSET Injects /\ clock.askAged \cup {i} \in SUBSET Injects
    BY DEF TypeOK, Clock
  <1>1. clock' \in Clock
    BY <1>0, ClockSet DEF HoldAges
  <1> QED BY <1>1 DEF HoldAges, TypeOK

LEMMA ReleaseExpiredAskHoldsType ==
    ASSUME TypeOK, NEW i \in Injects, ReleaseExpiredAskHolds(i)
    PROVE  TypeOK'
  <1> DEFINE expired == {d \in ToSet(deferred) : d.by # Login /\ d.msg \in clock.askAged}
  <1>0. /\ out \in Outside /\ out.requeue \in Seq(Injects) /\ deferred \in Seq(Deferral)
        /\ clock \in Clock /\ clock.timers \ {i} \in SUBSET Injects
    BY DEF TypeOK, Outside, Deferral, Clock
  <1>1. /\ deferred' = Kept(deferred, ToSet(deferred) \ expired)
        /\ out' = [out EXCEPT !.requeue = @ \o MessagesOf(Kept(deferred, expired))]
    BY DEF ReleaseExpiredAskHolds
  <1> HIDE DEF expired
  <1>2. deferred' \in Seq(Deferral)
    BY <1>0, <1>1, KeptSeq
  <1>3. Kept(deferred, expired) \in Seq(Deferral)
    BY <1>0, KeptSeq
  <1>4. MessagesOf(Kept(deferred, expired)) \in Seq(Injects)
    BY <1>3, MessagesOfSeq
  <1>5. out.requeue \o MessagesOf(Kept(deferred, expired)) \in Seq(Injects)
    BY <1>0, <1>4
  <1>6. out' \in Outside
    BY <1>0, <1>1, <1>5, OutSet
  <1>7. clock' \in Clock
    BY <1>0, ClockSet DEF ReleaseExpiredAskHolds
  <1> QED BY <1>2, <1>6, <1>7 DEF ReleaseExpiredAskHolds, TypeOK, Deferral

LEMMA SpentType == ASSUME out \in Outside, Spend PROVE Spent \in Outside
  <1>1. out.events - 1 \in 0..MaxEvents
    BY InboxAssumption DEF Spend, Outside
  <1> QED BY <1>1, OutSet DEF Spent

LEMMA CloseOpenType ==
    ASSUME TypeOK, NEW f \in {"silent", "compacting", "work", "adopted"}, Close(f) \/ Open(f)
    PROVE  TypeOK'
  <1>0. env \in Environment /\ out \in Outside /\ TRUE \in BOOLEAN /\ FALSE \in BOOLEAN
    BY DEF TypeOK
  <1>1. ASSUME NEW b \in BOOLEAN PROVE [env EXCEPT ![f] = b] \in Environment
    BY <1>0, EnvSet
  <1>2. env' \in Environment
    BY <1>0, <1>1 DEF Close, Open
  <1>3. out' \in Outside
    BY <1>0, SpentType DEF Close, Open
  <1> QED BY <1>2, <1>3 DEF Close, Open, TypeOK

LEMMA UsageType ==
    ASSUME TypeOK, (\E p \in {"Hold", "Stop"} : UsageHoldStarts(p)) \/ UsageLifts
    PROVE  TypeOK'
  <1>0. env \in Environment /\ out \in Outside /\ wake \in Wakeups
    BY DEF TypeOK
  <1>1. PhaseSignal \in {"off", "live", "closed"}
    BY <1>0 DEF PhaseSignal, Wakeups
  <1>2. [wake EXCEPT !.usage = PhaseSignal] \in Wakeups
    BY <1>0, <1>1, WakeSet
  <1>3. [wake EXCEPT !.usage = PhaseSignal, !.resume = TRUE, !.kick = TRUE] \in Wakeups
    <2>1. ASSUME NEW y \in Wakeups PROVE [y EXCEPT !.resume = TRUE, !.kick = TRUE] \in Wakeups
      BY WakeSet
    <2> QED BY <1>2, <2>1
  <1>4. wake' \in Wakeups
    BY <1>2, <1>3 DEF UsageHoldStarts, UsageLifts
  <1>5. \A p \in Phases : [env EXCEPT !.phase = p] \in Environment
    BY <1>0, EnvSet
  <1>6. env' \in Environment
    BY <1>5 DEF UsageHoldStarts, UsageLifts, Phases
  <1>7. out' \in Outside
    BY <1>0, SpentType DEF UsageHoldStarts, UsageLifts
  <1> QED BY <1>4, <1>6, <1>7 DEF UsageHoldStarts, UsageLifts, TypeOK

LEMMA ReloginType ==
    ASSUME TypeOK, ReloginStart \/ ReloginComplete \/ ReloginRelease
    PROVE  TypeOK'
  <1>0. /\ env \in Environment /\ out \in Outside /\ TRUE \in BOOLEAN /\ FALSE \in BOOLEAN
        /\ env.attempt + 1 \in Nat /\ out.due \cup {Login} \in SUBSET (Asks \cup {Login})
    BY DEF TypeOK, Environment, Outside
  <1>1. ASSUME NEW n \in Nat
        PROVE  [env EXCEPT !.relogin = TRUE, !.login = TRUE, !.attempt = n] \in Environment
    BY <1>0, EnvSet
  <1>2. [env EXCEPT !.login = FALSE] \in Environment /\ [env EXCEPT !.relogin = FALSE] \in Environment
    BY <1>0, EnvSet
  <1>3. env' \in Environment
    BY <1>0, <1>1, <1>2 DEF ReloginStart, ReloginComplete, ReloginRelease
  <1>4. [out EXCEPT !.due = @ \cup {Login}] \in Outside
    BY <1>0, OutSet
  <1>5. out' \in Outside
    BY <1>0, <1>4, SpentType DEF ReloginStart, ReloginComplete, ReloginRelease
  <1> QED BY <1>3, <1>5 DEF ReloginStart, ReloginComplete, ReloginRelease, TypeOK

LEMMA AskType ==
    ASSUME TypeOK, (\E a \in Asks : AskShown(a)) \/ AskResolved
    PROVE  TypeOK'
  <1>0. env \in Environment /\ out \in Outside /\ env.ask \in Asks \cup {Nothing}
    BY DEF TypeOK, Environment
  <1>1. \A a \in Asks \cup {Nothing} : [env EXCEPT !.ask = a] \in Environment
    BY <1>0, EnvSet
  <1>2. env' \in Environment
    BY <1>0, <1>1 DEF AskShown, AskResolved
  <1>3. CASE \E a \in Asks : AskShown(a)
    <2>1. out' \in Outside
      BY <1>0, <1>3, SpentType DEF AskShown
    <2> QED BY <1>2, <1>3, <2>1 DEF AskShown, TypeOK
  <1>4. CASE AskResolved
    <2>1. out.due \cup {env.ask} \in SUBSET (Asks \cup {Login})
      BY <1>0, <1>4 DEF AskResolved, Outside
    <2>2. out' \in Outside
      BY <1>0, <1>4, <2>1, OutSet DEF AskResolved
    <2> QED BY <1>2, <1>4, <2>2 DEF AskResolved, TypeOK
  <1> QED BY <1>3, <1>4

LEMMA ShutdownType == ASSUME TypeOK, BeginShutdown \/ StopInbox PROVE TypeOK'
  <1>1. env' \in Environment
    BY EnvSet DEF BeginShutdown, StopInbox, TypeOK
  <1> QED BY <1>1 DEF BeginShutdown, StopInbox, TypeOK

\* The records a process starts with.
LEMMA FreshRecords ==
    /\ [pc |-> "top", cur |-> Nothing, batch |-> <<>>, walk |-> 0, slots |-> 0,
        grant |-> "none", waitCancel |-> "none", active |-> FALSE,
        head |-> Nothing, attempt |-> 0, ask |-> Nothing] \in Worker
    /\ [watch |-> {}, hint |-> FALSE, usage |-> "off", resume |-> FALSE, kick |-> FALSE] \in Wakeups
    /\ [parked |-> {}, aged |-> {}, asked |-> {}, askAged |-> {}, timers |-> {}] \in Clock
    /\ [of |-> [m \in Messages |-> 0], last |-> 0, stop |-> 0]
          \in [of : [Messages -> Nat], last : Nat, stop : Nat]
    /\ \A k \in BOOLEAN, p \in Phases :
         [delegated |-> k, phase |-> p, relogin |-> FALSE, login |-> FALSE,
          attempt |-> 0, ask |-> Nothing, silent |-> FALSE, compacting |-> FALSE,
          work |-> FALSE, adopted |-> FALSE, shutting |-> FALSE, done |-> FALSE] \in Environment
  <1>1. [pc |-> "top", cur |-> Nothing, batch |-> <<>>, walk |-> 0, slots |-> 0,
        grant |-> "none", waitCancel |-> "none", active |-> FALSE,
        head |-> Nothing, attempt |-> 0, ask |-> Nothing] \in Worker
    <2>1. "top" \in PCs
      BY DEF PCs
    <2> QED BY <2>1, WorkerValues DEF Worker
  <1>2. [watch |-> {}, hint |-> FALSE, usage |-> "off", resume |-> FALSE, kick |-> FALSE] \in Wakeups
    BY DEF Wakeups
  <1>3. [parked |-> {}, aged |-> {}, asked |-> {}, askAged |-> {}, timers |-> {}] \in Clock
    BY DEF Clock
  <1>4. ASSUME NEW k \in BOOLEAN, NEW p \in Phases
        PROVE  [delegated |-> k, phase |-> p, relogin |-> FALSE, login |-> FALSE,
          attempt |-> 0, ask |-> Nothing, silent |-> FALSE, compacting |-> FALSE,
          work |-> FALSE, adopted |-> FALSE, shutting |-> FALSE, done |-> FALSE] \in Environment
    BY DEF Environment
  <1> QED BY <1>1, <1>2, <1>3, <1>4

LEMMA CrashType == ASSUME TypeOK, Crash PROVE TypeOK'
  <1>0. /\ env \in Environment /\ out \in Outside /\ stored \in Seq(Messages) /\ fate \in FateType
        /\ "lost" \in Outcomes /\ env.delegated \in BOOLEAN /\ env.phase \in Phases
        /\ out.restored \cup ToSet(stored) \in SUBSET Messages
    BY DEF TypeOK, FateType, Outcomes, Environment, Outside, ToSet
  <1>1. Spent \in Outside /\ Spent.restored = out.restored
    BY <1>0, SpentType DEF Crash, Spent, Outside
  <1>2. out' \in Outside
    <2>1. ASSUME NEW y \in Outside, NEW r \in SUBSET Messages
          PROVE  [y EXCEPT !.steering = {}, !.due = {}, !.requeue = <<>>, !.restore = stored,
                           !.restored = r] \in Outside
      <3>1. <<>> \in Seq(Injects) /\ {} \in SUBSET (Users \cup Injects) /\ {} \in SUBSET (Asks \cup {Login})
        OBVIOUS
      <3>2. [y EXCEPT !.steering = {}, !.due = {}, !.requeue = <<>>] \in Outside
        BY <3>1, OutSet
      <3>3. ASSUME NEW z \in Outside PROVE [z EXCEPT !.restore = stored, !.restored = r] \in Outside
        BY <1>0, OutSet
      <3> QED BY <3>2, <3>3
    <2>2. out' = [Spent EXCEPT !.steering = {}, !.due = {}, !.requeue = <<>>, !.restore = stored,
                               !.restored = out.restored \cup ToSet(stored)]
      BY <1>1 DEF Crash
    <2> QED BY <1>0, <1>1, <2>1, <2>2
  <1>3. fate' \in FateType
    BY <1>0, EndedType DEF Crash
  <1>4. env' \in Environment /\ w' \in Worker /\ wake' \in Wakeups /\ clock' \in Clock
        /\ numbers' \in [of : [Messages -> Nat], last : Nat, stop : Nat]
    BY <1>0, FreshRecords DEF Crash, Delegated
  <1>5. /\ ch' \in Seq(Messages) /\ Len(ch') <= ChanSize
        /\ pending' \in Seq(Messages) /\ held' \in Seq(Injects) /\ deferred' \in Seq(Deferral)
        /\ usageHeld' \in Seq(Messages) /\ steer' \in Seq(Users \cup Injects)
        /\ stored' \in Seq(Messages)
    BY <1>0, InboxAssumption DEF Crash
  <1> QED BY <1>2, <1>3, <1>4, <1>5 DEF TypeOK, FateType, Deferral

\* The first state has the types.
LEMMA InitType == ASSUME Init PROVE TypeOK
  <1>1. /\ ch \in Seq(Messages) /\ Len(ch) <= ChanSize
        /\ pending \in Seq(Messages) /\ held \in Seq(Injects) /\ deferred \in Seq(Deferral)
        /\ usageHeld \in Seq(Messages) /\ steer \in Seq(Users \cup Injects)
        /\ stored \in Seq(Messages) /\ fate \in FateType
    BY InboxAssumption DEF Init, FateType
  <1>2. w \in Worker /\ wake \in Wakeups /\ clock \in Clock
        /\ numbers \in [of : [Messages -> Nat], last : Nat, stop : Nat]
    BY FreshRecords DEF Init
  <1>3. env \in Environment
    <2>1. \A k \in Backends : k \in BOOLEAN
      BY InboxAssumption
    <2>2. "Open" \in Phases
      BY DEF Phases
    <2> QED BY <2>1, <2>2, FreshRecords DEF Init
  <1>4. out \in Outside
    BY InboxAssumption DEF Init, Outside
  <1> QED BY <1>1, <1>2, <1>3, <1>4 DEF TypeOK, FateType, Deferral

-----------------------------------------------------------------------------
(* Control: where the worker is says what it holds, one lemma per action.  *)

\* A step that leaves the worker and the held list alone.
LEMMA ControlKept == ASSUME Control, UNCHANGED <<w, held>> PROVE Control'
  BY DEF Control, CurPlaced, WalkPlaced, BatchPlaced, SlotsPlaced, AtGate, Serving, Waiting, Driving

\* Returning to where the injection was dispatched from.
LEMMA DoneControl ==
    ASSUME TypeOK, Control, w' = Done,
           w.pc \in {"dequeued", "relogin", "dispatch", "run", "paused", "deferring", "inject"}
    PROVE  Control'
  <1>0. w \in Worker /\ w.walk \in Nat
    BY DEF TypeOK, Worker
  <1>1. /\ w'.pc = Back /\ w'.cur = Nothing /\ w'.batch = w.batch /\ w'.walk = w.walk
        /\ w'.slots = w.slots /\ w'.grant = w.grant /\ w'.waitCancel = w.waitCancel
    BY <1>0, DoneIs
  <1>2. CurPlaced'
    BY <1>1 DEF CurPlaced, AtGate, Back
  <1>3. WalkPlaced'
    BY <1>0, <1>1 DEF WalkPlaced, Back
  <1>4. BatchPlaced'
    BY <1>0, <1>1 DEF Control, BatchPlaced, WalkPlaced, AtGate, Back
  <1>5. SlotsPlaced'
    BY <1>0, <1>1 DEF Control, SlotsPlaced, BatchPlaced, WalkPlaced, AtGate, Serving, Waiting,
       Driving, Back
  <1> QED BY <1>2, <1>3, <1>4, <1>5 DEF Control

\* Leaving: no slot, handle or Acquire goroutine is kept.
LEMMA LeavingControl == ASSUME TypeOK, Control, w' = Leaving PROVE Control'
  <1>0. w \in Worker
    BY DEF TypeOK
  <1>1. /\ w'.pc = "exit" /\ w'.cur = Nothing /\ w'.walk = 0 /\ w'.slots = 0
        /\ w'.grant = "none" /\ w'.waitCancel = "none"
    BY <1>0, LeavingIs
  <1> QED BY <1>1 DEF Control, CurPlaced, WalkPlaced, BatchPlaced, SlotsPlaced, AtGate, Serving,
             Waiting, Driving


LEMMA LoopTopControl == ASSUME TypeOK, Control, LoopTop PROVE Control'
  <1>0. w \in Worker /\ w.walk \in Nat /\ w.slots \in Nat /\ Limiters \in Nat /\ Nothing \notin Injects
    BY InboxAssumption DEF TypeOK, Worker, Messages
  <1>1. /\ w'.pc = "walk" /\ w'.cur = w.cur /\ w'.batch = w.batch
        /\ w'.walk = 1 /\ w'.slots = w.slots /\ w'.grant = w.grant
        /\ w'.waitCancel = w.waitCancel
    BY <1>0 DEF LoopTop, Worker
  <1> QED BY <1>0, <1>1 DEF LoopTop, Control, CurPlaced, WalkPlaced, BatchPlaced, SlotsPlaced,
             AtGate, Serving, Waiting, Driving

LEMMA ReleaseHeldKeepControl == ASSUME TypeOK, Control, ReleaseHeldKeep PROVE Control'
  <1>0. w \in Worker /\ w.walk \in Nat /\ w.slots \in Nat /\ Limiters \in Nat /\ Nothing \notin Injects
    BY InboxAssumption DEF TypeOK, Worker, Messages
  <1>1. /\ w'.pc = w.pc /\ w'.cur = w.cur /\ w'.batch = w.batch
        /\ w'.walk = w.walk + 1 /\ w'.slots = w.slots /\ w'.grant = w.grant
        /\ w'.waitCancel = w.waitCancel
    BY <1>0 DEF ReleaseHeldKeep, Worker
  <1> QED BY <1>0, <1>1 DEF ReleaseHeldKeep, Control, CurPlaced, WalkPlaced, BatchPlaced,
             SlotsPlaced, AtGate, Serving, Waiting, Driving

LEMMA ReleaseHeldDoneControl == ASSUME TypeOK, Control, ReleaseHeldDone PROVE Control'
  <1>0. w \in Worker /\ w.walk \in Nat /\ w.slots \in Nat /\ Limiters \in Nat /\ Nothing \notin Injects
    BY InboxAssumption DEF TypeOK, Worker, Messages
  <1>1. /\ w'.pc = (IF w.batch = <<>> THEN "resume" ELSE "slot") /\ w'.cur = w.cur /\ w'.batch = w.batch
        /\ w'.walk = 0 /\ w'.slots = w.slots /\ w'.grant = w.grant
        /\ w'.waitCancel = w.waitCancel
    BY <1>0 DEF ReleaseHeldDone, Worker
  <1> QED BY <1>0, <1>1 DEF ReleaseHeldDone, Control, CurPlaced, WalkPlaced, BatchPlaced,
             SlotsPlaced, AtGate, Serving, Waiting, Driving

LEMMA TakeUsageResumeControl == ASSUME TypeOK, Control, TakeUsageResume PROVE Control'
  <1>0. w \in Worker /\ w.walk \in Nat /\ w.slots \in Nat /\ Limiters \in Nat /\ Nothing \notin Injects
    BY InboxAssumption DEF TypeOK, Worker, Messages
  <1>1. /\ w'.pc = "usage" /\ w'.cur = w.cur /\ w'.batch = w.batch
        /\ w'.walk = w.walk /\ w'.slots = w.slots /\ w'.grant = w.grant
        /\ w'.waitCancel = w.waitCancel
    BY <1>0 DEF TakeUsageResume, Worker
  <1> QED BY <1>0, <1>1 DEF TakeUsageResume, Control, CurPlaced, WalkPlaced, BatchPlaced,
             SlotsPlaced, AtGate, Serving, Waiting, Driving

LEMMA DispatchUserInputControl == ASSUME TypeOK, Control, DispatchUserInput PROVE Control'
  <1>0. w \in Worker /\ w.walk \in Nat /\ w.slots \in Nat /\ Limiters \in Nat /\ Nothing \notin Injects
    BY InboxAssumption DEF TypeOK, Worker, Messages
  <1>1. /\ w'.pc = "gate1" /\ w'.cur = w.cur /\ w'.batch = w.batch
        /\ w'.walk = w.walk /\ w'.slots = w.slots /\ w'.grant = w.grant
        /\ w'.waitCancel = w.waitCancel
    BY <1>0 DEF DispatchUserInput, Worker
  <1> QED BY <1>0, <1>1 DEF DispatchUserInput, Control, CurPlaced, WalkPlaced, BatchPlaced,
             SlotsPlaced, AtGate, Serving, Waiting, Driving

LEMMA DispatchNowControl == ASSUME TypeOK, Control, DispatchNow PROVE Control'
  <1>0. w \in Worker /\ w.walk \in Nat /\ w.slots \in Nat /\ Limiters \in Nat /\ Nothing \notin Injects
    BY InboxAssumption DEF TypeOK, Worker, Messages
  <1>1. /\ w'.pc = "ready" /\ w'.cur = w.cur /\ w'.batch = w.batch
        /\ w'.walk = w.walk /\ w'.slots = w.slots /\ w'.grant = w.grant
        /\ w'.waitCancel = w.waitCancel
    BY <1>0 DEF DispatchNow, Worker
  <1> QED BY <1>0, <1>1 DEF DispatchNow, Control, CurPlaced, WalkPlaced, BatchPlaced, SlotsPlaced,
             AtGate, Serving, Waiting, Driving

LEMMA ReadyControl == ASSUME TypeOK, Control, Ready PROVE Control'
  <1>0. w \in Worker /\ w.walk \in Nat /\ w.slots \in Nat /\ Limiters \in Nat /\ Nothing \notin Injects
    BY InboxAssumption DEF TypeOK, Worker, Messages
  <1>1. /\ w'.pc = "run" /\ w'.cur = w.cur /\ w'.batch = w.batch
        /\ w'.walk = w.walk /\ w'.slots = w.slots /\ w'.grant = w.grant
        /\ w'.waitCancel = w.waitCancel
    BY <1>0 DEF Ready, Worker
  <1> QED BY <1>0, <1>1 DEF Ready, Control, CurPlaced, WalkPlaced, BatchPlaced, SlotsPlaced, AtGate,
             Serving, Waiting, Driving

LEMMA RunPauseControl == ASSUME TypeOK, Control, RunPause PROVE Control'
  <1>0. w \in Worker /\ w.walk \in Nat /\ w.slots \in Nat /\ Limiters \in Nat /\ Nothing \notin Injects
    BY InboxAssumption DEF TypeOK, Worker, Messages
  <1>1. /\ w'.pc = "paused" /\ w'.cur = Nothing /\ w'.batch = w.batch
        /\ w'.walk = w.walk /\ w'.slots = w.slots /\ w'.grant = w.grant
        /\ w'.waitCancel = w.waitCancel
    BY <1>0 DEF RunPause, Worker
  <1> QED BY <1>0, <1>1 DEF RunPause, Control, CurPlaced, WalkPlaced, BatchPlaced, SlotsPlaced,
             AtGate, Serving, Waiting, Driving

LEMMA DriveBatchControl == ASSUME TypeOK, Control, DriveBatch PROVE Control'
  <1>0. w \in Worker /\ w.walk \in Nat /\ w.slots \in Nat /\ Limiters \in Nat /\ Nothing \notin Injects
    BY InboxAssumption DEF TypeOK, Worker, Messages
  <1>1. /\ w'.pc = "drive" /\ w'.cur = w.cur /\ w'.batch = <<>>
        /\ w'.walk = w.walk /\ w'.slots = w.slots /\ w'.grant = w.grant
        /\ w'.waitCancel = w.waitCancel
    BY <1>0 DEF DriveBatch, Worker
  <1> QED BY <1>0, <1>1 DEF DriveBatch, Control, CurPlaced, WalkPlaced, BatchPlaced, SlotsPlaced,
             AtGate, Serving, Waiting, Driving

LEMMA TurnReturnsControl == ASSUME TypeOK, Control, TurnReturns PROVE Control'
  <1>0. w \in Worker /\ w.walk \in Nat /\ w.slots \in Nat /\ Limiters \in Nat /\ Nothing \notin Injects
    BY InboxAssumption DEF TypeOK, Worker, Messages
  <1>1. /\ w'.pc = "after" /\ w'.cur = w.cur /\ w'.batch = w.batch
        /\ w'.walk = w.walk /\ w'.slots = w.slots /\ w'.grant = w.grant
        /\ w'.waitCancel = w.waitCancel
    BY <1>0 DEF TurnReturns, Worker
  <1> QED BY <1>0, <1>1 DEF TurnReturns, Control, CurPlaced, WalkPlaced, BatchPlaced, SlotsPlaced,
             AtGate, Serving, Waiting, Driving

LEMMA BatchReturnsControl == ASSUME TypeOK, Control, BatchReturns PROVE Control'
  <1>0. w \in Worker /\ w.walk \in Nat /\ w.slots \in Nat /\ Limiters \in Nat /\ Nothing \notin Injects
    BY InboxAssumption DEF TypeOK, Worker, Messages
  <1>1. /\ w'.pc = "settle" /\ w'.cur = w.cur /\ w'.batch = w.batch
        /\ w'.walk = w.walk /\ w'.slots = 0 /\ w'.grant = w.grant
        /\ w'.waitCancel = w.waitCancel
    BY <1>0 DEF BatchReturns, Worker
  <1> QED BY <1>0, <1>1 DEF BatchReturns, Control, CurPlaced, WalkPlaced, BatchPlaced, SlotsPlaced,
             AtGate, Serving, Waiting, Driving

LEMMA SettleControl == ASSUME TypeOK, Control, Settle PROVE Control'
  <1>0. w \in Worker /\ w.walk \in Nat /\ w.slots \in Nat /\ Limiters \in Nat /\ Nothing \notin Injects
    BY InboxAssumption DEF TypeOK, Worker, Messages
  <1>1. /\ w'.pc = "top" /\ w'.cur = w.cur /\ w'.batch = w.batch
        /\ w'.walk = w.walk /\ w'.slots = w.slots /\ w'.grant = w.grant
        /\ w'.waitCancel = w.waitCancel
    BY <1>0 DEF Settle, Worker
  <1> QED BY <1>0, <1>1 DEF Settle, Control, CurPlaced, WalkPlaced, BatchPlaced, SlotsPlaced,
             AtGate, Serving, Waiting, Driving

LEMMA ExitControl == ASSUME TypeOK, Control, Exit PROVE Control'
  <1>0. w \in Worker /\ w.walk \in Nat /\ w.slots \in Nat /\ Limiters \in Nat /\ Nothing \notin Injects
    BY InboxAssumption DEF TypeOK, Worker, Messages
  <1>1. /\ w'.pc = "exited" /\ w'.cur = w.cur /\ w'.batch = <<>>
        /\ w'.walk = w.walk /\ w'.slots = w.slots /\ w'.grant = w.grant
        /\ w'.waitCancel = w.waitCancel
    BY <1>0 DEF Exit, Worker
  <1> QED BY <1>0, <1>1 DEF Exit, Control, CurPlaced, WalkPlaced, BatchPlaced, SlotsPlaced, AtGate,
             Serving, Waiting, Driving

LEMMA PrimaryWrittenControl == ASSUME TypeOK, Control, PrimaryWritten PROVE Control'
  <1>0. w \in Worker /\ w.walk \in Nat /\ w.slots \in Nat /\ Limiters \in Nat /\ Nothing \notin Injects
    BY InboxAssumption DEF TypeOK, Worker, Messages
  <1>1. /\ w'.pc = w.pc /\ w'.cur = w.cur /\ w'.batch = w.batch
        /\ w'.walk = w.walk /\ w'.slots = w.slots /\ w'.grant = w.grant
        /\ w'.waitCancel = w.waitCancel /\ w'.ask = w.ask
    BY <1>0 DEF PrimaryWritten, Worker
  <1> QED BY <1>0, <1>1 DEF PrimaryWritten, Control, CurPlaced, WalkPlaced, BatchPlaced,
             SlotsPlaced, AtGate, Serving, Waiting, Driving

LEMMA GrantControl == ASSUME TypeOK, Control, Grant PROVE Control'
  <1>0. w \in Worker /\ w.walk \in Nat /\ w.slots \in Nat /\ Limiters \in Nat /\ Nothing \notin Injects
    BY InboxAssumption DEF TypeOK, Worker, Messages
  <1>1. /\ w'.pc = w.pc /\ w'.cur = w.cur /\ w'.batch = w.batch
        /\ w'.walk = w.walk /\ w'.slots = w.slots /\ w'.grant = "given"
        /\ w'.waitCancel = w.waitCancel /\ w'.ask = w.ask
    BY <1>0 DEF Grant, Worker
  <1> QED BY <1>0, <1>1 DEF Grant, Control, CurPlaced, WalkPlaced, BatchPlaced, SlotsPlaced, AtGate,
             Serving, Waiting, Driving

LEMMA CancelSessionControl == ASSUME TypeOK, Control, CancelSession PROVE Control'
  <1>0. w \in Worker /\ w.walk \in Nat /\ w.slots \in Nat /\ Limiters \in Nat /\ Nothing \notin Injects
    BY InboxAssumption DEF TypeOK, Worker, Messages
  <1>1. /\ w'.pc = w.pc /\ w'.cur = w.cur /\ w'.batch = w.batch
        /\ w'.walk = w.walk /\ w'.slots = w.slots /\ w'.grant = w.grant
        /\ w'.waitCancel = "fired" /\ w'.ask = w.ask
    BY <1>0 DEF CancelSession, Worker
  <1> QED BY <1>0, <1>1 DEF CancelSession, Control, CurPlaced, WalkPlaced, BatchPlaced, SlotsPlaced,
             AtGate, Serving, Waiting, Driving

LEMMA ReleaseHeldRunControl == ASSUME TypeOK, Control, ReleaseHeldRun PROVE Control'
  <1>0. w \in Worker /\ w.walk \in Nat /\ w.slots \in Nat /\ Limiters \in Nat /\ Nothing \notin Injects
    BY InboxAssumption DEF TypeOK, Worker, Messages
  <1>2. held[w.walk] \in Injects
    <2>1. w.walk \in 1..Len(held) /\ held \in Seq(Injects)
      BY <1>0 DEF ReleaseHeldRun, Control, WalkPlaced, TypeOK
    <2> QED BY <2>1
  <1>1. /\ w'.pc = "ready" /\ w'.cur = held[w.walk] /\ w'.batch = w.batch
        /\ w'.walk = w.walk /\ w'.slots = w.slots /\ w'.grant = w.grant
        /\ w'.waitCancel = w.waitCancel
    BY <1>0 DEF ReleaseHeldRun, Worker
  <1> QED BY <1>0, <1>1, <1>2 DEF ReleaseHeldRun, Control, CurPlaced, WalkPlaced, BatchPlaced,
             SlotsPlaced, AtGate, Serving, Waiting, Driving

\* Starting a batch.
LEMMA StartBatchControl ==
    ASSUME TypeOK, Control, NEW b \in Seq(Messages), NEW h \in Users \cup Lines \cup {Nothing},
           b # <<>>, StartBatch(b, h), w.pc \in {"usage", "relogin"}
    PROVE  Control'
  <1>0. w \in Worker /\ env \in Environment /\ w.slots \in Nat /\ w.walk \in Nat /\ Limiters \in Nat
    BY SMTT(30), InboxAssumption DEF TypeOK, Worker
  <1>1. /\ w'.pc = "gate1" /\ w'.cur = Nothing /\ w'.batch = b /\ w'.walk = w.walk
        /\ w'.slots = w.slots /\ w'.grant = w.grant /\ w'.waitCancel = w.waitCancel
    BY <1>0, StartBatchIs
  <1> QED BY <1>0, <1>1 DEF Control, CurPlaced, WalkPlaced, BatchPlaced, SlotsPlaced, AtGate,
             Serving, Waiting, Driving

LEMMA ReleaseUsageHeldControl == ASSUME TypeOK, Control, ReleaseUsageHeld PROVE Control'
  <1>0. w \in Worker /\ usageHeld \in Seq(Messages)
    BY DEF TypeOK
  <1>1. CASE usageHeld = <<>> \/ UsageHoldsUser
    <2>1. /\ w'.pc = "arm" /\ w'.cur = w.cur /\ w'.batch = w.batch
          /\ w'.walk = w.walk /\ w'.slots = w.slots /\ w'.grant = w.grant
          /\ w'.waitCancel = w.waitCancel
      BY <1>0, <1>1 DEF ReleaseUsageHeld, Worker
    <2> QED BY <2>1 DEF ReleaseUsageHeld, Control, CurPlaced, WalkPlaced, BatchPlaced, SlotsPlaced,
               AtGate, Serving, Waiting, Driving
  <1>2. CASE ~(usageHeld = <<>> \/ UsageHoldsUser)
    <2>1. StartBatch(usageHeld, Nothing) /\ w.pc \in {"usage", "relogin"} /\ usageHeld # <<>>
      BY <1>2 DEF ReleaseUsageHeld
    <2>2. Nothing \in Users \cup Lines \cup {Nothing}
      OBVIOUS
    <2> QED BY <1>0, <2>1, <2>2, StartBatchControl
  <1> QED BY <1>1, <1>2

LEMMA ArmControl == ASSUME TypeOK, Control, Arm PROVE Control'
  <1>0. w \in Worker /\ pending \in Seq(Messages)
    BY DEF TypeOK
  <1>1. CASE w' = Leaving
    BY <1>1, LeavingControl
  <1>2. CASE pending # <<>> /\ w' = [w EXCEPT !.pc = "dequeued", !.cur = Head(pending)]
    <2>1. Head(pending) \in Messages
      BY <1>0, <1>2, HeadTailTypes
    <2>2. /\ w'.pc = "dequeued" /\ w'.cur = Head(pending) /\ w'.batch = w.batch
          /\ w'.walk = w.walk /\ w'.slots = w.slots /\ w'.grant = w.grant
          /\ w'.waitCancel = w.waitCancel
      BY <1>0, <1>2 DEF Worker
    <2> QED BY <2>1, <2>2 DEF Arm, Control, CurPlaced, WalkPlaced, BatchPlaced, SlotsPlaced, AtGate,
               Serving, Waiting, Driving
  <1>3. CASE w' = [w EXCEPT !.pc = "select"]
    <2>1. /\ w'.pc = "select" /\ w'.cur = w.cur /\ w'.batch = w.batch
          /\ w'.walk = w.walk /\ w'.slots = w.slots /\ w'.grant = w.grant
          /\ w'.waitCancel = w.waitCancel
      BY <1>0, <1>3 DEF Worker
    <2> QED BY <2>1 DEF Arm, Control, CurPlaced, WalkPlaced, BatchPlaced, SlotsPlaced, AtGate,
               Serving, Waiting, Driving
  <1> QED BY <1>1, <1>2, <1>3 DEF Arm

LEMMA SelectControl == ASSUME TypeOK, Control, Select PROVE Control'
  <1>0. w \in Worker /\ ch \in Seq(Messages)
    BY DEF TypeOK
  <1>1. CASE w' = Leaving
    BY <1>1, LeavingControl
  <1>2. CASE ch # <<>> /\ w' = [w EXCEPT !.pc = "dequeued", !.cur = Head(ch)]
    <2>1. Head(ch) \in Messages
      BY <1>0, <1>2, HeadTailTypes
    <2>2. /\ w'.pc = "dequeued" /\ w'.cur = Head(ch) /\ w'.batch = w.batch
          /\ w'.walk = w.walk /\ w'.slots = w.slots /\ w'.grant = w.grant
          /\ w'.waitCancel = w.waitCancel
      BY <1>0, <1>2 DEF Worker
    <2> QED BY <2>1, <2>2 DEF Select, Control, CurPlaced, WalkPlaced, BatchPlaced, SlotsPlaced,
               AtGate, Serving, Waiting, Driving
  <1>3. CASE w' = [w EXCEPT !.pc = "top"]
    <2>1. /\ w'.pc = "top" /\ w'.cur = w.cur /\ w'.batch = w.batch
          /\ w'.walk = w.walk /\ w'.slots = w.slots /\ w'.grant = w.grant
          /\ w'.waitCancel = w.waitCancel
      BY <1>0, <1>3 DEF Worker
    <2> QED BY <2>1 DEF Select, Control, CurPlaced, WalkPlaced, BatchPlaced, SlotsPlaced, AtGate,
               Serving, Waiting, Driving
  <1> QED BY <1>1, <1>2, <1>3 DEF Select

LEMMA DequeuedControl == ASSUME TypeOK, Control, Dequeued PROVE Control'
  <1>0. w \in Worker /\ w.pc = "dequeued"
    BY DEF TypeOK, Dequeued
  <1>1. CASE w' = Done
    BY <1>0, <1>1, DoneControl
  <1>2. CASE w' = [w EXCEPT !.pc = "relogin"]
    <2>1. /\ w'.pc = "relogin" /\ w'.cur = w.cur /\ w'.batch = w.batch
          /\ w'.walk = w.walk /\ w'.slots = w.slots /\ w'.grant = w.grant
          /\ w'.waitCancel = w.waitCancel
      BY <1>0, <1>2 DEF Worker
    <2> QED BY <1>0, <2>1 DEF Control, CurPlaced, WalkPlaced, BatchPlaced, SlotsPlaced, AtGate,
               Serving, Waiting, Driving
  <1> QED BY <1>1, <1>2 DEF Dequeued

LEMMA HandleDequeuedControl == ASSUME TypeOK, Control, HandleDequeued PROVE Control'
  <1>0. w \in Worker /\ w.pc = "relogin" /\ w.cur \in Messages
    BY DEF TypeOK, HandleDequeued, Control, CurPlaced
  <1>1. CASE w' = Done
    BY <1>0, <1>1, DoneControl
  <1>2. CASE w.cur \in Injects /\ w' = [w EXCEPT !.pc = "dispatch"]
    <2>1. /\ w'.pc = "dispatch" /\ w'.cur = w.cur /\ w'.batch = w.batch
          /\ w'.walk = w.walk /\ w'.slots = w.slots /\ w'.grant = w.grant
          /\ w'.waitCancel = w.waitCancel
      BY <1>0, <1>2 DEF Worker
    <2> QED BY <1>0, <1>2, <2>1 DEF Control, CurPlaced, WalkPlaced, BatchPlaced, SlotsPlaced,
               AtGate, Serving, Waiting, Driving
  <1>3. CASE /\ w.cur \notin Injects
             /\ StartBatch(<<w.cur>>, IF Delegated /\ env.login THEN w.cur ELSE Nothing)
    <2>1. <<w.cur>> \in Seq(Messages) /\ <<w.cur>> # <<>>
      BY <1>0
    <2>2. (IF Delegated /\ env.login THEN w.cur ELSE Nothing) \in Users \cup Lines \cup {Nothing}
      BY <1>0, <1>3 DEF Messages
    <2> QED BY <1>0, <1>3, <2>1, <2>2, StartBatchControl
  <1> QED BY <1>1, <1>2, <1>3 DEF HandleDequeued

LEMMA RunInjectControl == ASSUME TypeOK, Control, RunInject PROVE Control'
  <1>0. w \in Worker /\ w.pc = "run" /\ env.ask \in Asks \cup {Nothing}
    BY DEF TypeOK, RunInject, Environment
  <1>1. CASE w' = Done
    BY <1>0, <1>1, DoneControl
  <1>2. CASE w' = [w EXCEPT !.pc = "pausing"]
    <2>1. /\ w'.pc = "pausing" /\ w'.cur = w.cur /\ w'.batch = w.batch
          /\ w'.walk = w.walk /\ w'.slots = w.slots /\ w'.grant = w.grant
          /\ w'.waitCancel = w.waitCancel
      BY <1>0, <1>2 DEF Worker
    <2> QED BY <1>0, <2>1 DEF Control, CurPlaced, WalkPlaced, BatchPlaced, SlotsPlaced, AtGate,
               Serving, Waiting, Driving
  <1>3. CASE AskDefers(w.cur) /\ w' = [w EXCEPT !.pc = "deferring", !.ask = env.ask]
    <2>1. /\ w'.pc = "deferring" /\ w'.cur = w.cur /\ w'.batch = w.batch
          /\ w'.walk = w.walk /\ w'.slots = w.slots /\ w'.grant = w.grant
          /\ w'.waitCancel = w.waitCancel /\ w'.ask = env.ask
      BY <1>0, <1>3 DEF Worker
    <2>2. env.ask \in Asks
      BY <1>0, <1>3 DEF AskDefers
    <2> QED BY <1>0, <2>1, <2>2 DEF Control, CurPlaced, WalkPlaced, BatchPlaced, SlotsPlaced,
               AtGate, Serving, Waiting, Driving
  <1>4. CASE w' = [w EXCEPT !.pc = "inject", !.cur = Nothing]
    <2>1. /\ w'.pc = "inject" /\ w'.cur = Nothing /\ w'.batch = w.batch
          /\ w'.walk = w.walk /\ w'.slots = w.slots /\ w'.grant = w.grant
          /\ w'.waitCancel = w.waitCancel
      BY <1>0, <1>4 DEF Worker
    <2> QED BY <1>0, <2>1 DEF Control, CurPlaced, WalkPlaced, BatchPlaced, SlotsPlaced, AtGate,
               Serving, Waiting, Driving
  <1> QED BY <1>1, <1>2, <1>3, <1>4 DEF RunInject

LEMMA PassGateControl == ASSUME TypeOK, Control, PassGate PROVE Control'
  <1>0. w \in Worker /\ w.slots \in Nat /\ w.walk \in Nat /\ Limiters \in Nat /\ Nothing \notin Injects
    BY InboxAssumption DEF TypeOK, Worker, Messages
  <1>1. PICK g \in 1..4 :
          /\ w.pc = Gates[g]
          /\ w' = [w EXCEPT !.pc = IF g < 4 THEN Gates[g + 1]
                                   ELSE IF w.cur = Nothing THEN "acquire" ELSE "run"]
    BY DEF PassGate
  <1>2. w'.pc = IF g < 4 THEN Gates[g + 1] ELSE IF w.cur = Nothing THEN "acquire" ELSE "run"
    BY <1>0, <1>1 DEF Worker
  <1>3. w.pc \in {"gate1", "gate2", "gate3", "gate4"}
    BY <1>1 DEF Gates
  <1>4. \/ w'.pc \in {"gate2", "gate3", "gate4"}
        \/ w'.pc = "acquire" /\ w.cur = Nothing
        \/ w'.pc = "run" /\ w.cur # Nothing
    BY <1>2 DEF Gates
  <1>5. /\ w'.pc = w'.pc /\ w'.cur = w.cur /\ w'.batch = w.batch
        /\ w'.walk = w.walk /\ w'.slots = w.slots /\ w'.grant = w.grant
        /\ w'.waitCancel = w.waitCancel
    BY <1>0, <1>1 DEF Worker
  <1> QED BY <1>0, <1>3, <1>4, <1>5 DEF Control, CurPlaced, WalkPlaced, BatchPlaced, SlotsPlaced,
             AtGate, Serving, Waiting, Driving

LEMMA AcquireTurnSlotsControl == ASSUME TypeOK, Control, AcquireTurnSlots PROVE Control'
  <1>0. w \in Worker /\ w.slots \in Nat /\ w.walk \in Nat /\ Limiters \in Nat /\ w.pc = "acquire"
    BY InboxAssumption DEF TypeOK, Worker, AcquireTurnSlots
  <1>1. CASE Limiters = 0
    <2>1. /\ w'.pc = "recheck" /\ w'.cur = w.cur /\ w'.batch = w.batch
          /\ w'.walk = w.walk /\ w'.slots = w.slots /\ w'.grant = w.grant
          /\ w'.waitCancel = w.waitCancel
      BY <1>0, <1>1 DEF AcquireTurnSlots, Worker
    <2> QED BY <1>0, <1>1, <2>1 DEF Control, CurPlaced, WalkPlaced, BatchPlaced, SlotsPlaced,
               AtGate, Serving, Waiting, Driving
  <1>2. CASE Limiters # 0
    <2>1. /\ w'.pc = "take" /\ w'.cur = w.cur /\ w'.batch = w.batch
          /\ w'.walk = w.walk /\ w'.slots = w.slots /\ w'.grant = w.grant
          /\ w'.waitCancel = "set"
      BY <1>0, <1>2 DEF AcquireTurnSlots, Worker
    <2> QED BY <1>0, <1>2, <2>1 DEF Control, CurPlaced, WalkPlaced, BatchPlaced, SlotsPlaced,
               AtGate, Serving, Waiting, Driving
  <1> QED BY <1>1, <1>2

\* Taking a slot.
LEMMA SlotTakenControl ==
    ASSUME TypeOK, Control, w.pc \in {"take", "slot"}, w' = SlotTaken
    PROVE  Control'
  <1>0. w \in Worker /\ w.slots \in Nat /\ w.walk \in Nat /\ Limiters \in Nat
    BY InboxAssumption DEF TypeOK, Worker
  <1>1. w.slots < Limiters
    BY DEF Control, SlotsPlaced, Waiting
  <1>2. /\ w'.pc = (IF w.slots + 1 = Limiters THEN "claim" ELSE "take")
        /\ w'.cur = w.cur /\ w'.batch = w.batch /\ w'.walk = w.walk
        /\ w'.slots = w.slots + 1 /\ w'.grant = "none" /\ w'.waitCancel = w.waitCancel
    BY <1>0, <1>1, SlotTakenIs
  <1> QED BY <1>0, <1>1, <1>2 DEF Control, CurPlaced, WalkPlaced, BatchPlaced, SlotsPlaced, AtGate,
             Serving, Waiting, Driving

LEMMA TakeSlotControl == ASSUME TypeOK, Control, TakeSlot PROVE Control'
  <1>0. w \in Worker /\ w.pc = "take"
    BY DEF TypeOK, TakeSlot
  <1>1. CASE w' = SlotTaken
    BY <1>0, <1>1, SlotTakenControl
  <1>2. CASE w' = [w EXCEPT !.pc = "slot", !.grant = "asked"]
    <2>1. /\ w'.pc = "slot" /\ w'.cur = w.cur /\ w'.batch = w.batch
          /\ w'.walk = w.walk /\ w'.slots = w.slots /\ w'.grant = "asked"
          /\ w'.waitCancel = w.waitCancel
      BY <1>0, <1>2 DEF Worker
    <2> QED BY <1>0, <2>1 DEF Control, CurPlaced, WalkPlaced, BatchPlaced, SlotsPlaced, AtGate,
               Serving, Waiting, Driving
  <1> QED BY <1>1, <1>2 DEF TakeSlot

\* Giving up a slot wait.
LEMMA AbortControl ==
    ASSUME TypeOK, Control, w.pc \in {"slot", "claim"}, Abort
    PROVE  Control'
  <1>0. w \in Worker /\ fate \in FateType
    BY DEF TypeOK, FateType
  <1>1. /\ w'.cur = (IF env.done THEN Nothing ELSE w.cur)
        /\ w'.walk = (IF env.done THEN 0 ELSE w.walk)
        /\ w'.pc = (IF env.done THEN "exit" ELSE "settle")
        /\ w'.batch = (IF env.done THEN w.batch ELSE <<>>)
        /\ w'.slots = 0 /\ w'.grant = "none" /\ w'.waitCancel = "none"
    BY <1>0, AbortIs
  <1>2. w.cur = Nothing /\ w.walk = 0
    <2>1. w.walk \in Nat
      BY <1>0 DEF Worker
    <2> QED BY <2>1 DEF Control, CurPlaced, WalkPlaced, AtGate
  <1> QED BY <1>1, <1>2 DEF Control, CurPlaced, WalkPlaced, BatchPlaced, SlotsPlaced, AtGate,
             Serving, Waiting, Driving

LEMMA WaitTurnSlotControl == ASSUME TypeOK, Control, WaitTurnSlot PROVE Control'
  <1>0. /\ w \in Worker /\ w.pc = "slot" /\ ch \in Seq(Messages) /\ w.batch \in Seq(Messages)
        /\ w.walk \in Nat
    BY DEF TypeOK, WaitTurnSlot, Worker
  <1>1. CASE w' = SlotTaken
    BY <1>0, <1>1, SlotTakenControl
  <1>2. CASE Abort
    BY <1>0, <1>2, AbortControl
  <1>3. CASE ch # <<>> /\ w' = [w EXCEPT !.batch = Append(@, Head(ch))]
    <2>1. Append(w.batch, Head(ch)) # <<>>
      BY <1>0, <1>3, HeadTailTypes
    <2>2. /\ w'.pc = w.pc /\ w'.cur = w.cur /\ w'.batch = Append(w.batch, Head(ch))
          /\ w'.walk = w.walk /\ w'.slots = w.slots /\ w'.grant = w.grant
          /\ w'.waitCancel = w.waitCancel
      BY <1>0, <1>3 DEF Worker
    <2> QED BY <1>0, <2>1, <2>2 DEF WaitTurnSlot, Control, CurPlaced, WalkPlaced, BatchPlaced,
               SlotsPlaced, AtGate, Serving, Waiting, Driving
  <1>4. CASE Head(ch) \in Injects /\ w' = [w EXCEPT !.pc = "dispatch", !.cur = Head(ch)]
    <2>2. /\ w'.pc = "dispatch" /\ w'.cur = Head(ch) /\ w'.batch = w.batch
          /\ w'.walk = w.walk /\ w'.slots = w.slots /\ w'.grant = w.grant
          /\ w'.waitCancel = w.waitCancel
      BY <1>0, <1>4 DEF Worker
    <2> QED BY <1>0, <1>4, <2>2 DEF WaitTurnSlot, Control, CurPlaced, WalkPlaced, BatchPlaced,
               SlotsPlaced, AtGate, Serving, Waiting, Driving
  <1>5. CASE w' = [w EXCEPT !.pc = "walk", !.walk = 1]
    <2>2. /\ w'.pc = "walk" /\ w'.cur = w.cur /\ w'.batch = w.batch
          /\ w'.walk = 1 /\ w'.slots = w.slots /\ w'.grant = w.grant
          /\ w'.waitCancel = w.waitCancel
      BY <1>0, <1>5 DEF Worker
    <2> QED BY <1>0, <2>2 DEF WaitTurnSlot, Control, CurPlaced, WalkPlaced, BatchPlaced,
               SlotsPlaced, AtGate, Serving, Waiting, Driving
  <1> QED BY <1>1, <1>2, <1>3, <1>4, <1>5 DEF WaitTurnSlot

LEMMA ClaimWaitCancelControl == ASSUME TypeOK, Control, ClaimWaitCancel PROVE Control'
  <1>0. w \in Worker /\ w.pc = "claim" /\ w.walk \in Nat
    BY DEF TypeOK, ClaimWaitCancel, Worker
  <1>1. CASE Abort
    BY <1>0, <1>1, AbortControl
  <1>2. CASE w' = [w EXCEPT !.pc = "recheck", !.waitCancel = "none"]
    <2>1. /\ w'.pc = "recheck" /\ w'.cur = w.cur /\ w'.batch = w.batch
          /\ w'.walk = w.walk /\ w'.slots = w.slots /\ w'.grant = w.grant
          /\ w'.waitCancel = "none"
      BY <1>0, <1>2 DEF Worker
    <2> QED BY <1>0, <2>1 DEF ClaimWaitCancel, Control, CurPlaced, WalkPlaced, BatchPlaced,
               SlotsPlaced, AtGate, Serving, Waiting, Driving
  <1> QED BY <1>1, <1>2 DEF ClaimWaitCancel

LEMMA RecheckGatesControl == ASSUME TypeOK, Control, RecheckGates PROVE Control'
  <1>0. w \in Worker /\ w.pc = "recheck" /\ w.walk \in Nat
    BY DEF TypeOK, RecheckGates, Worker
  <1>1. CASE w' = [w EXCEPT !.pc = "gate1", !.slots = 0]
    <2>1. /\ w'.pc = "gate1" /\ w'.cur = w.cur /\ w'.batch = w.batch
          /\ w'.walk = w.walk /\ w'.slots = 0 /\ w'.grant = w.grant
          /\ w'.waitCancel = w.waitCancel
      BY <1>0, <1>1 DEF Worker
    <2> QED BY <1>0, <2>1 DEF RecheckGates, Control, CurPlaced, WalkPlaced, BatchPlaced,
               SlotsPlaced, AtGate, Serving, Waiting, Driving
  <1>2. CASE w' = [w EXCEPT !.pc = "batch"]
    <2>1. /\ w'.pc = "batch" /\ w'.cur = w.cur /\ w'.batch = w.batch
          /\ w'.walk = w.walk /\ w'.slots = w.slots /\ w'.grant = w.grant
          /\ w'.waitCancel = w.waitCancel
      BY <1>0, <1>2 DEF Worker
    <2> QED BY <1>0, <2>1 DEF RecheckGates, Control, CurPlaced, WalkPlaced, BatchPlaced,
               SlotsPlaced, AtGate, Serving, Waiting, Driving
  <1> QED BY <1>1, <1>2 DEF RecheckGates

LEMMA FollowUpControl == ASSUME TypeOK, Control, FollowUp PROVE Control'
  <1>0. w \in Worker /\ w.pc = "after" /\ w.walk \in Nat
    BY DEF TypeOK, FollowUp, Worker
  <1>1. PICK p \in {"inactive", "drive"} : w' = [w EXCEPT !.pc = p]
    BY DEF FollowUp
  <1>2. /\ w'.pc = p /\ w'.cur = w.cur /\ w'.batch = w.batch
        /\ w'.walk = w.walk /\ w'.slots = w.slots /\ w'.grant = w.grant
        /\ w'.waitCancel = w.waitCancel
    BY <1>0, <1>1 DEF Worker
  <1> QED BY <1>0, <1>2 DEF FollowUp, Control, CurPlaced, WalkPlaced, BatchPlaced, SlotsPlaced,
             AtGate, Serving, Waiting, Driving

\* A worker that has just started.
LEMMA FreshControl ==
    ASSUME w = [pc |-> "top", cur |-> Nothing, batch |-> <<>>, walk |-> 0, slots |-> 0,
                grant |-> "none", waitCancel |-> "none", active |-> FALSE,
                head |-> Nothing, attempt |-> 0, ask |-> Nothing]
    PROVE  Control
  <1>1. /\ w.pc = "top" /\ w.cur = Nothing /\ w.batch = <<>> /\ w.walk = 0 /\ w.slots = 0
        /\ w.grant = "none" /\ w.waitCancel = "none"
    OBVIOUS
  <1> QED BY <1>1 DEF Control, CurPlaced, WalkPlaced, BatchPlaced, SlotsPlaced, AtGate, Serving,
             Waiting, Driving


\* Every step of the worker keeps Control.
LEMMA WorkerStepControl ==
    ASSUME TypeOK, Control,
           \/ WorkerStep \/ PrimaryWritten \/ Grant \/ CancelSession
    PROVE  Control'
  <1>1. CASE \/ LoopTop \/ ReleaseHeldKeep \/ ReleaseHeldRun \/ ReleaseHeldDone
             \/ TakeUsageResume \/ ReleaseUsageHeld \/ Arm \/ Select
    BY <1>1, LoopTopControl, ReleaseHeldKeepControl, ReleaseHeldRunControl, ReleaseHeldDoneControl,
       TakeUsageResumeControl, ReleaseUsageHeldControl, ArmControl, SelectControl
  <1>2. CASE Dequeued \/ HandleDequeued \/ DispatchUserInput \/ DispatchNow \/ Ready \/ RunInject
             \/ RunPause \/ PassGate
    BY <1>2, DequeuedControl, HandleDequeuedControl, DispatchUserInputControl, DispatchNowControl,
       ReadyControl, RunInjectControl, RunPauseControl, PassGateControl
  <1>3. CASE GateEnded
    BY <1>3, LeavingControl DEF GateEnded
  <1>4. CASE DispatchPark \/ RunPaused \/ RunDefer \/ InjectReturns
    BY <1>4, DoneControl DEF DispatchPark, RunPaused, RunDefer, InjectReturns
  <1>5. CASE AcquireTurnSlots \/ TakeSlot \/ WaitTurnSlot \/ ClaimWaitCancel \/ RecheckGates
             \/ DriveBatch \/ TurnReturns
    BY <1>5, AcquireTurnSlotsControl, TakeSlotControl, WaitTurnSlotControl, ClaimWaitCancelControl,
       RecheckGatesControl, DriveBatchControl, TurnReturnsControl
  <1>6. CASE FollowUp \/ BatchReturns \/ Settle \/ Exit \/ PrimaryWritten \/ Grant \/ CancelSession
    BY <1>6, FollowUpControl, BatchReturnsControl, SettleControl, ExitControl,
       PrimaryWrittenControl,
       GrantControl, CancelSessionControl
  <1> QED BY <1>1, <1>2, <1>3, <1>4, <1>5, <1>6 DEF WorkerStep


-----------------------------------------------------------------------------
(* Conservation: every message stays, moves to one other place, or ends,   *)
(* one lemma per action.                                                   *)

\* The envelope in hand counts unless it is still on the held list.
InHand(m) == IF w.walk > 0 /\ w.pc = "ready" THEN 0 ELSE Is(w.cur, m)

\* The goroutines outside the worker that hold m.
OutsideOf(m) ==
    In(m, out.unsent) + In(m, out.fresh) + In(m, out.steering)

\* In this step m stays where it is, moves to another place, or ends.
Conserved(m) ==
    /\ Len(fate'[m]) >= Len(fate[m])
    /\ Places(m)' + Len(fate'[m]) = Places(m) + Len(fate[m])

\* Three concatenations at once.
LEMMA OccursConcat3 ==
    ASSUME NEW m, NEW a \in Seq(Messages), NEW b \in Seq(Messages), NEW c \in Seq(Messages)
    PROVE  /\ a \o b \o c \in Seq(Messages)
           /\ Occurs(m, a \o b \o c) = Occurs(m, a) + Occurs(m, b) + Occurs(m, c)
  <1>1. a \o b \in Seq(Messages) /\ a \o b \o c \in Seq(Messages)
    OBVIOUS
  <1>2. Occurs(m, a \o b) = Occurs(m, a) + Occurs(m, b)
    BY OccursConcat
  <1>3. Occurs(m, a \o b \o c) = Occurs(m, a \o b) + Occurs(m, c)
    BY <1>1, OccursConcat
  <1> QED BY <1>1, <1>2, <1>3

\* The nine lists Places counts in ...
LEMMA TallyTypes ==
    ASSUME TypeOK
    PROVE  /\ ch \in Seq(Messages) /\ pending \in Seq(Messages) /\ held \in Seq(Messages)
           /\ usageHeld \in Seq(Messages) /\ steer \in Seq(Messages) /\ w.batch \in Seq(Messages)
           /\ out.requeue \in Seq(Messages) /\ out.restore \in Seq(Messages)
           /\ deferred \in Seq(Deferral) /\ MessagesOf(deferred) \in Seq(Messages)
           /\ stored \in Seq(Messages) /\ fate \in FateType
  <1>1. /\ held \in Seq(Injects) /\ steer \in Seq(Users \cup Injects) /\ out.requeue \in Seq(Injects)
        /\ deferred \in Seq(Deferral) /\ Injects \subseteq Messages /\ Users \cup Injects \subseteq Messages
    BY DEF TypeOK, Outside, Deferral, Messages
  <1>2. MessagesOf(deferred) \in Seq(Injects)
    BY <1>1, MessagesOfSeq
  <1>3. \A s \in Seq(Injects) : s \in Seq(Messages)
    BY <1>1
  <1>4. \A s \in Seq(Users \cup Injects) : s \in Seq(Messages)
    BY <1>1
  <1>5. w.batch \in Seq(Messages) /\ out.restore \in Seq(Messages)
    BY DEF TypeOK, Worker, Outside
  <1> QED BY <1>1, <1>2, <1>3, <1>4, <1>5 DEF TypeOK, FateType

\* ... and after a step.
LEMMA TallyTypesNext ==
    ASSUME TypeOK'
    PROVE  /\ ch' \in Seq(Messages) /\ pending' \in Seq(Messages) /\ held' \in Seq(Messages)
           /\ usageHeld' \in Seq(Messages) /\ steer' \in Seq(Messages) /\ w'.batch \in Seq(Messages)
           /\ out'.requeue \in Seq(Messages) /\ out'.restore \in Seq(Messages)
           /\ deferred' \in Seq(Deferral) /\ MessagesOf(deferred') \in Seq(Messages)
           /\ stored' \in Seq(Messages) /\ fate' \in FateType
  <1>1. /\ held' \in Seq(Injects) /\ steer' \in Seq(Users \cup Injects) /\ out'.requeue \in Seq(Injects)
        /\ deferred' \in Seq(Deferral) /\ Injects \subseteq Messages /\ Users \cup Injects \subseteq Messages
    BY DEF TypeOK, Outside, Deferral, Messages
  <1>2. MessagesOf(deferred') \in Seq(Injects)
    BY <1>1, MessagesOfSeq
  <1>3. \A s \in Seq(Injects) : s \in Seq(Messages)
    BY <1>1
  <1>4. \A s \in Seq(Users \cup Injects) : s \in Seq(Messages)
    BY <1>1
  <1>5. w'.batch \in Seq(Messages) /\ out'.restore \in Seq(Messages)
    BY DEF TypeOK, Worker, Outside
  <1> QED BY <1>1, <1>2, <1>3, <1>4, <1>5 DEF TypeOK, FateType

\* Places, place by place.
LEMMA Tally ==
    ASSUME TypeOK, NEW m \in Messages
    PROVE  /\ Places(m) = Occurs(m, ch) + Occurs(m, pending) + Occurs(m, held) + Occurs(m, usageHeld)
                          + Occurs(m, steer) + Occurs(m, w.batch) + Occurs(m, out.requeue)
                          + Occurs(m, out.restore) + Occurs(m, MessagesOf(deferred))
                          + OutsideOf(m) + InHand(m)
           /\ Occurs(m, ch) \in Nat /\ Occurs(m, pending) \in Nat /\ Occurs(m, held) \in Nat
           /\ Occurs(m, usageHeld) \in Nat /\ Occurs(m, steer) \in Nat /\ Occurs(m, w.batch) \in Nat
           /\ Occurs(m, out.requeue) \in Nat /\ Occurs(m, out.restore) \in Nat
           /\ Occurs(m, MessagesOf(deferred)) \in Nat /\ OutsideOf(m) \in Nat /\ InHand(m) \in Nat
           /\ Len(fate[m]) \in Nat
  <1>1. /\ Occurs(m, ch) \in Nat /\ Occurs(m, pending) \in Nat /\ Occurs(m, held) \in Nat
        /\ Occurs(m, usageHeld) \in Nat /\ Occurs(m, steer) \in Nat /\ Occurs(m, w.batch) \in Nat
        /\ Occurs(m, out.requeue) \in Nat /\ Occurs(m, out.restore) \in Nat
        /\ Occurs(m, MessagesOf(deferred)) \in Nat
    <2>1. \A s \in Seq(Messages) : Occurs(m, s) \in Nat
      BY OccursType
    <2> QED BY <2>1, TallyTypes
  <1>2. OutsideOf(m) \in Nat /\ InHand(m) \in Nat
    BY DEF OutsideOf, InHand, Is, In
  <1>3. Len(fate[m]) \in Nat
    BY TallyTypes DEF FateType
  <1>4. Occurs(m, ch \o pending \o held \o usageHeld \o steer \o w.batch \o out.requeue
                  \o out.restore \o MessagesOf(deferred))
          = Occurs(m, ch) + Occurs(m, pending) + Occurs(m, held) + Occurs(m, usageHeld)
            + Occurs(m, steer) + Occurs(m, w.batch) + Occurs(m, out.requeue)
            + Occurs(m, out.restore) + Occurs(m, MessagesOf(deferred))
    <2>1. /\ ch \in Seq(Messages) /\ pending \in Seq(Messages) /\ held \in Seq(Messages)
          /\ usageHeld \in Seq(Messages) /\ steer \in Seq(Messages) /\ w.batch \in Seq(Messages)
          /\ out.requeue \in Seq(Messages) /\ out.restore \in Seq(Messages)
          /\ MessagesOf(deferred) \in Seq(Messages)
      BY TallyTypes
    <2> DEFINE s1 == ch \o pending \o held
               s2 == s1 \o usageHeld \o steer
               s3 == s2 \o w.batch \o out.requeue
               s4 == s3 \o out.restore \o MessagesOf(deferred)
    <2>2. s1 \in Seq(Messages) /\ Occurs(m, s1) = Occurs(m, ch) + Occurs(m, pending) + Occurs(m, held)
      BY <2>1, OccursConcat3
    <2> HIDE DEF s1
    <2>3. s2 \in Seq(Messages) /\ Occurs(m, s2) = Occurs(m, s1) + Occurs(m, usageHeld) + Occurs(m, steer)
      BY <2>1, <2>2, OccursConcat3
    <2> HIDE DEF s2
    <2>4. s3 \in Seq(Messages) /\ Occurs(m, s3) = Occurs(m, s2) + Occurs(m, w.batch) + Occurs(m, out.requeue)
      BY <2>1, <2>3, OccursConcat3
    <2> HIDE DEF s3
    <2>5. Occurs(m, s4) = Occurs(m, s3) + Occurs(m, out.restore) + Occurs(m, MessagesOf(deferred))
      BY <2>1, <2>4, OccursConcat3
    <2> HIDE DEF s4
    <2>6. Occurs(m, s4) = Occurs(m, ch) + Occurs(m, pending) + Occurs(m, held) + Occurs(m, usageHeld)
            + Occurs(m, steer) + Occurs(m, w.batch) + Occurs(m, out.requeue)
            + Occurs(m, out.restore) + Occurs(m, MessagesOf(deferred))
      BY <2>2, <2>3, <2>4, <2>5
    <2> QED BY <2>6 DEF s1, s2, s3, s4
  <1> DEFINE all == Occurs(m, ch \o pending \o held \o usageHeld \o steer \o w.batch \o out.requeue
                  \o out.restore \o MessagesOf(deferred))
  <1>5. all \in Nat
    BY <1>1, <1>4
  <1>6. Places(m) = all + OutsideOf(m) + InHand(m)
    BY <1>5 DEF Places, One, OutsideOf, InHand, Is, In
  <1> HIDE DEF all
  <1>7. all = Occurs(m, ch) + Occurs(m, pending) + Occurs(m, held) + Occurs(m, usageHeld)
            + Occurs(m, steer) + Occurs(m, w.batch) + Occurs(m, out.requeue)
            + Occurs(m, out.restore) + Occurs(m, MessagesOf(deferred))
    BY <1>4 DEF all
  <1> QED BY <1>1, <1>2, <1>3, <1>6, <1>7

\* ... and after a step.
LEMMA TallyNext ==
    ASSUME TypeOK', NEW m \in Messages
    PROVE  /\ Places(m)' = Occurs(m, ch') + Occurs(m, pending') + Occurs(m, held') + Occurs(m, usageHeld')
                          + Occurs(m, steer') + Occurs(m, w'.batch) + Occurs(m, out'.requeue)
                          + Occurs(m, out'.restore) + Occurs(m, MessagesOf(deferred'))
                          + OutsideOf(m)' + InHand(m)'
           /\ Occurs(m, ch') \in Nat /\ Occurs(m, pending') \in Nat /\ Occurs(m, held') \in Nat
           /\ Occurs(m, usageHeld') \in Nat /\ Occurs(m, steer') \in Nat /\ Occurs(m, w'.batch) \in Nat
           /\ Occurs(m, out'.requeue) \in Nat /\ Occurs(m, out'.restore) \in Nat
           /\ Occurs(m, MessagesOf(deferred')) \in Nat /\ OutsideOf(m)' \in Nat /\ InHand(m)' \in Nat
           /\ Len(fate'[m]) \in Nat
  <1>1. /\ Occurs(m, ch') \in Nat /\ Occurs(m, pending') \in Nat /\ Occurs(m, held') \in Nat
        /\ Occurs(m, usageHeld') \in Nat /\ Occurs(m, steer') \in Nat /\ Occurs(m, w'.batch) \in Nat
        /\ Occurs(m, out'.requeue) \in Nat /\ Occurs(m, out'.restore) \in Nat
        /\ Occurs(m, MessagesOf(deferred')) \in Nat
    <2>1. \A s \in Seq(Messages) : Occurs(m, s) \in Nat
      BY OccursType
    <2> QED BY <2>1, TallyTypesNext
  <1>2. OutsideOf(m)' \in Nat /\ InHand(m)' \in Nat
    BY DEF OutsideOf, InHand, Is, In
  <1>3. Len(fate'[m]) \in Nat
    BY TallyTypesNext DEF FateType
  <1>4. Occurs(m, ch' \o pending' \o held' \o usageHeld' \o steer' \o w'.batch \o out'.requeue
                  \o out'.restore \o MessagesOf(deferred'))
          = Occurs(m, ch') + Occurs(m, pending') + Occurs(m, held') + Occurs(m, usageHeld')
            + Occurs(m, steer') + Occurs(m, w'.batch) + Occurs(m, out'.requeue)
            + Occurs(m, out'.restore) + Occurs(m, MessagesOf(deferred'))
    <2>1. /\ ch' \in Seq(Messages) /\ pending' \in Seq(Messages) /\ held' \in Seq(Messages)
          /\ usageHeld' \in Seq(Messages) /\ steer' \in Seq(Messages) /\ w'.batch \in Seq(Messages)
          /\ out'.requeue \in Seq(Messages) /\ out'.restore \in Seq(Messages)
          /\ MessagesOf(deferred') \in Seq(Messages)
      BY TallyTypesNext
    <2> DEFINE s1 == ch' \o pending' \o held'
               s2 == s1 \o usageHeld' \o steer'
               s3 == s2 \o w'.batch \o out'.requeue
               s4 == s3 \o out'.restore \o MessagesOf(deferred')
    <2>2. s1 \in Seq(Messages) /\ Occurs(m, s1) = Occurs(m, ch') + Occurs(m, pending') + Occurs(m, held')
      BY <2>1, OccursConcat3
    <2> HIDE DEF s1
    <2>3. s2 \in Seq(Messages) /\ Occurs(m, s2) = Occurs(m, s1) + Occurs(m, usageHeld') + Occurs(m, steer')
      BY <2>1, <2>2, OccursConcat3
    <2> HIDE DEF s2
    <2>4. s3 \in Seq(Messages) /\ Occurs(m, s3) = Occurs(m, s2) + Occurs(m, w'.batch) + Occurs(m, out'.requeue)
      BY <2>1, <2>3, OccursConcat3
    <2> HIDE DEF s3
    <2>5. Occurs(m, s4) = Occurs(m, s3) + Occurs(m, out'.restore) + Occurs(m, MessagesOf(deferred'))
      BY <2>1, <2>4, OccursConcat3
    <2> HIDE DEF s4
    <2>6. Occurs(m, s4) = Occurs(m, ch') + Occurs(m, pending') + Occurs(m, held') + Occurs(m, usageHeld')
            + Occurs(m, steer') + Occurs(m, w'.batch) + Occurs(m, out'.requeue)
            + Occurs(m, out'.restore) + Occurs(m, MessagesOf(deferred'))
      BY <2>2, <2>3, <2>4, <2>5
    <2> QED BY <2>6 DEF s1, s2, s3, s4
  <1> DEFINE all == Occurs(m, ch' \o pending' \o held' \o usageHeld' \o steer' \o w'.batch \o out'.requeue
                  \o out'.restore \o MessagesOf(deferred'))
  <1>5. all \in Nat
    BY <1>1, <1>4
  <1>6. Places(m)' = all + OutsideOf(m)' + InHand(m)'
    BY <1>5 DEF Places, One, OutsideOf, InHand, Is, In
  <1> HIDE DEF all
  <1>7. all = Occurs(m, ch') + Occurs(m, pending') + Occurs(m, held') + Occurs(m, usageHeld')
            + Occurs(m, steer') + Occurs(m, w'.batch) + Occurs(m, out'.requeue)
            + Occurs(m, out'.restore) + Occurs(m, MessagesOf(deferred'))
    BY <1>4 DEF all
  <1> QED BY <1>1, <1>2, <1>3, <1>6, <1>7

\* A message that ends has one outcome more.
LEMMA EndedLen ==
    ASSUME TypeOK, NEW m \in Messages, NEW S, NEW o
    PROVE  /\ Len(fate[m]) \in Nat
           /\ Len(Ended(S, o)[m]) = Len(fate[m]) + In(m, S)
  <1>1. fate[m] \in Seq(Outcomes)
    BY DEF TypeOK
  <1>2. Len(fate[m]) \in Nat /\ Len(Append(fate[m], o)) = Len(fate[m]) + 1
    BY <1>1
  <1>3. Ended(S, o)[m] = IF m \in S THEN Append(fate[m], o) ELSE fate[m]
    BY DEF Ended
  <1>4. CASE m \in S
    BY <1>2, <1>3, <1>4 DEF In
  <1>5. CASE m \notin S
    BY <1>2, <1>3, <1>5 DEF In
  <1> QED BY <1>4, <1>5

\* A list in which m occurs at most once.
LEMMA OccursOnce ==
    ASSUME NEW s \in Seq(Messages), NEW m, Occurs(m, s) <= 1
    PROVE  Occurs(m, s) = In(m, ToSet(s))
  BY OccursType DEF In

\* The tally of one message, place by place.
Tallied(m, c, p, h, u, s, b, q, r, d, o, k, f) ==
    /\ c = Occurs(m, ch) /\ p = Occurs(m, pending) /\ h = Occurs(m, held)
    /\ u = Occurs(m, usageHeld) /\ s = Occurs(m, steer) /\ b = Occurs(m, w.batch)
    /\ q = Occurs(m, out.requeue) /\ r = Occurs(m, out.restore)
    /\ d = Occurs(m, MessagesOf(deferred)) /\ o = OutsideOf(m) /\ k = InHand(m)
    /\ f = Len(fate[m])
    /\ Places(m) = c + p + h + u + s + b + q + r + d + o + k

TalliedNext(m, c, p, h, u, s, b, q, r, d, o, k, f) ==
    /\ c = Occurs(m, ch') /\ p = Occurs(m, pending') /\ h = Occurs(m, held')
    /\ u = Occurs(m, usageHeld') /\ s = Occurs(m, steer') /\ b = Occurs(m, w'.batch)
    /\ q = Occurs(m, out'.requeue) /\ r = Occurs(m, out'.restore)
    /\ d = Occurs(m, MessagesOf(deferred')) /\ o = OutsideOf(m)' /\ k = InHand(m)'
    /\ f = Len(fate'[m])
    /\ Places(m)' = c + p + h + u + s + b + q + r + d + o + k

\* Names for the summands of Places ...
LEMMA TallyNow ==
    ASSUME TypeOK, NEW m \in Messages
    PROVE  \E c, p, h, u, s, b, q, r, d, o, k, f \in Nat :
              Tallied(m, c, p, h, u, s, b, q, r, d, o, k, f)
  <1>1. Tallied(m, Occurs(m, ch), Occurs(m, pending), Occurs(m, held), Occurs(m, usageHeld),
                Occurs(m, steer), Occurs(m, w.batch), Occurs(m, out.requeue), Occurs(m, out.restore),
                Occurs(m, MessagesOf(deferred)), OutsideOf(m), InHand(m), Len(fate[m]))
    BY Tally DEF Tallied
  <1>2. /\ Occurs(m, ch) \in Nat /\ Occurs(m, pending) \in Nat /\ Occurs(m, held) \in Nat
        /\ Occurs(m, usageHeld) \in Nat /\ Occurs(m, steer) \in Nat /\ Occurs(m, w.batch) \in Nat
        /\ Occurs(m, out.requeue) \in Nat /\ Occurs(m, out.restore) \in Nat
        /\ Occurs(m, MessagesOf(deferred)) \in Nat /\ OutsideOf(m) \in Nat /\ InHand(m) \in Nat
        /\ Len(fate[m]) \in Nat
    BY Tally
  <1> QED BY <1>1, <1>2

\* ... and after a step.
LEMMA TallyThen ==
    ASSUME TypeOK', NEW m \in Messages
    PROVE  \E c, p, h, u, s, b, q, r, d, o, k, f \in Nat :
              TalliedNext(m, c, p, h, u, s, b, q, r, d, o, k, f)
  <1>2. /\ Occurs(m, ch') \in Nat /\ Occurs(m, pending') \in Nat /\ Occurs(m, held') \in Nat
        /\ Occurs(m, usageHeld') \in Nat /\ Occurs(m, steer') \in Nat /\ Occurs(m, w'.batch) \in Nat
        /\ Occurs(m, out'.requeue) \in Nat /\ Occurs(m, out'.restore) \in Nat
        /\ Occurs(m, MessagesOf(deferred')) \in Nat /\ OutsideOf(m)' \in Nat /\ InHand(m)' \in Nat
        /\ Len(fate'[m]) \in Nat
    BY TallyNext
  <1>3. Places(m)' = Occurs(m, ch') + Occurs(m, pending') + Occurs(m, held') + Occurs(m, usageHeld')
                     + Occurs(m, steer') + Occurs(m, w'.batch) + Occurs(m, out'.requeue)
                     + Occurs(m, out'.restore) + Occurs(m, MessagesOf(deferred'))
                     + OutsideOf(m)' + InHand(m)'
    BY TallyNext
  <1>1. TalliedNext(m, Occurs(m, ch'), Occurs(m, pending'), Occurs(m, held'), Occurs(m, usageHeld'),
                    Occurs(m, steer'), Occurs(m, w'.batch), Occurs(m, out'.requeue),
                    Occurs(m, out'.restore), Occurs(m, MessagesOf(deferred')), OutsideOf(m)',
                    InHand(m)', Len(fate'[m]))
    BY <1>3 DEF TalliedNext
  <1> QED BY <1>1, <1>2

\* A step conserves a message when the summands balance.
LEMMA Balanced ==
    ASSUME NEW m,
           NEW c \in Nat, NEW p \in Nat, NEW h \in Nat, NEW u \in Nat, NEW s \in Nat, NEW b \in Nat,
           NEW q \in Nat, NEW r \in Nat, NEW d \in Nat, NEW o \in Nat, NEW k \in Nat, NEW f \in Nat,
           NEW c1 \in Nat, NEW p1 \in Nat, NEW h1 \in Nat, NEW u1 \in Nat, NEW s1 \in Nat, NEW b1 \in Nat,
           NEW q1 \in Nat, NEW r1 \in Nat, NEW d1 \in Nat, NEW o1 \in Nat, NEW k1 \in Nat, NEW f1 \in Nat,
           Tallied(m, c, p, h, u, s, b, q, r, d, o, k, f),
           TalliedNext(m, c1, p1, h1, u1, s1, b1, q1, r1, d1, o1, k1, f1),
           f1 >= f,
           c1 + p1 + h1 + u1 + s1 + b1 + q1 + r1 + d1 + o1 + k1 + f1
             = c + p + h + u + s + b + q + r + d + o + k + f
    PROVE  Conserved(m)
  <1>1. /\ Places(m) = c + p + h + u + s + b + q + r + d + o + k /\ f = Len(fate[m])
        /\ Places(m)' = c1 + p1 + h1 + u1 + s1 + b1 + q1 + r1 + d1 + o1 + k1 /\ f1 = Len(fate'[m])
    BY DEF Tallied, TalliedNext
  <1> QED BY <1>1 DEF Conserved

\* A step that moves nothing.
LEMMA SameTally ==
    ASSUME TypeOK, TypeOK', NEW m \in Messages,
           UNCHANGED <<ch, pending, held, usageHeld, steer, deferred, fate>>,
           out'.requeue = out.requeue, out'.restore = out.restore, OutsideOf(m)' = OutsideOf(m),
           w'.batch = w.batch, InHand(m)' = InHand(m)
    PROVE  Conserved(m)
  <1>1. Places(m)' = Places(m)
    BY Tally, TallyNext
  <1>2. Len(fate[m]) \in Nat /\ fate' = fate
    BY Tally
  <1> QED BY <1>1, <1>2 DEF Conserved

\* A step of the worker that moves nothing but may change its hand.
LEMMA SameTallyWorker ==
    ASSUME TypeOK, TypeOK', NEW m \in Messages,
           UNCHANGED <<ch, pending, held, usageHeld, steer, deferred, out, fate>>,
           w'.batch = w.batch, InHand(m)' = InHand(m)
    PROVE  Conserved(m)
  <1>1. out'.requeue = out.requeue /\ out'.restore = out.restore /\ OutsideOf(m)' = OutsideOf(m)
    BY DEF OutsideOf
  <1> QED BY <1>1, SameTally

\* The steps that move nothing.
LEMMA StillConserved ==
    ASSUME TypeOK, TypeOK', Control, NEW m \in Messages,
           \/ LoopTop \/ ReleaseHeldKeep \/ ReleaseHeldRun \/ ReleaseHeldDone \/ DispatchUserInput
           \/ DispatchNow \/ InjectReturns \/ PassGate \/ AcquireTurnSlots \/ TakeSlot
           \/ RecheckGates \/ TurnReturns \/ BatchReturns \/ PrimaryWritten \/ Grant \/ CancelSession
    PROVE  Conserved(m)
  <1>0. w \in Worker /\ w.walk \in Nat /\ m # Nothing
    BY InboxAssumption DEF TypeOK, Worker
  <1>1. CASE LoopTop
    <2>1. w'.batch = w.batch
      BY <1>0, <1>1 DEF LoopTop, Worker
    <2>2. InHand(m)' = InHand(m)
      BY <1>0, <1>1 DEF LoopTop, InHand, Worker, Control, CurPlaced, WalkPlaced, AtGate, Is
    <2> QED BY <1>1, <2>1, <2>2, SameTallyWorker DEF LoopTop
  <1>2. CASE ReleaseHeldKeep
    <2>1. w'.batch = w.batch
      BY <1>0, <1>2 DEF ReleaseHeldKeep, Worker
    <2>2. InHand(m)' = InHand(m)
      BY <1>0, <1>2 DEF ReleaseHeldKeep, InHand, Worker, Control, CurPlaced, WalkPlaced, AtGate, Is
    <2> QED BY <1>2, <2>1, <2>2, SameTallyWorker DEF ReleaseHeldKeep
  <1>3. CASE ReleaseHeldRun
    <2>1. w'.batch = w.batch
      BY <1>0, <1>3 DEF ReleaseHeldRun, Worker
    <2>2. InHand(m)' = InHand(m)
      BY <1>0, <1>3 DEF ReleaseHeldRun, InHand, Worker, Control, CurPlaced, WalkPlaced, AtGate, Is
    <2> QED BY <1>3, <2>1, <2>2, SameTallyWorker DEF ReleaseHeldRun
  <1>4. CASE ReleaseHeldDone
    <2>1. w'.batch = w.batch
      BY <1>0, <1>4 DEF ReleaseHeldDone, Worker
    <2>2. InHand(m)' = InHand(m)
      BY <1>0, <1>4 DEF ReleaseHeldDone, InHand, Worker, Control, CurPlaced, WalkPlaced, AtGate, Is
    <2> QED BY <1>4, <2>1, <2>2, SameTallyWorker DEF ReleaseHeldDone
  <1>5. CASE DispatchUserInput
    <2>1. w'.batch = w.batch
      BY <1>0, <1>5 DEF DispatchUserInput, Worker
    <2>2. InHand(m)' = InHand(m)
      BY <1>0, <1>5 DEF DispatchUserInput, InHand, Worker, Control, CurPlaced, WalkPlaced, AtGate,
         Is
    <2> QED BY <1>5, <2>1, <2>2, SameTallyWorker DEF DispatchUserInput
  <1>6. CASE DispatchNow
    <2>1. w'.batch = w.batch
      BY <1>0, <1>6 DEF DispatchNow, Worker
    <2>2. InHand(m)' = InHand(m)
      BY <1>0, <1>6 DEF DispatchNow, InHand, Worker, Control, CurPlaced, WalkPlaced, AtGate, Is
    <2> QED BY <1>6, <2>1, <2>2, SameTallyWorker DEF DispatchNow
  <1>7. CASE InjectReturns
    <2>1. w'.batch = w.batch
      BY <1>0, <1>7 DEF InjectReturns, Worker, Done, Back
    <2>2. InHand(m)' = InHand(m)
      BY <1>0, <1>7 DEF InjectReturns, InHand, Worker, Control, CurPlaced, WalkPlaced, AtGate, Is,
         Done, Back
    <2> QED BY <1>7, <2>1, <2>2, SameTallyWorker DEF InjectReturns
  <1>8. CASE AcquireTurnSlots
    <2>1. w'.batch = w.batch
      BY <1>0, <1>8 DEF AcquireTurnSlots, Worker
    <2>2. InHand(m)' = InHand(m)
      BY <1>0, <1>8 DEF AcquireTurnSlots, InHand, Worker, Control, CurPlaced, WalkPlaced, AtGate, Is
    <2> QED BY <1>8, <2>1, <2>2, SameTallyWorker DEF AcquireTurnSlots
  <1>9. CASE TakeSlot
    <2>1. w'.batch = w.batch
      BY <1>0, <1>9 DEF TakeSlot, Worker, SlotTaken
    <2>2. InHand(m)' = InHand(m)
      BY <1>0, <1>9 DEF TakeSlot, InHand, Worker, Control, CurPlaced, WalkPlaced, AtGate, Is,
         SlotTaken
    <2> QED BY <1>9, <2>1, <2>2, SameTallyWorker DEF TakeSlot
  <1>10. CASE RecheckGates
    <2>1. w'.batch = w.batch
      BY <1>0, <1>10 DEF RecheckGates, Worker
    <2>2. InHand(m)' = InHand(m)
      BY <1>0, <1>10 DEF RecheckGates, InHand, Worker, Control, CurPlaced, WalkPlaced, AtGate, Is
    <2> QED BY <1>10, <2>1, <2>2, SameTallyWorker DEF RecheckGates
  <1>11. CASE TurnReturns
    <2>1. w'.batch = w.batch
      BY <1>0, <1>11 DEF TurnReturns, Worker
    <2>2. InHand(m)' = InHand(m)
      BY <1>0, <1>11 DEF TurnReturns, InHand, Worker, Control, CurPlaced, WalkPlaced, AtGate, Is
    <2> QED BY <1>11, <2>1, <2>2, SameTallyWorker DEF TurnReturns
  <1>12. CASE BatchReturns
    <2>1. w'.batch = w.batch
      BY <1>0, <1>12 DEF BatchReturns, Worker
    <2>2. InHand(m)' = InHand(m)
      BY <1>0, <1>12 DEF BatchReturns, InHand, Worker, Control, CurPlaced, WalkPlaced, AtGate, Is
    <2> QED BY <1>12, <2>1, <2>2, SameTallyWorker DEF BatchReturns
  <1>13. CASE PrimaryWritten
    <2>1. w'.batch = w.batch
      BY <1>0, <1>13 DEF PrimaryWritten, Worker
    <2>2. InHand(m)' = InHand(m)
      BY <1>0, <1>13 DEF PrimaryWritten, InHand, Worker, Control, CurPlaced, WalkPlaced, AtGate, Is
    <2> QED BY <1>13, <2>1, <2>2, SameTallyWorker DEF PrimaryWritten
  <1>14. CASE Grant
    <2>1. w'.batch = w.batch
      BY <1>0, <1>14 DEF Grant, Worker
    <2>2. InHand(m)' = InHand(m)
      BY <1>0, <1>14 DEF Grant, InHand, Worker, Control, CurPlaced, WalkPlaced, AtGate, Is
    <2> QED BY <1>14, <2>1, <2>2, SameTallyWorker DEF Grant
  <1>15. CASE CancelSession
    <2>1. w'.batch = w.batch
      BY <1>0, <1>15 DEF CancelSession, Worker
    <2>2. InHand(m)' = InHand(m)
      BY <1>0, <1>15 DEF CancelSession, InHand, Worker, Control, CurPlaced, WalkPlaced, AtGate, Is
    <2> QED BY <1>15, <2>1, <2>2, SameTallyWorker DEF CancelSession
  <1>16. CASE PassGate
    <2>1. PICK g \in 1..4 :
            /\ w.pc = Gates[g]
            /\ w' = [w EXCEPT !.pc = IF g < 4 THEN Gates[g + 1]
                                     ELSE IF w.cur = Nothing THEN "acquire" ELSE "run"]
      BY <1>16 DEF PassGate
    <2>2. w'.batch = w.batch /\ w'.cur = w.cur /\ w'.walk = w.walk
          /\ w'.pc = IF g < 4 THEN Gates[g + 1] ELSE IF w.cur = Nothing THEN "acquire" ELSE "run"
      BY <1>0, <2>1 DEF Worker
    <2>3. w.pc # "ready" /\ w'.pc # "ready"
      BY <2>1, <2>2 DEF Gates
    <2>4. InHand(m)' = InHand(m)
      BY <2>2, <2>3 DEF InHand
    <2> QED BY <1>16, <2>2, <2>4, SameTallyWorker DEF PassGate
  <1> QED BY <1>1, <1>2, <1>3, <1>4, <1>5, <1>6, <1>7, <1>8, <1>9, <1>10, <1>11, <1>12, <1>13,
             <1>14, <1>15, <1>16


\* parkUsageHeld parks a message or drops a second resume line.
LEMMA ParkMoves ==
    ASSUME TypeOK, NEW x \in Messages, NEW m \in Messages
    PROVE  \/ /\ Occurs(m, ParkUsageHeld(x)) = Occurs(m, usageHeld) + Is(x, m)
              /\ ParkFate(x) = fate
           \/ /\ ParkUsageHeld(x) = usageHeld
              /\ Len(ParkFate(x)[m]) = Len(fate[m]) + Is(x, m)
  <1>0. usageHeld \in Seq(Messages)
    BY TallyTypes
  <1>1. CASE x \in Lines /\ ToSet(usageHeld) \cap Lines # {}
    <2>1. ParkUsageHeld(x) = usageHeld /\ ParkFate(x) = Ended({x}, "dropped")
      BY <1>1 DEF ParkUsageHeld, ParkFate
    <2>2. Len(Ended({x}, "dropped")[m]) = Len(fate[m]) + In(m, {x})
      BY EndedLen
    <2>3. In(m, {x}) = Is(x, m)
      BY DEF In, Is
    <2> QED BY <2>1, <2>2, <2>3
  <1>2. CASE ~(x \in Lines /\ ToSet(usageHeld) \cap Lines # {})
    <2>1. ParkUsageHeld(x) \in {Append(usageHeld, x), <<x>> \o usageHeld} /\ ParkFate(x) = fate
      BY <1>2 DEF ParkUsageHeld, ParkFate
    <2>2. /\ Occurs(m, Append(usageHeld, x)) = Occurs(m, usageHeld) + Is(x, m)
          /\ Occurs(m, <<x>> \o usageHeld) = Occurs(m, usageHeld) + Is(x, m)
      BY <1>0, OccursAppend
    <2> QED BY <2>1, <2>2
  <1> QED BY <1>1, <1>2

\* One message ends.
LEMMA EndedOne ==
    ASSUME TypeOK, NEW m \in Messages, NEW x, NEW y
    PROVE  Len(Ended({x}, y)[m]) = Len(fate[m]) + Is(x, m)
  <1>1. Len(Ended({x}, y)[m]) = Len(fate[m]) + In(m, {x})
    BY EndedLen
  <1>2. In(m, {x}) = Is(x, m)
    BY DEF In, Is
  <1> QED BY <1>1, <1>2

LEMMA TakeUsageResumeConserved ==
    ASSUME TypeOK, TypeOK', Control, AtMostOnce, NEW m \in Messages, TakeUsageResume
    PROVE  Conserved(m)
  <1>0. w \in Worker /\ out \in Outside /\ out.fresh \subseteq Lines /\ m # Nothing /\ Lines \subseteq Messages
    BY InboxAssumption DEF TypeOK, Outside, Messages
  <1>1. w'.batch = w.batch /\ InHand(m)' = InHand(m)
    BY <1>0 DEF TakeUsageResume, Worker, InHand
  <1>2. CASE UNCHANGED <<out, stored, usageHeld, fate, wake>>
    BY <1>1, <1>2, SameTallyWorker DEF TakeUsageResume
  <1>3. CASE \E l \in out.fresh :
                /\ out' = [out EXCEPT !.fresh = @ \ {l}]
                /\ usageHeld' = ParkUsageHeld(l) /\ fate' = ParkFate(l)
    <2>1. PICK l \in out.fresh :
                /\ out' = [out EXCEPT !.fresh = @ \ {l}]
                /\ usageHeld' = ParkUsageHeld(l) /\ fate' = ParkFate(l)
      BY <1>3
    <2>2. /\ out'.requeue = out.requeue /\ out'.restore = out.restore /\ out'.unsent = out.unsent
          /\ out'.steering = out.steering /\ out'.fresh = out.fresh \ {l} /\ l \in Messages
      BY <1>0, <2>1 DEF Outside
    <2>i. PICK i \in Nat : i = Is(l, m)
      BY IsType
    <2>n1. PICK c, p, h, u, s, b, q, r, d, o, k, f \in Nat :
                Tallied(m, c, p, h, u, s, b, q, r, d, o, k, f)
      BY TallyNow
    <2>n2. PICK c1, p1, h1, u1, s1, b1, q1, r1, d1, o1, k1, f1 \in Nat :
                TalliedNext(m, c1, p1, h1, u1, s1, b1, q1, r1, d1, o1, k1, f1)
      BY TallyThen
    <2>n3. c1 = c /\ p1 = p /\ h1 = h /\ s1 = s /\ b1 = b /\ q1 = q /\ r1 = r /\ d1 = d /\ k1 = k
      BY <2>n1, <2>n2, <1>1, <2>2 DEF Tallied, TalliedNext, TakeUsageResume
    <2>3. OutsideOf(m) = OutsideOf(m)' + Is(l, m)
      BY <2>2 DEF OutsideOf, In, Is
    <2>4. o = o1 + i
      BY <2>3, <2>i, <2>n1, <2>n2 DEF Tallied, TalliedNext
    <2>5. (u1 = u + i /\ f1 = f) \/ (u1 = u /\ f1 = f + i)
      BY <2>i, <2>n1, <2>n2, <2>1, <2>2, ParkMoves DEF Tallied, TalliedNext
    <2>n4. c1 + p1 + h1 + u1 + s1 + b1 + q1 + r1 + d1 + o1 + k1 + f1
             = c + p + h + u + s + b + q + r + d + o + k + f /\ f1 >= f
      BY <2>n3, <2>3, <2>4, <2>5
    <2> QED BY <2>n1, <2>n2, <2>n4, Balanced
  <1> QED BY <1>2, <1>3 DEF TakeUsageResume

LEMMA ReleaseUsageHeldConserved ==
    ASSUME TypeOK, TypeOK', Control, AtMostOnce, NEW m \in Messages, ReleaseUsageHeld
    PROVE  Conserved(m)
  <1>0. w \in Worker /\ env \in Environment /\ m # Nothing /\ usageHeld \in Seq(Messages) /\ w.pc = "usage"
        /\ w.cur = Nothing /\ w.batch = <<>>
    BY InboxAssumption DEF TypeOK, ReleaseUsageHeld, Control, CurPlaced, BatchPlaced, AtGate
  <1>2. CASE usageHeld = <<>> \/ UsageHoldsUser
    <2>1. w'.batch = w.batch /\ InHand(m)' = InHand(m)
      BY <1>0, <1>2 DEF ReleaseUsageHeld, Worker, InHand, Is
    <2> QED BY <1>2, <2>1, SameTallyWorker DEF ReleaseUsageHeld
  <1>3. CASE ~(usageHeld = <<>> \/ UsageHoldsUser)
    <2>1. StartBatch(usageHeld, Nothing) /\ usageHeld' = <<>>
      BY <1>3 DEF ReleaseUsageHeld
    <2>2. w'.batch = usageHeld /\ w'.cur = Nothing
      BY <1>0, <2>1, StartBatchIs, WorkerValues
    <2>3. Occurs(m, <<>>) = 0
      BY OccursOne
    <2>n1. PICK c, p, h, u, s, b, q, r, d, o, k, f \in Nat :
                Tallied(m, c, p, h, u, s, b, q, r, d, o, k, f)
      BY TallyNow
    <2>n2. PICK c1, p1, h1, u1, s1, b1, q1, r1, d1, o1, k1, f1 \in Nat :
                TalliedNext(m, c1, p1, h1, u1, s1, b1, q1, r1, d1, o1, k1, f1)
      BY TallyThen
    <2>n3. c1 = c /\ p1 = p /\ h1 = h /\ s1 = s /\ q1 = q /\ r1 = r /\ d1 = d /\ o1 = o /\ f1 = f
      BY <2>n1, <2>n2 DEF Tallied, TalliedNext, OutsideOf, ReleaseUsageHeld
    <2>4. u1 = 0 /\ b1 = u /\ b = 0
      BY <1>0, <2>1, <2>2, <2>3, <2>n1, <2>n2 DEF Tallied, TalliedNext
    <2>5. k = 0 /\ k1 = 0
      BY <1>0, <2>2, <2>n1, <2>n2 DEF Tallied, TalliedNext, InHand, Is
    <2>n4. c1 + p1 + h1 + u1 + s1 + b1 + q1 + r1 + d1 + o1 + k1 + f1
             = c + p + h + u + s + b + q + r + d + o + k + f /\ f1 >= f
      BY <2>n3, <2>4, <2>5
    <2> QED BY <2>n1, <2>n2, <2>n4, Balanced
  <1> QED BY <1>2, <1>3

LEMMA ArmConserved ==
    ASSUME TypeOK, TypeOK', Control, AtMostOnce, NEW m \in Messages, Arm
    PROVE  Conserved(m)
  <1>0. w \in Worker /\ m # Nothing /\ pending \in Seq(Messages) /\ w.pc = "arm" /\ w.cur = Nothing
    BY InboxAssumption DEF TypeOK, Arm, Control, CurPlaced, AtGate
  <1>1. CASE w' = Leaving /\ UNCHANGED pending
    <2>1. w'.batch = w.batch /\ w'.cur = Nothing
      BY <1>0, <1>1, LeavingIs
    <2>2. InHand(m)' = InHand(m)
      BY <1>0, <2>1 DEF InHand, Is
    <2> QED BY <1>1, <2>1, <2>2, SameTallyWorker DEF Arm
  <1>2. CASE w' = [w EXCEPT !.pc = "select"] /\ UNCHANGED pending
    <2>1. w'.batch = w.batch /\ InHand(m)' = InHand(m)
      BY <1>0, <1>2 DEF Worker, InHand, Is
    <2> QED BY <1>2, <2>1, SameTallyWorker DEF Arm
  <1>3. CASE /\ pending # <<>> /\ w' = [w EXCEPT !.pc = "dequeued", !.cur = Head(pending)]
             /\ pending' = Tail(pending)
    <2>1. w'.batch = w.batch /\ w'.cur = Head(pending) /\ w'.pc = "dequeued"
      BY <1>0, <1>3 DEF Worker
    <2>2. Occurs(m, pending) = Occurs(m, Tail(pending)) + Is(Head(pending), m)
      BY <1>0, <1>3, OccursPop
    <2>i. PICK i \in Nat : i = Is(Head(pending), m)
      BY IsType
    <2>n1. PICK c, p, h, u, s, b, q, r, d, o, k, f \in Nat :
                Tallied(m, c, p, h, u, s, b, q, r, d, o, k, f)
      BY TallyNow
    <2>n2. PICK c1, p1, h1, u1, s1, b1, q1, r1, d1, o1, k1, f1 \in Nat :
                TalliedNext(m, c1, p1, h1, u1, s1, b1, q1, r1, d1, o1, k1, f1)
      BY TallyThen
    <2>n3. c1 = c /\ h1 = h /\ u1 = u /\ s1 = s /\ b1 = b /\ q1 = q /\ r1 = r /\ d1 = d /\ o1 = o /\ f1 = f
      BY <2>n1, <2>n2, <2>1 DEF Tallied, TalliedNext, OutsideOf, Arm
    <2>4. p = p1 + i
      BY <1>3, <2>i, <2>2, <2>n1, <2>n2 DEF Tallied, TalliedNext
    <2>5. k = 0 /\ k1 = i
      BY <1>0, <2>i, <2>1, <2>n1, <2>n2 DEF Tallied, TalliedNext, InHand, Is
    <2>n4. c1 + p1 + h1 + u1 + s1 + b1 + q1 + r1 + d1 + o1 + k1 + f1
             = c + p + h + u + s + b + q + r + d + o + k + f /\ f1 >= f
      BY <2>n3, <2>4, <2>5
    <2> QED BY <2>n1, <2>n2, <2>n4, Balanced
  <1> QED BY <1>1, <1>2, <1>3 DEF Arm

LEMMA SelectConserved ==
    ASSUME TypeOK, TypeOK', Control, AtMostOnce, NEW m \in Messages, Select
    PROVE  Conserved(m)
  <1>0. w \in Worker /\ m # Nothing /\ ch \in Seq(Messages) /\ w.pc = "select" /\ w.cur = Nothing
    BY InboxAssumption DEF TypeOK, Select, Control, CurPlaced, AtGate
  <1>1. CASE w' = Leaving /\ UNCHANGED ch
    <2>1. w'.batch = w.batch /\ w'.cur = Nothing
      BY <1>0, <1>1, LeavingIs
    <2>2. InHand(m)' = InHand(m)
      BY <1>0, <2>1 DEF InHand, Is
    <2> QED BY <1>1, <2>1, <2>2, SameTallyWorker DEF Select
  <1>2. CASE w' = [w EXCEPT !.pc = "top"] /\ UNCHANGED ch
    <2>1. w'.batch = w.batch /\ InHand(m)' = InHand(m)
      BY <1>0, <1>2 DEF Worker, InHand, Is
    <2> QED BY <1>2, <2>1, SameTallyWorker DEF Select
  <1>3. CASE /\ ch # <<>> /\ w' = [w EXCEPT !.pc = "dequeued", !.cur = Head(ch)]
             /\ ch' = Tail(ch)
    <2>1. w'.batch = w.batch /\ w'.cur = Head(ch) /\ w'.pc = "dequeued"
      BY <1>0, <1>3 DEF Worker
    <2>2. Occurs(m, ch) = Occurs(m, Tail(ch)) + Is(Head(ch), m)
      BY <1>0, <1>3, OccursPop
    <2>i. PICK i \in Nat : i = Is(Head(ch), m)
      BY IsType
    <2>n1. PICK c, p, h, u, s, b, q, r, d, o, k, f \in Nat :
                Tallied(m, c, p, h, u, s, b, q, r, d, o, k, f)
      BY TallyNow
    <2>n2. PICK c1, p1, h1, u1, s1, b1, q1, r1, d1, o1, k1, f1 \in Nat :
                TalliedNext(m, c1, p1, h1, u1, s1, b1, q1, r1, d1, o1, k1, f1)
      BY TallyThen
    <2>n3. p1 = p /\ h1 = h /\ u1 = u /\ s1 = s /\ b1 = b /\ q1 = q /\ r1 = r /\ d1 = d /\ o1 = o /\ f1 = f
      BY <2>n1, <2>n2, <2>1 DEF Tallied, TalliedNext, OutsideOf, Select
    <2>4. c = c1 + i
      BY <1>3, <2>i, <2>2, <2>n1, <2>n2 DEF Tallied, TalliedNext
    <2>5. k = 0 /\ k1 = i
      BY <1>0, <2>i, <2>1, <2>n1, <2>n2 DEF Tallied, TalliedNext, InHand, Is
    <2>n4. c1 + p1 + h1 + u1 + s1 + b1 + q1 + r1 + d1 + o1 + k1 + f1
             = c + p + h + u + s + b + q + r + d + o + k + f /\ f1 >= f
      BY <2>n3, <2>4, <2>5
    <2> QED BY <2>n1, <2>n2, <2>n4, Balanced
  <1> QED BY <1>1, <1>2, <1>3 DEF Select

LEMMA DequeuedConserved ==
    ASSUME TypeOK, TypeOK', Control, AtMostOnce, NEW m \in Messages, Dequeued
    PROVE  Conserved(m)
  <1>0. w \in Worker /\ m # Nothing /\ w.pc = "dequeued" /\ w.walk = 0
    BY SMTT(30), InboxAssumption DEF TypeOK, Worker, Dequeued, Control, WalkPlaced
  <1>1. CASE w' = [w EXCEPT !.pc = "relogin"] /\ UNCHANGED fate
    <2>1. w'.batch = w.batch /\ InHand(m)' = InHand(m)
      BY <1>0, <1>1 DEF Worker, InHand
    <2> QED BY <1>1, <2>1, SameTallyWorker DEF Dequeued
  <1>2. CASE w' = Done /\ fate' = Ended({w.cur}, "stopped")
    <2>1. w'.batch = w.batch /\ w'.cur = Nothing
      BY <1>0, <1>2, DoneIs
    <2>i. PICK i \in Nat : i = Is(w.cur, m)
      BY IsType
    <2>n1. PICK c, p, h, u, s, b, q, r, d, o, k, f \in Nat :
                Tallied(m, c, p, h, u, s, b, q, r, d, o, k, f)
      BY TallyNow
    <2>n2. PICK c1, p1, h1, u1, s1, b1, q1, r1, d1, o1, k1, f1 \in Nat :
                TalliedNext(m, c1, p1, h1, u1, s1, b1, q1, r1, d1, o1, k1, f1)
      BY TallyThen
    <2>n3. c1 = c /\ p1 = p /\ h1 = h /\ u1 = u /\ s1 = s /\ b1 = b /\ q1 = q /\ r1 = r /\ d1 = d /\ o1 = o
      BY <2>n1, <2>n2, <2>1 DEF Tallied, TalliedNext, OutsideOf, Dequeued
    <2>4. f1 = f + i
      BY <1>2, <2>i, <2>n1, <2>n2, EndedOne DEF Tallied, TalliedNext
    <2>5. k = i /\ k1 = 0
      BY <1>0, <2>i, <2>1, <2>n1, <2>n2 DEF Tallied, TalliedNext, InHand, Is
    <2>n4. c1 + p1 + h1 + u1 + s1 + b1 + q1 + r1 + d1 + o1 + k1 + f1
             = c + p + h + u + s + b + q + r + d + o + k + f /\ f1 >= f
      BY <2>n3, <2>4, <2>5
    <2> QED BY <2>n1, <2>n2, <2>n4, Balanced
  <1> QED BY <1>1, <1>2 DEF Dequeued

LEMMA HandleDequeuedConserved ==
    ASSUME TypeOK, TypeOK', Control, AtMostOnce, NEW m \in Messages, HandleDequeued
    PROVE  Conserved(m)
  <1>0. /\ w \in Worker /\ env \in Environment /\ m # Nothing /\ w.pc = "relogin" /\ w.walk = 0
        /\ w.cur \in Messages /\ w.batch = <<>>
    BY SMTT(30), InboxAssumption DEF TypeOK, Worker, HandleDequeued, Control, WalkPlaced, CurPlaced,
       BatchPlaced
  <1>1. CASE w' = [w EXCEPT !.pc = "dispatch"] /\ UNCHANGED <<usageHeld, fate>>
    <2>1. w'.batch = w.batch /\ InHand(m)' = InHand(m)
      BY <1>0, <1>1 DEF Worker, InHand
    <2> QED BY <1>1, <2>1, SameTallyWorker DEF HandleDequeued
  <1>2. CASE w' = Done /\ usageHeld' = ParkUsageHeld(w.cur) /\ fate' = ParkFate(w.cur)
    <2>1. w'.batch = w.batch /\ w'.cur = Nothing
      BY <1>0, <1>2, DoneIs
    <2>i. PICK i \in Nat : i = Is(w.cur, m)
      BY IsType
    <2>n1. PICK c, p, h, u, s, b, q, r, d, o, k, f \in Nat :
                Tallied(m, c, p, h, u, s, b, q, r, d, o, k, f)
      BY TallyNow
    <2>n2. PICK c1, p1, h1, u1, s1, b1, q1, r1, d1, o1, k1, f1 \in Nat :
                TalliedNext(m, c1, p1, h1, u1, s1, b1, q1, r1, d1, o1, k1, f1)
      BY TallyThen
    <2>n3. c1 = c /\ p1 = p /\ h1 = h /\ s1 = s /\ b1 = b /\ q1 = q /\ r1 = r /\ d1 = d /\ o1 = o
      BY <2>n1, <2>n2, <2>1 DEF Tallied, TalliedNext, OutsideOf, HandleDequeued
    <2>4. (u1 = u + i /\ f1 = f) \/ (u1 = u /\ f1 = f + i)
      BY <1>0, <1>2, <2>i, <2>n1, <2>n2, ParkMoves DEF Tallied, TalliedNext
    <2>5. k = i /\ k1 = 0
      BY <1>0, <2>i, <2>1, <2>n1, <2>n2 DEF Tallied, TalliedNext, InHand, Is
    <2>n4. c1 + p1 + h1 + u1 + s1 + b1 + q1 + r1 + d1 + o1 + k1 + f1
             = c + p + h + u + s + b + q + r + d + o + k + f /\ f1 >= f
      BY <2>n3, <2>4, <2>5
    <2> QED BY <2>n1, <2>n2, <2>n4, Balanced
  <1>3. CASE /\ w.cur \notin Injects
             /\ StartBatch(<<w.cur>>, IF Delegated /\ env.login THEN w.cur ELSE Nothing)
             /\ UNCHANGED <<usageHeld, fate>>
    <2>1. <<w.cur>> \in Seq(Messages)
      BY <1>0
    <2>2. (IF Delegated /\ env.login THEN w.cur ELSE Nothing) \in Users \cup Lines \cup {Nothing}
      BY <1>0, <1>3 DEF Messages
    <2>3. w'.batch = <<w.cur>> /\ w'.cur = Nothing
      BY <1>0, <1>3, <2>1, <2>2, StartBatchIs
    <2>6. Occurs(m, <<w.cur>>) = Is(w.cur, m) /\ Occurs(m, <<>>) = 0
      BY OccursOne
    <2>i. PICK i \in Nat : i = Is(w.cur, m)
      BY IsType
    <2>n1. PICK c, p, h, u, s, b, q, r, d, o, k, f \in Nat :
                Tallied(m, c, p, h, u, s, b, q, r, d, o, k, f)
      BY TallyNow
    <2>n2. PICK c1, p1, h1, u1, s1, b1, q1, r1, d1, o1, k1, f1 \in Nat :
                TalliedNext(m, c1, p1, h1, u1, s1, b1, q1, r1, d1, o1, k1, f1)
      BY TallyThen
    <2>n3. c1 = c /\ p1 = p /\ h1 = h /\ u1 = u /\ s1 = s /\ q1 = q /\ r1 = r /\ d1 = d /\ o1 = o /\ f1 = f
      BY <2>n1, <2>n2, <1>3 DEF Tallied, TalliedNext, OutsideOf, HandleDequeued
    <2>4. b = 0 /\ b1 = i
      BY <1>0, <2>3, <2>6, <2>i, <2>n1, <2>n2 DEF Tallied, TalliedNext
    <2>5. k = i /\ k1 = 0
      BY <1>0, <2>i, <2>3, <2>n1, <2>n2 DEF Tallied, TalliedNext, InHand, Is
    <2>n4. c1 + p1 + h1 + u1 + s1 + b1 + q1 + r1 + d1 + o1 + k1 + f1
             = c + p + h + u + s + b + q + r + d + o + k + f /\ f1 >= f
      BY <2>n3, <2>4, <2>5
    <2> QED BY <2>n1, <2>n2, <2>n4, Balanced
  <1> QED BY <1>1, <1>2, <1>3 DEF HandleDequeued

LEMMA GateEndedConserved ==
    ASSUME TypeOK, TypeOK', Control, AtMostOnce, NEW m \in Messages, GateEnded
    PROVE  Conserved(m)
  <1>0. w \in Worker /\ m # Nothing /\ w.walk \in Nat
    BY InboxAssumption DEF TypeOK, Worker
  <1>1. w'.batch = w.batch /\ w'.cur = Nothing
    BY <1>0, LeavingIs DEF GateEnded
  <1>2. CASE w.walk = 0 /\ w.cur # Nothing
    <2>i. PICK i \in Nat : i = Is(w.cur, m)
      BY IsType
    <2>n1. PICK c, p, h, u, s, b, q, r, d, o, k, f \in Nat :
                Tallied(m, c, p, h, u, s, b, q, r, d, o, k, f)
      BY TallyNow
    <2>n2. PICK c1, p1, h1, u1, s1, b1, q1, r1, d1, o1, k1, f1 \in Nat :
                TalliedNext(m, c1, p1, h1, u1, s1, b1, q1, r1, d1, o1, k1, f1)
      BY TallyThen
    <2>n3. c1 = c /\ p1 = p /\ h1 = h /\ u1 = u /\ s1 = s /\ b1 = b /\ q1 = q /\ r1 = r /\ d1 = d /\ o1 = o
      BY <2>n1, <2>n2, <1>1 DEF Tallied, TalliedNext, OutsideOf, GateEnded
    <2>4. f1 = f + i
      BY <1>2, <2>i, <2>n1, <2>n2, EndedOne DEF Tallied, TalliedNext, GateEnded, RefuseCur
    <2>5. k = i /\ k1 = 0
      BY <1>0, <1>1, <1>2, <2>i, <2>n1, <2>n2 DEF Tallied, TalliedNext, InHand, Is
    <2>n4. c1 + p1 + h1 + u1 + s1 + b1 + q1 + r1 + d1 + o1 + k1 + f1
             = c + p + h + u + s + b + q + r + d + o + k + f /\ f1 >= f
      BY <2>n3, <2>4, <2>5
    <2> QED BY <2>n1, <2>n2, <2>n4, Balanced
  <1>3. CASE ~(w.walk = 0 /\ w.cur # Nothing)
    <2>1. fate' = fate
      BY <1>3 DEF GateEnded
    <2>2. w.walk > 0 => w.pc = "ready"
      BY <1>0 DEF GateEnded, GateShut, Control, WalkPlaced
    <2>3. InHand(m)' = InHand(m)
      BY <1>0, <1>1, <1>3, <2>2 DEF InHand, Is
    <2> QED BY <1>1, <2>1, <2>3, SameTallyWorker DEF GateEnded
  <1> QED BY <1>2, <1>3

LEMMA DispatchParkConserved ==
    ASSUME TypeOK, TypeOK', Control, AtMostOnce, NEW m \in Messages, DispatchPark
    PROVE  Conserved(m)
  <1>0. w \in Worker /\ m # Nothing /\ w.pc = "dispatch" /\ w.walk = 0 /\ w.cur \in Injects /\ held \in Seq(Injects)
    BY SMTT(30), InboxAssumption DEF TypeOK, Worker, DispatchPark, Control, WalkPlaced, CurPlaced
  <1>1. w'.batch = w.batch /\ w'.cur = Nothing
    BY <1>0, DoneIs DEF DispatchPark
  <1>2. Occurs(m, Append(held, w.cur)) = Occurs(m, held) + Is(w.cur, m)
    BY <1>0, OccursAppend
  <1>i. PICK i \in Nat : i = Is(w.cur, m)
    BY IsType
  <1>n1. PICK c, p, h, u, s, b, q, r, d, o, k, f \in Nat :
              Tallied(m, c, p, h, u, s, b, q, r, d, o, k, f)
    BY TallyNow
  <1>n2. PICK c1, p1, h1, u1, s1, b1, q1, r1, d1, o1, k1, f1 \in Nat :
              TalliedNext(m, c1, p1, h1, u1, s1, b1, q1, r1, d1, o1, k1, f1)
    BY TallyThen
  <1>n3. c1 = c /\ p1 = p /\ u1 = u /\ s1 = s /\ b1 = b /\ q1 = q /\ r1 = r /\ d1 = d /\ o1 = o /\ f1 = f
    BY <1>n1, <1>n2, <1>1 DEF Tallied, TalliedNext, OutsideOf, DispatchPark
  <1>4. h1 = h + i
    BY <1>2, <1>i, <1>n1, <1>n2 DEF Tallied, TalliedNext, DispatchPark
  <1>5. k = i /\ k1 = 0
    BY <1>0, <1>1, <1>i, <1>n1, <1>n2 DEF Tallied, TalliedNext, InHand, Is
  <1>n4. c1 + p1 + h1 + u1 + s1 + b1 + q1 + r1 + d1 + o1 + k1 + f1
           = c + p + h + u + s + b + q + r + d + o + k + f /\ f1 >= f
    BY <1>n3, <1>4, <1>5
  <1> QED BY <1>n1, <1>n2, <1>n4, Balanced

LEMMA ReadyConserved ==
    ASSUME TypeOK, TypeOK', Control, AtMostOnce, NEW m \in Messages, Ready
    PROVE  Conserved(m)
  <1>0. w \in Worker /\ m # Nothing /\ w.pc = "ready" /\ w.walk \in Nat /\ held \in Seq(Injects)
    BY InboxAssumption DEF TypeOK, Worker, Ready
  <1>1. w'.batch = w.batch /\ w'.cur = w.cur /\ w'.pc = "run"
    BY <1>0 DEF Ready, Worker
  <1>2. CASE w.walk = 0
    <2>1. InHand(m)' = InHand(m)
      BY <1>0, <1>1, <1>2 DEF InHand
    <2>2. held' = held
      BY <1>2 DEF Ready
    <2> QED BY <1>1, <2>1, <2>2, SameTallyWorker DEF Ready
  <1>3. CASE w.walk # 0
    <2>1. w.walk \in 1..Len(held) /\ w.cur = held[w.walk] /\ held' = RemoveAt(held, w.walk)
      BY <1>0, <1>3 DEF Ready, Control, WalkPlaced
    <2>2. Occurs(m, RemoveAt(held, w.walk)) + Is(held[w.walk], m) = Occurs(m, held)
      BY <1>0, <2>1, OccursRemoveAt
    <2>i. PICK i \in Nat : i = Is(w.cur, m)
      BY IsType
    <2>n1. PICK c, p, h, u, s, b, q, r, d, o, k, f \in Nat :
                Tallied(m, c, p, h, u, s, b, q, r, d, o, k, f)
      BY TallyNow
    <2>n2. PICK c1, p1, h1, u1, s1, b1, q1, r1, d1, o1, k1, f1 \in Nat :
                TalliedNext(m, c1, p1, h1, u1, s1, b1, q1, r1, d1, o1, k1, f1)
      BY TallyThen
    <2>n3. c1 = c /\ p1 = p /\ u1 = u /\ s1 = s /\ b1 = b /\ q1 = q /\ r1 = r /\ d1 = d /\ o1 = o /\ f1 = f
      BY <2>n1, <2>n2, <1>1 DEF Tallied, TalliedNext, OutsideOf, Ready
    <2>4. h = h1 + i
      BY <2>1, <2>2, <2>i, <2>n1, <2>n2 DEF Tallied, TalliedNext
    <2>5. InHand(m) = 0
      BY <1>0, <1>3 DEF InHand
    <2>6. InHand(m)' = Is(w.cur, m)
      BY <1>1 DEF InHand
    <2>7. k = 0 /\ k1 = i
      BY <2>5, <2>6, <2>i, <2>n1, <2>n2 DEF Tallied, TalliedNext
    <2>n4. c1 + p1 + h1 + u1 + s1 + b1 + q1 + r1 + d1 + o1 + k1 + f1
             = c + p + h + u + s + b + q + r + d + o + k + f /\ f1 >= f
      BY <2>n3, <2>4, <2>5, <2>6, <2>7
    <2> QED BY <2>n1, <2>n2, <2>n4, Balanced
  <1> QED BY <1>2, <1>3

LEMMA RunInjectConserved ==
    ASSUME TypeOK, TypeOK', Control, AtMostOnce, NEW m \in Messages, RunInject
    PROVE  Conserved(m)
  <1>0. w \in Worker /\ m # Nothing /\ w.pc = "run"
    BY InboxAssumption DEF TypeOK, RunInject
  <1>1. CASE /\ w' = [w EXCEPT !.pc = "pausing"] \/ w' = [w EXCEPT !.pc = "deferring", !.ask = env.ask]
             /\ UNCHANGED fate
    <2>1. w'.batch = w.batch /\ InHand(m)' = InHand(m)
      BY <1>0, <1>1 DEF Worker, InHand
    <2> QED BY <1>1, <2>1, SameTallyWorker DEF RunInject
  <1>2. CASE /\ w' = Done \/ w' = [w EXCEPT !.pc = "inject", !.cur = Nothing]
             /\ \E y \in {"refused", "ran"} : fate' = Ended({w.cur}, y)
    <2>1. w'.batch = w.batch /\ w'.cur = Nothing
      <3>1. w' = Done => w'.batch = w.batch /\ w'.cur = Nothing
        BY <1>0, DoneIs
      <3>2. w' = [w EXCEPT !.pc = "inject", !.cur = Nothing] => w'.batch = w.batch /\ w'.cur = Nothing
        BY <1>0 DEF Worker
      <3> QED BY <1>2, <3>1, <3>2
    <2>i. PICK i \in Nat : i = Is(w.cur, m)
      BY IsType
    <2>n1. PICK c, p, h, u, s, b, q, r, d, o, k, f \in Nat :
                Tallied(m, c, p, h, u, s, b, q, r, d, o, k, f)
      BY TallyNow
    <2>n2. PICK c1, p1, h1, u1, s1, b1, q1, r1, d1, o1, k1, f1 \in Nat :
                TalliedNext(m, c1, p1, h1, u1, s1, b1, q1, r1, d1, o1, k1, f1)
      BY TallyThen
    <2>n3. c1 = c /\ p1 = p /\ h1 = h /\ u1 = u /\ s1 = s /\ b1 = b /\ q1 = q /\ r1 = r /\ d1 = d /\ o1 = o
      BY <2>n1, <2>n2, <2>1 DEF Tallied, TalliedNext, OutsideOf, RunInject
    <2>3. PICK y : fate' = Ended({w.cur}, y)
      BY <1>2
    <2>6. Len(fate'[m]) = Len(fate[m]) + Is(w.cur, m)
      BY <2>3, EndedOne
    <2>4. f1 = f + i
      BY <2>6, <2>i, <2>n1, <2>n2 DEF Tallied, TalliedNext
    <2>5. k = i /\ k1 = 0
      BY <1>0, <2>i, <2>1, <2>n1, <2>n2 DEF Tallied, TalliedNext, InHand, Is
    <2>n4. c1 + p1 + h1 + u1 + s1 + b1 + q1 + r1 + d1 + o1 + k1 + f1
             = c + p + h + u + s + b + q + r + d + o + k + f /\ f1 >= f
      BY <2>n3, <2>3, <2>6, <2>4, <2>5
    <2> QED BY <2>n1, <2>n2, <2>n4, Balanced
  <1> QED BY <1>1, <1>2 DEF RunInject

LEMMA RunPauseConserved ==
    ASSUME TypeOK, TypeOK', Control, AtMostOnce, NEW m \in Messages, RunPause
    PROVE  Conserved(m)
  <1>0. w \in Worker /\ m # Nothing /\ w.pc = "pausing" /\ w.cur \in Injects /\ deferred \in Seq(Deferral) /\ Login \in Asks \cup {Login}
    BY InboxAssumption DEF TypeOK, Worker, RunPause, Control, WalkPlaced, CurPlaced, Deferral
  <1>1. w'.batch = w.batch /\ w'.cur = Nothing
    BY <1>0 DEF RunPause, Worker
  <1>2. [msg |-> w.cur, by |-> Login] \in Deferral /\ [msg |-> w.cur, by |-> Login].msg = w.cur
    BY <1>0 DEF Deferral
  <1>3. Occurs(m, MessagesOf(Append(deferred, [msg |-> w.cur, by |-> Login]))) = Occurs(m, MessagesOf(deferred)) + Is(w.cur, m)
    BY <1>0, <1>2, OccursDeferred
  <1>i. PICK i \in Nat : i = Is(w.cur, m)
    BY IsType
  <1>n1. PICK c, p, h, u, s, b, q, r, d, o, k, f \in Nat :
              Tallied(m, c, p, h, u, s, b, q, r, d, o, k, f)
    BY TallyNow
  <1>n2. PICK c1, p1, h1, u1, s1, b1, q1, r1, d1, o1, k1, f1 \in Nat :
              TalliedNext(m, c1, p1, h1, u1, s1, b1, q1, r1, d1, o1, k1, f1)
    BY TallyThen
  <1>n3. c1 = c /\ p1 = p /\ h1 = h /\ u1 = u /\ s1 = s /\ b1 = b /\ q1 = q /\ r1 = r /\ o1 = o /\ f1 = f
    BY <1>n1, <1>n2, <1>1 DEF Tallied, TalliedNext, OutsideOf, RunPause
  <1>4. d1 = d + i
    BY <1>3, <1>i, <1>n1, <1>n2 DEF Tallied, TalliedNext, RunPause
  <1>5. k = i /\ k1 = 0
    BY <1>0, <1>1, <1>i, <1>n1, <1>n2 DEF Tallied, TalliedNext, InHand, Is
  <1>n4. c1 + p1 + h1 + u1 + s1 + b1 + q1 + r1 + d1 + o1 + k1 + f1
           = c + p + h + u + s + b + q + r + d + o + k + f /\ f1 >= f
    BY <1>n3, <1>4, <1>5
  <1> QED BY <1>n1, <1>n2, <1>n4, Balanced

LEMMA RunDeferConserved ==
    ASSUME TypeOK, TypeOK', Control, AtMostOnce, NEW m \in Messages, RunDefer
    PROVE  Conserved(m)
  <1>0. w \in Worker /\ m # Nothing /\ w.pc = "deferring" /\ w.cur \in Injects /\ deferred \in Seq(Deferral) /\ w.ask \in Asks \cup {Login}
    BY InboxAssumption DEF TypeOK, Worker, RunDefer, Control, WalkPlaced, CurPlaced, Deferral
  <1>1. w'.batch = w.batch /\ w'.cur = Nothing
    BY <1>0, DoneIs DEF RunDefer
  <1>2. [msg |-> w.cur, by |-> w.ask] \in Deferral /\ [msg |-> w.cur, by |-> w.ask].msg = w.cur
    BY <1>0 DEF Deferral
  <1>3. Occurs(m, MessagesOf(Append(deferred, [msg |-> w.cur, by |-> w.ask]))) = Occurs(m, MessagesOf(deferred)) + Is(w.cur, m)
    BY <1>0, <1>2, OccursDeferred
  <1>i. PICK i \in Nat : i = Is(w.cur, m)
    BY IsType
  <1>n1. PICK c, p, h, u, s, b, q, r, d, o, k, f \in Nat :
              Tallied(m, c, p, h, u, s, b, q, r, d, o, k, f)
    BY TallyNow
  <1>n2. PICK c1, p1, h1, u1, s1, b1, q1, r1, d1, o1, k1, f1 \in Nat :
              TalliedNext(m, c1, p1, h1, u1, s1, b1, q1, r1, d1, o1, k1, f1)
    BY TallyThen
  <1>n3. c1 = c /\ p1 = p /\ h1 = h /\ u1 = u /\ s1 = s /\ b1 = b /\ q1 = q /\ r1 = r /\ o1 = o /\ f1 = f
    BY <1>n1, <1>n2, <1>1 DEF Tallied, TalliedNext, OutsideOf, RunDefer
  <1>4. d1 = d + i
    BY <1>3, <1>i, <1>n1, <1>n2 DEF Tallied, TalliedNext, RunDefer
  <1>5. k = i /\ k1 = 0
    BY <1>0, <1>1, <1>i, <1>n1, <1>n2 DEF Tallied, TalliedNext, InHand, Is
  <1>n4. c1 + p1 + h1 + u1 + s1 + b1 + q1 + r1 + d1 + o1 + k1 + f1
           = c + p + h + u + s + b + q + r + d + o + k + f /\ f1 >= f
    BY <1>n3, <1>4, <1>5
  <1> QED BY <1>n1, <1>n2, <1>n4, Balanced

\* Splitting the deferred list.
LEMMA DeferredSplit ==
    ASSUME TypeOK, NEW m, NEW T, T \subseteq ToSet(deferred)
    PROVE  Occurs(m, MessagesOf(Kept(deferred, T))) + Occurs(m, MessagesOf(Kept(deferred, ToSet(deferred) \ T)))
             = Occurs(m, MessagesOf(deferred))
  <1>1. T \cap (ToSet(deferred) \ T) = {} /\ ToSet(deferred) \subseteq T \cup (ToSet(deferred) \ T)
    OBVIOUS
  <1>2. deferred \in Seq(Deferral)
    BY TallyTypes
  <1> QED BY <1>1, <1>2, OccursDeferred

\* What a drain takes goes to the requeue list.
LEMMA DrainMoves ==
    ASSUME TypeOK, NEW m, NEW by
    PROVE  Occurs(m, HeldBy(by)) + Occurs(m, MessagesOf(NotHeldBy(by))) = Occurs(m, MessagesOf(deferred))
  <1> DEFINE T == {d \in ToSet(deferred) : d.by = by}
  <1>1. {d \in ToSet(deferred) : d.by # by} = ToSet(deferred) \ T
    OBVIOUS
  <1>2. HeldBy(by) = MessagesOf(Kept(deferred, T)) /\ NotHeldBy(by) = Kept(deferred, ToSet(deferred) \ T)
    BY <1>1 DEF HeldBy, NotHeldBy
  <1> HIDE DEF T
  <1>3. T \subseteq ToSet(deferred)
    BY DEF T
  <1> QED BY <1>2, <1>3, DeferredSplit

\* The requeue list after a drain.
LEMMA RequeueGrows ==
    ASSUME TypeOK, NEW m, NEW l \in Seq(Injects)
    PROVE  Occurs(m, out.requeue \o l) = Occurs(m, out.requeue) + Occurs(m, l)
  BY OccursConcat DEF TypeOK, Outside

LEMMA RunPausedConserved ==
    ASSUME TypeOK, TypeOK', Control, AtMostOnce, NEW m \in Messages, RunPaused
    PROVE  Conserved(m)
  <1>0. /\ w \in Worker /\ m # Nothing /\ w.pc = "paused" /\ w.cur = Nothing /\ out \in Outside
        /\ deferred \in Seq(Deferral)
    BY InboxAssumption DEF TypeOK, RunPaused, Control, CurPlaced, AtGate, Deferral
  <1>1. w'.batch = w.batch /\ w'.cur = Nothing
    BY <1>0, DoneIs DEF RunPaused
  <1>2. InHand(m)' = InHand(m)
    BY <1>0, <1>1 DEF InHand, Is
  <1>3. CASE env.login
    BY <1>1, <1>2, <1>3, SameTallyWorker DEF RunPaused
  <1>4. CASE ~env.login
    <2>1. deferred' = NotHeldBy(Login) /\ out' = [out EXCEPT !.requeue = @ \o HeldBy(Login)]
      BY <1>4 DEF RunPaused
    <2>2. /\ out'.requeue = out.requeue \o HeldBy(Login) /\ out'.restore = out.restore
          /\ out'.unsent = out.unsent /\ out'.fresh = out.fresh /\ out'.steering = out.steering
      BY <1>0, <2>1 DEF Outside
    <2>3. HeldBy(Login) \in Seq(Injects)
      BY <1>0, DeferredTypes
    <2>4. /\ Occurs(m, out'.requeue) = Occurs(m, out.requeue) + Occurs(m, HeldBy(Login))
          /\ Occurs(m, HeldBy(Login)) + Occurs(m, MessagesOf(deferred')) = Occurs(m, MessagesOf(deferred))
          /\ Occurs(m, HeldBy(Login)) \in Nat
      BY <2>1, <2>2, <2>3, RequeueGrows, DrainMoves, OccursType
    <2>i. PICK i \in Nat : i = Occurs(m, HeldBy(Login))
      BY <2>4
    <2>n1. PICK c, p, h, u, s, b, q, r, d, o, k, f \in Nat :
                Tallied(m, c, p, h, u, s, b, q, r, d, o, k, f)
      BY TallyNow
    <2>n2. PICK c1, p1, h1, u1, s1, b1, q1, r1, d1, o1, k1, f1 \in Nat :
                TalliedNext(m, c1, p1, h1, u1, s1, b1, q1, r1, d1, o1, k1, f1)
      BY TallyThen
    <2>n3. c1 = c /\ p1 = p /\ h1 = h /\ u1 = u /\ s1 = s /\ b1 = b /\ r1 = r /\ o1 = o /\ k1 = k /\ f1 = f
      BY <2>n1, <2>n2, <1>1, <1>2, <2>2 DEF Tallied, TalliedNext, OutsideOf, RunPaused
    <2>5. q1 = q + i
      BY <2>i, <2>4, <2>n1, <2>n2 DEF Tallied, TalliedNext
    <2>6. i + d1 = d
      BY <2>i, <2>4, <2>n1, <2>n2 DEF Tallied, TalliedNext
    <2>n4. c1 + p1 + h1 + u1 + s1 + b1 + q1 + r1 + d1 + o1 + k1 + f1
             = c + p + h + u + s + b + q + r + d + o + k + f /\ f1 >= f
      BY <2>n3, <2>5, <2>6
    <2> QED BY <2>n1, <2>n2, <2>n4, Balanced
  <1> QED BY <1>3, <1>4

LEMMA DrainDeferredInjectsConserved ==
    ASSUME TypeOK, TypeOK', Control, AtMostOnce, NEW m \in Messages, NEW by, DrainDeferredInjects(by)
    PROVE  Conserved(m)
  <1>0. out \in Outside /\ deferred \in Seq(Deferral)
    BY DEF TypeOK, Deferral
  <1>2. /\ out'.requeue = out.requeue \o HeldBy(by) /\ out'.restore = out.restore
        /\ out'.unsent = out.unsent /\ out'.fresh = out.fresh /\ out'.steering = out.steering
    BY <1>0 DEF DrainDeferredInjects, Outside
  <1>3. HeldBy(by) \in Seq(Injects)
    BY <1>0, DeferredTypes
  <1>4. /\ Occurs(m, out'.requeue) = Occurs(m, out.requeue) + Occurs(m, HeldBy(by))
        /\ Occurs(m, HeldBy(by)) + Occurs(m, MessagesOf(deferred')) = Occurs(m, MessagesOf(deferred))
        /\ Occurs(m, HeldBy(by)) \in Nat
    BY <1>2, <1>3, RequeueGrows, DrainMoves, OccursType DEF DrainDeferredInjects
  <1>i. PICK i \in Nat : i = Occurs(m, HeldBy(by))
    BY <1>4
  <1>n1. PICK c, p, h, u, s, b, q, r, d, o, k, f \in Nat :
              Tallied(m, c, p, h, u, s, b, q, r, d, o, k, f)
    BY TallyNow
  <1>n2. PICK c1, p1, h1, u1, s1, b1, q1, r1, d1, o1, k1, f1 \in Nat :
              TalliedNext(m, c1, p1, h1, u1, s1, b1, q1, r1, d1, o1, k1, f1)
    BY TallyThen
  <1>n3. c1 = c /\ p1 = p /\ h1 = h /\ u1 = u /\ s1 = s /\ b1 = b /\ r1 = r /\ o1 = o /\ k1 = k /\ f1 = f
    BY <1>n1, <1>n2, <1>2 DEF Tallied, TalliedNext, OutsideOf, DrainDeferredInjects, InHand
  <1>7. q1 = q + i
    BY <1>i, <1>4, <1>n1, <1>n2 DEF Tallied, TalliedNext
  <1>8. i + d1 = d
    BY <1>i, <1>4, <1>n1, <1>n2 DEF Tallied, TalliedNext
  <1>n4. c1 + p1 + h1 + u1 + s1 + b1 + q1 + r1 + d1 + o1 + k1 + f1
           = c + p + h + u + s + b + q + r + d + o + k + f /\ f1 >= f
    BY <1>n3, <1>7, <1>8
  <1> QED BY <1>n1, <1>n2, <1>n4, Balanced

LEMMA ReleaseExpiredAskHoldsConserved ==
    ASSUME TypeOK, TypeOK', Control, AtMostOnce, NEW m \in Messages, NEW i0, ReleaseExpiredAskHolds(i0)
    PROVE  Conserved(m)
  <1> DEFINE X == {e \in ToSet(deferred) : e.by # Login /\ e.msg \in clock.askAged}
  <1>0. out \in Outside /\ deferred \in Seq(Deferral)
    BY DEF TypeOK, Deferral
  <1>1. /\ deferred' = Kept(deferred, ToSet(deferred) \ X)
        /\ out' = [out EXCEPT !.requeue = @ \o MessagesOf(Kept(deferred, X))]
    BY DEF ReleaseExpiredAskHolds
  <1>5. X \subseteq ToSet(deferred)
    OBVIOUS
  <1> HIDE DEF X
  <1>2. /\ out'.requeue = out.requeue \o MessagesOf(Kept(deferred, X)) /\ out'.restore = out.restore
        /\ out'.unsent = out.unsent /\ out'.fresh = out.fresh /\ out'.steering = out.steering
    BY <1>0, <1>1 DEF Outside
  <1>6. Kept(deferred, X) \in Seq(Deferral)
    BY <1>0, KeptSeq
  <1>3. MessagesOf(Kept(deferred, X)) \in Seq(Injects)
    BY <1>6, MessagesOfSeq
  <1>4. /\ Occurs(m, out'.requeue) = Occurs(m, out.requeue) + Occurs(m, MessagesOf(Kept(deferred, X)))
        /\ Occurs(m, MessagesOf(Kept(deferred, X))) + Occurs(m, MessagesOf(deferred')) = Occurs(m, MessagesOf(deferred))
        /\ Occurs(m, MessagesOf(Kept(deferred, X))) \in Nat
    BY <1>1, <1>2, <1>3, <1>5, RequeueGrows, DeferredSplit, OccursType
  <1>i. PICK i \in Nat : i = Occurs(m, MessagesOf(Kept(deferred, X)))
    BY <1>4
  <1>n1. PICK c, p, h, u, s, b, q, r, d, o, k, f \in Nat :
              Tallied(m, c, p, h, u, s, b, q, r, d, o, k, f)
    BY TallyNow
  <1>n2. PICK c1, p1, h1, u1, s1, b1, q1, r1, d1, o1, k1, f1 \in Nat :
              TalliedNext(m, c1, p1, h1, u1, s1, b1, q1, r1, d1, o1, k1, f1)
    BY TallyThen
  <1>n3. c1 = c /\ p1 = p /\ h1 = h /\ u1 = u /\ s1 = s /\ b1 = b /\ r1 = r /\ o1 = o /\ k1 = k /\ f1 = f
    BY <1>n1, <1>n2, <1>2 DEF Tallied, TalliedNext, OutsideOf, ReleaseExpiredAskHolds, InHand
  <1>7. q1 = q + i
    BY <1>i, <1>4, <1>n1, <1>n2 DEF Tallied, TalliedNext
  <1>8. i + d1 = d
    BY <1>i, <1>4, <1>n1, <1>n2 DEF Tallied, TalliedNext
  <1>n4. c1 + p1 + h1 + u1 + s1 + b1 + q1 + r1 + d1 + o1 + k1 + f1
           = c + p + h + u + s + b + q + r + d + o + k + f /\ f1 >= f
    BY <1>n3, <1>7, <1>8
  <1> QED BY <1>n1, <1>n2, <1>n4, Balanced

\* A slot wait that gives up stops its batch, or leaves it to Exit.
LEMMA AbortConserved ==
    ASSUME TypeOK, TypeOK', Control, AtMostOnce, NEW m \in Messages, Abort, w.pc \in {"slot", "claim"},
           UNCHANGED <<ch, pending, held, usageHeld, steer, deferred, out>>
    PROVE  Conserved(m)
  <1>0. w \in Worker /\ m # Nothing /\ w.cur = Nothing /\ w.batch \in Seq(Messages) /\ fate \in FateType
    BY InboxAssumption DEF TypeOK, Worker, Control, CurPlaced, AtGate, FateType
  <1>1. /\ w'.cur = (IF env.done THEN Nothing ELSE w.cur)
        /\ w'.batch = (IF env.done THEN w.batch ELSE <<>>)
        /\ fate' = (IF env.done THEN fate ELSE Ended(ToSet(w.batch), "stopped"))
    BY <1>0, AbortIs
  <1>2. InHand(m)' = InHand(m)
    BY <1>0, <1>1 DEF InHand, Is
  <1>3. CASE env.done
    BY <1>1, <1>2, <1>3, SameTallyWorker
  <1>4. CASE ~env.done
    <2>1. Occurs(m, <<>>) = 0 /\ Len(Ended(ToSet(w.batch), "stopped")[m]) = Len(fate[m]) + In(m, ToSet(w.batch))
      BY OccursOne, EndedLen
    <2>i. PICK i \in Nat : i = In(m, ToSet(w.batch))
      BY IsType
    <2>n1. PICK c, p, h, u, s, b, q, r, d, o, k, f \in Nat :
                Tallied(m, c, p, h, u, s, b, q, r, d, o, k, f)
      BY TallyNow
    <2>n2. PICK c1, p1, h1, u1, s1, b1, q1, r1, d1, o1, k1, f1 \in Nat :
                TalliedNext(m, c1, p1, h1, u1, s1, b1, q1, r1, d1, o1, k1, f1)
      BY TallyThen
    <2>n3. c1 = c /\ p1 = p /\ h1 = h /\ u1 = u /\ s1 = s /\ q1 = q /\ r1 = r /\ d1 = d /\ o1 = o /\ k1 = k
      BY <2>n1, <2>n2, <1>2 DEF Tallied, TalliedNext, OutsideOf
    <2>5. c + p + h + u + s + b + q + r + d + o + k <= 1
      BY <2>n1 DEF Tallied, AtMostOnce
    <2>6. b <= 1
      BY <2>5
    <2>7. b = i /\ b1 = 0
      BY <1>0, <1>1, <1>4, <2>1, <2>6, <2>i, <2>n1, <2>n2, OccursOnce DEF Tallied, TalliedNext
    <2>8. f1 = f + i
      BY <1>1, <1>4, <2>1, <2>i, <2>n1, <2>n2 DEF Tallied, TalliedNext
    <2>n4. c1 + p1 + h1 + u1 + s1 + b1 + q1 + r1 + d1 + o1 + k1 + f1
             = c + p + h + u + s + b + q + r + d + o + k + f /\ f1 >= f
      BY <2>n3, <2>5, <2>6, <2>7, <2>8
    <2> QED BY <2>n1, <2>n2, <2>n4, Balanced
  <1> QED BY <1>3, <1>4

LEMMA WaitTurnSlotConserved ==
    ASSUME TypeOK, TypeOK', Control, AtMostOnce, NEW m \in Messages, WaitTurnSlot
    PROVE  Conserved(m)
  <1>0. /\ w \in Worker /\ m # Nothing /\ w.cur = Nothing /\ w.batch \in Seq(Messages) /\ w.pc = "slot"
        /\ ch \in Seq(Messages) /\ w.slots < Limiters
    BY InboxAssumption DEF TypeOK, Worker, Control, CurPlaced, AtGate, WaitTurnSlot, SlotsPlaced,
       Waiting
  <1>1. CASE w' = SlotTaken /\ UNCHANGED <<ch, fate>>
    <2>1. w'.batch = w.batch /\ w'.cur = Nothing
      BY <1>0, <1>1, SlotTakenIs
    <2>2. InHand(m)' = InHand(m)
      BY <1>0, <2>1 DEF InHand, Is
    <2> QED BY <1>1, <2>1, <2>2, SameTallyWorker DEF WaitTurnSlot
  <1>2. CASE Abort /\ UNCHANGED ch
    BY <1>0, <1>2, AbortConserved DEF WaitTurnSlot
  <1>3. CASE ch # <<>> /\ w' = [w EXCEPT !.batch = Append(@, Head(ch))] /\ ch' = Tail(ch) /\ UNCHANGED fate
    <2>1. w'.batch = Append(w.batch, Head(ch)) /\ w'.cur = Nothing
      BY <1>0, <1>3 DEF Worker
    <2>2. Occurs(m, ch) = Occurs(m, Tail(ch)) + Is(Head(ch), m) /\ Head(ch) \in Messages
      BY <1>0, <1>3, OccursPop, HeadTailTypes
    <2>3. Occurs(m, Append(w.batch, Head(ch))) = Occurs(m, w.batch) + Is(Head(ch), m)
      BY <1>0, <2>2, OccursAppend
    <2>9. InHand(m)' = InHand(m)
      BY <1>0, <2>1 DEF InHand, Is
    <2>i. PICK i \in Nat : i = Is(Head(ch), m)
      BY IsType
    <2>n1. PICK c, p, h, u, s, b, q, r, d, o, k, f \in Nat :
                Tallied(m, c, p, h, u, s, b, q, r, d, o, k, f)
      BY TallyNow
    <2>n2. PICK c1, p1, h1, u1, s1, b1, q1, r1, d1, o1, k1, f1 \in Nat :
                TalliedNext(m, c1, p1, h1, u1, s1, b1, q1, r1, d1, o1, k1, f1)
      BY TallyThen
    <2>n3. p1 = p /\ h1 = h /\ u1 = u /\ s1 = s /\ q1 = q /\ r1 = r /\ d1 = d /\ o1 = o /\ k1 = k /\ f1 = f
      BY <2>n1, <2>n2, <1>3, <2>9 DEF Tallied, TalliedNext, OutsideOf, WaitTurnSlot
    <2>4. c = c1 + i
      BY <1>3, <2>i, <2>2, <2>n1, <2>n2 DEF Tallied, TalliedNext
    <2>5. b1 = b + i
      BY <2>1, <2>3, <2>i, <2>n1, <2>n2 DEF Tallied, TalliedNext
    <2>n4. c1 + p1 + h1 + u1 + s1 + b1 + q1 + r1 + d1 + o1 + k1 + f1
             = c + p + h + u + s + b + q + r + d + o + k + f /\ f1 >= f
      BY <2>n3, <2>4, <2>5
    <2> QED BY <2>n1, <2>n2, <2>n4, Balanced
  <1>4. CASE ch # <<>> /\ w' = [w EXCEPT !.pc = "dispatch", !.cur = Head(ch)] /\ ch' = Tail(ch) /\ UNCHANGED fate
    <2>1. w'.batch = w.batch /\ w'.cur = Head(ch) /\ w'.pc = "dispatch"
      BY <1>0, <1>4 DEF Worker
    <2>2. Occurs(m, ch) = Occurs(m, Tail(ch)) + Is(Head(ch), m)
      BY <1>0, <1>4, OccursPop
    <2>i. PICK i \in Nat : i = Is(Head(ch), m)
      BY IsType
    <2>n1. PICK c, p, h, u, s, b, q, r, d, o, k, f \in Nat :
                Tallied(m, c, p, h, u, s, b, q, r, d, o, k, f)
      BY TallyNow
    <2>n2. PICK c1, p1, h1, u1, s1, b1, q1, r1, d1, o1, k1, f1 \in Nat :
                TalliedNext(m, c1, p1, h1, u1, s1, b1, q1, r1, d1, o1, k1, f1)
      BY TallyThen
    <2>n3. p1 = p /\ h1 = h /\ u1 = u /\ s1 = s /\ b1 = b /\ q1 = q /\ r1 = r /\ d1 = d /\ o1 = o /\ f1 = f
      BY <2>n1, <2>n2, <1>4, <2>1 DEF Tallied, TalliedNext, OutsideOf, WaitTurnSlot
    <2>4. c = c1 + i
      BY <1>4, <2>i, <2>2, <2>n1, <2>n2 DEF Tallied, TalliedNext
    <2>5. k = 0 /\ k1 = i
      BY <1>0, <2>i, <2>1, <2>n1, <2>n2 DEF Tallied, TalliedNext, InHand, Is
    <2>n4. c1 + p1 + h1 + u1 + s1 + b1 + q1 + r1 + d1 + o1 + k1 + f1
             = c + p + h + u + s + b + q + r + d + o + k + f /\ f1 >= f
      BY <2>n3, <2>4, <2>5
    <2> QED BY <2>n1, <2>n2, <2>n4, Balanced
  <1>5. CASE w' = [w EXCEPT !.pc = "walk", !.walk = 1] /\ UNCHANGED <<ch, fate>>
    <2>1. w'.batch = w.batch /\ InHand(m)' = InHand(m)
      BY <1>0, <1>5 DEF Worker, InHand, Is
    <2> QED BY <1>5, <2>1, SameTallyWorker DEF WaitTurnSlot
  <1> QED BY <1>1, <1>2, <1>3, <1>4, <1>5 DEF WaitTurnSlot

LEMMA ClaimWaitCancelConserved ==
    ASSUME TypeOK, TypeOK', Control, AtMostOnce, NEW m \in Messages, ClaimWaitCancel
    PROVE  Conserved(m)
  <1>0. w \in Worker /\ w.pc = "claim"
    BY DEF TypeOK, ClaimWaitCancel
  <1>1. CASE Abort
    BY <1>0, <1>1, AbortConserved DEF ClaimWaitCancel
  <1>2. CASE w' = [w EXCEPT !.pc = "recheck", !.waitCancel = "none"] /\ UNCHANGED fate
    <2>1. w'.batch = w.batch /\ InHand(m)' = InHand(m)
      BY <1>0, <1>2 DEF Worker, InHand, Is
    <2> QED BY <1>2, <2>1, SameTallyWorker DEF ClaimWaitCancel
  <1> QED BY <1>1, <1>2 DEF ClaimWaitCancel

\* What takeQueuedUsers does to one message.
LEMMA QueuedMoves ==
    ASSUME TypeOK, NEW m \in Messages
    PROVE  /\ Queued \in Seq(Messages) /\ QueuedUsers \in Seq(Messages)
           /\ Occurs(m, Queued) = Occurs(m, pending) + Occurs(m, ch)
           /\ m \in ToSet(Queued) <=> Occurs(m, pending) + Occurs(m, ch) # 0
           /\ m \in Injects => Occurs(m, Kept(Queued, Injects)) = Occurs(m, pending) + Occurs(m, ch)
           /\ m \notin Injects => Occurs(m, Kept(Queued, Injects)) = 0
           /\ (m \in ToSet(QueuedUsers) \/ m \in QueuedStopped) <=> (m \in ToSet(Queued) /\ m \notin Injects)
           /\ m \in ToSet(QueuedUsers) => m \notin QueuedStopped
  <1>1. ch \in Seq(Messages) /\ pending \in Seq(Messages)
    BY TallyTypes
  <1>2. Queued \in Seq(Messages) /\ QueuedUsers \in Seq(Messages)
    BY <1>1, QueuedTypes
  <1>3. Occurs(m, Queued) = Occurs(m, pending) + Occurs(m, ch)
    BY <1>1, OccursConcat DEF Queued
  <1>4. m \in ToSet(Queued) <=> Occurs(m, pending) + Occurs(m, ch) # 0
    BY <1>2, <1>3, OccursType
  <1>5. Occurs(m, Kept(Queued, Injects)) = IF m \in Injects THEN Occurs(m, Queued) ELSE 0
    BY <1>2, OccursKept
  <1>6. ToSet(QueuedUsers) = ToSet(Queued) \cap {x \in Messages \ Injects : ~StoppedQueued(x)}
    BY <1>2, KeptSeq DEF QueuedUsers
  <1>7. (m \in ToSet(QueuedUsers) \/ m \in QueuedStopped) <=> (m \in ToSet(Queued) /\ m \notin Injects)
    BY <1>6 DEF QueuedStopped, IsUser
  <1>8. m \in ToSet(QueuedUsers) => m \notin QueuedStopped
    BY <1>6 DEF QueuedStopped
  <1> QED BY <1>2, <1>3, <1>4, <1>5, <1>7, <1>8

\* The lengths of the fates when a turn starts.
LEMMA FateGrows ==
    ASSUME TypeOK, NEW m \in Messages, NEW A, NEW B, NEW x, NEW y,
           fate'[m] = IF m \in A THEN Append(fate[m], x) ELSE IF m \in B THEN Append(fate[m], y) ELSE fate[m]
    PROVE  Len(fate'[m]) = Len(fate[m]) + In(m, A \cup B)
  <1>1. fate[m] \in Seq(Outcomes)
    BY DEF TypeOK
  <1>2. Len(fate[m]) \in Nat /\ \A v : Len(Append(fate[m], v)) = Len(fate[m]) + 1
    BY <1>1
  <1>3. CASE m \in A \cup B
    BY <1>2, <1>3 DEF In
  <1>4. CASE m \notin A \cup B
    BY <1>2, <1>4 DEF In
  <1> QED BY <1>3, <1>4

\* Every queued user message joins the turn or is stopped; injections stay queued.
LEMMA DriveBatchConserved ==
    ASSUME TypeOK, TypeOK', Control, AtMostOnce, NEW m \in Messages, DriveBatch
    PROVE  Conserved(m)
  <1>0. w \in Worker /\ m # Nothing /\ w.pc = "batch" /\ w.cur = Nothing /\ w.batch \in Seq(Messages)
    BY InboxAssumption DEF TypeOK, Worker, DriveBatch, Control, CurPlaced, AtGate
  <1>1. w'.batch = <<>> /\ InHand(m)' = InHand(m)
    BY <1>0 DEF DriveBatch, Worker, InHand, Is
  <1>2. Occurs(m, <<>>) = 0
    BY OccursOne
  <1>3. ToSet(w.batch \o QueuedUsers) = ToSet(w.batch) \cup ToSet(QueuedUsers)
    BY <1>0, QueuedMoves, ToSetConcat
  <1>4. Len(fate'[m]) = Len(fate[m]) + In(m, ToSet(w.batch \o QueuedUsers) \cup QueuedStopped)
    BY FateGrows DEF DriveBatch
  <1>5. m \in ToSet(w.batch) <=> Occurs(m, w.batch) # 0
    BY <1>0, OccursType
  <1>i. PICK i \in Nat : i = In(m, ToSet(w.batch \o QueuedUsers) \cup QueuedStopped) /\ i <= 1
    BY IsType
  <1>n1. PICK c, p, h, u, s, b, q, r, d, o, k, f \in Nat :
              Tallied(m, c, p, h, u, s, b, q, r, d, o, k, f)
    BY TallyNow
  <1>n2. PICK c1, p1, h1, u1, s1, b1, q1, r1, d1, o1, k1, f1 \in Nat :
              TalliedNext(m, c1, p1, h1, u1, s1, b1, q1, r1, d1, o1, k1, f1)
    BY TallyThen
  <1>n3. h1 = h /\ u1 = u /\ s1 = s /\ q1 = q /\ r1 = r /\ d1 = d /\ o1 = o /\ k1 = k
    BY <1>n1, <1>n2, <1>1 DEF Tallied, TalliedNext, OutsideOf, DriveBatch
  <1>6. c + p + h + u + s + b + q + r + d + o + k <= 1
    BY <1>n1 DEF Tallied, AtMostOnce
  <1>7. f1 = f + i /\ c1 = 0 /\ b1 = 0
    BY <1>1, <1>2, <1>4, <1>i, <1>n1, <1>n2 DEF Tallied, TalliedNext, DriveBatch
  <1>8. (m \in Injects => p1 = p + c) /\ (m \notin Injects => p1 = 0)
    BY QueuedMoves, <1>n1, <1>n2 DEF Tallied, TalliedNext, DriveBatch
  <1>9. m \in ToSet(w.batch \o QueuedUsers) \cup QueuedStopped <=> (m \in ToSet(w.batch) \/ (m \in ToSet(Queued) /\ m \notin Injects))
    BY <1>3, QueuedMoves
  <1>10. m \in ToSet(Queued) <=> p + c # 0
    BY QueuedMoves, <1>n1 DEF Tallied
  <1>11. m \in ToSet(w.batch) <=> b # 0
    BY <1>5, <1>n1 DEF Tallied
  <1>12. (i = 1 <=> m \in ToSet(w.batch \o QueuedUsers) \cup QueuedStopped) /\ (i = 1 \/ i = 0)
    BY <1>i, IsType
  <1>13. i = 1 <=> (b # 0 \/ (m \notin Injects /\ p + c # 0))
    BY <1>9, <1>10, <1>11, <1>12
  <1>n4. c1 + p1 + h1 + u1 + s1 + b1 + q1 + r1 + d1 + o1 + k1 + f1
           = c + p + h + u + s + b + q + r + d + o + k + f /\ f1 >= f
    <2>1. CASE m \in Injects
      <3>1. i = b /\ p1 = p + c /\ f1 = f + i /\ c1 = 0 /\ b1 = 0
        BY <2>1, <1>6, <1>7, <1>8, <1>12, <1>13
      <3> QED BY <3>1, <1>n3
    <2>2. CASE m \notin Injects
      <3>1. i = b + p + c /\ p1 = 0 /\ f1 = f + i /\ c1 = 0 /\ b1 = 0
        BY <2>2, <1>6, <1>7, <1>8, <1>12, <1>13
      <3> QED BY <3>1, <1>n3
    <2> QED BY <2>1, <2>2
  <1> QED BY <1>n1, <1>n2, <1>n4, Balanced

LEMMA DrainSteerTextsConserved ==
    ASSUME TypeOK, TypeOK', Control, AtMostOnce, NEW m \in Messages, DrainSteerTexts
    PROVE  Conserved(m)
  <1>1. steer \in Seq(Messages) /\ Occurs(m, <<>>) = 0
    BY TallyTypes, OccursOne
  <1>2. Len(fate'[m]) = Len(fate[m]) + In(m, ToSet(steer))
    BY EndedLen DEF DrainSteerTexts
  <1>i. PICK i \in Nat : i = In(m, ToSet(steer))
    BY IsType
  <1>n1. PICK c, p, h, u, s, b, q, r, d, o, k, f \in Nat :
              Tallied(m, c, p, h, u, s, b, q, r, d, o, k, f)
    BY TallyNow
  <1>n2. PICK c1, p1, h1, u1, s1, b1, q1, r1, d1, o1, k1, f1 \in Nat :
              TalliedNext(m, c1, p1, h1, u1, s1, b1, q1, r1, d1, o1, k1, f1)
    BY TallyThen
  <1>n3. c1 = c /\ p1 = p /\ h1 = h /\ u1 = u /\ b1 = b /\ q1 = q /\ r1 = r /\ d1 = d /\ o1 = o /\ k1 = k
    BY <1>n1, <1>n2 DEF Tallied, TalliedNext, OutsideOf, DrainSteerTexts, InHand
  <1>6. c + p + h + u + s + b + q + r + d + o + k <= 1
    BY <1>n1 DEF Tallied, AtMostOnce
  <1>9. s <= 1
    BY <1>6
  <1>7. s = i /\ s1 = 0
    BY <1>1, <1>9, <1>i, <1>n1, <1>n2, OccursOnce DEF Tallied, TalliedNext, DrainSteerTexts
  <1>8. f1 = f + i
    BY <1>2, <1>i, <1>n1, <1>n2 DEF Tallied, TalliedNext
  <1>n4. c1 + p1 + h1 + u1 + s1 + b1 + q1 + r1 + d1 + o1 + k1 + f1
           = c + p + h + u + s + b + q + r + d + o + k + f /\ f1 >= f
    BY <1>n3, <1>6, <1>9, <1>7, <1>8
  <1> QED BY <1>n1, <1>n2, <1>n4, Balanced

\* Steers and queued messages run as a follow-up, or are parked.
LEMMA FollowUpConserved ==
    ASSUME TypeOK, TypeOK', Control, AtMostOnce, NEW m \in Messages, FollowUp
    PROVE  Conserved(m)
  <1>0. /\ w \in Worker /\ m # Nothing /\ w.pc = "after" /\ w.cur = Nothing /\ steer \in Seq(Messages)
        /\ usageHeld \in Seq(Messages) /\ <<>> \in Seq(Messages)
    BY InboxAssumption, TallyTypes DEF TypeOK, FollowUp, Control, CurPlaced, AtGate
  <1>2. Occurs(m, <<>>) = 0 /\ steer' = <<>>
    BY OccursOne DEF FollowUp
  <1>5. m \in ToSet(steer) <=> Occurs(m, steer) # 0
    BY <1>0, OccursType
  <1>6. CASE /\ usageHeld' = usageHeld \o steer /\ w' = [w EXCEPT !.pc = "inactive"]
             /\ UNCHANGED <<ch, pending, fate>>
    <2>1. w'.batch = w.batch /\ InHand(m)' = InHand(m)
      BY <1>0, <1>6 DEF Worker, InHand, Is
    <2>2. Occurs(m, usageHeld \o steer) = Occurs(m, usageHeld) + Occurs(m, steer)
      BY <1>0, OccursConcat
    <2>n1. PICK c, p, h, u, s, b, q, r, d, o, k, f \in Nat :
                Tallied(m, c, p, h, u, s, b, q, r, d, o, k, f)
      BY TallyNow
    <2>n2. PICK c1, p1, h1, u1, s1, b1, q1, r1, d1, o1, k1, f1 \in Nat :
                TalliedNext(m, c1, p1, h1, u1, s1, b1, q1, r1, d1, o1, k1, f1)
      BY TallyThen
    <2>n3. c1 = c /\ p1 = p /\ h1 = h /\ b1 = b /\ q1 = q /\ r1 = r /\ d1 = d /\ o1 = o /\ k1 = k /\ f1 = f
      BY <2>n1, <2>n2, <1>6, <2>1 DEF Tallied, TalliedNext, OutsideOf, FollowUp
    <2>3. u1 = u + s /\ s1 = 0
      BY <1>2, <1>6, <2>2, <2>n1, <2>n2 DEF Tallied, TalliedNext
    <2>n4. c1 + p1 + h1 + u1 + s1 + b1 + q1 + r1 + d1 + o1 + k1 + f1
             = c + p + h + u + s + b + q + r + d + o + k + f /\ f1 >= f
      BY <2>n3, <2>3
    <2> QED BY <2>n1, <2>n2, <2>n4, Balanced
  <1>7. CASE ~UsageHoldsUser /\ PendingHeadIsInject
    <2>1. /\ ch' = <<>> /\ pending' = Queued /\ usageHeld' = usageHeld
          /\ w' = [w EXCEPT !.pc = IF steer \o <<>> = <<>> THEN "inactive" ELSE "drive"]
          /\ fate'[m] = IF m \in ToSet(steer \o <<>>) THEN Append(fate[m], "ran")
                        ELSE IF m \in {} THEN Append(fate[m], "stopped") ELSE fate[m]
      BY <1>7 DEF FollowUp
    <2>2. w'.batch = w.batch /\ InHand(m)' = InHand(m)
      BY <1>0, <2>1 DEF Worker, InHand, Is
    <2>3. ToSet(steer \o <<>>) \cup {} = ToSet(steer)
      BY <1>0
    <2>4. Len(fate'[m]) = Len(fate[m]) + In(m, ToSet(steer \o <<>>) \cup {})
      BY <2>1, FateGrows
    <2>i. PICK i \in Nat : i = In(m, ToSet(steer))
      BY IsType
    <2>n1. PICK c, p, h, u, s, b, q, r, d, o, k, f \in Nat :
                Tallied(m, c, p, h, u, s, b, q, r, d, o, k, f)
      BY TallyNow
    <2>n2. PICK c1, p1, h1, u1, s1, b1, q1, r1, d1, o1, k1, f1 \in Nat :
                TalliedNext(m, c1, p1, h1, u1, s1, b1, q1, r1, d1, o1, k1, f1)
      BY TallyThen
    <2>n3. h1 = h /\ u1 = u /\ b1 = b /\ q1 = q /\ r1 = r /\ d1 = d /\ o1 = o /\ k1 = k
      BY <2>n1, <2>n2, <2>1, <2>2 DEF Tallied, TalliedNext, OutsideOf, FollowUp
    <2>5. c + p + h + u + s + b + q + r + d + o + k <= 1
      BY <2>n1 DEF Tallied, AtMostOnce
    <2>6. s <= 1
      BY <2>5
    <2>7. s = i /\ s1 = 0 /\ c1 = 0
      BY <1>0, <1>2, <2>1, <2>6, <2>i, <2>n1, <2>n2, OccursOnce DEF Tallied, TalliedNext
    <2>8. f1 = f + i
      BY <2>3, <2>4, <2>i, <2>n1, <2>n2 DEF Tallied, TalliedNext
    <2>9. p1 = p + c
      BY <2>1, QueuedMoves, <2>n1, <2>n2 DEF Tallied, TalliedNext
    <2>n4. c1 + p1 + h1 + u1 + s1 + b1 + q1 + r1 + d1 + o1 + k1 + f1
             = c + p + h + u + s + b + q + r + d + o + k + f /\ f1 >= f
      BY <2>n3, <2>5, <2>6, <2>7, <2>8, <2>9
    <2> QED BY <2>n1, <2>n2, <2>n4, Balanced
  <1>8. CASE ~UsageHoldsUser /\ ~PendingHeadIsInject
    <2>1. /\ ch' = <<>> /\ pending' = Kept(Queued, Injects) /\ usageHeld' = usageHeld
          /\ w' = [w EXCEPT !.pc = IF steer \o QueuedUsers = <<>> THEN "inactive" ELSE "drive"]
          /\ fate'[m] = IF m \in ToSet(steer \o QueuedUsers) THEN Append(fate[m], "ran")
                        ELSE IF m \in QueuedStopped THEN Append(fate[m], "stopped") ELSE fate[m]
      BY <1>8 DEF FollowUp
    <2>2. w'.batch = w.batch /\ InHand(m)' = InHand(m)
      BY <1>0, <2>1 DEF Worker, InHand, Is
    <2>3. ToSet(steer \o QueuedUsers) = ToSet(steer) \cup ToSet(QueuedUsers)
      BY <1>0, QueuedMoves, ToSetConcat
    <2>4. Len(fate'[m]) = Len(fate[m]) + In(m, ToSet(steer \o QueuedUsers) \cup QueuedStopped)
      BY <2>1, FateGrows
    <2>i. PICK i \in Nat : i = In(m, ToSet(steer \o QueuedUsers) \cup QueuedStopped) /\ i <= 1
      BY IsType
    <2>n1. PICK c, p, h, u, s, b, q, r, d, o, k, f \in Nat :
                Tallied(m, c, p, h, u, s, b, q, r, d, o, k, f)
      BY TallyNow
    <2>n2. PICK c1, p1, h1, u1, s1, b1, q1, r1, d1, o1, k1, f1 \in Nat :
                TalliedNext(m, c1, p1, h1, u1, s1, b1, q1, r1, d1, o1, k1, f1)
      BY TallyThen
    <2>n3. h1 = h /\ u1 = u /\ b1 = b /\ q1 = q /\ r1 = r /\ d1 = d /\ o1 = o /\ k1 = k
      BY <2>n1, <2>n2, <2>1, <2>2 DEF Tallied, TalliedNext, OutsideOf, FollowUp
    <2>6. c + p + h + u + s + b + q + r + d + o + k <= 1
      BY <2>n1 DEF Tallied, AtMostOnce
    <2>7. f1 = f + i /\ c1 = 0 /\ s1 = 0
      BY <1>2, <2>1, <2>4, <2>i, <2>n1, <2>n2 DEF Tallied, TalliedNext
    <2>8. (m \in Injects => p1 = p + c) /\ (m \notin Injects => p1 = 0)
      BY <2>1, QueuedMoves, <2>n1, <2>n2 DEF Tallied, TalliedNext
    <2>9. m \in ToSet(steer \o QueuedUsers) \cup QueuedStopped <=> (m \in ToSet(steer) \/ (m \in ToSet(Queued) /\ m \notin Injects))
      BY <2>3, QueuedMoves
    <2>10. m \in ToSet(Queued) <=> p + c # 0
      BY QueuedMoves, <2>n1 DEF Tallied
    <2>11. m \in ToSet(steer) <=> s # 0
      BY <1>5, <2>n1 DEF Tallied
    <2>12. (i = 1 <=> m \in ToSet(steer \o QueuedUsers) \cup QueuedStopped) /\ (i = 1 \/ i = 0)
      BY <2>i, IsType
    <2>13. i = 1 <=> (s # 0 \/ (m \notin Injects /\ p + c # 0))
      BY <2>9, <2>10, <2>11, <2>12
    <2>n4. c1 + p1 + h1 + u1 + s1 + b1 + q1 + r1 + d1 + o1 + k1 + f1
             = c + p + h + u + s + b + q + r + d + o + k + f /\ f1 >= f
      <3>1. CASE m \in Injects
        <4>1. i = s /\ p1 = p + c /\ f1 = f + i /\ c1 = 0 /\ s1 = 0
          BY <3>1, <2>6, <2>7, <2>8, <2>12, <2>13
        <4> QED BY <4>1, <2>n3
      <3>2. CASE m \notin Injects
        <4>1. i = s + p + c /\ p1 = 0 /\ f1 = f + i /\ c1 = 0 /\ s1 = 0
          BY <3>2, <2>6, <2>7, <2>8, <2>12, <2>13
        <4> QED BY <4>1, <2>n3
      <3> QED BY <3>1, <3>2
    <2> QED BY <2>n1, <2>n2, <2>n4, Balanced
  <1> QED BY <1>6, <1>7, <1>8 DEF FollowUp

\* At the exit what is held or queued is refused or dropped, once.
LEMMA ExitConserved ==
    ASSUME TypeOK, TypeOK', Control, AtMostOnce, NEW m \in Messages, Exit
    PROVE  Conserved(m)
  <1>0. w \in Worker /\ m # Nothing /\ w.pc = "exit" /\ w.cur = Nothing /\ w.batch \in Seq(Messages) /\ held \in Seq(Messages) /\ pending \in Seq(Messages)
    BY InboxAssumption, TallyTypes DEF TypeOK, Worker, Exit, Control, CurPlaced, AtGate
  <1>1. w'.batch = <<>> /\ InHand(m)' = InHand(m) /\ held' = <<>> /\ pending' = <<>>
    BY <1>0 DEF Exit, Worker, InHand, Is
  <1>2. Occurs(m, <<>>) = 0
    BY OccursOne
  <1>3. ToSet(held \o pending) = ToSet(held) \cup ToSet(pending) /\ ToSet(pending \o w.batch) = ToSet(pending) \cup ToSet(w.batch)
    BY <1>0, ToSetConcat
  <1>4. Len(fate'[m]) = Len(fate[m]) + In(m, (ToSet(held \o pending) \cap Injects) \cup ToSet(pending \o w.batch))
    BY FateGrows DEF Exit
  <1>5. (m \in ToSet(w.batch) <=> Occurs(m, w.batch) # 0) /\ (m \in ToSet(held) <=> Occurs(m, held) # 0) /\ (m \in ToSet(pending) <=> Occurs(m, pending) # 0)
    BY <1>0, OccursType
  <1>51. ToSet(held) \subseteq Injects
    BY SMTT(30) DEF TypeOK, ToSet
  <1>i. PICK i \in Nat : i = In(m, (ToSet(held \o pending) \cap Injects) \cup ToSet(pending \o w.batch))
    BY IsType
  <1>n1. PICK c, p, h, u, s, b, q, r, d, o, k, f \in Nat :
              Tallied(m, c, p, h, u, s, b, q, r, d, o, k, f)
    BY TallyNow
  <1>n2. PICK c1, p1, h1, u1, s1, b1, q1, r1, d1, o1, k1, f1 \in Nat :
              TalliedNext(m, c1, p1, h1, u1, s1, b1, q1, r1, d1, o1, k1, f1)
    BY TallyThen
  <1>n3. c1 = c /\ u1 = u /\ s1 = s /\ q1 = q /\ r1 = r /\ d1 = d /\ o1 = o /\ k1 = k
    BY <1>n1, <1>n2, <1>1 DEF Tallied, TalliedNext, OutsideOf, Exit
  <1>6. c + p + h + u + s + b + q + r + d + o + k <= 1
    BY <1>n1 DEF Tallied, AtMostOnce
  <1>7. f1 = f + i /\ p1 = 0 /\ b1 = 0 /\ h1 = 0
    BY <1>1, <1>2, <1>4, <1>i, <1>n1, <1>n2 DEF Tallied, TalliedNext
  <1>8. (i = 1 <=> m \in (ToSet(held \o pending) \cap Injects) \cup ToSet(pending \o w.batch)) /\ (i = 1 \/ i = 0)
    BY <1>i, IsType
  <1>9. i = 1 <=> (m \in ToSet(held) \/ m \in ToSet(pending) \/ m \in ToSet(w.batch))
    BY <1>3, <1>51, <1>8
  <1>10. i = 1 <=> (h # 0 \/ p # 0 \/ b # 0)
    BY <1>5, <1>9, <1>n1 DEF Tallied
  <1>11. i = h + p + b
    BY <1>6, <1>8, <1>10
  <1>n4. c1 + p1 + h1 + u1 + s1 + b1 + q1 + r1 + d1 + o1 + k1 + f1
           = c + p + h + u + s + b + q + r + d + o + k + f /\ f1 >= f
    BY <1>n3, <1>6, <1>7, <1>8, <1>9, <1>10, <1>11
  <1> QED BY <1>n1, <1>n2, <1>n4, Balanced

\* Steps that only change what the worker is told.
LEMMA OutsideSame ==
    ASSUME out \in Outside
    PROVE  /\ \A v : LET x == [out EXCEPT !.due = v]
                     IN  /\ x.unsent = out.unsent /\ x.fresh = out.fresh /\ x.steering = out.steering
                         /\ x.requeue = out.requeue /\ x.restore = out.restore /\ x.restored = out.restored
           /\ /\ Spent.unsent = out.unsent /\ Spent.fresh = out.fresh /\ Spent.steering = out.steering
              /\ Spent.requeue = out.requeue /\ Spent.restore = out.restore /\ Spent.restored = out.restored
  BY DEF Outside, Spent

Told ==
    \/ WatchInjectGate \/ UsageLifts \/ ReloginStart \/ ReloginComplete \/ ReloginRelease
    \/ AskResolved \/ BeginShutdown \/ StopInbox
    \/ \E i \in Injects : HoldAges(i)
    \/ \E e \in {"silent", "compacting", "work", "adopted"} : Close(e) \/ Open(e)
    \/ \E e \in {"Hold", "Stop"} : UsageHoldStarts(e)
    \/ \E a \in Asks : AskShown(a)

\* They move no message.
LEMMA ToldSame ==
    ASSUME TypeOK, Told
    PROVE  /\ UNCHANGED <<ch, pending, held, usageHeld, steer, deferred, stored, w, fate>>
           /\ out'.unsent = out.unsent /\ out'.fresh = out.fresh /\ out'.steering = out.steering
           /\ out'.requeue = out.requeue /\ out'.restore = out.restore /\ out'.restored = out.restored
  <1>0. out \in Outside
    BY DEF TypeOK
  <1>1. UNCHANGED <<ch, pending, held, usageHeld, steer, deferred, stored, w, fate>>
    BY DEF Told, WatchInjectGate, UsageLifts, ReloginStart, ReloginComplete, ReloginRelease,
       AskResolved,
           BeginShutdown, StopInbox, HoldAges, Close, Open, UsageHoldStarts, AskShown
  <1>2. out' = out \/ out' = Spent \/ \E v : out' = [out EXCEPT !.due = v]
    BY DEF Told, WatchInjectGate, UsageLifts, ReloginStart, ReloginComplete, ReloginRelease,
       AskResolved,
           BeginShutdown, StopInbox, HoldAges, Close, Open, UsageHoldStarts, AskShown
  <1> QED BY ZenonT(30), <1>0, <1>1, <1>2, OutsideSame

LEMMA ToldConserved ==
    ASSUME TypeOK, TypeOK', NEW m \in Messages, Told
    PROVE  Conserved(m)
  <1>1. OutsideOf(m)' = OutsideOf(m) /\ InHand(m)' = InHand(m)
    BY ToldSame DEF OutsideOf, InHand
  <1> QED BY <1>1, ToldSame, SameTally

LEMMA SettleConserved ==
    ASSUME TypeOK, TypeOK', Control, NEW m \in Messages, Settle
    PROVE  Conserved(m)
  <1>0. w \in Worker /\ out \in Outside /\ m # Nothing /\ w.pc = "settle"
    BY InboxAssumption DEF TypeOK, Settle
  <1>1. w'.batch = w.batch /\ w'.cur = w.cur /\ w'.pc = "top"
    BY <1>0 DEF Settle, Worker
  <1>2. out' = out \/ \E v : out' = [out EXCEPT !.due = v]
    BY DEF Settle
  <1>3. /\ out'.unsent = out.unsent /\ out'.fresh = out.fresh /\ out'.steering = out.steering
        /\ out'.requeue = out.requeue /\ out'.restore = out.restore
    BY ZenonT(30), <1>0, <1>2, OutsideSame
  <1>4. OutsideOf(m)' = OutsideOf(m) /\ InHand(m)' = InHand(m)
    BY <1>0, <1>1, <1>3 DEF OutsideOf, InHand
  <1> QED BY <1>1, <1>3, <1>4, SameTally DEF Settle

-----------------------------------------------------------------------------
(* Arrivals: what Enqueue, requeueDeferred, RestoreUsageHeld and           *)
(* appendSteer do to one message.                                          *)

\* How many times m is in the hands of the goroutines outside, x being their
\* record.
Carried(m, x) ==
    In(m, x.unsent) + In(m, x.fresh) + In(m, x.steering) + Occurs(m, x.requeue) + Occurs(m, x.restore)

CarriedAs(m, x, a, b, c, d, e) ==
    /\ a = In(m, x.unsent) /\ b = In(m, x.fresh) /\ c = In(m, x.steering)
    /\ d = Occurs(m, x.requeue) /\ e = Occurs(m, x.restore)
    /\ Carried(m, x) = a + b + c + d + e

\* Where a message in the hands of a producer is counted.
LEMMA CarriedParts ==
    ASSUME NEW m, NEW x \in Outside
    PROVE  \E a, b, c, d, e \in Nat : CarriedAs(m, x, a, b, c, d, e)
  <1>1. x.requeue \in Seq(Injects) /\ x.restore \in Seq(Messages)
    BY DEF Outside
  <1>2. Occurs(m, x.requeue) \in Nat /\ Occurs(m, x.restore) \in Nat
    BY <1>1, OccursType
  <1>3. In(m, x.unsent) \in Nat /\ In(m, x.fresh) \in Nat /\ In(m, x.steering) \in Nat
    BY IsType
  <1>4. CarriedAs(m, x, In(m, x.unsent), In(m, x.fresh), In(m, x.steering),
                  Occurs(m, x.requeue), Occurs(m, x.restore))
    BY DEF CarriedAs, Carried
  <1> QED BY <1>2, <1>3, <1>4

\* Membership after an element left a set.
LEMMA InMoves ==
    ASSUME NEW m, NEW x, NEW S
    PROVE  /\ x \in S => In(m, S) = In(m, S \ {x}) + Is(x, m)
           /\ x \notin S => In(m, S \cup {x}) = In(m, S) + Is(x, m)
  BY DEF In, Is

\* A message leaves the unsent ones, the requeue list, or the restore list.
LEMMA Leaves ==
    ASSUME NEW m, NEW x, out \in Outside, NEW rest \in Outside,
           \/ x \in out.unsent /\ rest = [out EXCEPT !.unsent = @ \ {x}]
           \/ out.requeue # <<>> /\ x = Head(out.requeue) /\ rest = [out EXCEPT !.requeue = Tail(@)]
           \/ out.restore # <<>> /\ x = Head(out.restore) /\ rest = [out EXCEPT !.restore = Tail(@)]
    PROVE  Carried(m, out) = Carried(m, rest) + Is(x, m)
  <1>1. PICK a, b, c, d, e \in Nat : CarriedAs(m, out, a, b, c, d, e)
    BY CarriedParts
  <1>2. PICK a1, b1, c1, d1, e1 \in Nat : CarriedAs(m, rest, a1, b1, c1, d1, e1)
    BY CarriedParts
  <1>3. PICK i \in Nat : i = Is(x, m)
    BY IsType
  <1>4. CASE x \in out.unsent /\ rest = [out EXCEPT !.unsent = @ \ {x}]
    <2>1. /\ rest.unsent = out.unsent \ {x} /\ rest.fresh = out.fresh /\ rest.steering = out.steering
          /\ rest.requeue = out.requeue /\ rest.restore = out.restore
      BY <1>4 DEF Outside
    <2>2. In(m, out.unsent) = In(m, out.unsent \ {x}) + Is(x, m)
      BY <1>4, InMoves
    <2>3. a = a1 + i
      BY <1>1, <1>2, <1>3, <2>1, <2>2 DEF CarriedAs
    <2>4. b1 = b /\ c1 = c /\ d1 = d /\ e1 = e
      BY <1>1, <1>2, <2>1 DEF CarriedAs
    <2>5. a + b + c + d + e = (a1 + b1 + c1 + d1 + e1) + i
      BY <2>3, <2>4
    <2> QED BY <1>1, <1>2, <1>3, <2>5 DEF CarriedAs
  <1>5. CASE out.requeue # <<>> /\ x = Head(out.requeue) /\ rest = [out EXCEPT !.requeue = Tail(@)]
    <2>1. /\ rest.unsent = out.unsent /\ rest.fresh = out.fresh /\ rest.steering = out.steering
          /\ rest.requeue = Tail(out.requeue) /\ rest.restore = out.restore /\ out.requeue \in Seq(Injects)
      BY <1>5 DEF Outside
    <2>2. Occurs(m, out.requeue) = Occurs(m, Tail(out.requeue)) + Is(x, m)
      BY <1>5, <2>1, OccursPop
    <2>3. d = d1 + i
      BY <1>1, <1>2, <1>3, <2>1, <2>2 DEF CarriedAs
    <2>4. b1 = b /\ c1 = c /\ a1 = a /\ e1 = e
      BY <1>1, <1>2, <2>1 DEF CarriedAs
    <2>5. a + b + c + d + e = (a1 + b1 + c1 + d1 + e1) + i
      BY <2>3, <2>4
    <2> QED BY <1>1, <1>2, <1>3, <2>5 DEF CarriedAs
  <1>6. CASE out.restore # <<>> /\ x = Head(out.restore) /\ rest = [out EXCEPT !.restore = Tail(@)]
    <2>1. /\ rest.unsent = out.unsent /\ rest.fresh = out.fresh /\ rest.steering = out.steering
          /\ rest.requeue = out.requeue /\ rest.restore = Tail(out.restore) /\ out.restore \in Seq(Messages)
      BY <1>6 DEF Outside
    <2>2. Occurs(m, out.restore) = Occurs(m, Tail(out.restore)) + Is(x, m)
      BY <1>6, <2>1, OccursPop
    <2>3. e = e1 + i
      BY <1>1, <1>2, <1>3, <2>1, <2>2 DEF CarriedAs
    <2>4. b1 = b /\ c1 = c /\ a1 = a /\ d1 = d
      BY <1>1, <1>2, <2>1 DEF CarriedAs
    <2>5. a + b + c + d + e = (a1 + b1 + c1 + d1 + e1) + i
      BY <2>3, <2>4
    <2> QED BY <1>1, <1>2, <1>3, <2>5 DEF CarriedAs
  <1> QED BY <1>4, <1>5, <1>6

\* A message about to be buffered.
LEMMA Joins ==
    ASSUME NEW m, NEW x, NEW rest \in Outside, x \notin rest.steering, out' \in Outside,
           out' = [rest EXCEPT !.steering = @ \cup {x}]
    PROVE  Carried(m, out') = Carried(m, rest) + Is(x, m)
  <1>1. PICK a, b, c, d, e \in Nat : CarriedAs(m, rest, a, b, c, d, e)
    BY CarriedParts
  <1>2. PICK a1, b1, c1, d1, e1 \in Nat : CarriedAs(m, out', a1, b1, c1, d1, e1)
    BY CarriedParts
  <1>3. PICK i \in Nat : i = Is(x, m)
    BY IsType
  <1>4. /\ out'.unsent = rest.unsent /\ out'.fresh = rest.fresh /\ out'.steering = rest.steering \cup {x}
        /\ out'.requeue = rest.requeue /\ out'.restore = rest.restore
    BY DEF Outside
  <1>5. In(m, rest.steering \cup {x}) = In(m, rest.steering) + Is(x, m)
    BY InMoves
  <1>6. c1 = c + i
    BY <1>1, <1>2, <1>3, <1>4, <1>5 DEF CarriedAs
  <1>7. a1 = a /\ b1 = b /\ d1 = d /\ e1 = e
    BY <1>1, <1>2, <1>4 DEF CarriedAs
  <1>8. a1 + b1 + c1 + d1 + e1 = (a + b + c + d + e) + i
    BY <1>6, <1>7
  <1> QED BY <1>1, <1>2, <1>3, <1>8 DEF CarriedAs

\* x is pushed, or refused: never both, never neither.
LEMMA PushMoves ==
    ASSUME TypeOK, NEW m \in Messages, NEW x \in Messages, NEW r, Push(x, r)
    PROVE  \/ Occurs(m, ch') = Occurs(m, ch) + Is(x, m) /\ fate' = fate
           \/ Len(fate'[m]) = Len(fate[m]) + Is(x, m) /\ ch' = ch
  <1>1. CASE ch' = Append(ch, x) /\ fate' = fate
    <2>1. ch \in Seq(Messages)
      BY DEF TypeOK
    <2> QED BY <1>1, <2>1, OccursAppend
  <1>2. CASE fate' = Ended({x}, r) /\ ch' = ch
    <2>1. Len(Ended({x}, r)[m]) = Len(fate[m]) + In(m, {x})
      BY EndedLen
    <2>2. In(m, {x}) = Is(x, m)
      BY DEF In, Is
    <2> QED BY <1>2, <2>1, <2>2
  <1> QED BY <1>1, <1>2 DEF Push

\* What a step does to x, as m sees it: x goes to the channel, ends, or is
\* about to be buffered.
Delivered(m, x, rest) ==
    \/ Occurs(m, ch') = Occurs(m, ch) + Is(x, m) /\ fate' = fate /\ Carried(m, out') = Carried(m, rest)
    \/ Len(fate'[m]) = Len(fate[m]) + Is(x, m) /\ ch' = ch /\ Carried(m, out') = Carried(m, rest)
    \/ ch' = ch /\ fate' = fate /\ Carried(m, out') = Carried(m, rest) + Is(x, m)

\* trySteer buffers, folds or pushes: one of them.
LEMMA SteerOrPushMoves ==
    ASSUME TypeOK, TypeOK', NEW m \in Messages, NEW x \in Messages, NEW r, NEW rest \in Outside,
           x \notin rest.steering, SteerOrPush(x, r, rest)
    PROVE  Delivered(m, x, rest)
  <1>0. out' \in Outside
    BY DEF TypeOK
  <1>1. CASE out' = [rest EXCEPT !.steering = @ \cup {x}] /\ UNCHANGED <<ch, numbers, fate>>
    BY <1>0, <1>1, Joins DEF Delivered
  <1>2. CASE fate' = Ended({x}, "consumed") /\ out' = rest /\ UNCHANGED <<ch, numbers>>
    <2>1. Len(Ended({x}, "consumed")[m]) = Len(fate[m]) + In(m, {x})
      BY EndedLen
    <2>2. In(m, {x}) = Is(x, m)
      BY DEF In, Is
    <2> QED BY <1>2, <2>1, <2>2 DEF Delivered
  <1>3. CASE Push(x, r) /\ out' = rest
    BY <1>3, PushMoves DEF Delivered
  <1> QED BY <1>1, <1>2, <1>3 DEF SteerOrPush

\* A message a producer had is now in one place, or has ended.
LEMMA DeliveredConserved ==
    ASSUME TypeOK, TypeOK', NEW m \in Messages, NEW x, NEW rest \in Outside,
           Carried(m, out) = Carried(m, rest) + Is(x, m), Delivered(m, x, rest),
           UNCHANGED <<pending, held, deferred, usageHeld, steer, w>>
    PROVE  Conserved(m)
  <1>0. out \in Outside /\ out' \in Outside
    BY DEF TypeOK
  <1>1. PICK c, p, h, u, s, b, q, r, d, o, k, f \in Nat :
              Tallied(m, c, p, h, u, s, b, q, r, d, o, k, f)
    BY TallyNow
  <1>2. PICK c1, p1, h1, u1, s1, b1, q1, r1, d1, o1, k1, f1 \in Nat :
              TalliedNext(m, c1, p1, h1, u1, s1, b1, q1, r1, d1, o1, k1, f1)
    BY TallyThen
  <1>3. PICK i \in Nat : i = Is(x, m)
    BY IsType
  <1>4. PICK g \in Nat : g = Carried(m, rest)
    <2>1. PICK a, bb, cc, dd, e \in Nat : CarriedAs(m, rest, a, bb, cc, dd, e)
      BY CarriedParts
    <2>2. Carried(m, rest) \in Nat
      BY <2>1 DEF CarriedAs
    <2> QED BY <2>2
  <1>5. Carried(m, out) = o + q + r
    <2>1. PICK a, bb, cc, dd, e \in Nat : CarriedAs(m, out, a, bb, cc, dd, e)
      BY <1>0, CarriedParts
    <2>2. o = a + bb + cc /\ q = dd /\ r = e
      BY <2>1, <1>1 DEF CarriedAs, Tallied, OutsideOf
    <2> QED BY <2>1, <2>2 DEF CarriedAs
  <1>6. Carried(m, out') = o1 + q1 + r1
    <2>1. PICK a, bb, cc, dd, e \in Nat : CarriedAs(m, out', a, bb, cc, dd, e)
      BY <1>0, CarriedParts
    <2>2. o1 = a + bb + cc /\ q1 = dd /\ r1 = e
      BY <2>1, <1>2 DEF CarriedAs, TalliedNext, OutsideOf
    <2> QED BY <2>1, <2>2 DEF CarriedAs
  <1>7. o + q + r = g + i
    BY <1>3, <1>4, <1>5
  <1>8. \/ c1 = c + i /\ f1 = f /\ o1 + q1 + r1 = g
        \/ f1 = f + i /\ c1 = c /\ o1 + q1 + r1 = g
        \/ c1 = c /\ f1 = f /\ o1 + q1 + r1 = g + i
    BY <1>1, <1>2, <1>3, <1>4, <1>6 DEF Delivered, Tallied, TalliedNext
  <1>9. p1 = p /\ h1 = h /\ u1 = u /\ s1 = s /\ b1 = b /\ d1 = d /\ k1 = k
    BY <1>1, <1>2 DEF Tallied, TalliedNext, InHand
  <1>10. c1 + f1 + (o1 + q1 + r1) = c + f + g + i /\ f1 >= f
    BY <1>8
  <1>11. c1 + p1 + h1 + u1 + s1 + b1 + q1 + r1 + d1 + o1 + k1 + f1
           = c + p + h + u + s + b + q + r + d + o + k + f
    BY <1>7, <1>9, <1>10
  <1> QED BY <1>1, <1>2, <1>10, <1>11, Balanced

\* A message in the hands of one goroutine is not about to be buffered by another.
LEMMA NotSteering ==
    ASSUME TypeOK, AtMostOnce, NEW x \in Messages,
           x \in out.unsent \/ x \in ToSet(out.requeue)
    PROVE  x \notin out.steering
  <1>1. PICK c, p, h, u, s, b, q, r, d, o, k, f \in Nat :
              Tallied(x, c, p, h, u, s, b, q, r, d, o, k, f)
    BY TallyNow
  <1>2. c + p + h + u + s + b + q + r + d + o + k <= 1
    BY <1>1 DEF Tallied, AtMostOnce
  <1>3. o + q <= 1
    BY <1>2
  <1>4. PICK a, e, g \in Nat : a = In(x, out.unsent) /\ e = In(x, out.fresh) /\ g = In(x, out.steering)
    BY IsType
  <1>5. o = a + e + g
    BY <1>1, <1>4 DEF Tallied, OutsideOf
  <1>6. a # 0 \/ q # 0
    <2>1. CASE x \in out.unsent
      BY <1>4, <2>1, IsType
    <2>2. CASE x \in ToSet(out.requeue)
      <3>1. out.requeue \in Seq(Injects)
        BY DEF TypeOK, Outside
      <3>2. Occurs(x, out.requeue) # 0
        BY <2>2, <3>1, OccursType
      <3> QED BY <1>1, <3>2 DEF Tallied
    <2> QED BY <2>1, <2>2
  <1>7. g = 0
    BY <1>3, <1>5, <1>6
  <1> QED BY <1>4, <1>7, IsType

LEMMA EnqueueUserConserved ==
    ASSUME TypeOK, TypeOK', AtMostOnce, NEW m \in Messages, NEW x \in Users, EnqueueUser(x)
    PROVE  Conserved(m)
  <1> DEFINE rest == [out EXCEPT !.unsent = @ \ {x}]
  <1>0. out \in Outside /\ x \in Messages /\ x \in out.unsent
    BY DEF TypeOK, Messages, EnqueueUser
  <1>1. rest \in Outside /\ rest.steering = out.steering
    BY <1>0 DEF Outside
  <1>2. Carried(m, out) = Carried(m, rest) + Is(x, m)
    BY <1>0, <1>1, Leaves
  <1>3. x \notin rest.steering
    BY <1>0, <1>1, NotSteering
  <1> HIDE DEF rest
  <1>4. Delivered(m, x, rest)
    <2>1. CASE fate' = Ended({x}, "consumed") /\ out' = rest /\ UNCHANGED <<ch, numbers>>
      <3>1. Len(Ended({x}, "consumed")[m]) = Len(fate[m]) + In(m, {x})
        BY EndedLen
      <3>2. In(m, {x}) = Is(x, m)
        BY DEF In, Is
      <3> QED BY <2>1, <3>1, <3>2 DEF Delivered
    <2>2. CASE Push(x, "rejected") /\ out' = rest
      BY <1>0, <2>2, PushMoves DEF Delivered
    <2>3. CASE SteerOrPush(x, "rejected", rest)
      BY <1>0, <1>1, <1>3, <2>3, SteerOrPushMoves
    <2> QED BY <2>1, <2>2, <2>3 DEF EnqueueUser, rest
  <1>5. UNCHANGED <<pending, held, deferred, usageHeld, steer, w>>
    BY DEF EnqueueUser
  <1> QED BY <1>1, <1>2, <1>4, <1>5, DeliveredConserved

LEMMA EnqueueInjectConserved ==
    ASSUME TypeOK, TypeOK', AtMostOnce, NEW m \in Messages, NEW x \in Injects, EnqueueInject(x)
    PROVE  Conserved(m)
  <1> DEFINE rest == [out EXCEPT !.unsent = @ \ {x}]
  <1>0. out \in Outside /\ x \in Messages /\ x \in out.unsent
    BY DEF TypeOK, Messages, EnqueueInject
  <1>1. rest \in Outside /\ rest.steering = out.steering
    BY <1>0 DEF Outside
  <1>2. Carried(m, out) = Carried(m, rest) + Is(x, m)
    BY <1>0, <1>1, Leaves
  <1>3. x \notin rest.steering
    BY <1>0, <1>1, NotSteering
  <1> HIDE DEF rest
  <1>4. Delivered(m, x, rest)
    <2>2. CASE Push(x, "rejected") /\ out' = rest
      BY <1>0, <2>2, PushMoves DEF Delivered
    <2>3. CASE SteerOrPush(x, "rejected", rest)
      BY <1>0, <1>1, <1>3, <2>3, SteerOrPushMoves
    <2> QED BY <2>2, <2>3 DEF EnqueueInject, EnqueueInjection, rest
  <1>5. UNCHANGED <<pending, held, deferred, usageHeld, steer, w>>
    BY DEF EnqueueInject
  <1> QED BY <1>1, <1>2, <1>4, <1>5, DeliveredConserved

LEMMA RequeueConserved ==
    ASSUME TypeOK, TypeOK', AtMostOnce, NEW m \in Messages, Requeue
    PROVE  Conserved(m)
  <1> DEFINE x == Head(out.requeue)
             rest == [out EXCEPT !.requeue = Tail(@)]
  <1>0. out \in Outside /\ out.requeue \in Seq(Injects) /\ out.requeue # <<>>
    BY DEF TypeOK, Requeue, Outside
  <1>6. x \in Injects /\ Tail(out.requeue) \in Seq(Injects) /\ x \in ToSet(out.requeue) /\ x \in Messages
    BY <1>0 DEF ToSet, Messages
  <1>1. rest \in Outside /\ rest.steering = out.steering
    BY <1>0, <1>6 DEF Outside
  <1>2. Carried(m, out) = Carried(m, rest) + Is(x, m)
    BY <1>0, <1>1, Leaves
  <1>3. x \notin rest.steering
    BY <1>1, <1>6, NotSteering
  <1> HIDE DEF rest, x
  <1>4. Delivered(m, x, rest)
    <2>2. CASE Push(x, "refused") /\ out' = rest
      BY <1>6, <2>2, PushMoves DEF Delivered
    <2>3. CASE SteerOrPush(x, "refused", rest)
      BY <1>1, <1>3, <1>6, <2>3, SteerOrPushMoves
    <2> QED BY <2>2, <2>3 DEF Requeue, EnqueueInjection, rest, x
  <1>5. UNCHANGED <<pending, held, deferred, usageHeld, steer, w>>
    BY DEF Requeue
  <1> QED BY <1>1, <1>2, <1>4, <1>5, DeliveredConserved

LEMMA RestoreConserved ==
    ASSUME TypeOK, TypeOK', NEW m \in Messages, Restore
    PROVE  Conserved(m)
  <1> DEFINE x == Head(out.restore)
             rest == [out EXCEPT !.restore = Tail(@)]
  <1>0. out \in Outside /\ out.restore \in Seq(Messages) /\ out.restore # <<>>
    BY DEF TypeOK, Restore, Outside
  <1>6. x \in Messages /\ Tail(out.restore) \in Seq(Messages)
    BY <1>0
  <1>1. rest \in Outside
    BY <1>0, <1>6 DEF Outside
  <1>2. Carried(m, out) = Carried(m, rest) + Is(x, m)
    BY <1>0, <1>1, Leaves
  <1> HIDE DEF rest, x
  <1>3. Push(x, "rejected") /\ out' = rest
    BY DEF Restore, rest, x
  <1>4. Delivered(m, x, rest)
    BY <1>3, <1>6, PushMoves DEF Delivered
  <1>5. UNCHANGED <<pending, held, deferred, usageHeld, steer, w>>
    BY DEF Restore
  <1> QED BY <1>1, <1>2, <1>4, <1>5, DeliveredConserved

LEMMA AppendSteerConserved ==
    ASSUME TypeOK, TypeOK', NEW m \in Messages, NEW x, AppendSteer(x)
    PROVE  Conserved(m)
  <1>0. out \in Outside /\ x \in out.steering /\ steer \in Seq(Users \cup Injects) /\ x \in Users \cup Injects
    BY DEF TypeOK, AppendSteer, Outside
  <1>1. /\ out'.unsent = out.unsent /\ out'.fresh = out.fresh /\ out'.steering = out.steering \ {x}
        /\ out'.requeue = out.requeue /\ out'.restore = out.restore
    BY <1>0 DEF AppendSteer, Outside
  <1>2. In(m, out.steering) = In(m, out.steering \ {x}) + Is(x, m)
    BY <1>0, InMoves
  <1>3. Occurs(m, steer') = Occurs(m, steer) + Is(x, m)
    BY <1>0, OccursAppend DEF AppendSteer
  <1>i. PICK i \in Nat : i = Is(x, m)
    BY IsType
  <1>4. PICK a, e, g, g1 \in Nat : a = In(m, out.unsent) /\ e = In(m, out.fresh) /\ g = In(m, out.steering)
                                   /\ g1 = In(m, out.steering \ {x})
    BY IsType
  <1>5. PICK c, p, h, u, s, b, q, r, d, o, k, f \in Nat :
              Tallied(m, c, p, h, u, s, b, q, r, d, o, k, f)
    BY TallyNow
  <1>6. PICK c1, p1, h1, u1, s1, b1, q1, r1, d1, o1, k1, f1 \in Nat :
              TalliedNext(m, c1, p1, h1, u1, s1, b1, q1, r1, d1, o1, k1, f1)
    BY TallyThen
  <1>7. c1 = c /\ p1 = p /\ h1 = h /\ u1 = u /\ b1 = b /\ q1 = q /\ r1 = r /\ d1 = d /\ k1 = k /\ f1 = f
    BY <1>5, <1>6, <1>1 DEF Tallied, TalliedNext, InHand, AppendSteer
  <1>8. s1 = s + i
    BY <1>3, <1>5, <1>6, <1>i DEF Tallied, TalliedNext
  <1>9. o = a + e + g /\ o1 = a + e + g1 /\ g = g1 + i
    BY <1>1, <1>2, <1>4, <1>5, <1>6, <1>i DEF Tallied, TalliedNext, OutsideOf
  <1>10. c1 + p1 + h1 + u1 + s1 + b1 + q1 + r1 + d1 + o1 + k1 + f1
           = c + p + h + u + s + b + q + r + d + o + k + f /\ f1 >= f
    BY <1>7, <1>8, <1>9
  <1> QED BY <1>5, <1>6, <1>10, Balanced

-----------------------------------------------------------------------------
(* Every step.                                                             *)

\* Steps of the goroutines that bring messages.
Producers ==
    \/ \E x \in Users : EnqueueUser(x)
    \/ \E x \in Injects : EnqueueInject(x)
    \/ \E x \in Messages : AppendSteer(x)
    \/ Requeue \/ Restore
    \/ \E by \in Asks \cup {Login} : DrainDeferredInjects(by)
    \/ \E x \in Injects : ReleaseExpiredAskHolds(x)

\* Next, grouped by who acts.
LEMMA NextSplit ==
    ASSUME Next
    PROVE  \/ WorkerStep \/ PrimaryWritten \/ DrainSteerTexts \/ Grant \/ CancelSession
           \/ Producers \/ Told \/ Crash
  BY DEF Next, Producers, Told

LEMMA ProducersType == ASSUME TypeOK, Producers PROVE TypeOK'
  BY EnqueueUserType, EnqueueInjectType, AppendSteerType, RequeueType, RestoreType,
     DrainDeferredInjectsType, ReleaseExpiredAskHoldsType DEF Producers

LEMMA ToldType == ASSUME TypeOK, Told PROVE TypeOK'
  BY WatchInjectGateType, UsageType, ReloginType, AskType, ShutdownType, HoldAgesType, CloseOpenType
     DEF Told

\* Every step keeps the types.
LEMMA NextType == ASSUME TypeOK, Control, Next PROVE TypeOK'
  BY NextSplit, WorkerStepType, CancelSessionType, ProducersType, ToldType, CrashType

\* What a producer's step leaves alone.
LEMMA ProducersStill ==
    ASSUME TypeOK, Producers
    PROVE  /\ UNCHANGED <<held, usageHeld, stored, w, wake, env>>
           /\ out'.unsent \subseteq out.unsent /\ out'.fresh = out.fresh /\ out'.restored = out.restored
           /\ out'.restore = out.restore \/ Restore
           /\ out'.steering \subseteq out.steering \cup Steerable
  <1>0. out \in Outside
    BY DEF TypeOK
  <1>1. UNCHANGED <<held, usageHeld, stored, w, wake, env>>
    BY DEF Producers, EnqueueUser, EnqueueInject, AppendSteer, Requeue, Restore,
       DrainDeferredInjects,
           ReleaseExpiredAskHolds
  <1> DEFINE Less(x) == /\ x.unsent \subseteq out.unsent /\ x.fresh = out.fresh /\ x.restored = out.restored
                        /\ x.restore = out.restore \/ Restore
                        /\ x.steering \subseteq out.steering \cup Steerable
  <1>2. ASSUME NEW x \in Messages, NEW r, NEW rest, Less(rest), rest \in Outside, SteerOrPush(x, r, rest)
        PROVE  Less(out')
    <2>1. x \in Steerable => Less([rest EXCEPT !.steering = @ \cup {x}])
      BY <1>2 DEF Outside
    <2> QED BY <1>2, <2>1 DEF SteerOrPush, SteerEligible
  <1>3. ASSUME NEW x \in Messages, NEW r, NEW rest, Less(rest), rest \in Outside, EnqueueInjection(x, r, rest)
        PROVE  Less(out')
    BY <1>2, <1>3 DEF EnqueueInjection
  <1>4. ASSUME NEW x \in Users, EnqueueUser(x) PROVE Less(out')
    <2> DEFINE rest == [out EXCEPT !.unsent = @ \ {x}]
    <2>1. Less(rest) /\ rest \in Outside /\ x \in Messages
      BY <1>0 DEF Outside, Messages
    <2> HIDE DEF Less, rest
    <2>2. out' = rest \/ SteerOrPush(x, "rejected", rest)
      BY <1>4 DEF EnqueueUser, rest
    <2> QED BY <1>2, <2>1, <2>2
  <1>5. ASSUME NEW x \in Injects, EnqueueInject(x) PROVE Less(out')
    <2> DEFINE rest == [out EXCEPT !.unsent = @ \ {x}]
    <2>1. Less(rest) /\ rest \in Outside /\ x \in Messages
      BY <1>0 DEF Outside, Messages
    <2> HIDE DEF Less, rest
    <2>2. EnqueueInjection(x, "rejected", rest)
      BY <1>5 DEF EnqueueInject, rest
    <2> QED BY <1>3, <2>1, <2>2
  <1>6. ASSUME Requeue PROVE Less(out')
    <2> DEFINE rest == [out EXCEPT !.requeue = Tail(@)]
               x == Head(out.requeue)
    <2>0. out.requeue \in Seq(Injects) /\ out.requeue # <<>>
      BY <1>0, <1>6 DEF Outside, Requeue
    <2>3. Head(out.requeue) \in Injects /\ Tail(out.requeue) \in Seq(Injects)
      BY <2>0
    <2>4. Less(rest) /\ rest \in Outside
      BY <1>0, <2>3 DEF Outside
    <2>1. Less(rest) /\ rest \in Outside /\ x \in Messages
      BY <2>3, <2>4 DEF Messages
    <2> HIDE DEF Less, rest, x
    <2>2. EnqueueInjection(x, "refused", rest)
      BY <1>6 DEF Requeue, rest, x
    <2> QED BY <1>3, <2>1, <2>2
  <1>7. ASSUME \/ \E x \in Messages : AppendSteer(x)
               \/ Restore
               \/ \E by \in Asks \cup {Login} : DrainDeferredInjects(by)
               \/ \E x \in Injects : ReleaseExpiredAskHolds(x)
        PROVE  Less(out')
    BY <1>0, <1>7 DEF AppendSteer, Restore, DrainDeferredInjects, ReleaseExpiredAskHolds, Outside
  <1>8. Less(out')
    BY <1>4, <1>5, <1>6, <1>7 DEF Producers
  <1> QED BY <1>1, <1>8

\* Every step keeps Control.
LEMMA NextControl == ASSUME TypeOK, Control, Next PROVE Control'
  <1>1. CASE WorkerStep \/ PrimaryWritten \/ Grant \/ CancelSession
    BY <1>1, WorkerStepControl
  <1>2. CASE DrainSteerTexts
    BY <1>2, ControlKept DEF DrainSteerTexts
  <1>3. CASE Producers
    BY <1>3, ControlKept, ProducersStill
  <1>4. CASE Told
    BY <1>4, ControlKept, ToldSame
  <1>5. CASE Crash
    <2>1. w' = [pc |-> "top", cur |-> Nothing, batch |-> <<>>, walk |-> 0, slots |-> 0,
                grant |-> "none", waitCancel |-> "none", active |-> FALSE,
                head |-> Nothing, attempt |-> 0, ask |-> Nothing]
      BY <1>5 DEF Crash
    <2>2. /\ w'.pc = "top" /\ w'.cur = Nothing /\ w'.batch = <<>> /\ w'.walk = 0 /\ w'.slots = 0
          /\ w'.grant = "none" /\ w'.waitCancel = "none"
      BY <2>1
    <2> QED BY <2>2 DEF Control, CurPlaced, WalkPlaced, BatchPlaced, SlotsPlaced, AtGate, Serving,
                        Waiting, Driving
  <1> QED BY <1>1, <1>2, <1>3, <1>4, <1>5, NextSplit

\* Every step but a crash conserves every message.
LEMMA StepConserved ==
    ASSUME TypeOK, Control, AtMostOnce, Next, ~Crash, NEW m \in Messages
    PROVE  Conserved(m)
  <1>0. TypeOK'
    BY NextType
  <1>1. CASE \/ LoopTop \/ ReleaseHeldKeep \/ ReleaseHeldRun \/ ReleaseHeldDone \/ DispatchUserInput
             \/ DispatchNow \/ InjectReturns \/ PassGate \/ AcquireTurnSlots \/ TakeSlot
             \/ RecheckGates \/ TurnReturns \/ BatchReturns \/ PrimaryWritten \/ Grant \/ CancelSession
    BY <1>0, <1>1, StillConserved
  <1>2. CASE TakeUsageResume \/ ReleaseUsageHeld \/ Arm \/ Select \/ Dequeued \/ HandleDequeued \/ GateEnded
    BY <1>0, <1>2, TakeUsageResumeConserved, ReleaseUsageHeldConserved, ArmConserved,
       SelectConserved,
       DequeuedConserved, HandleDequeuedConserved, GateEndedConserved
  <1>3. CASE DispatchPark \/ Ready \/ RunInject \/ RunPause \/ RunPaused \/ RunDefer
    BY <1>0, <1>3, DispatchParkConserved, ReadyConserved, RunInjectConserved, RunPauseConserved,
       RunPausedConserved, RunDeferConserved
  <1>4. CASE WaitTurnSlot \/ ClaimWaitCancel \/ DriveBatch \/ DrainSteerTexts \/ FollowUp \/ Settle \/ Exit
    BY <1>0, <1>4, WaitTurnSlotConserved, ClaimWaitCancelConserved, DriveBatchConserved,
       DrainSteerTextsConserved, FollowUpConserved, SettleConserved, ExitConserved
  <1>5. CASE Producers
    BY <1>0, <1>5, EnqueueUserConserved, EnqueueInjectConserved, AppendSteerConserved,
       RequeueConserved,
       RestoreConserved, DrainDeferredInjectsConserved,
          ReleaseExpiredAskHoldsConserved DEF Producers
  <1>6. CASE Told
    BY <1>0, <1>6, ToldConserved
  <1> QED BY <1>1, <1>2, <1>3, <1>4, <1>5, <1>6, NextSplit DEF WorkerStep

\* Steps of the worker, as the goroutines outside see them.
LEMMA WorkerOutside ==
    ASSUME TypeOK, WorkerStep \/ PrimaryWritten \/ DrainSteerTexts \/ Grant \/ CancelSession
    PROVE  /\ out'.unsent = out.unsent /\ out'.fresh \subseteq out.fresh /\ out'.restored = out.restored
           /\ ~TakeUsageResume => out'.fresh = out.fresh
  <1>0. out \in Outside
    BY DEF TypeOK
  <1>1. CASE TakeUsageResume \/ RunPaused \/ Settle
    BY <1>0, <1>1 DEF TakeUsageResume, RunPaused, Settle, Outside
  <1>2. CASE ~(TakeUsageResume \/ RunPaused \/ Settle)
    BY <1>2 DEF WorkerStep, PrimaryWritten, DrainSteerTexts, Grant, CancelSession, LoopTop,
       ReleaseHeldKeep,
       ReleaseHeldRun, ReleaseHeldDone, ReleaseUsageHeld, Arm, Select, Dequeued, HandleDequeued,
          GateEnded,
       DispatchUserInput, DispatchPark, DispatchNow, Ready, RunInject, RunPause, RunDefer,
          InjectReturns,
       PassGate, AcquireTurnSlots, TakeSlot, WaitTurnSlot, ClaimWaitCancel, RecheckGates,
          DriveBatch,
       TurnReturns, FollowUp, BatchReturns, Exit
  <1> QED BY <1>1, <1>2

\* A step but a crash adds nothing to what waits to be sent.
LEMMA OutsideShrinks ==
    ASSUME TypeOK, Next, ~Crash
    PROVE  /\ out'.unsent \subseteq out.unsent /\ out'.fresh \subseteq out.fresh
           /\ out'.restored = out.restored
  BY NextSplit, WorkerOutside, ProducersStill, ToldSame

\* Every step but a crash keeps the counts.
LEMMA StepCounts ==
    ASSUME TypeOK, Control, AtMostOnce, ExactlyOnce, Next, ~Crash
    PROVE  AtMostOnce' /\ ExactlyOnce'
  <1>0. TypeOK'
    BY NextType
  <1>1. ASSUME NEW m \in Messages PROVE (Places(m) <= 1)'
    <2>1. Conserved(m)
      BY StepConserved
    <2>2. PICK c, p, h, u, s, b, q, r, d, o, k, f \in Nat :
              Tallied(m, c, p, h, u, s, b, q, r, d, o, k, f)
      BY TallyNow
    <2>3. PICK c1, p1, h1, u1, s1, b1, q1, r1, d1, o1, k1, f1 \in Nat :
              TalliedNext(m, c1, p1, h1, u1, s1, b1, q1, r1, d1, o1, k1, f1)
      BY <1>0, TallyThen
    <2>7. PICK x \in Nat : x = c + p + h + u + s + b + q + r + d + o + k
      OBVIOUS
    <2>8. PICK x1 \in Nat : x1 = c1 + p1 + h1 + u1 + s1 + b1 + q1 + r1 + d1 + o1 + k1
      OBVIOUS
    <2>4. x = Places(m) /\ x1 = Places(m)'
      BY <2>2, <2>3, <2>7, <2>8 DEF Tallied, TalliedNext
    <2>5. x <= 1 /\ x1 + f1 = x + f /\ f1 >= f
      BY <2>1, <2>2, <2>3, <2>4 DEF Tallied, TalliedNext, Conserved, AtMostOnce
    <2>6. x1 <= 1
      BY <2>5
    <2> QED BY <2>4, <2>6
  <1>2. ASSUME NEW m \in Messages \ out'.restored PROVE (Places(m) + Len(fate[m]) = 1)'
    <2>1. m \in Messages \ out.restored
      BY OutsideShrinks
    <2>2. Conserved(m)
      BY <2>1, StepConserved
    <2> QED BY <2>1, <2>2 DEF Conserved, ExactlyOnce
  <1> QED BY <1>1, <1>2 DEF AtMostOnce, ExactlyOnce

-----------------------------------------------------------------------------
(* The restart store, and crashes.                                         *)

\* A message is in one place only.
LEMMA Apart ==
    ASSUME TypeOK, AtMostOnce, NEW m \in Messages
    PROVE  /\ Occurs(m, steer) <= 1
           /\ InHand(m) = 1 => m \notin ToSet(usageHeld) /\ m \notin out.unsent /\ m \notin out.fresh
           /\ m \in ToSet(ch) \cup ToSet(pending) => m \notin ToSet(usageHeld)
           /\ m \in ToSet(steer) => m \notin out.unsent /\ m \notin out.fresh
           /\ m \in out.fresh => m \notin out.unsent
  <1>1. PICK c, p, h, u, s, b, q, r, d, o, k, f \in Nat :
              Tallied(m, c, p, h, u, s, b, q, r, d, o, k, f)
    BY TallyNow
  <1>2. c + p + h + u + s + b + q + r + d + o + k <= 1
    BY <1>1 DEF Tallied, AtMostOnce
  <1>3. PICK a, e, g \in Nat : a = In(m, out.unsent) /\ e = In(m, out.fresh) /\ g = In(m, out.steering)
    BY IsType
  <1>4. o = a + e + g
    BY <1>1, <1>3 DEF Tallied, OutsideOf
  <1>5. /\ m \in ToSet(usageHeld) <=> u # 0
        /\ m \in ToSet(ch) <=> c # 0
        /\ m \in ToSet(pending) <=> p # 0
        /\ m \in ToSet(steer) <=> s # 0
    BY <1>1, TallyTypes, OccursType DEF Tallied
  <1>6. (m \in out.unsent <=> a = 1) /\ (m \in out.fresh <=> e = 1)
    BY <1>3, IsType
  <1>7. s <= 1 /\ s + a + e <= 1
    BY <1>2, <1>4
  <1>8. k + u + a + e <= 1
    BY <1>2, <1>4
  <1>9. c + p + u <= 1
    BY <1>2
  <1>10. k = InHand(m) /\ s = Occurs(m, steer)
    BY <1>1 DEF Tallied
  <1>11. InHand(m) = 1 => m \notin ToSet(usageHeld) /\ m \notin out.unsent /\ m \notin out.fresh
    BY <1>5, <1>6, <1>8, <1>10
  <1>12. m \in ToSet(ch) \cup ToSet(pending) => m \notin ToSet(usageHeld)
    BY <1>5, <1>9
  <1>13. m \in ToSet(steer) => m \notin out.unsent /\ m \notin out.fresh
    BY <1>5, <1>6, <1>7
  <1>14. m \in out.fresh => m \notin out.unsent
    BY <1>6, <1>7
  <1> QED BY <1>7, <1>10, <1>11, <1>12, <1>13, <1>14

\* The elements after one was added.
LEMMA ToSetAppend ==
    ASSUME NEW S, NEW s \in Seq(S), NEW x \in S
    PROVE  /\ ToSet(Append(s, x)) = ToSet(s) \cup {x}
           /\ ToSet(<<x>> \o s) = ToSet(s) \cup {x}
  <1> DEFINE t == <<x>>
  <1>1. t \in Seq(S) /\ Append(s, x) = s \o t /\ ToSet(t) = {x}
    BY DEF ToSet
  <1> HIDE DEF t
  <1>2. ToSet(s \o t) = ToSet(s) \cup ToSet(t) /\ ToSet(t \o s) = ToSet(t) \cup ToSet(s)
    BY <1>1, ToSetConcat
  <1>3. ToSet(t \o s) = ToSet(s) \cup {x}
    BY <1>1, <1>2
  <1> QED BY <1>1, <1>2, <1>3 DEF t

\* storeUsageHeld stores a message, once.
LEMMA StoreIs ==
    ASSUME TypeOK, NEW m \in Messages
    PROVE  /\ ToSet(Store(m)) = ToSet(stored) \cup {m}
           /\ StoredOnce => \A x \in Messages : Occurs(x, Store(m)) <= 1
  <1>0. stored \in Seq(Messages)
    BY DEF TypeOK
  <1>1. CASE m \in ToSet(stored)
    BY <1>1 DEF Store, StoredOnce
  <1>2. CASE m \notin ToSet(stored)
    <2>1. Store(m) = <<m>> \o stored \/ Store(m) = Append(stored, m)
      BY <1>2 DEF Store
    <2>3. ToSet(<<m>> \o stored) = ToSet(stored) \cup {m} /\ ToSet(Append(stored, m)) = ToSet(stored) \cup {m}
      BY <1>0, ToSetAppend
    <2>4. ASSUME StoredOnce, NEW x \in Messages PROVE Occurs(x, Store(m)) <= 1
      <3>1. Occurs(x, Store(m)) = Occurs(x, stored) + Is(m, x)
        BY ZenonT(30), <1>0, <2>1, OccursAppend
      <3>2. PICK a, i \in Nat : a = Occurs(x, stored) /\ i = Is(m, x)
        BY <1>0, OccursType, IsType
      <3>3. a <= 1 /\ i <= 1 /\ (i = 1 => a = 0)
        BY <1>0, <1>2, <2>4, <3>2, OccursType, IsType DEF StoredOnce
      <3>4. a + i <= 1
        BY <3>3
      <3> QED BY <3>1, <3>2, <3>4
    <2> QED BY <2>1, <2>3, <2>4
  <1> QED BY <1>1, <1>2

\* forgetUsageHeld takes the messages off the store and nothing else.
LEMMA ForgetIs ==
    ASSUME TypeOK, NEW S
    PROVE  /\ ToSet(Forget(S)) = ToSet(stored) \ S
           /\ StoredOnce => \A x \in Messages : Occurs(x, Forget(S)) <= 1
  <1>0. stored \in Seq(Messages) /\ ToSet(stored) \subseteq Messages
    BY DEF TypeOK, ToSet
  <1>1. ToSet(Forget(S)) = ToSet(stored) \cap (Messages \ S)
    BY <1>0, KeptSeq DEF Forget
  <1>2. ASSUME NEW x \in Messages, StoredOnce PROVE Occurs(x, Forget(S)) <= 1
    <2>1. Occurs(x, Forget(S)) = IF x \in Messages \ S THEN Occurs(x, stored) ELSE 0
      BY <1>0, OccursKept DEF Forget
    <2> QED BY <1>2, <2>1 DEF StoredOnce
  <1> QED BY <1>0, <1>1, <1>2

\* Storing a list stores each of its messages, once.
LEMMA StoreAllIs ==
    ASSUME TypeOK, NEW l \in Seq(Messages)
    PROVE  /\ ToSet(StoreAll(l)) = ToSet(stored) \cup ToSet(l)
           /\ StoredOnce /\ (\A x \in Messages : Occurs(x, l) <= 1)
              => \A x \in Messages : Occurs(x, StoreAll(l)) <= 1
  <1> DEFINE K == Kept(l, Messages \ ToSet(stored))
  <1>4. K \in Seq(Messages)
    BY KeptSeq
  <1>0. stored \in Seq(Messages) /\ K \in Seq(Messages) /\ ToSet(l) \subseteq Messages
    BY <1>4 DEF TypeOK, ToSet
  <1>1. ToSet(K) = ToSet(l) \cap (Messages \ ToSet(stored))
    BY KeptSeq
  <1>2. ToSet(stored \o K) = ToSet(stored) \cup ToSet(K)
    BY <1>0, ToSetConcat
  <1>3. ASSUME StoredOnce, \A x \in Messages : Occurs(x, l) <= 1, NEW x \in Messages
        PROVE  Occurs(x, stored \o K) <= 1
    <2>1. Occurs(x, stored \o K) = Occurs(x, stored) + Occurs(x, K)
      BY <1>0, OccursConcat
    <2>2. Occurs(x, K) = IF x \in Messages \ ToSet(stored) THEN Occurs(x, l) ELSE 0
      BY OccursKept
    <2>3. PICK a, e \in Nat : a = Occurs(x, stored) /\ e = Occurs(x, K)
      BY <1>0, OccursType
    <2>4. a <= 1 /\ e <= 1 /\ (a # 0 => e = 0)
      <3>1. a <= 1
        BY <1>3, <2>3 DEF StoredOnce
      <3>2. CASE x \in ToSet(stored)
        BY <2>2, <2>3, <3>1, <3>2
      <3>3. CASE x \notin ToSet(stored)
        <4>1. a = 0
          BY <1>0, <2>3, <3>3, OccursType
        <4>2. e <= 1
          BY <1>3, <2>2, <2>3, <3>3
        <4> QED BY <4>1, <4>2
      <3> QED BY <3>2, <3>3
    <2>5. a + e <= 1
      BY <2>4
    <2> QED BY <2>1, <2>3, <2>5
  <1> QED BY <1>0, <1>1, <1>2, <1>3 DEF StoreAll

\* The restart store: it holds what the usage hold holds, each message once,
\* and none that was not handed to the inbox.
StoreKept == HeldStored /\ StoredOnce /\ StoredAccepted

\* A step that leaves the store and the usage-held list alone.
LEMMA StoreStill ==
    ASSUME StoreKept, UNCHANGED <<stored, usageHeld>>,
           out'.unsent \subseteq out.unsent, out'.fresh \subseteq out.fresh
    PROVE  StoreKept'
  BY DEF StoreKept, HeldStored, StoredOnce, StoredAccepted

\* What is parked after parkUsageHeld.
LEMMA ParkedSet ==
    ASSUME TypeOK, NEW x \in Messages
    PROVE  ToSet(ParkUsageHeld(x)) \subseteq ToSet(usageHeld) \cup {x}
  <1>0. usageHeld \in Seq(Messages)
    BY DEF TypeOK
  <1>1. /\ ToSet(<<x>> \o usageHeld) = ToSet(usageHeld) \cup {x}
        /\ ToSet(Append(usageHeld, x)) = ToSet(usageHeld) \cup {x}
    BY <1>0, ToSetAppend
  <1> QED BY <1>1 DEF ParkUsageHeld

LEMMA TakeUsageResumeStore ==
    ASSUME TypeOK, AtMostOnce, StoreKept, TakeUsageResume
    PROVE  StoreKept'
  <1>0. out \in Outside
    BY DEF TypeOK
  <1>1. CASE UNCHANGED <<out, stored, usageHeld>>
    BY <1>1, StoreStill
  <1>2. ASSUME NEW l \in out.fresh, out' = [out EXCEPT !.fresh = @ \ {l}], stored' = Store(l),
               usageHeld' = ParkUsageHeld(l)
        PROVE  StoreKept'
    <2>1. l \in Messages /\ out'.unsent = out.unsent /\ out'.fresh = out.fresh \ {l}
      BY <1>0, <1>2 DEF Outside, Messages
    <2>2. l \notin out.unsent
      BY <2>1, Apart
    <2>3. ToSet(stored') = ToSet(stored) \cup {l} /\ ToSet(usageHeld') \subseteq ToSet(usageHeld) \cup {l}
      BY <1>2, <2>1, StoreIs, ParkedSet
    <2>4. \A x \in Messages : Occurs(x, stored') <= 1
      BY <1>2, <2>1, StoreIs DEF StoreKept
    <2> QED BY <2>1, <2>2, <2>3, <2>4 DEF StoreKept, HeldStored, StoredOnce, StoredAccepted
  <1> QED BY <1>1, <1>2 DEF TakeUsageResume

\* A batch or an injection that runs leaves the store.
LEMMA ForgetStore ==
    ASSUME TypeOK, StoreKept, NEW S, stored' = Forget(S), out' = out,
           ToSet(usageHeld') \subseteq ToSet(usageHeld), ToSet(usageHeld') \cap S = {}
    PROVE  StoreKept'
  <1>1. ToSet(stored') = ToSet(stored) \ S /\ \A x \in Messages : Occurs(x, stored') <= 1
    BY ForgetIs DEF StoreKept
  <1> QED BY <1>1 DEF StoreKept, HeldStored, StoredOnce, StoredAccepted

LEMMA ReleaseUsageHeldStore ==
    ASSUME TypeOK, StoreKept, ReleaseUsageHeld
    PROVE  StoreKept'
  <1>1. CASE UNCHANGED <<usageHeld, stored>>
    BY <1>1, StoreStill DEF ReleaseUsageHeld
  <1>2. CASE StartBatch(usageHeld, Nothing) /\ usageHeld' = <<>>
    <2>1. stored' = Forget(ToSet(usageHeld)) /\ ToSet(usageHeld') = {} /\ out' = out
      BY <1>2 DEF StartBatch, ToSet, ReleaseUsageHeld
    <2> QED BY <2>1, ForgetStore
  <1> QED BY <1>1, <1>2 DEF ReleaseUsageHeld

LEMMA HandleDequeuedStore ==
    ASSUME TypeOK, Control, AtMostOnce, StoreKept, HandleDequeued
    PROVE  StoreKept'
  <1>0. w.pc = "relogin" /\ w.cur \in Messages /\ out' = out
    BY DEF HandleDequeued, Control, CurPlaced
  <1>1. InHand(w.cur) = 1
    BY <1>0 DEF InHand, Is
  <1>2. w.cur \notin ToSet(usageHeld) /\ w.cur \notin out.unsent /\ w.cur \notin out.fresh
    BY <1>0, <1>1, Apart
  <1>3. CASE UNCHANGED <<usageHeld, stored>>
    BY <1>0, <1>3, StoreStill
  <1>4. CASE usageHeld' = ParkUsageHeld(w.cur) /\ stored' = Store(w.cur)
    <2>3. ToSet(stored') = ToSet(stored) \cup {w.cur} /\ ToSet(usageHeld') \subseteq ToSet(usageHeld) \cup {w.cur}
      BY <1>0, <1>4, StoreIs, ParkedSet
    <2>4. \A x \in Messages : Occurs(x, stored') <= 1
      BY <1>0, <1>4, StoreIs DEF StoreKept
    <2> QED BY <1>0, <1>2, <2>3, <2>4 DEF StoreKept, HeldStored, StoredOnce, StoredAccepted
  <1>5. CASE stored' = Forget(ToSet(<<w.cur>>)) /\ UNCHANGED usageHeld
    <2>1. ToSet(<<w.cur>>) = {w.cur}
      BY DEF ToSet
    <2> QED BY <1>0, <1>2, <1>5, <2>1, ForgetStore
  <1> QED BY <1>3, <1>4, <1>5 DEF HandleDequeued, StartBatch

LEMMA DispatchParkStore ==
    ASSUME TypeOK, Control, AtMostOnce, StoreKept, DispatchPark
    PROVE  StoreKept'
  <1>0. w.pc = "dispatch" /\ w.cur \in Messages /\ out' = out /\ usageHeld' = usageHeld
    BY DEF DispatchPark, Control, CurPlaced, Messages
  <1>1. InHand(w.cur) = 1
    BY <1>0 DEF InHand, Is
  <1>2. w.cur \notin out.unsent /\ w.cur \notin out.fresh
    BY <1>0, <1>1, Apart
  <1>3. CASE stored' = stored
    BY <1>0, <1>3, StoreStill
  <1>4. CASE stored' = Store(w.cur)
    <2>3. ToSet(stored') = ToSet(stored) \cup {w.cur} /\ \A x \in Messages : Occurs(x, stored') <= 1
      BY <1>0, <1>4, StoreIs DEF StoreKept
    <2> QED BY <1>0, <1>2, <2>3 DEF StoreKept, HeldStored, StoredOnce, StoredAccepted
  <1> QED BY <1>3, <1>4 DEF DispatchPark

LEMMA RunInjectStore ==
    ASSUME TypeOK, Control, AtMostOnce, StoreKept, RunInject
    PROVE  StoreKept'
  <1>0. w.pc = "run" /\ w.cur \in Messages /\ out' = out /\ usageHeld' = usageHeld
    BY DEF RunInject, Control, CurPlaced, Messages
  <1>1. InHand(w.cur) = 1
    BY <1>0 DEF InHand, Is
  <1>2. w.cur \notin ToSet(usageHeld)
    BY <1>0, <1>1, Apart
  <1>3. CASE stored' = stored
    BY <1>0, <1>3, StoreStill
  <1>4. CASE stored' = Forget({w.cur})
    BY <1>0, <1>2, <1>4, ForgetStore
  <1> QED BY <1>3, <1>4 DEF RunInject

LEMMA DriveBatchStore ==
    ASSUME TypeOK, AtMostOnce, StoreKept, DriveBatch
    PROVE  StoreKept'
  <1>0. out' = out /\ usageHeld' = usageHeld /\ stored' = Forget(ToSet(QueuedUsers))
    BY DEF DriveBatch
  <1>1. ch \in Seq(Messages) /\ pending \in Seq(Messages)
    BY DEF TypeOK
  <1>2. ToSet(QueuedUsers) \subseteq ToSet(ch) \cup ToSet(pending) /\ ToSet(QueuedUsers) \subseteq Messages
    <2>1. Queued \in Seq(Messages) /\ ToSet(Queued) = ToSet(pending) \cup ToSet(ch)
      BY <1>1, ToSetConcat DEF Queued
    <2>2. ToSet(QueuedUsers) = ToSet(Queued) \cap {x \in Messages \ Injects : ~StoppedQueued(x)}
      BY <2>1, KeptSeq DEF QueuedUsers
    <2> QED BY <2>1, <2>2
  <1>3. \A x \in ToSet(QueuedUsers) : x \notin ToSet(usageHeld)
    BY <1>2, Apart
  <1> QED BY <1>0, <1>3, ForgetStore

LEMMA FollowUpStore ==
    ASSUME TypeOK, AtMostOnce, StoreKept, FollowUp
    PROVE  StoreKept'
  <1>0. out' = out /\ steer \in Seq(Messages) /\ usageHeld \in Seq(Messages) /\ ToSet(steer) \subseteq Messages
    BY TallyTypes DEF FollowUp, ToSet
  <1>1. CASE UNCHANGED <<usageHeld, stored>>
    BY <1>0, <1>1, StoreStill
  <1>2. CASE usageHeld' = usageHeld \o steer /\ stored' = StoreAll(steer)
    <2>1. \A x \in Messages : Occurs(x, steer) <= 1 /\ (x \in ToSet(steer) => x \notin out.unsent /\ x \notin out.fresh)
      BY Apart
    <2>2. ToSet(stored') = ToSet(stored) \cup ToSet(steer) /\ ToSet(usageHeld') = ToSet(usageHeld) \cup ToSet(steer)
      BY <1>0, <1>2, StoreAllIs, ToSetConcat
    <2>3. \A x \in Messages : Occurs(x, stored') <= 1
      BY <1>0, <1>2, <2>1, StoreAllIs DEF StoreKept
    <2> QED BY <1>0, <2>1, <2>2, <2>3 DEF StoreKept, HeldStored, StoredOnce, StoredAccepted
  <1> QED BY <1>1, <1>2 DEF FollowUp

\* Every step keeps the facts about the store.
LEMMA NextStore ==
    ASSUME TypeOK, Control, AtMostOnce, StoreKept, Next
    PROVE  StoreKept'
  <1>1. CASE TakeUsageResume \/ ReleaseUsageHeld \/ HandleDequeued \/ DispatchPark \/ RunInject \/ DriveBatch \/ FollowUp
    BY <1>1, TakeUsageResumeStore, ReleaseUsageHeldStore, HandleDequeuedStore, DispatchParkStore,
       RunInjectStore, DriveBatchStore, FollowUpStore
  <1>2. CASE Crash
    <2>1. stored' = stored /\ ToSet(usageHeld') = {} /\ out'.unsent = out.unsent /\ out'.fresh = out.fresh
      BY <1>2 DEF Crash, TypeOK, Outside, Spent, ToSet
    <2> QED BY <2>1 DEF StoreKept, HeldStored, StoredOnce, StoredAccepted
  <1>3. CASE Producers
    BY <1>3, StoreStill, ProducersStill
  <1>4. CASE Told
    BY <1>4, StoreStill, ToldSame
  <1>5. CASE /\ WorkerStep \/ PrimaryWritten \/ DrainSteerTexts \/ Grant \/ CancelSession
             /\ ~(TakeUsageResume \/ ReleaseUsageHeld \/ HandleDequeued \/ DispatchPark \/ RunInject
                  \/ DriveBatch \/ FollowUp)
    <2>1. UNCHANGED <<stored, usageHeld>>
      BY <1>5 DEF WorkerStep, PrimaryWritten, DrainSteerTexts, Grant, CancelSession, LoopTop,
         ReleaseHeldKeep,
         ReleaseHeldRun, ReleaseHeldDone, Arm, Select, Dequeued, GateEnded, DispatchUserInput,
            DispatchNow,
         Ready, RunPause, RunPaused, RunDefer, InjectReturns, PassGate, AcquireTurnSlots, TakeSlot,
         WaitTurnSlot, ClaimWaitCancel, RecheckGates, TurnReturns, BatchReturns, Settle, Exit
    <2> QED BY <1>5, <2>1, StoreStill, WorkerOutside
  <1> QED BY <1>1, <1>2, <1>3, <1>4, <1>5, NextSplit

\* What a process holds, message by message.
LEMMA InMemoryIs ==
    ASSUME TypeOK, Control, NEW m \in Messages
    PROVE  m \in InMemory <=>
             \/ Occurs(m, ch) # 0 \/ Occurs(m, pending) # 0 \/ Occurs(m, held) # 0
             \/ Occurs(m, usageHeld) # 0 \/ Occurs(m, steer) # 0 \/ Occurs(m, w.batch) # 0
             \/ Occurs(m, out.requeue) # 0 \/ Occurs(m, out.restore) # 0
             \/ Occurs(m, MessagesOf(deferred)) # 0 \/ InHand(m) # 0 \/ m \in out.steering
  <1>0. /\ ch \in Seq(Messages) /\ pending \in Seq(Messages) /\ held \in Seq(Messages)
        /\ usageHeld \in Seq(Messages) /\ steer \in Seq(Messages) /\ w.batch \in Seq(Messages)
        /\ out.requeue \in Seq(Messages) /\ out.restore \in Seq(Messages)
        /\ deferred \in Seq(Deferral) /\ MessagesOf(deferred) \in Seq(Messages)
    BY TallyTypes
  <1>1. /\ m \in ToSet(ch) <=> Occurs(m, ch) # 0
        /\ m \in ToSet(pending) <=> Occurs(m, pending) # 0
        /\ m \in ToSet(held) <=> Occurs(m, held) # 0
        /\ m \in ToSet(usageHeld) <=> Occurs(m, usageHeld) # 0
        /\ m \in ToSet(steer) <=> Occurs(m, steer) # 0
        /\ m \in ToSet(w.batch) <=> Occurs(m, w.batch) # 0
        /\ m \in ToSet(out.requeue) <=> Occurs(m, out.requeue) # 0
        /\ m \in ToSet(out.restore) <=> Occurs(m, out.restore) # 0
        /\ m \in ToSet(MessagesOf(deferred)) <=> Occurs(m, MessagesOf(deferred)) # 0
    <2>1. \A x \in Seq(Messages) : Occurs(m, x) = 0 <=> m \notin ToSet(x)
      BY OccursType
    <2> QED BY <1>0, <2>1
  <1>2. ToSet(MessagesOf(deferred)) = {e.msg : e \in ToSet(deferred)}
    BY <1>0, MessagesOfSeq
  <1> DEFINE s1 == ch \o pending
             s2 == s1 \o held
             s3 == s2 \o usageHeld
             s4 == s3 \o steer
             s5 == s4 \o w.batch
             s6 == s5 \o out.requeue
             s7 == s6 \o out.restore
  <1>3. /\ s1 \in Seq(Messages) /\ s2 \in Seq(Messages) /\ s3 \in Seq(Messages) /\ s4 \in Seq(Messages)
        /\ s5 \in Seq(Messages) /\ s6 \in Seq(Messages) /\ s7 \in Seq(Messages)
    BY <1>0
  <1>4. ToSet(s1) = ToSet(ch) \cup ToSet(pending)
    BY <1>0, ToSetConcat
  <1>5. ToSet(s2) = ToSet(s1) \cup ToSet(held)
    <2> HIDE DEF s1
    <2> QED BY <1>0, <1>3, ToSetConcat
  <1>6. ToSet(s3) = ToSet(s2) \cup ToSet(usageHeld)
    <2> HIDE DEF s2
    <2> QED BY <1>0, <1>3, ToSetConcat
  <1>7. ToSet(s4) = ToSet(s3) \cup ToSet(steer)
    <2> HIDE DEF s3
    <2> QED BY <1>0, <1>3, ToSetConcat
  <1>8. ToSet(s5) = ToSet(s4) \cup ToSet(w.batch)
    <2> HIDE DEF s4
    <2> QED BY <1>0, <1>3, ToSetConcat
  <1>9. ToSet(s6) = ToSet(s5) \cup ToSet(out.requeue)
    <2> HIDE DEF s5
    <2> QED BY <1>0, <1>3, ToSetConcat
  <1>10. ToSet(s7) = ToSet(s6) \cup ToSet(out.restore)
    <2> HIDE DEF s6
    <2> QED BY <1>0, <1>3, ToSetConcat
  <1>11. InMemory = ToSet(s7) \cup {e.msg : e \in ToSet(deferred)} \cup out.steering \cup ({w.cur} \ {Nothing})
    BY DEF InMemory
  <1> HIDE DEF s1, s2, s3, s4, s5, s6, s7
  <1>12. m \in InMemory <=>
           \/ m \in ToSet(ch) \/ m \in ToSet(pending) \/ m \in ToSet(held) \/ m \in ToSet(usageHeld)
           \/ m \in ToSet(steer) \/ m \in ToSet(w.batch) \/ m \in ToSet(out.requeue)
           \/ m \in ToSet(out.restore) \/ m \in ToSet(MessagesOf(deferred)) \/ m \in out.steering
           \/ (m = w.cur /\ m # Nothing)
    BY <1>2, <1>4, <1>5, <1>6, <1>7, <1>8, <1>9, <1>10, <1>11
  <1>13. m # Nothing
    BY InboxAssumption
  <1>14. InHand(m) # 0 => m = w.cur
    BY <1>13 DEF InHand, Is
  <1>15. m = w.cur => InHand(m) # 0 \/ m \in ToSet(held)
    <2>1. CASE w.walk > 0 /\ w.pc = "ready"
      <3>1. w.walk <= Len(held) /\ w.cur = held[w.walk]
        BY <2>1 DEF Control, WalkPlaced
      <3>2. w.walk \in Nat
        BY DEF TypeOK, Worker
      <3>3. w.walk \in DOMAIN held
        BY <1>0, <2>1, <3>1, <3>2
      <3>4. w.cur \in ToSet(held)
        BY <3>1, <3>3 DEF ToSet
      <3> QED BY <3>4
    <2>2. CASE ~(w.walk > 0 /\ w.pc = "ready")
      BY <2>2 DEF InHand, Is
    <2> QED BY <2>1, <2>2
  <1> QED BY <1>1, <1>12, <1>13, <1>14, <1>15

\* A crash loses what is in memory only; what is stored comes back, once.
LEMMA CrashCounts ==
    ASSUME TypeOK, Control, AtMostOnce, ExactlyOnce, StoredOnce, StoredAccepted, Crash
    PROVE  AtMostOnce' /\ ExactlyOnce'
  <1>0. TypeOK' /\ out \in Outside /\ stored \in Seq(Messages)
    BY CrashType DEF TypeOK
  <1>1. /\ out'.unsent = out.unsent /\ out'.fresh = out.fresh /\ out'.steering = {}
        /\ out'.requeue = <<>> /\ out'.restore = stored
        /\ out'.restored = out.restored \cup ToSet(stored)
    BY <1>0 DEF Crash, Outside, Spent
  <1>2. /\ ch' = <<>> /\ pending' = <<>> /\ held' = <<>> /\ deferred' = <<>> /\ usageHeld' = <<>>
        /\ steer' = <<>> /\ w'.batch = <<>> /\ w'.cur = Nothing
        /\ fate' = Ended(InMemory \ ToSet(stored), "lost")
    BY DEF Crash
  <1> DEFINE After(m, e1, e2, rr, f1) ==
        /\ e1 = In(m, out.unsent) /\ e2 = In(m, out.fresh) /\ rr = Occurs(m, stored)
        /\ f1 = Len(fate'[m]) /\ Places(m)' = e1 + e2 + rr
  <1>3. ASSUME NEW m \in Messages
        PROVE  \E e1, e2, rr, f1 \in Nat : After(m, e1, e2, rr, f1)
    <2>1. PICK c1, p1, h1, u1, s1, b1, q1, r1, d1, o1, k1, f1 \in Nat :
              TalliedNext(m, c1, p1, h1, u1, s1, b1, q1, r1, d1, o1, k1, f1)
      BY <1>0, TallyThen
    <2>2. PICK e1, e2, e3 \in Nat : e1 = In(m, out.unsent) /\ e2 = In(m, out.fresh) /\ e3 = In(m, {})
      BY IsType
    <2>3. e3 = 0
      BY <2>2, IsType
    <2>4. o1 = e1 + e2 + e3
      BY <1>1, <2>1, <2>2 DEF TalliedNext, OutsideOf
    <2>5. Occurs(m, <<>>) = 0
      BY OccursOne
    <2>6. Occurs(m, MessagesOf(<<>>)) = 0
      <3>1. <<>> \in Seq(Deferral)
        OBVIOUS
      <3>2. MessagesOf(<<>>) \in Seq(Injects) /\ ToSet(MessagesOf(<<>>)) = {e.msg : e \in ToSet(<<>>)}
        BY <3>1, MessagesOfSeq
      <3>3. m \notin ToSet(MessagesOf(<<>>))
        BY <3>2 DEF ToSet
      <3> QED BY <3>2, <3>3, OccursType
    <2>7. c1 = 0 /\ p1 = 0 /\ h1 = 0 /\ u1 = 0 /\ s1 = 0 /\ b1 = 0 /\ q1 = 0 /\ d1 = 0
      BY <1>1, <1>2, <2>1, <2>5, <2>6 DEF TalliedNext
    <2>8. m # Nothing
      BY InboxAssumption
    <2>9. k1 = 0 /\ r1 = Occurs(m, stored) /\ f1 = Len(fate'[m])
      BY <1>1, <1>2, <2>1, <2>8 DEF TalliedNext, InHand, Is
    <2>10. Places(m)' = c1 + p1 + h1 + u1 + s1 + b1 + q1 + r1 + d1 + o1 + k1
      BY <2>1 DEF TalliedNext
    <2>11. c1 + p1 + h1 + u1 + s1 + b1 + q1 + r1 + d1 + o1 + k1 = e1 + e2 + r1
      BY <2>3, <2>4, <2>7, <2>9
    <2>12. After(m, e1, e2, r1, f1)
      BY <2>2, <2>9, <2>10, <2>11
    <2> HIDE DEF After
    <2> QED BY <2>12
  <1>4. ASSUME NEW m \in Messages PROVE (Places(m) <= 1)'
    <2>1. PICK e1, e2, rr, f1 \in Nat : After(m, e1, e2, rr, f1)
      BY <1>3
    <2>2. PICK c, p, h, u, s, b, q, r, d, o, k, f \in Nat :
              Tallied(m, c, p, h, u, s, b, q, r, d, o, k, f)
      BY TallyNow
    <2>3. PICK e3 \in Nat : e3 = In(m, out.steering)
      BY IsType
    <2>4. o = e1 + e2 + e3
      BY <2>1, <2>2, <2>3 DEF Tallied, OutsideOf
    <2>5. c + p + h + u + s + b + q + r + d + o + k <= 1
      BY <2>2 DEF Tallied, AtMostOnce
    <2>6. e1 + e2 <= 1
      BY <2>4, <2>5
    <2>7. rr <= 1
      BY <2>1 DEF StoredOnce
    <2>8. rr # 0 => m \in ToSet(stored)
      BY <1>0, <2>1, OccursType
    <2>9. m \in ToSet(stored) => e1 = 0 /\ e2 = 0
      BY <2>1, IsType DEF StoredAccepted
    <2>10. e1 + e2 + rr <= 1
      BY <2>6, <2>7, <2>8, <2>9
    <2> QED BY <2>1, <2>10
  <1>5. ASSUME NEW m \in Messages \ out'.restored PROVE (Places(m) + Len(fate[m]) = 1)'
    <2>0. m \in Messages \ out.restored /\ m \notin ToSet(stored)
      BY <1>1, <1>5
    <2>1. PICK e1, e2, rr, f1 \in Nat : After(m, e1, e2, rr, f1)
      BY <1>3
    <2>2. PICK c, p, h, u, s, b, q, r, d, o, k, f \in Nat :
              Tallied(m, c, p, h, u, s, b, q, r, d, o, k, f)
      BY TallyNow
    <2>3. PICK e3, i \in Nat : e3 = In(m, out.steering) /\ i = In(m, InMemory \ ToSet(stored))
      BY IsType
    <2>4. o = e1 + e2 + e3
      BY <2>1, <2>2, <2>3 DEF Tallied, OutsideOf
    <2>5. c + p + h + u + s + b + q + r + d + o + k + f = 1
      BY <2>0, <2>2 DEF Tallied, ExactlyOnce
    <2>6. rr = 0
      BY <1>0, <2>0, <2>1, OccursType
    <2>7. f1 = f + i
      BY <1>2, <2>1, <2>2, <2>3, EndedLen DEF Tallied
    <2>8. m \in InMemory <=>
             \/ c # 0 \/ p # 0 \/ h # 0 \/ u # 0 \/ s # 0 \/ b # 0 \/ q # 0 \/ r # 0 \/ d # 0 \/ k # 0
             \/ m \in out.steering
      BY <2>0, <2>2, InMemoryIs DEF Tallied
    <2>9. (m \in out.steering <=> e3 # 0) /\ (i = 1 <=> m \in InMemory) /\ (i = 0 \/ i = 1)
      BY <2>0, <2>3, IsType
    <2>10. i = 1 <=>
             \/ c # 0 \/ p # 0 \/ h # 0 \/ u # 0 \/ s # 0 \/ b # 0 \/ q # 0 \/ r # 0 \/ d # 0 \/ k # 0
             \/ e3 # 0
      BY <2>8, <2>9
    <2>11. i = c + p + h + u + s + b + q + r + d + k + e3
      BY <2>4, <2>5, <2>9, <2>10
    <2>12. e1 + e2 + rr + f1 = 1
      BY <2>4, <2>5, <2>6, <2>7, <2>11
    <2> QED BY <2>1, <2>12
  <1> HIDE DEF After
  <1> QED BY <1>4, <1>5 DEF AtMostOnce, ExactlyOnce

-----------------------------------------------------------------------------
(* Logins.                                                                 *)

\* Something is paused for a login.
LoginWaits == \E x \in ToSet(deferred) : x.by = Login

\* LoginNotStranded, in the terms of the lemmas below.
LEMMA LoginIs ==
    LoginNotStranded <=> (LoginWaits => env.login \/ Login \in out.due \/ w.pc = "paused")
  BY DEF LoginNotStranded, LoginWaits, ToSet

LEMMA LoginIsNext ==
    LoginNotStranded' <=> (LoginWaits' => env'.login \/ Login \in out'.due \/ w'.pc = "paused")
  BY DEF LoginNotStranded, LoginWaits, ToSet

\* A step that pauses nothing and ends no login without its drain.
LEMMA LoginKept ==
    ASSUME LoginNotStranded, LoginWaits' => LoginWaits,
           env.login => env'.login \/ Login \in out'.due,
           Login \in out.due => Login \in out'.due, w.pc = "paused" => w'.pc = "paused"
    PROVE  LoginNotStranded'
  BY LoginIs, LoginIsNext

\* The deferred list after one more deferral.
LEMMA DeferredAppend ==
    ASSUME NEW l \in Seq(Deferral), NEW d \in Deferral
    PROVE  ToSet(Append(l, d)) = ToSet(l) \cup {d}
  <1>1. /\ Append(l, d) \in Seq(Deferral) /\ Len(Append(l, d)) = Len(l) + 1 /\ Len(l) \in Nat
        /\ \A i \in 1..Len(l) : Append(l, d)[i] = l[i]
        /\ Append(l, d)[Len(l) + 1] = d
    OBVIOUS
  <1>2. DOMAIN Append(l, d) = DOMAIN l \cup {Len(l) + 1} /\ DOMAIN l = 1..Len(l)
    BY <1>1
  <1> QED BY <1>1, <1>2 DEF ToSet

\* The worker's steps: a pause is checked again, and a login that a turn ends is
\* drained.
LEMMA WorkerLogin ==
    ASSUME TypeOK, Control, LoginNotStranded,
           WorkerStep \/ PrimaryWritten \/ DrainSteerTexts \/ Grant \/ CancelSession
    PROVE  LoginNotStranded'
  <1>0. out \in Outside /\ w \in Worker /\ deferred \in Seq(Deferral) /\ env \in Environment
    BY DEF TypeOK, Deferral
  <1>1. CASE RunPause
    <2>1. w'.pc = "paused"
      BY <1>0, <1>1 DEF RunPause, Worker
    <2> QED BY <2>1, LoginIsNext
  <1>2. CASE RunPaused
    <2>1. CASE env.login
      BY <1>2, <2>1, LoginIsNext DEF RunPaused
    <2>2. CASE ~env.login
      <3>1. deferred' = Kept(deferred, {x \in ToSet(deferred) : x.by # Login})
        BY <1>2, <2>2 DEF RunPaused, NotHeldBy
      <3>2. ToSet(deferred') \subseteq {x \in ToSet(deferred) : x.by # Login}
        BY <1>0, <3>1, KeptSeq
      <3>3. ~LoginWaits'
        BY <3>2 DEF LoginWaits
      <3> QED BY <3>3, LoginIsNext
    <2> QED BY <2>1, <2>2
  <1>3. CASE RunDefer
    <2>0. w.ask \in Asks /\ w.ask # Login /\ w.pc = "deferring" /\ w.cur \in Injects
      BY <1>3, InboxAssumption DEF RunDefer, Control, CurPlaced
    <2>1. PICK d \in Deferral : deferred' = Append(deferred, d) /\ d.by = w.ask
      <3>1. [msg |-> w.cur, by |-> w.ask] \in Deferral
        BY <2>0 DEF Deferral
      <3> QED BY <1>3, <3>1 DEF RunDefer
    <2>2. ToSet(deferred') = ToSet(deferred) \cup {d}
      <3>1. ToSet(Append(deferred, d)) = ToSet(deferred) \cup {d}
        BY <1>0, DeferredAppend
      <3> QED BY <2>1, <3>1
    <2>3. LoginWaits' => LoginWaits
      BY <2>0, <2>1, <2>2 DEF LoginWaits
    <2> QED BY <1>3, <2>0, <2>3, LoginKept DEF RunDefer
  <1>4. CASE Settle
    <2>1. (env' = env /\ out' = out) \/ (env' = [env EXCEPT !.login = FALSE] /\ Login \in out'.due)
      BY <1>0, <1>4 DEF Settle, Outside
    <2>2. env.login => env'.login \/ Login \in out'.due
      BY <2>1
    <2>3. Login \in out.due => Login \in out'.due
      BY <2>1
    <2>4. deferred' = deferred /\ w.pc = "settle"
      BY <1>4 DEF Settle
    <2> QED BY <2>2, <2>3, <2>4, LoginKept DEF LoginWaits
  <1>5. CASE Grant \/ CancelSession
    <2>1. w'.pc = w.pc /\ UNCHANGED <<deferred, env, out>>
      BY <1>0, <1>5 DEF Grant, CancelSession, Worker
    <2> QED BY <2>1, LoginKept DEF LoginWaits
  <1>6. CASE ~(RunPause \/ RunPaused \/ RunDefer \/ Settle \/ Grant \/ CancelSession)
    <2>1. w.pc # "paused"
      BY <1>6 DEF WorkerStep, GateShut, Gates, LoopTop, ReleaseHeldKeep, ReleaseHeldRun,
         ReleaseHeldDone, TakeUsageResume, ReleaseUsageHeld, Arm, Select, Dequeued, HandleDequeued,
         GateEnded, DispatchUserInput, DispatchPark, DispatchNow, Ready, RunInject, InjectReturns,
         PassGate, AcquireTurnSlots, TakeSlot, WaitTurnSlot, ClaimWaitCancel, RecheckGates,
         DriveBatch, TurnReturns, FollowUp, BatchReturns, Exit, PrimaryWritten, DrainSteerTexts
    <2>2. UNCHANGED <<deferred, env>>
      BY <1>6 DEF WorkerStep, LoopTop, ReleaseHeldKeep, ReleaseHeldRun, ReleaseHeldDone,
         TakeUsageResume, ReleaseUsageHeld, Arm, Select, Dequeued, HandleDequeued, GateEnded,
         DispatchUserInput, DispatchPark, DispatchNow, Ready, RunInject, InjectReturns, PassGate,
         AcquireTurnSlots, TakeSlot, WaitTurnSlot, ClaimWaitCancel, RecheckGates, DriveBatch,
         TurnReturns, FollowUp, BatchReturns, Exit, PrimaryWritten, DrainSteerTexts
    <2>3. out'.due = out.due
      <3>1. CASE TakeUsageResume
        BY <1>0, <3>1 DEF TakeUsageResume, Outside
      <3>2. CASE ~TakeUsageResume
        BY <1>6, <3>2 DEF WorkerStep, LoopTop, ReleaseHeldKeep, ReleaseHeldRun, ReleaseHeldDone,
           ReleaseUsageHeld, Arm, Select, Dequeued, HandleDequeued, GateEnded, DispatchUserInput,
           DispatchPark, DispatchNow, Ready, RunInject, InjectReturns, PassGate, AcquireTurnSlots,
           TakeSlot, WaitTurnSlot, ClaimWaitCancel, RecheckGates, DriveBatch, TurnReturns, FollowUp,
           BatchReturns, Exit, PrimaryWritten, DrainSteerTexts
      <3> QED BY <3>1, <3>2
    <2> QED BY <2>1, <2>2, <2>3, LoginKept DEF LoginWaits
  <1> QED BY <1>1, <1>2, <1>3, <1>4, <1>5, <1>6

\* A drain for the login takes everything paused for it.
LEMMA ProducersLogin ==
    ASSUME TypeOK, LoginNotStranded, Producers
    PROVE  LoginNotStranded'
  <1>0. out \in Outside /\ deferred \in Seq(Deferral) /\ UNCHANGED <<w, env>>
    BY ProducersStill DEF TypeOK, Deferral
  <1>1. ASSUME NEW by \in Asks \cup {Login}, DrainDeferredInjects(by) PROVE LoginNotStranded'
    <2>1. deferred' = Kept(deferred, {x \in ToSet(deferred) : x.by # by}) /\ out'.due = out.due \ {by}
      BY <1>0, <1>1 DEF DrainDeferredInjects, NotHeldBy, Outside
    <2>2. ToSet(deferred') \subseteq {x \in ToSet(deferred) : x.by # by}
      BY <1>0, <2>1, KeptSeq
    <2>3. CASE by = Login
      BY <2>2, <2>3, LoginIsNext DEF LoginWaits
    <2>4. CASE by # Login
      BY <1>0, <2>1, <2>2, <2>4, LoginKept DEF LoginWaits
    <2> QED BY <2>3, <2>4
  <1>2. ASSUME NEW i \in Injects, ReleaseExpiredAskHolds(i) PROVE LoginNotStranded'
    <2>1. out'.due = out.due /\ \E T : deferred' = Kept(deferred, T)
      BY <1>0, <1>2 DEF ReleaseExpiredAskHolds, Outside
    <2>2. ToSet(deferred') \subseteq ToSet(deferred)
      BY <1>0, <2>1, KeptSeq
    <2> QED BY <1>0, <2>1, <2>2, LoginKept DEF LoginWaits
  <1>3. ASSUME \/ \E x \in Users : EnqueueUser(x)
               \/ \E x \in Injects : EnqueueInject(x)
               \/ \E x \in Messages : AppendSteer(x)
               \/ Requeue \/ Restore
        PROVE  LoginNotStranded'
    <2>1. deferred' = deferred
      BY <1>3 DEF EnqueueUser, EnqueueInject, AppendSteer, Requeue, Restore
    <2>2. ASSUME NEW x, NEW r, NEW rest \in Outside, rest.due = out.due,
                 SteerOrPush(x, r, rest) \/ EnqueueInjection(x, r, rest)
          PROVE  out'.due = out.due
      BY <2>2 DEF SteerOrPush, EnqueueInjection, Outside
    <2>4. ASSUME NEW x \in Users, EnqueueUser(x) PROVE out'.due = out.due
      <3> DEFINE rest == [out EXCEPT !.unsent = @ \ {x}]
      <3>1. rest \in Outside /\ rest.due = out.due
        BY <1>0 DEF Outside
      <3> HIDE DEF rest
      <3>2. out' = rest \/ SteerOrPush(x, "rejected", rest)
        BY <2>4 DEF EnqueueUser, rest
      <3> QED BY <2>2, <3>1, <3>2
    <2>5. ASSUME NEW x \in Injects, EnqueueInject(x) PROVE out'.due = out.due
      <3> DEFINE rest == [out EXCEPT !.unsent = @ \ {x}]
      <3>1. rest \in Outside /\ rest.due = out.due
        BY <1>0 DEF Outside
      <3> HIDE DEF rest
      <3>2. EnqueueInjection(x, "rejected", rest)
        BY <2>5 DEF EnqueueInject, rest
      <3> QED BY <2>2, <3>1, <3>2
    <2>6. ASSUME Requeue PROVE out'.due = out.due
      <3> DEFINE rest == [out EXCEPT !.requeue = Tail(@)]
      <3>0. out.requeue \in Seq(Injects) /\ out.requeue # <<>>
        BY <1>0, <2>6 DEF Outside, Requeue
      <3>3. Tail(out.requeue) \in Seq(Injects)
        BY <3>0
      <3>1. rest \in Outside /\ rest.due = out.due
        BY <1>0, <3>3 DEF Outside
      <3> HIDE DEF rest
      <3>2. EnqueueInjection(Head(out.requeue), "refused", rest)
        BY <2>6 DEF Requeue, rest
      <3> QED BY <2>2, <3>1, <3>2
    <2>7. ASSUME Restore \/ \E x \in Messages : AppendSteer(x) PROVE out'.due = out.due
      BY <1>0, <2>7 DEF Restore, AppendSteer, Outside
    <2>8. out'.due = out.due
      BY <1>3, <2>4, <2>5, <2>6, <2>7
    <2> QED BY <1>0, <2>1, <2>8, LoginKept DEF LoginWaits
  <1> QED BY <1>1, <1>2, <1>3 DEF Producers

\* A login that completes makes its drain due.
LEMMA ToldLogin ==
    ASSUME TypeOK, LoginNotStranded, Told
    PROVE  LoginNotStranded'
  <1>0. out \in Outside /\ env \in Environment /\ UNCHANGED <<deferred, w>>
    BY ToldSame DEF TypeOK
  <1>1. out.due \subseteq out'.due
    BY <1>0 DEF Told, WatchInjectGate, UsageLifts, ReloginStart, ReloginComplete, ReloginRelease,
       AskResolved,
           BeginShutdown, StopInbox, HoldAges, Close, Open, UsageHoldStarts, AskShown, Spent,
              Outside
  <1>2. env.login => env'.login \/ Login \in out'.due
    <2>1. CASE ReloginComplete
      BY <1>0, <2>1 DEF ReloginComplete, Outside
    <2>2. CASE \E e \in {"silent", "compacting", "work", "adopted"} : Close(e) \/ Open(e)
      BY <1>0, <2>2 DEF Close, Open, Environment
    <2>3. CASE ReloginStart \/ ReloginRelease \/ AskResolved \/ BeginShutdown \/ StopInbox \/ UsageLifts
      BY <1>0, <2>3 DEF ReloginStart, ReloginRelease, AskResolved, BeginShutdown, StopInbox,
         UsageLifts,
         Environment
    <2>4. CASE \/ WatchInjectGate \/ \E i \in Injects : HoldAges(i)
               \/ \E e \in {"Hold", "Stop"} : UsageHoldStarts(e)
               \/ \E a \in Asks : AskShown(a)
      BY <1>0, <2>4 DEF WatchInjectGate, HoldAges, UsageHoldStarts, AskShown, Environment
    <2> QED BY <2>1, <2>2, <2>3, <2>4 DEF Told
  <1> QED BY <1>0, <1>1, <1>2, LoginKept DEF LoginWaits

\* Every step keeps LoginNotStranded.
LEMMA NextLogin ==
    ASSUME TypeOK, Control, LoginNotStranded, Next
    PROVE  LoginNotStranded'
  <1>1. CASE Crash
    <2>1. ToSet(deferred') = {}
      BY <1>1 DEF Crash, ToSet
    <2> QED BY <2>1, LoginIsNext DEF LoginWaits
  <1> QED BY <1>1, NextSplit, WorkerLogin, ProducersLogin, ToldLogin

-----------------------------------------------------------------------------
(* The watch on the held list.                                             *)

LEMMA WatchedIs == Watched' <=> (wake'.hint \/ ToSet(held') \subseteq wake'.watch \/ (wake'.watch = {} /\ Looking'))
  BY DEF Watched

\* A step that leaves the watch alone and parks nothing.
LEMMA WatchedKept ==
    ASSUME Watched, wake'.watch = wake.watch, wake'.hint = wake.hint,
           ToSet(held') \subseteq ToSet(held), Looking => Looking'
    PROVE  Watched'
  BY WatchedIs DEF Watched

\* Inside the walk the worker stays inside it.
LEMMA LookingStays ==
    ASSUME w'.walk = w.walk, w.pc \notin {"top", "resume", "usage", "arm", "exit"}
    PROVE  Looking => Looking'
  BY DEF Looking

\* What ensureHeldWatch leaves behind covers the held list, or a signal is
\* already pending.
LEMMA EnsureCovers ==
    ASSUME wake \in Wakeups, held \in Seq(Injects), Watched,
           NEW x, x = IF held = <<>> THEN StopHeldWatch ELSE EnsureHeldWatch(held)
    PROVE  x.hint \/ ToSet(held) \subseteq x.watch
  <1>1. CASE held = <<>>
    BY <1>1 DEF ToSet
  <1>2. CASE held # <<>> /\ wake.watch # {}
    BY <1>2 DEF EnsureHeldWatch, Watched
  <1>3. CASE held # <<>> /\ wake.watch = {}
    <2>1. x = Watching(held)
      BY <1>3 DEF EnsureHeldWatch
    <2>2. x.watch = ToSet(held)
      BY <2>1 DEF Watching, Wakeups
    <2> QED BY <2>2
  <1> QED BY <1>1, <1>2, <1>3

\* The worker never goes to wait with an injection unwatched.
LEMMA WorkerWatched ==
    ASSUME TypeOK, Control, NoUsage, Watched,
           WorkerStep \/ PrimaryWritten \/ DrainSteerTexts \/ Grant \/ CancelSession
    PROVE  Watched'
  <1>0. w \in Worker /\ wake \in Wakeups /\ held \in Seq(Injects) /\ w.walk \in Nat
    BY DEF TypeOK, Worker
  <1>1. CASE LoopTop \/ ReleaseHeldKeep \/ ReleaseHeldRun
    <2>1. w'.walk > 0
      <3>1. CASE LoopTop
        BY <1>0, <3>1 DEF LoopTop, Worker
      <3>2. CASE ReleaseHeldKeep
        <4>1. w'.walk = w.walk + 1
          BY <1>0, <3>2 DEF ReleaseHeldKeep, Worker
        <4> QED BY <1>0, <4>1
      <3>3. CASE ReleaseHeldRun
        <4>1. w'.walk = w.walk /\ w.pc = "walk"
          BY <1>0, <3>3 DEF ReleaseHeldRun, Worker
        <4> QED BY <4>1 DEF Control, WalkPlaced
      <3> QED BY <1>1, <3>1, <3>2, <3>3
    <2>2. UNCHANGED <<wake, held>>
      BY <1>1 DEF LoopTop, ReleaseHeldKeep, ReleaseHeldRun
    <2> QED BY <2>1, <2>2, WatchedKept DEF Looking
  <1>2. CASE ReleaseHeldDone
    <2>0. held' = held
      BY <1>2 DEF ReleaseHeldDone
    <2>1. CASE held = <<>>
      BY <2>0, <2>1, WatchedIs DEF ToSet
    <2>2. CASE held # <<>> /\ w.batch = <<>>
      <3>1. wake' = wake /\ w'.pc = "resume"
        BY <1>0, <1>2, <2>2 DEF ReleaseHeldDone, Worker
      <3> QED BY <2>0, <3>1, WatchedKept DEF Looking
    <2>3. CASE held # <<>> /\ w.batch # <<>>
      <3>1. wake' = EnsureHeldWatch(held)
        BY <1>2, <2>3 DEF ReleaseHeldDone
      <3>2. wake'.hint \/ ToSet(held) \subseteq wake'.watch
        BY <1>0, <2>3, <3>1, EnsureCovers
      <3> QED BY <2>0, <3>2, WatchedIs
    <2> QED BY <2>1, <2>2, <2>3
  <1>3. CASE TakeUsageResume \/ ReleaseUsageHeld
    <2>1. UNCHANGED <<wake, held>>
      BY <1>3 DEF TakeUsageResume, ReleaseUsageHeld, NoUsage
    <2>2. w'.pc \in {"usage", "arm"}
      BY <1>0, <1>3 DEF TakeUsageResume, ReleaseUsageHeld, NoUsage, Worker
    <2> QED BY <2>1, <2>2, WatchedKept DEF Looking
  <1>4. CASE Arm
    <2> DEFINE x == IF held = <<>> THEN StopHeldWatch ELSE EnsureHeldWatch(held)
    <2>1. x \in Wakeups
      <3>1. ToSet(held) \subseteq Injects
        BY <1>0 DEF ToSet
      <3>2. StopHeldWatch \in Wakeups
        BY <1>0 DEF StopHeldWatch, Wakeups
      <3>3. Watching(held) \in Wakeups
        BY <1>0, <3>1 DEF Watching, Wakeups
      <3> QED BY <1>0, <3>2, <3>3 DEF EnsureHeldWatch
    <2>2. x.hint \/ ToSet(held) \subseteq x.watch
      BY <1>0, EnsureCovers
    <2> HIDE DEF x
    <2>3. held' = held /\ (wake' = x \/ \E u : wake' = [x EXCEPT !.usage = u])
      BY <1>4 DEF Arm, x
    <2>4. wake'.hint = x.hint /\ wake'.watch = x.watch
      BY <2>1, <2>3 DEF Wakeups
    <2> QED BY <2>2, <2>3, <2>4, WatchedIs
  <1>5. CASE Select
    <2>0. ~Looking /\ held' = held
      BY <1>0, <1>5 DEF Select, Looking, Control, WalkPlaced
    <2>1. CASE wake' = [StopHeldWatch EXCEPT !.usage = "off"] /\ w' = [w EXCEPT !.pc = "top"]
      <3>1. wake'.watch = {} /\ w'.pc = "top"
        BY <1>0, <2>1 DEF StopHeldWatch, Wakeups, Worker
      <3> QED BY <3>1, WatchedIs DEF Looking
    <2>2. CASE \/ wake' = [wake EXCEPT !.usage = "off"]
               \/ wake' = [wake EXCEPT !.usage = "off", !.kick = FALSE]
      <3>1. wake'.watch = wake.watch /\ wake'.hint = wake.hint
        BY <1>0, <2>2 DEF Wakeups
      <3> QED BY <2>0, <3>1, WatchedKept
    <2> QED BY <1>5, <2>1, <2>2 DEF Select
  <1>6. CASE GateEnded
    <2>1. w'.pc = "exit" /\ UNCHANGED <<wake, held>>
      BY <1>0, <1>6 DEF GateEnded, Leaving, Worker
    <2> QED BY <2>1, WatchedKept DEF Looking
  <1>7. CASE DispatchPark
    <2>1. wake' = [wake EXCEPT !.watch = ToSet(held'), !.hint = FALSE]
      BY <1>7 DEF DispatchPark, Watching
    <2>2. wake'.watch = ToSet(held')
      BY <1>0, <2>1 DEF Wakeups
    <2> QED BY <2>2, WatchedIs
  <1>8. CASE Ready
    <2>1. w.pc = "ready" /\ w'.walk = w.walk /\ wake' = wake
      BY <1>0, <1>8 DEF Ready, Worker
    <2>2. ToSet(held') \subseteq ToSet(held)
      <3>1. CASE w.walk > 0
        <4>1. w.walk \in 1..Len(held) /\ held' = RemoveAt(held, w.walk)
          BY <1>0, <1>8, <2>1, <3>1 DEF Ready, Control, WalkPlaced
        <4>2. ToSet(RemoveAt(held, w.walk)) \subseteq ToSet(held)
          BY <1>0, <4>1, OccursRemoveAt
        <4> QED BY <4>1, <4>2
      <3>2. CASE ~(w.walk > 0)
        BY <1>8, <3>2 DEF Ready
      <3> QED BY <3>1, <3>2
    <2> QED BY <2>1, <2>2, LookingStays, WatchedKept
  <1>9. CASE WaitTurnSlot
    <2>0. ~Looking /\ held' = held
      BY <1>0, <1>9 DEF WaitTurnSlot, Looking, Control, WalkPlaced
    <2>1. CASE wake' = wake
      BY <2>0, <2>1, WatchedKept
    <2>2. CASE wake' = StopHeldWatch /\ w' = [w EXCEPT !.pc = "walk", !.walk = 1]
      <3>1. wake'.watch = {} /\ w'.walk = 1
        BY <1>0, <2>2 DEF StopHeldWatch, Wakeups, Worker
      <3> QED BY <3>1, WatchedIs DEF Looking
    <2> QED BY <1>9, <2>1, <2>2 DEF WaitTurnSlot
  <1>10. CASE Exit
    <2>1. ToSet(held') = {}
      BY <1>10 DEF Exit, ToSet
    <2> QED BY <2>1, WatchedIs
  <1>11. CASE RunInject \/ RunPause \/ RunPaused \/ RunDefer \/ InjectReturns
    <2>1. /\ w.pc \notin {"top", "resume", "usage", "arm", "exit"}
          /\ UNCHANGED <<wake, held>>
      BY <1>11 DEF RunInject, RunPause, RunPaused, RunDefer, InjectReturns
    <2>2. w'.walk = w.walk
      BY <1>0, <1>11 DEF RunInject, RunPause, RunPaused, RunDefer, InjectReturns, Done, Worker
    <2> QED BY <2>1, <2>2, LookingStays, WatchedKept
  <1>12. CASE \/ Dequeued \/ HandleDequeued \/ DispatchUserInput \/ DispatchNow \/ PassGate
              \/ AcquireTurnSlots \/ TakeSlot \/ ClaimWaitCancel \/ RecheckGates \/ DriveBatch
              \/ TurnReturns \/ FollowUp \/ BatchReturns
    <2>1. UNCHANGED <<wake, held>>
      BY <1>12 DEF Dequeued, HandleDequeued, DispatchUserInput, PassGate, AcquireTurnSlots,
         TakeSlot,
         ClaimWaitCancel, RecheckGates, DriveBatch, TurnReturns, FollowUp, BatchReturns, DispatchNow
    <2>2. w.pc \in {"dequeued", "relogin", "dispatch", "gate1", "gate2", "gate3", "gate4", "acquire", "take",
                    "claim", "recheck", "batch", "drive", "after", "inactive", "ready"}
      BY <1>12 DEF Dequeued, HandleDequeued, DispatchUserInput, PassGate, Gates, AcquireTurnSlots,
         TakeSlot,
         ClaimWaitCancel, RecheckGates, DriveBatch, TurnReturns, FollowUp, BatchReturns, DispatchNow
    <2>3. w.pc # "ready"
      BY <1>12 DEF Dequeued, HandleDequeued, DispatchUserInput, PassGate, Gates, AcquireTurnSlots,
         TakeSlot,
         ClaimWaitCancel, RecheckGates, DriveBatch, TurnReturns, FollowUp, BatchReturns, DispatchNow
    <2>4. ~Looking
      BY <1>0, <2>2, <2>3 DEF Looking, Control, WalkPlaced
    <2> QED BY <2>1, <2>4, WatchedKept
  <1>13. CASE Settle
    <2>1. w'.pc = "top" /\ UNCHANGED <<wake, held>>
      BY <1>0, <1>13 DEF Settle, Worker
    <2> QED BY <2>1, WatchedKept DEF Looking
  <1>14. CASE PrimaryWritten \/ DrainSteerTexts \/ Grant \/ CancelSession
    <2>1. w'.pc = w.pc /\ w'.walk = w.walk /\ UNCHANGED <<wake, held>>
      BY <1>0, <1>14 DEF PrimaryWritten, DrainSteerTexts, Grant, CancelSession, Worker
    <2> QED BY <2>1, WatchedKept DEF Looking
  <1> QED BY <1>1, <1>2, <1>3, <1>4, <1>5, <1>6, <1>7, <1>8, <1>9, <1>10, <1>11, <1>12, <1>13, <1>14
          DEF WorkerStep

\* The worker starts no usage hold.
LEMMA WorkerNoUsage ==
    ASSUME TypeOK, NoUsage,
           WorkerStep \/ PrimaryWritten \/ DrainSteerTexts \/ Grant \/ CancelSession
    PROVE  NoUsage'
  <1>0. wake \in Wakeups /\ env \in Environment /\ held \in Seq(Injects)
    BY DEF TypeOK
  <1>1. env'.phase = env.phase
    <2>1. CASE Settle
      BY <1>0, <2>1 DEF Settle, Environment
    <2>2. CASE ~Settle
      BY <2>2 DEF WorkerStep, LoopTop, ReleaseHeldKeep, ReleaseHeldRun, ReleaseHeldDone,
         TakeUsageResume,
         ReleaseUsageHeld, Arm, Select, Dequeued, HandleDequeued, GateEnded, DispatchUserInput,
            DispatchPark,
         DispatchNow, Ready, RunInject, RunPause, RunPaused, RunDefer, InjectReturns, PassGate,
         AcquireTurnSlots, TakeSlot, WaitTurnSlot, ClaimWaitCancel, RecheckGates, DriveBatch,
            TurnReturns,
         FollowUp, BatchReturns, Exit, PrimaryWritten, DrainSteerTexts, Grant, CancelSession
    <2> QED BY <2>1, <2>2
  <1>2. usageHeld' = usageHeld
    <2>1. CASE TakeUsageResume \/ ReleaseUsageHeld \/ HandleDequeued \/ FollowUp
      BY <2>1 DEF TakeUsageResume, ReleaseUsageHeld, HandleDequeued, FollowUp, NoUsage,
         UsageHoldsUser
    <2>2. CASE ~(TakeUsageResume \/ ReleaseUsageHeld \/ HandleDequeued \/ FollowUp)
      BY <2>2 DEF WorkerStep, LoopTop, ReleaseHeldKeep, ReleaseHeldRun, ReleaseHeldDone,
         Arm, Select, Dequeued, GateEnded, DispatchUserInput, DispatchPark,
         DispatchNow, Ready, RunInject, RunPause, RunPaused, RunDefer, InjectReturns, PassGate,
         AcquireTurnSlots, TakeSlot, WaitTurnSlot, ClaimWaitCancel, RecheckGates, DriveBatch,
            TurnReturns,
         BatchReturns, Settle, Exit, PrimaryWritten, DrainSteerTexts, Grant, CancelSession
    <2> QED BY <2>1, <2>2
  <1>3. wake'.resume = wake.resume
    <2>1. CASE TakeUsageResume
      BY <2>1 DEF TakeUsageResume, NoUsage
    <2>2. CASE ReleaseHeldDone \/ Arm \/ Select \/ DispatchPark \/ WaitTurnSlot \/ Exit
      BY <1>0, <2>2 DEF ReleaseHeldDone, Arm, Select, DispatchPark, WaitTurnSlot, Exit,
         StopHeldWatch,
         EnsureHeldWatch, Watching, Wakeups
    <2>3. CASE ~(TakeUsageResume \/ ReleaseHeldDone \/ Arm \/ Select \/ DispatchPark \/ WaitTurnSlot \/ Exit)
      BY <2>3 DEF WorkerStep, LoopTop, ReleaseHeldKeep, ReleaseHeldRun,
         ReleaseUsageHeld, Dequeued, HandleDequeued, GateEnded, DispatchUserInput,
         DispatchNow, Ready, RunInject, RunPause, RunPaused, RunDefer, InjectReturns, PassGate,
         AcquireTurnSlots, TakeSlot, ClaimWaitCancel, RecheckGates, DriveBatch, TurnReturns,
         FollowUp, BatchReturns, Settle, PrimaryWritten, DrainSteerTexts, Grant, CancelSession
    <2> QED BY <2>1, <2>2, <2>3
  <1> QED BY <1>1, <1>2, <1>3 DEF NoUsage

\* Events, without those of the usage hold.
LEMMA ToldWatch ==
    ASSUME "usage" \notin Events, TypeOK, WatchInv, Told
    PROVE  WatchInv'
  <1>0. wake \in Wakeups /\ env \in Environment /\ UNCHANGED <<held, usageHeld, w>>
    BY ToldSame DEF TypeOK
  <1>1. CASE WatchInjectGate
    <2>1. wake'.hint /\ wake'.resume = wake.resume /\ env' = env
      BY <1>0, <1>1 DEF WatchInjectGate, Wakeups
    <2> QED BY <1>0, <2>1 DEF WatchInv, NoUsage, Watched
  <1>2. CASE (\E e \in {"Hold", "Stop"} : UsageHoldStarts(e)) \/ UsageLifts
    BY <1>2 DEF UsageHoldStarts, UsageLifts, Event, WatchInv, NoUsage
  <1>3. CASE ~WatchInjectGate /\ ~((\E e \in {"Hold", "Stop"} : UsageHoldStarts(e)) \/ UsageLifts)
    <2>1. wake' = wake
      BY <1>3 DEF Told, ReloginStart, ReloginComplete, ReloginRelease, AskResolved, BeginShutdown,
         StopInbox, HoldAges, Close, Open, AskShown
    <2>2. env'.phase = env.phase
      <3>1. CASE \E e \in {"silent", "compacting", "work", "adopted"} : Close(e) \/ Open(e)
        BY <1>0, <3>1 DEF Close, Open, Environment
      <3>2. CASE ~(\E e \in {"silent", "compacting", "work", "adopted"} : Close(e) \/ Open(e))
        BY <1>0, <1>3, <3>2 DEF Told, ReloginStart, ReloginComplete, ReloginRelease, AskResolved,
           BeginShutdown, StopInbox, HoldAges, AskShown, Environment
      <3> QED BY <3>1, <3>2
    <2> QED BY <1>0, <2>1, <2>2 DEF WatchInv, NoUsage, Watched, Looking
  <1> QED BY <1>1, <1>2, <1>3

\* Every step keeps WatchInv while there are no usage events.
LEMMA NextWatch ==
    ASSUME "usage" \notin Events, TypeOK, Control, WatchInv, Next
    PROVE  WatchInv'
  <1>1. CASE WorkerStep \/ PrimaryWritten \/ DrainSteerTexts \/ Grant \/ CancelSession
    BY <1>1, WorkerWatched, WorkerNoUsage DEF WatchInv
  <1>2. CASE Producers
    BY <1>2, ProducersStill DEF WatchInv, NoUsage, Watched, Looking
  <1>3. CASE Told
    BY <1>3, ToldWatch
  <1>4. CASE Crash
    <2>1. ToSet(held') = {} /\ env'.phase = env.phase /\ usageHeld' = <<>> /\ ~wake'.resume
      BY <1>4 DEF Crash, ToSet
    <2> QED BY <2>1, WatchedIs DEF WatchInv, NoUsage
  <1> QED BY <1>1, <1>2, <1>3, <1>4, NextSplit

-----------------------------------------------------------------------------
(* The inductive invariant, and what follows from it.                      *)

\* A message not yet handed to the inbox is in one place.
LEMMA InitCounts ==
    ASSUME Init
    PROVE  AtMostOnce /\ ExactlyOnce
  <1>0. TypeOK
    BY InitType
  <1>1. ASSUME NEW m \in Messages PROVE Places(m) = 1 /\ Len(fate[m]) = 0
    <2>1. PICK c, p, h, u, s, b, q, r, d, o, k, f \in Nat :
              Tallied(m, c, p, h, u, s, b, q, r, d, o, k, f)
      BY <1>0, TallyNow
    <2>2. Occurs(m, <<>>) = 0
      BY OccursOne
    <2>3. Occurs(m, MessagesOf(<<>>)) = 0
      <3>1. <<>> \in Seq(Deferral)
        OBVIOUS
      <3>2. MessagesOf(<<>>) \in Seq(Injects) /\ ToSet(MessagesOf(<<>>)) = {e.msg : e \in ToSet(<<>>)}
        BY <3>1, MessagesOfSeq
      <3>3. m \notin ToSet(MessagesOf(<<>>))
        BY <3>2 DEF ToSet
      <3> QED BY <3>2, <3>3, OccursType
    <2>4. /\ ch = <<>> /\ pending = <<>> /\ held = <<>> /\ usageHeld = <<>> /\ steer = <<>>
          /\ w.batch = <<>> /\ out.requeue = <<>> /\ out.restore = <<>> /\ deferred = <<>>
          /\ w.cur = Nothing /\ fate = [n \in Messages |-> <<>>]
          /\ out.unsent = Users \cup Injects /\ out.fresh = Lines /\ out.steering = {}
      BY DEF Init
    <2>5. c = 0 /\ p = 0 /\ h = 0 /\ u = 0 /\ s = 0 /\ b = 0 /\ q = 0 /\ r = 0 /\ d = 0
      BY <2>1, <2>2, <2>3, <2>4 DEF Tallied
    <2>6. m # Nothing
      BY InboxAssumption
    <2>7. k = 0
      BY <2>1, <2>4, <2>6 DEF Tallied, InHand, Is
    <2>8. f = 0 /\ Len(fate[m]) = 0
      BY <2>1, <2>4 DEF Tallied
    <2>9. PICK e1, e2, e3 \in Nat :
              e1 = In(m, Users \cup Injects) /\ e2 = In(m, Lines) /\ e3 = In(m, {})
      BY IsType
    <2>10. o = e1 + e2 + e3
      BY <2>1, <2>4, <2>9 DEF Tallied, OutsideOf
    <2>11. (m \in Users \cup Injects /\ m \notin Lines) \/ (m \notin Users \cup Injects /\ m \in Lines)
      BY InboxAssumption DEF Messages
    <2>12. (e1 = 1 /\ e2 = 0) \/ (e1 = 0 /\ e2 = 1)
      BY <2>9, <2>11 DEF In
    <2>13. e3 = 0
      BY <2>9 DEF In
    <2>14. c + p + h + u + s + b + q + r + d + o + k = 1
      BY <2>5, <2>7, <2>10, <2>12, <2>13
    <2> QED BY <2>1, <2>8, <2>14 DEF Tallied
  <1> QED BY <1>1 DEF AtMostOnce, ExactlyOnce

\* The first state satisfies the inductive invariant.
LEMMA InitInv == Init => IInv
  <1> SUFFICES ASSUME Init PROVE IInv
    OBVIOUS
  <1>1. TypeOK /\ AtMostOnce /\ ExactlyOnce
    BY InitType, InitCounts
  <1>2. Control
    BY FreshControl DEF Init
  <1>3. stored = <<>> /\ deferred = <<>> /\ usageHeld = <<>>
    BY DEF Init
  <1>4. HeldStored /\ StoredAccepted /\ LoginNotStranded
    BY <1>3 DEF HeldStored, StoredAccepted, LoginNotStranded, ToSet
  <1>5. \A m \in Messages : Occurs(m, <<>>) = 0
    BY OccursOne
  <1>6. StoredOnce
    BY <1>3, <1>5 DEF StoredOnce
  <1> QED BY <1>1, <1>2, <1>4, <1>6 DEF IInv

\* Every step keeps it.
LEMMA NextInv == IInv /\ [Next]_vars => IInv'
  <1> SUFFICES ASSUME IInv, [Next]_vars PROVE IInv'
    OBVIOUS
  <1>0. /\ TypeOK /\ Control /\ AtMostOnce /\ ExactlyOnce /\ HeldStored /\ StoredOnce
        /\ StoredAccepted /\ LoginNotStranded
    BY DEF IInv
  <1>1. CASE Next
    <2>1. TypeOK' /\ Control'
      BY <1>0, <1>1, NextType, NextControl
    <2>2. AtMostOnce' /\ ExactlyOnce'
      BY <1>0, <1>1, StepCounts, CrashCounts
    <2>3. HeldStored' /\ StoredOnce' /\ StoredAccepted'
      BY <1>0, <1>1, NextStore DEF StoreKept
    <2>4. LoginNotStranded'
      BY <1>0, <1>1, NextLogin
    <2> QED BY <2>1, <2>2, <2>3, <2>4 DEF IInv
  <1>2. CASE UNCHANGED vars
    <2>1. TypeOK'
      BY <1>0, <1>2 DEF TypeOK, vars
    <2>2. Control'
      BY <1>0, <1>2, ControlKept DEF vars
    <2>3. AtMostOnce' /\ ExactlyOnce'
      BY <1>0, <1>2 DEF AtMostOnce, ExactlyOnce, Places, MessagesOf, vars
    <2>4. HeldStored' /\ StoredOnce' /\ StoredAccepted' /\ LoginNotStranded'
      BY <1>0, <1>2 DEF HeldStored, StoredOnce, StoredAccepted, LoginNotStranded, vars
    <2> QED BY <2>1, <2>2, <2>3, <2>4 DEF IInv
  <1> QED BY <1>1, <1>2

\* The inductive invariant holds in every reachable state of the inbox, whatever
\* order its goroutines run in and however often the process dies.
THEOREM InboxInvariant == Spec => []IInv
  BY InitInv, NextInv, PTL DEF Spec

\* Every variable of the inbox keeps its type in every order of the worker's,
\* the producers' and the other goroutines' steps, crashes included: a full
\* channel (inboxChanSize) refuses instead of growing, and only injections are
\* ever parked or deferred.
THEOREM InboxTypes == Spec => []TypeOK
  <1>1. IInv => TypeOK
    BY DEF IInv
  <1> QED BY <1>1, InboxInvariant, PTL

\* Nothing is lost or duplicated (inbox.go, #2233 F1): a message that did not
\* come back from the restart store is in exactly one of the places the
\* program keeps messages, or it has ended, once.
THEOREM InboxExactlyOnce == Spec => []ExactlyOnce
  <1>1. IInv => ExactlyOnce
    BY DEF IInv
  <1> QED BY <1>1, InboxInvariant, PTL

\* acquireTurnSlots and runUserBatch hold turn-limit slots, the cancel handle
\* and the Acquire goroutine only while a batch waits or drives, and a turn
\* drives with a slot of every limiter.
THEOREM InboxSlotDiscipline == Spec => []SlotDiscipline
  <1>1. ASSUME TypeOK, Control PROVE SlotDiscipline
    <2>0. w \in Worker /\ w.slots \in 0..2
      BY <1>1 DEF TypeOK, Worker
    <2>1. w.slots > 0 => Waiting \/ Driving
      BY <1>1, <2>0 DEF Control, SlotsPlaced
    <2>2. Waiting => w.waitCancel # "none" /\ (w.pc \in {"take", "slot", "claim"} \/ w.batch # <<>>)
      BY <1>1 DEF Control, SlotsPlaced, Waiting
    <2>3. Waiting => ~Driving
      BY DEF Waiting, Driving, Serving, AtGate
    <2>4. /\ w.waitCancel # "none" => Waiting
          /\ w.grant # "none" => Waiting /\ w.pc \notin {"take", "claim"}
          /\ Driving => w.slots = Limiters
      BY <1>1 DEF Control, SlotsPlaced
    <2> QED BY <2>1, <2>2, <2>3, <2>4 DEF SlotDiscipline, Driving
  <1>2. IInv => SlotDiscipline
    BY <1>1 DEF IInv
  <1> QED BY <1>2, InboxInvariant, PTL

\* Whatever parkUsageHeld has parked is in the session's usage_held metadata
\* (storeUsageHeld), so a restart finds it (#2491).
THEOREM InboxHeldStored == Spec => []HeldStored
  <1>1. IInv => HeldStored
    BY DEF IInv
  <1> QED BY <1>1, InboxInvariant, PTL

\* runInject's pause for a login is never stranded (#2384), although the login
\* may complete, drain included, between the check and the append.
THEOREM InboxLoginNotStranded == Spec => []LoginNotStranded
  <1>1. IInv => LoginNotStranded
    BY DEF IInv
  <1> QED BY <1>1, InboxInvariant, PTL

\* The watch's invariant, while no usage hold starts.
LEMMA InboxWatched ==
    ASSUME "usage" \notin Events
    PROVE  Spec => []WatchInv
  <1>1. Init => WatchInv
    <2> SUFFICES ASSUME Init PROVE WatchInv
      OBVIOUS
    <2>1. env.phase = "Open" /\ usageHeld = <<>> /\ ~wake.resume /\ held = <<>>
      BY DEF Init
    <2>2. ToSet(held) = {}
      BY <2>1 DEF ToSet
    <2> QED BY <2>1, <2>2 DEF WatchInv, NoUsage, Watched
  <1>2. IInv /\ WatchInv /\ [Next]_vars => WatchInv'
    <2> SUFFICES ASSUME IInv, WatchInv, [Next]_vars PROVE WatchInv'
      OBVIOUS
    <2>1. CASE Next
      BY <2>1, NextWatch DEF IInv
    <2>2. CASE UNCHANGED vars
      BY <2>2 DEF vars, WatchInv, NoUsage, Watched, Looking
    <2> QED BY <2>1, <2>2
  <1> QED BY <1>1, <1>2, InboxInvariant, PTL DEF Spec

\* No lost wakeup (ensureHeldWatch, consumeHeldHint): while no usage hold
\* starts, whenever the worker waits for a message or for a slot every parked
\* injection is watched or a signal is pending.
THEOREM InboxWatchCovers ==
    ASSUME "usage" \notin Events
    PROVE  Spec => []WatchCovers
  <1>1. IInv /\ WatchInv => WatchCovers
    BY DEF IInv, Control, WalkPlaced, WatchInv, Watched, Looking, WatchCovers
  <1> QED BY <1>1, InboxInvariant, InboxWatched, PTL

-----------------------------------------------------------------------------
(* The order messages run in, and what a /stop covers.                     *)

\* The numbers of a queue's messages rise.
Rising(f, s) == \A j, k \in 1..Len(s) : j < k => f[s[j]] < f[s[k]]

\* What waits for the worker.
Waits == ToSet(pending) \cup ToSet(ch)

\* The user messages not yet enqueued or steered into the running turn.
Loose == Users \cap (out.unsent \cup out.steering \cup ToSet(steer))

\* A batch that no /stop has dropped yet, or a turn.
Exposed ==
    \/ w.batch # <<>> /\ w.pc # "exit" /\ w.waitCancel # "fired"
    \/ w.pc \in {"drive", "after"}

\* No number is above the last one drawn.
NumbersBounded ==
    /\ numbers.stop <= numbers.last
    /\ \A m \in Messages : numbers.of[m] <= numbers.last

\* The worker's queue, then the channel, are in the order of the numbers; the
\* worker waits for the channel only when its own queue is empty.
QueueSorted ==
    /\ Rising(numbers.of, pending) /\ Rising(numbers.of, ch)
    /\ \A x \in ToSet(pending), y \in ToSet(ch) : numbers.of[x] < numbers.of[y]
    /\ \A x \in Waits : numbers.of[x] > 0
    /\ w.pc = "select" => pending = <<>>

\* The envelope in hand, and the message that started the batch, were queued
\* before all that waits.
Ahead ==
    /\ w.pc \in {"dequeued", "relogin"} =>
          numbers.of[w.cur] > 0 /\ \A x \in Waits : numbers.of[w.cur] < numbers.of[x]
    /\ w.pc = "relogin" /\ w.cur \notin Injects => numbers.of[w.cur] > numbers.stop
    /\ w.batch # <<>> =>
          /\ Head(w.batch) \notin Injects
          /\ \A x \in Waits : numbers.of[Head(w.batch)] < numbers.of[x]

\* What runs, or waits while a turn does, came after the last /stop.
StopBehind ==
    Exposed => \A x \in ToSet(w.batch) \cup Waits : numbers.of[x] > numbers.stop

\* A user message that is steered never had a number.
SteerUnnumbered == \A u \in Loose : numbers.of[u] = 0

OrderInv == NumbersBounded /\ QueueSorted /\ Ahead /\ StopBehind /\ SteerUnnumbered

\* A rising queue without its head.
LEMMA RisingTail ==
    ASSUME NEW S, NEW f \in [S -> Nat], NEW s \in Seq(S), s # <<>>, Rising(f, s)
    PROVE  /\ Rising(f, Tail(s)) /\ Head(s) \in ToSet(s)
           /\ ToSet(Tail(s)) \subseteq ToSet(s)
           /\ \A x \in ToSet(Tail(s)) : f[Head(s)] < f[x]
  <1>1. /\ Len(s) \in Nat /\ Len(s) >= 1 /\ Len(Tail(s)) = Len(s) - 1 /\ Head(s) = s[1]
        /\ DOMAIN s = 1..Len(s) /\ Tail(s) \in Seq(S)
    OBVIOUS
  <1>2. \A k \in 1..Len(Tail(s)) : Tail(s)[k] = s[k + 1] /\ k + 1 \in 1..Len(s)
    BY <1>1
  <1>3. DOMAIN Tail(s) = 1..Len(Tail(s))
    BY <1>1
  <1>4. Rising(f, Tail(s))
    <2> SUFFICES ASSUME NEW j \in 1..Len(Tail(s)), NEW k \in 1..Len(Tail(s)), j < k
                 PROVE  f[Tail(s)[j]] < f[Tail(s)[k]]
      BY DEF Rising
    <2>1. j + 1 < k + 1
      OBVIOUS
    <2> QED BY <1>2, <2>1 DEF Rising
  <1>5. Head(s) \in ToSet(s) /\ ToSet(Tail(s)) \subseteq ToSet(s)
    BY <1>1, <1>2, <1>3 DEF ToSet
  <1>6. ASSUME NEW x \in ToSet(Tail(s)) PROVE f[Head(s)] < f[x]
    <2>1. PICK k \in 1..Len(Tail(s)) : Tail(s)[k] = x
      BY <1>3 DEF ToSet
    <2>2. s[k + 1] = x /\ k + 1 \in 1..Len(s) /\ 1 < k + 1 /\ 1 \in 1..Len(s)
      BY <1>1, <1>2, <2>1
    <2> QED BY <1>1, <2>2 DEF Rising
  <1> QED BY <1>4, <1>5, <1>6

\* Two queues, one before the other.
LEMMA RisingConcat ==
    ASSUME NEW S, NEW f \in [S -> Nat], NEW s \in Seq(S), NEW t \in Seq(S),
           Rising(f, s), Rising(f, t), \A x \in ToSet(s), y \in ToSet(t) : f[x] < f[y]
    PROVE  Rising(f, s \o t)
  <1>1. Len(s) \in Nat /\ Len(t) \in Nat /\ Len(s \o t) = Len(s) + Len(t)
    OBVIOUS
  <1>2. \A k \in 1..Len(s) : (s \o t)[k] = s[k] /\ s[k] \in ToSet(s)
    BY <1>1 DEF ToSet
  <1>3. \A k \in 1..Len(s \o t) : ~(k <= Len(s)) =>
           (s \o t)[k] = t[k - Len(s)] /\ k - Len(s) \in 1..Len(t) /\ t[k - Len(s)] \in ToSet(t)
    <2> SUFFICES ASSUME NEW k \in 1..Len(s \o t), ~(k <= Len(s))
                 PROVE  (s \o t)[k] = t[k - Len(s)] /\ k - Len(s) \in 1..Len(t) /\ t[k - Len(s)] \in ToSet(t)
      OBVIOUS
    <2>1. k - Len(s) \in 1..Len(t)
      BY <1>1
    <2> QED BY <1>1, <2>1, ConcatProperties DEF ToSet
  <1> SUFFICES ASSUME NEW j \in 1..Len(s \o t), NEW k \in 1..Len(s \o t), j < k
               PROVE  f[(s \o t)[j]] < f[(s \o t)[k]]
    BY DEF Rising
  <1>4. CASE k <= Len(s)
    <2>1. j \in 1..Len(s) /\ k \in 1..Len(s)
      BY <1>1, <1>4
    <2> QED BY <1>2, <2>1 DEF Rising
  <1>5. CASE ~(k <= Len(s)) /\ j <= Len(s)
    <2>1. j \in 1..Len(s)
      BY <1>1, <1>5
    <2>2. (s \o t)[k] \in ToSet(t)
      BY <1>3, <1>5
    <2> QED BY <1>2, <2>1, <2>2
  <1>6. CASE ~(j <= Len(s))
    <2>1. ~(k <= Len(s)) /\ j - Len(s) < k - Len(s)
      BY <1>1, <1>6
    <2>2. /\ (s \o t)[j] = t[j - Len(s)] /\ j - Len(s) \in 1..Len(t)
          /\ (s \o t)[k] = t[k - Len(s)] /\ k - Len(s) \in 1..Len(t)
      BY <1>3, <1>6, <2>1
    <2> QED BY <2>1, <2>2 DEF Rising
  <1> QED BY <1>1, <1>4, <1>5, <1>6

\* A queue with one more message at its end.
LEMMA RisingAppend ==
    ASSUME NEW S, NEW f \in [S -> Nat], NEW s \in Seq(S), NEW e \in S,
           Rising(f, s), \A x \in ToSet(s) : f[x] < f[e]
    PROVE  Rising(f, Append(s, e))
  <1> DEFINE t == <<e>>
  <1>1. t \in Seq(S) /\ Append(s, e) = s \o t /\ ToSet(t) = {e}
    BY DEF ToSet
  <1>2. Rising(f, t)
    BY DEF Rising
  <1> HIDE DEF t
  <1> QED BY <1>1, <1>2, RisingConcat

\* Part of a queue.
LEMMA RisingKept ==
    ASSUME NEW S, NEW f, NEW s \in Seq(S), NEW T, Rising(f, s)
    PROVE  Rising(f, Kept(s, T))
  <1> DEFINE N == Cardinality(At(s, T))
  <1>0. At(s, T) \subseteq 1..Len(s) /\ N \in Nat
    BY AtFinite
  <1>1. Kept(s, T) = [n \in 1..N |-> s[Pos(s, T, n)]]
    BY KeptIs
  <1>2. \A n \in 1..N : Pos(s, T, n) \in At(s, T) /\ UpTo(s, T, Pos(s, T, n)) = n
    BY PosIs
  <1>3. Len(Kept(s, T)) = N
    BY KeptSeq DEF Count
  <1> SUFFICES ASSUME NEW j \in 1..N, NEW k \in 1..N, j < k
               PROVE  f[Kept(s, T)[j]] < f[Kept(s, T)[k]]
    BY <1>3 DEF Rising
  <1> DEFINE a == Pos(s, T, j)
             b == Pos(s, T, k)
  <1>4. a \in At(s, T) /\ b \in At(s, T) /\ UpTo(s, T, a) = j /\ UpTo(s, T, b) = k
    BY <1>2
  <1>5. a \in 1..Len(s) /\ b \in 1..Len(s)
    BY <1>0, <1>4
  <1>6. b < a => k < j
    BY <1>4, UpToGrows
  <1>7. a < b
    BY <1>4, <1>5, <1>6
  <1>8. f[s[a]] < f[s[b]]
    BY <1>5, <1>7 DEF Rising
  <1> QED BY <1>1, <1>8

\* Renumbering a message that is not in the queue.
LEMMA RisingSame ==
    ASSUME NEW S, NEW f, NEW g, NEW s \in Seq(S), Rising(f, s),
           \A x \in ToSet(s) : g[x] = f[x]
    PROVE  Rising(g, s)
  <1>1. \A k \in 1..Len(s) : s[k] \in ToSet(s)
    BY DEF ToSet
  <1> QED BY <1>1 DEF Rising

\* A step that leaves the queues alone and puts nothing new at risk.
Steady ==
    /\ UNCHANGED <<ch, pending, numbers>>
    /\ w'.batch = w.batch \/ w'.batch = <<>>
    /\ w'.pc \notin {"select", "dequeued", "relogin"}
    /\ Exposed' => Exposed

\* Such a step keeps the order.
LEMMA SteadyOrder ==
    ASSUME OrderInv, Steady, Loose' \subseteq Loose
    PROVE  OrderInv'
  <1>0. UNCHANGED <<ch, pending, numbers>> /\ Waits' = Waits
    BY DEF Steady, Waits
  <1>1. NumbersBounded' /\ QueueSorted'
    BY <1>0 DEF Steady, OrderInv, NumbersBounded, QueueSorted
  <1>2. Ahead'
    BY <1>0 DEF Steady, OrderInv, Ahead
  <1>3. ToSet(w'.batch) \subseteq ToSet(w.batch)
    BY DEF Steady, ToSet
  <1>4. StopBehind'
    BY <1>0, <1>3 DEF Steady, OrderInv, StopBehind
  <1>5. SteerUnnumbered'
    BY <1>0 DEF OrderInv, SteerUnnumbered
  <1> QED BY <1>1, <1>2, <1>4, <1>5 DEF OrderInv

\* The worker steers nothing.
LEMMA WorkerLoose ==
    ASSUME TypeOK, WorkerStep \/ PrimaryWritten \/ DrainSteerTexts \/ Grant \/ CancelSession
    PROVE  Loose' \subseteq Loose
  <1>0. out \in Outside
    BY DEF TypeOK
  <1>1. out'.unsent = out.unsent
    BY WorkerOutside
  <1>2. out'.steering = out.steering
    <2>1. CASE TakeUsageResume \/ RunPaused \/ Settle
      BY <1>0, <2>1 DEF TakeUsageResume, RunPaused, Settle, Outside
    <2>2. CASE ~(TakeUsageResume \/ RunPaused \/ Settle)
      BY <2>2 DEF WorkerStep, PrimaryWritten, DrainSteerTexts, Grant, CancelSession, LoopTop,
         ReleaseHeldKeep, ReleaseHeldRun, ReleaseHeldDone, ReleaseUsageHeld, Arm, Select, Dequeued,
         HandleDequeued, GateEnded, DispatchUserInput, DispatchPark, DispatchNow, Ready, RunInject,
         RunPause, RunDefer, InjectReturns, PassGate, AcquireTurnSlots, TakeSlot, WaitTurnSlot,
         ClaimWaitCancel, RecheckGates, DriveBatch, TurnReturns, FollowUp, BatchReturns, Exit
    <2> QED BY <2>1, <2>2
  <1>3. steer' = steer \/ steer' = <<>>
    BY DEF WorkerStep, PrimaryWritten, DrainSteerTexts, Grant, CancelSession, LoopTop,
       ReleaseHeldKeep, ReleaseHeldRun, ReleaseHeldDone, ReleaseUsageHeld, Arm, Select, Dequeued,
       HandleDequeued, GateEnded, DispatchUserInput, DispatchPark, DispatchNow, Ready, RunInject,
       RunPause, RunDefer, InjectReturns, PassGate, AcquireTurnSlots, TakeSlot, WaitTurnSlot,
       ClaimWaitCancel, RecheckGates, DriveBatch, TurnReturns, FollowUp, BatchReturns, Exit,
       TakeUsageResume, RunPaused, Settle
  <1>4. ToSet(steer') \subseteq ToSet(steer)
    BY <1>3 DEF ToSet
  <1> QED BY <1>1, <1>2, <1>4 DEF Loose

\* The worker leaves, returns to where it dispatched from, or moves on with
\* the batch it has.
LEMMA LeavingSteady ==
    ASSUME TypeOK, UNCHANGED <<ch, pending, numbers>>, w' = Leaving
    PROVE  Steady
  <1>1. w \in Worker
    BY DEF TypeOK
  <1> QED BY <1>1, LeavingIs DEF Steady, Exposed

LEMMA MovesSteady ==
    ASSUME UNCHANGED <<ch, pending, numbers>>, w'.batch = w.batch, w.pc # "exit",
           w'.waitCancel = w.waitCancel, w'.pc \notin {"select", "dequeued", "relogin", "drive", "after"}
    PROVE  Steady
  BY DEF Steady, Exposed

LEMMA DoneSteady ==
    ASSUME TypeOK, UNCHANGED <<ch, pending, numbers>>, w.pc # "exit", w' = Done
    PROVE  Steady
  <1>1. w \in Worker
    BY DEF TypeOK
  <1>2. Back \in {"walk", "slot", "top"}
    BY DEF Back
  <1> QED BY <1>1, <1>2, DoneIs, MovesSteady

\* The steps of the worker that leave the queues alone.
LEMMA WorkerSteady ==
    ASSUME TypeOK, Control, NoUsage,
           \/ LoopTop \/ ReleaseHeldKeep \/ ReleaseHeldRun \/ ReleaseHeldDone \/ TakeUsageResume
           \/ ReleaseUsageHeld \/ GateEnded \/ DispatchUserInput \/ DispatchPark \/ DispatchNow
           \/ Ready \/ RunInject \/ RunPause \/ RunPaused \/ RunDefer \/ InjectReturns
           \/ PassGate \/ AcquireTurnSlots \/ TakeSlot \/ ClaimWaitCancel \/ RecheckGates
           \/ TurnReturns \/ BatchReturns \/ Settle \/ PrimaryWritten \/ DrainSteerTexts \/ Grant
    PROVE  Steady
  <1>0. w \in Worker
    BY DEF TypeOK
  <1>1. CASE LoopTop \/ ReleaseHeldKeep \/ ReleaseHeldRun \/ ReleaseHeldDone
    <2>1. /\ UNCHANGED <<ch, pending, numbers>>
          /\ w'.batch = w.batch /\ w.pc # "exit" /\ w'.waitCancel = w.waitCancel
          /\ w'.pc \in {"walk", "ready", "resume", "slot"}
      BY <1>0, <1>1 DEF LoopTop, ReleaseHeldKeep, ReleaseHeldRun, ReleaseHeldDone, Worker
    <2> QED BY <2>1, MovesSteady
  <1>2. CASE TakeUsageResume \/ ReleaseUsageHeld
    <2>1. /\ UNCHANGED <<ch, pending, numbers>>
          /\ w'.batch = w.batch /\ w.pc # "exit" /\ w'.waitCancel = w.waitCancel
          /\ w'.pc \in {"usage", "arm"}
      BY <1>0, <1>2 DEF TakeUsageResume, ReleaseUsageHeld, NoUsage, Worker
    <2> QED BY <2>1, MovesSteady
  <1>3. CASE GateEnded
    BY <1>3, LeavingSteady DEF GateEnded
  <1>4. CASE DispatchUserInput \/ DispatchNow \/ Ready \/ RunPause
    <2>1. /\ UNCHANGED <<ch, pending, numbers>>
          /\ w'.batch = w.batch /\ w.pc # "exit" /\ w'.waitCancel = w.waitCancel
          /\ w'.pc \in {"gate1", "ready", "run", "paused"}
      BY <1>0, <1>4 DEF DispatchUserInput, DispatchNow, Ready, RunPause, Worker
    <2> QED BY <2>1, MovesSteady
  <1>5. CASE DispatchPark \/ RunPaused \/ RunDefer \/ InjectReturns
    <2>1. UNCHANGED <<ch, pending, numbers>> /\ w.pc # "exit" /\ w' = Done
      BY <1>5 DEF DispatchPark, RunPaused, RunDefer, InjectReturns
    <2> QED BY <2>1, DoneSteady
  <1>6. CASE RunInject
    <2>0. UNCHANGED <<ch, pending, numbers>> /\ w.pc # "exit"
      BY <1>6 DEF RunInject
    <2>1. CASE w' = Done
      BY <2>0, <2>1, DoneSteady
    <2>2. CASE w' # Done
      <3>1. /\ w'.batch = w.batch /\ w'.waitCancel = w.waitCancel
            /\ w'.pc \in {"pausing", "deferring", "inject"}
        BY <1>0, <1>6, <2>2 DEF RunInject, Worker
      <3> QED BY <2>0, <3>1, MovesSteady
    <2> QED BY <2>1, <2>2
  <1>7. CASE PassGate
    <2>1. PICK g \in 1..4 :
             w' = [w EXCEPT !.pc = IF g < 4 THEN Gates[g + 1]
                                   ELSE IF w.cur = Nothing THEN "acquire" ELSE "run"]
      BY <1>7 DEF PassGate
    <2>2. (IF g < 4 THEN Gates[g + 1] ELSE IF w.cur = Nothing THEN "acquire" ELSE "run")
             \in {"gate2", "gate3", "gate4", "acquire", "run"}
      BY DEF Gates
    <2>3. w.pc # "exit"
      BY <1>7 DEF PassGate, Gates
    <2>4. /\ w'.batch = w.batch /\ w'.waitCancel = w.waitCancel
          /\ w'.pc \in {"gate2", "gate3", "gate4", "acquire", "run"}
      BY <1>0, <2>1, <2>2 DEF Worker
    <2> QED BY <1>7, <2>3, <2>4, MovesSteady DEF PassGate
  <1>8. CASE AcquireTurnSlots
    <2>1. w.pc = "acquire" /\ UNCHANGED <<ch, pending, numbers>>
      BY <1>8 DEF AcquireTurnSlots
    <2>2. w.waitCancel = "none"
      BY <2>1 DEF Control, SlotsPlaced, Waiting, Serving, AtGate
    <2>3. w'.batch = w.batch /\ w'.pc \in {"recheck", "take"}
      BY <1>0, <1>8 DEF AcquireTurnSlots, Worker
    <2> QED BY <2>1, <2>2, <2>3 DEF Steady, Exposed
  <1>9. CASE TakeSlot
    <2>1. w.slots < Limiters /\ w.pc = "take" /\ UNCHANGED <<ch, pending, numbers>>
      BY <1>9 DEF TakeSlot, Control, SlotsPlaced, Waiting
    <2>2. w' = SlotTaken \/ w' = [w EXCEPT !.pc = "slot", !.grant = "asked"]
      BY <1>9 DEF TakeSlot
    <2>3. w'.batch = w.batch /\ w'.waitCancel = w.waitCancel /\ w'.pc \in {"claim", "take", "slot"}
      <3>1. CASE w' = SlotTaken
        BY <1>0, <2>1, <3>1, SlotTakenIs
      <3>2. CASE w' = [w EXCEPT !.pc = "slot", !.grant = "asked"]
        BY <1>0, <3>2 DEF Worker
      <3> QED BY <2>2, <3>1, <3>2
    <2> QED BY <2>1, <2>3, MovesSteady
  <1>10. CASE ClaimWaitCancel
    <2>0. w.pc = "claim" /\ UNCHANGED <<ch, pending, numbers>> /\ fate \in FateType
      BY <1>10, TallyTypes DEF ClaimWaitCancel
    <2>1. CASE Abort
      <3>1. /\ w'.pc = (IF env.done THEN "exit" ELSE "settle")
            /\ w'.batch = (IF env.done THEN w.batch ELSE <<>>)
        BY <1>0, <2>0, <2>1, AbortIs
      <3> QED BY <2>0, <3>1 DEF Steady, Exposed
    <2>2. CASE ~WaitEnded /\ w' = [w EXCEPT !.pc = "recheck", !.waitCancel = "none"]
      <3>1. w'.batch = w.batch /\ w'.pc = "recheck"
        BY <1>0, <2>2 DEF Worker
      <3> QED BY <2>0, <2>2, <3>1 DEF Steady, Exposed, WaitEnded
    <2> QED BY <1>10, <2>1, <2>2 DEF ClaimWaitCancel
  <1>11. CASE RecheckGates \/ BatchReturns \/ Settle
    <2>1. /\ UNCHANGED <<ch, pending, numbers>>
          /\ w'.batch = w.batch /\ w.pc # "exit" /\ w'.waitCancel = w.waitCancel
          /\ w'.pc \in {"gate1", "batch", "settle", "top"}
      BY <1>0, <1>11 DEF RecheckGates, BatchReturns, Settle, Worker
    <2> QED BY <2>1, MovesSteady
  <1>12. CASE TurnReturns \/ PrimaryWritten
    <2>1. /\ UNCHANGED <<ch, pending, numbers>> /\ w.pc = "drive"
          /\ w'.batch = w.batch /\ w'.pc \in {"after", "drive"}
      BY <1>0, <1>12 DEF TurnReturns, PrimaryWritten, Worker
    <2> QED BY <2>1 DEF Steady, Exposed
  <1>13. CASE DrainSteerTexts
    BY <1>13 DEF DrainSteerTexts, Steady, Exposed
  <1>14. CASE Grant
    <2>1. /\ UNCHANGED <<ch, pending, numbers>> /\ w'.pc = w.pc
          /\ w'.batch = w.batch /\ w'.waitCancel = w.waitCancel
      BY <1>0, <1>14 DEF Grant, Worker
    <2>2. w.pc \notin {"select", "dequeued", "relogin"}
      BY <1>14 DEF Grant, Control, SlotsPlaced, Waiting, Serving, AtGate
    <2> QED BY <2>1, <2>2 DEF Steady, Exposed
  <1> QED BY <1>1, <1>2, <1>3, <1>4, <1>5, <1>6, <1>7, <1>8, <1>9, <1>10, <1>11, <1>12, <1>13,
             <1>14

\* The types the order speaks about.
LEMMA OrderTypes ==
    ASSUME TypeOK
    PROVE  /\ numbers.of \in [Messages -> Nat] /\ numbers.last \in Nat /\ numbers.stop \in Nat
           /\ ch \in Seq(Messages) /\ pending \in Seq(Messages) /\ w.batch \in Seq(Messages)
           /\ w \in Worker /\ Waits \subseteq Messages /\ ToSet(w.batch) \subseteq Messages
  BY DEF TypeOK, Worker, Waits, ToSet

\* A step after which the queues hold part of what they held.
LEMMA ShrinksOrder ==
    ASSUME OrderInv, numbers' = numbers, Loose' \subseteq Loose, w'.pc # "select",
           Rising(numbers.of, pending'), Rising(numbers.of, ch'),
           ToSet(pending') \subseteq Waits,
           ch' = <<>> \/ (ToSet(pending') \subseteq ToSet(pending) /\ ToSet(ch') \subseteq ToSet(ch))
    PROVE  NumbersBounded' /\ QueueSorted' /\ SteerUnnumbered' /\ Waits' \subseteq Waits
  <1>1. NumbersBounded' /\ SteerUnnumbered'
    BY DEF OrderInv, NumbersBounded, SteerUnnumbered
  <1>2. ToSet(<<>>) = {}
    BY DEF ToSet
  <1>3. ToSet(ch') \subseteq ToSet(ch) /\ Waits' \subseteq Waits
    BY <1>2 DEF Waits
  <1>4. \A x \in ToSet(pending'), y \in ToSet(ch') : numbers.of[x] < numbers.of[y]
    BY <1>2 DEF OrderInv, QueueSorted
  <1>5. QueueSorted'
    BY <1>3, <1>4 DEF OrderInv, QueueSorted
  <1> QED BY <1>1, <1>3, <1>5

LEMMA ArmOrder ==
    ASSUME TypeOK, Control, OrderInv, Arm
    PROVE  OrderInv'
  <1>0. Loose' \subseteq Loose /\ UNCHANGED <<ch, numbers>> /\ w.pc = "arm" /\ w.batch = <<>>
    <2>1. WorkerStep
      BY DEF WorkerStep
    <2> QED BY <2>1, WorkerLoose DEF Arm, Control, BatchPlaced
  <1>1. CASE w' = Leaving /\ pending' = pending
    BY <1>0, <1>1, LeavingSteady, SteadyOrder
  <1>2. CASE w' = [w EXCEPT !.pc = "select"] /\ pending' = pending /\ pending = <<>>
    <2>1. w'.pc = "select" /\ w'.batch = <<>>
      BY <1>0, <1>2, OrderTypes DEF Worker
    <2>2. Waits' = Waits
      BY <1>0, <1>2 DEF Waits
    <2> QED BY <1>0, <1>2, <2>1, <2>2 DEF OrderInv, NumbersBounded, QueueSorted, Ahead, StopBehind,
               Exposed, SteerUnnumbered
  <1>3. CASE /\ pending # <<>> /\ w' = [w EXCEPT !.pc = "dequeued", !.cur = Head(pending)]
             /\ pending' = Tail(pending)
    <2>1. w'.pc = "dequeued" /\ w'.cur = Head(pending) /\ w'.batch = <<>>
      BY <1>0, <1>3, OrderTypes DEF Worker
    <2>2. /\ Rising(numbers.of, Tail(pending)) /\ Head(pending) \in ToSet(pending)
          /\ ToSet(Tail(pending)) \subseteq ToSet(pending)
          /\ \A x \in ToSet(Tail(pending)) : numbers.of[Head(pending)] < numbers.of[x]
      BY <1>3, OrderTypes, RisingTail DEF OrderInv, QueueSorted
    <2>3. NumbersBounded' /\ QueueSorted' /\ SteerUnnumbered' /\ Waits' \subseteq Waits
      BY <1>0, <1>3, <2>1, <2>2, ShrinksOrder DEF OrderInv, QueueSorted, Waits
    <2>4. \A x \in Waits' : numbers.of[Head(pending)] < numbers.of[x]
      BY <1>0, <1>3, <2>2 DEF OrderInv, QueueSorted, Waits
    <2>5. numbers.of[Head(pending)] > 0
      BY <2>2 DEF OrderInv, QueueSorted, Waits
    <2>6. Ahead' /\ StopBehind'
      BY <1>0, <2>1, <2>4, <2>5 DEF Ahead, StopBehind, Exposed
    <2> QED BY <2>3, <2>6 DEF OrderInv
  <1> QED BY <1>1, <1>2, <1>3 DEF Arm

LEMMA SelectOrder ==
    ASSUME TypeOK, Control, OrderInv, Select
    PROVE  OrderInv'
  <1>0. Loose' \subseteq Loose /\ UNCHANGED <<pending, numbers>> /\ w.pc = "select" /\ w.batch = <<>>
        /\ pending = <<>>
    <2>1. WorkerStep
      BY DEF WorkerStep
    <2> QED BY <2>1, WorkerLoose DEF Select, Control, BatchPlaced, OrderInv, QueueSorted
  <1>1. CASE w' = Leaving /\ ch' = ch
    BY <1>0, <1>1, LeavingSteady, SteadyOrder
  <1>2. CASE w' = [w EXCEPT !.pc = "top"] /\ ch' = ch
    <2>1. w'.pc = "top" /\ w'.batch = w.batch /\ w'.waitCancel = w.waitCancel
      BY <1>2, OrderTypes DEF Worker
    <2> QED BY <1>0, <1>2, <2>1, MovesSteady, SteadyOrder
  <1>3. CASE /\ ch # <<>> /\ w' = [w EXCEPT !.pc = "dequeued", !.cur = Head(ch)]
             /\ ch' = Tail(ch)
    <2>1. w'.pc = "dequeued" /\ w'.cur = Head(ch) /\ w'.batch = <<>> /\ ToSet(pending) = {}
      BY <1>0, <1>3, OrderTypes DEF Worker, ToSet
    <2>2. /\ Rising(numbers.of, Tail(ch)) /\ Head(ch) \in ToSet(ch)
          /\ ToSet(Tail(ch)) \subseteq ToSet(ch)
          /\ \A x \in ToSet(Tail(ch)) : numbers.of[Head(ch)] < numbers.of[x]
      BY <1>3, OrderTypes, RisingTail DEF OrderInv, QueueSorted
    <2>3. NumbersBounded' /\ QueueSorted' /\ SteerUnnumbered' /\ Waits' \subseteq Waits
      BY <1>0, <1>3, <2>1, <2>2, ShrinksOrder DEF OrderInv, QueueSorted, Waits
    <2>4. \A x \in Waits' : numbers.of[Head(ch)] < numbers.of[x]
      BY <1>0, <1>3, <2>1, <2>2 DEF Waits
    <2>5. numbers.of[Head(ch)] > 0
      BY <2>2 DEF OrderInv, QueueSorted, Waits
    <2>6. Ahead' /\ StopBehind'
      BY <1>0, <2>1, <2>4, <2>5 DEF Ahead, StopBehind, Exposed
    <2> QED BY <2>3, <2>6 DEF OrderInv
  <1> QED BY <1>1, <1>2, <1>3 DEF Select

LEMMA DequeuedOrder ==
    ASSUME TypeOK, Control, OrderInv, Dequeued
    PROVE  OrderInv'
  <1>0. /\ Loose' \subseteq Loose /\ UNCHANGED <<ch, pending, numbers>> /\ w.pc = "dequeued"
        /\ w.batch = <<>> /\ Waits' = Waits
    <2>1. WorkerStep
      BY DEF WorkerStep
    <2> QED BY <2>1, WorkerLoose DEF Dequeued, Control, BatchPlaced, Waits
  <1>1. CASE w' = Done
    BY <1>0, <1>1, DoneSteady, SteadyOrder
  <1>2. CASE ~StoppedQueued(w.cur) /\ w' = [w EXCEPT !.pc = "relogin"]
    <2>1. w'.pc = "relogin" /\ w'.cur = w.cur /\ w'.batch = <<>>
      BY <1>0, <1>2, OrderTypes DEF Worker
    <2>2. numbers.of[w.cur] > 0 /\ \A x \in Waits : numbers.of[w.cur] < numbers.of[x]
      BY <1>0 DEF OrderInv, Ahead
    <2>3. w.cur \in Messages /\ numbers.of[w.cur] \in Nat /\ numbers.stop \in Nat
      BY <1>0, OrderTypes DEF Control, CurPlaced
    <2>4. w.cur \notin Injects => numbers.of[w.cur] > numbers.stop
      BY <1>2, <2>2, <2>3 DEF StoppedQueued
    <2>5. Ahead' /\ StopBehind'
      BY <1>0, <2>1, <2>2, <2>4 DEF Ahead, StopBehind, Exposed
    <2> QED BY <1>0, <2>1, <2>5 DEF OrderInv, NumbersBounded, QueueSorted, SteerUnnumbered
  <1> QED BY <1>1, <1>2 DEF Dequeued

LEMMA HandleDequeuedOrder ==
    ASSUME TypeOK, Control, NoUsage, OrderInv, HandleDequeued
    PROVE  OrderInv'
  <1>0. /\ Loose' \subseteq Loose /\ UNCHANGED <<ch, pending, numbers>> /\ w.pc = "relogin"
        /\ w.batch = <<>> /\ Waits' = Waits
    <2>1. WorkerStep
      BY DEF WorkerStep
    <2> QED BY <2>1, WorkerLoose DEF HandleDequeued, Control, BatchPlaced, Waits
  <1>1. CASE w' = [w EXCEPT !.pc = "dispatch"]
    <2>1. w'.pc = "dispatch" /\ w'.batch = w.batch /\ w'.waitCancel = w.waitCancel
      BY <1>1, OrderTypes DEF Worker
    <2> QED BY <1>0, <2>1, MovesSteady, SteadyOrder
  <1>2. CASE /\ w.cur \notin Injects
             /\ StartBatch(<<w.cur>>, IF Delegated /\ env.login THEN w.cur ELSE Nothing)
    <2>0. /\ w.cur \in Messages /\ numbers.of[w.cur] \in Nat /\ numbers.stop \in Nat
          /\ \A x \in Waits : numbers.of[x] \in Nat
      BY <1>0, OrderTypes DEF Control, CurPlaced
    <2>1. w'.pc = "gate1" /\ w'.batch = <<w.cur>>
      <3>1. <<w.cur>> \in Seq(Messages)
        BY <2>0
      <3>2. (IF Delegated /\ env.login THEN w.cur ELSE Nothing) \in Users \cup Lines \cup {Nothing}
        BY <1>2, <2>0 DEF Messages
      <3>3. w \in Worker /\ env \in Environment
        BY DEF TypeOK
      <3> QED BY <1>2, <3>1, <3>2, <3>3, StartBatchIs
    <2>2. w'.batch # <<>> /\ Head(w'.batch) = w.cur /\ ToSet(w'.batch) = {w.cur}
      BY <2>1 DEF ToSet
    <2>3. numbers.of[w.cur] > numbers.stop /\ \A x \in Waits : numbers.of[w.cur] < numbers.of[x]
      BY <1>0, <1>2 DEF OrderInv, Ahead
    <2>4. \A x \in ToSet(w'.batch) \cup Waits : numbers.of[x] > numbers.stop
      BY <2>0, <2>2, <2>3
    <2>5. Ahead' /\ StopBehind'
      BY <1>0, <1>2, <2>1, <2>2, <2>3, <2>4 DEF Ahead, StopBehind
    <2> QED BY <1>0, <2>1, <2>5 DEF OrderInv, NumbersBounded, QueueSorted, SteerUnnumbered
  <1> QED BY <1>1, <1>2 DEF HandleDequeued, NoUsage, UsageHoldsUser

LEMMA WaitTurnSlotOrder ==
    ASSUME TypeOK, Control, OrderInv, WaitTurnSlot
    PROVE  OrderInv'
  <1>0. /\ Loose' \subseteq Loose /\ UNCHANGED <<pending, numbers>> /\ w.pc = "slot"
        /\ w.batch # <<>>
    <2>1. WorkerStep
      BY DEF WorkerStep
    <2> QED BY <2>1, WorkerLoose DEF WaitTurnSlot, Control, BatchPlaced
  <1>1. CASE w' = SlotTaken /\ ch' = ch
    <2>1. w.slots < Limiters
      BY <1>0 DEF Control, SlotsPlaced, Waiting
    <2>2. w'.batch = w.batch /\ w'.waitCancel = w.waitCancel /\ w'.pc \in {"claim", "take"}
      BY <1>1, <2>1, SlotTakenIs, OrderTypes
    <2> QED BY <1>0, <1>1, <2>2, MovesSteady, SteadyOrder
  <1>2. CASE Abort /\ ch' = ch
    <2>1. /\ w'.pc = (IF env.done THEN "exit" ELSE "settle")
          /\ w'.batch = (IF env.done THEN w.batch ELSE <<>>)
      BY <1>2, AbortIs, OrderTypes, TallyTypes
    <2>2. Steady
      BY <1>0, <1>2, <2>1 DEF Steady, Exposed
    <2> QED BY <1>0, <2>2, SteadyOrder
  <1>3. CASE w' = [w EXCEPT !.pc = "walk", !.walk = 1] /\ ch' = ch
    <2>1. w'.batch = w.batch /\ w'.waitCancel = w.waitCancel /\ w'.pc = "walk"
      BY <1>3, OrderTypes DEF Worker
    <2> QED BY <1>0, <1>3, <2>1, MovesSteady, SteadyOrder
  <1>4. CASE /\ ch # <<>> /\ ch' = Tail(ch)
             /\ \/ w' = [w EXCEPT !.batch = Append(@, Head(ch))]
                \/ w' = [w EXCEPT !.pc = "dispatch", !.cur = Head(ch)]
    <2>1. /\ Rising(numbers.of, Tail(ch)) /\ Head(ch) \in ToSet(ch)
          /\ ToSet(Tail(ch)) \subseteq ToSet(ch)
      BY <1>4, OrderTypes, RisingTail DEF OrderInv, QueueSorted
    <2>2. /\ w'.pc \in {"slot", "dispatch"} /\ w'.waitCancel = w.waitCancel
          /\ w'.batch = w.batch \/ w'.batch = Append(w.batch, Head(ch))
      BY <1>0, <1>4, OrderTypes DEF Worker
    <2>3. /\ w'.batch # <<>> /\ Head(w'.batch) = Head(w.batch)
          /\ ToSet(w'.batch) \subseteq ToSet(w.batch) \cup Waits
      <3>1. CASE w'.batch = w.batch
        BY <1>0, <3>1
      <3>2. CASE w'.batch = Append(w.batch, Head(ch))
        <4> DEFINE b == w.batch
                   x == Head(ch)
        <4>1. x \in Messages /\ x \in Waits /\ b \in Seq(Messages) /\ b # <<>>
          BY <1>0, <2>1, OrderTypes DEF Waits
        <4> HIDE DEF b, x
        <4>2. ToSet(Append(b, x)) = ToSet(b) \cup {x} /\ ToSet(<<x>> \o b) = ToSet(b) \cup {x}
          BY <4>1, ToSetAppend
        <4>3. Append(b, x) # <<>> /\ Head(Append(b, x)) = Head(b)
          <5>1. Len(b) \in Nat /\ Len(b) >= 1 /\ Head(b) = b[1]
            BY <4>1
          <5>2. /\ Append(b, x) \in Seq(Messages) /\ Len(Append(b, x)) = Len(b) + 1
                /\ Append(b, x)[1] = b[1]
            BY <4>1, <5>1
          <5>3. Append(b, x) # <<>>
            BY <5>1, <5>2
          <5> QED BY <5>1, <5>2, <5>3
        <4> QED BY <3>2, <4>1, <4>2, <4>3 DEF b, x
      <3> QED BY <2>2, <3>1, <3>2
    <2>4. NumbersBounded' /\ QueueSorted' /\ SteerUnnumbered' /\ Waits' \subseteq Waits
      BY <1>0, <1>4, <2>1, <2>2, ShrinksOrder DEF OrderInv, QueueSorted, Waits
    <2>5. Ahead'
      BY <1>0, <2>2, <2>3, <2>4 DEF OrderInv, Ahead
    <2>6. Exposed' => Exposed
      BY <1>0, <2>2 DEF Exposed
    <2>7. StopBehind'
      BY <1>0, <2>3, <2>4, <2>6 DEF OrderInv, StopBehind
    <2> QED BY <2>4, <2>5, <2>7 DEF OrderInv
  <1> QED BY <1>1, <1>2, <1>3, <1>4 DEF WaitTurnSlot

\* The queue a turn takes its messages from.
LEMMA QueuedRising ==
    ASSUME TypeOK, OrderInv
    PROVE  /\ Queued \in Seq(Messages) /\ ToSet(Queued) = Waits /\ Rising(numbers.of, Queued)
           /\ Rising(numbers.of, Kept(Queued, Injects)) /\ ToSet(Kept(Queued, Injects)) \subseteq Waits
  <1>1. Queued \in Seq(Messages) /\ ToSet(Queued) = Waits
    BY OrderTypes, ToSetConcat DEF Queued, Waits
  <1>2. Rising(numbers.of, Queued)
    BY OrderTypes, RisingConcat DEF OrderInv, QueueSorted, Queued
  <1>3. Rising(numbers.of, Kept(Queued, Injects))
    BY <1>1, <1>2, RisingKept
  <1>4. ToSet(Kept(Queued, Injects)) \subseteq Waits
    BY <1>1, KeptSeq
  <1> QED BY <1>1, <1>2, <1>3, <1>4

\* A turn takes the user messages off the queue, or the queue is joined.
LEMMA TurnTakes ==
    ASSUME TypeOK, Control, OrderInv, NoUsage, DriveBatch \/ FollowUp
    PROVE  OrderInv'
  <1>0. Loose' \subseteq Loose /\ numbers' = numbers /\ w.pc \in {"batch", "after"}
    <2>1. WorkerStep
      BY DEF WorkerStep
    <2> QED BY <2>1, WorkerLoose DEF DriveBatch, FollowUp
  <1>1. Exposed
    <2>1. CASE w.pc = "batch"
      BY <2>1 DEF Exposed, Control, BatchPlaced, SlotsPlaced, Waiting, Serving, AtGate
    <2>2. CASE w.pc = "after"
      BY <2>2 DEF Exposed
    <2> QED BY <1>0, <2>1, <2>2
  <1>2. ch' = <<>> /\ (pending' = Queued \/ pending' = Kept(Queued, Injects))
    BY DEF DriveBatch, FollowUp, NoUsage, UsageHoldsUser
  <1>3. w'.batch = <<>> /\ w'.pc \in {"drive", "inactive"}
    <2>1. CASE DriveBatch
      BY <2>1, OrderTypes DEF DriveBatch, Worker
    <2>2. CASE FollowUp
      <3>1. w.batch = <<>>
        BY <2>2 DEF FollowUp, Control, BatchPlaced
      <3> QED BY <2>2, <3>1, OrderTypes DEF FollowUp, Worker
    <2> QED BY <2>1, <2>2
  <1>4. Rising(numbers.of, <<>>) /\ ToSet(<<>>) = {}
    BY DEF Rising, ToSet
  <1>5. NumbersBounded' /\ QueueSorted' /\ SteerUnnumbered' /\ Waits' \subseteq Waits
    BY <1>0, <1>2, <1>3, <1>4, QueuedRising, ShrinksOrder
  <1>6. Ahead'
    BY <1>3 DEF Ahead
  <1>7. StopBehind'
    BY <1>0, <1>1, <1>3, <1>4, <1>5 DEF OrderInv, StopBehind
  <1> QED BY <1>5, <1>6, <1>7 DEF OrderInv

LEMMA ExitOrder ==
    ASSUME TypeOK, Control, OrderInv, Exit
    PROVE  OrderInv'
  <1>0. Loose' \subseteq Loose /\ UNCHANGED <<ch, numbers>> /\ pending' = <<>>
    <2>1. WorkerStep
      BY DEF WorkerStep
    <2> QED BY <2>1, WorkerLoose DEF Exit
  <1>1. w'.pc = "exited" /\ w'.batch = <<>>
    BY OrderTypes DEF Exit, Worker
  <1>2. Rising(numbers.of, <<>>) /\ ToSet(<<>>) = {}
    BY DEF Rising, ToSet
  <1>3. NumbersBounded' /\ QueueSorted' /\ SteerUnnumbered'
    BY <1>0, <1>1, <1>2, ShrinksOrder DEF OrderInv, QueueSorted
  <1> QED BY <1>1, <1>3 DEF OrderInv, Ahead, StopBehind, Exposed

\* A /stop covers what has a number, and drops the batch that waits.
LEMMA CancelSessionOrder ==
    ASSUME TypeOK, Control, OrderInv, CancelSession
    PROVE  OrderInv'
  <1>0. /\ UNCHANGED <<ch, pending, out, steer>> /\ w.waitCancel # "none"
        /\ numbers' = [numbers EXCEPT !.stop = numbers.last] /\ w' = [w EXCEPT !.waitCancel = "fired"]
    BY DEF CancelSession
  <1>1. numbers'.of = numbers.of /\ numbers'.last = numbers.last /\ numbers'.stop = numbers.last
    BY <1>0 DEF TypeOK
  <1>2. w'.pc = w.pc /\ w'.cur = w.cur /\ w'.batch = w.batch /\ w'.waitCancel = "fired"
    BY <1>0, OrderTypes DEF Worker
  <1>3. Waiting
    BY <1>0 DEF Control, SlotsPlaced
  <1>4. w.pc \notin {"select", "dequeued", "relogin", "drive", "after"}
    BY <1>3 DEF Waiting, Serving, AtGate
  <1>5. Waits' = Waits /\ Loose' = Loose
    BY <1>0 DEF Waits, Loose
  <1>6. numbers.last <= numbers.last
    BY OrderTypes
  <1>7. NumbersBounded' /\ QueueSorted'
    BY <1>0, <1>1, <1>2, <1>4, <1>5, <1>6 DEF OrderInv, NumbersBounded, QueueSorted
  <1>8. Ahead' /\ StopBehind' /\ SteerUnnumbered'
    BY <1>1, <1>2, <1>4, <1>5 DEF OrderInv, Ahead, StopBehind, Exposed, SteerUnnumbered
  <1> QED BY <1>7, <1>8 DEF OrderInv

\* A fresh process has no numbers and no queues: at first ...
LEMMA InitOrder ==
    ASSUME Init
    PROVE  OrderInv
  <1>0. /\ ch = <<>> /\ pending = <<>> /\ w.batch = <<>> /\ w.pc = "top"
        /\ numbers = [of |-> [m \in Messages |-> 0], last |-> 0, stop |-> 0]
    BY DEF Init
  <1>1. Rising(numbers.of, <<>>) /\ ToSet(<<>>) = {}
    BY DEF Rising, ToSet
  <1>2. Users \subseteq Messages
    BY DEF Messages
  <1>3. NumbersBounded /\ SteerUnnumbered
    BY <1>0, <1>2 DEF NumbersBounded, SteerUnnumbered, Loose
  <1>4. QueueSorted /\ Ahead /\ StopBehind
    BY <1>0, <1>1 DEF QueueSorted, Waits, Ahead, StopBehind, Exposed
  <1> QED BY <1>3, <1>4 DEF OrderInv

\* ... and after a crash.
LEMMA CrashOrder ==
    ASSUME Crash
    PROVE  OrderInv'
  <1>0. /\ ch' = <<>> /\ pending' = <<>> /\ w'.batch = <<>> /\ w'.pc = "top"
        /\ numbers' = [of |-> [m \in Messages |-> 0], last |-> 0, stop |-> 0]
    BY DEF Crash
  <1>1. Rising(numbers'.of, <<>>) /\ ToSet(<<>>) = {}
    BY DEF Rising, ToSet
  <1>2. Users \subseteq Messages
    BY DEF Messages
  <1>3. NumbersBounded' /\ SteerUnnumbered'
    BY <1>0, <1>2 DEF NumbersBounded, SteerUnnumbered, Loose
  <1>4. QueueSorted' /\ Ahead' /\ StopBehind'
    BY <1>0, <1>1 DEF QueueSorted, Waits, Ahead, StopBehind, Exposed
  <1> QED BY <1>3, <1>4 DEF OrderInv

\* A step that leaves the queues and the worker alone.
LEMMA StillOrder ==
    ASSUME OrderInv, UNCHANGED <<ch, pending, numbers, w>>, Loose' \subseteq Loose
    PROVE  OrderInv'
  <1>1. Waits' = Waits
    BY DEF Waits
  <1> QED BY <1>1 DEF OrderInv, NumbersBounded, QueueSorted, Ahead, StopBehind, Exposed,
                      SteerUnnumbered

\* What a producer has in hand is nowhere else.
LEMMA OnlyThere ==
    ASSUME TypeOK, AtMostOnce, NEW x \in Messages,
           x \in out.unsent \/ x \in ToSet(out.requeue) \/ x \in ToSet(out.restore)
    PROVE  /\ x \notin Waits /\ x \notin ToSet(w.batch) /\ x \notin ToSet(steer)
           /\ x \notin out.steering /\ x \notin ToSet(held)
           /\ x \in ToSet(out.requeue) \/ x \in ToSet(out.restore) => x \notin out.unsent
           /\ w.pc # "ready" \/ WalkPlaced => w.cur # x
  <1>1. PICK c, p, h, u, s, b, q, r, d, o, k, f \in Nat :
              Tallied(x, c, p, h, u, s, b, q, r, d, o, k, f)
    BY TallyNow
  <1>2. c + p + h + u + s + b + q + r + d + o + k <= 1
    BY <1>1 DEF Tallied, AtMostOnce
  <1>3. PICK a, e, g \in Nat : a = In(x, out.unsent) /\ e = In(x, out.fresh) /\ g = In(x, out.steering)
    BY IsType
  <1>4. o = a + e + g
    BY <1>1, <1>3 DEF Tallied, OutsideOf
  <1>5. /\ x \in ToSet(ch) <=> c # 0
        /\ x \in ToSet(pending) <=> p # 0
        /\ x \in ToSet(held) <=> h # 0
        /\ x \in ToSet(steer) <=> s # 0
        /\ x \in ToSet(w.batch) <=> b # 0
        /\ x \in ToSet(out.requeue) <=> q # 0
        /\ x \in ToSet(out.restore) <=> r # 0
    BY <1>1, TallyTypes, OccursType DEF Tallied
  <1>6. (x \in out.unsent <=> a = 1) /\ (x \in out.steering <=> g = 1)
    BY <1>3, IsType
  <1>7. c + p + h + s + b + q + r + a + g + k <= 1
    BY <1>2, <1>4
  <1>8. q # 0 \/ r # 0 \/ a = 1
    BY <1>5, <1>6
  <1>9. c = 0 /\ p = 0 /\ h = 0 /\ s = 0 /\ b = 0 /\ g = 0 /\ k = 0
    <2>1. PICK y \in Nat : y = q + r + a
      OBVIOUS
    <2>2. y >= 1
      BY <1>8, <2>1
    <2>3. PICK z \in Nat : z = c + p + h + s + b + g + k
      OBVIOUS
    <2>4. z + y <= 1
      BY <1>7, <2>1, <2>3
    <2>5. z = 0
      BY <2>2, <2>4
    <2> QED BY <2>3, <2>5
  <1>10. q # 0 \/ r # 0 => a = 0
    <2>1. q + r + a <= 1
      BY <1>7
    <2> QED BY <2>1
  <1>11. w.pc # "ready" \/ WalkPlaced => w.cur # x
    <2>1. InHand(x) = 0
      BY <1>1, <1>9 DEF Tallied
    <2>2. CASE ~(w.walk > 0 /\ w.pc = "ready")
      BY <2>1, <2>2 DEF InHand, Is
    <2>3. CASE w.walk > 0 /\ w.pc = "ready" /\ WalkPlaced
      <3>1. held \in Seq(Messages) /\ w.walk \in 1..Len(held) /\ w.cur = held[w.walk]
        BY <2>3, TallyTypes, OrderTypes DEF WalkPlaced, Worker
      <3>2. w.cur \in ToSet(held)
        BY <3>1 DEF ToSet
      <3> QED BY <1>5, <1>9, <3>2
    <2> QED BY <2>2, <2>3
  <1> QED BY <1>5, <1>6, <1>9, <1>10, <1>11 DEF Waits

\* A push numbers the message above every other and puts it at the end.
LEMMA PushOrder ==
    ASSUME TypeOK, Control, OrderInv, NEW x \in Messages, NEW r, Push(x, r), UNCHANGED <<pending, w>>,
           x \notin Waits, x \notin ToSet(w.batch), w.pc # "ready" => w.cur # x,
           Loose' \subseteq Loose, x \notin Loose'
    PROVE  OrderInv'
  <1> DEFINE f == numbers.of
             g == numbers'.of
             top == numbers.last + 1
  <1>0. /\ f \in [Messages -> Nat] /\ numbers.last \in Nat /\ numbers.stop \in Nat
        /\ ch \in Seq(Messages) /\ pending \in Seq(Messages) /\ ToSet(w.batch) \subseteq Messages
        /\ Waits \subseteq Messages
    BY OrderTypes
  <1>1. numbers' = [numbers EXCEPT !.of[x] = numbers.last + 1, !.last = @ + 1]
    BY DEF Push
  <1>2. g = [f EXCEPT ![x] = top] /\ numbers'.last = top /\ numbers'.stop = numbers.stop
    BY <1>1 DEF TypeOK
  <1>3. /\ g[x] = top /\ \A m \in Messages : m # x => g[m] = f[m]
        /\ top \in Nat /\ numbers.last < top /\ g \in [Messages -> Nat]
    BY <1>0, <1>2
  <1>4. \A m \in Messages : f[m] <= numbers.last /\ f[m] \in Nat
    BY <1>0 DEF OrderInv, NumbersBounded
  <1>5. numbers.stop <= numbers.last
    BY DEF OrderInv, NumbersBounded
  <1>6. \A m \in Waits \cup ToSet(w.batch) : g[m] = f[m] /\ m \in Messages /\ g[m] < top
    BY <1>0, <1>3, <1>4
  <1>7. ch' = ch \/ ch' = Append(ch, x)
    BY DEF Push
  <1>8. ToSet(ch) \subseteq Waits /\ ToSet(pending) \subseteq Waits
    BY DEF Waits
  <1>9. ToSet(ch') \subseteq ToSet(ch) \cup {x}
    <2>1. ToSet(Append(ch, x)) = ToSet(ch) \cup {x} /\ ToSet(<<x>> \o ch) = ToSet(ch) \cup {x}
      BY <1>0, ToSetAppend
    <2> QED BY <1>7, <2>1
  <1>10. Waits' \subseteq Waits \cup {x}
    BY <1>9 DEF Waits
  <1> HIDE DEF f, g, top
  <1>11. NumbersBounded'
    <2>1. \A m \in Messages : g[m] <= top
      BY <1>0, <1>3, <1>4
    <2>2. numbers.stop <= top
      BY <1>0, <1>3, <1>5
    <2> QED BY <1>2, <2>1, <2>2 DEF NumbersBounded, g
  <1>12. QueueSorted'
    <2>1. Rising(f, pending) /\ Rising(f, ch)
      BY DEF OrderInv, QueueSorted, f
    <2>2. Rising(g, pending) /\ Rising(g, ch)
      BY <1>0, <1>6, <1>8, <2>1, RisingSame
    <2>3. Rising(g, Append(ch, x))
      BY <1>0, <1>3, <1>6, <1>8, <2>2, RisingAppend
    <2>4. Rising(g, pending') /\ Rising(g, ch')
      BY <1>7, <2>2, <2>3
    <2>5. \A y \in ToSet(pending), z \in ToSet(ch) : f[y] < f[z]
      BY DEF OrderInv, QueueSorted, f
    <2>6. \A y \in ToSet(pending), z \in ToSet(ch') : g[y] < g[z]
      BY <1>3, <1>6, <1>8, <1>9, <2>5
    <2>7. \A y \in Waits : f[y] > 0
      BY DEF OrderInv, QueueSorted, f
    <2>8. top > 0
      BY <1>0 DEF top
    <2>9. \A y \in Waits' : g[y] > 0
      BY <1>3, <1>6, <1>10, <2>7, <2>8
    <2>10. w.pc = "select" => pending = <<>>
      BY DEF OrderInv, QueueSorted
    <2> QED BY <2>4, <2>6, <2>9, <2>10 DEF QueueSorted, g
  <1>13. Ahead'
    <2>1. CASE w.pc \in {"dequeued", "relogin"}
      <3>1. w.cur \in Messages /\ w.cur # x /\ w.batch = <<>>
        BY <2>1 DEF Control, CurPlaced, BatchPlaced
      <3>2. g[w.cur] = f[w.cur] /\ f[w.cur] < top
        BY <1>0, <1>3, <1>4, <3>1
      <3>3. /\ f[w.cur] > 0 /\ \A y \in Waits : f[w.cur] < f[y]
            /\ w.pc = "relogin" /\ w.cur \notin Injects => f[w.cur] > numbers.stop
        BY <2>1 DEF OrderInv, Ahead, f
      <3>4. g[w.cur] > 0 /\ \A y \in Waits' : g[w.cur] < g[y]
        BY <1>3, <1>6, <1>10, <3>2, <3>3
      <3> QED BY <1>2, <3>1, <3>2, <3>3, <3>4 DEF Ahead, g
    <2>2. CASE w.pc \notin {"dequeued", "relogin"} /\ w.batch # <<>>
      <3>1. Head(w.batch) \in ToSet(w.batch)
        BY <2>2, OrderTypes DEF ToSet
      <3>2. Head(w.batch) \notin Injects /\ \A y \in Waits : f[Head(w.batch)] < f[y]
        BY <2>2 DEF OrderInv, Ahead, f
      <3>3. \A y \in Waits' : g[Head(w.batch)] < g[y]
        BY <1>3, <1>6, <1>10, <3>1, <3>2
      <3> QED BY <2>2, <3>2, <3>3 DEF Ahead, g
    <2>3. CASE w.pc \notin {"dequeued", "relogin"} /\ w.batch = <<>>
      BY <2>3 DEF Ahead
    <2> QED BY <2>1, <2>2, <2>3
  <1>14. StopBehind'
    <2>1. Exposed => \A y \in ToSet(w.batch) \cup Waits : f[y] > numbers.stop
      BY DEF OrderInv, StopBehind, f
    <2>2. top > numbers.stop
      BY <1>0, <1>3, <1>5
    <2>3. Exposed => \A y \in ToSet(w.batch) \cup Waits' : g[y] > numbers.stop
      BY <1>3, <1>6, <1>10, <2>1, <2>2
    <2> QED BY <1>2, <2>3 DEF StopBehind, Exposed, g
  <1>15. SteerUnnumbered'
    <2>1. \A u \in Loose' : u \in Messages /\ u # x /\ f[u] = 0
      BY DEF OrderInv, SteerUnnumbered, Loose, Messages, f
    <2> QED BY <1>3, <2>1 DEF SteerUnnumbered, g
  <1> QED BY <1>11, <1>12, <1>13, <1>14, <1>15 DEF OrderInv

\* x is in the hands of one producer, whose record is rest without it.
InTransit(x, rest) ==
    /\ x \notin Waits /\ x \notin ToSet(w.batch) /\ (w.pc # "ready" => w.cur # x)
    /\ Users \cap (rest.unsent \cup rest.steering) \subseteq Loose
    /\ x \in Users => x \notin rest.unsent \cup rest.steering \cup ToSet(steer)

\* It is pushed, or steered and then not numbered.
LEMMA ArrivesOrder ==
    ASSUME TypeOK, Control, OrderInv, NEW x \in Messages, NEW r, NEW rest \in Outside,
           InTransit(x, rest), UNCHANGED <<pending, w, steer>>,
           \/ Push(x, r) /\ out' = rest
           \/ UNCHANGED <<ch, numbers>> /\ out' = rest
           \/ SteerOrPush(x, r, rest) /\ (x \in Users => x \in Loose)
    PROVE  OrderInv'
  <1>0. ToSet(steer') = ToSet(steer)
    OBVIOUS
  <1>1. ASSUME out' = rest PROVE Loose' \subseteq Loose /\ x \notin Loose'
    BY <1>0, <1>1 DEF InTransit, Loose
  <1>2. CASE Push(x, r) /\ out' = rest
    BY <1>1, <1>2, PushOrder DEF InTransit
  <1>3. CASE UNCHANGED <<ch, numbers>> /\ out' = rest
    BY <1>1, <1>3, StillOrder
  <1>4. CASE /\ x \in Users => x \in Loose
             /\ UNCHANGED <<ch, numbers>> /\ out' = [rest EXCEPT !.steering = @ \cup {x}]
    <2>1. out'.unsent = rest.unsent /\ out'.steering = rest.steering \cup {x}
      BY <1>4 DEF Outside
    <2>2. Loose' \subseteq Loose
      BY <1>0, <1>4, <2>1 DEF InTransit, Loose
    <2> QED BY <1>4, <2>2, StillOrder
  <1> QED BY <1>2, <1>3, <1>4 DEF SteerOrPush

\* The goroutines that bring messages keep the order.
LEMMA ProducersOrder ==
    ASSUME TypeOK, Control, AtMostOnce, OrderInv, Producers
    PROVE  OrderInv'
  <1>0. out \in Outside
    BY DEF TypeOK
  <1>1. ASSUME NEW x \in Messages, x \in out.unsent
        PROVE  /\ [out EXCEPT !.unsent = @ \ {x}] \in Outside
               /\ InTransit(x, [out EXCEPT !.unsent = @ \ {x}])
               /\ x \in Users => x \in Loose
    <2> DEFINE rest == [out EXCEPT !.unsent = @ \ {x}]
    <2>1. rest \in Outside /\ rest.unsent = out.unsent \ {x} /\ rest.steering = out.steering
      BY <1>0 DEF Outside
    <2> HIDE DEF rest
    <2>2. /\ x \notin Waits /\ x \notin ToSet(w.batch) /\ x \notin ToSet(steer)
          /\ x \notin out.steering /\ (w.pc # "ready" => w.cur # x)
      BY <1>1, OnlyThere
    <2> QED BY <1>1, <2>1, <2>2 DEF InTransit, Loose, rest
  <1>2. ASSUME NEW x \in Users, EnqueueUser(x) PROVE OrderInv'
    <2> DEFINE rest == [out EXCEPT !.unsent = @ \ {x}]
    <2>1. x \in Messages /\ x \in out.unsent
      BY <1>2 DEF EnqueueUser, Messages
    <2>2. rest \in Outside /\ InTransit(x, rest) /\ x \in Loose
      BY <1>1, <2>1
    <2> HIDE DEF rest
    <2>3. /\ UNCHANGED <<pending, w, steer>>
          /\ \/ Push(x, "rejected") /\ out' = rest
             \/ UNCHANGED <<ch, numbers>> /\ out' = rest
             \/ SteerOrPush(x, "rejected", rest)
      BY <1>2 DEF EnqueueUser, rest
    <2> QED BY <2>1, <2>2, <2>3, ArrivesOrder
  <1>3. ASSUME NEW x \in Injects, EnqueueInject(x) PROVE OrderInv'
    <2> DEFINE rest == [out EXCEPT !.unsent = @ \ {x}]
    <2>1. x \in Messages /\ x \in out.unsent
      BY <1>3 DEF EnqueueInject, Messages
    <2>2. rest \in Outside /\ InTransit(x, rest) /\ (x \in Users => x \in Loose)
      BY <1>1, <2>1
    <2> HIDE DEF rest
    <2>3. /\ UNCHANGED <<pending, w, steer>>
          /\ (Push(x, "rejected") /\ out' = rest) \/ SteerOrPush(x, "rejected", rest)
      BY <1>3 DEF EnqueueInject, EnqueueInjection, rest
    <2> QED BY <2>1, <2>2, <2>3, ArrivesOrder
  <1>4. ASSUME Requeue PROVE OrderInv'
    <2> DEFINE rest == [out EXCEPT !.requeue = Tail(@)]
               x == Head(out.requeue)
    <2>0. out.requeue \in Seq(Injects) /\ out.requeue # <<>>
      BY <1>0, <1>4 DEF Outside, Requeue
    <2>1. x \in Injects /\ x \in ToSet(out.requeue) /\ Tail(out.requeue) \in Seq(Injects)
      BY <2>0 DEF ToSet
    <2>2. rest \in Outside /\ rest.unsent = out.unsent /\ rest.steering = out.steering
      BY <1>0, <2>1 DEF Outside
    <2> HIDE DEF rest, x
    <2>3. x \in Messages /\ x \notin Users
      BY <2>1, InboxAssumption DEF Messages
    <2>4. x \notin Waits /\ x \notin ToSet(w.batch) /\ (w.pc # "ready" => w.cur # x)
      BY <2>1, <2>3, OnlyThere
    <2>5. InTransit(x, rest)
      BY <2>2, <2>3, <2>4 DEF InTransit, Loose
    <2>6. /\ UNCHANGED <<pending, w, steer>>
          /\ (Push(x, "refused") /\ out' = rest) \/ SteerOrPush(x, "refused", rest)
      BY <1>4 DEF Requeue, EnqueueInjection, rest, x
    <2> QED BY <2>2, <2>3, <2>5, <2>6, ArrivesOrder
  <1>5. ASSUME Restore PROVE OrderInv'
    <2> DEFINE rest == [out EXCEPT !.restore = Tail(@)]
               x == Head(out.restore)
    <2>0. out.restore \in Seq(Messages) /\ out.restore # <<>>
      BY <1>0, <1>5 DEF Outside, Restore
    <2>1. x \in Messages /\ x \in ToSet(out.restore) /\ Tail(out.restore) \in Seq(Messages)
      BY <2>0 DEF ToSet
    <2>2. rest \in Outside /\ rest.unsent = out.unsent /\ rest.steering = out.steering
      BY <1>0, <2>1 DEF Outside
    <2> HIDE DEF rest, x
    <2>4. /\ x \notin Waits /\ x \notin ToSet(w.batch) /\ x \notin ToSet(steer)
          /\ x \notin out.steering /\ x \notin out.unsent /\ (w.pc # "ready" => w.cur # x)
      BY <2>1, OnlyThere
    <2>5. InTransit(x, rest)
      BY <2>2, <2>4 DEF InTransit, Loose
    <2>6. UNCHANGED <<pending, w, steer>> /\ Push(x, "rejected") /\ out' = rest
      BY <1>5 DEF Restore, rest, x
    <2> QED BY <2>1, <2>2, <2>5, <2>6, ArrivesOrder
  <1>6. ASSUME NEW x \in Messages, AppendSteer(x) PROVE OrderInv'
    <2>1. /\ UNCHANGED <<ch, pending, numbers, w>> /\ x \in out.steering /\ steer' = Append(steer, x)
          /\ out'.unsent = out.unsent /\ out'.steering = out.steering \ {x}
      BY <1>0, <1>6 DEF AppendSteer, Outside
    <2>2. steer \in Seq(Messages)
      BY TallyTypes
    <2>3. ToSet(Append(steer, x)) = ToSet(steer) \cup {x} /\ ToSet(<<x>> \o steer) = ToSet(steer) \cup {x}
      BY <2>2, ToSetAppend
    <2>4. Loose' \subseteq Loose
      BY <2>1, <2>3 DEF Loose
    <2> QED BY <2>1, <2>4, StillOrder
  <1>7. ASSUME \/ \E by \in Asks \cup {Login} : DrainDeferredInjects(by)
               \/ \E x \in Injects : ReleaseExpiredAskHolds(x)
        PROVE  OrderInv'
    <2>1. /\ UNCHANGED <<ch, pending, numbers, w, steer>>
          /\ out'.unsent = out.unsent /\ out'.steering = out.steering
      BY <1>0, <1>7 DEF DrainDeferredInjects, ReleaseExpiredAskHolds, Outside
    <2>2. Loose' = Loose
      BY <2>1 DEF Loose
    <2> QED BY <2>1, <2>2, StillOrder
  <1> QED BY <1>2, <1>3, <1>4, <1>5, <1>6, <1>7 DEF Producers

\* Every step keeps the order while there are no usage events.
LEMMA NextOrder ==
    ASSUME IInv, NoUsage, OrderInv, Next
    PROVE  OrderInv'
  <1>0. TypeOK /\ Control /\ AtMostOnce
    BY DEF IInv
  <1>1. CASE Arm \/ Select \/ Dequeued \/ HandleDequeued \/ WaitTurnSlot \/ DriveBatch \/ FollowUp \/ Exit
    BY <1>0, <1>1, ArmOrder, SelectOrder, DequeuedOrder, HandleDequeuedOrder, WaitTurnSlotOrder,
       TurnTakes, ExitOrder
  <1>2. CASE CancelSession
    BY <1>0, <1>2, CancelSessionOrder
  <1>3. CASE /\ WorkerStep \/ PrimaryWritten \/ DrainSteerTexts \/ Grant
             /\ ~(Arm \/ Select \/ Dequeued \/ HandleDequeued \/ WaitTurnSlot \/ DriveBatch \/ FollowUp \/ Exit)
    <2>1. Loose' \subseteq Loose
      BY <1>0, <1>3, WorkerLoose
    <2>2. Steady
      BY <1>0, <1>3, WorkerSteady DEF WorkerStep
    <2> QED BY <2>1, <2>2, SteadyOrder
  <1>4. CASE Producers
    BY <1>0, <1>4, ProducersOrder
  <1>5. CASE Told
    <2>1. UNCHANGED <<ch, pending, w, steer>> /\ out'.unsent = out.unsent /\ out'.steering = out.steering
      BY <1>0, <1>5, ToldSame
    <2>2. numbers' = numbers
      BY <1>5 DEF Told, WatchInjectGate, UsageLifts, ReloginStart, ReloginComplete, ReloginRelease,
         AskResolved, BeginShutdown, StopInbox, HoldAges, Close, Open, UsageHoldStarts, AskShown
    <2>3. Loose' = Loose
      BY <2>1 DEF Loose
    <2> QED BY <2>1, <2>2, <2>3, StillOrder
  <1>6. CASE Crash
    BY <1>6, CrashOrder
  <1> QED BY <1>1, <1>2, <1>3, <1>4, <1>5, <1>6, NextSplit

\* A message starts when its fate grows by "ran", and only then.
LEMMA StartsIs ==
    ASSUME TypeOK, NEW m \in Messages
    PROVE  /\ fate'[m] = fate[m] => ~Starts(m)
           /\ \A o : fate'[m] = Append(fate[m], o) => (Starts(m) <=> o = "ran")
  <1>1. fate[m] \in Seq(Outcomes)
    BY DEF TypeOK
  <1>2. Len(fate[m]) \in Nat
    BY <1>1
  <1>3. fate'[m] = fate[m] => ~Starts(m)
    BY <1>2 DEF Starts
  <1>4. ASSUME NEW o, fate'[m] = Append(fate[m], o)
        PROVE  Starts(m) <=> o = "ran"
    <2>1. Len(Append(fate[m], o)) = Len(fate[m]) + 1 /\ Append(fate[m], o)[Len(fate[m]) + 1] = o
      BY <1>1
    <2>2. Len(fate'[m]) > Len(fate[m]) /\ Last(fate'[m]) = o
      BY <1>2, <1>4, <2>1 DEF Last
    <2> QED BY <2>2 DEF Starts
  <1> QED BY <1>3, <1>4

LEMMA StartsNot ==
    ASSUME TypeOK, NEW m \in Messages, NEW o, o # "ran", fate'[m] = Append(fate[m], o)
    PROVE  ~Starts(m)
  BY StartsIs

\* No message starts when all that end do so otherwise.
LEMMA NoneStarts ==
    ASSUME TypeOK, NEW m \in Messages,
           fate' = fate \/ \E S, o : o # "ran" /\ fate' = Ended(S, o)
    PROVE  ~Starts(m)
  <1>1. CASE fate' = fate
    BY <1>1, StartsIs
  <1>2. CASE \E S, o : o # "ran" /\ fate' = Ended(S, o)
    <2>1. PICK S, o : o # "ran" /\ fate' = Ended(S, o)
      BY <1>2
    <2>2. fate'[m] = fate[m] \/ fate'[m] = Append(fate[m], o)
      BY <2>1 DEF Ended
    <2> QED BY <2>1, <2>2, StartsIs
  <1> QED BY <1>1, <1>2

\* The worker's steps that start no message.
LEMMA WorkerStarts ==
    ASSUME TypeOK, Control, NEW u \in Messages, WorkerStep \/ PrimaryWritten \/ Grant \/ CancelSession,
           ~DriveBatch, ~FollowUp, RunInject => w.cur # u
    PROVE  ~Starts(u)
  <1>0. u \in Messages
    OBVIOUS
  <1>1. CASE TakeUsageResume \/ Dequeued \/ HandleDequeued \/ GateEnded
    <2>1. fate' = fate \/ \E S, o : o # "ran" /\ fate' = Ended(S, o)
      BY <1>1 DEF TakeUsageResume, Dequeued, HandleDequeued, GateEnded, ParkFate, RefuseCur
    <2> QED BY <1>0, <2>1, NoneStarts
  <1>2. CASE RunInject
    <2>1. fate' = fate \/ \E o : fate' = Ended({w.cur}, o)
      BY <1>2 DEF RunInject
    <2>2. fate'[u] = fate[u]
      BY <1>0, <1>2, <2>1 DEF Ended
    <2> QED BY <1>0, <2>2, StartsIs
  <1>3. CASE WaitTurnSlot \/ ClaimWaitCancel
    <2>1. fate' = fate \/ Abort
      BY <1>3 DEF WaitTurnSlot, ClaimWaitCancel
    <2>2. fate' = fate \/ \E S, o : o # "ran" /\ fate' = Ended(S, o)
      BY <2>1 DEF Abort
    <2> QED BY <1>0, <2>2, NoneStarts
  <1>4. CASE Exit
    <2>1. \/ fate'[u] = fate[u] \/ fate'[u] = Append(fate[u], "refused")
          \/ fate'[u] = Append(fate[u], "dropped")
      BY <1>0, <1>4 DEF Exit
    <2>2. "refused" # "ran" /\ "dropped" # "ran"
      OBVIOUS
    <2>3. fate'[u] = Append(fate[u], "refused") => ~Starts(u)
      BY <1>0, <2>2, StartsNot
    <2>4. fate'[u] = Append(fate[u], "dropped") => ~Starts(u)
      BY <1>0, <2>2, StartsNot
    <2> QED BY <1>0, <2>1, <2>3, <2>4, StartsIs
  <1>5. CASE ~(TakeUsageResume \/ Dequeued \/ HandleDequeued \/ GateEnded \/ RunInject
               \/ WaitTurnSlot \/ ClaimWaitCancel \/ Exit)
    <2>1. fate' = fate
      BY <1>5 DEF WorkerStep, PrimaryWritten, Grant, CancelSession, LoopTop,
         ReleaseHeldKeep, ReleaseHeldRun, ReleaseHeldDone, ReleaseUsageHeld, Arm, Select,
         DispatchUserInput, DispatchPark, DispatchNow, Ready, RunPause, RunPaused, RunDefer,
         InjectReturns, PassGate, AcquireTurnSlots, TakeSlot, RecheckGates, TurnReturns,
         BatchReturns, Settle
    <2> QED BY <1>0, <2>1, StartsIs
  <1> QED BY <1>1, <1>2, <1>3, <1>4, <1>5

\* Outside the worker a message ends only otherwise than by running.
LEMMA OthersFate ==
    ASSUME TypeOK, Producers \/ Told \/ Crash
    PROVE  fate' = fate \/ \E S, o : o # "ran" /\ fate' = Ended(S, o)
  <1>0. ASSUME NEW x, NEW r, r # "ran", NEW rest, Push(x, r) \/ SteerOrPush(x, r, rest)
        PROVE  fate' = fate \/ \E S, o : o # "ran" /\ fate' = Ended(S, o)
    BY <1>0 DEF Push, SteerOrPush
  <1>1. CASE \E x \in Users : EnqueueUser(x)
    <2>1. PICK x \in Users : EnqueueUser(x)
      BY <1>1
    <2> DEFINE rest == [out EXCEPT !.unsent = @ \ {x}]
    <2>2. fate' = Ended({x}, "consumed") \/ Push(x, "rejected") \/ SteerOrPush(x, "rejected", rest)
      BY <2>1 DEF EnqueueUser
    <2> QED BY <1>0, <2>2
  <1>2. CASE \E x \in Injects : EnqueueInject(x)
    <2>1. PICK x \in Injects : EnqueueInject(x)
      BY <1>2
    <2> DEFINE rest == [out EXCEPT !.unsent = @ \ {x}]
    <2>2. Push(x, "rejected") \/ SteerOrPush(x, "rejected", rest)
      BY <2>1 DEF EnqueueInject, EnqueueInjection
    <2> QED BY <1>0, <2>2
  <1>3. CASE Requeue
    <2> DEFINE rest == [out EXCEPT !.requeue = Tail(@)]
               x == Head(out.requeue)
    <2>1. Push(x, "refused") \/ SteerOrPush(x, "refused", rest)
      BY <1>3 DEF Requeue, EnqueueInjection
    <2> QED BY <1>0, <2>1
  <1>4. CASE Restore
    <2>1. Push(Head(out.restore), "rejected")
      BY <1>4 DEF Restore
    <2> QED BY <1>0, <2>1
  <1>5. CASE \/ \E x \in Messages : AppendSteer(x)
             \/ \E by \in Asks \cup {Login} : DrainDeferredInjects(by)
             \/ \E x \in Injects : ReleaseExpiredAskHolds(x)
    BY <1>5 DEF AppendSteer, DrainDeferredInjects, ReleaseExpiredAskHolds
  <1>6. CASE Told
    BY <1>6, ToldSame
  <1>7. CASE Crash
    BY <1>7 DEF Crash
  <1> QED BY <1>1, <1>2, <1>3, <1>4, <1>5, <1>6, <1>7 DEF Producers

\* None starts there.
LEMMA OthersStart ==
    ASSUME TypeOK, NEW u \in Messages, Producers \/ Told \/ Crash
    PROVE  ~Starts(u)
  BY OthersFate, NoneStarts

\* What starts: the injection in hand; with a turn, its batch and the queued
\* user messages no /stop covered, its follow-ups, the steers it drains.
LEMMA StartedBy ==
    ASSUME TypeOK, Control, NoUsage, NEW u \in Messages, Next, Starts(u)
    PROVE  \/ RunInject /\ w.cur = u
           \/ DriveBatch /\ (u \in ToSet(w.batch) \/ u \in ToSet(QueuedUsers))
           \/ FollowUp /\ (u \in ToSet(steer) \/ (~PendingHeadIsInject /\ u \in ToSet(QueuedUsers)))
           \/ DrainSteerTexts /\ u \in ToSet(steer)
  <1>0. u \in Messages
    OBVIOUS
  <1>1. DriveBatch \/ FollowUp \/ DrainSteerTexts \/ (RunInject /\ w.cur = u)
    BY NextSplit, WorkerStarts, OthersStart
  <1>2. QueuedUsers \in Seq(Messages)
    BY <1>0, QueuedMoves
  <1>3. CASE DriveBatch
    <2>1. ToSet(w.batch \o QueuedUsers) = ToSet(w.batch) \cup ToSet(QueuedUsers)
      BY <1>2, OrderTypes, ToSetConcat
    <2>2. u \in ToSet(w.batch \o QueuedUsers) \/ fate'[u] = fate[u] \/ fate'[u] = Append(fate[u], "stopped")
      BY <1>0, <1>3 DEF DriveBatch
    <2> QED BY <1>0, <1>3, <2>1, <2>2, StartsIs
  <1>4. CASE FollowUp
    <2> DEFINE extras == IF PendingHeadIsInject THEN <<>> ELSE QueuedUsers
    <2>0. extras \in Seq(Messages) /\ steer \in Seq(Messages)
      BY <1>2, TallyTypes
    <2>1. ToSet(steer \o extras) = ToSet(steer) \cup ToSet(extras)
      BY <2>0, ToSetConcat
    <2>2. u \in ToSet(steer \o extras) \/ fate'[u] = fate[u] \/ fate'[u] = Append(fate[u], "stopped")
      BY <1>0, <1>4 DEF FollowUp, NoUsage, UsageHoldsUser
    <2>4. u \in ToSet(steer \o extras)
      <3>1. "stopped" # "ran"
        OBVIOUS
      <3>2. fate'[u] # Append(fate[u], "stopped")
        BY <1>0, <3>1, StartsNot
      <3> QED BY <1>0, <2>2, <3>2, StartsIs
    <2>3. u \in ToSet(extras) => ~PendingHeadIsInject /\ u \in ToSet(QueuedUsers)
      BY DEF ToSet
    <2> HIDE DEF extras
    <2> QED BY <1>4, <2>1, <2>3, <2>4
  <1>5. CASE DrainSteerTexts
    <2>1. u \in ToSet(steer) \/ fate'[u] = fate[u]
      BY <1>0, <1>5 DEF DrainSteerTexts, Ended
    <2> QED BY <1>0, <1>5, <2>1, StartsIs
  <1> QED BY <1>1, <1>3, <1>4, <1>5

\* No message a /stop covered starts.
LEMMA StopCoversStep ==
    ASSUME TypeOK, Control, NoUsage, OrderInv, NEW u \in Users, Next, Starts(u)
    PROVE  ~StoppedQueued(u)
  <1>0. u \in Messages /\ numbers.of[u] \in Nat /\ numbers.stop \in Nat
    BY OrderTypes DEF Messages
  <1>1. CASE u \in ToSet(steer)
    BY <1>0, <1>1 DEF OrderInv, SteerUnnumbered, Loose, StoppedQueued
  <1>2. CASE u \in ToSet(QueuedUsers)
    <2>1. Queued \in Seq(Messages)
      BY <1>0, QueuedMoves
    <2>2. ToSet(QueuedUsers) \subseteq {x \in Messages \ Injects : ~StoppedQueued(x)}
      BY <2>1, KeptSeq DEF QueuedUsers
    <2> QED BY <1>2, <2>2
  <1>3. CASE DriveBatch /\ u \in ToSet(w.batch)
    <2>1. Exposed
      BY <1>3 DEF DriveBatch, Exposed, Control, BatchPlaced, SlotsPlaced, Waiting, Serving, AtGate
    <2>2. numbers.of[u] > numbers.stop
      BY <1>3, <2>1 DEF OrderInv, StopBehind
    <2> QED BY <1>0, <2>2 DEF StoppedQueued
  <1>4. ~(RunInject /\ w.cur = u)
    BY InboxAssumption DEF RunInject, Control, CurPlaced
  <1> QED BY <1>0, <1>1, <1>2, <1>3, <1>4, StartedBy

\* A user message passes an injection only in a turn an earlier one starts.
LEMMA HeadOfLineStep ==
    ASSUME TypeOK, Control, NoUsage, OrderInv, NEW u \in Users, NEW i \in Injects, Next, Starts(u),
           i \in ToSet(pending \o ch), numbers.of[i] < numbers.of[u]
    PROVE  \E v \in Users \cup Lines : Starts(v) /\ numbers.of[v] < numbers.of[i]
  <1>0. u \in Messages /\ i \in Messages /\ numbers.of[u] \in Nat /\ numbers.of[i] \in Nat
    BY OrderTypes DEF Messages
  <1>1. i \in Waits /\ i \in ToSet(Queued) /\ Queued \in Seq(Messages) /\ Rising(numbers.of, Queued)
    BY QueuedRising DEF Queued
  <1>2. u \notin ToSet(steer)
    BY <1>0 DEF OrderInv, SteerUnnumbered, Loose
  <1>3. CASE DriveBatch
    <2> DEFINE v == Head(w.batch)
    <2>1. w.batch # <<>> /\ w.batch \in Seq(Messages)
      BY <1>3, OrderTypes DEF DriveBatch, Control, BatchPlaced
    <2>2. v \in Messages /\ v \in ToSet(w.batch)
      BY <2>1 DEF ToSet
    <2>3. v \notin Injects /\ numbers.of[v] < numbers.of[i]
      BY <1>1, <2>1 DEF OrderInv, Ahead
    <2> HIDE DEF v
    <2>4. v \in ToSet(w.batch \o QueuedUsers)
      BY <1>0, <2>1, <2>2, QueuedMoves, ToSetConcat
    <2>5. fate'[v] = Append(fate[v], "ran")
      BY <1>3, <2>2, <2>4 DEF DriveBatch
    <2>6. Starts(v)
      BY <2>2, <2>5, StartsIs
    <2> QED BY <2>2, <2>3, <2>6 DEF Messages
  <1>4. CASE FollowUp /\ ~PendingHeadIsInject /\ u \in ToSet(QueuedUsers)
    <2> DEFINE v == Head(Queued)
    <2>1. Queued # <<>>
      BY <1>1 DEF ToSet
    <2>2. v \in Messages /\ v \in ToSet(Queued) /\ v \notin Injects
      BY <1>1, <1>4, <2>1 DEF ToSet, PendingHeadIsInject, IsInject
    <2>3. numbers.of[v] < numbers.of[i]
      <3>1. PICK k \in 1..Len(Queued) : Queued[k] = i
        BY <1>1 DEF ToSet
      <3>2. Head(Queued) = Queued[1] /\ 1 \in 1..Len(Queued) /\ Len(Queued) \in Nat
        BY <1>1, <2>1, <3>1
      <3>3. k # 1
        BY <2>2, <3>1, <3>2
      <3>4. 1 < k
        BY <3>1, <3>2, <3>3
      <3> QED BY <1>1, <3>1, <3>2, <3>4 DEF Rising
    <2> HIDE DEF v
    <2>4. v \in ToSet(QueuedUsers)
      <3>1. numbers.of[v] > numbers.stop
        BY <1>4, <2>2, QueuedRising DEF FollowUp, Exposed, OrderInv, StopBehind
      <3>2. ~StoppedQueued(v)
        BY <2>2, <3>1, OrderTypes DEF StoppedQueued
      <3>3. ToSet(QueuedUsers) = ToSet(Queued) \cap {x \in Messages \ Injects : ~StoppedQueued(x)}
        BY <1>1, KeptSeq DEF QueuedUsers
      <3> QED BY <2>2, <3>2, <3>3
    <2>5. v \in ToSet(steer \o QueuedUsers)
      BY <1>0, <2>4, TallyTypes, QueuedMoves, ToSetConcat
    <2>6. fate'[v] = Append(fate[v], "ran")
      BY <1>4, <2>2, <2>5 DEF FollowUp, NoUsage, UsageHoldsUser
    <2>7. Starts(v)
      BY <2>2, <2>6, StartsIs
    <2> QED BY <2>2, <2>3, <2>7 DEF Messages
  <1>5. ~(RunInject /\ w.cur = u)
    BY InboxAssumption DEF RunInject, Control, CurPlaced
  <1> QED BY <1>0, <1>2, <1>3, <1>4, <1>5, StartedBy

\* The worker's queue and the channel stay in the order of their numbers, and
\* what runs came after the last /stop, while no usage hold starts.
THEOREM InboxOrder ==
    ASSUME "usage" \notin Events
    PROVE  Spec => [](IInv /\ WatchInv /\ OrderInv)
  <1>1. Init => OrderInv
    BY InitOrder
  <1>2. Spec => []WatchInv
    BY InboxWatched
  <1>3. IInv /\ WatchInv /\ OrderInv /\ [Next]_vars => OrderInv'
    <2> SUFFICES ASSUME IInv, WatchInv, OrderInv, [Next]_vars PROVE OrderInv'
      OBVIOUS
    <2>1. CASE Next
      BY <2>1, NextOrder DEF WatchInv
    <2>2. CASE UNCHANGED vars
      BY <2>2, StillOrder DEF vars, Loose
    <2> QED BY <2>1, <2>2
  <1> QED BY <1>1, <1>2, <1>3, InboxInvariant, PTL DEF Spec

\* CancelSession (#2337): a /stop that dropped a waiting batch covers every
\* message accepted before it, whether it was queued on the channel, in the
\* worker's queue or joined to the batch by then; none of them starts after it.
THEOREM InboxStopCovers ==
    ASSUME "usage" \notin Events
    PROVE  Spec => StopCovers
  <1>1. IInv /\ WatchInv /\ OrderInv /\ [Next]_vars
          => [\A u \in Users : Starts(u) => ~StoppedQueued(u)]_vars
    <2> SUFFICES ASSUME IInv, WatchInv, OrderInv, Next, NEW u \in Users, Starts(u)
                 PROVE  ~StoppedQueued(u)
      OBVIOUS
    <2> QED BY StopCoversStep DEF IInv, WatchInv
  <1> QED BY <1>1, InboxOrder, PTL DEF Spec, StopCovers

\* The run order of #2362: a user message passes an injection queued before it
\* only in a turn (runUserBatch, driveAndDrainOrphans) that a message queued
\* before that injection starts.
THEOREM InboxHeadOfLine ==
    ASSUME "usage" \notin Events
    PROVE  Spec => HeadOfLine
  <1>1. IInv /\ WatchInv /\ OrderInv /\ [Next]_vars
          => [\A u \in Users, i \in Injects :
                 /\ Starts(u)
                 /\ i \in ToSet(pending \o ch)
                 /\ numbers.of[i] < numbers.of[u]
                 => \E v \in Users \cup Lines : Starts(v) /\ numbers.of[v] < numbers.of[i]]_vars
    <2> SUFFICES ASSUME IInv, WatchInv, OrderInv, Next, NEW u \in Users, NEW i \in Injects, Starts(u),
                        i \in ToSet(pending \o ch), numbers.of[i] < numbers.of[u]
                 PROVE  \E v \in Users \cup Lines : Starts(v) /\ numbers.of[v] < numbers.of[i]
      OBVIOUS
    <2> QED BY HeadOfLineStep DEF IInv, WatchInv
  <1> QED BY <1>1, InboxOrder, PTL DEF Spec, HeadOfLine

-----------------------------------------------------------------------------
(* The line of the injections: without a turn limit and without usage      *)
(* holds, those of one class run in the order they were queued.            *)

\* The held list is in the order of the numbers, before all that waits.
HeldSorted ==
    /\ Rising(numbers.of, held)
    /\ \A x \in ToSet(held), y \in Waits : numbers.of[x] < numbers.of[y]

\* The envelope in hand was queued before all that waits, and after what is
\* held unless it comes from the held list itself.
CurSorted ==
    w.cur # Nothing =>
       /\ \A y \in Waits : numbers.of[w.cur] < numbers.of[y]
       /\ w.walk = 0 => \A x \in ToSet(held) : numbers.of[x] < numbers.of[w.cur]

\* i and j queue with each other.
SameClass(i, j) == (i \in Keepalives) <=> (j \in Keepalives)

\* An injection about to run has no earlier one of its class on the held list.
Cleared ==
    w.pc \in {"ready", "run"} /\ w.cur \notin Answers =>
       \A x \in ToSet(held) : SameClass(x, w.cur) => ~(numbers.of[x] < numbers.of[w.cur])

\* What waits at a gate in hand is user input.
Gated == AtGate => w.cur \in Answers \cup {Nothing}

Sorted == HeldSorted /\ CurSorted /\ Cleared /\ Gated

\* What a line of injections never passes through: the store, a batch, and,
\* but for answers, a steer; what is not enqueued has no number.
Untouched ==
    /\ stored = <<>> /\ out.restore = <<>> /\ out.restored = {}
    /\ ToSet(w.batch) \cap Injects = {}
    /\ (ToSet(steer) \cup out.steering) \cap Injects \subseteq Answers
    /\ \A i \in Injects \cap out.unsent : numbers.of[i] = 0

\* A step that takes nothing into hand and leaves the held list alone.
Calm ==
    /\ numbers'.of = numbers.of /\ held' = held /\ Waits' \subseteq Waits
    /\ \/ w'.cur = Nothing
       \/ /\ w'.cur = w.cur
          /\ w'.walk = 0 => w.walk = 0
          /\ w'.pc \in {"ready", "run"} /\ w.cur \notin Answers => w.pc \in {"ready", "run"}
          /\ AtGate' => AtGate \/ w.cur \in Answers

LEMMA CalmSorted ==
    ASSUME Sorted, Calm, Control'
    PROVE  Sorted'
  <1>1. w'.pc \in {"ready", "run"} => w'.cur # Nothing
    BY InboxAssumption DEF Control, CurPlaced, Messages
  <1>2. HeldSorted'
    BY DEF Sorted, HeldSorted, Calm
  <1>3. CurSorted'
    BY DEF Sorted, CurSorted, Calm
  <1>4. Cleared'
    BY <1>1 DEF Sorted, Cleared, Calm
  <1>5. Gated'
    BY DEF Sorted, Gated, Calm
  <1> QED BY <1>2, <1>3, <1>4, <1>5 DEF Sorted

\* The steps of the worker that are calm.
LEMMA WorkerCalm ==
    ASSUME TypeOK, Control, NoUsage, OrderInv, Gated,
           \/ WorkerStep \/ PrimaryWritten \/ DrainSteerTexts \/ Grant \/ CancelSession,
           ~Arm, ~Select, ~ReleaseHeldRun, ~DispatchPark, ~DispatchNow, ~Ready, ~WaitTurnSlot, ~Exit
    PROVE  Calm
  <1>0. w \in Worker /\ numbers.of \in [Messages -> Nat]
    BY OrderTypes
  <1>1. CASE LoopTop \/ ReleaseHeldKeep \/ ReleaseHeldDone
    <2>1. w.cur = Nothing
      BY <1>1 DEF LoopTop, ReleaseHeldKeep, ReleaseHeldDone, Control, CurPlaced, AtGate
    <2>2. w'.cur = w.cur
      BY <1>0, <1>1 DEF LoopTop, ReleaseHeldKeep, ReleaseHeldDone, Worker
    <2> QED BY <1>1, <2>1, <2>2 DEF LoopTop, ReleaseHeldKeep, ReleaseHeldDone, Calm, Waits
  <1>2. CASE TakeUsageResume \/ ReleaseUsageHeld \/ AcquireTurnSlots \/ RecheckGates \/ TurnReturns
             \/ BatchReturns \/ Settle \/ PrimaryWritten
    <2>0. w.cur = Nothing
      BY <1>2 DEF TakeUsageResume, ReleaseUsageHeld, AcquireTurnSlots, RecheckGates,
         TurnReturns, BatchReturns, Settle, PrimaryWritten, Control, CurPlaced, AtGate
    <2>1. w'.cur = Nothing
      BY <1>0, <1>2, <2>0 DEF TakeUsageResume, ReleaseUsageHeld, NoUsage, AcquireTurnSlots, RecheckGates,
         TurnReturns, BatchReturns, Settle, PrimaryWritten, Worker
    <2> QED BY <1>2, <2>1 DEF TakeUsageResume, ReleaseUsageHeld, NoUsage, AcquireTurnSlots, RecheckGates,
         TurnReturns, BatchReturns, Settle, PrimaryWritten, Calm, Waits
  <1>3. CASE Dequeued \/ HandleDequeued
    <2>1. UNCHANGED <<ch, pending, held, numbers>>
      BY <1>3 DEF Dequeued, HandleDequeued
    <2>2. CASE w' = Done
      BY <1>0, <2>1, <2>2, DoneIs DEF Calm, Waits
    <2>3. CASE w' = [w EXCEPT !.pc = "relogin"] \/ w' = [w EXCEPT !.pc = "dispatch"]
      <3>1. w'.cur = w.cur /\ w'.walk = w.walk /\ w'.pc \in {"relogin", "dispatch"}
        BY <1>0, <2>3 DEF Worker
      <3> QED BY <2>1, <3>1 DEF Calm, Waits, AtGate
    <2>4. CASE w' # Done /\ w' # [w EXCEPT !.pc = "relogin"] /\ w' # [w EXCEPT !.pc = "dispatch"]
      <3>1. w'.cur = Nothing
        BY <1>0, <1>3, <2>4 DEF Dequeued, HandleDequeued, StartBatch, Worker
      <3> QED BY <2>1, <3>1 DEF Calm, Waits
    <2> QED BY <2>2, <2>3, <2>4
  <1>4. CASE GateEnded
    BY <1>0, <1>4, LeavingIs DEF GateEnded, Calm, Waits
  <1>5. CASE DispatchUserInput \/ RunPause
    <2>1. \/ w'.cur = w.cur /\ w'.walk = w.walk /\ w'.pc = "gate1" /\ w.cur \in Answers
          \/ w'.cur = Nothing
      BY <1>0, <1>5 DEF DispatchUserInput, RunPause, Worker
    <2> QED BY <1>5, <2>1 DEF DispatchUserInput, RunPause, Calm, Waits
  <1>6. CASE RunInject
    <2>0. UNCHANGED <<ch, pending, held, numbers>>
      BY <1>6 DEF RunInject
    <2>1. CASE w' = Done
      BY <1>0, <2>0, <2>1, DoneIs DEF Calm, Waits
    <2>2. CASE w' # Done
      <3>1. \/ w'.cur = w.cur /\ w'.walk = w.walk /\ w'.pc \in {"pausing", "deferring"}
            \/ w'.cur = Nothing
        BY <1>0, <1>6, <2>2 DEF RunInject, Worker
      <3> QED BY <2>0, <3>1 DEF Calm, Waits, AtGate
    <2> QED BY <2>1, <2>2
  <1>7. CASE RunPaused \/ RunDefer \/ InjectReturns
    BY <1>0, <1>7, DoneIs DEF RunPaused, RunDefer, InjectReturns, Calm, Waits
  <1>8. CASE PassGate
    <2>0. UNCHANGED <<ch, pending, held, numbers>> /\ AtGate
      BY <1>8 DEF PassGate, Gates, AtGate
    <2>1. w'.cur = w.cur /\ w'.walk = w.walk
      BY <1>0, <1>8 DEF PassGate, Worker
    <2>2. w'.cur = Nothing \/ w.cur \in Answers
      BY <2>0, <2>1 DEF Gated
    <2> QED BY <2>0, <2>1, <2>2 DEF Calm, Waits
  <1>9. CASE TakeSlot
    <2>1. w.slots < Limiters /\ w.cur = Nothing
      BY <1>9 DEF TakeSlot, Control, SlotsPlaced, Waiting, CurPlaced, AtGate
    <2>2. w'.cur = w.cur
      BY <1>0, <1>9, <2>1, SlotTakenIs DEF TakeSlot, Worker
    <2> QED BY <1>9, <2>1, <2>2 DEF TakeSlot, Calm, Waits
  <1>10. CASE ClaimWaitCancel
    <2>1. w.cur = Nothing /\ UNCHANGED <<ch, pending, held, numbers>>
      BY <1>10 DEF ClaimWaitCancel, Control, CurPlaced, AtGate
    <2>2. w'.cur = Nothing
      BY <1>0, <1>10, <2>1, LeavingIs DEF ClaimWaitCancel, Abort, Worker
    <2> QED BY <2>1, <2>2 DEF Calm, Waits
  <1>11. CASE DriveBatch \/ FollowUp
    <2>1. w.cur = Nothing /\ numbers' = numbers /\ held' = held
      BY <1>11 DEF DriveBatch, FollowUp, Control, CurPlaced, AtGate
    <2>2. w'.cur = w.cur
      BY <1>0, <1>11 DEF DriveBatch, FollowUp, Worker
    <2>3. ch' = <<>> /\ (pending' = Queued \/ pending' = Kept(Queued, Injects)) /\ ToSet(<<>>) = {}
      BY <1>11 DEF DriveBatch, FollowUp, NoUsage, UsageHoldsUser, ToSet
    <2>4. Waits' \subseteq Waits
      BY <2>3, QueuedRising DEF Waits
    <2> QED BY <2>1, <2>2, <2>4 DEF Calm
  <1>12. CASE DrainSteerTexts
    BY <1>12 DEF DrainSteerTexts, Calm, Waits, AtGate
  <1>13. CASE Grant \/ CancelSession
    <2>1. w'.cur = w.cur /\ w'.walk = w.walk /\ w'.pc = w.pc
      BY <1>0, <1>13 DEF Grant, CancelSession, Worker
    <2>3. AtGate' = AtGate
      BY <2>1 DEF AtGate
    <2>2. numbers'.of = numbers.of
      BY <1>13 DEF Grant, CancelSession, TypeOK
    <2> QED BY <1>13, <2>1, <2>2, <2>3 DEF Grant, CancelSession, Calm, Waits
  <1> QED BY <1>1, <1>2, <1>3, <1>4, <1>5, <1>6, <1>7, <1>8, <1>9, <1>10, <1>11, <1>12, <1>13
             DEF WorkerStep

LEMMA HeldTypes ==
    ASSUME TypeOK
    PROVE  held \in Seq(Injects) /\ held \in Seq(Messages) /\ ToSet(held) \subseteq Injects
  <1>1. held \in Seq(Injects) /\ held \in Seq(Messages)
    BY TallyTypes DEF TypeOK
  <1> QED BY <1>1 DEF ToSet

\* A step that takes the head of the queue into hand.
LEMMA TakenSorted ==
    ASSUME Sorted, numbers' = numbers, held' = held, NEW x \in Waits, Waits' \subseteq Waits,
           \A y \in Waits' : numbers.of[x] < numbers.of[y], w'.cur = x, w'.pc = "dequeued"
    PROVE  Sorted'
  BY DEF Sorted, HeldSorted, CurSorted, Cleared, Gated, AtGate

LEMMA ArmSorted ==
    ASSUME TypeOK, Control, Control', OrderInv, Sorted, Arm
    PROVE  Sorted'
  <1>0. UNCHANGED <<ch, held, numbers>> /\ w.cur = Nothing /\ w \in Worker
    BY OrderTypes DEF Arm, Control, CurPlaced, AtGate
  <1>1. CASE pending' = pending /\ (w' = Leaving \/ w' = [w EXCEPT !.pc = "select"])
    <2>1. w'.cur = Nothing
      BY <1>0, <1>1, LeavingIs DEF Worker
    <2> QED BY <1>0, <1>1, <2>1, CalmSorted DEF Calm, Waits
  <1>2. CASE /\ pending # <<>> /\ w' = [w EXCEPT !.pc = "dequeued", !.cur = Head(pending)]
             /\ pending' = Tail(pending)
    <2>1. w'.pc = "dequeued" /\ w'.cur = Head(pending)
      BY <1>0, <1>2 DEF Worker
    <2>2. /\ Head(pending) \in ToSet(pending)
          /\ ToSet(Tail(pending)) \subseteq ToSet(pending)
          /\ \A x \in ToSet(Tail(pending)) : numbers.of[Head(pending)] < numbers.of[x]
      BY <1>2, OrderTypes, RisingTail DEF OrderInv, QueueSorted
    <2>3. Waits' \subseteq Waits /\ Head(pending) \in Waits
      BY <1>0, <1>2, <2>2 DEF Waits
    <2>4. \A x \in Waits' : numbers.of[Head(pending)] < numbers.of[x]
      BY <1>0, <1>2, <2>2 DEF OrderInv, QueueSorted, Waits
    <2> QED BY <1>0, <2>1, <2>3, <2>4, TakenSorted
  <1> QED BY <1>1, <1>2 DEF Arm

LEMMA SelectSorted ==
    ASSUME TypeOK, Control, Control', OrderInv, Sorted, Select
    PROVE  Sorted'
  <1>0. UNCHANGED <<pending, held, numbers>> /\ w.cur = Nothing /\ w \in Worker /\ pending = <<>>
    BY OrderTypes DEF Select, Control, CurPlaced, AtGate, OrderInv, QueueSorted
  <1>1. CASE ch' = ch /\ (w' = Leaving \/ w' = [w EXCEPT !.pc = "top"])
    <2>1. w'.cur = Nothing
      BY <1>0, <1>1, LeavingIs DEF Worker
    <2> QED BY <1>0, <1>1, <2>1, CalmSorted DEF Calm, Waits
  <1>2. CASE /\ ch # <<>> /\ w' = [w EXCEPT !.pc = "dequeued", !.cur = Head(ch)]
             /\ ch' = Tail(ch)
    <2>1. w'.pc = "dequeued" /\ w'.cur = Head(ch) /\ ToSet(pending) = {}
      BY <1>0, <1>2 DEF Worker, ToSet
    <2>2. /\ Head(ch) \in ToSet(ch)
          /\ ToSet(Tail(ch)) \subseteq ToSet(ch)
          /\ \A x \in ToSet(Tail(ch)) : numbers.of[Head(ch)] < numbers.of[x]
      BY <1>2, OrderTypes, RisingTail DEF OrderInv, QueueSorted
    <2>3. Waits' \subseteq Waits /\ Head(ch) \in Waits
      BY <1>0, <1>2, <2>2 DEF Waits
    <2>4. \A x \in Waits' : numbers.of[Head(ch)] < numbers.of[x]
      BY <1>0, <1>2, <2>1, <2>2 DEF Waits
    <2> QED BY <1>0, <2>1, <2>3, <2>4, TakenSorted
  <1> QED BY <1>1, <1>2 DEF Select

\* What the walk releases has no earlier sibling on the list.
LEMMA ReleaseHeldRunSorted ==
    ASSUME TypeOK, Control, NoUsage, Sorted, ReleaseHeldRun
    PROVE  Sorted'
  <1>0. UNCHANGED <<ch, pending, held, numbers>> /\ w \in Worker /\ w.walk \in 1..Len(held)
        /\ held \in Seq(Injects) /\ numbers.of \in [Messages -> Nat]
    BY OrderTypes, HeldTypes DEF ReleaseHeldRun, Control, WalkPlaced, Worker
  <1>1. w'.pc = "ready" /\ w'.cur = held[w.walk] /\ w'.walk = w.walk
    BY <1>0 DEF ReleaseHeldRun, Worker
  <1>2. held[w.walk] \in ToSet(held)
    BY <1>0 DEF ToSet
  <1>3. Waits' = Waits
    BY <1>0 DEF Waits
  <1>4. HeldSorted'
    BY <1>0, <1>3 DEF Sorted, HeldSorted
  <1>5. CurSorted'
    BY <1>0, <1>1, <1>2, <1>3 DEF Sorted, HeldSorted, CurSorted
  <1>6. ASSUME NEW x \in ToSet(held), SameClass(x, held[w.walk]), numbers.of[x] < numbers.of[held[w.walk]]
        PROVE  FALSE
    <2>1. PICK k \in 1..Len(held) : x = held[k]
      BY <1>0 DEF ToSet
    <2>2. numbers.of[x] \in Nat /\ numbers.of[held[w.walk]] \in Nat
      BY <1>0, <1>2, <2>1, HeldTypes DEF Messages
    <2>3. k < w.walk
      <3>1. w.walk < k => numbers.of[held[w.walk]] < numbers.of[x]
        BY <1>0, <2>1 DEF Sorted, HeldSorted, Rising
      <3>2. k # w.walk
        BY <1>6, <2>1, <2>2
      <3> QED BY <1>0, <1>6, <2>2, <3>1, <3>2
    <2>4. x \in ToSet(SubSeq(held, 1, w.walk - 1))
      <3> DEFINE t == SubSeq(held, 1, w.walk - 1)
      <3>1. Len(t) = w.walk - 1 /\ t[k] = held[k] /\ k \in 1..Len(t) /\ DOMAIN t = 1..Len(t)
        BY <1>0, <2>1, <2>3
      <3> HIDE DEF t
      <3>2. t[k] \in ToSet(t)
        BY <3>1 DEF ToSet
      <3> QED BY <2>1, <3>1, <3>2 DEF t
    <2>5. HeldSiblingPins(SubSeq(held, 1, w.walk - 1), held[w.walk])
      BY <1>6, <2>4 DEF HeldSiblingPins, SameClass
    <2> QED BY <2>5 DEF ReleaseHeldRun, MustPark, UsageHoldPassesPast, NoUsage
  <1>7. Cleared'
    BY <1>0, <1>1, <1>6 DEF Cleared, SameClass
  <1>8. Gated'
    BY <1>1 DEF Gated, AtGate
  <1> QED BY <1>4, <1>5, <1>7, <1>8 DEF Sorted

\* What parks was queued after all that is held.
LEMMA DispatchParkSorted ==
    ASSUME TypeOK, Control, Control', Sorted, DispatchPark
    PROVE  Sorted'
  <1>0. UNCHANGED <<ch, pending, numbers>> /\ w \in Worker /\ w.cur \in Injects /\ w.walk = 0
        /\ held \in Seq(Messages) /\ numbers.of \in [Messages -> Nat] /\ w.cur \in Messages
        /\ held' = Append(held, w.cur) /\ w' = Done
    BY OrderTypes, HeldTypes DEF DispatchPark, Control, CurPlaced, WalkPlaced, Worker, Messages
  <1>1. w'.cur = Nothing /\ w.cur # Nothing
    BY <1>0, DoneIs, InboxAssumption
  <1>2. Waits' = Waits
    BY <1>0 DEF Waits
  <1>3. Rising(numbers.of, Append(held, w.cur))
    BY <1>0, <1>1, RisingAppend DEF Sorted, HeldSorted, CurSorted
  <1>4. /\ ToSet(Append(held, w.cur)) = ToSet(held) \cup {w.cur}
        /\ ToSet(<<w.cur>> \o held) = ToSet(held) \cup {w.cur}
    BY <1>0, ToSetAppend
  <1>5. HeldSorted'
    BY <1>0, <1>1, <1>2, <1>3, <1>4 DEF Sorted, HeldSorted, CurSorted
  <1>6. w'.pc \in {"ready", "run"} => w'.cur # Nothing
    BY InboxAssumption DEF Control, CurPlaced, Messages
  <1> QED BY <1>1, <1>5, <1>6 DEF Sorted, CurSorted, Cleared, Gated

LEMMA DispatchNowSorted ==
    ASSUME TypeOK, Control, NoUsage, Sorted, DispatchNow
    PROVE  Sorted'
  <1>0. UNCHANGED <<ch, pending, held, numbers>> /\ w \in Worker
    BY OrderTypes DEF DispatchNow
  <1>1. w'.pc = "ready" /\ w'.cur = w.cur /\ w'.walk = w.walk
    BY <1>0 DEF DispatchNow, Worker
  <1>2. ~HeldSiblingPins(held, w.cur)
    BY DEF DispatchNow, MustPark, UsageHoldPassesPast, NoUsage
  <1>3. HeldSorted' /\ CurSorted'
    BY <1>0, <1>1 DEF Sorted, HeldSorted, CurSorted, Waits
  <1>4. Cleared' /\ Gated'
    BY <1>0, <1>1, <1>2 DEF Cleared, HeldSiblingPins, SameClass, Gated, AtGate
  <1> QED BY <1>3, <1>4 DEF Sorted

\* A list that loses an element stays in order.
LEMMA RisingRemoveAt ==
    ASSUME NEW S, NEW f, NEW s \in Seq(S), NEW k \in 1..Len(s), Rising(f, s)
    PROVE  Rising(f, RemoveAt(s, k))
  <1> DEFINE t == RemoveAt(s, k)
  <1>1. /\ Len(t) = Len(s) - 1
        /\ \A n \in 1..Len(t) : t[n] = IF n < k THEN s[n] ELSE s[n + 1]
    <2> DEFINE a == SubSeq(s, 1, k - 1)
               b == SubSeq(s, k + 1, Len(s))
    <2>1. /\ a \in Seq(S) /\ Len(a) = k - 1 /\ \A i \in 1..(k - 1) : a[i] = s[i]
          /\ b \in Seq(S) /\ Len(b) = Len(s) - k /\ \A i \in 1..(Len(s) - k) : b[i] = s[k + i]
          /\ t = a \o b /\ Len(s) \in Nat
      BY DEF RemoveAt
    <2> HIDE DEF a, b, t
    <2>2. Len(t) = Len(a) + Len(b) /\ \A n \in 1..(Len(a) + Len(b)) :
             t[n] = IF n <= Len(a) THEN a[n] ELSE b[n - Len(a)]
      BY <2>1, ConcatProperties
    <2>3. Len(t) = Len(s) - 1
      BY <2>1, <2>2
    <2>4. ASSUME NEW n \in 1..Len(t) PROVE t[n] = IF n < k THEN s[n] ELSE s[n + 1]
      <3>1. CASE n < k
        BY <2>1, <2>2, <3>1
      <3>2. CASE ~(n < k)
        <4>1. n - (k - 1) \in 1..(Len(s) - k) /\ k + (n - (k - 1)) = n + 1
          BY <2>3, <3>2
        <4> QED BY <2>1, <2>2, <3>2, <4>1
      <3> QED BY <3>1, <3>2
    <2> QED BY <2>3, <2>4
  <1> HIDE DEF t
  <1>2. SUFFICES ASSUME NEW a \in 1..Len(t), NEW b \in 1..Len(t), a < b
                 PROVE  f[t[a]] < f[t[b]]
    BY DEF Rising, t
  <1>3. PICK c \in 1..Len(s) : t[a] = s[c] /\ c = IF a < k THEN a ELSE a + 1
    BY <1>1
  <1>4. PICK d \in 1..Len(s) : t[b] = s[d] /\ d = IF b < k THEN b ELSE b + 1
    BY <1>1
  <1>5. c < d
    BY <1>2, <1>3, <1>4
  <1> QED BY <1>3, <1>4, <1>5 DEF Rising

LEMMA ReadySorted ==
    ASSUME TypeOK, Control, Sorted, Ready
    PROVE  Sorted'
  <1>0. UNCHANGED <<ch, pending, numbers>> /\ w \in Worker /\ held \in Seq(Messages) /\ w.pc = "ready"
    BY OrderTypes, HeldTypes DEF Ready
  <1>1. w'.pc = "run" /\ w'.cur = w.cur /\ w'.walk = w.walk
    BY <1>0 DEF Ready, Worker
  <1>2. Rising(numbers.of, held') /\ ToSet(held') \subseteq ToSet(held)
    <2>1. CASE w.walk > 0
      <3>1. w.walk \in 1..Len(held)
        BY <1>0, <2>1 DEF Control, WalkPlaced, Worker
      <3>2. held' = RemoveAt(held, w.walk)
        BY <2>1 DEF Ready
      <3>3. Rising(numbers.of, RemoveAt(held, w.walk))
        BY <1>0, <3>1, RisingRemoveAt DEF Sorted, HeldSorted
      <3>4. ToSet(RemoveAt(held, w.walk)) \subseteq ToSet(held)
        BY <1>0, <3>1, OccursRemoveAt
      <3> QED BY <3>2, <3>3, <3>4
    <2>2. CASE ~(w.walk > 0)
      BY <2>2 DEF Ready, Sorted, HeldSorted
    <2> QED BY <2>1, <2>2
  <1>3. HeldSorted' /\ CurSorted'
    BY <1>0, <1>1, <1>2 DEF Sorted, HeldSorted, CurSorted, Waits
  <1>4. Cleared' /\ Gated'
    BY <1>0, <1>1, <1>2 DEF Sorted, Cleared, Gated, AtGate, SameClass
  <1> QED BY <1>3, <1>4 DEF Sorted

LEMMA ExitSorted ==
    ASSUME TypeOK, Control, Exit
    PROVE  Sorted'
  <1>1. held' = <<>> /\ w \in Worker /\ w.cur = Nothing /\ ToSet(<<>>) = {}
    BY OrderTypes DEF Exit, Control, CurPlaced, AtGate, ToSet
  <1>2. w'.cur = Nothing /\ w'.pc = "exited"
    BY <1>1 DEF Exit, Worker
  <1>3. HeldSorted'
    BY <1>1 DEF HeldSorted, Rising
  <1> QED BY <1>2, <1>3 DEF Sorted, CurSorted, Cleared, Gated, AtGate

\* Without a limiter nobody waits for a slot.
LEMMA NoSlotWait ==
    ASSUME TypeOK, Control, Limiters = 0
    PROVE  w.pc # "slot"
  <1>1. w.slots \in 0..2
    BY DEF TypeOK, Worker
  <1>2. w.pc = "slot" => w.slots < Limiters
    BY DEF Control, SlotsPlaced, Waiting
  <1> QED BY <1>1, <1>2

\* Every step of the worker keeps the line in order.
LEMMA WorkerSorted ==
    ASSUME TypeOK, Control, Control', NoUsage, OrderInv, Sorted, Limiters = 0,
           WorkerStep \/ PrimaryWritten \/ DrainSteerTexts \/ Grant \/ CancelSession
    PROVE  Sorted'
  <1>1. CASE Arm \/ Select \/ ReleaseHeldRun \/ DispatchPark \/ DispatchNow \/ Ready \/ Exit
    BY <1>1, ArmSorted, SelectSorted, ReleaseHeldRunSorted, DispatchParkSorted, DispatchNowSorted,
       ReadySorted, ExitSorted
  <1>2. CASE WaitTurnSlot
    BY <1>2, NoSlotWait DEF WaitTurnSlot
  <1>3. CASE ~(\/ Arm \/ Select \/ ReleaseHeldRun \/ DispatchPark \/ DispatchNow \/ Ready \/ Exit
               \/ WaitTurnSlot)
    <2>1. Gated
      BY DEF Sorted
    <2>2. Calm
      BY <1>3, <2>1, WorkerCalm
    <2> QED BY <2>2, CalmSorted
  <1> QED BY <1>1, <1>2, <1>3

\* What the goroutines outside the worker do to the channel: nothing, or a
\* push of a message one of them carries.
LEMMA ProducersPush ==
    ASSUME TypeOK, Producers
    PROVE  /\ pending' = pending
           /\ \/ UNCHANGED <<ch, numbers>>
              \/ \E x \in Messages, r \in {"rejected", "refused"} :
                    /\ Push(x, r)
                    /\ \/ x \in out.unsent /\ out'.unsent = out.unsent \ {x}
                       \/ x \in ToSet(out.requeue) \/ x \in ToSet(out.restore)
  <1>0. out \in Outside
    BY DEF TypeOK
  <1>1. ASSUME NEW x \in Users \cup Injects, EnqueueUser(x) \/ EnqueueInject(x)
        PROVE  /\ pending' = pending
               /\ \/ UNCHANGED <<ch, numbers>>
                  \/ Push(x, "rejected") /\ x \in out.unsent /\ out'.unsent = out.unsent \ {x}
    <2> DEFINE rest == [out EXCEPT !.unsent = @ \ {x}]
    <2>1. rest.unsent = out.unsent \ {x}
      BY <1>0 DEF Outside
    <2> HIDE DEF rest
    <2>2. /\ pending' = pending /\ x \in out.unsent
          /\ \/ UNCHANGED <<ch, numbers>>
             \/ Push(x, "rejected") /\ out' = rest
             \/ SteerOrPush(x, "rejected", rest)
      BY <1>1 DEF EnqueueUser, EnqueueInject, EnqueueInjection, rest
    <2> QED BY <2>1, <2>2 DEF SteerOrPush
  <1>2. ASSUME Requeue
        PROVE  /\ pending' = pending
               /\ \/ UNCHANGED <<ch, numbers>>
                  \/ \E x \in Messages : Push(x, "refused") /\ x \in ToSet(out.requeue)
    <2> DEFINE rest == [out EXCEPT !.requeue = Tail(@)]
               x == Head(out.requeue)
    <2>1. out.requeue \in Seq(Injects) /\ out.requeue # <<>>
      BY <1>0, <1>2 DEF Outside, Requeue
    <2>2. x \in Messages /\ x \in ToSet(out.requeue)
      BY <2>1 DEF ToSet, Messages
    <2> HIDE DEF rest, x
    <2>3. /\ pending' = pending
          /\ Push(x, "refused") \/ SteerOrPush(x, "refused", rest)
      BY <1>2 DEF Requeue, EnqueueInjection, rest, x
    <2> QED BY <2>2, <2>3 DEF SteerOrPush
  <1>3. ASSUME Restore
        PROVE  /\ pending' = pending
               /\ \E x \in Messages : Push(x, "rejected") /\ x \in ToSet(out.restore)
    <2> DEFINE x == Head(out.restore)
    <2>1. out.restore \in Seq(Messages) /\ out.restore # <<>>
      BY <1>0, <1>3 DEF Outside, Restore
    <2>2. x \in Messages /\ x \in ToSet(out.restore)
      BY <2>1 DEF ToSet
    <2>3. pending' = pending /\ Push(x, "rejected")
      BY <1>3 DEF Restore
    <2> HIDE DEF x
    <2> QED BY <2>2, <2>3
  <1>4. ASSUME \/ \E x \in Messages : AppendSteer(x)
               \/ \E by \in Asks \cup {Login} : DrainDeferredInjects(by)
               \/ \E x \in Injects : ReleaseExpiredAskHolds(x)
        PROVE  UNCHANGED <<ch, numbers, pending>>
    BY <1>4 DEF AppendSteer, DrainDeferredInjects, ReleaseExpiredAskHolds
  <1> QED BY <1>1, <1>2, <1>3, <1>4 DEF Producers, Messages

\* What a push does to the numbers and to what waits.
LEMMA PushIs ==
    ASSUME TypeOK, NEW x \in Messages, NEW r, Push(x, r), pending' = pending
    PROVE  /\ numbers'.of[x] = numbers.last + 1 /\ numbers'.last = numbers.last + 1
           /\ \A m \in Messages : m # x => numbers'.of[m] = numbers.of[m]
           /\ Waits' \subseteq Waits \cup {x}
           /\ fate' = fate \/ fate' = Ended({x}, r)
  <1>0. numbers.of \in [Messages -> Nat] /\ ch \in Seq(Messages)
    BY OrderTypes
  <1>1. numbers' = [numbers EXCEPT !.of[x] = numbers.last + 1, !.last = @ + 1]
    BY DEF Push
  <1>2. numbers'.of = [numbers.of EXCEPT ![x] = numbers.last + 1] /\ numbers'.last = numbers.last + 1
    BY <1>1 DEF TypeOK
  <1>3. /\ ToSet(Append(ch, x)) = ToSet(ch) \cup {x}
        /\ ToSet(<<x>> \o ch) = ToSet(ch) \cup {x}
    BY <1>0, ToSetAppend
  <1>4. ch' = ch \/ ch' = Append(ch, x)
    BY DEF Push
  <1>5. fate' = fate \/ fate' = Ended({x}, r)
    BY DEF Push
  <1> QED BY <1>0, <1>2, <1>3, <1>4, <1>5 DEF Waits

\* A push keeps the line in order: the message is above all others, and was
\* neither held nor in hand.
LEMMA PushSorted ==
    ASSUME TypeOK, Control, OrderInv, Sorted, NEW x \in Messages, NEW r, Push(x, r),
           UNCHANGED <<pending, held, w>>, x \notin Waits, x \notin ToSet(held), w.cur # x
    PROVE  Sorted'
  <1> DEFINE f == numbers.of
             g == numbers'.of
             top == numbers.last + 1
  <1>0. /\ f \in [Messages -> Nat] /\ numbers.last \in Nat /\ w \in Worker
        /\ held \in Seq(Messages) /\ ToSet(held) \subseteq Messages /\ Waits \subseteq Messages
    BY OrderTypes, HeldTypes DEF Messages
  <1>1. g[x] = top /\ (\A m \in Messages : m # x => g[m] = f[m]) /\ Waits' \subseteq Waits \cup {x}
    BY PushIs
  <1>2. \A m \in Messages : f[m] \in Nat /\ f[m] < top
    BY <1>0 DEF OrderInv, NumbersBounded
  <1>3. /\ Rising(f, held) /\ (\A y \in ToSet(held), z \in Waits : f[y] < f[z])
        /\ w.cur # Nothing =>
              /\ \A y \in Waits : f[w.cur] < f[y]
              /\ w.walk = 0 => \A y \in ToSet(held) : f[y] < f[w.cur]
        /\ w.pc \in {"ready", "run"} /\ w.cur \notin Answers =>
              \A y \in ToSet(held) : SameClass(y, w.cur) => ~(f[y] < f[w.cur])
    BY DEF Sorted, HeldSorted, CurSorted, Cleared
  <1> HIDE DEF f, g, top
  <1>4. \A m \in ToSet(held) \cup Waits : g[m] = f[m] /\ f[m] < top
    BY <1>0, <1>1, <1>2
  <1>5. Rising(g, held)
    BY <1>0, <1>3, <1>4, RisingSame
  <1>6. \A y \in ToSet(held), z \in Waits' : g[y] < g[z]
    BY <1>1, <1>3, <1>4
  <1>7. w.cur \in Messages => g[w.cur] = f[w.cur] /\ f[w.cur] < top
    BY <1>1, <1>2
  <1>8. w.cur # Nothing => w.cur \in Messages
    BY <1>0 DEF Worker
  <1>9. w.cur # Nothing => \A y \in Waits' : g[w.cur] < g[y]
    BY <1>1, <1>3, <1>4, <1>7, <1>8
  <1>10. HeldSorted' /\ CurSorted'
    <2>1. HeldSorted'
      BY <1>5, <1>6 DEF HeldSorted, g
    <2>2. w.cur # Nothing /\ w.walk = 0 => \A y \in ToSet(held) : g[y] < g[w.cur]
      BY <1>3, <1>4, <1>7, <1>8
    <2> QED BY <1>9, <2>1, <2>2 DEF CurSorted, g
  <1>11. Cleared'
    <2>1. w.pc \in {"ready", "run"} => w.cur \in Messages
      BY DEF Control, CurPlaced, Messages
    <2>2. w.pc \in {"ready", "run"} /\ w.cur \notin Answers =>
              \A y \in ToSet(held) : SameClass(y, w.cur) => ~(g[y] < g[w.cur])
      BY <1>3, <1>4, <1>7, <2>1
    <2> QED BY <2>2 DEF Cleared, SameClass, g
  <1>12. Gated'
    BY DEF Sorted, Gated, AtGate
  <1> QED BY <1>10, <1>11, <1>12 DEF Sorted

\* What is still keeps its order.
LEMMA StillSorted ==
    ASSUME Sorted, UNCHANGED <<ch, pending, held, w>>, numbers'.of = numbers.of
    PROVE  Sorted'
  BY DEF Sorted, HeldSorted, CurSorted, Cleared, Gated, AtGate, Waits, SameClass

\* A new process starts with nothing in line.
LEMMA FreshSorted ==
    ASSUME held' = <<>>, w'.cur = Nothing, w'.pc = "top"
    PROVE  Sorted'
  <1>1. ToSet(<<>>) = {}
    BY DEF ToSet
  <1>2. HeldSorted'
    BY <1>1 DEF HeldSorted, Rising
  <1> QED BY <1>2 DEF Sorted, CurSorted, Cleared, Gated, AtGate

LEMMA ToldNumbers == Told => numbers' = numbers
  BY DEF Told, WatchInjectGate, UsageLifts, ReloginStart, ReloginComplete, ReloginRelease,
         AskResolved, BeginShutdown, StopInbox, HoldAges, Close, Open, UsageHoldStarts, AskShown

LEMMA NextSorted ==
    ASSUME IInv, NoUsage, OrderInv, Sorted, Limiters = 0, Next
    PROVE  Sorted'
  <1>0. TypeOK /\ Control /\ AtMostOnce /\ Control' /\ WalkPlaced
    BY NextControl DEF IInv, Control
  <1>1. CASE WorkerStep \/ PrimaryWritten \/ DrainSteerTexts \/ Grant \/ CancelSession
    BY <1>0, <1>1, WorkerSorted
  <1>2. CASE Producers
    <2>1. UNCHANGED <<held, w>> /\ pending' = pending
      BY <1>0, <1>2, ProducersStill, ProducersPush
    <2>2. CASE UNCHANGED <<ch, numbers>>
      BY <2>1, <2>2, StillSorted
    <2>3. CASE \E x \in Messages, r \in {"rejected", "refused"} :
                    /\ Push(x, r)
                    /\ x \in out.unsent \/ x \in ToSet(out.requeue) \/ x \in ToSet(out.restore)
      <3>1. PICK x \in Messages, r \in {"rejected", "refused"} :
                    /\ Push(x, r)
                    /\ x \in out.unsent \/ x \in ToSet(out.requeue) \/ x \in ToSet(out.restore)
        BY <2>3
      <3>2. x \notin Waits /\ x \notin ToSet(held) /\ w.cur # x
        BY <1>0, <3>1, OnlyThere
      <3> QED BY <1>0, <2>1, <3>1, <3>2, PushSorted
    <2> QED BY <1>0, <1>2, <2>2, <2>3, ProducersPush
  <1>3. CASE Told
    BY <1>0, <1>3, ToldSame, ToldNumbers, StillSorted
  <1>4. CASE Crash
    <2>1. held' = <<>> /\ w'.cur = Nothing /\ w'.pc = "top"
      BY <1>4 DEF Crash
    <2> QED BY <2>1, FreshSorted
  <1> QED BY <1>1, <1>2, <1>3, <1>4, NextSplit

\* A message's record of ends only grows, by one end a step.
LEMMA FateStep ==
    ASSUME TypeOK, NoUsage, NEW m \in Messages, Next
    PROVE  fate'[m] = fate[m] \/ \E o : fate'[m] = Append(fate[m], o)
  <1>0. ASSUME fate' = fate \/ \E S, o : fate' = Ended(S, o)
        PROVE  fate'[m] = fate[m] \/ \E o : fate'[m] = Append(fate[m], o)
    BY <1>0 DEF Ended
  <1>1. CASE TakeUsageResume \/ Dequeued \/ HandleDequeued \/ GateEnded \/ RunInject \/ DrainSteerTexts
    <2>1. fate' = fate \/ \E S, o : fate' = Ended(S, o)
      BY <1>1 DEF TakeUsageResume, Dequeued, HandleDequeued, GateEnded, ParkFate, RefuseCur, RunInject,
         DrainSteerTexts
    <2> QED BY <1>0, <2>1
  <1>2. CASE WaitTurnSlot \/ ClaimWaitCancel
    <2>1. fate' = fate \/ Abort
      BY <1>2 DEF WaitTurnSlot, ClaimWaitCancel
    <2>2. fate' = fate \/ \E S, o : fate' = Ended(S, o)
      BY <2>1 DEF Abort
    <2> QED BY <1>0, <2>2
  <1>3. CASE Exit
    BY <1>3 DEF Exit
  <1>4. CASE DriveBatch
    BY <1>4 DEF DriveBatch
  <1>5. CASE FollowUp
    <2> DEFINE extras == IF PendingHeadIsInject THEN <<>> ELSE QueuedUsers
    <2>1. fate' = [x \in Messages |->
                       IF x \in ToSet(steer \o extras) THEN Append(fate[x], "ran")
                       ELSE IF ~PendingHeadIsInject /\ x \in QueuedStopped THEN Append(fate[x], "stopped")
                       ELSE fate[x]]
      BY <1>5 DEF FollowUp, NoUsage, UsageHoldsUser
    <2> HIDE DEF extras
    <2> QED BY <2>1
  <1>6. CASE Producers \/ Told \/ Crash
    BY <1>0, <1>6, OthersFate
  <1>7. CASE /\ WorkerStep \/ PrimaryWritten \/ Grant \/ CancelSession
             /\ ~(TakeUsageResume \/ Dequeued \/ HandleDequeued \/ GateEnded \/ RunInject
                  \/ WaitTurnSlot \/ ClaimWaitCancel \/ Exit \/ DriveBatch \/ FollowUp)
    BY <1>7 DEF WorkerStep, PrimaryWritten, Grant, CancelSession, LoopTop,
         ReleaseHeldKeep, ReleaseHeldRun, ReleaseHeldDone, ReleaseUsageHeld, Arm, Select,
         DispatchUserInput, DispatchPark, DispatchNow, Ready, RunPause, RunPaused, RunDefer,
         InjectReturns, PassGate, AcquireTurnSlots, TakeSlot, RecheckGates, TurnReturns,
         BatchReturns, Settle
  <1> QED BY <1>1, <1>2, <1>3, <1>4, <1>5, <1>6, <1>7, NextSplit

\* What the worker does to the store, the batch, the steers and the numbers.
LEMMA WorkerUntouched ==
    ASSUME TypeOK, Control, NoUsage, Limiters = 0, Untouched,
           WorkerStep \/ PrimaryWritten \/ DrainSteerTexts \/ Grant \/ CancelSession
    PROVE  Untouched'
  <1>0. out \in Outside /\ w \in Worker /\ ToSet(<<>>) = {} /\ ~WaitTurnSlot
    BY NoSlotWait DEF TypeOK, ToSet, WaitTurnSlot
  <1>1. stored' = <<>>
    <2>1. \A S : Forget(S) = <<>>
      <3>1. ASSUME NEW S PROVE Forget(S) = <<>>
        <4>1. Forget(S) \in Seq(Messages) /\ ToSet(Forget(S)) = ToSet(stored) \ S
          BY ForgetIs, StoreTypes DEF TypeOK
        <4>2. ToSet(Forget(S)) = {}
          BY <1>0, <4>1 DEF Untouched
        <4> QED BY <4>1, <4>2 DEF ToSet
      <3> QED BY <3>1
    <2>2. CASE TakeUsageResume \/ ReleaseUsageHeld \/ HandleDequeued \/ DispatchPark \/ RunInject
               \/ DriveBatch \/ FollowUp
      BY <2>1, <2>2 DEF TakeUsageResume, ReleaseUsageHeld, HandleDequeued, DispatchPark, RunInject,
         DriveBatch, FollowUp, StartBatch, NoUsage, UsageHoldsUser, Untouched
    <2>3. CASE ~(TakeUsageResume \/ ReleaseUsageHeld \/ HandleDequeued \/ DispatchPark \/ RunInject
               \/ DriveBatch \/ FollowUp)
      BY <1>0, <2>3 DEF WorkerStep, PrimaryWritten, DrainSteerTexts, Grant, CancelSession, LoopTop,
         ReleaseHeldKeep, ReleaseHeldRun, ReleaseHeldDone, Arm, Select, Dequeued,
         GateEnded, DispatchUserInput, DispatchNow, Ready, Settle, RunPaused,
         RunPause, RunDefer, InjectReturns, PassGate, AcquireTurnSlots, TakeSlot,
         ClaimWaitCancel, RecheckGates, TurnReturns, BatchReturns, Exit, Untouched
    <2> QED BY <2>2, <2>3
  <1>2. out'.steering = out.steering /\ out'.restore = out.restore
    <2>1. CASE TakeUsageResume \/ RunPaused \/ Settle
      BY <1>0, <2>1 DEF TakeUsageResume, RunPaused, Settle, Outside
    <2>2. CASE ~(TakeUsageResume \/ RunPaused \/ Settle)
      BY <1>0, <2>2 DEF WorkerStep, PrimaryWritten, DrainSteerTexts, Grant, CancelSession, LoopTop,
         ReleaseHeldKeep, ReleaseHeldRun, ReleaseHeldDone, ReleaseUsageHeld, Arm, Select, Dequeued,
         HandleDequeued, GateEnded, DispatchUserInput, DispatchPark, DispatchNow, Ready, RunInject,
         RunPause, RunDefer, InjectReturns, PassGate, AcquireTurnSlots, TakeSlot,
         ClaimWaitCancel, RecheckGates, DriveBatch, TurnReturns, FollowUp, BatchReturns, Exit
    <2> QED BY <2>1, <2>2
  <1>3. steer' = steer \/ steer' = <<>>
    BY <1>0 DEF WorkerStep, PrimaryWritten, DrainSteerTexts, Grant, CancelSession, LoopTop,
       ReleaseHeldKeep, ReleaseHeldRun, ReleaseHeldDone, ReleaseUsageHeld, Arm, Select, Dequeued,
       HandleDequeued, GateEnded, DispatchUserInput, DispatchPark, DispatchNow, Ready, RunInject,
       RunPause, RunDefer, InjectReturns, PassGate, AcquireTurnSlots, TakeSlot,
       ClaimWaitCancel, RecheckGates, DriveBatch, TurnReturns, FollowUp, BatchReturns, Exit,
       TakeUsageResume, RunPaused, Settle
  <1>4. numbers'.of = numbers.of
    BY <1>0 DEF WorkerStep, PrimaryWritten, DrainSteerTexts, Grant, CancelSession, LoopTop, TypeOK,
       ReleaseHeldKeep, ReleaseHeldRun, ReleaseHeldDone, ReleaseUsageHeld, Arm, Select, Dequeued,
       HandleDequeued, GateEnded, DispatchUserInput, DispatchPark, DispatchNow, Ready, RunInject,
       RunPause, RunDefer, InjectReturns, PassGate, AcquireTurnSlots, TakeSlot,
       ClaimWaitCancel, RecheckGates, DriveBatch, TurnReturns, FollowUp, BatchReturns, Exit,
       TakeUsageResume, RunPaused, Settle
  <1>5. \/ w'.batch = w.batch \/ w'.batch = <<>>
        \/ w'.batch = <<w.cur>> /\ w.cur \notin Injects
    <2>1. CASE Arm \/ Select \/ Dequeued \/ HandleDequeued \/ DriveBatch \/ FollowUp \/ Exit \/ CancelSession
      BY <1>0, <2>1, DoneIs, LeavingIs DEF Arm, Select, Dequeued, HandleDequeued, DriveBatch, FollowUp,
         Exit, CancelSession, StartBatch, Worker
    <2>2. CASE ~(Arm \/ Select \/ Dequeued \/ HandleDequeued \/ DriveBatch \/ FollowUp \/ Exit \/ CancelSession)
      BY <1>0, <2>2, WorkerSteady DEF WorkerStep, Steady
    <2> QED BY <2>1, <2>2
  <1>6. ToSet(w'.batch) \cap Injects = {}
    <2>1. ToSet(<<w.cur>>) = {w.cur}
      BY DEF ToSet
    <2> QED BY <1>0, <1>5, <2>1 DEF Untouched
  <1>7. ToSet(steer') \subseteq ToSet(steer)
    BY <1>0, <1>3
  <1>8. out'.unsent = out.unsent /\ out'.restored = out.restored
    BY WorkerOutside
  <1> QED BY <1>1, <1>2, <1>4, <1>6, <1>7, <1>8 DEF Untouched

LEMMA NextUntouched ==
    ASSUME IInv, NoUsage, Limiters = 0, Untouched, Next
    PROVE  Untouched'
  <1>0. TypeOK /\ Control /\ AtMostOnce /\ out \in Outside
    BY DEF IInv, TypeOK
  <1>1. CASE WorkerStep \/ PrimaryWritten \/ DrainSteerTexts \/ Grant \/ CancelSession
    BY <1>0, <1>1, WorkerUntouched
  <1>2. CASE Producers
    <2>1. /\ stored' = stored /\ w' = w /\ out'.restored = out.restored
          /\ out'.restore = out.restore /\ out'.steering \subseteq out.steering \cup Steerable
          /\ out'.unsent \subseteq out.unsent
      BY <1>0, <1>2, ProducersStill DEF Restore, Untouched
    <2>2. ToSet(steer') \subseteq ToSet(steer) \cup out.steering
      <3>1. CASE \E x \in Messages : AppendSteer(x)
        <4>1. PICK x \in Messages : AppendSteer(x)
          BY <3>1
        <4>2. steer' = Append(steer, x) /\ x \in out.steering /\ steer \in Seq(Messages)
          BY <1>0, <4>1, TallyTypes DEF AppendSteer
        <4>3. /\ ToSet(Append(steer, x)) = ToSet(steer) \cup {x}
              /\ ToSet(<<x>> \o steer) = ToSet(steer) \cup {x}
          BY <4>2, ToSetAppend
        <4> QED BY <4>2, <4>3
      <3>2. CASE ~\E x \in Messages : AppendSteer(x)
        <4>1. steer' = steer
          BY <1>2, <3>2 DEF Producers, EnqueueUser, EnqueueInject, Requeue, Restore, DrainDeferredInjects,
             ReleaseExpiredAskHolds
        <4> QED BY <4>1
      <3> QED BY <3>1, <3>2
    <2>3. Steerable \cap Injects \subseteq Answers
      BY InboxAssumption
    <2>4. \A i \in Injects \cap out'.unsent : numbers'.of[i] = 0
      <3>1. CASE UNCHANGED <<ch, numbers>>
        BY <2>1, <3>1 DEF Untouched
      <3>2. CASE \E x \in Messages, r \in {"rejected", "refused"} :
                    /\ Push(x, r)
                    /\ \/ x \in out.unsent /\ out'.unsent = out.unsent \ {x}
                       \/ x \in ToSet(out.requeue) \/ x \in ToSet(out.restore)
        <4>1. PICK x \in Messages, r \in {"rejected", "refused"} :
                    /\ Push(x, r)
                    /\ \/ x \in out.unsent /\ out'.unsent = out.unsent \ {x}
                       \/ x \in ToSet(out.requeue) \/ x \in ToSet(out.restore)
          BY <3>2
        <4>2. x \notin out'.unsent
          BY <1>0, <2>1, <4>1, OnlyThere
        <4>3. \A m \in Messages : m # x => numbers'.of[m] = numbers.of[m]
          BY <1>0, <1>2, <4>1, PushIs, ProducersPush
        <4> QED BY <2>1, <4>2, <4>3 DEF Untouched, Messages
      <3> QED BY <1>0, <1>2, <3>1, <3>2, ProducersPush
    <2> QED BY <2>1, <2>2, <2>3, <2>4 DEF Untouched
  <1>3. CASE Told
    <2>1. /\ UNCHANGED <<steer, stored, w>> /\ out'.unsent = out.unsent /\ out'.steering = out.steering
          /\ out'.restore = out.restore /\ out'.restored = out.restored /\ numbers' = numbers
      BY <1>0, <1>3, ToldSame, ToldNumbers
    <2> QED BY <2>1 DEF Untouched
  <1>4. CASE Crash
    <2>1. /\ stored' = <<>> /\ steer' = <<>> /\ w'.batch = <<>> /\ ToSet(<<>>) = {}
          /\ numbers'.of = [m \in Messages |-> 0]
      BY <1>4 DEF Crash, Untouched, ToSet
    <2>2. out'.steering = {} /\ out'.restore = <<>> /\ out'.restored = out.restored \cup ToSet(stored)
      BY <1>0, <1>4 DEF Crash, Spent, Outside, Untouched
    <2> QED BY <2>1, <2>2 DEF Untouched, Messages
  <1> QED BY <1>1, <1>2, <1>3, <1>4, NextSplit

\* What has left the line: deferred, or on its way back into it.
Aside == {d.msg : d \in ToSet(deferred)} \cup ToSet(out.requeue)

\* A message that has not ended is somewhere.
LEMMA SomePlace ==
    ASSUME TypeOK, ExactlyOnce, NEW m \in Messages \ out.restored, fate[m] = <<>>
    PROVE  \/ m \in Waits \/ m \in ToSet(held) \/ m \in ToSet(usageHeld) \/ m \in ToSet(steer)
           \/ m \in ToSet(w.batch) \/ m \in ToSet(out.restore) \/ m \in Aside
           \/ m \in out.unsent \/ m \in out.fresh \/ m \in out.steering \/ w.cur = m
  <1>1. PICK c, p, h, u, s, b, q, r, d, o, k, f \in Nat :
              Tallied(m, c, p, h, u, s, b, q, r, d, o, k, f)
    BY TallyNow
  <1>2. f = 0
    BY <1>1 DEF Tallied
  <1>3. c + p + h + u + s + b + q + r + d + o + k = 1
    <2>1. Places(m) + Len(fate[m]) = 1
      BY DEF ExactlyOnce
    <2>2. Places(m) = c + p + h + u + s + b + q + r + d + o + k /\ Len(fate[m]) = 0
      BY <1>1, <1>2 DEF Tallied
    <2> QED BY <2>1, <2>2
  <1>4. /\ m \in ToSet(ch) <=> c # 0
        /\ m \in ToSet(pending) <=> p # 0
        /\ m \in ToSet(held) <=> h # 0
        /\ m \in ToSet(usageHeld) <=> u # 0
        /\ m \in ToSet(steer) <=> s # 0
        /\ m \in ToSet(w.batch) <=> b # 0
        /\ m \in ToSet(out.requeue) <=> q # 0
        /\ m \in ToSet(out.restore) <=> r # 0
    BY <1>1, TallyTypes, OccursType DEF Tallied
  <1>5. m \in {x.msg : x \in ToSet(deferred)} <=> d # 0
    <2>1. m \in ToSet(MessagesOf(deferred)) <=> d # 0
      BY <1>1, TallyTypes, OccursType DEF Tallied
    <2> QED BY <2>1, TallyTypes, MessagesOfSeq
  <1>6. o # 0 => m \in out.unsent \/ m \in out.fresh \/ m \in out.steering
    BY <1>1 DEF Tallied, OutsideOf, In
  <1>7. k # 0 => w.cur = m
    BY <1>1 DEF Tallied, InHand, Is
  <1>8. c # 0 \/ p # 0 \/ h # 0 \/ u # 0 \/ s # 0 \/ b # 0 \/ q # 0 \/ r # 0 \/ d # 0 \/ o # 0 \/ k # 0
    BY <1>3
  <1> QED BY <1>4, <1>5, <1>6, <1>7, <1>8 DEF Waits, Aside

\* A drain moves entries of the deferred list to the requeue.
LEMMA DrainAside ==
    ASSUME TypeOK, NEW T, T \subseteq ToSet(deferred),
           deferred' = Kept(deferred, ToSet(deferred) \ T),
           out'.requeue = out.requeue \o MessagesOf(Kept(deferred, T))
    PROVE  Aside \subseteq Aside'
  <1>0. deferred \in Seq(Deferral) /\ out.requeue \in Seq(Injects)
    BY DEF TypeOK, Deferral, Outside
  <1>1. /\ Kept(deferred, T) \in Seq(Deferral) /\ ToSet(Kept(deferred, T)) = ToSet(deferred) \cap T
        /\ ToSet(deferred') = ToSet(deferred) \ T
    <2>1. ToSet(Kept(deferred, ToSet(deferred) \ T)) = ToSet(deferred) \cap (ToSet(deferred) \ T)
      BY <1>0, KeptSeq
    <2>2. Kept(deferred, T) \in Seq(Deferral) /\ ToSet(Kept(deferred, T)) = ToSet(deferred) \cap T
      BY <1>0, KeptSeq
    <2> QED BY <2>1, <2>2
  <1>2. /\ MessagesOf(Kept(deferred, T)) \in Seq(Injects)
        /\ ToSet(MessagesOf(Kept(deferred, T))) = {d.msg : d \in ToSet(Kept(deferred, T))}
    BY <1>1, MessagesOfSeq
  <1>3. ToSet(out'.requeue) = ToSet(out.requeue) \cup {d.msg : d \in T}
    BY <1>0, <1>1, <1>2, ToSetConcat
  <1> QED BY <1>1, <1>3 DEF Aside

\* What a drain by key does.
LEMMA DrainByKey ==
    ASSUME TypeOK, NEW by, deferred' = NotHeldBy(by), out'.requeue = out.requeue \o HeldBy(by)
    PROVE  Aside \subseteq Aside'
  <1> DEFINE T == {d \in ToSet(deferred) : d.by = by}
  <1>1. {d \in ToSet(deferred) : d.by # by} = ToSet(deferred) \ T /\ T \subseteq ToSet(deferred)
    OBVIOUS
  <1>2. deferred' = Kept(deferred, ToSet(deferred) \ T)
    BY <1>1 DEF NotHeldBy
  <1>3. out'.requeue = out.requeue \o MessagesOf(Kept(deferred, T))
    BY DEF HeldBy
  <1> HIDE DEF T
  <1> QED BY <1>1, <1>2, <1>3, DrainAside

\* What is aside stays aside, but for the one requeueDeferred takes.
LEMMA AsideStays ==
    ASSUME TypeOK, Control, Next, ~Crash
    PROVE  Aside \ {Head(out.requeue)} \subseteq Aside' /\ (~Requeue => Aside \subseteq Aside')
  <1>0. out \in Outside /\ deferred \in Seq(Deferral) /\ out.requeue \in Seq(Injects)
    BY DEF TypeOK, Deferral, Outside
  <1>1. CASE RunPaused
    <2>1. CASE UNCHANGED <<deferred, out>>
      BY <2>1 DEF Aside
    <2>2. CASE /\ deferred' = NotHeldBy(Login)
               /\ out' = [out EXCEPT !.requeue = @ \o HeldBy(Login)]
      <3>1. out'.requeue = out.requeue \o HeldBy(Login)
        BY <1>0, <2>2 DEF Outside
      <3> QED BY <2>2, <3>1, DrainByKey
    <2> QED BY <1>1, <2>1, <2>2 DEF RunPaused
  <1>2. CASE \E by \in Asks \cup {Login} : DrainDeferredInjects(by)
    <2>1. PICK by \in Asks \cup {Login} : DrainDeferredInjects(by)
      BY <1>2
    <2>2. deferred' = NotHeldBy(by) /\ out'.requeue = out.requeue \o HeldBy(by)
      BY <1>0, <2>1 DEF DrainDeferredInjects, Outside
    <2> QED BY <2>2, DrainByKey
  <1>3. CASE \E i \in Injects : ReleaseExpiredAskHolds(i)
    <2> DEFINE X == {e \in ToSet(deferred) : e.by # Login /\ e.msg \in clock.askAged}
    <2>1. /\ deferred' = Kept(deferred, ToSet(deferred) \ X)
          /\ out' = [out EXCEPT !.requeue = @ \o MessagesOf(Kept(deferred, X))]
      BY <1>3 DEF ReleaseExpiredAskHolds
    <2>2. X \subseteq ToSet(deferred)
      OBVIOUS
    <2> HIDE DEF X
    <2>3. out'.requeue = out.requeue \o MessagesOf(Kept(deferred, X))
      BY <1>0, <2>1 DEF Outside
    <2> QED BY <2>1, <2>2, <2>3, DrainAside
  <1>4. CASE RunPause \/ RunDefer
    <2>1. PICK d \in Deferral : deferred' = Append(deferred, d)
      <3>1. w.cur \in Injects /\ (RunDefer => w.ask \in Asks)
        BY <1>4 DEF RunPause, RunDefer, Control, CurPlaced
      <3> QED BY <1>4, <3>1 DEF RunPause, RunDefer, Deferral
    <2>2. ToSet(deferred') = ToSet(deferred) \cup {d} /\ out' = out
      BY <1>0, <1>4, <2>1, DeferredAppend DEF RunPause, RunDefer
    <2> QED BY <2>2 DEF Aside
  <1>5. CASE Requeue
    <2> DEFINE rest == [out EXCEPT !.requeue = Tail(@)]
    <2>1. out.requeue # <<>> /\ deferred' = deferred
      BY <1>5 DEF Requeue
    <2>2. out'.requeue = Tail(out.requeue)
      <3>0. Tail(out.requeue) \in Seq(Injects)
        BY <1>0, <2>1
      <3>1. rest.requeue = Tail(out.requeue) /\ rest \in Outside
        BY <1>0, <3>0 DEF Outside
      <3>2. out' = rest \/ out' = [rest EXCEPT !.steering = @ \cup {Head(out.requeue)}]
        <4>1. SteerOrPush(Head(out.requeue), "refused", rest) \/ out' = rest
          BY <1>5 DEF Requeue, EnqueueInjection
        <4> HIDE DEF rest
        <4> QED BY <4>1 DEF SteerOrPush
      <3> HIDE DEF rest
      <3> QED BY <3>1, <3>2 DEF Outside
    <2>3. ToSet(out.requeue) \subseteq ToSet(Tail(out.requeue)) \cup {Head(out.requeue)}
      <3>1. ASSUME NEW k \in DOMAIN out.requeue, k # 1 PROVE out.requeue[k] \in ToSet(Tail(out.requeue))
        <4>1. k - 1 \in DOMAIN Tail(out.requeue) /\ Tail(out.requeue)[k - 1] = out.requeue[k]
          BY <1>0, <2>1, <3>1
        <4> QED BY <4>1 DEF ToSet
      <3> QED BY <1>0, <2>1, <3>1 DEF ToSet
    <2> QED BY <1>5, <2>1, <2>2, <2>3 DEF Aside
  <1>6. CASE \/ \E x \in Users : EnqueueUser(x)
             \/ \E x \in Injects : EnqueueInject(x)
    <2>1. PICK x \in Users \cup Injects : EnqueueUser(x) \/ EnqueueInject(x)
      BY <1>6
    <2> DEFINE rest == [out EXCEPT !.unsent = @ \ {x}]
    <2>2. rest.requeue = out.requeue /\ rest \in Outside
      BY <1>0 DEF Outside
    <2>3. deferred' = deferred /\ (out' = rest \/ out' = [rest EXCEPT !.steering = @ \cup {x}])
      BY <2>1 DEF EnqueueUser, EnqueueInject, EnqueueInjection, SteerOrPush
    <2> HIDE DEF rest
    <2>4. out'.requeue = out.requeue
      BY <2>2, <2>3 DEF Outside
    <2> QED BY <2>3, <2>4 DEF Aside
  <1>7. CASE Restore \/ \E x \in Messages : AppendSteer(x)
    <2>1. deferred' = deferred /\ out'.requeue = out.requeue
      BY <1>0, <1>7 DEF Restore, AppendSteer, Outside
    <2> QED BY <2>1 DEF Aside
  <1>8. CASE Told
    BY <1>8, ToldSame DEF Aside
  <1>9. CASE TakeUsageResume \/ Settle
    <2>1. deferred' = deferred /\ out'.requeue = out.requeue
      BY <1>0, <1>9 DEF TakeUsageResume, Settle, Outside
    <2> QED BY <2>1 DEF Aside
  <1>10. CASE /\ WorkerStep \/ PrimaryWritten \/ DrainSteerTexts \/ Grant \/ CancelSession
              /\ ~(RunPaused \/ RunPause \/ RunDefer \/ TakeUsageResume \/ Settle)
    <2>1. deferred' = deferred /\ out' = out
      BY <1>10 DEF WorkerStep, PrimaryWritten, DrainSteerTexts, Grant, CancelSession, LoopTop,
         ReleaseHeldKeep, ReleaseHeldRun, ReleaseHeldDone, ReleaseUsageHeld, Arm, Select, Dequeued,
         HandleDequeued, GateEnded, DispatchUserInput, DispatchPark, DispatchNow, Ready, RunInject,
         InjectReturns, PassGate, AcquireTurnSlots, TakeSlot, WaitTurnSlot,
         ClaimWaitCancel, RecheckGates, DriveBatch, TurnReturns, FollowUp, BatchReturns, Exit
    <2> QED BY <2>1 DEF Aside
  <1> QED BY <1>1, <1>2, <1>3, <1>4, <1>5, <1>6, <1>7, <1>8, <1>9, <1>10, NextSplit DEF Producers

\* i has ended or left the line.
Gone(i) == fate[i] # <<>> \/ i \in Aside

\* A plain injection that is gone stays gone, unless it is numbered again.
LEMMA GoneStays ==
    ASSUME IInv, OrderInv, Next, ~Crash, NEW i \in Injects \ Answers, Gone(i),
           numbers'.of[i] = numbers.of[i]
    PROVE  Gone(i)'
  <1>0. TypeOK /\ Control /\ AtMostOnce /\ i \in Messages
    BY DEF IInv, Messages
  <1>1. CASE fate[i] # <<>>
    <2>1. Len(fate'[i]) >= Len(fate[i]) /\ fate[i] \in Seq(Outcomes)
      BY <1>0, StepConserved DEF Conserved, TypeOK
    <2>2. fate'[i] # <<>>
      BY <1>1, <2>1
    <2> QED BY <2>2 DEF Gone
  <1>2. CASE i \in Aside /\ ~(Requeue /\ i = Head(out.requeue))
    BY <1>0, <1>2, AsideStays DEF Gone
  <1>3. CASE Requeue /\ i = Head(out.requeue)
    <2>1. Push(i, "refused") /\ pending' = pending
      BY <1>3 DEF Requeue, EnqueueInjection
    <2>2. numbers'.of[i] = numbers.last + 1
      BY <1>0, <2>1, PushIs
    <2>3. numbers.of[i] <= numbers.last /\ numbers.of[i] \in Nat /\ numbers.last \in Nat
      BY <1>0, OrderTypes DEF OrderInv, NumbersBounded
    <2> QED BY <2>2, <2>3
  <1> QED BY <1>1, <1>2, <1>3 DEF Gone

\* When an injection runs, every earlier one of its class is gone.
LEMMA RunFIFO ==
    ASSUME IInv, NoUsage, Sorted, Untouched, RunInject,
           NEW i \in Injects \ Answers, w.cur \notin Answers, SameClass(i, w.cur),
           0 < numbers.of[i], numbers.of[i] < numbers.of[w.cur]
    PROVE  Gone(i)
  <1>0. TypeOK /\ ExactlyOnce /\ i \in Messages \ out.restored /\ i \notin Lines
    BY InboxAssumption DEF IInv, Messages, Untouched
  <1>1. w.pc = "run" /\ w.cur \in Messages /\ w.cur # Nothing
    BY InboxAssumption DEF RunInject, IInv, Control, CurPlaced, Messages
  <1>2. numbers.of[i] \in Nat /\ numbers.of[w.cur] \in Nat
    BY <1>0, <1>1, OrderTypes
  <1>3. i \notin Waits
    BY <1>0, <1>1, <1>2 DEF Sorted, CurSorted
  <1>4. i \notin ToSet(held)
    BY <1>1 DEF Sorted, Cleared
  <1>5. w.cur # i
    BY <1>2
  <1>6. i \notin out.unsent
    BY <1>2 DEF Untouched
  <1>7. i \notin ToSet(steer) /\ i \notin out.steering /\ i \notin ToSet(w.batch)
    BY DEF Untouched
  <1>8. i \notin ToSet(usageHeld) /\ i \notin ToSet(out.restore) /\ i \notin out.fresh
    <2>1. ToSet(<<>>) = {}
      BY DEF ToSet
    <2>2. out.fresh \subseteq Lines
      BY <1>0 DEF TypeOK, Outside
    <2> QED BY <1>0, <2>1, <2>2 DEF NoUsage, Untouched
  <1> QED BY <1>0, <1>3, <1>4, <1>5, <1>6, <1>7, <1>8, SomePlace DEF Gone

\* A step numbers at most one message, one that some producer carried, and
\* then none starts.
LEMMA NumbersMove ==
    ASSUME TypeOK, Next, ~Crash
    PROVE  \/ numbers'.of = numbers.of
           \/ \E x \in Messages :
                 /\ numbers'.of[x] = numbers.last + 1
                 /\ \A m \in Messages : m # x => numbers'.of[m] = numbers.of[m]
                 /\ x \in out.unsent \/ x \in ToSet(out.requeue) \/ x \in ToSet(out.restore)
                 /\ \A m \in Messages : ~Starts(m)
  <1>1. CASE Producers
    <2>1. CASE UNCHANGED <<ch, numbers>>
      BY <2>1
    <2>2. CASE \E x \in Messages, r \in {"rejected", "refused"} :
                    /\ Push(x, r)
                    /\ x \in out.unsent \/ x \in ToSet(out.requeue) \/ x \in ToSet(out.restore)
      <3>1. PICK x \in Messages, r \in {"rejected", "refused"} :
                    /\ Push(x, r)
                    /\ x \in out.unsent \/ x \in ToSet(out.requeue) \/ x \in ToSet(out.restore)
        BY <2>2
      <3>2. pending' = pending
        BY <1>1, ProducersPush
      <3>3. /\ numbers'.of[x] = numbers.last + 1
            /\ \A m \in Messages : m # x => numbers'.of[m] = numbers.of[m]
        BY <3>1, <3>2, PushIs
      <3>4. \A m \in Messages : ~Starts(m)
        BY <1>1, OthersStart
      <3> QED BY <3>1, <3>3, <3>4
    <2> QED BY <1>1, <2>1, <2>2, ProducersPush
  <1>2. CASE Told
    BY <1>2, ToldNumbers
  <1>3. CASE WorkerStep \/ PrimaryWritten \/ DrainSteerTexts \/ Grant \/ CancelSession
    BY <1>3 DEF WorkerStep, PrimaryWritten, DrainSteerTexts, Grant, CancelSession, LoopTop, TypeOK,
       ReleaseHeldKeep, ReleaseHeldRun, ReleaseHeldDone, ReleaseUsageHeld, Arm, Select, Dequeued,
       HandleDequeued, GateEnded, DispatchUserInput, DispatchPark, DispatchNow, Ready, RunInject,
       RunPause, RunDefer, InjectReturns, PassGate, AcquireTurnSlots, TakeSlot, WaitTurnSlot,
       ClaimWaitCancel, RecheckGates, DriveBatch, TurnReturns, FollowUp, BatchReturns, Exit,
       TakeUsageResume, RunPaused, Settle
  <1> QED BY <1>1, <1>2, <1>3, NextSplit

\* A message some producer carries has not ended.
LEMMA CarriedFresh ==
    ASSUME TypeOK, ExactlyOnce, NEW x \in Messages \ out.restored,
           x \in out.unsent \/ x \in ToSet(out.requeue) \/ x \in ToSet(out.restore)
    PROVE  fate[x] = <<>>
  <1>1. PICK c, p, h, u, s, b, q, r, d, o, k, f \in Nat :
              Tallied(x, c, p, h, u, s, b, q, r, d, o, k, f)
    BY TallyNow
  <1>2. Places(x) + Len(fate[x]) = 1
    BY DEF ExactlyOnce
  <1>3. c + p + h + u + s + b + q + r + d + o + k + f = 1
    <2>1. Places(x) = c + p + h + u + s + b + q + r + d + o + k /\ Len(fate[x]) = f
      BY <1>1 DEF Tallied
    <2> QED BY <1>2, <2>1
  <1>4. q # 0 \/ r # 0 \/ o # 0
    <2>1. x \in ToSet(out.requeue) => q # 0
      BY <1>1, TallyTypes, OccursType DEF Tallied
    <2>2. x \in ToSet(out.restore) => r # 0
      BY <1>1, TallyTypes, OccursType DEF Tallied
    <2>3. x \in out.unsent => o # 0
      <3>1. PICK e, g \in Nat : e = In(x, out.fresh) /\ g = In(x, out.steering)
        BY IsType
      <3>2. x \in out.unsent => o = 1 + e + g
        BY <1>1, <3>1 DEF Tallied, OutsideOf, In
      <3> QED BY <3>2
    <2> QED BY <2>1, <2>2, <2>3
  <1>5. f = 0
    <2>1. PICK y \in Nat : y = q + r + o
      OBVIOUS
    <2>2. y >= 1
      BY <1>4, <2>1
    <2>3. PICK z \in Nat : z = c + p + h + u + s + b + d + k
      OBVIOUS
    <2>4. y + z + f = 1
      BY <1>3, <2>1, <2>3
    <2> QED BY <2>2, <2>4
  <1>6. fate[x] \in Seq(Outcomes) /\ Len(fate[x]) = 0
    BY <1>1, <1>5 DEF Tallied, TypeOK
  <1> QED BY <1>6

\* The classes' order in terms of what is gone.
LEMMA ClassFIFOIs ==
    ClassFIFO <=>
      \A i, j \in Injects \ (Answers \cup Wakes) :
          /\ SameClass(i, j) /\ 0 < numbers.of[i] /\ numbers.of[i] < numbers.of[j]
          /\ fate[j] = <<"ran">>
          => Gone(i)
  BY DEF ClassFIFO, SameClass, Gone, Aside

LEMMA NextFIFO ==
    ASSUME IInv, NoUsage, OrderInv, Sorted, Untouched, ClassFIFO, Next
    PROVE  ClassFIFO'
  <1>0. TypeOK /\ Control /\ AtMostOnce /\ ExactlyOnce /\ out.restored = {}
        /\ numbers.of \in [Messages -> Nat] /\ numbers.last \in Nat
    BY OrderTypes DEF IInv, Untouched
  <1>1. CASE Crash
    <2>1. numbers'.of = [m \in Messages |-> 0]
      BY <1>1 DEF Crash
    <2>2. \A i \in Injects : numbers'.of[i] = 0
      BY <2>1 DEF Messages
    <2> QED BY <2>2 DEF ClassFIFO
  <1>2. CASE ~Crash
    <2>1. SUFFICES ASSUME NEW i \in Injects \ (Answers \cup Wakes), NEW j \in Injects \ (Answers \cup Wakes),
                          SameClass(i, j), 0 < numbers'.of[i], numbers'.of[i] < numbers'.of[j],
                          fate'[j] = <<"ran">>
                   PROVE  Gone(i)'
      BY DEF ClassFIFO, SameClass, Gone, Aside
    <2>2. i \in Messages /\ j \in Messages /\ i \in Injects \ Answers
      BY DEF Messages
    <2>3. fate[j] \in Seq(Outcomes) /\ (fate[j] = <<"ran">> \/ Starts(j))
      <3>1. fate[j] \in Seq(Outcomes)
        BY <1>0, <2>2 DEF TypeOK
      <3>2. fate'[j] = fate[j] \/ \E o : fate'[j] = Append(fate[j], o)
        BY <1>0, <1>2, <2>2, FateStep
      <3>3. ASSUME NEW o, fate'[j] = Append(fate[j], o) PROVE o = "ran"
        <4>1. Len(Append(fate[j], o)) = Len(fate[j]) + 1 /\ Append(fate[j], o)[Len(fate[j]) + 1] = o
          BY <3>1
        <4>2. Len(<<"ran">>) = 1 /\ <<"ran">>[1] = "ran"
          OBVIOUS
        <4>3. Len(fate[j]) \in Nat
          BY <3>1
        <4> QED BY <2>1, <3>3, <4>1, <4>2, <4>3
      <3> QED BY <1>0, <2>1, <2>2, <3>1, <3>2, <3>3, StartsIs
    <2>4. numbers'.of[i] = numbers.of[i] /\ numbers'.of[j] = numbers.of[j]
      <3>1. CASE numbers'.of = numbers.of
        BY <3>1
      <3>2. CASE \E x \in Messages :
                 /\ numbers'.of[x] = numbers.last + 1
                 /\ \A m \in Messages : m # x => numbers'.of[m] = numbers.of[m]
                 /\ x \in out.unsent \/ x \in ToSet(out.requeue) \/ x \in ToSet(out.restore)
                 /\ \A m \in Messages : ~Starts(m)
        <4>1. PICK x \in Messages :
                 /\ numbers'.of[x] = numbers.last + 1
                 /\ \A m \in Messages : m # x => numbers'.of[m] = numbers.of[m]
                 /\ x \in out.unsent \/ x \in ToSet(out.requeue) \/ x \in ToSet(out.restore)
                 /\ \A m \in Messages : ~Starts(m)
          BY <3>2
        <4>2. x # j
          <5>1. fate[x] = <<>>
            BY <1>0, <4>1, CarriedFresh
          <5>2. ~Starts(j)
            BY <2>2, <4>1
          <5>3. fate[j] = <<"ran">>
            BY <2>3, <5>2
          <5> QED BY <5>1, <5>3
        <4>3. x # i
          <5>1. numbers'.of[j] = numbers.of[j] /\ numbers.of[j] <= numbers.last /\ numbers.of[j] \in Nat
            BY <1>0, <2>2, <4>1, <4>2 DEF OrderInv, NumbersBounded
          <5> QED BY <1>0, <2>1, <4>1, <5>1
        <4> QED BY <2>2, <4>1, <4>2, <4>3
      <3> QED BY <1>0, <1>2, <3>1, <3>2, NumbersMove
    <2>5. Gone(i)
      <3>1. CASE fate[j] = <<"ran">>
        BY <2>1, <2>4, <3>1, ClassFIFOIs
      <3>2. CASE Starts(j)
        <4>1. j \notin ToSet(w.batch) /\ j \notin ToSet(steer)
          BY <2>1 DEF Untouched
        <4>2. j \notin ToSet(QueuedUsers)
          <5>1. Queued \in Seq(Messages)
            BY <1>0, <2>2, QueuedMoves
          <5>2. ToSet(QueuedUsers) \subseteq {x \in Messages \ Injects : ~StoppedQueued(x)}
            BY <5>1, KeptSeq DEF QueuedUsers
          <5> QED BY <5>2
        <4>3. RunInject /\ w.cur = j
          BY <1>0, <1>2, <2>2, <3>2, <4>1, <4>2, StartedBy
        <4> QED BY <2>1, <2>2, <2>4, <4>3, RunFIFO
      <3> QED BY <2>3, <3>1, <3>2
    <2> QED BY <1>2, <2>2, <2>4, <2>5, GoneStays
  <1> QED BY <1>1, <1>2

\* Relative to IInv, WatchInv and OrderInv, this is inductive.
LineInv == Sorted /\ Untouched /\ ClassFIFO

LEMMA InitLine ==
    ASSUME Init
    PROVE  LineInv
  <1>1. held = <<>> /\ w.cur = Nothing /\ w.pc = "top" /\ ToSet(<<>>) = {}
    BY DEF Init, ToSet
  <1>2. HeldSorted
    BY <1>1 DEF HeldSorted, Rising
  <1>3. Sorted
    BY <1>1, <1>2 DEF Sorted, CurSorted, Cleared, Gated, AtGate
  <1>4. \A m \in Messages : numbers.of[m] = 0
    BY DEF Init
  <1>5. Untouched
    BY <1>1, <1>4 DEF Init, Untouched, Messages
  <1>6. ClassFIFO
    BY <1>4 DEF ClassFIFO, Messages
  <1> QED BY <1>3, <1>5, <1>6 DEF LineInv

\* Without a turn limit (none is configured by default) and without usage
\* holds, injections of one class run in the order they were queued, however
\* the gate flickers while dispatchInject parks them and releaseHeld releases
\* them (#2233 F1); one an ask or a login defers has left the line.
THEOREM InboxClassFIFO ==
    ASSUME "usage" \notin Events, Limiters = 0
    PROVE  Spec => []ClassFIFO
  <1>1. Init => LineInv
    BY InitLine
  <1>2. IInv /\ WatchInv /\ OrderInv /\ LineInv /\ [Next]_vars => LineInv'
    <2> SUFFICES ASSUME IInv, WatchInv, OrderInv, LineInv, [Next]_vars PROVE LineInv'
      OBVIOUS
    <2>1. CASE Next
      BY <2>1, NextSorted, NextUntouched, NextFIFO DEF WatchInv, LineInv
    <2>2. CASE UNCHANGED vars
      <3>1. Sorted'
        BY <2>2, StillSorted DEF vars, LineInv
      <3>2. Untouched' /\ ClassFIFO'
        BY <2>2 DEF vars, LineInv, Untouched, ClassFIFO
      <3> QED BY <3>1, <3>2 DEF LineInv
    <2> QED BY <2>1, <2>2
  <1>3. LineInv => ClassFIFO
    BY DEF LineInv
  <1> QED BY <1>1, <1>2, <1>3, InboxOrder, PTL DEF Spec
=============================================================================

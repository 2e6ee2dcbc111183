-------------------------- MODULE LiveSessionsProofs --------------------------
(***************************************************************************)
(* The live-session caps and the delegated managers' maps, for any finite  *)
(* number of callers and any agents, keys, caps and events.                *)
(*                                                                         *)
(* The invariant has four parts.  PlacePart is the limiter between two     *)
(* holds of its mutex: its type, nobody queued twice, the counts equal to  *)
(* the places held and the grants outstanding, and everyone in the queue   *)
(* granted or short of a cap; it needs to know who can have no place yet   *)
(* (Placeless) and who can be queued (QueueWhere).  ProcPart is the        *)
(* managers' side: one creation of a key at a time, so that the entry a    *)
(* creation found empty is empty when it maps its backend (KeyFree), hence *)
(* Map and Remap drop nobody's process (NoOrphan), and after a Close only  *)
(* a relaunch maps anything (ClosedMap).  UsePart says that an eviction's  *)
(* candidate is unused unless its lastActive has moved since the scan.     *)
(*                                                                         *)
(* First come the facts about the limiter's critical sections, then what   *)
(* a step may do to each part without disturbing it, then one lemma per    *)
(* action, then the theorems.                                              *)
(***************************************************************************)
EXTENDS LiveSessions, FiniteSetTheorems, SequenceTheorems, WellFoundedInduction, TLAPS

\* Every nonempty set of natural numbers has a least element.
LEMMA FirstNat ==
    ASSUME NEW S \in SUBSET Nat, S # {}
    PROVE  \E n \in S : \A m \in S : n <= m
  <1>1. PICK n \in S : \A m \in S : ~(<<m, n>> \in OpToRel(<, Nat))
    BY NatLessThanWellFounded, WFMin
  <1>2. \A m \in S : ~(m < n)
    BY <1>1 DEF OpToRel
  <1> QED BY <1>2

------------------------------------------------------------------------------
(***************************************************************************)
(* The limiter's operators, for every limiter record.                      *)
(***************************************************************************)

\* What the fields of a limiter are.
LEMMA LimiterFields ==
    ASSUME NEW l \in Limiter
    PROVE  /\ l.live \in Nat /\ l.perAgent \in [Agents -> Nat]
           /\ l.waiters \in Seq(Callers) /\ l.granted \subseteq Callers
           /\ Len(l.waiters) \in Nat /\ DOMAIN l.waiters = 1..Len(l.waiters)
           /\ \A i \in DOMAIN l.waiters : l.waiters[i] \in Callers
           /\ IsFiniteSet(l.granted)
  <1>1. /\ l.live \in Nat /\ l.perAgent \in [Agents -> Nat]
        /\ l.waiters \in Seq(Callers) /\ l.granted \subseteq Callers
    BY DEF Limiter
  <1>2. /\ Len(l.waiters) \in Nat /\ DOMAIN l.waiters = 1..Len(l.waiters)
        /\ \A i \in DOMAIN l.waiters : l.waiters[i] \in Callers
    BY <1>1
  <1>3. IsFiniteSet(l.granted)
    BY <1>1, FS_Subset, PlacesAssumption
  <1> QED BY <1>1, <1>2, <1>3

\* Every caller has a key and an agent.
LEMMA AgentType == \A p \in Callers : KeyOf[p] \in Keys /\ Agent(p) \in Agents
  BY PlacesAssumption DEF Agent

\* Sets of callers are finite and have a size.
LEMMA CallersFinite ==
    \A S \in SUBSET Callers : IsFiniteSet(S) /\ Cardinality(S) \in Nat
  BY FS_Subset, FS_CardinalityType, PlacesAssumption

\* Serving some of the waiters yields a limiter again.
LEMMA ServeType ==
    ASSUME NEW l \in Limiter, NEW G \in SUBSET DOMAIN l.waiters
    PROVE  /\ {l.waiters[i] : i \in G} \in SUBSET Callers
           /\ Serve(l, G) \in Limiter
           /\ Serve(l, G).live = l.live + Cardinality({l.waiters[i] : i \in G})
           /\ \A a \in Agents : Serve(l, G).perAgent[a] = l.perAgent[a]
                + Cardinality({p \in {l.waiters[i] : i \in G} : Agent(p) = a})
           /\ Serve(l, G).waiters = l.waiters
           /\ Serve(l, G).granted = l.granted \cup {l.waiters[i] : i \in G}
  <1> DEFINE served == {l.waiters[i] : i \in G}
             mine(a) == {p \in served : Agent(p) = a}
  <1>1. served \in SUBSET Callers
    BY LimiterFields
  <1> HIDE DEF served
  <1>2. Cardinality(served) \in Nat /\ \A a \in Agents : Cardinality(mine(a)) \in Nat
    BY <1>1, CallersFinite
  <1>3. l.live + Cardinality(served) \in Nat
    BY <1>2, LimiterFields
  <1>4. [a \in Agents |-> l.perAgent[a] + Cardinality(mine(a))] \in [Agents -> Nat]
    BY <1>2, LimiterFields
  <1>5. Serve(l, G) = [live |-> l.live + Cardinality(served),
                       perAgent |-> [a \in Agents |-> l.perAgent[a] + Cardinality(mine(a))],
                       waiters |-> l.waiters,
                       granted |-> l.granted \cup served]
    BY DEF Serve, served
  <1>6. l.granted \cup served \in SUBSET Callers /\ l.waiters \in Seq(Callers)
    BY <1>1, LimiterFields
  <1>7. Serve(l, G) \in Limiter
    BY <1>3, <1>4, <1>5, <1>6 DEF Limiter
  <1>8. /\ Serve(l, G).live = l.live + Cardinality(served)
        /\ \A a \in Agents : Serve(l, G).perAgent[a] = l.perAgent[a] + Cardinality(mine(a))
        /\ Serve(l, G).waiters = l.waiters
        /\ Serve(l, G).granted = l.granted \cup served
    BY <1>5
  <1> QED BY <1>1, <1>7, <1>8 DEF served

\* The walk of the queue has an outcome: the shortest part of a queue without
\* one would be one waiter longer than a part that has one.
LEMMA WalkExists ==
    ASSUME NEW l \in Limiter
    PROVE  \E G \in SUBSET DOMAIN l.waiters : Walk(l, G)
  <1> DEFINE n == Len(l.waiters)
             Part(k, G) == \A i \in 1..k :
                 i \in G <=> Fits(Serve(l, G \cap 1..(i - 1)), l.waiters[i])
             Good(k) == \E G \in SUBSET (1..k) : Part(k, G)
             Bad == {k \in 0..n : ~Good(k)}
  <1>1. n \in Nat /\ DOMAIN l.waiters = 1..n
    BY LimiterFields
  <1> HIDE DEF n
  <1>2. SUFFICES Good(n)
    <2>1. PICK G \in SUBSET (1..n) : Part(n, G)
      BY <1>2
    <2> QED BY <2>1, <1>1 DEF Walk
  <1>3. SUFFICES ASSUME ~Good(n) PROVE FALSE
    OBVIOUS
  <1>4. PICK m \in Bad : \A k \in Bad : m <= k
    <2>1. Bad \in SUBSET Nat
      BY <1>1
    <2>2. n \in 0..n
      BY <1>1
    <2> HIDE DEF Good
    <2>3. Bad # {}
      BY <2>2, <1>3
    <2> HIDE DEF Bad
    <2> QED BY <2>1, <2>3, FirstNat
  <1>5. m \in Nat /\ m <= n /\ ~Good(m)
    <2> HIDE DEF Good
    <2> QED BY <1>1
  <1>a. m # 0
    <2>1. \A i \in 1..0 : FALSE
      OBVIOUS
    <2>2. Part(0, {}) /\ {} \in SUBSET (1..0)
      BY <2>1
    <2>3. Good(0)
      BY <2>2
    <2> HIDE DEF Good
    <2> QED BY <2>3, <1>5
  <1>6. Good(m - 1)
    <2> HIDE DEF Good
    <2>1. m - 1 \in 0..n /\ ~(m <= m - 1)
      BY <1>1, <1>5, <1>a
    <2> QED BY <2>1, <1>4
  <1>7. PICK G \in SUBSET (1..(m - 1)) : Part(m - 1, G)
    BY <1>6
  <1> DEFINE H == IF Fits(Serve(l, G), l.waiters[m]) THEN G \cup {m} ELSE G
  <1>b. H \in {G, G \cup {m}} /\ m \notin G
    BY <1>5, <1>a
  <1>9. m \in H <=> Fits(Serve(l, G), l.waiters[m])
    BY <1>b
  <1> HIDE DEF H
  <1>c. \A i \in 1..m : m \notin 1..(i - 1)
    BY <1>5
  <1>8. /\ H \in SUBSET (1..m)
        /\ \A i \in 1..m : H \cap 1..(i - 1) = G \cap 1..(i - 1)
        /\ H \cap 1..(m - 1) = G
        /\ \A i \in 1..(m - 1) : i \in H <=> i \in G
    <2>1. H \in SUBSET (1..m)
      BY <1>b, <1>5, <1>a
    <2>2. \A i \in 1..m : H \cap 1..(i - 1) = G \cap 1..(i - 1)
      BY <1>b, <1>c
    <2>3. m \in 1..m /\ G \subseteq 1..(m - 1)
      BY <1>5, <1>a
    <2>4. H \cap 1..(m - 1) = G
      BY <2>2, <2>3
    <2> QED BY <2>1, <2>2, <2>4
  <1> HIDE DEF H
  <1>10. Part(m, H)
    <2> TAKE i \in 1..m
    <2>1. CASE i = m
      BY <2>1, <1>8, <1>9
    <2>2. CASE i # m
      <3>1. i \in 1..(m - 1)
        BY <2>2, <1>5
      <3> QED BY <3>1, <1>7, <1>8
    <2> QED BY <2>1, <2>2
  <1> QED BY <1>5, <1>8, <1>10

\* So grantLocked serves exactly what a walk of the queue serves.
LEMMA GrantWalks ==
    ASSUME NEW l \in Limiter
    PROVE  \E G \in SUBSET DOMAIN l.waiters :
              Walk(l, G) /\ Grant(l) = Serve(l, G)
  BY WalkExists DEF Grant

\* The part of a walk before position i is itself a limiter, with fewer places
\* taken than the whole.
LEMMA WalkBefore ==
    ASSUME NEW l \in Limiter, NEW G \in SUBSET DOMAIN l.waiters,
           NEW H \in SUBSET G
    PROVE  /\ H \in SUBSET DOMAIN l.waiters
           /\ Serve(l, H) \in Limiter
           /\ Serve(l, H).live <= Serve(l, G).live
           /\ \A a \in Agents : Serve(l, H).perAgent[a] <= Serve(l, G).perAgent[a]
           /\ Serve(l, H).granted \subseteq Serve(l, G).granted
           /\ Serve(l, H).waiters = l.waiters
  <1> DEFINE more == {l.waiters[i] : i \in G}
             less == {l.waiters[i] : i \in H}
             moreOf(a) == {p \in more : Agent(p) = a}
             lessOf(a) == {p \in less : Agent(p) = a}
  <1>1. less \subseteq more /\ more \in SUBSET Callers /\ less \in SUBSET Callers
    BY LimiterFields
  <1>2. H \in SUBSET DOMAIN l.waiters
    OBVIOUS
  <1>3. /\ Serve(l, H).live = l.live + Cardinality(less)
        /\ \A a \in Agents : Serve(l, H).perAgent[a] = l.perAgent[a] + Cardinality(lessOf(a))
        /\ Serve(l, H).granted = l.granted \cup less
        /\ Serve(l, H).waiters = l.waiters
        /\ Serve(l, H) \in Limiter
    BY <1>2, ServeType
  <1>4. /\ Serve(l, G).live = l.live + Cardinality(more)
        /\ \A a \in Agents : Serve(l, G).perAgent[a] = l.perAgent[a] + Cardinality(moreOf(a))
        /\ Serve(l, G).granted = l.granted \cup more
    BY ServeType
  <1> HIDE DEF less, more
  <1>5. Cardinality(less) \in Nat /\ Cardinality(more) \in Nat
        /\ Cardinality(less) <= Cardinality(more)
    <2>1. IsFiniteSet(more)
      BY <1>1, CallersFinite
    <2> QED BY <2>1, <1>1, FS_Subset, FS_CardinalityType
  <1>6. ASSUME NEW a \in Agents
        PROVE  /\ Cardinality(lessOf(a)) \in Nat /\ Cardinality(moreOf(a)) \in Nat
               /\ Cardinality(lessOf(a)) <= Cardinality(moreOf(a))
    <2>1. lessOf(a) \subseteq moreOf(a) /\ moreOf(a) \in SUBSET Callers
      BY <1>1
    <2>2. IsFiniteSet(moreOf(a))
      BY <2>1, CallersFinite
    <2> HIDE DEF lessOf, moreOf
    <2> QED BY <2>1, <2>2, FS_Subset, FS_CardinalityType
  <1>7. l.live \in Nat /\ \A a \in Agents : l.perAgent[a] \in Nat
    BY LimiterFields
  <1> HIDE DEF lessOf, moreOf
  <1>8. Serve(l, H).live <= Serve(l, G).live
    BY <1>3, <1>4, <1>5, <1>7
  <1>9. \A a \in Agents : Serve(l, H).perAgent[a] <= Serve(l, G).perAgent[a]
    BY <1>3, <1>4, <1>6, <1>7
  <1>10. Serve(l, H).granted \subseteq Serve(l, G).granted
    BY <1>1, <1>3, <1>4
  <1> QED BY <1>2, <1>3, <1>8, <1>9, <1>10

------------------------------------------------------------------------------
\* No waiter is in the queue twice.
Once(l) == \A i, j \in DOMAIN l.waiters : l.waiters[i] = l.waiters[j] => i = j

\* The counts are the places of the set held and the grants.
Charged(l, held) ==
    /\ l.live = Cardinality(held) + Cardinality(l.granted)
    /\ \A a \in Agents :
          l.perAgent[a] = Cardinality({p \in held : Agent(p) = a})
                          + Cardinality({p \in l.granted : Agent(p) = a})

\* Everyone in the queue but those in the set except has a grant or a full cap.
Short(l, except) ==
    \A p \in Callers \ except :
        Queued(l, p) /\ p \notin l.granted => Full(l, Agent(p))

\* The size of a disjoint union.
LEMMA DisjointCard ==
    ASSUME NEW A \in SUBSET Callers, NEW B \in SUBSET Callers, A \cap B = {}
    PROVE  Cardinality(A \cup B) = Cardinality(A) + Cardinality(B)
  <1>1. IsFiniteSet(A) /\ IsFiniteSet(B) /\ Cardinality(A) \in Nat /\ Cardinality(B) \in Nat
    BY CallersFinite
  <1>2. Cardinality(A \cup B) = Cardinality(A) + Cardinality(B) - Cardinality(A \cap B)
    BY <1>1, FS_Union
  <1>3. Cardinality(A \cap B) = 0
    BY FS_EmptySet
  <1> QED BY <1>1, <1>2, <1>3

\* A walk serves nobody who already has a grant.
LEMMA ServedNew ==
    ASSUME NEW l \in Limiter, NEW G \in SUBSET DOMAIN l.waiters, Walk(l, G)
    PROVE  {l.waiters[i] : i \in G} \cap l.granted = {}
  <1> SUFFICES ASSUME NEW i \in G, l.waiters[i] \in l.granted PROVE FALSE
    OBVIOUS
  <1>1. Fits(Serve(l, G \cap 1..(i - 1)), l.waiters[i])
    BY DEF Walk
  <1>2. l.granted \subseteq Serve(l, G \cap 1..(i - 1)).granted
    <2>1. G \cap 1..(i - 1) \in SUBSET DOMAIN l.waiters
      OBVIOUS
    <2> QED BY <2>1, ServeType
  <1> QED BY <1>1, <1>2 DEF Fits

\* grantLocked counts what it grants.
LEMMA GrantCharged ==
    ASSUME NEW l \in Limiter, NEW held \in SUBSET Callers, Charged(l, held)
    PROVE  Charged(Grant(l), held)
  <1>1. PICK G \in SUBSET DOMAIN l.waiters : Walk(l, G) /\ Grant(l) = Serve(l, G)
    BY GrantWalks
  <1> DEFINE served == {l.waiters[i] : i \in G}
             g == Serve(l, G)
  <1>2. /\ served \in SUBSET Callers
        /\ g.live = l.live + Cardinality(served)
        /\ \A a \in Agents : g.perAgent[a] = l.perAgent[a]
              + Cardinality({p \in served : Agent(p) = a})
        /\ g.granted = l.granted \cup served
    BY ServeType
  <1>3. served \cap l.granted = {}
    BY <1>1, ServedNew
  <1> HIDE DEF served, g
  <1>4. l.granted \in SUBSET Callers
    BY LimiterFields
  <1>5. Cardinality(held) \in Nat /\ Cardinality(l.granted) \in Nat
        /\ Cardinality(served) \in Nat
    BY <1>2, <1>4, CallersFinite
  <1>6. Cardinality(g.granted) = Cardinality(l.granted) + Cardinality(served)
    BY <1>2, <1>3, <1>4, DisjointCard
  <1>7. g.live = Cardinality(held) + Cardinality(g.granted)
    BY <1>2, <1>5, <1>6 DEF Charged
  <1>8. ASSUME NEW a \in Agents
        PROVE  g.perAgent[a] = Cardinality({p \in held : Agent(p) = a})
                               + Cardinality({p \in g.granted : Agent(p) = a})
    <2> DEFINE h == {p \in held : Agent(p) = a}
               s == {p \in served : Agent(p) = a}
               o == {p \in l.granted : Agent(p) = a}
    <2>1. h \in SUBSET Callers /\ s \in SUBSET Callers /\ o \in SUBSET Callers
          /\ o \cap s = {} /\ {p \in g.granted : Agent(p) = a} = o \cup s
      BY <1>2, <1>3, <1>4
    <2>2. l.perAgent[a] = Cardinality(h) + Cardinality(o)
      BY DEF Charged
    <2>3. g.perAgent[a] = l.perAgent[a] + Cardinality(s)
      BY <1>2
    <2> HIDE DEF h, s, o
    <2>4. Cardinality(h) \in Nat /\ Cardinality(s) \in Nat /\ Cardinality(o) \in Nat
      BY <2>1, CallersFinite
    <2>5. Cardinality(o \cup s) = Cardinality(o) + Cardinality(s)
      BY <2>1, DisjointCard
    <2>6. g.perAgent[a] = Cardinality(h) + Cardinality(o \cup s)
      BY <2>2, <2>3, <2>4, <2>5
    <2> QED BY <2>1, <2>6 DEF h
  <1> QED BY <1>1, <1>7, <1>8 DEF Charged, g

\* A full cap stays full while the counts do not fall.
LEMMA FullStays ==
    ASSUME NEW l \in Limiter, NEW g \in Limiter, NEW a \in Agents,
           l.live <= g.live, l.perAgent[a] <= g.perAgent[a]
    PROVE  Full(l, a) => Full(g, a)
  <1>1. /\ l.live \in Nat /\ g.live \in Nat /\ l.perAgent[a] \in Nat
        /\ g.perAgent[a] \in Nat /\ AgentCap[a] \in Nat /\ GlobalCap \in Nat
    BY LimiterFields, PlacesAssumption
  <1>2. AgentFull(l, a) => AgentFull(g, a)
    BY <1>1 DEF AgentFull
  <1>3. GlobalFull(l) => GlobalFull(g)
    BY <1>1 DEF GlobalFull
  <1> QED BY <1>2, <1>3 DEF Full

\* Whoever is ahead of the waiter at i stands before it.
LEMMA AheadBefore ==
    ASSUME NEW l \in Limiter, NEW i \in DOMAIN l.waiters,
           NEW j \in Ahead(l, l.waiters[i])
    PROVE  j \in DOMAIN l.waiters /\ j \in 1..(i - 1)
  <1>1. j \in 1..Len(l.waiters) /\ i \in 1..Len(l.waiters) /\ Len(l.waiters) \in Nat
        /\ DOMAIN l.waiters = 1..Len(l.waiters)
    BY LimiterFields DEF Ahead
  <1>2. i \notin 1..j
    BY DEF Ahead
  <1> QED BY <1>1, <1>2

\* Being ahead is a matter of the queue alone.
LEMMA AheadSame ==
    ASSUME NEW l, NEW g, g.waiters = l.waiters
    PROVE  /\ \A p : Ahead(g, p) = Ahead(l, p)
           /\ \A p : Queued(g, p) <=> Queued(l, p)
  BY DEF Ahead, Queued

\* After grantLocked every waiter that was not served is short of a cap: the
\* first one that is not would fit, since whoever is ahead of it is.
LEMMA GrantShort ==
    ASSUME NEW l \in Limiter, Once(l)
    PROVE  Short(Grant(l), {})
  <1>1. PICK G \in SUBSET DOMAIN l.waiters : Walk(l, G) /\ Grant(l) = Serve(l, G)
    BY GrantWalks
  <1> DEFINE g == Serve(l, G)
             w == l.waiters
             Idle == {i \in DOMAIN w : w[i] \notin g.granted /\ ~Full(g, Agent(w[i]))}
  <1>2. /\ g \in Limiter /\ g.waiters = w
        /\ g.granted = l.granted \cup {w[i] : i \in G}
    BY ServeType
  <1>3. /\ DOMAIN w = 1..Len(w) /\ Len(w) \in Nat
        /\ \A i \in DOMAIN w : w[i] \in Callers
    BY LimiterFields
  <1> HIDE DEF g
  <1>4. Idle = {}
    <2> SUFFICES ASSUME Idle # {} PROVE FALSE
      OBVIOUS
    <2>1. PICK i \in Idle : \A j \in Idle : i <= j
      <3>1. Idle \in SUBSET Nat
        BY <1>3
      <3> HIDE DEF Idle
      <3> QED BY <3>1, FirstNat
    <2>2. i \in DOMAIN w /\ w[i] \notin g.granted /\ ~Full(g, Agent(w[i]))
          /\ w[i] \in Callers
      BY <1>3
    <2> DEFINE before == G \cap 1..(i - 1)
               s == Serve(l, before)
    <2>3. /\ s \in Limiter /\ s.waiters = w /\ s.granted \subseteq g.granted
          /\ s.live <= g.live /\ \A a \in Agents : s.perAgent[a] <= g.perAgent[a]
      <3>1. before \in SUBSET G
        OBVIOUS
      <3> QED BY <3>1, WalkBefore DEF g
    <2>4. s.granted = l.granted \cup {w[j] : j \in before}
      <3>1. before \in SUBSET DOMAIN l.waiters
        OBVIOUS
      <3> QED BY <3>1, ServeType
    <2>5. ~Fits(s, w[i])
      <3>1. i \notin G
        BY <2>2, <1>2
      <3> QED BY <3>1, <2>2, <1>1 DEF Walk
    <2> HIDE DEF s
    <2>6. \A a \in Agents : Full(s, a) => Full(g, a)
      BY <2>3, <1>2, FullStays
    <2>7. Agent(w[i]) \in Agents
      BY <2>2, AgentType
    <2>8. BlockedByEarlier(s, w[i])
      BY <2>2, <2>3, <2>5, <2>6, <2>7 DEF Fits
    <2>9. ~GlobalFull(s)
      BY <2>2, <2>6, <2>7 DEF Full
    <2>10. PICK j \in Ahead(s, w[i]) : w[j] \notin s.granted /\ Agent(w[j]) = Agent(w[i])
      BY <2>3, <2>8, <2>9 DEF BlockedByEarlier
    <2>11. j \in Ahead(l, w[i])
      BY <2>3, <2>10, AheadSame
    <2>12. j \in DOMAIN w /\ j \in 1..(i - 1)
      BY <2>2, <2>11, AheadBefore
    <2>13. w[j] \notin g.granted
      <3> SUFFICES ASSUME w[j] \in g.granted PROVE FALSE
        OBVIOUS
      <3>1. PICK m \in G : w[m] = w[j]
        BY <1>2, <2>4, <2>10
      <3>2. m = j
        BY <3>1, <2>12 DEF Once
      <3> QED BY <3>1, <3>2, <2>4, <2>10, <2>12
    <2>14. j \in Idle
      BY <2>2, <2>10, <2>12, <2>13
    <2>15. ~(i <= j)
      BY <1>3, <2>2, <2>12
    <2> QED BY <2>1, <2>14, <2>15
  <1>5. \A p \in Callers : Queued(g, p) => \E i \in DOMAIN w : w[i] = p
    BY <1>2, <1>3 DEF Queued
  <1>6. Short(g, {})
    BY <1>4, <1>5 DEF Short
  <1> QED BY <1>1, <1>6 DEF g

\* grantLocked serves nobody before a waiter of the same capped agent that is
\* ahead of it in the queue.
LEMMA GrantOrder ==
    ASSUME NEW l \in Limiter, NEW p \in Grant(l).granted, p \notin l.granted,
           AgentCap[Agent(p)] > 0,
           NEW j \in Ahead(l, p), Agent(l.waiters[j]) = Agent(p)
    PROVE  l.waiters[j] \in Grant(l).granted
  <1>1. PICK G \in SUBSET DOMAIN l.waiters : Walk(l, G) /\ Grant(l) = Serve(l, G)
    BY GrantWalks
  <1> DEFINE g == Serve(l, G)
             w == l.waiters
  <1>2. g.granted = l.granted \cup {w[i] : i \in G}
    BY ServeType
  <1>3. PICK i \in G : w[i] = p
    BY <1>1, <1>2
  <1> DEFINE s == Serve(l, G \cap 1..(i - 1))
  <1>4. s.granted \subseteq g.granted /\ s.waiters = w
    <2>1. G \cap 1..(i - 1) \in SUBSET G
      OBVIOUS
    <2> QED BY <2>1, WalkBefore
  <1>5. Fits(s, p)
    BY <1>1, <1>3 DEF Walk
  <1> HIDE DEF s, g
  <1>6. j \in Ahead(s, p)
    BY <1>4, AheadSame
  <1>7. w[j] \in s.granted
    BY <1>4, <1>5, <1>6 DEF Fits, BlockedByEarlier
  <1> QED BY <1>1, <1>4, <1>7 DEF g

\* What grantLocked leaves alone.
LEMMA GrantFrame ==
    ASSUME NEW l \in Limiter
    PROVE  /\ Grant(l) \in Limiter
           /\ Grant(l).waiters = l.waiters
           /\ l.granted \subseteq Grant(l).granted
           /\ \A p \in Grant(l).granted \ l.granted : Queued(l, p)
           /\ Once(l) => Once(Grant(l))
  <1>1. PICK G \in SUBSET DOMAIN l.waiters : Walk(l, G) /\ Grant(l) = Serve(l, G)
    BY GrantWalks
  <1>2. /\ Serve(l, G) \in Limiter /\ Serve(l, G).waiters = l.waiters
        /\ Serve(l, G).granted = l.granted \cup {l.waiters[i] : i \in G}
    BY ServeType
  <1>3. \A p \in Grant(l).granted \ l.granted : Queued(l, p)
    BY <1>1, <1>2, LimiterFields DEF Queued
  <1> QED BY <1>1, <1>2, <1>3 DEF Once

------------------------------------------------------------------------------
\* The callers of S that belong to agent a.
Of(S, a) == {p \in S : Agent(p) = a}

\* One more caller counts once, for its agent only.
LEMMA CountMore ==
    ASSUME NEW S \in SUBSET Callers, NEW p \in Callers, p \notin S
    PROVE  /\ Cardinality(S) \in Nat /\ Cardinality(S \cup {p}) = Cardinality(S) + 1
           /\ \A a \in Agents :
                 /\ Cardinality(Of(S, a)) \in Nat
                 /\ Cardinality(Of(S \cup {p}, a)) =
                       IF a = Agent(p) THEN Cardinality(Of(S, a)) + 1
                                       ELSE Cardinality(Of(S, a))
  <1>1. Cardinality(S) \in Nat /\ Cardinality(S \cup {p}) = Cardinality(S) + 1
    BY CallersFinite, FS_AddElement
  <1>2. ASSUME NEW a \in Agents
        PROVE  /\ Cardinality(Of(S, a)) \in Nat
               /\ Cardinality(Of(S \cup {p}, a)) =
                     IF a = Agent(p) THEN Cardinality(Of(S, a)) + 1
                                     ELSE Cardinality(Of(S, a))
    <2>1. Of(S, a) \in SUBSET Callers /\ p \notin Of(S, a)
          /\ Of(S \cup {p}, a) = IF a = Agent(p) THEN Of(S, a) \cup {p} ELSE Of(S, a)
      BY DEF Of
    <2>2. IsFiniteSet(Of(S, a)) /\ Cardinality(Of(S, a)) \in Nat
      BY <2>1, CallersFinite
    <2>3. Cardinality(Of(S, a) \cup {p}) = Cardinality(Of(S, a)) + 1
      BY <2>1, <2>2, FS_AddElement
    <2> QED BY <2>1, <2>2, <2>3
  <1> QED BY <1>1, <1>2

\* One caller fewer.
LEMMA CountLess ==
    ASSUME NEW S \in SUBSET Callers, NEW p \in S
    PROVE  /\ S \ {p} \in SUBSET Callers
           /\ Cardinality(S \ {p}) \in Nat /\ Cardinality(S) = Cardinality(S \ {p}) + 1
           /\ \A a \in Agents :
                 /\ Cardinality(Of(S \ {p}, a)) \in Nat
                 /\ Cardinality(Of(S, a)) =
                       IF a = Agent(p) THEN Cardinality(Of(S \ {p}, a)) + 1
                                       ELSE Cardinality(Of(S \ {p}, a))
  <1>1. S \ {p} \in SUBSET Callers /\ p \notin S \ {p} /\ (S \ {p}) \cup {p} = S
        /\ p \in Callers
    OBVIOUS
  <1> DEFINE R == S \ {p}
  <1> HIDE DEF R
  <1>2. /\ Cardinality(R) \in Nat /\ Cardinality(R \cup {p}) = Cardinality(R) + 1
        /\ \A a \in Agents :
              /\ Cardinality(Of(R, a)) \in Nat
              /\ Cardinality(Of(R \cup {p}, a)) =
                    IF a = Agent(p) THEN Cardinality(Of(R, a)) + 1
                                    ELSE Cardinality(Of(R, a))
    BY <1>1, CountMore DEF R
  <1> QED BY <1>1, <1>2 DEF R

\* Charged, in these terms.
LEMMA ChargedOf ==
    ASSUME NEW l, NEW held
    PROVE  Charged(l, held) <=>
              /\ l.live = Cardinality(held) + Cardinality(l.granted)
              /\ \A a \in Agents : l.perAgent[a] =
                    Cardinality(Of(held, a)) + Cardinality(Of(l.granted, a))
  BY DEF Charged, Of

\* The limiter that reserveLocked and its undoing leave.
LEMMA ReserveIs ==
    ASSUME NEW l \in Limiter, NEW a \in Agents
    PROVE  /\ Reserve(l, a) \in Limiter
           /\ Reserve(l, a).live = l.live + 1
           /\ Reserve(l, a).perAgent = [l.perAgent EXCEPT ![a] = @ + 1]
           /\ Reserve(l, a).waiters = l.waiters
           /\ Reserve(l, a).granted = l.granted
  <1> DEFINE x == l.live + 1
             y == [l.perAgent EXCEPT ![a] = l.perAgent[a] + 1]
  <1>1. Reserve(l, a) = [l EXCEPT !.live = x, !.perAgent = y]
    BY DEF Limiter, Reserve
  <1>2. x \in Nat /\ y \in [Agents -> Nat]
    BY LimiterFields
  <1> HIDE DEF x, y
  <1>3. [l EXCEPT !.live = x, !.perAgent = y] \in Limiter
    BY <1>2 DEF Limiter
  <1>4. /\ Reserve(l, a).live = x /\ Reserve(l, a).perAgent = y
        /\ Reserve(l, a).waiters = l.waiters /\ Reserve(l, a).granted = l.granted
    BY <1>1 DEF Limiter
  <1> QED BY <1>1, <1>3, <1>4 DEF x, y

LEMMA UnreserveIs ==
    ASSUME NEW l \in Limiter, NEW a \in Agents, l.live > 0, l.perAgent[a] > 0
    PROVE  /\ Unreserve(l, a) \in Limiter
           /\ Unreserve(l, a).live = l.live - 1
           /\ Unreserve(l, a).perAgent = [l.perAgent EXCEPT ![a] = @ - 1]
           /\ Unreserve(l, a).waiters = l.waiters
           /\ Unreserve(l, a).granted = l.granted
  <1> DEFINE x == l.live - 1
             y == [l.perAgent EXCEPT ![a] = l.perAgent[a] - 1]
  <1>1. Unreserve(l, a) = [l EXCEPT !.live = x, !.perAgent = y]
    BY DEF Limiter, Unreserve
  <1>2. x \in Nat /\ l.perAgent[a] - 1 \in Nat
    BY LimiterFields
  <1>3. y \in [Agents -> Nat]
    BY <1>2, LimiterFields
  <1> HIDE DEF x, y
  <1>4. [l EXCEPT !.live = x, !.perAgent = y] \in Limiter
    BY <1>2, <1>3 DEF Limiter
  <1>5. /\ Unreserve(l, a).live = x /\ Unreserve(l, a).perAgent = y
        /\ Unreserve(l, a).waiters = l.waiters /\ Unreserve(l, a).granted = l.granted
    BY <1>1 DEF Limiter
  <1> QED BY <1>1, <1>4, <1>5 DEF x, y

\* A caller that takes a place at its own hand.
LEMMA ReserveCharged ==
    ASSUME NEW l \in Limiter, NEW held \in SUBSET Callers, Charged(l, held),
           NEW p \in Callers, p \notin held
    PROVE  Charged(Reserve(l, Agent(p)), held \cup {p})
  <1> DEFINE r == Reserve(l, Agent(p))
  <1>1. Agent(p) \in Agents
    BY AgentType
  <1>2. r.live = l.live + 1 /\ r.granted = l.granted
        /\ r.perAgent = [l.perAgent EXCEPT ![Agent(p)] = @ + 1]
    BY <1>1, ReserveIs
  <1> HIDE DEF r
  <1>3. l.granted \in SUBSET Callers /\ l.perAgent \in [Agents -> Nat]
    BY LimiterFields
  <1>4. Cardinality(l.granted) \in Nat
        /\ \A a \in Agents : Cardinality(Of(l.granted, a)) \in Nat
    <2>1. \A a \in Agents : Of(l.granted, a) \in SUBSET Callers
      BY <1>3 DEF Of
    <2> QED BY <2>1, <1>3, CallersFinite
  <1>5. r.live = Cardinality(held \cup {p}) + Cardinality(r.granted)
    <2>1. l.live = Cardinality(held) + Cardinality(l.granted)
      BY ChargedOf
    <2>2. Cardinality(held) \in Nat /\ Cardinality(held \cup {p}) = Cardinality(held) + 1
      BY CountMore
    <2> QED BY <1>2, <1>4, <2>1, <2>2
  <1>6. ASSUME NEW a \in Agents
        PROVE  r.perAgent[a] = Cardinality(Of(held \cup {p}, a)) + Cardinality(Of(r.granted, a))
    <2>1. /\ l.perAgent[a] = Cardinality(Of(held, a)) + Cardinality(Of(l.granted, a))
          /\ Cardinality(Of(l.granted, a)) \in Nat
      BY <1>4, ChargedOf
    <2>2. r.perAgent[a] = IF a = Agent(p) THEN l.perAgent[a] + 1 ELSE l.perAgent[a]
      BY <1>2, <1>3
    <2>3. /\ Cardinality(Of(held, a)) \in Nat
          /\ Cardinality(Of(held \cup {p}, a)) =
                IF a = Agent(p) THEN Cardinality(Of(held, a)) + 1
                                ELSE Cardinality(Of(held, a))
      BY CountMore
    <2> QED BY <1>2, <2>1, <2>2, <2>3
  <1>7. Charged(r, held \cup {p})
    BY <1>5, <1>6, ChargedOf
  <1> QED BY <1>7 DEF r

\* A grant that its waiter picks up becomes a place.
LEMMA HandOutCharged ==
    ASSUME NEW l \in Limiter, NEW held \in SUBSET Callers, Charged(l, held),
           NEW p \in l.granted, p \notin held
    PROVE  /\ [l EXCEPT !.granted = @ \ {p}] \in Limiter
           /\ Charged([l EXCEPT !.granted = @ \ {p}], held \cup {p})
  <1> DEFINE r == [l EXCEPT !.granted = @ \ {p}]
  <1>1. l.granted \in SUBSET Callers /\ p \in Callers
    BY LimiterFields
  <1>2. r \in Limiter
    BY DEF Limiter
  <1>3. r.live = l.live /\ r.perAgent = l.perAgent /\ r.granted = l.granted \ {p}
    BY DEF Limiter
  <1> HIDE DEF r
  <1>4. r.live = Cardinality(held \cup {p}) + Cardinality(r.granted)
    <2>1. l.live = Cardinality(held) + Cardinality(l.granted)
      BY ChargedOf
    <2>2. Cardinality(held) \in Nat /\ Cardinality(held \cup {p}) = Cardinality(held) + 1
      BY <1>1, CountMore
    <2>3. /\ Cardinality(l.granted \ {p}) \in Nat
          /\ Cardinality(l.granted) = Cardinality(l.granted \ {p}) + 1
      BY <1>1, CountLess
    <2> QED BY <1>3, <2>1, <2>2, <2>3
  <1>5. ASSUME NEW a \in Agents
        PROVE  r.perAgent[a] = Cardinality(Of(held \cup {p}, a)) + Cardinality(Of(r.granted, a))
    <2>1. l.perAgent[a] = Cardinality(Of(held, a)) + Cardinality(Of(l.granted, a))
      BY ChargedOf
    <2>2. /\ Cardinality(Of(l.granted \ {p}, a)) \in Nat
          /\ Cardinality(Of(l.granted, a)) =
                IF a = Agent(p) THEN Cardinality(Of(l.granted \ {p}, a)) + 1
                                ELSE Cardinality(Of(l.granted \ {p}, a))
      BY <1>1, CountLess, ZenonT(60)
    <2>3. /\ Cardinality(Of(held, a)) \in Nat
          /\ Cardinality(Of(held \cup {p}, a)) =
                IF a = Agent(p) THEN Cardinality(Of(held, a)) + 1
                                ELSE Cardinality(Of(held, a))
      BY <1>1, CountMore
    <2> QED BY <1>3, <2>1, <2>2, <2>3
  <1>6. Charged(r, held \cup {p})
    BY <1>4, <1>5, ChargedOf
  <1> QED BY <1>2, <1>6 DEF r

\* A held place that is given up.
LEMMA UnreserveCharged ==
    ASSUME NEW l \in Limiter, NEW held \in SUBSET Callers, Charged(l, held),
           NEW p \in held
    PROVE  /\ Unreserve(l, Agent(p)) \in Limiter
           /\ Unreserve(l, Agent(p)).waiters = l.waiters
           /\ Unreserve(l, Agent(p)).granted = l.granted
           /\ Charged(Unreserve(l, Agent(p)), held \ {p})
  <1> DEFINE r == Unreserve(l, Agent(p))
  <1>1. Agent(p) \in Agents
    BY AgentType
  <1>2. l.granted \in SUBSET Callers /\ l.perAgent \in [Agents -> Nat] /\ l.live \in Nat
    BY LimiterFields
  <1>3. Cardinality(l.granted) \in Nat
        /\ \A a \in Agents : Cardinality(Of(l.granted, a)) \in Nat
    <2>1. \A a \in Agents : Of(l.granted, a) \in SUBSET Callers
      BY <1>2 DEF Of
    <2> QED BY <2>1, <1>2, CallersFinite
  <1>4. l.live = Cardinality(held \ {p}) + Cardinality(l.granted) + 1
        /\ Cardinality(held \ {p}) \in Nat
    <2>1. l.live = Cardinality(held) + Cardinality(l.granted)
      BY ChargedOf
    <2>2. Cardinality(held \ {p}) \in Nat /\ Cardinality(held) = Cardinality(held \ {p}) + 1
      BY CountLess
    <2> QED BY <1>3, <2>1, <2>2
  <1>5. ASSUME NEW a \in Agents
        PROVE  /\ Cardinality(Of(held \ {p}, a)) \in Nat
               /\ l.perAgent[a] =
                     IF a = Agent(p)
                     THEN Cardinality(Of(held \ {p}, a)) + Cardinality(Of(l.granted, a)) + 1
                     ELSE Cardinality(Of(held \ {p}, a)) + Cardinality(Of(l.granted, a))
    <2>1. l.perAgent[a] = Cardinality(Of(held, a)) + Cardinality(Of(l.granted, a))
      BY ChargedOf
    <2>2. Cardinality(Of(l.granted, a)) \in Nat
      BY <1>3
    <2>3. /\ Cardinality(Of(held \ {p}, a)) \in Nat
          /\ Cardinality(Of(held, a)) =
                IF a = Agent(p) THEN Cardinality(Of(held \ {p}, a)) + 1
                                ELSE Cardinality(Of(held \ {p}, a))
      BY CountLess
    <2> QED BY <2>1, <2>2, <2>3
  <1>6. l.live > 0 /\ l.perAgent[Agent(p)] > 0
    <2>1. l.live > 0
      BY <1>3, <1>4
    <2>2. l.perAgent[Agent(p)] = Cardinality(Of(held \ {p}, Agent(p)))
                                 + Cardinality(Of(l.granted, Agent(p))) + 1
      BY <1>1, <1>5
    <2>3. Cardinality(Of(held \ {p}, Agent(p))) \in Nat
          /\ Cardinality(Of(l.granted, Agent(p))) \in Nat
      BY <1>1, <1>3, <1>5
    <2> QED BY <2>1, <2>2, <2>3
  <1>7. /\ r \in Limiter /\ r.live = l.live - 1
        /\ r.perAgent = [l.perAgent EXCEPT ![Agent(p)] = @ - 1]
        /\ r.waiters = l.waiters /\ r.granted = l.granted
    BY <1>1, <1>6, UnreserveIs
  <1> HIDE DEF r
  <1>8. r.live = Cardinality(held \ {p}) + Cardinality(r.granted)
    BY <1>3, <1>4, <1>7
  <1>9. ASSUME NEW a \in Agents
        PROVE  r.perAgent[a] = Cardinality(Of(held \ {p}, a)) + Cardinality(Of(r.granted, a))
    <2>1. r.perAgent[a] = IF a = Agent(p) THEN l.perAgent[a] - 1 ELSE l.perAgent[a]
      BY <1>2, <1>7
    <2>2. Cardinality(Of(l.granted, a)) \in Nat
      BY <1>3
    <2> QED BY <1>5, <1>7, <2>1, <2>2
  <1>10. Charged(r, held \ {p})
    BY <1>8, <1>9, ChargedOf
  <1> QED BY <1>7, <1>10 DEF r

------------------------------------------------------------------------------
\* What holds of the limiter between two critical sections, the places of held
\* being taken.
Sound(l, held) ==
    /\ l \in Limiter
    /\ Once(l)
    /\ \A p \in l.granted : Queued(l, p)
    /\ Charged(l, held)

\* From l to g nobody is granted a place before a waiter of its own capped agent
\* that is ahead of it, unless that one left.
InTurn(l, g, left) ==
    \A q \in g.granted \ l.granted : \A j \in Ahead(l, q) :
        /\ AgentCap[Agent(q)] > 0 /\ Agent(l.waiters[j]) = Agent(q)
        /\ l.waiters[j] \notin left
        => l.waiters[j] \in g.granted

\* The queue without the element at position d.
LEMMA QueueWithout ==
    ASSUME NEW w \in Seq(Callers), NEW d \in 1..Len(w)
    PROVE  /\ RemoveAt(w, d) \in Seq(Callers)
           /\ Len(RemoveAt(w, d)) = Len(w) - 1
           /\ \A i \in 1..(Len(w) - 1) :
                 RemoveAt(w, d)[i] = IF i < d THEN w[i] ELSE w[i + 1]
  <1> DEFINE a == SubSeq(w, 1, d - 1)
             b == SubSeq(w, d + 1, Len(w))
  <1>1. Len(w) \in Nat /\ d \in Nat /\ 1 <= d /\ d <= Len(w)
    OBVIOUS
  <1>2. a \in Seq(Callers) /\ Len(a) = d - 1 /\ \A i \in 1..(d - 1) : a[i] = w[i]
    BY <1>1
  <1>3. b \in Seq(Callers) /\ Len(b) = Len(w) - d
        /\ \A i \in 1..(Len(w) - d) : b[i] = w[i + d]
    BY <1>1
  <1>4. RemoveAt(w, d) = a \o b
    BY DEF RemoveAt
  <1> HIDE DEF a, b
  <1>5. a \o b \in Seq(Callers) /\ Len(a \o b) = Len(w) - 1
    <2>0. a \in Seq(Callers) /\ b \in Seq(Callers)
      BY <1>2, <1>3
    <2>1. a \o b \in Seq(Callers)
      BY <2>0
    <2>2. Len(a \o b) = Len(a) + Len(b)
      BY <2>0, ConcatProperties
    <2>3. Len(a) + Len(b) = Len(w) - 1
      BY <1>1, <1>2, <1>3
    <2> QED BY <2>1, <2>2, <2>3
  <1>6. ASSUME NEW i \in 1..(Len(w) - 1)
        PROVE  (a \o b)[i] = IF i < d THEN w[i] ELSE w[i + 1]
    <2>1. CASE i < d
      <3>1. i \in 1..(d - 1) /\ i \in 1..Len(a)
        BY <2>1, <1>1, <1>2
      <3> QED BY <3>1, <2>1, <1>2, <1>3
    <2>2. CASE ~(i < d)
      <3>1. i - (d - 1) \in 1..(Len(w) - d) /\ i \notin 1..Len(a) /\ i \in Nat
            /\ (i - (d - 1)) + d = i + 1 /\ i \in 1..(Len(a) + Len(b))
        BY <2>2, <1>1, <1>2, <1>3
      <3>2. (a \o b)[i] = b[i - (d - 1)]
        BY <3>1, <1>2, <1>3
      <3>3. b[i - (d - 1)] = w[i + 1]
        BY <3>1, <1>3
      <3> QED BY <2>2, <3>2, <3>3
    <2> QED BY <2>1, <2>2
  <1> QED BY <1>4, <1>5, <1>6

\* removeWaiterLocked: p is gone, everyone else keeps its turn.
LEMMA RemoveIs ==
    ASSUME NEW l \in Limiter, Once(l), NEW p \in Callers, Queued(l, p)
    PROVE  /\ RemoveWaiter(l, p) \in Limiter
           /\ RemoveWaiter(l, p).live = l.live
           /\ RemoveWaiter(l, p).perAgent = l.perAgent
           /\ RemoveWaiter(l, p).granted = l.granted \ {p}
           /\ Once(RemoveWaiter(l, p))
           /\ \A q \in Callers :
                 Queued(RemoveWaiter(l, p), q) <=> Queued(l, q) /\ q # p
           /\ \A q \in Callers : \A j \in Ahead(l, q) : l.waiters[j] # p =>
                 \E i \in Ahead(RemoveWaiter(l, p), q) :
                    RemoveWaiter(l, p).waiters[i] = l.waiters[j]
  <1> DEFINE w == l.waiters
             n == Len(w)
             r == RemoveWaiter(l, p)
  <1>1. w \in Seq(Callers) /\ n \in Nat /\ DOMAIN w = 1..n
        /\ \A i \in 1..n : w[i] \in Callers
    BY LimiterFields
  <1>2. PICK d \in 1..n : w[d] = p
    BY DEF Queued
  <1>3. \A i \in 1..n : w[i] = p => i = d
    BY <1>1, <1>2 DEF Once
  <1>4. \A j \in 1..(d - 1) : j \in 1..n /\ j # d
    BY <1>1, <1>2
  <1>5. (CHOOSE i \in DOMAIN w : w[i] = p /\ \A j \in 1..(i - 1) : w[j] # p) = d
    <2>1. w[d] = p /\ \A j \in 1..(d - 1) : w[j] # p
      BY <1>2, <1>3, <1>4
    <2>2. \A i \in DOMAIN w : w[i] = p => i = d
      BY <1>1, <1>3
    <2> QED BY <2>1, <2>2, <1>1
  <1> DEFINE v == RemoveAt(w, d)
  <1>6. r = [l EXCEPT !.waiters = v, !.granted = l.granted \ {p}]
    <2>1. r = [l EXCEPT !.waiters = RemoveAt(l.waiters, CHOOSE i \in DOMAIN l.waiters :
                           l.waiters[i] = p /\ \A j \in 1..(i - 1) : l.waiters[j] # p),
                        !.granted = l.granted \ {p}]
      BY Zenon DEF RemoveWaiter, Limiter
    <2> QED BY <1>5, <2>1
  <1>7. /\ v \in Seq(Callers) /\ Len(v) = n - 1
        /\ \A i \in 1..(n - 1) : v[i] = IF i < d THEN w[i] ELSE w[i + 1]
    BY <1>1, <1>2, QueueWithout
  <1>8. l.granted \ {p} \in SUBSET Callers
    BY LimiterFields
  <1> HIDE DEF v, r
  <1>9. r \in Limiter
    BY <1>6, <1>7, <1>8 DEF Limiter
  <1>10. /\ r.live = l.live /\ r.perAgent = l.perAgent /\ r.waiters = v
         /\ r.granted = l.granted \ {p}
    BY <1>6 DEF Limiter
  <1>11. DOMAIN v = 1..(n - 1)
    BY <1>1, <1>7
  \* Where the elements are, in the old queue and in the new one.
  <1>12. ASSUME NEW i \in 1..(n - 1)
         PROVE  \E m \in 1..n : m # d /\ v[i] = w[m] /\ m = IF i < d THEN i ELSE i + 1
    <2>1. CASE i < d
      <3>1. i \in 1..n /\ i # d
        BY <2>1, <1>1
      <3> QED BY <3>1, <2>1, <1>7
    <2>2. CASE ~(i < d)
      <3>1. i + 1 \in 1..n /\ i + 1 # d
        BY <2>2, <1>1, <1>2
      <3> QED BY <3>1, <2>2, <1>7
    <2> QED BY <2>1, <2>2
  <1>13. ASSUME NEW m \in 1..n, m # d
         PROVE  \E i \in 1..(n - 1) : v[i] = w[m] /\ i = IF m < d THEN m ELSE m - 1
    <2>1. CASE m < d
      <3>1. m \in 1..(n - 1)
        BY <2>1, <1>1, <1>2
      <3> QED BY <3>1, <2>1, <1>7
    <2>2. CASE ~(m < d)
      <3>1. m - 1 \in 1..(n - 1) /\ ~(m - 1 < d) /\ (m - 1) + 1 = m
        BY <2>2, <1>1, <1>2, <1>13
      <3> QED BY <3>1, <2>2, <1>7
    <2> QED BY <2>1, <2>2
  <1>14. Once(r)
    <2> SUFFICES ASSUME NEW i \in 1..(n - 1), NEW j \in 1..(n - 1), v[i] = v[j]
                 PROVE  i = j
      BY <1>10, <1>11 DEF Once
    <2>1. PICK x \in 1..n : v[i] = w[x] /\ x = IF i < d THEN i ELSE i + 1
      BY <1>12
    <2>2. PICK y \in 1..n : v[j] = w[y] /\ y = IF j < d THEN j ELSE j + 1
      BY <1>12
    <2>3. x = y
      BY <2>1, <2>2, <1>1 DEF Once
    <2> QED BY <2>1, <2>2, <2>3, <1>2
  <1>15. ASSUME NEW q \in Callers
         PROVE  Queued(r, q) <=> Queued(l, q) /\ q # p
    <2>1. ASSUME Queued(r, q) PROVE Queued(l, q) /\ q # p
      <3>1. PICK i \in 1..(n - 1) : v[i] = q
        BY <2>1, <1>7, <1>10 DEF Queued
      <3>2. PICK m \in 1..n : m # d /\ v[i] = w[m]
        BY <1>12
      <3> QED BY <3>1, <3>2, <1>3 DEF Queued
    <2>2. ASSUME Queued(l, q), q # p PROVE Queued(r, q)
      <3>1. PICK m \in 1..n : w[m] = q
        BY <2>2 DEF Queued
      <3>2. PICK i \in 1..(n - 1) : v[i] = w[m]
        BY <3>1, <2>2, <1>2, <1>13
      <3> QED BY <3>1, <3>2, <1>7, <1>10 DEF Queued
    <2> QED BY <2>1, <2>2
  <1>16. ASSUME NEW q \in Callers, NEW j \in Ahead(l, q), w[j] # p
         PROVE  \E i \in Ahead(r, q) : v[i] = w[j]
    <2>1. j \in 1..n /\ j # d /\ \A m \in 1..j : w[m] # q
      BY <1>2, <1>16 DEF Ahead
    <2>2. PICK i \in 1..(n - 1) : v[i] = w[j] /\ i = IF j < d THEN j ELSE j - 1
      BY <2>1, <1>13
    <2>3. ASSUME NEW m \in 1..i PROVE v[m] # q
      <3>1. m \in 1..(n - 1)
        BY <2>2, <1>1
      <3>2. PICK x \in 1..n : v[m] = w[x] /\ x = IF m < d THEN m ELSE m + 1
        BY <3>1, <1>12
      <3>3. x \in 1..j
        BY <3>2, <2>2, <2>1, <1>2
      <3> QED BY <3>2, <3>3, <2>1
    <2>4. i \in Ahead(r, q)
      BY <2>2, <2>3, <1>7, <1>10 DEF Ahead
    <2> QED BY <2>2, <2>4
  <1> QED BY <1>9, <1>10, <1>14, <1>15, <1>16 DEF r

\* grantLocked on a limiter whose counts are right.
LEMMA GrantSound ==
    ASSUME NEW l, NEW held \in SUBSET Callers, Sound(l, held)
    PROVE  /\ Sound(Grant(l), held)
           /\ Short(Grant(l), {})
           /\ InTurn(l, Grant(l), {})
           /\ Grant(l).waiters = l.waiters
           /\ l.granted \subseteq Grant(l).granted
           /\ \A p \in Callers : Queued(Grant(l), p) <=> Queued(l, p)
  <1> DEFINE g == Grant(l)
  <1>0. l \in Limiter /\ Once(l) /\ Charged(l, held) /\ \A p \in l.granted : Queued(l, p)
    BY DEF Sound
  <1>1. /\ g \in Limiter /\ g.waiters = l.waiters /\ l.granted \subseteq g.granted
        /\ \A p \in g.granted \ l.granted : Queued(l, p)
        /\ Once(g)
    BY <1>0, GrantFrame
  <1>2. Charged(g, held) /\ Short(g, {})
    BY <1>0, GrantCharged, GrantShort
  <1>3. InTurn(l, g, {})
    BY <1>0, GrantOrder DEF InTurn
  <1> HIDE DEF g
  <1>4. \A p : Queued(g, p) <=> Queued(l, p)
    BY <1>1, AheadSame
  <1>5. Sound(g, held)
    BY <1>0, <1>1, <1>2, <1>4 DEF Sound
  <1> QED BY <1>1, <1>2, <1>3, <1>4, <1>5 DEF g

\* release: the place of p is offered to the queue.
LEMMA FreeSound ==
    ASSUME NEW l, NEW held \in SUBSET Callers, Sound(l, held), NEW p \in held
    PROVE  /\ Sound(Free(l, Agent(p)), held \ {p})
           /\ Short(Free(l, Agent(p)), {})
           /\ InTurn(l, Free(l, Agent(p)), {})
           /\ Free(l, Agent(p)).waiters = l.waiters
           /\ l.granted \subseteq Free(l, Agent(p)).granted
           /\ \A q \in Callers : Queued(Free(l, Agent(p)), q) <=> Queued(l, q)
  <1> DEFINE u == Unreserve(l, Agent(p))
             rest == held \ {p}
  <1>0. l \in Limiter /\ Once(l) /\ Charged(l, held) /\ \A q \in l.granted : Queued(l, q)
    BY DEF Sound
  <1>1. u \in Limiter /\ u.waiters = l.waiters /\ u.granted = l.granted /\ Charged(u, rest)
    BY <1>0, UnreserveCharged
  <1>2. Free(l, Agent(p)) = Grant(u)
    BY DEF Free
  <1>3. rest \in SUBSET Callers
    OBVIOUS
  <1> HIDE DEF u, rest
  <1>4. (\A q : Queued(u, q) <=> Queued(l, q)) /\ (\A q : Ahead(u, q) = Ahead(l, q))
    BY <1>1, AheadSame
  <1>5. Sound(u, rest)
    BY <1>0, <1>1, <1>4 DEF Sound, Once
  <1>6. /\ Sound(Grant(u), rest) /\ Short(Grant(u), {}) /\ InTurn(u, Grant(u), {})
        /\ Grant(u).waiters = u.waiters /\ u.granted \subseteq Grant(u).granted
        /\ \A q \in Callers : Queued(Grant(u), q) <=> Queued(u, q)
    BY <1>3, <1>5, GrantSound
  <1>7. InTurn(l, Grant(u), {})
    BY <1>1, <1>4, <1>6 DEF InTurn
  <1> QED BY <1>1, <1>2, <1>4, <1>6, <1>7 DEF rest

\* A new waiter goes to the end of the queue.
LEMMA JoinSound ==
    ASSUME NEW l, NEW held \in SUBSET Callers, Sound(l, held),
           NEW p \in Callers, ~Queued(l, p)
    PROVE  /\ Sound(JoinQueue(l, p), held)
           /\ Short(JoinQueue(l, p), {})
           /\ InTurn(l, JoinQueue(l, p), {})
           /\ l.granted \subseteq JoinQueue(l, p).granted
           /\ \A q \in Callers : Queued(JoinQueue(l, p), q) <=> Queued(l, q) \/ q = p
  <1> DEFINE w == l.waiters
             n == Len(w)
             v == Append(w, p)
             u == [l EXCEPT !.waiters = v]
  <1>0. l \in Limiter /\ Once(l) /\ Charged(l, held) /\ \A q \in l.granted : Queued(l, q)
    BY DEF Sound
  <1>1. w \in Seq(Callers) /\ n \in Nat /\ DOMAIN w = 1..n
    BY <1>0, LimiterFields
  <1>2. /\ v \in Seq(Callers) /\ Len(v) = n + 1 /\ DOMAIN v = 1..(n + 1)
        /\ v[n + 1] = p /\ \A i \in 1..n : v[i] = w[i]
    BY <1>1
  <1>3. JoinQueue(l, p) = Grant(u)
    BY DEF JoinQueue
  <1> HIDE DEF v
  <1>4. u \in Limiter
    BY <1>0, <1>2 DEF Limiter
  <1>5. u.live = l.live /\ u.perAgent = l.perAgent /\ u.granted = l.granted /\ u.waiters = v
    BY <1>0 DEF Limiter
  <1> HIDE DEF u
  <1>6. \A i \in 1..n : w[i] # p
    BY DEF Queued
  <1>7. \A i \in 1..(n + 1) : i = n + 1 \/ i \in 1..n
    BY <1>1
  <1>8. Once(u)
    <2>1. \A i, j \in 1..n : w[i] = w[j] => i = j
      BY <1>0, <1>1 DEF Once
    <2>2. \A i, j \in 1..(n + 1) : v[i] = v[j] => i = j
      BY <1>2, <1>6, <1>7, <2>1
    <2> QED BY <1>2, <1>5, <2>2 DEF Once
  <1>9. \A q \in Callers : Queued(u, q) <=> Queued(l, q) \/ q = p
    <2>1. \A i \in 1..n : i \in 1..(n + 1)
      BY <1>1
    <2>2. n + 1 \in 1..(n + 1)
      BY <1>1
    <2> QED BY <1>2, <1>5, <1>7, <2>1, <2>2 DEF Queued
  <1>10. Charged(u, held)
    BY <1>0, <1>5 DEF Charged
  <1>11. l.granted \subseteq Callers
    BY <1>0, LimiterFields
  <1>12. Sound(u, held)
    BY <1>0, <1>4, <1>5, <1>8, <1>9, <1>10, <1>11 DEF Sound
  <1>13. /\ Sound(Grant(u), held) /\ Short(Grant(u), {}) /\ InTurn(u, Grant(u), {})
         /\ u.granted \subseteq Grant(u).granted
         /\ \A q \in Callers : Queued(Grant(u), q) <=> Queued(u, q)
    BY <1>12, GrantSound
  <1>14. ASSUME NEW q, NEW j \in Ahead(l, q) PROVE j \in Ahead(u, q) /\ u.waiters[j] = w[j]
    <2>1. j \in 1..n /\ \A i \in 1..j : w[i] # q
      BY DEF Ahead
    <2>2. j \in 1..(n + 1) /\ \A i \in 1..j : i \in 1..n
      BY <2>1, <1>1
    <2> QED BY <2>1, <2>2, <1>2, <1>5 DEF Ahead
  <1>15. InTurn(l, Grant(u), {})
    BY <1>5, <1>13, <1>14 DEF InTurn
  <1> QED BY <1>3, <1>5, <1>9, <1>13, <1>15

\* acquire's deferred function: p leaves the queue, and a grant it did not pick
\* up goes to the others.
LEMMA LeaveSound ==
    ASSUME NEW l, NEW held \in SUBSET Callers, Sound(l, held),
           NEW p \in Callers, Queued(l, p), NEW except, Short(l, except)
    PROVE  /\ Sound(LeaveQueue(l, p), held)
           /\ Short(LeaveQueue(l, p), except)
           /\ InTurn(l, LeaveQueue(l, p), {p})
           /\ l.granted \ {p} \subseteq LeaveQueue(l, p).granted
           /\ \A q \in Callers : Queued(LeaveQueue(l, p), q) <=> Queued(l, q) /\ q # p
  <1> DEFINE r == RemoveWaiter(l, p)
             u == Unreserve(r, Agent(p))
             g == LeaveQueue(l, p)
  <1>0. l \in Limiter /\ Once(l) /\ Charged(l, held) /\ \A q \in l.granted : Queued(l, q)
    BY DEF Sound
  <1>1. /\ r \in Limiter /\ r.live = l.live /\ r.perAgent = l.perAgent
        /\ r.granted = l.granted \ {p} /\ Once(r)
        /\ \A q \in Callers : Queued(r, q) <=> Queued(l, q) /\ q # p
        /\ \A q \in Callers : \A j \in Ahead(l, q) : l.waiters[j] # p =>
              \E i \in Ahead(r, q) : r.waiters[i] = l.waiters[j]
    BY <1>0, RemoveIs
  <1>2. l.granted \subseteq Callers
    BY <1>0, LimiterFields
  <1> HIDE DEF r
  <1>3. \A q \in r.granted : Queued(r, q)
    BY <1>0, <1>1, <1>2
  <1>4. CASE p \notin l.granted
    <2>1. g = r
      BY <1>4 DEF LeaveQueue, r
    <2>2. r.granted = l.granted
      BY <1>1, <1>4
    <2>3. Charged(r, held)
      BY <1>0, <1>1, <2>2 DEF Charged
    <2>4. Sound(r, held)
      BY <1>1, <1>3, <2>3 DEF Sound
    <2>5. Short(r, except)
      BY <1>1, <2>2 DEF Short, Full, AgentFull, GlobalFull
    <2>6. InTurn(l, r, {p})
      BY <2>2 DEF InTurn
    <2> HIDE DEF g
    <2>7. /\ Sound(g, held) /\ Short(g, except) /\ InTurn(l, g, {p})
          /\ l.granted \ {p} \subseteq g.granted
          /\ \A q \in Callers : Queued(g, q) <=> Queued(l, q) /\ q # p
      BY <1>1, <2>1, <2>2, <2>4, <2>5, <2>6
    <2> QED BY <2>7 DEF g
  <1>5. CASE p \in l.granted
    <2>1. g = Grant(u)
      BY <1>5 DEF LeaveQueue, Free, r, u
    <2>2. l.granted \in SUBSET Callers /\ Agent(p) \in Agents
      BY <1>2, AgentType
    <2>3. ASSUME NEW a \in Agents
          PROVE  /\ Cardinality(Of(held, a)) \in Nat
                 /\ Cardinality(Of(r.granted, a)) \in Nat
                 /\ r.perAgent[a] = IF a = Agent(p)
                       THEN Cardinality(Of(held, a)) + Cardinality(Of(r.granted, a)) + 1
                       ELSE Cardinality(Of(held, a)) + Cardinality(Of(r.granted, a))
      <3>1. l.perAgent[a] = Cardinality(Of(held, a)) + Cardinality(Of(l.granted, a))
        BY <1>0, ChargedOf
      <3>2. Of(held, a) \in SUBSET Callers
        BY DEF Of
      <3>3. Cardinality(Of(held, a)) \in Nat
        BY <3>2, CallersFinite
      <3>4. /\ Cardinality(Of(l.granted \ {p}, a)) \in Nat
            /\ Cardinality(Of(l.granted, a)) =
                  IF a = Agent(p) THEN Cardinality(Of(l.granted \ {p}, a)) + 1
                                  ELSE Cardinality(Of(l.granted \ {p}, a))
        BY <2>2, <1>5, CountLess
      <3> QED BY <1>1, <3>1, <3>3, <3>4
    <2>4. /\ Cardinality(held) \in Nat /\ Cardinality(r.granted) \in Nat
          /\ r.live = Cardinality(held) + Cardinality(r.granted) + 1
      <3>1. l.live = Cardinality(held) + Cardinality(l.granted)
        BY <1>0, ChargedOf
      <3>2. Cardinality(held) \in Nat
        BY CallersFinite
      <3>3. /\ Cardinality(l.granted \ {p}) \in Nat
            /\ Cardinality(l.granted) = Cardinality(l.granted \ {p}) + 1
        BY <2>2, <1>5, CountLess
      <3> QED BY <1>1, <3>1, <3>2, <3>3
    <2>5. r.live > 0 /\ r.perAgent[Agent(p)] > 0
      <3>1. r.live > 0
        BY <2>4
      <3>2. /\ Cardinality(Of(held, Agent(p))) \in Nat
            /\ Cardinality(Of(r.granted, Agent(p))) \in Nat
            /\ r.perAgent[Agent(p)] = Cardinality(Of(held, Agent(p)))
                                      + Cardinality(Of(r.granted, Agent(p))) + 1
        BY <2>2, <2>3
      <3>3. r.perAgent[Agent(p)] > 0
        BY <3>2
      <3> QED BY <3>1, <3>3
    <2>6. /\ u \in Limiter /\ u.live = r.live - 1
          /\ u.perAgent = [r.perAgent EXCEPT ![Agent(p)] = @ - 1]
          /\ u.waiters = r.waiters /\ u.granted = r.granted
      BY <1>1, <2>2, <2>5, UnreserveIs
    <2> HIDE DEF u
    <2>7. r.perAgent \in [Agents -> Nat]
      BY <1>1, LimiterFields
    <2>8. Charged(u, held)
      <3>1. u.live = Cardinality(held) + Cardinality(u.granted)
        BY <2>4, <2>6
      <3>2. ASSUME NEW a \in Agents
            PROVE  u.perAgent[a] = Cardinality(Of(held, a)) + Cardinality(Of(u.granted, a))
        <4>1. u.perAgent[a] = IF a = Agent(p) THEN r.perAgent[a] - 1 ELSE r.perAgent[a]
          BY <2>6, <2>7
        <4> QED BY <4>1, <2>3, <2>6
      <3> QED BY <3>1, <3>2, ChargedOf
    <2>9. (\A q : Queued(u, q) <=> Queued(r, q)) /\ (\A q : Ahead(u, q) = Ahead(r, q))
      BY <2>6, AheadSame
    <2>10. Sound(u, held)
      BY <1>1, <1>3, <2>6, <2>8, <2>9 DEF Sound, Once
    <2>11. /\ Sound(Grant(u), held) /\ Short(Grant(u), {}) /\ InTurn(u, Grant(u), {})
           /\ u.granted \subseteq Grant(u).granted
           /\ \A q \in Callers : Queued(Grant(u), q) <=> Queued(u, q)
      BY <2>10, GrantSound
    <2>12. Short(Grant(u), except)
      BY <2>11 DEF Short
    <2>13. InTurn(l, Grant(u), {p})
      <3> SUFFICES ASSUME NEW q \in Grant(u).granted, q \notin l.granted,
                          NEW j \in Ahead(l, q), AgentCap[Agent(q)] > 0,
                          Agent(l.waiters[j]) = Agent(q), l.waiters[j] # p
                   PROVE  l.waiters[j] \in Grant(u).granted
        BY DEF InTurn
      <3>1. Grant(u).granted \subseteq Callers
        BY <2>11, LimiterFields DEF Sound
      <3>2. PICK i \in Ahead(r, q) : r.waiters[i] = l.waiters[j]
        BY <1>1, <3>1
      <3>3. q \notin u.granted
        BY <1>1, <2>6
      <3> QED BY <3>2, <3>3, <2>6, <2>9, <2>11 DEF InTurn
    <2> HIDE DEF g
    <2>14. /\ Sound(g, held) /\ Short(g, except) /\ InTurn(l, g, {p})
           /\ l.granted \ {p} \subseteq g.granted
           /\ \A q \in Callers : Queued(g, q) <=> Queued(l, q) /\ q # p
      BY <1>1, <2>1, <2>6, <2>9, <2>11, <2>12, <2>13
    <2> QED BY <2>14 DEF g
  <1> QED BY <1>4, <1>5

------------------------------------------------------------------------------
(***************************************************************************)
(* The invariant, in parts.                                                *)
(***************************************************************************)

\* TypeOK without the limiter, whose type is part of Sound.
TypeRest ==
    /\ place \in [Callers -> {"none", "held", "freed"}]
    /\ backends \in [Keys -> Callers \cup {NoOne}]
    /\ proc \in [Callers -> {"none", "live", "dead"}]
    /\ creating \in [Callers -> BOOLEAN]
    /\ uses \in [Callers -> Nat]
    /\ resume \subseteq Keys
    /\ resumed \subseteq Callers
    /\ retried \subseteq Callers
    /\ pc \in [Callers -> PC]
    /\ got \in [Callers -> Callers \cup {NoOne}]
    /\ trim \in [Callers -> {"off", "top", "evict"}]
    /\ removed \subseteq Callers
    /\ stop \in [Agents -> {"run", "refusing", "refused", "closed"}]
    /\ work \subseteq Callers
    /\ events \in 0..MaxEvents

TypeScan ==
    /\ scan \in [Callers ->
                   [at : {"off", "scan", "try"},
                    scope : SUBSET Agents, cands : SUBSET Candidate,
                    victim : Callers \cup {NoOne}]]
    /\ finish \in Candidate \cup {NoOne}

\* Where a caller of getOrCreate is before its process runs, in acquire and
\* around it, and once it was put in the map or gave up.
Deciding == {"refuse", "acquire", "evict", "settle", "wait", "leave", "giveup",
             "start"}
Unborn == {"idle", "miss", "joined", "lead"} \cup Deciding
Born == {"ready", "relaunch", "remap", "ready2", "fail", "using", "done"}
NoPlaceYet == Unborn \ {"leave", "start"}
InAcquire == {"acquire", "evict", "settle", "wait", "leave", "giveup"}

\* The singleflight group: one creation of a key at a time.
OneFlight ==
    \A p, q \in Callers :
        KeyOf[p] = KeyOf[q] /\ pc[p] \in Flight /\ pc[q] \in Flight => p = q

\* A backend is mapped under its own key, once its creation put it there.
MapKeys ==
    \A k \in Keys : backends[k] # NoOne =>
        KeyOf[backends[k]] = k /\ pc[backends[k]] \in Born

Unstarted == \A p \in Callers : pc[p] \in Unborn => proc[p] = "none"

\* Nothing but the creation in flight fills the key's entry, and a creation
\* that failed has no process.
KeyFree ==
    \A p \in Callers :
        /\ pc[p] \in Deciding \cup {"map"} => backends[KeyOf[p]] = NoOne
        /\ pc[p] \in {"ready", "relaunch", "remap", "ready2"}
              => backends[KeyOf[p]] \in {NoOne, p}
        /\ pc[p] \in {"relaunch", "fail"} => proc[p] # "live"
        /\ pc[p] \in {"relaunch", "remap", "ready2"} => p \in retried

\* Only a relaunch maps anything once the manager is closed.
ClosedMap ==
    \A k \in Keys : stop[AgentOf[k]] = "closed" /\ backends[k] # NoOne
                        => backends[k] \in retried

RemovedBorn == \A b \in removed : pc[b] \in Born

ProcPart == /\ OneFlight /\ MapKeys /\ Unstarted /\ KeyFree /\ ClosedMap
            /\ RemovedBorn /\ NoOrphan

Held == {p \in Callers : place[p] = "held"}
Leaving == {p \in Callers : pc[p] = "leave"}

\* Who has no place, who trims, and whose eviction is under way.
Placeless ==
    \A p \in Callers :
        /\ pc[p] \in NoPlaceYet => place[p] = "none"
        /\ trim[p] # "off" => place[p] = "freed"
        /\ scan[p].at # "off" => /\ pc[p] = "evict" \/ trim[p] = "evict"
                                 /\ scan[p].victim = NoOne

\* Only user creations in acquire are in the queue.
QueueWhere ==
    \A p \in Callers : Queued(lim, p) => pc[p] \in InAcquire /\ p \in Users

PlacePart == /\ Sound(lim, Held) /\ Short(lim, Leaving)
             /\ Placeless /\ QueueWhere

\* A turn uses a backend of its own session.
UserOf ==
    \A p \in Callers : pc[p] = "using" =>
        got[p] \in Callers /\ KeyOf[got[p]] = KeyOf[p]

\* A candidate's creation is over, and until the next Get nobody uses it.
FreshOne(c) ==
    /\ pc[c.mb] = "done" /\ c.seen <= uses[c.mb]
    /\ uses[c.mb] = c.seen =>
          \A q \in Callers : pc[q] = "using" => got[q] # c.mb

Fresh ==
    /\ \A p \in Callers : \A c \in scan[p].cands : FreshOne(c)
    /\ finish # NoOne => FreshOne(finish)

UsePart == UserOf /\ Fresh

IInv == TypeRest /\ TypeScan /\ ProcPart /\ PlacePart /\ UsePart

\* The two halves of the type invariant, and the limiter's type, are TypeOK.
LEMMA TypeHalves == TypeOK <=> lim \in Limiter /\ TypeRest /\ TypeScan
  BY DEF TypeOK, TypeRest, TypeScan

\* PlacesExact is Charged with the places that are held.
LEMMA ExactIsCharged == PlacesExact <=> Charged(lim, Held)
  BY DEF PlacesExact, Charged, Held

------------------------------------------------------------------------------
\* What Return does, caller by caller.
LEMMA ReturnMoves ==
    ASSUME TypeRest, NEW p \in Callers, NEW b \in Callers \cup {NoOne}, Return(p, b)
    PROVE  /\ pc' \in [Callers -> PC] /\ got' \in [Callers -> Callers \cup {NoOne}]
           /\ \A q \in Callers :
                 \/ pc'[q] = pc[q] /\ got'[q] = got[q] /\ q # p
                 \/ /\ q = p \/ pc[q] = "joined"
                    /\ KeyOf[q] = KeyOf[p]
                    /\ got'[q] = b
                    /\ pc'[q] = IF b = NoOne THEN "done" ELSE "using"
  <1>1. "done" \in PC /\ "using" \in PC
    BY DEF PC
  <1> QED BY <1>1 DEF Return, TypeRest

\* The initial states.
LEMMA InitInv == Init => IInv
  <1> SUFFICES ASSUME Init PROVE IInv
    OBVIOUS
  <1>1. TypeRest
    BY SessionsAssumption DEF Init, TypeRest, PC
  <1>2. NoScan \in [at : {"off", "scan", "try"}, scope : SUBSET Agents,
                    cands : SUBSET Candidate, victim : Callers \cup {NoOne}]
    BY DEF NoScan
  <1>3. TypeScan
    BY <1>2 DEF Init, TypeScan
  <1>4. ProcPart
    BY DEF Init, ProcPart, OneFlight, MapKeys, Unstarted, KeyFree, ClosedMap,
           RemovedBorn, NoOrphan, Flight, Unborn, Born, Deciding
  <1>5. Held = {}
    BY DEF Init, Held
  <1>6. lim.live = 0 /\ lim.perAgent = [a \in Agents |-> 0] /\ lim.waiters = <<>>
        /\ lim.granted = {} /\ lim \in Limiter
    BY DEF Init, NoPlaces, Limiter
  <1>7. Len(lim.waiters) = 0 /\ DOMAIN lim.waiters = {}
    BY <1>6
  <1>8. \A p : ~Queued(lim, p)
    BY <1>7 DEF Queued
  <1>9. Charged(lim, Held)
    <2>1. /\ \A a : {p \in Held : Agent(p) = a} = {}
          /\ \A a : {p \in lim.granted : Agent(p) = a} = {}
      BY <1>5, <1>6
    <2>2. Cardinality({}) = 0
      BY FS_EmptySet
    <2> QED BY <1>5, <1>6, <2>1, <2>2 DEF Charged
  <1>10. PlacePart
    BY <1>6, <1>7, <1>8, <1>9 DEF Init, PlacePart, Sound, Short, Once, Placeless,
           QueueWhere, NoScan
  <1>11. UsePart
    BY DEF Init, UsePart, UserOf, Fresh, NoScan
  <1> QED BY <1>1, <1>3, <1>4, <1>10, <1>11 DEF IInv

------------------------------------------------------------------------------
(***************************************************************************)
(* What a step may do to each part.                                        *)
(***************************************************************************)

\* Moves of a caller that neither start nor map nor relaunch a backend.
QuietMove(old, new) ==
    \/ new = old
    \/ old \in Deciding /\ new \in Deciding
    \/ old \notin {"map", "remap"} /\ new \in {"using", "done"}
    \/ old = "idle" /\ new = "miss"
    \/ old = "miss" /\ new = "joined"

\* Callers move on quietly, processes die, backends are unmapped to be closed.
ProcQuiet ==
    /\ \A p \in Callers : QuietMove(pc[p], pc'[p])
    /\ \A k \in Keys : \/ backends'[k] = backends[k]
                       \/ /\ backends'[k] = NoOne
                          /\ backends[k] = NoOne \/ backends[k] \in removed'
    /\ \A b \in Callers : \/ proc'[b] = proc[b]
                          \/ proc'[b] = "dead" /\ pc[b] \notin Unborn
    /\ \A b \in removed' : b \in removed \/ \E k \in Keys : backends[k] = b
    /\ \A b \in removed : b \in removed' \/ proc'[b] # "live"
    /\ retried' = retried
    /\ \A a \in Agents : stop'[a] = "closed" =>
          \/ stop[a] = "closed"
          \/ \A k \in Keys : AgentOf[k] = a => backends'[k] = NoOne

\* How a quiet move changes where the caller is.
LEMMA QuietMoves ==
    ASSUME NEW old \in PC, NEW new \in PC, QuietMove(old, new)
    PROVE  /\ new \in Flight => old \in Flight
           /\ old \in Born => new \in Born
           /\ new \in Unborn => old \in Unborn
           /\ new \in Deciding \cup {"map"} => old \in Deciding \cup {"map"}
           /\ new \in {"ready", "relaunch", "remap", "ready2", "fail"} => new = old
           /\ old \in {"map", "remap"} => new = old
  BY DEF QuietMove, PC, Flight, Born, Unborn, Deciding

LEMMA ProcFrame ==
    ASSUME TypeRest, TypeRest', ProcPart, ProcQuiet
    PROVE  ProcPart'
  <1>1. \A p \in Callers :
           /\ pc'[p] \in Flight => pc[p] \in Flight
           /\ pc[p] \in Born => pc'[p] \in Born
           /\ pc'[p] \in Unborn => pc[p] \in Unborn
           /\ pc'[p] \in Deciding \cup {"map"} => pc[p] \in Deciding \cup {"map"}
           /\ pc'[p] \in {"ready", "relaunch", "remap", "ready2", "fail"} => pc'[p] = pc[p]
           /\ pc[p] \in {"map", "remap"} => pc'[p] = pc[p]
    <2> TAKE p \in Callers
    <2>1. pc[p] \in PC /\ pc'[p] \in PC /\ QuietMove(pc[p], pc'[p])
      BY DEF TypeRest, ProcQuiet
    <2> QED BY <2>1, QuietMoves
  <1>2. OneFlight'
    BY <1>1 DEF OneFlight, ProcPart
  <1>3. \A k \in Keys : backends[k] # NoOne => backends[k] \in Callers
    BY DEF TypeRest
  <1>4. MapKeys'
    BY <1>1, <1>3 DEF MapKeys, ProcPart, ProcQuiet
  <1>5. Unstarted'
    BY <1>1 DEF Unstarted, ProcPart, ProcQuiet
  <1>6. KeyFree'
    <2> SUFFICES ASSUME NEW p \in Callers
                 PROVE  /\ pc'[p] \in Deciding \cup {"map"} => backends'[KeyOf[p]] = NoOne
                        /\ pc'[p] \in {"ready", "relaunch", "remap", "ready2"}
                              => backends'[KeyOf[p]] \in {NoOne, p}
                        /\ pc'[p] \in {"relaunch", "fail"} => proc'[p] # "live"
                        /\ pc'[p] \in {"relaunch", "remap", "ready2"} => p \in retried'
      BY DEF KeyFree
    <2>1. KeyOf[p] \in Keys
      BY AgentType
    <2>2. backends'[KeyOf[p]] \in {NoOne, backends[KeyOf[p]]}
      BY <2>1 DEF ProcQuiet
    <2>3. pc'[p] \in Deciding \cup {"map"} => backends'[KeyOf[p]] = NoOne
      BY <1>1, <2>2 DEF KeyFree, ProcPart
    <2>4. pc'[p] \in {"ready", "relaunch", "remap", "ready2"}
              => backends'[KeyOf[p]] \in {NoOne, p}
      BY <1>1, <2>2 DEF KeyFree, ProcPart
    <2>5. pc'[p] \in {"relaunch", "fail"} => proc'[p] # "live"
      BY <1>1 DEF KeyFree, ProcPart, ProcQuiet
    <2>6. pc'[p] \in {"relaunch", "remap", "ready2"} => p \in retried'
      BY <1>1 DEF KeyFree, ProcPart, ProcQuiet
    <2> QED BY <2>3, <2>4, <2>5, <2>6
  <1>7. ClosedMap'
    <2>1. \A k \in Keys : AgentOf[k] \in Agents
      BY PlacesAssumption
    <2> QED BY <2>1 DEF ClosedMap, ProcPart, ProcQuiet
  <1>8. RemovedBorn'
    <2>1. \A b \in removed' : b \in Callers /\ pc[b] \in Born
      <3> TAKE b \in removed'
      <3>1. b \in Callers /\ b # NoOne
        BY SessionsAssumption DEF TypeRest
      <3>2. b \in removed \/ \E k \in Keys : backends[k] = b
        BY DEF ProcQuiet
      <3> QED BY <3>1, <3>2 DEF RemovedBorn, MapKeys, ProcPart
    <2> QED BY <1>1, <2>1 DEF RemovedBorn
  <1>9. NoOrphan'
    <2> SUFFICES ASSUME NEW b \in Callers, proc'[b] = "live"
                 PROVE  \/ backends'[KeyOf[b]] = b \/ b \in removed'
                        \/ pc'[b] \in {"map", "remap"}
      BY DEF NoOrphan, Mapped
    <2>1. proc[b] = "live" /\ KeyOf[b] \in Keys /\ b # NoOne
      BY AgentType, SessionsAssumption DEF ProcQuiet
    <2>2. \/ backends[KeyOf[b]] = b \/ b \in removed \/ pc[b] \in {"map", "remap"}
      BY <2>1 DEF ProcPart, NoOrphan, Mapped
    <2>3. CASE backends[KeyOf[b]] = b
      BY <2>1, <2>3 DEF ProcQuiet
    <2>4. CASE b \in removed
      BY <2>4 DEF ProcQuiet
    <2>5. CASE pc[b] \in {"map", "remap"}
      BY <2>5, <1>1
    <2> QED BY <2>2, <2>3, <2>4, <2>5
  <1> QED BY <1>2, <1>4, <1>5, <1>6, <1>7, <1>8, <1>9 DEF ProcPart

\* Nobody takes or gives back a place, and no eviction starts.
PlaceQuiet ==
    /\ lim' = lim /\ place' = place /\ trim' = trim
    /\ \A p \in Callers :
          \/ pc'[p] = pc[p]
          \/ /\ pc[p] \notin {"evict", "leave"}
             /\ pc'[p] \in NoPlaceYet => pc[p] \in NoPlaceYet
             /\ pc[p] \in InAcquire => pc'[p] \in InAcquire
    /\ \A p \in Callers : scan'[p].at # "off" =>
          scan[p].at # "off" /\ scan'[p].victim = NoOne

LEMMA PlaceFrame ==
    ASSUME PlacePart, PlaceQuiet
    PROVE  PlacePart'
  <1>1. Held' = Held
    BY DEF Held, PlaceQuiet
  <1>2. Sound(lim, Held)'
    BY <1>1 DEF PlacePart, PlaceQuiet
  <1>3. Leaving \subseteq Leaving'
    BY DEF Leaving, PlaceQuiet
  <1>4. Short(lim, Leaving')
    BY <1>3 DEF Short, PlacePart
  <1>5. Short(lim, Leaving)'
    BY <1>4 DEF PlaceQuiet
  <1>6. Placeless'
    BY DEF Placeless, PlacePart, PlaceQuiet
  <1>7. QueueWhere'
    <2>1. \A p \in Callers : Queued(lim, p) => pc'[p] \in InAcquire /\ p \in Users
      BY DEF QueueWhere, PlacePart, PlaceQuiet
    <2> QED BY <2>1 DEF QueueWhere, PlaceQuiet
  <1> QED BY <1>2, <1>5, <1>6, <1>7 DEF PlacePart

\* Whoever starts to use a backend moves its lastActive, or created it.
UseQuiet ==
    /\ \A q \in Callers : pc[q] = "done" => pc'[q] = "done"
    /\ \A b \in Callers : uses[b] <= uses'[b]
    /\ \A q \in Callers : pc'[q] = "using" =>
          \/ pc[q] = "using" /\ got'[q] = got[q]
          \/ /\ got'[q] \in Callers /\ KeyOf[got'[q]] = KeyOf[q]
             /\ uses[got'[q]] < uses'[got'[q]] \/ pc[got'[q]] # "done"

LEMMA FreshFrame ==
    ASSUME TypeRest, TypeRest', UseQuiet, NEW c \in Candidate, FreshOne(c)
    PROVE  FreshOne(c)'
  <1> DEFINE b == c.mb
             n == c.seen
  <1>1. b \in Callers /\ n \in Nat /\ pc[b] = "done" /\ n <= uses[b]
        /\ (uses[b] = n => \A q \in Callers : pc[q] = "using" => got[q] # b)
    BY DEF Candidate, FreshOne
  <1> HIDE DEF b, n
  <1>2. uses[b] \in Nat /\ uses'[b] \in Nat /\ uses[b] <= uses'[b] /\ pc'[b] = "done"
    BY <1>1 DEF TypeRest, UseQuiet
  <1>3. n <= uses'[b]
    BY <1>1, <1>2
  <1>4. ASSUME uses'[b] = n, NEW q \in Callers, pc'[q] = "using", got'[q] = b
        PROVE  FALSE
    <2>1. uses'[b] = uses[b] /\ uses[b] = n
      BY <1>1, <1>2, <1>4
    <2>2. ~(uses[b] < uses'[b])
      BY <1>2, <2>1
    <2>3. pc[q] = "using" /\ got'[q] = got[q]
      BY <1>1, <1>4, <2>2 DEF UseQuiet
    <2> QED BY <1>1, <1>4, <2>1, <2>3
  <1> QED BY <1>2, <1>3, <1>4 DEF FreshOne, b, n

LEMMA UseFrame ==
    ASSUME TypeRest, TypeRest', TypeScan, UsePart, UseQuiet,
           \A p \in Callers : scan'[p].cands \subseteq scan[p].cands,
           finish' \in {finish, NoOne}
    PROVE  UsePart'
  <1>1. UserOf'
    BY DEF UserOf, UsePart, UseQuiet
  <1>2. ASSUME NEW p \in Callers, NEW c \in scan'[p].cands PROVE FreshOne(c)'
    <2>1. c \in scan[p].cands
      OBVIOUS
    <2>2. scan[p].cands \in SUBSET Candidate
      BY DEF TypeScan
    <2>3. c \in Candidate /\ FreshOne(c)
      BY <2>1, <2>2 DEF UsePart, Fresh
    <2> QED BY <2>3, FreshFrame
  <1>3. ASSUME finish' # NoOne PROVE FreshOne(finish)'
    <2>1. finish' = finish /\ finish \in Candidate /\ FreshOne(finish)
      BY <1>3 DEF TypeScan, UsePart, Fresh
    <2>2. PICK c \in Candidate : c = finish
      BY <2>1
    <2>a. FreshOne(c)
      BY <2>1, <2>2
    <2>3. FreshOne(c)'
      BY <2>a, FreshFrame
    <2>4. finish' = c
      BY <2>1, <2>2
    <2> QED BY <2>3, <2>4 DEF FreshOne
  <1> QED BY <1>1, <1>2, <1>3 DEF UsePart, Fresh

------------------------------------------------------------------------------
(***************************************************************************)
(* One lemma per action: it preserves the invariant.                       *)
(***************************************************************************)

LEMMA GetStep ==
    ASSUME IInv, NEW p \in Callers, Get(p)
    PROVE  IInv'
  <1>0. TypeRest /\ TypeScan /\ ProcPart /\ PlacePart /\ UsePart
    BY DEF IInv
  <1>1. TypeRest'
    BY <1>0, AgentType, SessionsAssumption
       DEF TypeRest, PC, Flight, Get, Goto, Running, Touch, outside
  <1>2. TypeScan'
    BY <1>0 DEF TypeScan, Get, Goto, Running, Touch, outside
  <1>3. ProcQuiet
    BY <1>0, AgentType, SessionsAssumption
       DEF TypeRest, ProcQuiet, QuietMove, Deciding, Get, Goto, Running, Touch,
           outside
  <1>4. PlaceQuiet
    BY <1>0, AgentType
       DEF TypeRest, PlaceQuiet, PlacePart, Placeless, NoPlaceYet, Unborn, Deciding,
           InAcquire, Get, Goto, Running, Touch, outside
  <1>5. UseQuiet
    <2>1. \A b \in Callers : uses[b] \in Nat /\ uses[b] < uses[b] + 1 /\ uses[b] <= uses[b]
      BY <1>0 DEF TypeRest
    <2>2. CASE Running(p)
      <3> DEFINE b == backends[KeyOf[p]]
      <3>1. b \in Callers /\ KeyOf[b] = KeyOf[p]
        BY <1>0, <2>2, AgentType DEF Running, ProcPart, MapKeys, TypeRest
      <3>2. /\ uses' = [uses EXCEPT ![b] = uses[b] + 1] /\ got' = [got EXCEPT ![p] = b]
            /\ pc' = [pc EXCEPT ![p] = "using"] /\ pc[p] = "idle"
        BY <2>2 DEF Get, Goto, Touch
      <3> HIDE DEF b
      <3> QED BY <1>0, <2>1, <3>1, <3>2 DEF TypeRest, UseQuiet
    <2>3. CASE ~Running(p)
      BY <1>0, <2>1, <2>3 DEF TypeRest, UseQuiet, Get, Goto
    <2> QED BY <2>2, <2>3
  <1>6. UsePart'
    <2>1. /\ \A q \in Callers : scan'[q].cands \subseteq scan[q].cands
          /\ finish' \in {finish, NoOne}
      BY DEF Get, Goto, Running, Touch, outside
    <2> QED BY <1>0, <1>1, <1>5, <2>1, UseFrame
  <1> QED BY <1>0, <1>1, <1>2, <1>3, <1>4, <1>6, ProcFrame, PlaceFrame DEF IInv

LEMMA RefuseStep ==
    ASSUME IInv, NEW p \in Callers, Refuse(p)
    PROVE  IInv'
  <1>0. TypeRest /\ TypeScan /\ ProcPart /\ PlacePart /\ UsePart
    BY DEF IInv
  <1>r. /\ pc' \in [Callers -> PC] /\ got' \in [Callers -> Callers \cup {NoOne}]
        /\ \A q \in Callers :
              \/ pc'[q] = pc[q] /\ got'[q] = got[q] /\ q # p
              \/ /\ q = p \/ pc[q] = "joined"
                 /\ KeyOf[q] = KeyOf[p]
                 /\ got'[q] = NoOne
                 /\ pc'[q] = "done"
    <2>1. Return(p, NoOne) /\ p # NoOne
      BY SessionsAssumption DEF Refuse
    <2> QED BY <1>0, <2>1, ReturnMoves
  <1>1. TypeRest'
    BY <1>0, <1>r, AgentType, SessionsAssumption
       DEF TypeRest, PC, Flight, Refuse, manager, outside
  <1>2. TypeScan'
    BY <1>0 DEF TypeScan, Refuse, manager, outside
  <1>3. ProcQuiet
    BY <1>0, <1>r, AgentType, SessionsAssumption
       DEF TypeRest, ProcQuiet, QuietMove, Deciding, Refuse, manager, outside
  <1>4. PlaceQuiet
    BY <1>0, <1>r, AgentType
       DEF TypeRest, PlaceQuiet, PlacePart, Placeless, NoPlaceYet, Unborn, Deciding,
           InAcquire, Refuse, manager, outside
  <1>5. UseQuiet
    BY <1>0, <1>r, AgentType, SessionsAssumption
       DEF TypeRest, UseQuiet, Refuse, manager, outside
  <1>6. UsePart'
    <2>1. /\ \A q \in Callers : scan'[q].cands \subseteq scan[q].cands
          /\ finish' \in {finish, NoOne}
      BY DEF Refuse, manager, outside
    <2> QED BY <1>0, <1>1, <1>5, <2>1, UseFrame
  <1> QED BY <1>0, <1>1, <1>2, <1>3, <1>4, <1>6, ProcFrame, PlaceFrame DEF IInv

LEMMA WakeStep ==
    ASSUME IInv, NEW p \in Callers, Wake(p)
    PROVE  IInv'
  <1>0. TypeRest /\ TypeScan /\ ProcPart /\ PlacePart /\ UsePart
    BY DEF IInv
  <1>1. TypeRest'
    BY <1>0, AgentType, SessionsAssumption
       DEF TypeRest, PC, Flight, Wake, Goto, manager, outside
  <1>2. TypeScan'
    BY <1>0 DEF TypeScan, Wake, Goto, manager, outside
  <1>3. ProcQuiet
    BY <1>0, AgentType, SessionsAssumption
       DEF TypeRest, ProcQuiet, QuietMove, Deciding, Wake, Goto, manager, outside
  <1>4. PlaceQuiet
    BY <1>0, AgentType
       DEF TypeRest, PlaceQuiet, PlacePart, Placeless, NoPlaceYet, Unborn, Deciding,
           InAcquire, Wake, Goto, manager, outside
  <1>5. UseQuiet
    BY <1>0, AgentType, SessionsAssumption
       DEF TypeRest, UseQuiet, Wake, Goto, manager, outside
  <1>6. UsePart'
    <2>1. /\ \A q \in Callers : scan'[q].cands \subseteq scan[q].cands
          /\ finish' \in {finish, NoOne}
      BY DEF Wake, Goto, manager, outside
    <2> QED BY <1>0, <1>1, <1>5, <2>1, UseFrame
  <1> QED BY <1>0, <1>1, <1>2, <1>3, <1>4, <1>6, ProcFrame, PlaceFrame DEF IInv

LEMMA CancelStep ==
    ASSUME IInv, NEW p \in Callers, Cancel(p)
    PROVE  IInv'
  <1>0. TypeRest /\ TypeScan /\ ProcPart /\ PlacePart /\ UsePart
    BY DEF IInv
  <1>1. TypeRest'
    BY <1>0, AgentType, SessionsAssumption
       DEF TypeRest, PC, Flight, Cancel, Goto, Event, manager, outside
  <1>2. TypeScan'
    BY <1>0 DEF TypeScan, Cancel, Goto, Event, manager, outside
  <1>3. ProcQuiet
    BY <1>0, AgentType, SessionsAssumption
       DEF TypeRest, ProcQuiet, QuietMove, Deciding, Cancel, Goto, Event, manager,
           outside
  <1>4. PlaceQuiet
    BY <1>0, AgentType
       DEF TypeRest, PlaceQuiet, PlacePart, Placeless, NoPlaceYet, Unborn, Deciding,
           InAcquire, Cancel, Goto, Event, manager, outside
  <1>5. UseQuiet
    BY <1>0, AgentType, SessionsAssumption
       DEF TypeRest, UseQuiet, Cancel, Goto, Event, manager, outside
  <1>6. UsePart'
    <2>1. /\ \A q \in Callers : scan'[q].cands \subseteq scan[q].cands
          /\ finish' \in {finish, NoOne}
      BY DEF Cancel, Goto, Event, manager, outside
    <2> QED BY <1>0, <1>1, <1>5, <2>1, UseFrame
  <1> QED BY <1>0, <1>1, <1>2, <1>3, <1>4, <1>6, ProcFrame, PlaceFrame DEF IInv

LEMMA WaitReadyAgainStep ==
    ASSUME IInv, NEW p \in Callers, WaitReadyAgain(p)
    PROVE  IInv'
  <1>0. TypeRest /\ TypeScan /\ ProcPart /\ PlacePart /\ UsePart
    BY DEF IInv
  <1>r. /\ pc' \in [Callers -> PC] /\ got' \in [Callers -> Callers \cup {NoOne}]
        /\ \A q \in Callers :
              \/ pc'[q] = pc[q] /\ got'[q] = got[q] /\ q # p
              \/ /\ q = p \/ pc[q] = "joined"
                 /\ KeyOf[q] = KeyOf[p]
                 /\ got'[q] = p
                 /\ pc'[q] = "using"
    <2>1. Return(p, p) /\ p # NoOne
      BY SessionsAssumption DEF WaitReadyAgain
    <2> QED BY <1>0, <2>1, ReturnMoves
  <1>1. TypeRest'
    BY <1>0, <1>r, AgentType, SessionsAssumption
       DEF TypeRest, PC, Flight, WaitReadyAgain, outside
  <1>2. TypeScan'
    BY <1>0 DEF TypeScan, WaitReadyAgain, outside
  <1>3. ProcQuiet
    BY <1>0, <1>r, AgentType, SessionsAssumption
       DEF TypeRest, ProcQuiet, QuietMove, Deciding, WaitReadyAgain, outside
  <1>4. PlaceQuiet
    BY <1>0, <1>r, AgentType
       DEF TypeRest, PlaceQuiet, PlacePart, Placeless, NoPlaceYet, Unborn, Deciding,
           InAcquire, WaitReadyAgain, outside
  <1>5. UseQuiet
    BY <1>0, <1>r, AgentType, SessionsAssumption
       DEF TypeRest, UseQuiet, WaitReadyAgain, outside
  <1>6. UsePart'
    <2>1. /\ \A q \in Callers : scan'[q].cands \subseteq scan[q].cands
          /\ finish' \in {finish, NoOne}
      BY DEF WaitReadyAgain, outside
    <2> QED BY <1>0, <1>1, <1>5, <2>1, UseFrame
  <1> QED BY <1>0, <1>1, <1>2, <1>3, <1>4, <1>6, ProcFrame, PlaceFrame DEF IInv

LEMMA EndTurnStep ==
    ASSUME IInv, NEW p \in Callers, EndTurn(p)
    PROVE  IInv'
  <1>0. TypeRest /\ TypeScan /\ ProcPart /\ PlacePart /\ UsePart
    BY DEF IInv
  <1>1. TypeRest'
    <2>1. got[p] \in Callers
      BY <1>0 DEF UsePart, UserOf, EndTurn
    <2> QED BY <1>0, <2>1, SessionsAssumption DEF TypeRest, PC, EndTurn, Goto, Event, manager
  <1>2. TypeScan'
    BY <1>0 DEF TypeScan, EndTurn, Goto, Event, manager
  <1>3. ProcQuiet
    BY <1>0, AgentType, SessionsAssumption
       DEF TypeRest, ProcQuiet, QuietMove, Deciding, EndTurn, Goto, Event, manager
  <1>4. PlaceQuiet
    BY <1>0, AgentType
       DEF TypeRest, PlaceQuiet, PlacePart, Placeless, NoPlaceYet, Unborn, Deciding,
           InAcquire, EndTurn, Goto, Event, manager
  <1>5. UseQuiet
    BY <1>0, AgentType, SessionsAssumption
       DEF TypeRest, UseQuiet, EndTurn, Goto, Event, manager
  <1>6. UsePart'
    <2>1. /\ \A q \in Callers : scan'[q].cands \subseteq scan[q].cands
          /\ finish' \in {finish, NoOne}
      BY DEF EndTurn, Goto, Event, manager
    <2> QED BY <1>0, <1>1, <1>5, <2>1, UseFrame
  <1> QED BY <1>0, <1>1, <1>2, <1>3, <1>4, <1>6, ProcFrame, PlaceFrame DEF IInv

LEMMA WorkEndsStep ==
    ASSUME IInv, NEW p \in Callers, WorkEnds(p)
    PROVE  IInv'
  <1>0. TypeRest /\ TypeScan /\ ProcPart /\ PlacePart /\ UsePart
    BY DEF IInv
  <1>1. TypeRest'
    BY <1>0, AgentType, SessionsAssumption DEF TypeRest, PC, Flight, WorkEnds, manager
  <1>2. TypeScan'
    BY <1>0 DEF TypeScan, WorkEnds, manager
  <1>3. ProcQuiet
    BY <1>0, AgentType, SessionsAssumption
       DEF TypeRest, ProcQuiet, QuietMove, Deciding, WorkEnds, manager
  <1>4. PlaceQuiet
    BY <1>0, AgentType
       DEF TypeRest, PlaceQuiet, PlacePart, Placeless, NoPlaceYet, Unborn, Deciding,
           InAcquire, WorkEnds, manager
  <1>5. UseQuiet
    BY <1>0, AgentType, SessionsAssumption DEF TypeRest, UseQuiet, WorkEnds, manager
  <1>6. UsePart'
    <2>1. /\ \A q \in Callers : scan'[q].cands \subseteq scan[q].cands
          /\ finish' \in {finish, NoOne}
      BY DEF WorkEnds, manager
    <2> QED BY <1>0, <1>1, <1>5, <2>1, UseFrame
  <1> QED BY <1>0, <1>1, <1>2, <1>3, <1>4, <1>6, ProcFrame, PlaceFrame DEF IInv

LEMMA DieStep ==
    ASSUME IInv, NEW p \in Callers, Die(p)
    PROVE  IInv'
  <1>0. TypeRest /\ TypeScan /\ ProcPart /\ PlacePart /\ UsePart
    BY DEF IInv
  <1>1. TypeRest'
    BY <1>0, AgentType, SessionsAssumption DEF TypeRest, PC, Flight, Die, Event
  <1>2. TypeScan'
    BY <1>0 DEF TypeScan, Die, Event
  <1>3. ProcQuiet
    BY <1>0, AgentType, SessionsAssumption
       DEF TypeRest, ProcPart, Unstarted, ProcQuiet, QuietMove, Deciding, Die, Event
  <1>4. PlaceQuiet
    BY <1>0, AgentType
       DEF TypeRest, PlaceQuiet, PlacePart, Placeless, NoPlaceYet, Unborn, Deciding,
           InAcquire, Die, Event
  <1>5. UseQuiet
    BY <1>0, AgentType, SessionsAssumption DEF TypeRest, UseQuiet, Die, Event
  <1>6. UsePart'
    <2>1. /\ \A q \in Callers : scan'[q].cands \subseteq scan[q].cands
          /\ finish' \in {finish, NoOne}
      BY DEF Die, Event
    <2> QED BY <1>0, <1>1, <1>5, <2>1, UseFrame
  <1> QED BY <1>0, <1>1, <1>2, <1>3, <1>4, <1>6, ProcFrame, PlaceFrame DEF IInv

LEMMA CloseStep ==
    ASSUME IInv, NEW k \in Keys, Close(k)
    PROVE  IInv'
  <1>0. TypeRest /\ TypeScan /\ ProcPart /\ PlacePart /\ UsePart
    BY DEF IInv
  <1>1. TypeRest'
    BY <1>0, AgentType, SessionsAssumption DEF TypeRest, PC, Flight, Close, Unmap, Event
  <1>2. TypeScan'
    BY <1>0 DEF TypeScan, Close, Unmap, Event
  <1>3. ProcQuiet
    BY <1>0, AgentType, SessionsAssumption
       DEF TypeRest, ProcQuiet, QuietMove, Deciding, Close, Unmap, Event
  <1>4. PlaceQuiet
    BY <1>0, AgentType
       DEF TypeRest, PlaceQuiet, PlacePart, Placeless, NoPlaceYet, Unborn, Deciding,
           InAcquire, Close, Unmap, Event
  <1>5. UseQuiet
    BY <1>0, AgentType, SessionsAssumption DEF TypeRest, UseQuiet, Close, Unmap, Event
  <1>6. UsePart'
    <2>1. /\ \A q \in Callers : scan'[q].cands \subseteq scan[q].cands
          /\ finish' \in {finish, NoOne}
      BY DEF Close, Unmap, Event
    <2> QED BY <1>0, <1>1, <1>5, <2>1, UseFrame
  <1> QED BY <1>0, <1>1, <1>2, <1>3, <1>4, <1>6, ProcFrame, PlaceFrame DEF IInv

LEMMA FinishCloseStep ==
    ASSUME IInv, FinishClose
    PROVE  IInv'
  <1>0. TypeRest /\ TypeScan /\ ProcPart /\ PlacePart /\ UsePart
    BY DEF IInv
  <1>a. \E k \in Keys :
           \/ /\ backends[k] \in Callers
              /\ backends' = [backends EXCEPT ![k] = NoOne]
              /\ removed' = removed \cup {backends[k]} /\ resume' = resume \cup {k}
           \/ UNCHANGED <<backends, removed, resume>>
    <2>1. finish.mb \in Callers /\ KeyOf[finish.mb] \in Keys
      BY <1>0, AgentType DEF FinishClose, TypeScan, Candidate
    <2> QED BY <2>1 DEF FinishClose, Exact, Unmap
  <1>1. TypeRest'
    BY <1>0, <1>a DEF TypeRest, FinishClose
  <1>2. TypeScan'
    BY <1>0 DEF TypeScan, FinishClose, Unmap, Exact
  <1>3. ProcQuiet
    BY <1>0, <1>a, SessionsAssumption DEF TypeRest, ProcQuiet, QuietMove, FinishClose
  <1>4. PlaceQuiet
    BY <1>0, AgentType
       DEF TypeRest, PlaceQuiet, PlacePart, Placeless, NoPlaceYet, Unborn, Deciding,
           InAcquire, FinishClose, Unmap, Exact
  <1>5. UseQuiet
    BY <1>0, AgentType, SessionsAssumption DEF TypeRest, UseQuiet, FinishClose, Unmap, Exact
  <1>6. UsePart'
    <2>1. /\ \A q \in Callers : scan'[q].cands \subseteq scan[q].cands
          /\ finish' \in {finish, NoOne}
      BY DEF FinishClose, Unmap, Exact
    <2> QED BY <1>0, <1>1, <1>5, <2>1, UseFrame
  <1> QED BY <1>0, <1>1, <1>2, <1>3, <1>4, <1>6, ProcFrame, PlaceFrame DEF IInv

LEMMA CloseIdleStep ==
    ASSUME IInv, NEW a \in Agents, CloseIdle(a)
    PROVE  IInv'
  <1>0. TypeRest /\ TypeScan /\ ProcPart /\ PlacePart /\ UsePart
    BY DEF IInv
  <1>1. TypeRest'
    BY <1>0, AgentType, SessionsAssumption DEF TypeRest, PC, Flight, CloseIdle, Event
  <1>2. TypeScan'
    BY <1>0 DEF TypeScan, CloseIdle, Event
  <1>3. ProcQuiet
    BY <1>0, AgentType, SessionsAssumption
       DEF TypeRest, ProcQuiet, QuietMove, Deciding, CloseIdle, Event
  <1>4. PlaceQuiet
    BY <1>0, AgentType
       DEF TypeRest, PlaceQuiet, PlacePart, Placeless, NoPlaceYet, Unborn, Deciding,
           InAcquire, CloseIdle, Event
  <1>5. UseQuiet
    BY <1>0, AgentType, SessionsAssumption DEF TypeRest, UseQuiet, CloseIdle, Event
  <1>6. UsePart'
    <2>1. /\ \A q \in Callers : scan'[q].cands \subseteq scan[q].cands
          /\ finish' \in {finish, NoOne}
      BY DEF CloseIdle, Event
    <2> QED BY <1>0, <1>1, <1>5, <2>1, UseFrame
  <1> QED BY <1>0, <1>1, <1>2, <1>3, <1>4, <1>6, ProcFrame, PlaceFrame DEF IInv

LEMMA BeginShutdownStep ==
    ASSUME IInv, NEW a \in Agents, BeginShutdown(a)
    PROVE  IInv'
  <1>0. TypeRest /\ TypeScan /\ ProcPart /\ PlacePart /\ UsePart
    BY DEF IInv
  <1>1. TypeRest'
    BY <1>0, AgentType, SessionsAssumption
       DEF TypeRest, PC, Flight, BeginShutdown, Event, manager
  <1>2. TypeScan'
    BY <1>0 DEF TypeScan, BeginShutdown, Event, manager
  <1>3. ProcQuiet
    BY <1>0, AgentType, SessionsAssumption
       DEF TypeRest, ProcQuiet, QuietMove, Deciding, BeginShutdown, Event, manager
  <1>4. PlaceQuiet
    BY <1>0, AgentType
       DEF TypeRest, PlaceQuiet, PlacePart, Placeless, NoPlaceYet, Unborn, Deciding,
           InAcquire, BeginShutdown, Event, manager
  <1>5. UseQuiet
    BY <1>0, AgentType, SessionsAssumption
       DEF TypeRest, UseQuiet, BeginShutdown, Event, manager
  <1>6. UsePart'
    <2>1. /\ \A q \in Callers : scan'[q].cands \subseteq scan[q].cands
          /\ finish' \in {finish, NoOne}
      BY DEF BeginShutdown, Event, manager
    <2> QED BY <1>0, <1>1, <1>5, <2>1, UseFrame
  <1> QED BY <1>0, <1>1, <1>2, <1>3, <1>4, <1>6, ProcFrame, PlaceFrame DEF IInv

LEMMA RefuseWaitsStep ==
    ASSUME IInv, NEW a \in Agents, RefuseWaits(a)
    PROVE  IInv'
  <1>0. TypeRest /\ TypeScan /\ ProcPart /\ PlacePart /\ UsePart
    BY DEF IInv
  <1>1. TypeRest'
    BY <1>0, AgentType, SessionsAssumption DEF TypeRest, PC, Flight, RefuseWaits, manager
  <1>2. TypeScan'
    BY <1>0 DEF TypeScan, RefuseWaits, manager
  <1>3. ProcQuiet
    BY <1>0, AgentType, SessionsAssumption
       DEF TypeRest, ProcQuiet, QuietMove, Deciding, RefuseWaits, manager
  <1>4. PlaceQuiet
    BY <1>0, AgentType
       DEF TypeRest, PlaceQuiet, PlacePart, Placeless, NoPlaceYet, Unborn, Deciding,
           InAcquire, RefuseWaits, manager
  <1>5. UseQuiet
    BY <1>0, AgentType, SessionsAssumption DEF TypeRest, UseQuiet, RefuseWaits, manager
  <1>6. UsePart'
    <2>1. /\ \A q \in Callers : scan'[q].cands \subseteq scan[q].cands
          /\ finish' \in {finish, NoOne}
      BY DEF RefuseWaits, manager
    <2> QED BY <1>0, <1>1, <1>5, <2>1, UseFrame
  <1> QED BY <1>0, <1>1, <1>2, <1>3, <1>4, <1>6, ProcFrame, PlaceFrame DEF IInv

LEMMA CloseAllStep ==
    ASSUME IInv, NEW a \in Agents, CloseAll(a)
    PROVE  IInv'
  <1>0. TypeRest /\ TypeScan /\ ProcPart /\ PlacePart /\ UsePart
    BY DEF IInv
  <1>1. TypeRest'
    BY <1>0, AgentType, SessionsAssumption DEF TypeRest, PC, Flight, CloseAll, Event
  <1>2. TypeScan'
    BY <1>0 DEF TypeScan, CloseAll, Event
  <1>3. ProcQuiet
    BY <1>0, AgentType, SessionsAssumption
       DEF TypeRest, ProcQuiet, QuietMove, Deciding, CloseAll, Event
  <1>4. PlaceQuiet
    BY <1>0, AgentType
       DEF TypeRest, PlaceQuiet, PlacePart, Placeless, NoPlaceYet, Unborn, Deciding,
           InAcquire, CloseAll, Event
  <1>5. UseQuiet
    BY <1>0, AgentType, SessionsAssumption DEF TypeRest, UseQuiet, CloseAll, Event
  <1>6. UsePart'
    <2>1. /\ \A q \in Callers : scan'[q].cands \subseteq scan[q].cands
          /\ finish' \in {finish, NoOne}
      BY DEF CloseAll, Event
    <2> QED BY <1>0, <1>1, <1>5, <2>1, UseFrame
  <1> QED BY <1>0, <1>1, <1>2, <1>3, <1>4, <1>6, ProcFrame, PlaceFrame DEF IInv

\* The records evictLRU keeps.
Scans == [at : {"off", "scan", "try"}, scope : SUBSET Agents,
          cands : SUBSET Candidate, victim : Callers \cup {NoOne}]

\* No eviction, with or without what it last closed.
LEMMA NoScanType ==
    /\ NoScan \in Scans /\ NoScan.at = "off" /\ NoScan.cands = {} /\ NoScan.victim = NoOne
    /\ \A b \in Callers : [NoScan EXCEPT !.victim = b] \in Scans
                          /\ [NoScan EXCEPT !.victim = b].at = "off"
                          /\ [NoScan EXCEPT !.victim = b].cands = {}
                          /\ [NoScan EXCEPT !.victim = b].victim = b
    /\ \A s \in SUBSET Agents : [NoScan EXCEPT !.at = "scan", !.scope = s] \in Scans
                          /\ [NoScan EXCEPT !.at = "scan", !.scope = s].at = "scan"
                          /\ [NoScan EXCEPT !.at = "scan", !.scope = s].cands = {}
                          /\ [NoScan EXCEPT !.at = "scan", !.scope = s].victim = NoOne
  BY DEF NoScan, Scans

\* A mapped backend whose session is idle is a fresh candidate.
LEMMA IdleFresh ==
    ASSUME TypeRest, ProcPart, UsePart, NEW k \in Keys, backends[k] # NoOne,
           Evictable(k, backends[k])
    PROVE  /\ [mb |-> backends[k], seen |-> uses[backends[k]]] \in Candidate
           /\ FreshOne([mb |-> backends[k], seen |-> uses[backends[k]]])
  <1> DEFINE b == backends[k]
             c == [mb |-> b, seen |-> uses[b]]
  <1>1. b \in Callers /\ KeyOf[b] = k /\ pc[b] \in Born /\ uses[b] \in Nat
    BY DEF TypeRest, ProcPart, MapKeys
  <1>2. \A q \in Callers : KeyOf[q] = k => pc[q] \in {"idle", "done"}
    BY DEF Evictable, SessionBusy
  <1>3. pc[b] = "done"
    BY <1>1, <1>2 DEF Born
  <1>4. \A q \in Callers : pc[q] = "using" => got[q] # b
    BY <1>1, <1>2 DEF UsePart, UserOf
  <1> HIDE DEF b
  <1>5. c \in Candidate /\ c.mb = b /\ c.seen = uses[b] /\ c.seen <= uses[b]
    BY <1>1 DEF Candidate
  <1>6. FreshOne(c)
    BY <1>3, <1>4, <1>5 DEF FreshOne
  <1> QED BY <1>5, <1>6 DEF b

LEMMA FinishScanStep ==
    ASSUME IInv, NEW k \in Keys, FinishScan(k)
    PROVE  IInv'
  <1>0. TypeRest /\ TypeScan /\ ProcPart /\ PlacePart /\ UsePart
    BY DEF IInv
  <1>1. TypeRest'
    BY <1>0, SessionsAssumption DEF TypeRest, FinishScan, Event, manager
  <1> DEFINE d == [mb |-> backends[k], seen |-> uses[backends[k]]]
  <1>2. PICK c \in Candidate : c = d
    BY <1>0, IdleFresh DEF FinishScan
  <1>3. FreshOne(c) /\ finish' = c
    BY <1>0, <1>2, IdleFresh DEF FinishScan
  <1>4. TypeScan'
    BY <1>0, <1>3 DEF TypeScan, FinishScan
  <1>5. ProcQuiet
    BY <1>0 DEF TypeRest, ProcQuiet, QuietMove, FinishScan, manager
  <1>6. PlaceQuiet
    BY <1>0 DEF PlaceQuiet, PlacePart, Placeless, FinishScan
  <1>7. UseQuiet
    <2>1. \A b \in Callers : uses[b] <= uses[b]
      BY <1>0 DEF TypeRest
    <2> QED BY <2>1 DEF UseQuiet, FinishScan, manager
  <1>8. UsePart'
    <2>1. ASSUME NEW p \in Callers, NEW e \in scan'[p].cands PROVE FreshOne(e)'
      <3>1. scan[p].cands \in SUBSET Candidate /\ scan' = scan
        BY <1>0 DEF TypeScan, FinishScan
      <3>2. e \in Candidate /\ FreshOne(e)
        BY <1>0, <2>1, <3>1 DEF UsePart, Fresh
      <3> QED BY <1>0, <1>1, <1>7, <3>2, FreshFrame
    <2>2. FreshOne(c)'
      BY <1>0, <1>1, <1>3, <1>7, FreshFrame
    <2>3. FreshOne(finish)'
      BY <1>3, <2>2 DEF FreshOne
    <2>4. UserOf'
      BY <1>0 DEF UsePart, UserOf, FinishScan
    <2> QED BY <2>1, <2>3, <2>4 DEF UsePart, Fresh
  <1> QED BY <1>0, <1>1, <1>4, <1>5, <1>6, <1>8, ProcFrame, PlaceFrame DEF IInv

LEMMA IdleCandidatesStep ==
    ASSUME IInv, NEW p \in Callers, IdleCandidates(p)
    PROVE  IInv'
  <1>0. TypeRest /\ TypeScan /\ ProcPart /\ PlacePart /\ UsePart
    BY DEF IInv
  <1>1. TypeRest'
    BY <1>0 DEF TypeRest, IdleCandidates, manager, outside
  <1> DEFINE new == {[mb |-> backends[k], seen |-> uses[backends[k]]] :
                        k \in {k \in Keys : /\ AgentOf[k] \in scan[p].scope
                                            /\ backends[k] # NoOne
                                            /\ ~creating[backends[k]]
                                            /\ Evictable(k, backends[k])}}
  <1>2. new \in SUBSET Candidate /\ \A c \in new : FreshOne(c)
    BY <1>0, IdleFresh
  <1>3. scan[p].at = "scan" /\ scan' = [scan EXCEPT ![p].at = "try", ![p].cands = new]
    BY DEF IdleCandidates
  <1> HIDE DEF new
  <1>4. /\ scan'[p].at = "try" /\ scan'[p].cands = new
        /\ scan'[p].victim = scan[p].victim
        /\ \A q \in Callers \ {p} : scan'[q] = scan[q]
    BY <1>0, <1>3 DEF TypeScan
  <1>5. TypeScan'
    <2>1. scan' \in [Callers -> Scans]
      BY <1>0, <1>2, <1>3 DEF TypeScan, Scans
    <2> QED BY <1>0, <2>1 DEF TypeScan, IdleCandidates, outside, Scans
  <1>6. ProcQuiet
    BY <1>0 DEF TypeRest, ProcQuiet, QuietMove, IdleCandidates, manager, outside
  <1>7. PlaceQuiet
    <2>1. \A q \in Callers : scan[q].at # "off" => scan[q].victim = NoOne
      BY <1>0 DEF PlacePart, Placeless
    <2>2. \A q \in Callers : scan'[q].at # "off" =>
             scan[q].at # "off" /\ scan'[q].victim = NoOne
      <3> TAKE q \in Callers
      <3>1. CASE q = p
        BY <1>3, <1>4, <2>1, <3>1
      <3>2. CASE q # p
        BY <1>4, <2>1, <3>2
      <3> QED BY <3>1, <3>2
    <2>3. lim' = lim /\ place' = place /\ trim' = trim /\ pc' = pc
      BY DEF IdleCandidates
    <2> QED BY <2>2, <2>3 DEF PlaceQuiet
  <1>8. UseQuiet
    <2>1. \A b \in Callers : uses[b] <= uses[b]
      BY <1>0 DEF TypeRest
    <2> QED BY <2>1 DEF UseQuiet, IdleCandidates, manager
  <1>9. UsePart'
    <2>1. ASSUME NEW q \in Callers, NEW e \in scan'[q].cands PROVE FreshOne(e)'
      <3>1. scan[q].cands \in SUBSET Candidate
        BY <1>0 DEF TypeScan
      <3>2. e \in Candidate /\ FreshOne(e)
        BY <1>0, <1>2, <1>4, <2>1, <3>1 DEF UsePart, Fresh
      <3> QED BY <1>0, <1>1, <1>8, <3>2, FreshFrame
    <2>2. UserOf'
      BY <1>0 DEF UsePart, UserOf, IdleCandidates
    <2>3. finish' # NoOne => FreshOne(finish)'
      BY <1>0 DEF UsePart, Fresh, FreshOne, IdleCandidates, outside, manager
    <2> QED BY <2>1, <2>2, <2>3 DEF UsePart, Fresh
  <1> QED BY <1>0, <1>1, <1>5, <1>6, <1>7, <1>9, ProcFrame, PlaceFrame DEF IInv

\* evictLRU returns: p's acquire goes on, or the trim of its place.
LEMMA EvictEnds ==
    ASSUME TypeRest, PlacePart, NEW p \in Callers, scan[p].at # "off",
           NEW found \in BOOLEAN, EvictReturns(p, found),
           lim' = lim, place' = place, scan'[p].at = "off",
           \A q \in Callers \ {p} : scan'[q] = scan[q]
    PROVE  /\ pc' \in [Callers -> PC] /\ trim' \in [Callers -> {"off", "top", "evict"}]
           /\ \A q \in Callers : QuietMove(pc[q], pc'[q])
           /\ \A q \in Callers : pc[q] \in {"done", "using"} \/ pc'[q] = "using"
                                    => pc'[q] = pc[q]
           /\ PlacePart'
  <1>1. pc[p] = "evict" \/ trim[p] = "evict"
    BY DEF PlacePart, Placeless
  <1>2. /\ pc' \in [Callers -> PC] /\ trim' \in [Callers -> {"off", "top", "evict"}]
        /\ \A q \in Callers : \/ pc'[q] = pc[q]
                              \/ q = p /\ pc[p] = "evict" /\ pc'[p] \in {"acquire", "settle"}
        /\ \A q \in Callers : \/ trim'[q] = trim[q]
                              \/ q = p /\ trim[p] = "evict" /\ trim'[p] \in {"top", "off"}
    <2>1. CASE trim[p] = "evict"
      BY <2>1 DEF EvictReturns, TypeRest
    <2>2. CASE trim[p] # "evict"
      BY <1>1, <2>2 DEF EvictReturns, Goto, TypeRest, PC, Flight
    <2> QED BY <2>1, <2>2
  <1>3. \A q \in Callers : QuietMove(pc[q], pc'[q])
    BY <1>2 DEF QuietMove, Deciding
  <1>4. \A q \in Callers : pc[q] \in {"done", "using"} \/ pc'[q] = "using"
                              => pc'[q] = pc[q]
    BY <1>2
  <1>5. Held' = Held /\ Leaving' = Leaving
    BY <1>2 DEF Held, Leaving
  <1>6. Sound(lim, Held)' /\ Short(lim, Leaving)'
    BY <1>5 DEF PlacePart
  <1>7. Placeless'
    BY <1>2 DEF PlacePart, Placeless, NoPlaceYet, Unborn, Deciding
  <1>8. QueueWhere'
    <2>1. \A q \in Callers : Queued(lim, q) => pc'[q] \in InAcquire /\ q \in Users
      BY <1>2 DEF PlacePart, QueueWhere, InAcquire
    <2> QED BY <2>1 DEF QueueWhere
  <1> QED BY <1>2, <1>3, <1>4, <1>6, <1>7, <1>8 DEF PlacePart

LEMMA TryEvictStep ==
    ASSUME IInv, NEW p \in Callers, TryEvict(p)
    PROVE  IInv'
  <1>0. TypeRest /\ TypeScan /\ ProcPart /\ PlacePart /\ UsePart
    BY DEF IInv
  <1>1. /\ scan \in [Callers -> Scans] /\ scan[p].at = "try" /\ scan[p].at # "off"
        /\ scan[p].cands \in SUBSET Candidate
    BY <1>0 DEF TryEvict, TypeScan, Scans
  <1>2. /\ lim' = lim /\ place' = place /\ proc' = proc /\ creating' = creating
        /\ uses' = uses /\ resumed' = resumed /\ retried' = retried /\ got' = got
        /\ finish' = finish /\ stop' = stop /\ work' = work /\ events' = events
    BY DEF TryEvict, outside
  <1>u. \A b \in Callers : uses[b] <= uses[b]
    BY <1>0 DEF TypeRest
  \* The eviction ends, with or without a victim.
  <1>3. ASSUME NEW s \in Scans, s.at = "off", s.cands = {},
               scan' = [scan EXCEPT ![p] = s],
               NEW found \in BOOLEAN, EvictReturns(p, found),
               \/ UNCHANGED <<backends, removed, resume>>
               \/ \E k \in Keys : /\ backends[k] \in Callers
                                  /\ backends' = [backends EXCEPT ![k] = NoOne]
                                  /\ removed' = removed \cup {backends[k]}
                                  /\ resume' = resume \cup {k}
        PROVE  IInv'
    <2>1. scan' \in [Callers -> Scans] /\ scan'[p] = s
          /\ \A q \in Callers \ {p} : scan'[q] = scan[q]
      BY <1>1, <1>3
    <2>2. /\ pc' \in [Callers -> PC] /\ trim' \in [Callers -> {"off", "top", "evict"}]
          /\ \A q \in Callers : QuietMove(pc[q], pc'[q])
          /\ \A q \in Callers : pc[q] \in {"done", "using"} \/ pc'[q] = "using"
                                   => pc'[q] = pc[q]
          /\ PlacePart'
      BY <1>0, <1>1, <1>2, <1>3, <2>1, EvictEnds
    <2>3. TypeRest'
      BY <1>0, <1>2, <1>3, <2>2 DEF TypeRest
    <2>4. TypeScan'
      BY <1>0, <1>2, <2>1 DEF TypeScan, Scans
    <2>5. ProcQuiet
      BY <1>0, <1>2, <1>3, <2>2 DEF ProcQuiet, TypeRest
    <2>6. UseQuiet
      BY <1>2, <1>u, <2>2 DEF UseQuiet
    <2>7. \A q \in Callers : scan'[q].cands \subseteq scan[q].cands
      BY <1>3, <2>1
    <2>8. UsePart'
      BY <1>0, <1>2, <2>3, <2>6, <2>7, UseFrame
    <2> QED BY <1>0, <2>2, <2>3, <2>4, <2>5, <2>8, ProcFrame DEF IInv
  <1>4. CASE scan[p].cands = {} /\ scan' = [scan EXCEPT ![p] = NoScan]
             /\ EvictReturns(p, FALSE) /\ UNCHANGED <<backends, removed, resume>>
    BY <1>3, <1>4, NoScanType
  <1>5. ASSUME NEW c \in scan[p].cands, Exact(KeyOf[c.mb], c), Unmap(KeyOf[c.mb]),
               resume' = resume \cup {KeyOf[c.mb]}, EvictReturns(p, TRUE),
               scan' = [scan EXCEPT ![p] = [NoScan EXCEPT !.victim = c.mb]]
        PROVE  IInv'
    <2>1. c.mb \in Callers /\ KeyOf[c.mb] \in Keys
      BY <1>1, AgentType DEF Candidate
    <2>2. /\ backends[KeyOf[c.mb]] \in Callers
          /\ backends' = [backends EXCEPT ![KeyOf[c.mb]] = NoOne]
          /\ removed' = removed \cup {backends[KeyOf[c.mb]]}
      BY <1>5, <2>1 DEF Exact, Unmap
    <2> DEFINE s == [NoScan EXCEPT !.victim = c.mb]
    <2>3. s \in Scans /\ s.at = "off" /\ s.cands = {}
      BY <2>1, NoScanType
    <2> HIDE DEF s
    <2>4. scan' = [scan EXCEPT ![p] = s]
      BY <1>5 DEF s
    <2> QED BY <1>3, <1>5, <2>1, <2>2, <2>3, <2>4
  <1>6. ASSUME NEW c \in scan[p].cands, scan' = [scan EXCEPT ![p].cands = @ \ {c}],
               UNCHANGED <<backends, removed, resume, pc, trim>>
        PROVE  IInv'
    <2>1. scan' \in [Callers -> Scans] /\ scan'[p].cands = scan[p].cands \ {c}
          /\ scan'[p].at = scan[p].at /\ scan'[p].victim = scan[p].victim
          /\ \A q \in Callers \ {p} : scan'[q] = scan[q]
      BY <1>1, <1>6 DEF Scans
    <2>2. TypeRest'
      BY <1>0, <1>2, <1>6 DEF TypeRest
    <2>3. TypeScan'
      BY <1>0, <1>2, <2>1 DEF TypeScan, Scans
    <2>4. ProcQuiet
      BY <1>0, <1>2, <1>6 DEF ProcQuiet, QuietMove, TypeRest
    <2>5. PlaceQuiet
      <3>1. \A q \in Callers : scan'[q].at = scan[q].at /\ scan'[q].victim = scan[q].victim
        BY <2>1
      <3>2. \A q \in Callers : scan[q].at # "off" => scan[q].victim = NoOne
        BY <1>0 DEF PlacePart, Placeless
      <3> QED BY <1>2, <1>6, <3>1, <3>2 DEF PlaceQuiet
    <2>6. UseQuiet
      BY <1>2, <1>6, <1>u DEF UseQuiet
    <2>7. \A q \in Callers : scan'[q].cands \subseteq scan[q].cands
      BY <2>1
    <2>8. UsePart'
      BY <1>0, <1>2, <2>2, <2>6, <2>7, UseFrame
    <2> QED BY <1>0, <2>2, <2>3, <2>4, <2>5, <2>8, ProcFrame, PlaceFrame DEF IInv
  <1> QED BY <1>4, <1>5, <1>6 DEF TryEvict

LEMMA TrimStep ==
    ASSUME IInv, NEW p \in Callers, Trim(p)
    PROVE  IInv'
  <1>0. TypeRest /\ TypeScan /\ ProcPart /\ PlacePart /\ UsePart
    BY DEF IInv
  <1>1. scan \in [Callers -> Scans]
    BY <1>0 DEF TypeScan, Scans
  <1>2. /\ lim' = lim /\ place' = place /\ pc' = pc /\ got' = got /\ uses' = uses
        /\ finish' = finish /\ backends' = backends /\ removed' = removed
        /\ proc' = proc /\ retried' = retried /\ stop' = stop
    BY DEF Trim, manager, outside
  <1>3. PICK s \in Scans :
           /\ scan' = [scan EXCEPT ![p] = s] /\ s.cands = {} /\ s.victim = NoOne
           /\ \/ s.at = "scan" /\ trim' = [trim EXCEPT ![p] = "evict"]
              \/ s.at = "off" /\ trim' = [trim EXCEPT ![p] = "off"]
    <2>1. CASE trim' = [trim EXCEPT ![p] = "off"] /\ scan' = [scan EXCEPT ![p] = NoScan]
      BY <2>1, NoScanType
    <2>2. ASSUME NEW t \in SUBSET Agents, trim' = [trim EXCEPT ![p] = "evict"],
                 scan' = [scan EXCEPT ![p] = [NoScan EXCEPT !.at = "scan", !.scope = t]]
          PROVE  \E s \in Scans :
                    /\ scan' = [scan EXCEPT ![p] = s] /\ s.cands = {} /\ s.victim = NoOne
                    /\ s.at = "scan" /\ trim' = [trim EXCEPT ![p] = "evict"]
      <3> DEFINE u == [NoScan EXCEPT !.at = "scan", !.scope = t]
      <3>1. u \in Scans /\ u.at = "scan" /\ u.cands = {} /\ u.victim = NoOne
        BY NoScanType
      <3>2. scan' = [scan EXCEPT ![p] = u]
        BY <2>2
      <3> HIDE DEF u
      <3> QED BY <2>2, <3>1, <3>2
    <2>3. CASE OverCap(lim)
      <3> DEFINE over == {a \in Agents : AgentOver(lim, a)}
      <3>1. PICK t \in (IF over = {} THEN {Agents} ELSE {{a} : a \in over}) :
               scan' = [scan EXCEPT ![p] = [NoScan EXCEPT !.at = "scan", !.scope = t]]
        BY <2>3 DEF Trim
      <3>2. t \in SUBSET Agents /\ trim' = [trim EXCEPT ![p] = "evict"]
        BY <2>3, <3>1 DEF Trim
      <3> QED BY <2>2, <3>1, <3>2
    <2>4. CASE ~OverCap(lim)
      BY <2>1, <2>4 DEF Trim
    <2> QED BY <2>3, <2>4
  <1>4. scan' \in [Callers -> Scans] /\ scan'[p] = s
        /\ \A q \in Callers \ {p} : scan'[q] = scan[q]
    BY <1>1, <1>3
  <1>5. TypeRest'
    BY <1>0, <1>3 DEF TypeRest, Trim, manager, outside
  <1>6. TypeScan'
    BY <1>0, <1>2, <1>4 DEF TypeScan, Scans
  <1>7. ProcQuiet
    BY <1>0, <1>2 DEF ProcQuiet, QuietMove, TypeRest
  <1>8. PlacePart'
    <2>1. Held' = Held /\ Leaving' = Leaving
      BY <1>2 DEF Held, Leaving
    <2>2. Sound(lim, Held)' /\ Short(lim, Leaving)'
      BY <1>0, <1>2, <2>1 DEF PlacePart
    <2>3. place[p] = "freed"
      BY <1>0 DEF Trim, PlacePart, Placeless
    <2>4. Placeless'
      BY <1>0, <1>2, <1>3, <1>4, <2>3 DEF PlacePart, Placeless, TypeRest
    <2>5. QueueWhere'
      BY <1>0, <1>2 DEF PlacePart, QueueWhere
    <2> QED BY <2>2, <2>4, <2>5 DEF PlacePart
  <1>9. UseQuiet
    <2>1. \A b \in Callers : uses[b] <= uses[b]
      BY <1>0 DEF TypeRest
    <2> QED BY <1>2, <2>1 DEF UseQuiet
  <1>10. \A q \in Callers : scan'[q].cands \subseteq scan[q].cands
    BY <1>3, <1>4
  <1>11. UsePart'
    BY <1>0, <1>2, <1>5, <1>9, <1>10, UseFrame
  <1> QED BY <1>0, <1>5, <1>6, <1>7, <1>8, <1>11, ProcFrame DEF IInv

\* livePlace.release, from whatever closes the backend.
LEMMA ReleaseMoves ==
    ASSUME TypeRest, PlacePart, NEW b \in Callers, Release(b)
    PROVE  /\ place' \in [Callers -> {"none", "held", "freed"}]
           /\ trim' \in [Callers -> {"off", "top", "evict"}]
           /\ \A q \in Callers : \/ place'[q] = place[q] /\ trim'[q] = trim[q]
                                 \/ /\ place[q] = "held" /\ place'[q] = "freed"
                                    /\ trim[q] = "off" /\ trim'[q] # "evict"
           /\ Sound(lim', Held') /\ Short(lim', Leaving)
           /\ InTurn(lim, lim', {})
           /\ \A q \in Callers : Queued(lim', q) <=> Queued(lim, q)
           /\ \A q \in Callers : place'[q] = "held" => place[q] = "held"
  <1>1. Sound(lim, Held) /\ Short(lim, Leaving) /\ Held \in SUBSET Callers
    BY DEF PlacePart, Held
  <1>2. CASE place[b] # "held"
    <2>1. lim' = lim /\ place' = place /\ trim' = trim
      BY <1>2 DEF Release
    <2>2. Held' = Held
      BY <2>1 DEF Held
    <2>3. InTurn(lim, lim, {})
      BY DEF InTurn
    <2> QED BY <1>1, <2>1, <2>2, <2>3 DEF TypeRest
  <1>3. CASE place[b] = "held"
    <2>1. /\ lim' = Free(lim, Agent(b)) /\ place' = [place EXCEPT ![b] = "freed"]
          /\ trim' \in {trim, [trim EXCEPT ![b] = "top"]}
      BY <1>3 DEF Release
    <2>2. b \in Held /\ Held' = Held \ {b} /\ trim[b] = "off"
      BY <1>3, <2>1 DEF Held, TypeRest, PlacePart, Placeless
    <2>3. /\ Sound(lim', Held') /\ Short(lim', {}) /\ InTurn(lim, lim', {})
          /\ \A q \in Callers : Queued(lim', q) <=> Queued(lim, q)
      BY <1>1, <2>1, <2>2, FreeSound
    <2>4. Short(lim', Leaving)
      BY <2>3 DEF Short
    <2>5. /\ place' \in [Callers -> {"none", "held", "freed"}]
          /\ trim' \in [Callers -> {"off", "top", "evict"}]
          /\ \A q \in Callers : \/ place'[q] = place[q] /\ trim'[q] = trim[q]
                                \/ /\ place[q] = "held" /\ place'[q] = "freed"
                                   /\ trim[q] = "off" /\ trim'[q] # "evict"
      BY <1>3, <2>1, <2>2 DEF TypeRest
    <2>6. \A q \in Callers : place'[q] = "held" => place[q] = "held"
      BY <2>5
    <2> QED BY <2>3, <2>4, <2>5, <2>6
  <1> QED BY <1>2, <1>3

LEMMA CloseRemovedStep ==
    ASSUME IInv, NEW p \in Callers, CloseRemoved(p)
    PROVE  IInv'
  <1>0. TypeRest /\ TypeScan /\ ProcPart /\ PlacePart /\ UsePart
    BY DEF IInv
  <1>1. /\ pc' = pc /\ got' = got /\ uses' = uses /\ scan' = scan /\ finish' = finish
        /\ backends' = backends /\ retried' = retried /\ stop' = stop
        /\ removed' = removed \ {p} /\ p \in removed
        /\ proc' = [proc EXCEPT ![p] = "dead"]
    BY DEF CloseRemoved
  <1>2. /\ place' \in [Callers -> {"none", "held", "freed"}]
        /\ trim' \in [Callers -> {"off", "top", "evict"}]
        /\ \A q \in Callers : \/ place'[q] = place[q] /\ trim'[q] = trim[q]
                              \/ /\ place[q] = "held" /\ place'[q] = "freed"
                                 /\ trim[q] = "off" /\ trim'[q] # "evict"
        /\ Sound(lim', Held') /\ Short(lim', Leaving)
        /\ \A q \in Callers : Queued(lim', q) <=> Queued(lim, q)
    BY <1>0, ReleaseMoves DEF CloseRemoved
  <1>3. TypeRest'
    BY <1>0, <1>2 DEF TypeRest, CloseRemoved
  <1>4. TypeScan'
    BY <1>0, <1>1 DEF TypeScan
  <1>5. ProcQuiet
    <2>1. pc[p] \notin Unborn
      BY <1>0, <1>1 DEF ProcPart, RemovedBorn, Born, Unborn, Deciding
    <2> QED BY <1>0, <1>1, <2>1 DEF ProcQuiet, QuietMove, TypeRest
  <1>6. PlacePart'
    <2>1. Leaving' = Leaving
      BY <1>1 DEF Leaving
    <2>2. Placeless'
      BY <1>0, <1>1, <1>2 DEF PlacePart, Placeless
    <2>3. QueueWhere'
      BY <1>0, <1>1, <1>2 DEF PlacePart, QueueWhere
    <2> QED BY <1>2, <2>1, <2>2, <2>3 DEF PlacePart
  <1>7. UseQuiet
    <2>1. \A b \in Callers : uses[b] <= uses[b]
      BY <1>0 DEF TypeRest
    <2> QED BY <1>1, <2>1 DEF UseQuiet
  <1>8. UsePart'
    BY <1>0, <1>1, <1>3, <1>7, UseFrame
  <1> QED BY <1>0, <1>3, <1>4, <1>5, <1>6, <1>8, ProcFrame DEF IInv

LEMMA FailStep ==
    ASSUME IInv, NEW p \in Callers, Fail(p)
    PROVE  IInv'
  <1>0. TypeRest /\ TypeScan /\ ProcPart /\ PlacePart /\ UsePart
    BY DEF IInv
  <1>1. /\ uses' = uses /\ scan' = scan /\ finish' = finish
        /\ backends' = backends /\ retried' = retried /\ stop' = stop
        /\ removed' = removed /\ proc' = proc /\ pc[p] = "fail"
    BY DEF Fail, outside
  <1>2. /\ place' \in [Callers -> {"none", "held", "freed"}]
        /\ trim' \in [Callers -> {"off", "top", "evict"}]
        /\ \A q \in Callers : \/ place'[q] = place[q] /\ trim'[q] = trim[q]
                              \/ /\ place[q] = "held" /\ place'[q] = "freed"
                                 /\ trim[q] = "off" /\ trim'[q] # "evict"
        /\ Sound(lim', Held') /\ Short(lim', Leaving)
        /\ \A q \in Callers : Queued(lim', q) <=> Queued(lim, q)
    BY <1>0, ReleaseMoves DEF Fail
  <1>r. /\ pc' \in [Callers -> PC] /\ got' \in [Callers -> Callers \cup {NoOne}]
        /\ \A q \in Callers :
              \/ pc'[q] = pc[q] /\ got'[q] = got[q] /\ q # p
              \/ /\ q = p \/ pc[q] = "joined"
                 /\ KeyOf[q] = KeyOf[p] /\ got'[q] = NoOne /\ pc'[q] = "done"
    BY <1>0, ReturnMoves DEF Fail
  <1>3. TypeRest'
    BY <1>0, <1>2, <1>r DEF TypeRest, Fail, outside
  <1>4. TypeScan'
    BY <1>0, <1>1 DEF TypeScan
  <1>5. ProcQuiet
    BY <1>0, <1>1, <1>r DEF ProcQuiet, QuietMove, TypeRest
  <1>6. PlacePart'
    <2>1. Leaving' = Leaving
      BY <1>1, <1>r DEF Leaving
    <2>2. Placeless'
      BY <1>0, <1>1, <1>2, <1>r DEF PlacePart, Placeless, NoPlaceYet, Unborn, Deciding
    <2>3. QueueWhere'
      BY <1>0, <1>1, <1>2, <1>r DEF PlacePart, QueueWhere, InAcquire
    <2> QED BY <1>2, <2>1, <2>2, <2>3 DEF PlacePart
  <1>7. UseQuiet
    <2>1. \A b \in Callers : uses[b] <= uses[b]
      BY <1>0 DEF TypeRest
    <2> QED BY <1>1, <1>r, <2>1 DEF UseQuiet
  <1>8. UsePart'
    BY <1>0, <1>1, <1>3, <1>7, UseFrame
  <1> QED BY <1>0, <1>3, <1>4, <1>5, <1>6, <1>8, ProcFrame DEF IInv

\* A caller takes a place at its own hand.
LEMMA TakePlace ==
    ASSUME PlacePart, NEW p \in Callers, place[p] # "held",
           lim' = Reserve(lim, Agent(p)), Held' = Held \cup {p}
    PROVE  /\ Sound(lim', Held') /\ Short(lim', Leaving)
           /\ lim'.granted = lim.granted
           /\ \A q : Queued(lim', q) <=> Queued(lim, q)
  <1>1. /\ lim \in Limiter /\ Once(lim) /\ Charged(lim, Held) /\ Short(lim, Leaving)
        /\ \A q \in lim.granted : Queued(lim, q)
        /\ Held \in SUBSET Callers /\ p \notin Held /\ Agent(p) \in Agents
    BY AgentType DEF PlacePart, Sound, Held
  <1>2. /\ lim' \in Limiter /\ lim'.live = lim.live + 1
        /\ lim'.perAgent = [lim.perAgent EXCEPT ![Agent(p)] = @ + 1]
        /\ lim'.waiters = lim.waiters /\ lim'.granted = lim.granted
    BY <1>1, ReserveIs
  <1>3. Charged(lim', Held')
    BY <1>1, ReserveCharged
  <1>4. \A q : Queued(lim', q) <=> Queued(lim, q)
    BY <1>2, AheadSame
  <1>5. Sound(lim', Held')
    BY <1>1, <1>2, <1>3, <1>4 DEF Sound, Once
  <1>6. lim.live <= lim'.live /\ \A a \in Agents : lim.perAgent[a] <= lim'.perAgent[a]
    <2>1. lim.live \in Nat /\ lim.perAgent \in [Agents -> Nat]
      BY <1>1, LimiterFields
    <2> QED BY <1>2, <2>1
  <1>7. \A q \in Callers : Agent(q) \in Agents
    BY AgentType
  <1>8. \A a \in Agents : Full(lim, a) => Full(lim', a)
    BY <1>1, <1>2, <1>6, FullStays
  <1>9. Short(lim', Leaving)
    BY <1>1, <1>2, <1>4, <1>7, <1>8 DEF Short
  <1> QED BY <1>2, <1>4, <1>5, <1>9

\* A waiter picks up its grant.
LEMMA PickUp ==
    ASSUME PlacePart, NEW p \in lim.granted, place[p] # "held",
           lim' = [lim EXCEPT !.granted = @ \ {p}], Held' = Held \cup {p}
    PROVE  /\ Sound(lim', Held') /\ Short(lim', Leaving \cup {p})
           /\ lim'.granted = lim.granted \ {p}
           /\ \A q : Queued(lim', q) <=> Queued(lim, q)
  <1>1. /\ lim \in Limiter /\ Once(lim) /\ Charged(lim, Held) /\ Short(lim, Leaving)
        /\ \A q \in lim.granted : Queued(lim, q)
        /\ Held \in SUBSET Callers /\ p \notin Held
    BY DEF PlacePart, Sound, Held
  <1>2. lim' \in Limiter /\ Charged(lim', Held')
    BY <1>1, HandOutCharged
  <1>3. /\ lim'.live = lim.live /\ lim'.perAgent = lim.perAgent
        /\ lim'.waiters = lim.waiters /\ lim'.granted = lim.granted \ {p}
    BY <1>1 DEF Limiter
  <1>4. \A q : Queued(lim', q) <=> Queued(lim, q)
    BY <1>3, AheadSame
  <1>5. Sound(lim', Held')
    BY <1>1, <1>2, <1>3, <1>4 DEF Sound, Once
  <1>6. Short(lim', Leaving \cup {p})
    BY <1>1, <1>3, <1>4 DEF Short, Full, AgentFull, GlobalFull
  <1> QED BY <1>3, <1>4, <1>5, <1>6

\* A step of acquire: what it must show of the place part.
LEMMA AcquireFrame ==
    ASSUME IInv, NEW p \in Callers, pc[p] \in InAcquire,
           NEW new \in Deciding, pc' = [pc EXCEPT ![p] = new],
           NEW pl \in {"none", "held", "freed"}, place' = [place EXCEPT ![p] = pl],
           NEW s \in Scans, scan' = [scan EXCEPT ![p] = s], s.cands \subseteq scan[p].cands,
           UNCHANGED <<manager, resumed, retried, got, trim, finish, stop, work>>,
           events' \in 0..MaxEvents,
           Sound(lim', Held'), Short(lim', Leaving'), Placeless', QueueWhere'
    PROVE  IInv'
  <1>0. TypeRest /\ TypeScan /\ ProcPart /\ PlacePart /\ UsePart
    BY DEF IInv
  <1>1. new \in PC /\ new \notin {"using", "done"} /\ pc[p] \notin {"using", "done"}
    BY DEF PC, Deciding, InAcquire, Flight
  <1>2. TypeRest'
    BY <1>0, <1>1 DEF TypeRest, manager
  <1>3. TypeScan'
    <2>1. scan' \in [Callers -> Scans]
      BY <1>0 DEF TypeScan, Scans
    <2> QED BY <1>0, <2>1 DEF TypeScan, Scans
  <1>4. ProcQuiet
    <2>1. pc[p] \in Deciding
      BY DEF InAcquire, Deciding
    <2> QED BY <1>0, <2>1 DEF ProcQuiet, QuietMove, TypeRest, manager
  <1>5. PlacePart'
    BY DEF PlacePart
  <1>6. UseQuiet
    <2>1. \A b \in Callers : uses[b] <= uses[b]
      BY <1>0 DEF TypeRest
    <2> QED BY <1>0, <1>1, <2>1 DEF UseQuiet, TypeRest, manager
  <1>7. \A q \in Callers : scan'[q].cands \subseteq scan[q].cands
    BY <1>0 DEF TypeScan
  <1>8. UsePart'
    BY <1>0, <1>2, <1>6, <1>7, UseFrame
  <1> QED BY <1>0, <1>2, <1>3, <1>4, <1>5, <1>8, ProcFrame DEF IInv

LEMMA AcquireStep ==
    ASSUME IInv, NEW p \in Callers, Acquire(p)
    PROVE  IInv'
  <1>0. TypeRest /\ TypeScan /\ ProcPart /\ PlacePart /\ UsePart
    BY DEF IInv
  <1>1. /\ pc[p] = "acquire" /\ pc[p] \in InAcquire /\ place[p] = "none"
        /\ trim[p] # "evict" /\ events' \in 0..MaxEvents
        /\ UNCHANGED <<manager, resumed, retried, got, trim, finish, stop, work>>
    BY <1>0 DEF Acquire, InAcquire, PlacePart, Placeless, NoPlaceYet, Unborn, Deciding,
                TypeRest, outside
  <1>2. {"giveup", "leave", "start", "evict", "settle"} \subseteq Deciding
    BY DEF Deciding
  \* The branches that leave the limiter alone.
  <1>3. ASSUME NEW new \in {"giveup", "evict", "settle"}, pc' = [pc EXCEPT ![p] = new],
               NEW s \in Scans, scan' = [scan EXCEPT ![p] = s], s.cands = {},
               s.victim = NoOne, s.at = "off" \/ new = "evict",
               UNCHANGED <<lim, place>>
        PROVE  IInv'
    <2>1. Held' = Held /\ Leaving' = Leaving /\ place' = [place EXCEPT ![p] = "none"]
      BY <1>0, <1>1, <1>3 DEF Held, Leaving, TypeRest
    <2>2. Sound(lim', Held') /\ Short(lim', Leaving')
      BY <1>0, <1>3, <2>1 DEF PlacePart
    <2>3. /\ pc'[p] = new /\ scan'[p] = s
          /\ \A q \in Callers \ {p} : pc'[q] = pc[q] /\ scan'[q] = scan[q]
      BY <1>0, <1>3 DEF TypeRest, TypeScan
    <2>4. Placeless'
      BY <1>0, <1>1, <1>3, <2>3 DEF PlacePart, Placeless
    <2>5. QueueWhere'
      BY <1>0, <1>3, <2>3, <1>1 DEF PlacePart, QueueWhere, InAcquire
    <2>6. new \in Deciding /\ s.cands \subseteq scan[p].cands
      BY <1>2, <1>3
    <2> QED BY <1>1, <1>3, <2>1, <2>2, <2>4, <2>5, <2>6, AcquireFrame
  \* The branches that take a place.
  <1>4. ASSUME NEW new \in {"leave", "start"}, pc' = [pc EXCEPT ![p] = new],
               scan' = [scan EXCEPT ![p] = NoScan],
               place' = [place EXCEPT ![p] = "held"],
               \/ /\ p \in lim.granted /\ lim' = [lim EXCEPT !.granted = @ \ {p}]
                  /\ new = "leave"
               \/ /\ lim' = Reserve(lim, Agent(p))
                  /\ Queued(lim, p) => new = "leave"
        PROVE  IInv'
    <2>1. Held' = Held \cup {p} /\ place[p] # "held"
      BY <1>0, <1>1, <1>4 DEF Held, TypeRest
    <2>2. /\ pc'[p] = new /\ scan'[p] = NoScan
          /\ \A q \in Callers \ {p} : pc'[q] = pc[q] /\ scan'[q] = scan[q] /\ place'[q] = place[q]
      BY <1>0, <1>4 DEF TypeRest, TypeScan
    <2>3. \A q \in Leaving : q \in Leaving'
      BY <1>1, <2>2 DEF Leaving
    <2>4. /\ Sound(lim', Held') /\ Short(lim', Leaving')
          /\ \A q \in Callers : Queued(lim', q) <=> Queued(lim, q)
      <3>1. CASE p \in lim.granted /\ lim' = [lim EXCEPT !.granted = @ \ {p}] /\ new = "leave"
        <4>1. /\ Sound(lim', Held') /\ Short(lim', Leaving \cup {p})
              /\ \A q : Queued(lim', q) <=> Queued(lim, q)
          BY <1>0, <2>1, <3>1, PickUp
        <4>2. p \in Leaving'
          BY <2>2, <3>1 DEF Leaving
        <4> QED BY <2>3, <4>1, <4>2 DEF Short
      <3>2. CASE lim' = Reserve(lim, Agent(p))
        <4>1. /\ Sound(lim', Held') /\ Short(lim', Leaving)
              /\ \A q : Queued(lim', q) <=> Queued(lim, q)
          BY <1>0, <2>1, <3>2, TakePlace
        <4> QED BY <2>3, <4>1 DEF Short
      <3> QED BY <1>4, <3>1, <3>2
    <2>5. Placeless'
      <3>1. NoScan.at = "off" /\ new \notin NoPlaceYet /\ trim[p] = "off"
        BY <1>0, <1>1, <1>4, NoScanType DEF NoPlaceYet, PlacePart, Placeless
      <3> QED BY <1>0, <1>1, <2>2, <3>1 DEF PlacePart, Placeless
    <2>6. QueueWhere'
      <3>1. Queued(lim, p) => new \in InAcquire /\ p \in Users
        <4>1. lim.granted \subseteq Callers /\ \A q \in lim.granted : Queued(lim, q)
          BY <1>0, LimiterFields DEF PlacePart, Sound
        <4> QED BY <1>0, <1>4, <4>1 DEF PlacePart, QueueWhere, InAcquire
      <3> QED BY <1>0, <2>2, <2>4, <3>1 DEF PlacePart, QueueWhere
    <2>7. new \in Deciding /\ NoScan \in Scans /\ NoScan.cands \subseteq scan[p].cands
      BY <1>2, <1>4, NoScanType
    <2> QED BY <1>1, <1>4, <2>4, <2>5, <2>6, <2>7, AcquireFrame
  <1> DEFINE a == Agent(p)
             t == IF AgentFull(lim, a) THEN {a} ELSE Agents
  <1>5. t \in SUBSET Agents
    BY AgentType
  <1>6. CASE Goto(p, "giveup") /\ scan' = [scan EXCEPT ![p] = NoScan] /\ UNCHANGED <<lim, place>>
    BY <1>3, <1>6, NoScanType DEF Goto
  <1>7. CASE Goto(p, "settle") /\ scan' = [scan EXCEPT ![p] = NoScan] /\ UNCHANGED <<lim, place>>
    BY <1>3, <1>7, NoScanType DEF Goto
  <1>8. CASE /\ Goto(p, "evict") /\ UNCHANGED <<lim, place>>
             /\ scan' = [scan EXCEPT ![p] = [NoScan EXCEPT !.at = "scan", !.scope = t]]
    <2> HIDE DEF t
    <2> DEFINE u == [NoScan EXCEPT !.at = "scan", !.scope = t]
    <2>1. u \in Scans /\ u.cands = {} /\ u.victim = NoOne /\ scan' = [scan EXCEPT ![p] = u]
      BY <1>5, <1>8, NoScanType
    <2> HIDE DEF u
    <2> QED BY <1>3, <1>8, <2>1 DEF Goto
  <1>9. CASE /\ p \in lim.granted /\ lim' = [lim EXCEPT !.granted = @ \ {p}]
             /\ place' = [place EXCEPT ![p] = "held"] /\ Goto(p, "leave")
             /\ scan' = [scan EXCEPT ![p] = NoScan]
    BY <1>4, <1>9 DEF Goto
  <1>10. CASE /\ lim' = Reserve(lim, a) /\ place' = [place EXCEPT ![p] = "held"]
              /\ Goto(p, IF Queued(lim, p) THEN "leave" ELSE "start")
              /\ scan' = [scan EXCEPT ![p] = NoScan]
    <2> DEFINE new == IF Queued(lim, p) THEN "leave" ELSE "start"
    <2>1. new \in {"leave", "start"} /\ (Queued(lim, p) => new = "leave")
          /\ pc' = [pc EXCEPT ![p] = new]
      BY <1>10 DEF Goto
    <2> HIDE DEF new
    <2> QED BY <1>4, <1>10, <2>1
  <1> QED BY <1>6, <1>7, <1>8, <1>9, <1>10 DEF Acquire

LEMMA SettleStep ==
    ASSUME IInv, NEW p \in Callers, Settle(p)
    PROVE  IInv'
  <1>0. TypeRest /\ TypeScan /\ ProcPart /\ PlacePart /\ UsePart
    BY DEF IInv
  <1>1. /\ pc[p] = "settle" /\ pc[p] \in InAcquire /\ place[p] = "none"
        /\ trim[p] = "off" /\ events' \in 0..MaxEvents /\ scan' = scan
        /\ UNCHANGED <<manager, resumed, retried, got, trim, finish, stop, work>>
    BY <1>0 DEF Settle, InAcquire, PlacePart, Placeless, NoPlaceYet, Unborn, Deciding,
                TypeRest, outside
  <1>2. /\ scan[p] \in Scans /\ scan' = [scan EXCEPT ![p] = scan[p]]
        /\ scan[p].at = "off"
    BY <1>0, <1>1 DEF TypeScan, Scans, PlacePart, Placeless
  \* The limiter may change, the places do not.
  <1>3. ASSUME NEW new \in {"acquire", "wait"}, pc' = [pc EXCEPT ![p] = new],
               place' = place,
               Sound(lim', Held), Short(lim', Leaving),
               \A q \in Callers : Queued(lim', q) => Queued(lim, q) \/ (q = p /\ p \in Users)
        PROVE  IInv'
    <2>1. Held' = Held /\ place' = [place EXCEPT ![p] = "none"]
      BY <1>0, <1>1, <1>3 DEF Held, TypeRest
    <2>2. pc'[p] = new /\ \A q \in Callers \ {p} : pc'[q] = pc[q]
      BY <1>0, <1>3 DEF TypeRest
    <2>3. Leaving' = Leaving
      BY <1>1, <1>3, <2>2 DEF Leaving
    <2>4. Sound(lim', Held') /\ Short(lim', Leaving')
      BY <1>3, <2>1, <2>3
    <2>5. Placeless'
      BY <1>0, <1>1, <1>2, <1>3, <2>2 DEF PlacePart, Placeless
    <2>6. QueueWhere'
      BY <1>0, <1>3, <2>2 DEF PlacePart, QueueWhere, InAcquire
    <2>7. new \in Deciding
      BY <1>3 DEF Deciding
    <2> QED BY <1>1, <1>2, <1>3, <2>1, <2>4, <2>5, <2>6, <2>7, AcquireFrame
  <1>4. Sound(lim, Held) /\ Short(lim, Leaving) /\ Held \in SUBSET Callers
    BY <1>0 DEF PlacePart, Held
  <1>5. CASE Goto(p, "acquire") /\ UNCHANGED <<lim, place>>
    <2>1. lim' = lim /\ place' = place /\ pc' = [pc EXCEPT ![p] = "acquire"]
      BY <1>5 DEF Goto
    <2>2. /\ Sound(lim', Held) /\ Short(lim', Leaving)
          /\ \A q \in Callers : Queued(lim', q) => Queued(lim, q) \/ (q = p /\ p \in Users)
      BY <1>4, <2>1 DEF Queued
    <2>3. "acquire" \in {"acquire", "wait"}
      OBVIOUS
    <2> QED BY <1>3, <2>1, <2>2, <2>3
  <1>6. CASE /\ p \in Users /\ Goto(p, "wait") /\ UNCHANGED place
             /\ lim' = IF Queued(lim, p) THEN lim ELSE JoinQueue(lim, p)
    <2>1. CASE Queued(lim, p)
      BY <1>3, <1>4, <1>6, <2>1 DEF Goto
    <2>2. CASE ~Queued(lim, p)
      <3>1. /\ Sound(lim', Held) /\ Short(lim', {})
            /\ \A q \in Callers : Queued(lim', q) <=> Queued(lim, q) \/ q = p
        BY <1>4, <1>6, <2>2, JoinSound
      <3>2. Short(lim', Leaving)
        BY <3>1 DEF Short
      <3> QED BY <1>3, <1>6, <3>1, <3>2 DEF Goto
    <2> QED BY <2>1, <2>2
  <1>7. CASE /\ p \notin Users /\ lim' = Reserve(lim, Agent(p))
             /\ place' = [place EXCEPT ![p] = "held"] /\ Goto(p, "start")
    <2>1. Held' = Held \cup {p} /\ place[p] # "held"
      BY <1>0, <1>1, <1>7 DEF Held, TypeRest
    <2>2. /\ Sound(lim', Held') /\ Short(lim', Leaving)
          /\ \A q : Queued(lim', q) <=> Queued(lim, q)
      BY <1>0, <1>7, <2>1, TakePlace
    <2>3. /\ pc'[p] = "start" /\ place'[p] = "held"
          /\ \A q \in Callers \ {p} : pc'[q] = pc[q] /\ place'[q] = place[q]
      BY <1>0, <1>7 DEF TypeRest, Goto
    <2>4. Leaving' = Leaving
      BY <1>1, <2>3 DEF Leaving
    <2>5. Placeless'
      BY <1>0, <1>1, <1>2, <2>3 DEF PlacePart, Placeless, NoPlaceYet
    <2>6. QueueWhere'
      BY <1>0, <1>7, <2>2, <2>3 DEF PlacePart, QueueWhere
    <2>7. "start" \in Deciding
      BY DEF Deciding
    <2> QED BY <1>1, <1>2, <1>7, <2>2, <2>4, <2>5, <2>6, <2>7, AcquireFrame DEF Goto
  <1> QED BY <1>5, <1>6, <1>7 DEF Settle

LEMMA LeaveStep ==
    ASSUME IInv, NEW p \in Callers, Leave(p)
    PROVE  IInv'
  <1>0. TypeRest /\ TypeScan /\ ProcPart /\ PlacePart /\ UsePart
    BY DEF IInv
  <1>1. /\ uses' = uses /\ scan' = scan /\ finish' = finish /\ trim' = trim
        /\ backends' = backends /\ retried' = retried /\ stop' = stop
        /\ removed' = removed /\ proc' = proc /\ place' = place
        /\ pc[p] \in {"leave", "giveup"}
    BY DEF Leave, outside, manager
  <1>2. Sound(lim, Held) /\ Short(lim, Leaving) /\ Held \in SUBSET Callers
    BY <1>0 DEF PlacePart, Held
  <1>3. /\ Sound(lim', Held) /\ Short(lim', Leaving)
        /\ \A q \in Callers : Queued(lim', q) <=> Queued(lim, q) /\ q # p
    <2>1. CASE Queued(lim, p)
      BY <1>2, <2>1, LeaveSound DEF Leave
    <2>2. CASE ~Queued(lim, p)
      BY <1>2, <2>2 DEF Leave
    <2> QED BY <2>1, <2>2
  <1>4. /\ pc' \in [Callers -> PC] /\ got' \in [Callers -> Callers \cup {NoOne}]
        /\ \A q \in Callers :
              \/ pc'[q] = pc[q] /\ got'[q] = got[q] /\ q # p
              \/ q = p /\ pc[p] = "leave" /\ pc'[p] = "start" /\ got'[p] = got[p]
              \/ /\ (q = p /\ pc[p] = "giveup") \/ pc[q] = "joined"
                 /\ got'[q] = NoOne /\ pc'[q] = "done"
    <2>1. CASE pc[p] = "leave" /\ Goto(p, "start") /\ UNCHANGED got
      BY <1>0, <2>1 DEF Goto, TypeRest, PC, Flight
    <2>2. CASE pc[p] = "giveup" /\ Return(p, NoOne)
      BY <1>0, <2>2, ReturnMoves
    <2> QED BY <2>1, <2>2 DEF Leave
  <1>5. TypeRest'
    BY <1>0, <1>4 DEF TypeRest, Leave, outside, manager
  <1>6. TypeScan'
    BY <1>0, <1>1 DEF TypeScan
  <1>7. ProcQuiet
    BY <1>0, <1>1, <1>4 DEF ProcQuiet, QuietMove, Deciding, TypeRest
  <1>8. PlacePart'
    <2>1. Held' = Held
      BY <1>1 DEF Held
    <2>2. \A q \in Leaving \ {p} : q \in Leaving'
      BY <1>4 DEF Leaving
    <2>3. Short(lim', Leaving')
      BY <1>3, <2>2 DEF Short
    <2>4. Placeless'
      BY <1>0, <1>1, <1>4 DEF PlacePart, Placeless, NoPlaceYet, Unborn, Deciding
    <2>5. QueueWhere'
      BY <1>0, <1>3, <1>4 DEF PlacePart, QueueWhere, InAcquire
    <2> QED BY <1>3, <2>1, <2>3, <2>4, <2>5 DEF PlacePart
  <1>9. UseQuiet
    <2>1. \A b \in Callers : uses[b] <= uses[b]
      BY <1>0 DEF TypeRest
    <2> QED BY <1>1, <1>4, <2>1 DEF UseQuiet
  <1>10. UsePart'
    BY <1>0, <1>1, <1>5, <1>9, UseFrame
  <1> QED BY <1>0, <1>5, <1>6, <1>7, <1>8, <1>10, ProcFrame DEF IInv

LEMMA DoStep ==
    ASSUME IInv, NEW p \in Callers, Do(p)
    PROVE  IInv'
  <1>0. TypeRest /\ TypeScan /\ ProcPart /\ PlacePart /\ UsePart
    BY DEF IInv
  <1>1. /\ pc[p] = "miss" /\ pc'[p] \in {"joined", "lead"}
        /\ pc' = [pc EXCEPT ![p] = pc'[p]]
        /\ pc'[p] = "lead" => ~\E q \in Callers : KeyOf[q] = KeyOf[p] /\ pc[q] \in Flight
    BY <1>0 DEF Do, Goto, TypeRest
  <1>2. /\ pc' \in [Callers -> PC] /\ \A q \in Callers \ {p} : pc'[q] = pc[q]
    BY <1>0, <1>1 DEF TypeRest, PC, Flight
  <1>3. TypeRest' /\ TypeScan'
    BY <1>0, <1>2 DEF TypeRest, TypeScan, Do, manager, outside
  <1>4. ProcPart'
    <2>1. CASE pc'[p] = "joined"
      <3>1. ProcQuiet
        BY <1>0, <1>1, <1>2, <2>1 DEF ProcQuiet, QuietMove, TypeRest, Do, manager, outside
      <3> QED BY <1>0, <1>3, <3>1, ProcFrame
    <2>2. CASE pc'[p] = "lead"
      <3>1. OneFlight'
        BY <1>0, <1>1, <1>2, <2>2 DEF ProcPart, OneFlight
      <3>2. MapKeys' /\ RemovedBorn'
        BY <1>0, <1>1, <1>2 DEF ProcPart, MapKeys, RemovedBorn, Born, TypeRest, Do, manager
      <3>3. Unstarted'
        BY <1>0, <1>1, <1>2 DEF ProcPart, Unstarted, Unborn, Do, manager
      <3>4. KeyFree'
        BY <1>0, <1>1, <1>2, <2>2 DEF ProcPart, KeyFree, Deciding, Do, manager
      <3>5. ClosedMap' /\ NoOrphan'
        BY <1>0, <1>1, <1>2 DEF ProcPart, ClosedMap, NoOrphan, Mapped, Do, manager, outside
      <3> QED BY <3>1, <3>2, <3>3, <3>4, <3>5 DEF ProcPart
    <2> QED BY <1>1, <2>1, <2>2
  <1>5. PlaceQuiet
    BY <1>0, <1>1, <1>2 DEF PlaceQuiet, PlacePart, Placeless, NoPlaceYet, Unborn,
                            InAcquire, Do
  <1>6. UseQuiet
    <2>1. \A b \in Callers : uses[b] <= uses[b]
      BY <1>0 DEF TypeRest
    <2> QED BY <1>1, <1>2, <2>1 DEF UseQuiet, Do, manager
  <1>7. UsePart'
    BY <1>0, <1>3, <1>6, UseFrame DEF Do, outside
  <1> QED BY <1>0, <1>3, <1>4, <1>5, <1>7, PlaceFrame DEF IInv

LEMMA LookUpStep ==
    ASSUME IInv, NEW p \in Callers, LookUp(p)
    PROVE  IInv'
  <1> DEFINE k == KeyOf[p]
             b == backends[k]
  <1>0. TypeRest /\ TypeScan /\ ProcPart /\ PlacePart /\ UsePart /\ k \in Keys
    BY AgentType DEF IInv
  <1>1. /\ lim' = lim /\ place' = place /\ proc' = proc /\ creating' = creating
        /\ retried' = retried /\ trim' = trim /\ finish' = finish /\ stop' = stop
        /\ work' = work /\ events' = events /\ pc[p] = "lead"
    BY DEF LookUp, outside
  <1>2. CASE Running(p)
    <2>1. b \in Callers /\ KeyOf[b] = k
      BY <1>0, <1>2, AgentType DEF Running, ProcPart, MapKeys, TypeRest
    <2>2. /\ uses' = [uses EXCEPT ![b] = uses[b] + 1] /\ Return(p, b)
          /\ UNCHANGED <<backends, resume, resumed, scan, removed>>
      BY <1>2 DEF LookUp, Touch
    <2> HIDE DEF k, b
    <2>3. b # NoOne
      BY <2>1, SessionsAssumption
    <2>r. /\ pc' \in [Callers -> PC] /\ got' \in [Callers -> Callers \cup {NoOne}]
          /\ \A q \in Callers :
                \/ pc'[q] = pc[q] /\ got'[q] = got[q] /\ q # p
                \/ /\ q = p \/ pc[q] = "joined"
                   /\ KeyOf[q] = KeyOf[p] /\ got'[q] = b /\ pc'[q] = "using"
      BY <1>0, <2>1, <2>2, <2>3, ReturnMoves
    <2>4. TypeRest' /\ TypeScan'
      <3>1. uses' \in [Callers -> Nat]
        BY <1>0, <2>1, <2>2 DEF TypeRest
      <3>2. TypeRest'
        BY <1>0, <1>1, <2>2, <2>r, <3>1 DEF TypeRest
      <3> QED BY <1>0, <1>1, <2>2, <3>2 DEF TypeScan
    <2>5. ProcQuiet
      BY <1>0, <1>1, <2>2, <2>r DEF ProcQuiet, QuietMove, TypeRest
    <2>6. PlaceQuiet
      BY <1>0, <1>1, <2>2, <2>r DEF PlaceQuiet, PlacePart, Placeless, NoPlaceYet, Unborn,
                                    Deciding, InAcquire
    <2>7. UseQuiet
      <3>1. \A c \in Callers : uses[c] \in Nat /\ uses[c] < uses[c] + 1 /\ uses[c] <= uses[c]
        BY <1>0 DEF TypeRest
      <3> QED BY <1>0, <1>1, <2>1, <2>2, <2>r, <3>1 DEF UseQuiet, TypeRest, k
    <2>8. UsePart'
      BY <1>0, <1>1, <2>2, <2>4, <2>7, UseFrame
    <2> QED BY <1>0, <2>4, <2>5, <2>6, <2>8, ProcFrame, PlaceFrame DEF IInv
  <1>3. CASE ~Running(p)
    <2>1. /\ pc' = [pc EXCEPT ![p] = pc'[p]] /\ pc'[p] \in {"refuse", "acquire"}
          /\ uses' = uses /\ got' = got /\ scan' = [scan EXCEPT ![p].victim = b]
      BY <1>0, <1>3 DEF LookUp, Goto, TypeRest
    <2>2. /\ backends' = [backends EXCEPT ![k] = NoOne]
          /\ removed' = removed \cup ({b} \ {NoOne})
          /\ resume' \subseteq Keys /\ resumed' \subseteq Callers
      <3>1. CASE b = NoOne
        BY <1>0, <1>3, <3>1 DEF LookUp, Unmap, TypeRest
      <3>2. CASE b # NoOne
        <4>1. proc[b] # "live"
          BY <1>3, <3>2 DEF Running
        <4> QED BY <1>0, <1>3, <3>2, <4>1 DEF LookUp, Unmap, TypeRest
      <3> QED BY <3>1, <3>2
    <2>3. b \in Callers \cup {NoOne} /\ (b # NoOne => proc[b] # "live" /\ pc[b] \in Born)
      BY <1>0, <1>3 DEF TypeRest, Running, ProcPart, MapKeys
    <2> HIDE DEF b
    <2>4. /\ pc' \in [Callers -> PC] /\ \A q \in Callers \ {p} : pc'[q] = pc[q]
      BY <1>0, <2>1 DEF TypeRest, PC, Flight
    <2>5. /\ scan' \in [Callers -> Scans]
          /\ \A q \in Callers : scan'[q].at = scan[q].at /\ scan'[q].cands = scan[q].cands
          /\ \A q \in Callers \ {p} : scan'[q].victim = scan[q].victim
      BY <1>0, <2>1, <2>3 DEF TypeScan, Scans
    <2>6. TypeRest' /\ TypeScan'
      <3>1. TypeRest'
        BY <1>0, <1>1, <2>1, <2>2, <2>3, <2>4 DEF TypeRest
      <3>2. TypeScan'
        BY <1>0, <1>1, <2>5 DEF TypeScan, Scans
      <3> QED BY <3>1, <3>2
    <2>7. ProcPart'
      <3>1. OneFlight'
        <4>1. \A q \in Callers : pc'[q] \in Flight => pc[q] \in Flight
          BY <1>1, <2>4 DEF Flight
        <4> QED BY <1>0, <4>1 DEF ProcPart, OneFlight
      <3>2. MapKeys'
        <4>1. \A q \in Callers : pc[q] \in Born => pc'[q] \in Born
          BY <1>1, <2>4 DEF Born
        <4> QED BY <1>0, <2>2, <4>1 DEF ProcPart, MapKeys, TypeRest
      <3>3. Unstarted'
        BY <1>0, <1>1, <2>1, <2>4 DEF ProcPart, Unstarted, Unborn
      <3>4. KeyFree'
        <4>1. /\ backends'[k] = NoOne
              /\ \A j \in Keys : backends'[j] \in {NoOne, backends[j]}
          BY <1>0, <2>2 DEF TypeRest
        <4>2. \A q \in Callers : KeyOf[q] \in Keys
          BY AgentType
        <4>3. pc'[p] \notin {"ready", "relaunch", "remap", "ready2", "fail"}
          BY <2>1
        <4> QED BY <1>0, <1>1, <2>4, <4>1, <4>2, <4>3 DEF ProcPart, KeyFree
      <3>5. ClosedMap'
        BY <1>0, <1>1, <2>2 DEF ProcPart, ClosedMap, TypeRest
      <3>6. RemovedBorn'
        BY <1>0, <1>1, <2>2, <2>3, <2>4 DEF ProcPart, RemovedBorn, Born, TypeRest
      <3>7. NoOrphan'
        <4> SUFFICES ASSUME NEW c \in Callers, proc[c] = "live"
                     PROVE  \/ backends'[KeyOf[c]] = c \/ c \in removed'
                            \/ pc'[c] \in {"map", "remap"}
          BY <1>1 DEF NoOrphan, Mapped
        <4>1. \/ backends[KeyOf[c]] = c \/ c \in removed \/ pc[c] \in {"map", "remap"}
          BY <1>0 DEF ProcPart, NoOrphan, Mapped
        <4>2. KeyOf[c] \in Keys /\ c # b /\ (backends[KeyOf[c]] = c => KeyOf[c] # k)
          BY <2>3, AgentType, SessionsAssumption DEF b
        <4> QED BY <1>0, <1>1, <2>2, <2>4, <4>1, <4>2 DEF TypeRest
      <3> QED BY <3>1, <3>2, <3>3, <3>4, <3>5, <3>6, <3>7 DEF ProcPart
    <2>8. PlaceQuiet
      <3>1. scan[p].at = "off"
        BY <1>0, <1>1 DEF PlacePart, Placeless, NoPlaceYet, Unborn, Deciding
      <3>2. \A q \in Callers : scan[q].at # "off" => scan[q].victim = NoOne
        BY <1>0 DEF PlacePart, Placeless
      <3>3. \A q \in Callers : scan'[q].at # "off" =>
               scan[q].at # "off" /\ scan'[q].victim = NoOne
        BY <2>5, <3>1, <3>2
      <3>4. pc[p] \in NoPlaceYet /\ pc[p] \notin InAcquire
        BY <1>1 DEF NoPlaceYet, Unborn, InAcquire, Deciding
      <3> QED BY <1>1, <2>4, <3>3, <3>4 DEF PlaceQuiet
    <2>9. UseQuiet
      <3>1. \A c \in Callers : uses[c] <= uses[c]
        BY <1>0 DEF TypeRest
      <3> QED BY <1>1, <2>1, <2>4, <3>1 DEF UseQuiet
    <2>10. UsePart'
      BY <1>0, <1>1, <2>5, <2>6, <2>9, UseFrame
    <2> QED BY <1>0, <2>6, <2>7, <2>8, <2>10, PlaceFrame DEF IInv
  <1> QED BY <1>2, <1>3

\* A creation that starts, maps or relaunches its own backend: what the step
\* must respect for the processes and the maps to stay in order.
LEMMA CreationProc ==
    ASSUME TypeRest, TypeRest', ProcPart, NEW p \in Callers,
           NEW new \in {"map", "ready", "relaunch", "remap", "ready2", "fail"},
           pc[p] \in {"start", "map", "ready", "relaunch", "remap"},
           pc' = [pc EXCEPT ![p] = new],
           new = "map" => pc[p] = "start",
           new = "ready" => backends'[KeyOf[p]] = p,
           new \in {"relaunch", "fail"} => proc'[p] # "live",
           new \in {"relaunch", "remap", "ready2"} => p \in retried',
           proc'[p] = "live" => new \in {"map", "remap"} \/ backends'[KeyOf[p]] = p
                                \/ p \in removed,
           \/ backends' = backends
           \/ /\ backends' = [backends EXCEPT ![KeyOf[p]] = p]
              /\ new \in {"ready", "ready2"}
              /\ \/ pc[p] = "map" /\ stop[Agent(p)] = "run"
                 \/ pc[p] = "remap",
           \A q \in Callers \ {p} : proc'[q] = proc[q],
           removed' = removed, stop' = stop, retried \subseteq retried'
    PROVE  ProcPart'
  <1>1. /\ pc'[p] = new /\ \A q \in Callers \ {p} : pc'[q] = pc[q]
        /\ pc[p] \in Flight /\ KeyOf[p] \in Keys
    BY AgentType DEF TypeRest, Flight
  <1>2. p # NoOne /\ \A k \in Keys \ {KeyOf[p]} : backends'[k] = backends[k]
    BY SessionsAssumption DEF TypeRest
  <1>3. backends[KeyOf[p]] \in {NoOne, p} /\ backends'[KeyOf[p]] \in {backends[KeyOf[p]], p}
    BY <1>1 DEF ProcPart, KeyFree, Deciding, TypeRest
  <1>4. \A b \in Callers : pc[b] \in Born => pc'[b] \in Born
    BY <1>1 DEF Born
  <1>5. OneFlight'
    BY <1>1 DEF ProcPart, OneFlight
  <1>6. MapKeys'
    <2> SUFFICES ASSUME NEW k \in Keys, backends'[k] # NoOne
                 PROVE  KeyOf[backends'[k]] = k /\ pc'[backends'[k]] \in Born
      BY DEF MapKeys
    <2>1. CASE backends'[k] = backends[k]
      BY <1>4, <2>1 DEF ProcPart, MapKeys, TypeRest
    <2>2. CASE backends'[k] # backends[k]
      <3>1. k = KeyOf[p] /\ backends'[k] = p /\ new \in {"ready", "ready2"}
        BY <1>2, <1>3, <2>2
      <3> QED BY <1>1, <3>1 DEF Born
    <2> QED BY <2>1, <2>2
  <1>7. Unstarted'
    BY <1>1 DEF ProcPart, Unstarted, Unborn, Deciding
  <1>8. KeyFree'
    <2>1. ASSUME NEW q \in Callers \ {p}, pc[q] \in Flight PROVE KeyOf[q] # KeyOf[p]
      BY <1>1, <2>1 DEF ProcPart, OneFlight
    <2>2. \A q \in Callers \ {p} : pc[q] \in Flight =>
             backends'[KeyOf[q]] = backends[KeyOf[q]]
      BY <1>2, <2>1, AgentType
    <2>3. ASSUME NEW q \in Callers \ {p}
          PROVE  /\ pc'[q] \in Deciding \cup {"map"} => backends'[KeyOf[q]] = NoOne
                 /\ pc'[q] \in {"ready", "relaunch", "remap", "ready2"}
                      => backends'[KeyOf[q]] \in {NoOne, q}
                 /\ pc'[q] \in {"relaunch", "fail"} => proc'[q] # "live"
                 /\ pc'[q] \in {"relaunch", "remap", "ready2"} => q \in retried'
      <3>1. pc'[q] = pc[q] /\ proc'[q] = proc[q]
        BY <1>1
      <3>2. pc[q] \in Deciding \cup {"map", "ready", "relaunch", "remap", "ready2"}
              => backends'[KeyOf[q]] = backends[KeyOf[q]]
        BY <2>2 DEF Flight, Deciding
      <3> QED BY <3>1, <3>2 DEF ProcPart, KeyFree
    <2>4. /\ new \in Deciding \cup {"map"} => backends'[KeyOf[p]] = NoOne
          /\ new \in {"ready", "relaunch", "remap", "ready2"}
               => backends'[KeyOf[p]] \in {NoOne, p}
      <3>1. new = "map" => backends' = backends /\ backends[KeyOf[p]] = NoOne
        BY DEF ProcPart, KeyFree, Deciding
      <3> QED BY <1>3, <3>1 DEF Deciding
    <2> QED BY <1>1, <2>3, <2>4 DEF KeyFree
  <1>9. ClosedMap'
    <2> SUFFICES ASSUME NEW k \in Keys, stop[AgentOf[k]] = "closed", backends'[k] # NoOne
                 PROVE  backends'[k] \in retried'
      BY DEF ClosedMap
    <2>1. CASE backends'[k] = backends[k]
      BY <2>1 DEF ProcPart, ClosedMap
    <2>2. CASE backends'[k] # backends[k]
      <3>1. k = KeyOf[p] /\ backends'[k] = p
        BY <1>2, <1>3, <2>2
      <3>2. stop[Agent(p)] # "run"
        BY <3>1 DEF Agent
      <3>3. pc[p] = "remap"
        BY <2>2, <3>2
      <3> QED BY <3>1, <3>3 DEF ProcPart, KeyFree
    <2> QED BY <2>1, <2>2
  <1>10. RemovedBorn'
    BY <1>4 DEF ProcPart, RemovedBorn, TypeRest
  <1>11. NoOrphan'
    <2> SUFFICES ASSUME NEW c \in Callers, proc'[c] = "live"
                 PROVE  \/ backends'[KeyOf[c]] = c \/ c \in removed
                        \/ pc'[c] \in {"map", "remap"}
      BY DEF NoOrphan, Mapped
    <2>1. CASE c = p
      BY <1>1, <2>1
    <2>2. CASE c # p
      <3>1. \/ backends[KeyOf[c]] = c \/ c \in removed \/ pc[c] \in {"map", "remap"}
        BY <2>2 DEF ProcPart, NoOrphan, Mapped
      <3>2. backends[KeyOf[c]] = c => KeyOf[c] \in Keys \ {KeyOf[p]}
        BY <1>3, <2>2, AgentType, SessionsAssumption
      <3> QED BY <1>1, <1>2, <2>2, <3>1, <3>2
    <2> QED BY <2>1, <2>2
  <1> QED BY <1>5, <1>6, <1>7, <1>8, <1>9, <1>10, <1>11 DEF ProcPart

\* The same steps touch no place, no eviction and nobody's use of a backend.
LEMMA CreationFrame ==
    ASSUME IInv, TypeRest', ProcPart', NEW p \in Callers,
           NEW new \in {"map", "ready", "relaunch", "remap", "ready2", "fail"},
           pc[p] \in {"start", "map", "ready", "relaunch", "remap"},
           pc' = [pc EXCEPT ![p] = new],
           UNCHANGED <<lim, place, uses, got, scan, trim, finish>>
    PROVE  IInv'
  <1>0. TypeRest /\ TypeScan /\ ProcPart /\ PlacePart /\ UsePart
    BY DEF IInv
  <1>1. pc'[p] = new /\ \A q \in Callers \ {p} : pc'[q] = pc[q]
    BY <1>0 DEF TypeRest
  <1>2. TypeScan'
    BY <1>0 DEF TypeScan
  <1>3. PlaceQuiet
    BY <1>0, <1>1 DEF PlaceQuiet, PlacePart, Placeless, NoPlaceYet, Unborn, Deciding,
                      InAcquire
  <1>4. UseQuiet
    <2>1. \A b \in Callers : uses[b] <= uses[b]
      BY <1>0 DEF TypeRest
    <2> QED BY <1>1, <2>1 DEF UseQuiet
  <1>5. UsePart'
    BY <1>0, <1>4, UseFrame
  <1> QED BY <1>0, <1>2, <1>3, <1>5, PlaceFrame DEF IInv

LEMMA StartStep ==
    ASSUME IInv, NEW p \in Callers, Start(p)
    PROVE  IInv'
  <1>0. TypeRest /\ ProcPart
    BY DEF IInv
  <1>1. /\ pc[p] = "start" /\ backends' = backends /\ removed' = removed
        /\ stop' = stop /\ retried' = retried
        /\ UNCHANGED <<lim, place, uses, got, scan, trim, finish>>
        /\ UNCHANGED <<resume, resumed, work>>
        /\ creating' = [creating EXCEPT ![p] = TRUE]
    BY DEF Start
  <1>2. CASE proc' = [proc EXCEPT ![p] = "live"] /\ Goto(p, "map") /\ UNCHANGED events
    <2>1. pc' = [pc EXCEPT ![p] = "map"] /\ \A q \in Callers \ {p} : proc'[q] = proc[q]
      BY <1>0, <1>2 DEF Goto, TypeRest
    <2>2. TypeRest'
      BY <1>0, <1>1, <1>2, <2>1 DEF TypeRest, PC, Flight
    <2>3. ProcPart'
      BY <1>0, <1>1, <2>1, <2>2, CreationProc
    <2> QED BY <1>1, <2>1, <2>2, <2>3, CreationFrame
  <1>3. CASE Event("fail") /\ Goto(p, "fail") /\ UNCHANGED proc
    <2>1. pc' = [pc EXCEPT ![p] = "fail"] /\ \A q \in Callers \ {p} : proc'[q] = proc[q]
      BY <1>0, <1>3 DEF Goto, TypeRest
    <2>2. TypeRest'
      BY <1>0, <1>1, <1>3, <2>1, SessionsAssumption DEF TypeRest, PC, Flight, Event
    <2>3. proc'[p] # "live"
      BY <1>0, <1>1, <1>3 DEF ProcPart, Unstarted, Unborn, Deciding
    <2>4. ProcPart'
      BY <1>0, <1>1, <2>1, <2>2, <2>3, CreationProc
    <2> QED BY <1>1, <2>1, <2>2, <2>4, CreationFrame
  <1> QED BY <1>2, <1>3 DEF Start

LEMMA MapStep ==
    ASSUME IInv, NEW p \in Callers, Map(p)
    PROVE  IInv'
  <1>0. TypeRest /\ ProcPart /\ KeyOf[p] \in Keys
    BY AgentType DEF IInv
  <1>1. /\ pc[p] = "map" /\ removed' = removed
        /\ stop' = stop /\ retried' = retried
        /\ UNCHANGED <<lim, place, uses, got, scan, trim, finish>>
        /\ UNCHANGED <<resume, resumed, work, creating, events>>
    BY DEF Map, outside
  <1>2. CASE NoNewBackends(Agent(p))
    <2>1. /\ pc' = [pc EXCEPT ![p] = "fail"] /\ backends' = backends
          /\ proc' = [proc EXCEPT ![p] = "dead"]
      BY <1>2 DEF Map, Goto
    <2>2. proc'[p] = "dead" /\ \A q \in Callers \ {p} : proc'[q] = proc[q]
      BY <1>0, <2>1 DEF TypeRest
    <2>3. TypeRest'
      BY <1>0, <1>1, <2>1 DEF TypeRest, PC, Flight
    <2>4. ProcPart'
      BY <1>0, <1>1, <2>1, <2>2, <2>3, CreationProc
    <2> QED BY <1>1, <2>1, <2>3, <2>4, CreationFrame
  <1>3. CASE ~NoNewBackends(Agent(p))
    <2>1. /\ pc' = [pc EXCEPT ![p] = "ready"] /\ proc' = proc
          /\ backends' = [backends EXCEPT ![KeyOf[p]] = p]
          /\ stop[Agent(p)] = "run"
      BY <1>3 DEF Map, Goto, NoNewBackends
    <2>2. backends'[KeyOf[p]] = p /\ \A q \in Callers \ {p} : proc'[q] = proc[q]
      BY <1>0, <2>1 DEF TypeRest
    <2>3. TypeRest'
      BY <1>0, <1>1, <2>1 DEF TypeRest, PC, Flight
    <2>4. ProcPart'
      BY <1>0, <1>1, <2>1, <2>2, <2>3, CreationProc
    <2> QED BY <1>1, <2>1, <2>3, <2>4, CreationFrame
  <1> QED BY <1>2, <1>3

LEMMA RelaunchStep ==
    ASSUME IInv, NEW p \in Callers, Relaunch(p)
    PROVE  IInv'
  <1>0. TypeRest /\ ProcPart
    BY DEF IInv
  <1>1. /\ pc[p] = "relaunch" /\ backends' = backends /\ removed' = removed
        /\ stop' = stop /\ retried' = retried /\ p \in retried
        /\ UNCHANGED <<lim, place, uses, got, scan, trim, finish>>
        /\ UNCHANGED <<resume, resumed, work, creating>>
    BY <1>0 DEF Relaunch, ProcPart, KeyFree
  <1>2. CASE proc' = [proc EXCEPT ![p] = "live"] /\ Goto(p, "remap") /\ UNCHANGED events
    <2>1. pc' = [pc EXCEPT ![p] = "remap"] /\ \A q \in Callers \ {p} : proc'[q] = proc[q]
      BY <1>0, <1>2 DEF Goto, TypeRest
    <2>2. TypeRest'
      BY <1>0, <1>1, <1>2, <2>1 DEF TypeRest, PC, Flight
    <2>3. ProcPart'
      BY <1>0, <1>1, <2>1, <2>2, CreationProc
    <2> QED BY <1>1, <2>1, <2>2, <2>3, CreationFrame
  <1>3. CASE Event("fail") /\ Goto(p, "fail") /\ UNCHANGED proc
    <2>1. pc' = [pc EXCEPT ![p] = "fail"] /\ \A q \in Callers \ {p} : proc'[q] = proc[q]
      BY <1>0, <1>3 DEF Goto, TypeRest
    <2>2. TypeRest'
      BY <1>0, <1>1, <1>3, <2>1, SessionsAssumption DEF TypeRest, PC, Flight, Event
    <2>3. proc'[p] # "live"
      BY <1>0, <1>1, <1>3 DEF ProcPart, KeyFree
    <2>4. ProcPart'
      BY <1>0, <1>1, <2>1, <2>2, <2>3, CreationProc
    <2> QED BY <1>1, <2>1, <2>2, <2>4, CreationFrame
  <1> QED BY <1>2, <1>3 DEF Relaunch

LEMMA RemapStep ==
    ASSUME IInv, NEW p \in Callers, Remap(p)
    PROVE  IInv'
  <1>0. TypeRest /\ ProcPart /\ KeyOf[p] \in Keys
    BY AgentType DEF IInv
  <1>1. /\ pc[p] = "remap" /\ removed' = removed
        /\ stop' = stop /\ retried' = retried /\ p \in retried
        /\ UNCHANGED <<lim, place, uses, got, scan, trim, finish>>
        /\ UNCHANGED <<resume, resumed, work, creating, events>>
        /\ pc' = [pc EXCEPT ![p] = "ready2"] /\ proc' = proc
        /\ backends' = [backends EXCEPT ![KeyOf[p]] = p]
    BY <1>0 DEF Remap, outside, Goto, ProcPart, KeyFree
  <1>2. backends'[KeyOf[p]] = p /\ \A q \in Callers \ {p} : proc'[q] = proc[q]
    BY <1>0, <1>1 DEF TypeRest
  <1>3. TypeRest'
    BY <1>0, <1>1 DEF TypeRest, PC, Flight
  <1>4. ProcPart'
    BY <1>0, <1>1, <1>2, <1>3, CreationProc
  <1> QED BY <1>1, <1>3, <1>4, CreationFrame

LEMMA WaitReadyStep ==
    ASSUME IInv, NEW p \in Callers, WaitReady(p)
    PROVE  IInv'
  <1>0. TypeRest /\ TypeScan /\ ProcPart /\ PlacePart /\ UsePart /\ KeyOf[p] \in Keys
    BY AgentType DEF IInv
  <1>1. /\ pc[p] = "ready" /\ backends' = backends /\ proc' = proc
        /\ removed' = removed /\ stop' = stop
        /\ lim' = lim /\ place' = place /\ uses' = uses /\ scan' = scan
        /\ trim' = trim /\ finish' = finish
        /\ UNCHANGED <<resumed, work, events>>
    BY DEF WaitReady, outside
  <1>2. CASE /\ creating' = [creating EXCEPT ![p] = FALSE]
             /\ resume' = IF proc[p] = "live" THEN resume \cup {KeyOf[p]} ELSE resume
             /\ Return(p, p)
             /\ UNCHANGED retried
    <2>1. p # NoOne
      BY SessionsAssumption
    <2>2. /\ pc' \in [Callers -> PC] /\ got' \in [Callers -> Callers \cup {NoOne}]
          /\ \A q \in Callers :
                \/ pc'[q] = pc[q] /\ got'[q] = got[q] /\ q # p
                \/ /\ q = p \/ pc[q] = "joined"
                   /\ KeyOf[q] = KeyOf[p] /\ got'[q] = p /\ pc'[q] = "using"
      BY <1>0, <1>2, <2>1, ReturnMoves
    <2>3. resume' \subseteq Keys /\ creating' \in [Callers -> BOOLEAN]
      BY <1>0, <1>2 DEF TypeRest
    <2>4. TypeRest' /\ TypeScan'
      BY <1>0, <1>1, <1>2, <2>2, <2>3 DEF TypeRest, TypeScan
    <2>5. ProcQuiet
      BY <1>0, <1>1, <1>2, <2>2 DEF ProcQuiet, QuietMove, TypeRest
    <2>6. PlaceQuiet
      BY <1>0, <1>1, <2>2 DEF PlaceQuiet, PlacePart, Placeless, NoPlaceYet, Unborn,
                              Deciding, InAcquire
    <2>7. UseQuiet
      <3>1. \A c \in Callers : uses[c] <= uses[c]
        BY <1>0 DEF TypeRest
      <3> QED BY <1>1, <2>2, <3>1 DEF UseQuiet
    <2>8. UsePart'
      BY <1>0, <1>1, <2>4, <2>7, UseFrame
    <2> QED BY <1>0, <2>4, <2>5, <2>6, <2>8, ProcFrame, PlaceFrame DEF IInv
  <1>3. CASE /\ proc[p] = "dead"
             /\ resume' = resume \ {KeyOf[p]}
             /\ retried' = retried \cup {p}
             /\ Goto(p, "relaunch")
             /\ UNCHANGED <<creating, got>>
    <2>1. /\ pc' = [pc EXCEPT ![p] = "relaunch"] /\ proc'[p] # "live"
          /\ \A q \in Callers \ {p} : proc'[q] = proc[q]
          /\ p \in retried' /\ retried \subseteq retried'
      BY <1>1, <1>3 DEF Goto
    <2>2. TypeRest'
      BY <1>0, <1>1, <1>3, <2>1 DEF TypeRest, PC, Flight
    <2>3. ProcPart'
      BY <1>0, <1>1, <2>1, <2>2, CreationProc
    <2> QED BY <1>1, <1>3, <2>1, <2>2, <2>3, CreationFrame
  <1> QED BY <1>2, <1>3 DEF WaitReady

------------------------------------------------------------------------------
\* Every step preserves the inductive invariant: one case per action.
LEMMA NextInv ==
    ASSUME IInv, [Next]_vars
    PROVE  IInv'
  <1>1. ASSUME NEW p \in Callers, Caller(p) PROVE IInv'
    BY <1>1, GetStep, DoStep, LookUpStep, RefuseStep, AcquireStep, SettleStep, WakeStep,
       LeaveStep, StartStep, MapStep, WaitReadyStep, RelaunchStep, RemapStep,
       WaitReadyAgainStep, FailStep, EndTurnStep DEF Caller
  <1>2. ASSUME NEW p \in Callers,
               Scan(p) \/ Trim(p) \/ CloseRemoved(p) \/ Cancel(p) \/ WorkEnds(p) \/ Die(p)
        PROVE  IInv'
    BY <1>2, IdleCandidatesStep, TryEvictStep, TrimStep, CloseRemovedStep, CancelStep,
       WorkEndsStep, DieStep DEF Scan
  <1>3. ASSUME NEW k \in Keys, Close(k) \/ FinishScan(k) PROVE IInv'
    BY <1>3, CloseStep, FinishScanStep
  <1>4. ASSUME FinishClose PROVE IInv'
    BY <1>4, FinishCloseStep
  <1>5. ASSUME NEW a \in Agents,
               CloseIdle(a) \/ BeginShutdown(a) \/ RefuseWaits(a) \/ CloseAll(a)
        PROVE  IInv'
    BY <1>5, CloseIdleStep, BeginShutdownStep, RefuseWaitsStep, CloseAllStep
  <1>6. CASE UNCHANGED vars
    BY <1>6 DEF vars, IInv, TypeRest, TypeScan, ProcPart, OneFlight, MapKeys, Unstarted,
                KeyFree, ClosedMap, RemovedBorn, NoOrphan, Mapped, PlacePart, Held,
                Leaving, Placeless, QueueWhere, UsePart, UserOf, Fresh, FreshOne
  <1> QED BY <1>1, <1>2, <1>3, <1>4, <1>5, <1>6 DEF Next

\* The conjunction of the type, the limiter's counts and queue, the one creation
\* per key, the maps, the processes and the uses of a backend is inductive.
THEOREM SessionsInductive == Spec => []IInv
  <1> QED BY InitInv, NextInv, PTL DEF Spec

\* The variables of the manager and of the limiter keep their types; the counts
\* in particular never go below zero.
THEOREM SessionsTypeOK == Spec => []TypeOK
  <1>1. IInv => TypeOK
    BY TypeHalves DEF IInv, PlacePart, Sound
  <1> QED BY <1>1, SessionsInductive, PTL

\* Every unit of a live count is a place a backend holds or a grant a waiter has
\* not picked up, however creations, closes, cancels and evictions interleave.
THEOREM SessionsPlacesExact == Spec => []PlacesExact
  <1>1. IInv => PlacesExact
    BY ExactIsCharged DEF IInv, PlacePart, Sound
  <1> QED BY <1>1, SessionsInductive, PTL

\* A running process is mapped, about to be closed, or in the hands of the
\* creation that started it.
THEOREM SessionsNoOrphan == Spec => []NoOrphan
  <1>1. IInv => NoOrphan
    BY DEF IInv, ProcPart
  <1> QED BY <1>1, SessionsInductive, PTL

\* After a manager's Close none of its processes is left but those being closed
\* and those a creation is about to tear down, relaunches apart.
THEOREM SessionsNothingOutlives == Spec => []NothingOutlives
  <1>1. ASSUME IInv PROVE NothingOutlives
    <2> SUFFICES ASSUME NEW b \in Callers \ retried, stop[Agent(b)] = "closed",
                        proc[b] = "live"
                 PROVE  b \in removed \/ pc[b] = "map"
      BY DEF NothingOutlives
    <2>1. KeyOf[b] \in Keys /\ b # NoOne /\ ProcPart
      BY <1>1, AgentType, SessionsAssumption DEF IInv
    <2>2. backends[KeyOf[b]] # b
      BY <2>1 DEF ProcPart, ClosedMap, Agent
    <2>3. pc[b] # "remap"
      BY <2>1 DEF ProcPart, KeyFree
    <2> QED BY <2>1, <2>2, <2>3 DEF ProcPart, NoOrphan, Mapped
  <1> QED BY <1>1, SessionsInductive, PTL

\* A user creation in the queue has a grant or is short of a cap: no release, no
\* give-back and no arrival leaves a place idle beside it.
THEOREM SessionsNoIdlePlace == Spec => []NoIdlePlace
  <1>1. ASSUME IInv PROVE NoIdlePlace
    <2> SUFFICES ASSUME NEW p \in Callers, Waiting(p) PROVE Full(lim, Agent(p))
      BY DEF NoIdlePlace
    <2>1. p \notin Leaving
      BY DEF Waiting, Leaving
    <2> QED BY <1>1, <2>1 DEF IInv, PlacePart, Short, Waiting
  <1> QED BY <1>1, SessionsInductive, PTL

------------------------------------------------------------------------------
\* What NoOvertaking asks of one step.
InOrder ==
    \A p \in Users : Takes(p) /\ AgentCap[Agent(p)] > 0 =>
        \A i \in Ahead(lim, p) :
            LET q == lim.waiters[i] IN
            Agent(q) = Agent(p) /\ Waiting(q) => q \in lim'.granted

\* Where the limiter grants in turn and nobody else takes a place, no user
\* creation is overtaken.
LEMMA OrderOfGrants ==
    ASSUME NEW left, InTurn(lim, lim', left),
           \A q \in left : ~Waiting(q),
           \A p \in Users : place'[p] = "held" => place[p] = "held" \/ p \in lim.granted
    PROVE  InOrder
  <1> SUFFICES ASSUME NEW p \in Users, Takes(p), AgentCap[Agent(p)] > 0,
                      NEW i \in Ahead(lim, p), Agent(lim.waiters[i]) = Agent(p),
                      Waiting(lim.waiters[i])
               PROVE  lim.waiters[i] \in lim'.granted
    BY DEF InOrder
  <1>1. p \in lim'.granted \ lim.granted
    BY DEF Takes
  <1> QED BY <1>1 DEF InTurn

\* A step that leaves the limiter alone and hands out no place.
LEMMA OrderStill ==
    ASSUME lim' = lim, place' = place
    PROVE  InOrder
  <1>1. InTurn(lim, lim', {})
    BY DEF InTurn
  <1> QED BY <1>1, OrderOfGrants

\* No step lets a user creation pass an earlier one of its capped agent.
LEMMA NextInOrder ==
    ASSUME IInv, [Next]_vars
    PROVE  InOrder
  <1>0. TypeRest /\ PlacePart /\ Users \subseteq Callers
    BY PlacesAssumption DEF IInv
  <1>i. /\ Sound(lim, Held) /\ Short(lim, Leaving) /\ Held \in SUBSET Callers
        /\ lim \in Limiter
    BY <1>0 DEF PlacePart, Held, Sound
  <1>1. ASSUME NEW b \in Callers, CloseRemoved(b) \/ Fail(b) PROVE InOrder
    <2>1. Release(b)
      BY <1>1 DEF CloseRemoved, Fail
    <2>2. /\ InTurn(lim, lim', {})
          /\ \A q \in Callers : place'[q] = "held" => place[q] = "held"
      BY <1>0, <2>1, ReleaseMoves
    <2> QED BY <1>0, <2>2, OrderOfGrants
  <1>2. ASSUME NEW p \in Callers, Leave(p) PROVE InOrder
    <2>1. place' = place /\ ~Waiting(p)
      BY <1>2 DEF Leave, Waiting
    <2>2. CASE Queued(lim, p)
      <3>1. InTurn(lim, lim', {p})
        BY <1>i, <1>2, <2>2, LeaveSound DEF Leave
      <3> QED BY <2>1, <3>1, OrderOfGrants
    <2>3. CASE ~Queued(lim, p)
      BY <1>2, <2>1, <2>3, OrderStill DEF Leave
    <2> QED BY <2>2, <2>3
  <1>3. ASSUME NEW p \in Callers, Settle(p) PROVE InOrder
    <2>1. CASE UNCHANGED <<lim, place>>
      BY <2>1, OrderStill
    <2>2. CASE p \notin Users /\ lim' = Reserve(lim, Agent(p))
               /\ place' = [place EXCEPT ![p] = "held"]
      <3>1. lim'.granted = lim.granted
        BY <1>i, <2>2, ReserveIs, AgentType
      <3>2. InTurn(lim, lim', {})
        BY <3>1 DEF InTurn
      <3>3. \A q \in Users : place'[q] = place[q]
        BY <1>0, <2>2 DEF TypeRest
      <3> QED BY <3>2, <3>3, OrderOfGrants
    <2>3. CASE ~Queued(lim, p) /\ lim' = JoinQueue(lim, p) /\ place' = place
      <3>1. InTurn(lim, lim', {})
        BY <1>i, <2>3, JoinSound
      <3> QED BY <2>3, <3>1, OrderOfGrants
    <2> QED BY <1>3, <2>1, <2>2, <2>3 DEF Settle
  <1>4. ASSUME NEW p \in Callers, Acquire(p) PROVE InOrder
    <2>1. CASE UNCHANGED <<lim, place>>
      BY <2>1, OrderStill
    <2>2. CASE p \in lim.granted /\ lim' = [lim EXCEPT !.granted = @ \ {p}]
               /\ place' = [place EXCEPT ![p] = "held"]
      <3>1. lim'.granted = lim.granted \ {p}
        BY <1>i, <2>2 DEF Limiter
      <3>2. InTurn(lim, lim', {})
        BY <3>1 DEF InTurn
      <3>3. \A q \in Users : place'[q] = place[q] \/ q \in lim.granted
        BY <1>0, <2>2 DEF TypeRest
      <3> QED BY <3>2, <3>3, OrderOfGrants
    <2>3. CASE /\ lim' = Reserve(lim, Agent(p)) /\ place' = [place EXCEPT ![p] = "held"]
               /\ ~(p \in Users /\ BlockedByEarlier(lim, p))
      <3>1. lim'.granted = lim.granted
        BY <1>i, <2>3, ReserveIs, AgentType
      <3>2. \A q \in Users : Takes(q) => q = p
        BY <1>0, <2>3, <3>1 DEF TypeRest, Takes
      <3>3. ASSUME NEW i \in Ahead(lim, p), p \in Users, AgentCap[Agent(p)] > 0,
                   Agent(lim.waiters[i]) = Agent(p), Waiting(lim.waiters[i])
            PROVE  FALSE
        BY <2>3, <3>3 DEF BlockedByEarlier, Waiting
      <3> QED BY <3>2, <3>3 DEF InOrder
    <2> QED BY <1>4, <2>1, <2>2, <2>3 DEF Acquire
  <1>5. ASSUME NEW p \in Callers,
               \/ Get(p) \/ Do(p) \/ LookUp(p) \/ Refuse(p) \/ Wake(p) \/ Start(p)
               \/ Map(p) \/ WaitReady(p) \/ Relaunch(p) \/ Remap(p)
               \/ WaitReadyAgain(p) \/ EndTurn(p) \/ IdleCandidates(p) \/ TryEvict(p)
               \/ Trim(p) \/ Cancel(p) \/ WorkEnds(p) \/ Die(p)
        PROVE  InOrder
    <2>1. lim' = lim /\ place' = place
      BY <1>5 DEF Get, Do, LookUp, Refuse, Wake, Start, Map, WaitReady, Relaunch, Remap,
                  WaitReadyAgain, EndTurn, IdleCandidates, TryEvict, Trim, Cancel,
                  WorkEnds, Die
    <2> QED BY <2>1, OrderStill
  <1>6. ASSUME \/ \E k \in Keys : Close(k) \/ FinishScan(k)
               \/ FinishClose
               \/ \E a \in Agents : \/ CloseIdle(a) \/ BeginShutdown(a)
                                    \/ RefuseWaits(a) \/ CloseAll(a)
               \/ UNCHANGED vars
        PROVE  InOrder
    <2>1. lim' = lim /\ place' = place
      BY <1>6 DEF Close, FinishScan, FinishClose, CloseIdle, BeginShutdown, RefuseWaits,
                  CloseAll, vars
    <2> QED BY <2>1, OrderStill
  <1> QED BY <1>1, <1>2, <1>3, <1>4, <1>5, <1>6 DEF Next, Caller, Scan

\* "Waiters for the same cap are served FIFO": whoever takes a place of a capped
\* agent, by a grant or at its own hand, passes no earlier waiter of that agent.
THEOREM SessionsNoOvertaking == Spec => NoOvertaking
  <1>1. IInv /\ [Next]_vars => [InOrder]_vars
    BY NextInOrder
  <1>2. [][InOrder]_vars => NoOvertaking
    BY DEF InOrder, NoOvertaking
  <1> QED BY <1>1, <1>2, SessionsInductive, PTL DEF Spec

------------------------------------------------------------------------------
\* What UsedNotEvicted asks of one step.
ClosedUnused ==
    \A b \in Callers :
        /\ Mapped(b) /\ ~Mapped(b)'
        /\ \/ \E p \in Callers : scan[p].at = "try" /\ scan'[p].victim = b
           \/ finish # NoOne /\ finish' = NoOne
        => ~\E p \in Callers : pc[p] = "using" /\ got[p] = b

\* A step that unmaps nothing.
LEMMA UnmapsNothing ==
    ASSUME backends' = backends
    PROVE  ClosedUnused
  BY DEF ClosedUnused, Mapped

\* A step that ends neither an eviction nor CloseFinishedSession.
LEMMA EvictsNothing ==
    ASSUME IInv, finish' = finish,
           \A p \in Callers : scan[p].at = "try" => scan'[p].victim = scan[p].victim
    PROVE  ClosedUnused
  <1>1. \A p \in Callers : scan[p].at = "try" => scan'[p].victim = NoOne
    BY DEF IInv, PlacePart, Placeless
  <1> QED BY <1>1, SessionsAssumption DEF ClosedUnused

\* closeIdleExact unmaps a backend only if nobody asked for it since the scan.
LEMMA ExactUnused ==
    ASSUME IInv, NEW c \in Candidate, FreshOne(c), Exact(KeyOf[c.mb], c),
           Unmap(KeyOf[c.mb])
    PROVE  ClosedUnused
  <1>1. c.mb \in Callers /\ KeyOf[c.mb] \in Keys /\ backends \in [Keys -> Callers \cup {NoOne}]
    BY AgentType DEF Candidate, IInv, TypeRest
  <1>2. \A b \in Callers : Mapped(b) /\ ~Mapped(b)' => b = c.mb
    <2> TAKE b \in Callers
    <2>1. KeyOf[b] \in Keys
      BY AgentType
    <2> QED BY <1>1, <2>1 DEF Mapped, Unmap, Exact
  <1>3. \A q \in Callers : pc[q] = "using" => got[q] # c.mb
    BY DEF FreshOne, Exact
  <1> QED BY <1>2, <1>3 DEF ClosedUnused

\* No step closes as idle a backend that a turn holds.
LEMMA NextClosedUnused ==
    ASSUME IInv, [Next]_vars
    PROVE  ClosedUnused
  <1>0. TypeRest /\ TypeScan /\ ProcPart /\ PlacePart /\ UsePart
    BY DEF IInv
  <1>1. ASSUME NEW p \in Callers, TryEvict(p) PROVE ClosedUnused
    <2>1. CASE backends' = backends
      BY <2>1, UnmapsNothing
    <2>2. ASSUME NEW c \in scan[p].cands, Exact(KeyOf[c.mb], c), Unmap(KeyOf[c.mb])
          PROVE  ClosedUnused
      <3>1. scan[p].cands \subseteq Candidate
        BY <1>0 DEF TypeScan
      <3>2. c \in Candidate /\ FreshOne(c)
        BY <1>0, <3>1 DEF UsePart, Fresh
      <3> QED BY <2>2, <3>2, ExactUnused
    <2> QED BY <1>1, <2>1, <2>2 DEF TryEvict
  <1>2. ASSUME FinishClose PROVE ClosedUnused
    <2>1. finish \in Candidate /\ FreshOne(finish)
      BY <1>0, <1>2 DEF FinishClose, TypeScan, UsePart, Fresh
    <2>2. PICK c \in Candidate : c = finish
      BY <2>1
    <2>3. CASE Exact(KeyOf[c.mb], c)
      BY <1>2, <2>1, <2>2, <2>3, ExactUnused DEF FinishClose
    <2>4. CASE ~Exact(KeyOf[c.mb], c)
      BY <1>2, <2>2, <2>4, UnmapsNothing DEF FinishClose
    <2> QED BY <2>3, <2>4
  <1>3. ASSUME NEW p \in Callers, LookUp(p) PROVE ClosedUnused
    <2>1. pc[p] = "lead" /\ finish' = finish
      BY <1>3 DEF LookUp, outside
    <2>2. scan[p].at # "try"
      BY <1>0, <2>1 DEF PlacePart, Placeless, NoPlaceYet, Unborn
    <2>3. \A q \in Callers \ {p} : scan'[q] = scan[q]
      BY <1>0, <1>3 DEF LookUp, TypeScan
    <2> QED BY <2>1, <2>2, <2>3, EvictsNothing
  <1>4. ASSUME NEW p \in Callers,
               \/ Get(p) \/ Do(p) \/ Refuse(p) \/ Acquire(p) \/ Settle(p) \/ Wake(p)
               \/ Leave(p) \/ Start(p) \/ WaitReady(p) \/ Relaunch(p)
               \/ WaitReadyAgain(p) \/ Fail(p) \/ EndTurn(p) \/ IdleCandidates(p)
               \/ Trim(p) \/ CloseRemoved(p) \/ Cancel(p) \/ WorkEnds(p) \/ Die(p)
        PROVE  ClosedUnused
    <2>1. backends' = backends
      BY <1>4 DEF Get, Do, Refuse, Acquire, Settle, Wake, Leave, Start, WaitReady,
                  Relaunch, WaitReadyAgain, Fail, EndTurn, IdleCandidates, Trim,
                  CloseRemoved, Cancel, WorkEnds, Die, manager
    <2> QED BY <2>1, UnmapsNothing
  <1>5. ASSUME NEW p \in Callers, Map(p) \/ Remap(p) PROVE ClosedUnused
    BY <1>5, EvictsNothing DEF Map, Remap, outside
  <1>6. ASSUME NEW k \in Keys, Close(k) \/ FinishScan(k) PROVE ClosedUnused
    <2>1. CASE Close(k)
      BY <2>1, EvictsNothing DEF Close
    <2>2. CASE FinishScan(k)
      BY <2>2, UnmapsNothing DEF FinishScan, manager
    <2> QED BY <1>6, <2>1, <2>2
  <1>7. ASSUME NEW a \in Agents,
               CloseIdle(a) \/ BeginShutdown(a) \/ RefuseWaits(a) \/ CloseAll(a)
        PROVE  ClosedUnused
    BY <1>7, EvictsNothing DEF CloseIdle, BeginShutdown, RefuseWaits, CloseAll
  <1>8. CASE UNCHANGED vars
    BY <1>8, UnmapsNothing DEF vars
  <1> QED BY <1>1, <1>2, <1>3, <1>4, <1>5, <1>6, <1>7, <1>8 DEF Next, Caller, Scan

\* A backend a turn holds is closed as idle neither by an eviction nor by
\* CloseFinishedSession, though both decide without the manager's lock.
THEOREM SessionsUsedNotEvicted == Spec => UsedNotEvicted
  <1>1. IInv /\ [Next]_vars => [ClosedUnused]_vars
    BY NextClosedUnused
  <1>2. [][ClosedUnused]_vars => UsedNotEvicted
    BY DEF ClosedUnused, UsedNotEvicted
  <1> QED BY <1>1, <1>2, SessionsInductive, PTL DEF Spec

===============================================================================

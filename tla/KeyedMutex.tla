----------------------------- MODULE KeyedMutex -----------------------------
(***************************************************************************)
(* internal/delegator/keyedmutex: a map of mutexes keyed by string, whose  *)
(* entries are counted and reaped.  The pools of the opencode and codex    *)
(* backends use it to make "attach to the agent's server, or start one"    *)
(* atomic per agent (#1718).                                               *)
(***************************************************************************)
EXTENDS Naturals, FiniteSets

CONSTANTS
    Callers,   \* goroutines
    Keys,      \* agent ids
    Entries,   \* addresses an entry can be allocated at
    Nobody     \* no caller, no entry, no key

ASSUME KeyedAssumption ==
    /\ IsFiniteSet(Callers)
    /\ Nobody \notin Callers \cup Keys \cup Entries

VARIABLES
    m,      \* Map.m: the entry of each key, Nobody when there is none
    refs,   \* entry.refs
    owner,  \* who holds entry.mu
    pc,     \* "out", "waiting" (for entry.mu), "in", "leaving" (unlocked, not uncounted)
    key,    \* the key of a caller that is not out
    at      \* the entry it uses

vars == <<m, refs, owner, pc, key, at>>

TypeOK ==
    /\ m \in [Keys -> Entries \cup {Nobody}]
    /\ refs \in [Entries -> Nat]
    /\ owner \in [Entries -> Callers \cup {Nobody}]
    /\ pc \in [Callers -> {"out", "waiting", "in", "leaving"}]
    /\ key \in [Callers -> Keys \cup {Nobody}]
    /\ at \in [Callers -> Entries \cup {Nobody}]

Init ==
    /\ m = [k \in Keys |-> Nobody]
    /\ refs = [e \in Entries |-> 0]
    /\ owner = [e \in Entries |-> Nobody]
    /\ pc = [c \in Callers |-> "out"]
    /\ key = [c \in Callers |-> Nobody]
    /\ at = [c \in Callers |-> Nobody]

\* An address nothing refers to: what &entry{} can return.
Fresh(e) == (\A k \in Keys : m[k] # e) /\ (\A c \in Callers : at[c] # e)

\* The first critical section of Lock: find or make the entry and count.
Count(c, k, e) ==
    /\ pc[c] = "out"
    /\ IF m[k] = Nobody THEN Fresh(e) ELSE e = m[k]
    /\ m' = [m EXCEPT ![k] = e]
    /\ refs' = [refs EXCEPT ![e] = IF m[k] = Nobody THEN 1 ELSE @ + 1]
    /\ pc' = [pc EXCEPT ![c] = "waiting"]
    /\ key' = [key EXCEPT ![c] = k]
    /\ at' = [at EXCEPT ![c] = e]
    /\ UNCHANGED owner

\* e.mu.Lock returns.
Enter(c) ==
    /\ pc[c] = "waiting"
    /\ owner[at[c]] = Nobody
    /\ owner' = [owner EXCEPT ![at[c]] = c]
    /\ pc' = [pc EXCEPT ![c] = "in"]
    /\ UNCHANGED <<m, refs, key, at>>

\* unlock: e.mu is released first ...
Unlock(c) ==
    /\ pc[c] = "in"
    /\ owner' = [owner EXCEPT ![at[c]] = Nobody]
    /\ pc' = [pc EXCEPT ![c] = "leaving"]
    /\ UNCHANGED <<m, refs, key, at>>

\* Mutation: the entry is reaped while others wait on it.
ReapAlways(c) ==
    /\ pc[c] = "leaving"
    /\ refs' = [refs EXCEPT ![at[c]] = @ - 1]
    /\ m' = [m EXCEPT ![key[c]] = Nobody]
    /\ pc' = [pc EXCEPT ![c] = "out"]
    /\ key' = [key EXCEPT ![c] = Nobody]
    /\ at' = [at EXCEPT ![c] = Nobody]
    /\ UNCHANGED owner

\* Mutation: the count is off by one and nothing is reaped.
ReapAtOne(c) ==
    /\ pc[c] = "leaving"
    /\ refs' = [refs EXCEPT ![at[c]] = @ - 1]
    /\ m' = IF refs[at[c]] = 2 THEN [m EXCEPT ![key[c]] = Nobody] ELSE m
    /\ pc' = [pc EXCEPT ![c] = "out"]
    /\ key' = [key EXCEPT ![c] = Nobody]
    /\ at' = [at EXCEPT ![c] = Nobody]
    /\ UNCHANGED owner

\* ... then the caller is uncounted, and the last one reaps the entry.
Reap(c) ==
    /\ pc[c] = "leaving"
    /\ refs' = [refs EXCEPT ![at[c]] = @ - 1]
    /\ m' = IF refs[at[c]] = 1 THEN [m EXCEPT ![key[c]] = Nobody] ELSE m
    /\ pc' = [pc EXCEPT ![c] = "out"]
    /\ key' = [key EXCEPT ![c] = Nobody]
    /\ at' = [at EXCEPT ![c] = Nobody]
    /\ UNCHANGED owner

Next ==
    \E c \in Callers :
        \/ \E k \in Keys, e \in Entries : Count(c, k, e)
        \/ Enter(c) \/ Unlock(c) \/ Reap(c)

Spec == Init /\ [][Next]_vars

-----------------------------------------------------------------------------
\* Two callers never hold the same key at once, although the entry they meet
\* on is made, counted and reaped under another lock than the one they wait on.
Exclusion ==
    \A c, d \in Callers : pc[c] = "in" /\ pc[d] = "in" /\ key[c] = key[d] => c = d

\* Holders and waiters of a key share the entry the map has for it.
OneEntry == \A c \in Callers : pc[c] # "out" => m[key[c]] = at[c]

\* The callers counted in an entry.
Users(e) == {c \in Callers : pc[c] # "out" /\ at[c] = e}

\* A count is the number of holders, waiters and leavers, and an entry stays
\* in the map exactly as long as there is one: the map never grows for good.
CountExact ==
    \A e \in Entries, k \in Keys :
        m[k] = e => Users(e) # {} /\ refs[e] = Cardinality(Users(e))

-----------------------------------------------------------------------------
\* The map implements one lock per key: a caller is out as soon as its unlock
\* has released the mutex.
Lock == INSTANCE KeyedLock WITH
    at <- [c \in Callers |-> IF pc[c] \in {"waiting", "in"} THEN key[c] ELSE Nobody],
    inside <- {c \in Callers : pc[c] = "in"}

Refines == Lock!Spec
=============================================================================

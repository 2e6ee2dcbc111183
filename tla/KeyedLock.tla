----------------------------- MODULE KeyedLock -----------------------------
(***************************************************************************)
(* What keyedmutex.Map promises: one holder per key, and nothing shared    *)
(* between keys.  A caller asks for a key, enters when nobody is in, and   *)
(* leaves.                                                                 *)
(***************************************************************************)

CONSTANTS Callers, Keys, Nobody

VARIABLES
    at,      \* the key a caller asked for or holds, Nobody when it does neither
    inside   \* the callers that hold their key

Init ==
    /\ at = [c \in Callers |-> Nobody]
    /\ inside = {}

Ask(c, k) ==
    /\ at[c] = Nobody
    /\ at' = [at EXCEPT ![c] = k]
    /\ UNCHANGED inside

Enter(c) ==
    /\ at[c] # Nobody
    /\ \A d \in inside : at[d] # at[c]
    /\ inside' = inside \cup {c}
    /\ UNCHANGED at

Leave(c) ==
    /\ c \in inside
    /\ inside' = inside \ {c}
    /\ at' = [at EXCEPT ![c] = Nobody]

Next == \E c \in Callers : (\E k \in Keys : Ask(c, k)) \/ Enter(c) \/ Leave(c)

Spec == Init /\ [][Next]_<<at, inside>>
=============================================================================

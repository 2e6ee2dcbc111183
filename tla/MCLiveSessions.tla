--------------------------- MODULE MCLiveSessions ---------------------------
\* Two agents: a1 with a cap of one and two sessions, a2 without a cap; the
\* gateway's cap is one.  System turns s1 and s2 may take the count to three, so
\* that a release leaves it over; s2 shares its session with user turn u1.
EXTENDS LiveSessions

CONSTANTS a1, a2, k1, k2, k3, u1, u2, s1, s2

MCAgentOf == k1 :> a1 @@ k2 :> a1 @@ k3 :> a2
MCAgentCap == a1 :> 1 @@ a2 :> 0
MCKeyOf == u1 :> k1 @@ u2 :> k2 @@ s1 :> k3 @@ s2 :> k1

=============================================================================

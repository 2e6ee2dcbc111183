----------------------------- MODULE MCUsageHold -----------------------------
\* A spawn and background work, of one agent (a1) or of two.
EXTENDS UsageHold, TLC

CONSTANTS a1, a2, g1, g2, sp, bw, w1, w2

MCAgentOf == [t \in Turns |-> IF t = sp /\ a2 \in Agents THEN a2 ELSE a1]

==============================================================================

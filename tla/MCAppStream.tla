----------------------------- MODULE MCAppStream -----------------------------
\* Device d1 has two sockets, so that it can reconnect before the hub notices;
\* d2 has one.
EXTENDS AppStream

CONSTANTS p1, p2, d1, d2, s1, s2, s3

MCDeviceOf == [s \in Socks |-> IF s = s3 THEN d2 ELSE d1]

\* Senders, and the sockets of one device, are interchangeable.
MCSymmetry == Permutations(Senders) \cup Permutations(Socks \ {s3})

==============================================================================

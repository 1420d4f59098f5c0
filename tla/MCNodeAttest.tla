---------------------------- MODULE MCNodeAttest ----------------------------
(* Instances of NodeAttest for TLC. *)
EXTENDS NodeAttest

CONSTANTS s1, s2, h1, h2

MCHost == [a \in Attempts |-> h1]

\* s2 runs on h1 but is configured with the FQDN of h2.
MCMixed == [a \in Attempts |-> IF a = s2 THEN h2 ELSE h1]
MCSame == [a \in Attempts |-> h1]

\* The pinned addresses of each node; those of h2 also reach h1.
MCPinned == [h \in Hosts |-> IF h = h1 THEN {h1} ELSE {h1, h2}]
MCSkew == [h \in Hosts |-> 0]

\* Two sessions whose messages and documents are mixed up, and one session under
\* every fault over the whole life of its challenge.
MCPair == [who |-> {s1, s2}, faults |-> {"peer", "stray", "restart"}, horizon |-> 1]
MCSingle == [who |-> {s1}, faults |-> FaultKinds, horizon |-> MaxTime]
MCScenes == {MCPair, MCSingle}

\* One session whose stream breaks.
MCBroken == {[who |-> {s1}, faults |-> {"stream"}, horizon |-> 1]}
=============================================================================

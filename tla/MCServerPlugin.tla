--------------------------- MODULE MCServerPlugin ---------------------------
(* The instance of ServerPlugin for TLC. *)
EXTENDS ServerPlugin

CONSTANTS a1, a2, n1, k1, k2

\* Two streams that compete for one node, each with a key of its own.
MCClaim == [a \in Attempts |-> n1]
MCKey == [a \in Attempts |-> IF a = a2 THEN k2 ELSE k1]
=============================================================================

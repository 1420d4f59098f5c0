-------------------------- MODULE MCProofResponder --------------------------
(* Instances of ProofResponder for TLC. *)
EXTENDS ProofResponder

CONSTANTS s1, s2, s3, h1, h2

\* Three sessions on h1, one of them configured with the FQDN of h2; the clock
\* of h1 is one tick ahead.
MCHost == [a \in Attempts |-> h1]
MCClaim == [a \in Attempts |-> IF a = s3 THEN h2 ELSE h1]
MCSkew == [h \in Hosts |-> IF h = h1 THEN 1 ELSE 0]
=============================================================================

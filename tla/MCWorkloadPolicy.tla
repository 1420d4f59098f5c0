------------------------- MODULE MCWorkloadPolicy -------------------------
(* Two-bit addresses, of which one IPv4 half and one IPv6 address are        *)
(* reserved, and the port numbers at the edges of validate's conditions.     *)
EXTENDS WorkloadPolicy

MCForbidden == {[fam |-> 4, n |-> 0, len |-> 1], [fam |-> 6, n |-> 3, len |-> 2]}
MCTCPPorts == {0, 1, 45, 46, 52, 53, 54, 15001, 15053, 15060, 15061, 65527, 65528, 65535}
MCDNSBases == {0, 1, 45, 46, 53, 54, 14994, 15001, 65527, 65528, 65529, 65535}
===========================================================================

------------------------------ MODULE MCWorker ------------------------------
(* Instances of Worker for TLC. *)
EXTENDS Worker

\* One destination is forwarded, one answered as DNS over TCP and one denied.
MCVerdict == [d \in Dests |-> d]

\* The sockets are of IPv6 and reach resolvers of both families.
MCFamily == [u \in UdpSocks |-> 6]
=============================================================================

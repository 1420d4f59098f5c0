--------------------------- MODULE WorkloadPolicy ---------------------------
(***************************************************************************)
(* The decisions of realm-agent's configuration (config.go, bpf.go): which   *)
(* listener ports validate accepts, and which egress socket target chooses   *)
(* for an original destination.  One behaviour asks one question of each.    *)
(*                                                                         *)
(* An address is a number of Bits bits in one of the two families; a raw     *)
(* destination of family 6 may be an IPv4-mapped one.                       *)
(***************************************************************************)
EXTENDS Integers, Sequences

CONSTANTS
    Bits,        \* width of an address
    Ports,       \* destination ports
    Sockets,     \* egress sockets of routes
    Gateways,    \* InternetPorts, or none without an InternetSocket
    Forbidden,   \* forbiddenPrefixes
    MaxRoutes,   \* bound: declared routes
    TCPPorts,    \* configured TCPPort values
    DNSBases     \* configured DNSBase values

Wrap == 65536
Addresses == 0..(2^Bits - 1)
Families == {4, 6}
NetPrefixes == [fam : Families, n : Addresses, len : 0..Bits]
Routes == [prefix : NetPrefixes, port : Ports, socket : Sockets]
Raw == {d \in [fam : Families, mapped : BOOLEAN, n : Addresses, port : Ports \cup {0}] :
          d.mapped => d.fam = 6}
Internet == "internet"
Denied == "denied"

ASSUME WorkloadPolicyAssumption ==
    /\ Bits \in Nat /\ MaxRoutes \in Nat /\ Ports \subseteq 1..(Wrap - 1)
    /\ Forbidden \subseteq NetPrefixes /\ Gateways \subseteq SUBSET Ports
    /\ Sockets \cap {Internet, Denied} = {}
    /\ TCPPorts \subseteq 0..(Wrap - 1) /\ DNSBases \subseteq 0..(Wrap - 1)

VARIABLES
    routes,      \* workload.Routes
    gateway,     \* ports of InternetPorts; none without InternetSocket
    dest,        \* the recorded destination of the connection
    verdict,     \* the egress socket or Denied, once decided
    tcp, base,   \* TCPPort and DNSBase as configured
    accepted     \* what validate says of them, or ""

policyVars == <<routes, gateway, dest, verdict, tcp, base, accepted>>
-----------------------------------------------------------------------------
\* destination.addr: an unknown family and an impossible port are errors, and an
\* IPv4-mapped address becomes the IPv4 address.
AddrFails(d) == d.fam \notin Families \/ d.port = 0 \/ d.port >= Wrap
Addr(d) == [fam |-> IF d.mapped THEN 4 ELSE d.fam, n |-> d.n]

PrefixContains(p, a) ==
    p.fam = a.fam /\ p.n \div 2^(Bits - p.len) = a.n \div 2^(Bits - p.len)

\* Mutant: a later route of the same or a shorter prefix replaces the choice.
BetterLast(best, r, d) ==
    IF r.port = d.port /\ PrefixContains(r.prefix, Addr(d)) THEN r ELSE best

\* One turn of the loop over the routes.
Better(best, r, d) ==
    IF /\ r.port = d.port /\ PrefixContains(r.prefix, Addr(d))
       /\ r.prefix.len > best.prefix.len
      THEN r ELSE best

None == [prefix |-> [fam |-> 4, n |-> 0, len |-> -1], port |-> 0, socket |-> Denied]

\* selected and bits after each turn of the loop over the routes.
Loop(rs, d) ==
    LET best[i \in 0..Len(rs)] ==
          IF i = 0 THEN None ELSE Better(best[i - 1], rs[i], d)
    IN  best

Selected(rs, d) == Loop(rs, d)[Len(rs)]

\* Mutant: the Internet ports are looked at before the reserved prefixes.
TargetPortsFirst(rs, ports, d) ==
    IF Selected(rs, d).socket # Denied THEN Selected(rs, d).socket
    ELSE IF d.port \in ports THEN Internet ELSE Denied

target(rs, ports, d) ==
    IF Selected(rs, d).socket # Denied THEN Selected(rs, d).socket
    ELSE IF \E p \in Forbidden : PrefixContains(p, Addr(d)) THEN Denied
    ELSE IF d.port \in ports THEN Internet ELSE Denied

\* The worker gives up on a destination without an address, and target's errors.
Egress(rs, ports, d) == IF AddrFails(d) THEN Denied ELSE target(rs, ports, d)

\* The defaults of validate.
TCPPort == IF tcp = 0 THEN 15001 ELSE tcp
DNSBase == IF base = 0 THEN 15053 ELSE base

\* validate's test of the ports, in uint16 arithmetic.
PortsValid ==
    ~ \/ DNSBase > 65528
      \/ TCPPort >= DNSBase /\ TCPPort < (DNSBase + 8) % Wrap
      \/ TCPPort = 53
      \/ DNSBase <= 53 /\ (DNSBase + 7) % Wrap >= 53
-----------------------------------------------------------------------------
PolicyInit ==
    /\ routes = <<>>
    /\ gateway \in Gateways
    /\ dest \in Raw /\ verdict = ""
    /\ tcp = 0 /\ base = 0 /\ accepted = ""

Declare(r) ==
    /\ verdict = "" /\ accepted = "" /\ Len(routes) < MaxRoutes
    /\ routes' = Append(routes, r)
    /\ UNCHANGED <<gateway, dest, verdict, tcp, base, accepted>>

\* The worker asks for the egress of a captured connection.
Ask ==
    /\ verdict = "" /\ accepted = ""
    /\ verdict' = Egress(routes, gateway, dest)
    /\ UNCHANGED <<routes, gateway, dest, tcp, base, accepted>>

\* validate sees the configured ports.
Validate(t, b) ==
    /\ verdict = "" /\ accepted = "" /\ routes = <<>>
    /\ tcp' = t /\ base' = b
    /\ accepted' = IF PortsValid' THEN "yes" ELSE "no"
    /\ UNCHANGED <<routes, gateway, dest, verdict>>

Answered == (verdict # "" \/ accepted # "") /\ UNCHANGED policyVars

PolicyNext ==
    \/ \E r \in Routes : Declare(r)
    \/ \E t \in TCPPorts, b \in DNSBases : Validate(t, b)
    \/ Ask \/ Answered

PolicySpec == PolicyInit /\ [][PolicyNext]_policyVars
-----------------------------------------------------------------------------
\* The routes that match the destination, by the meaning of "route".
Matching == {i \in DOMAIN routes : routes[i].port = dest.port
                                     /\ PrefixContains(routes[i].prefix, Addr(dest))}

\* A destination some route matches goes to the socket of the most specific one,
\* the first of equals: the loop of target computes the longest match, in
\* whatever order the routes are declared.
MostSpecificRoute ==
    verdict # "" /\ Matching # {} =>
      \E i \in Matching :
        /\ verdict = routes[i].socket
        /\ \A j \in Matching :
             \/ routes[j].prefix.len < routes[i].prefix.len
             \/ routes[j].prefix.len = routes[i].prefix.len /\ i <= j

\* Without a matching route only a public address on an Internet port leaves, and
\* the IPv4-mapped form of an address is judged as the address itself.
OnlyPublicLeaves ==
    verdict # "" /\ Matching = {} =>
      (verdict = Internet <=>
         /\ dest.port \in gateway
         /\ \A p \in Forbidden :
              ~PrefixContains(p, [fam |-> IF dest.mapped THEN 4 ELSE dest.fam, n |-> dest.n]))

\* What validate's error and the assertion of the NixOS module promise: of the
\* listener ports that validate accepts, all eight resolver ports exist, none is the
\* port that marks DNS, and the TCP listener is not among them.
AcceptedPortsUsable ==
    accepted = "yes" =>
      /\ DNSBase + 7 < Wrap
      /\ 53 \notin DNSBase..(DNSBase + 7) /\ TCPPort # 53
      /\ TCPPort \notin DNSBase..(DNSBase + 7)
=============================================================================

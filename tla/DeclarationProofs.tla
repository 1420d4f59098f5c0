------------------------- MODULE DeclarationProofs -------------------------
(***************************************************************************)
(* Proofs about the two components that put a declaration into force.        *)
(*                                                                         *)
(* spire-register, for any entries, contents, servers, numbers of            *)
(* deployments, crashes and failing calls: it deletes only its own stale     *)
(* entries, and a run that succeeds leaves the manifest in force.            *)
(*                                                                         *)
(* The policy of realm-agent, for any number of routes, width of addresses   *)
(* and reserved prefixes: target finds the most specific route, lets out     *)
(* nothing else but public addresses, and validate accepts usable ports.     *)
(***************************************************************************)
EXTENDS SpireRegister, WorkloadPolicy, WellFoundedInduction, TLAPS

\* A set of natural numbers that is not empty has a least element.
LEMMA LeastNatural ==
    ASSUME NEW T \in SUBSET Nat, T # {}
    PROVE  \E i \in T : \A j \in T : i <= j
<1> DEFINE Less == OpToRel(<, Nat)
<1>1. PICK i \in T : \A j \in T : ~(<<j, i>> \in Less)
  <2>1. IsWellFoundedOn(Less, Nat)
    BY NatLessThanWellFounded
  <2> HIDE DEF Less
  <2> QED
    BY <2>1, WFMin, Zenon
<1>2. \A j \in T : ~(j < i)
  BY <1>1, Zenon DEF OpToRel
<1> QED
  BY <1>2

-----------------------------------------------------------------------------
(***************************************************************************)
(* The loop of target.  A loop over a sequence is a function defined by      *)
(* recursion on the index; that such a function exists, and what it          *)
(* computes, is shown for any number of routes by taking the least index     *)
(* that fails.                                                              *)
(***************************************************************************)
Turn(g, rs, d, n) ==
    g = [i \in 0..n |-> IF i = 0 THEN None ELSE Better(g[i - 1], rs[i], d)]

\* The loop can be run over any number of routes.
LEMMA LoopRuns ==
    ASSUME NEW rs, NEW d, NEW n \in Nat
    PROVE  \E g : Turn(g, rs, d, n)
<1> DEFINE Stuck == {m \in Nat : ~ \E g : Turn(g, rs, d, m)}
<1>1. SUFFICES ASSUME Stuck # {} PROVE FALSE
  OBVIOUS
<1>2. PICK m \in Stuck : \A k \in Stuck : m <= k
  BY <1>1, LeastNatural, Zenon
<1>3. m # 0
  <2>1. Turn([i \in 0..0 |-> None], rs, d, 0)
    BY DEF Turn
  <2> QED
    BY <2>1
<1>4. PICK g : Turn(g, rs, d, m - 1)
  <2>1. m - 1 \in Nat /\ ~(m <= m - 1)
    BY <1>3
  <2> QED
    BY <2>1, <1>2
<1> DEFINE h == [i \in 0..m |-> IF i = m THEN Better(g[m - 1], rs[m], d) ELSE g[i]]
<1>5. ASSUME NEW i \in 0..m
      PROVE  h[i] = IF i = 0 THEN None ELSE Better(h[i - 1], rs[i], d)
  <2>1. CASE i = m
    BY <2>1, <1>3
  <2>2. CASE i # m
    <3>1. i \in 0..(m - 1) /\ (i # 0 => i - 1 \in 0..m /\ i - 1 # m)
      BY <2>2, <1>3
    <3>2. g[i] = IF i = 0 THEN None ELSE Better(g[i - 1], rs[i], d)
      BY <3>1, <1>4 DEF Turn
    <3> QED
      BY <3>1, <3>2, <2>2
  <2> QED
    BY <2>1, <2>2
<1>6. Turn(h, rs, d, m)
  BY <1>5 DEF Turn
<1> QED
  BY <1>6

\* So Loop is what its equation says.
LEMMA LoopEquation ==
    ASSUME NEW rs \in Seq(Routes), NEW d
    PROVE  Turn(Loop(rs, d), rs, d, Len(rs))
<1>1. Len(rs) \in Nat
  OBVIOUS
<1>2. \E g : Turn(g, rs, d, Len(rs))
  BY <1>1, LoopRuns, Zenon
<1> QED
  BY <1>2, Zenon DEF Loop, Turn

MatchesRoute(r, d) == r.port = d.port /\ PrefixContains(r.prefix, Addr(d))

\* b is the choice among the first n routes: the first of the longest that match.
Chosen(b, rs, d, n) ==
    \/ b = None /\ \A j \in 1..n : ~MatchesRoute(rs[j], d)
    \/ \E i \in 1..n :
         /\ b = rs[i] /\ MatchesRoute(rs[i], d)
         /\ \A j \in 1..n : MatchesRoute(rs[j], d) =>
              \/ rs[j].prefix.len < rs[i].prefix.len
              \/ rs[j].prefix.len = rs[i].prefix.len /\ i <= j

\* A route declares a prefix length, so it is longer than none.
LEMMA RouteLength ==
    ASSUME NEW rs \in Seq(Routes), NEW i \in 1..Len(rs)
    PROVE  rs[i].prefix.len \in Nat /\ rs[i].socket \in Sockets
<1>1. rs[i] \in Routes
  OBVIOUS
<1> QED
  BY <1>1, WorkloadPolicyAssumption DEF Routes, NetPrefixes

\* No declared route is the choice with which the loop begins.
LEMMA RouteNotNone ==
    ASSUME NEW rs \in Seq(Routes), NEW i \in 1..Len(rs)
    PROVE  rs[i] # None
<1>1. rs[i].prefix.len \in Nat
  BY RouteLength, Zenon
<1>2. None.prefix.len = -1
  BY DEF None
<1> QED
  BY <1>1, <1>2

\* A turn of the loop turns the choice among n - 1 routes into that among n.
LEMMA TurnChooses ==
    ASSUME NEW rs \in Seq(Routes), NEW d, NEW n \in 1..Len(rs), NEW b,
           Chosen(b, rs, d, n - 1)
    PROVE  Chosen(Better(b, rs[n], d), rs, d, n)
<1>1. \A i \in 1..n : rs[i].prefix.len \in Nat
  BY RouteLength
<1>2. 1..n = 1..(n - 1) \cup {n} /\ n \notin 1..(n - 1)
  OBVIOUS
<1>3. CASE ~MatchesRoute(rs[n], d)
  <2>1. Better(b, rs[n], d) = b
    BY <1>3, Zenon DEF Better, MatchesRoute
  <2> QED
    BY <1>2, <1>3, <2>1, Zenon DEF Chosen
<1>4. CASE MatchesRoute(rs[n], d) /\ b = None
  <2>1. Better(b, rs[n], d) = rs[n]
    <3>1. None.prefix.len = -1
      BY DEF None
    <3>2. rs[n].prefix.len > b.prefix.len
      BY <1>1, <1>4, <3>1
    <3> QED
      BY <1>4, <3>2 DEF Better, MatchesRoute
  <2> QED
    <3>1. \A j \in 1..(n - 1) : ~MatchesRoute(rs[j], d)
      BY <1>4, RouteNotNone DEF Chosen
    <3> QED
      BY <1>2, <1>4, <2>1, <3>1 DEF Chosen
<1>5. CASE MatchesRoute(rs[n], d) /\ b # None
  <2>1. PICK i \in 1..(n - 1) :
           /\ b = rs[i] /\ MatchesRoute(rs[i], d)
           /\ \A j \in 1..(n - 1) : MatchesRoute(rs[j], d) =>
                \/ rs[j].prefix.len < rs[i].prefix.len
                \/ rs[j].prefix.len = rs[i].prefix.len /\ i <= j
    BY <1>5, ZenonT(60) DEF Chosen
  <2>2. Better(b, rs[n], d) = IF rs[n].prefix.len > rs[i].prefix.len THEN rs[n] ELSE rs[i]
    BY <1>5, <2>1, Zenon DEF Better, MatchesRoute
  <2>3. CASE rs[n].prefix.len > rs[i].prefix.len
    <3>1. \A j \in 1..n : MatchesRoute(rs[j], d) =>
             \/ rs[j].prefix.len < rs[n].prefix.len
             \/ rs[j].prefix.len = rs[n].prefix.len /\ n <= j
      <4> SUFFICES ASSUME NEW j \in 1..n, MatchesRoute(rs[j], d)
                   PROVE  \/ rs[j].prefix.len < rs[n].prefix.len
                          \/ rs[j].prefix.len = rs[n].prefix.len /\ n <= j
        OBVIOUS
      <4>1. CASE j = n
        BY <1>1, <4>1
      <4>2. CASE j # n
        <5>1. j \in 1..(n - 1)
          BY <1>1, <4>2
        <5>2. rs[j].prefix.len <= rs[i].prefix.len
          BY <1>1, <2>1, <5>1
        <5> QED
          BY <1>1, <2>3, <5>1, <5>2
      <4> QED
        BY <4>1, <4>2
    <3> QED
      BY <1>2, <1>5, <2>2, <2>3, <3>1, Zenon DEF Chosen
  <2>4. CASE ~(rs[n].prefix.len > rs[i].prefix.len)
    <3>1. \/ rs[n].prefix.len < rs[i].prefix.len
          \/ rs[n].prefix.len = rs[i].prefix.len /\ i <= n
      BY <1>1, <2>4
    <3> QED
      BY <1>2, <2>1, <2>2, <2>4, <3>1, Zenon DEF Chosen
  <2> QED
    BY <2>3, <2>4, Zenon
<1> QED
  BY <1>3, <1>4, <1>5

\* After the loop the choice is the one among all routes, however many there are.
LEMMA LoopChooses ==
    ASSUME NEW rs \in Seq(Routes), NEW d
    PROVE  Chosen(Selected(rs, d), rs, d, Len(rs))
<1> DEFINE f == Loop(rs, d)
           Wrong == {m \in Nat : m <= Len(rs) /\ ~Chosen(f[m], rs, d, m)}
<1>1. Len(rs) \in Nat
  OBVIOUS
<1>2. \A i \in 0..Len(rs) : f[i] = IF i = 0 THEN None ELSE Better(f[i - 1], rs[i], d)
  <2>1. Turn(f, rs, d, Len(rs))
    BY LoopEquation
  <2> HIDE DEF f
  <2> QED
    BY <1>1, <2>1 DEF Turn
<1> HIDE DEF f
<1>3. ASSUME Wrong # {} PROVE FALSE
  <2>1. PICK m \in Wrong : \A k \in Wrong : m <= k
    BY <1>3, LeastNatural, Zenon
  <2>2. m # 0
    <3>1. Chosen(None, rs, d, 0)
      BY DEF Chosen
    <3>2. f[0] = None
      BY <1>1, <1>2
    <3> QED
      BY <2>1, <3>1, <3>2
  <2>3. Chosen(f[m - 1], rs, d, m - 1)
    <3>1. m - 1 \in Nat /\ m - 1 <= Len(rs) /\ ~(m <= m - 1)
      BY <1>1, <2>1, <2>2
    <3> QED
      BY <2>1, <3>1
  <2>4. m \in 1..Len(rs) /\ f[m] = Better(f[m - 1], rs[m], d)
    BY <1>1, <1>2, <2>1, <2>2
  <2> QED
    BY <2>1, <2>3, <2>4, TurnChooses
<1> QED
  BY <1>1, <1>3 DEF Selected, f

-----------------------------------------------------------------------------
(***************************************************************************)
(* The inductive invariant of the policy: the verdict is what Egress says of *)
(* the routes and the destination, which do not change once it is given, and *)
(* accepted ports passed the test of validate.                              *)
(***************************************************************************)
\* A configured port is a number of 16 bits.
IsPort(p) == p \in Nat /\ p < Wrap

PolicyInv ==
    /\ routes \in Seq(Routes) /\ IsPort(tcp) /\ IsPort(base)
    /\ gateway \in Gateways /\ dest \in Raw
    /\ verdict \in {"", Egress(routes, gateway, dest)}
    /\ accepted = "yes" => PortsValid

\* The ports of a configuration file are numbers of 16 bits.
LEMMA PortNumbers ==
    /\ \A t \in TCPPorts : IsPort(t)
    /\ \A b \in DNSBases : IsPort(b)
<1>1. Wrap \in Nat
  BY DEF Wrap
<1>2. \A p \in 0..(Wrap - 1) : p \in Nat /\ p < Wrap
  BY <1>1
<1> QED
  BY <1>2, WorkloadPolicyAssumption DEF IsPort

LEMMA PolicyInvInit == PolicyInit => PolicyInv
<1>1. IsPort(0)
  BY DEF IsPort, Wrap
<1> QED
  <2>1. <<>> \in Seq(Routes)
    OBVIOUS
  <2> QED
    BY <1>1, <2>1 DEF PolicyInit, PolicyInv

LEMMA PolicyInvNext == PolicyInv /\ [PolicyNext]_policyVars => PolicyInv'
<1> SUFFICES ASSUME PolicyInv, [PolicyNext]_policyVars PROVE PolicyInv'
  OBVIOUS
<1>1. ASSUME NEW r \in Routes, Declare(r) PROVE PolicyInv'
  <2>1. routes' \in Seq(Routes)
    <3>1. routes \in Seq(Routes) /\ routes' = Append(routes, r)
      BY <1>1 DEF PolicyInv, Declare
    <3> QED
      BY <3>1
  <2>2. UNCHANGED <<tcp, base, gateway, dest>> /\ verdict' = "" /\ accepted' = ""
    BY <1>1 DEF Declare
  <2> QED
    BY <2>1, <2>2 DEF PolicyInv
<1>2. ASSUME NEW t \in TCPPorts, NEW b \in DNSBases, Validate(t, b) PROVE PolicyInv'
  <2>1. (IsPort(tcp) /\ IsPort(base))'
    BY <1>2, PortNumbers DEF Validate
  <2>2. routes' \in Seq(Routes) /\ verdict' = "" /\ gateway' \in Gateways /\ dest' \in Raw
    BY <1>2 DEF PolicyInv, Validate
  <2>3. (accepted = "yes" => PortsValid)'
    BY <1>2, Zenon DEF Validate
  <2> QED
    BY <2>1, <2>2, <2>3 DEF PolicyInv
<1>3. ASSUME Ask \/ Answered \/ UNCHANGED policyVars PROVE PolicyInv'
  <2>1. UNCHANGED <<routes, gateway, dest, tcp, base, accepted>>
    BY <1>3 DEF Ask, Answered, policyVars
  <2>2. PortsValid' = PortsValid
    <3>1. TCPPort' = TCPPort /\ DNSBase' = DNSBase
      BY <2>1, SMT DEF TCPPort, DNSBase
    <3> QED
      BY <3>1, SMT DEF PortsValid
  <2>3. Egress(routes', gateway', dest') = Egress(routes, gateway, dest)
    BY <2>1
  <2>4. verdict' \in {verdict, Egress(routes, gateway, dest)}
    BY <1>3 DEF Ask, Answered, policyVars
  <2> QED
    BY <2>1, <2>2, <2>3, <2>4 DEF PolicyInv
<1> QED
  BY <1>1, <1>2, <1>3, Zenon DEF PolicyNext

\* The invariant holds in every behaviour, for any constants.
LEMMA PolicyInvariant == PolicySpec => []PolicyInv
BY PolicyInvInit, PolicyInvNext, PTL DEF PolicySpec

\* The choice of the loop, in the terms of the properties.
LEMMA ChosenMatching ==
    ASSUME routes \in Seq(Routes)
    PROVE  /\ Matching = {} => Selected(routes, dest) = None
           /\ Matching # {} =>
                \E i \in Matching :
                  /\ Selected(routes, dest) = routes[i]
                  /\ \A j \in Matching :
                       \/ routes[j].prefix.len < routes[i].prefix.len
                       \/ routes[j].prefix.len = routes[i].prefix.len /\ i <= j
<1>1. Matching = {i \in 1..Len(routes) : MatchesRoute(routes[i], dest)}
  BY DEF Matching, MatchesRoute
<1>2. Chosen(Selected(routes, dest), routes, dest, Len(routes))
  BY LoopChooses
<1> QED
  BY <1>1, <1>2, Zenon DEF Chosen

\* No declared port is one that destination.addr refuses.
LEMMA PortsInRange == \A p \in Ports : p # 0 /\ ~(p >= Wrap)
<1>1. Wrap \in Nat
  BY DEF Wrap
<1>2. Ports \subseteq 1..(Wrap - 1)
  BY WorkloadPolicyAssumption, Zenon
<1> QED
  BY <1>1, <1>2

\* For any number of routes declared in any order, a destination that some route
\* matches goes to the socket of the most specific one, the first of equals.
THEOREM MostSpecificRouteCorrect == PolicySpec => []MostSpecificRoute
<1>1. PolicyInv => MostSpecificRoute
  <2>1. SUFFICES ASSUME PolicyInv, verdict # "", Matching # {}
                 PROVE  MostSpecificRoute
    BY Zenon DEF MostSpecificRoute
  <2>2. routes \in Seq(Routes) /\ verdict = Egress(routes, gateway, dest) /\ dest \in Raw
    BY <2>1 DEF PolicyInv
  <2>3. PICK i \in Matching :
           /\ Selected(routes, dest) = routes[i]
           /\ \A j \in Matching :
                \/ routes[j].prefix.len < routes[i].prefix.len
                \/ routes[j].prefix.len = routes[i].prefix.len /\ i <= j
    BY <2>1, <2>2, ChosenMatching, Zenon
  <2>4. i \in 1..Len(routes)
    <3>1. DOMAIN routes = 1..Len(routes)
      BY <2>2
    <3> QED
      BY <3>1, Zenon DEF Matching
  <2>5. routes[i].socket # Denied
    BY <2>2, <2>4, RouteLength, WorkloadPolicyAssumption, Zenon
  <2>6. verdict = routes[i].socket
    <3>1. routes[i] \in Routes /\ dest.port = routes[i].port
      BY <2>2, <2>4 DEF Matching
    <3>2. dest.port \in Ports
      BY <3>1 DEF Routes
    <3>3. ~AddrFails(dest)
      BY <2>2, <3>2, PortsInRange DEF AddrFails, Raw
    <3> QED
      BY <2>2, <2>3, <2>5, <3>3, Zenon DEF Egress, target
  <2> QED
    BY <2>3, <2>6, Zenon DEF MostSpecificRoute
<1> QED
  BY <1>1, PolicyInvariant, PTL

\* For any reserved prefixes and Internet ports, a destination that no route matches
\* leaves exactly if its address is public and its port is one of them, and an
\* IPv4-mapped address is judged as the IPv4 address.
THEOREM OnlyPublicLeavesCorrect == PolicySpec => []OnlyPublicLeaves
<1>1. PolicyInv => OnlyPublicLeaves
  <2>1. SUFFICES ASSUME PolicyInv, verdict # "", Matching = {}
                 PROVE  OnlyPublicLeaves
    BY DEF OnlyPublicLeaves
  <2>2. /\ routes \in Seq(Routes) /\ verdict = Egress(routes, gateway, dest)
        /\ dest \in Raw /\ gateway \subseteq Ports
    BY <2>1, WorkloadPolicyAssumption, Zenon DEF PolicyInv
  <2>3. Selected(routes, dest) = None
    BY <2>1, <2>2, ChosenMatching, Zenon
  <2>4. Selected(routes, dest).socket = Denied
    BY <2>3 DEF None
  <2>5. verdict = Internet <=>
           dest.port \in gateway /\ \A p \in Forbidden : ~PrefixContains(p, Addr(dest))
    <3>1. dest.port \in gateway => ~AddrFails(dest)
      BY <2>2, PortsInRange DEF AddrFails, Raw
    <3>2. CASE AddrFails(dest)
      BY <2>2, <3>1, <3>2 DEF Egress, Internet, Denied
    <3>3. CASE ~AddrFails(dest)
      BY <2>2, <2>4, <3>3 DEF Egress, target, Internet, Denied
    <3> QED
      BY <3>2, <3>3
  <2> QED
    BY <2>5 DEF OnlyPublicLeaves, Addr
<1> QED
  BY <1>1, PolicyInvariant, PTL

\* For any configured ports, those that validate accepts in uint16 arithmetic exist,
\* leave port 53 alone and do not overlap, but for one base: the test misses only a
\* TCPPort among the resolver ports from 65528, where DNSBase + 8 wraps to zero.
THEOREM AcceptedPortsCorrect ==
    PolicySpec => [](~AcceptedPortsUsable => DNSBase = 65528 /\ TCPPort >= DNSBase)
<1>1. PolicyInv => (~AcceptedPortsUsable => DNSBase = 65528 /\ TCPPort >= DNSBase)
  <2>1. SUFFICES ASSUME PolicyInv, accepted = "yes"
                 PROVE  ~AcceptedPortsUsable => DNSBase = 65528 /\ TCPPort >= DNSBase
    BY DEF AcceptedPortsUsable
  <2>2. IsPort(DNSBase) /\ IsPort(TCPPort)
    <3>1. IsPort(base) /\ IsPort(tcp)
      BY <2>1 DEF PolicyInv
    <3> QED
      BY <3>1, SMT DEF IsPort, DNSBase, TCPPort, Wrap
  <2>3. /\ DNSBase <= 65528
        /\ ~(TCPPort >= DNSBase /\ TCPPort < (DNSBase + 8) % Wrap)
        /\ TCPPort # 53
        /\ ~(DNSBase <= 53 /\ (DNSBase + 7) % Wrap >= 53)
    <3>1. DNSBase \in Nat
      BY <2>2 DEF IsPort
    <3>2. PortsValid
      BY <2>1 DEF PolicyInv
    <3> QED
      BY <3>1, <3>2, SMT DEF PortsValid
  <2>4. (DNSBase + 7) % Wrap = DNSBase + 7
    BY <2>2, <2>3, SMT DEF IsPort, Wrap
  <2>5. DNSBase + 8 < Wrap => (DNSBase + 8) % Wrap = DNSBase + 8
    BY <2>2, SMT DEF IsPort, Wrap
  <2> QED
    BY <2>2, <2>3, <2>4, <2>5, SMT DEF IsPort, AcceptedPortsUsable, Wrap
<1> QED
  BY <1>1, PolicyInvariant, PTL
-----------------------------------------------------------------------------
(***************************************************************************)
(* The inductive invariant.  Ownership: an entry that can be declared is on   *)
(* the server only if this command created it, so what an entry update finds *)
(* and what the state file names is its own.  Progress: what the run has      *)
(* done so far.  Recorded: what was created and written to the state file is *)
(* still there, or in what the run read from it, until it is pruned.         *)
(***************************************************************************)
TypeOK ==
    /\ entries \in [Ids -> Contents \cup {Absent}] /\ manifest \in Manifests
    /\ state \subseteq Declarable /\ previous \subseteq Declarable
    /\ todo \subseteq Declarable /\ faults \in Nat
    /\ pc \in {"wait", "show", "apply", "done", "failed"}
    /\ verb \in {"create", "update"}

Running == pc \in {"show", "apply"}

Ownership == \A id \in Declarable : entries[id] # Absent <=> id \in created

Progress ==
    /\ Running => todo \subseteq Declared
    /\ pc = "apply" => todo # {}
    /\ pc = "done" => todo = {}
    /\ Running \/ pc = "done" =>
         \A id \in Declared \ (todo \cup edited) : entries[id] = manifest[id]

Recorded ==
    /\ created \subseteq Declarable /\ unrecorded \subseteq created
    /\ created \ unrecorded \subseteq state
    /\ Running => created \ unrecorded \subseteq previous \cup Declared
    /\ pc = "done" => state = Declared

IInv == TypeOK /\ Ownership /\ Progress /\ Recorded
-----------------------------------------------------------------------------
\* reconcile takes the entries in the order of their keys: a nonempty set has a least.
LEMMA LeastEntry ==
    ASSUME NEW T \in SUBSET Declarable, T # {}
    PROVE  Min(T) \in T
<1>1. T \in SUBSET Nat
  BY SpireRegisterAssumption
<1>2. \E k \in T : \A j \in T : k <= j
  BY <1>1, LeastNatural, Zenon
<1> QED
  BY <1>2 DEF Min

LEMMA Start == Init => IInv
BY SpireRegisterAssumption DEF Init, IInv, TypeOK, Ownership, Progress, Recorded, Running, Ids,
   Manifests, Declared

\* entry create and entry update, taken by the server, with or without an answer.
LEMMA WriteStep ==
    ASSUME IInv, pc = "apply", NEW id \in todo, Accepted(id), Write(id)
    PROVE  /\ id \in Declared /\ entries' \in [Ids -> Contents \cup {Absent}]
           /\ \A x \in Ids : x # id => entries'[x] = entries[x]
           /\ entries'[id] = manifest[id] /\ manifest[id] # Absent
           /\ created' = created \cup {id} /\ edited' = edited \ {id}
           /\ unrecorded' = IF id \in created THEN unrecorded ELSE unrecorded \cup {id}
<1>1. id \in Declared /\ id \in Declarable /\ id \in Ids /\ manifest[id] \in Contents \cup {Absent}
  BY DEF IInv, TypeOK, Progress, Running, Ids, Declared, Manifests
<1>2. manifest[id] # Absent
  BY <1>1 DEF Declared
<1>3. verb = "create" <=> id \notin created
  BY <1>1 DEF Accepted, IInv, Ownership
<1>4. /\ created' = created \cup {id}
      /\ unrecorded' = IF id \in created THEN unrecorded ELSE unrecorded \cup {id}
  BY <1>3 DEF Write
<1> QED
  BY <1>1, <1>2, <1>4 DEF Write, IInv, TypeOK

\* The entries of the run change only by Write; a failed run keeps what it wrote.
LEMMA ApplyStep ==
    ASSUME IInv, Apply \/ ApplyFails
    PROVE  IInv'
<1>1. /\ pc = "apply" /\ UNCHANGED <<manifest, state, verb, previous>> /\ Min(todo) \in todo
      /\ faults' \in Nat /\ UNCHANGED Declared
  BY LeastEntry DEF Apply, ApplyFails, IInv, TypeOK, Progress, Fail, Fault, Declared
<1>2. PICK id \in todo : id = Min(todo)
  BY <1>1
<1>3. CASE /\ UNCHANGED <<entries, created, unrecorded, edited, todo>> /\ pc' = "failed"
  BY <1>1, <1>3 DEF IInv, TypeOK, Ownership, Progress, Recorded, Running
<1>4. CASE /\ Accepted(id) /\ Write(id)
           /\ \/ pc' = "show" /\ todo' = todo \ {id}
              \/ pc' = "failed" /\ UNCHANGED todo
  <2>1. /\ id \in Declared /\ entries' \in [Ids -> Contents \cup {Absent}]
        /\ \A x \in Ids : x # id => entries'[x] = entries[x]
        /\ entries'[id] = manifest[id] /\ manifest[id] # Absent
        /\ created' = created \cup {id} /\ edited' = edited \ {id}
        /\ unrecorded' = IF id \in created THEN unrecorded ELSE unrecorded \cup {id}
    BY ZenonT(60), <1>1, <1>4, WriteStep
  <2>2. TypeOK'
    BY <1>1, <1>4, <2>1 DEF IInv, TypeOK
  <2>3. Ownership'
    BY <2>1 DEF IInv, Ownership, Ids, Declared
  <2>4. Progress'
    BY <1>1, <1>4, <2>1, ZenonT(60) DEF IInv, Progress, Running, Ids, Declared
  <2>5. Recorded'
    BY <1>1, <1>4, <2>1, ZenonT(60) DEF IInv, Recorded, Running, Declared
  <2> QED
    BY <2>2, <2>3, <2>4, <2>5 DEF IInv
<1> QED
  BY <1>1, <1>2, <1>3, <1>4 DEF Apply, ApplyFails, Fail

\* entry delete of a recorded ID that is no longer declared.
LEMMA PruneStep ==
    ASSUME IInv, Prune
    PROVE  IInv'
<1>1. PICK id \in previous \ Declared : id = Min(Stale)
  <2>1. Stale \in SUBSET Declarable /\ Stale # {}
    BY DEF Prune, Stale, IInv, TypeOK
  <2> QED
    BY <2>1, LeastEntry DEF Stale
<1>2. /\ pc = "show" /\ todo = {} /\ id \in Declarable /\ id \in Ids
      /\ UNCHANGED <<manifest, state, edited, faults, todo, verb, Declared>>
  BY <1>1, ZenonT(60) DEF Prune, Fail, IInv, TypeOK, Declared, Ids
<1>3. CASE UNCHANGED <<entries, created, unrecorded, previous>> /\ pc' = "failed"
  BY <1>2, <1>3 DEF IInv, TypeOK, Ownership, Progress, Recorded, Running
<1>4. CASE /\ previous' = previous \ {id} /\ UNCHANGED pc
           /\ entries' = [entries EXCEPT ![id] = Absent]
           /\ created' = created \ {id} /\ unrecorded' = unrecorded \ {id}
  <2>1. TypeOK'
    BY <1>2, <1>4 DEF IInv, TypeOK
  <2>2. Ownership'
    BY <1>2, <1>4 DEF IInv, TypeOK, Ownership, Ids
  <2>3. Progress'
    BY <1>1, <1>2, <1>4 DEF IInv, TypeOK, Progress, Running, Ids, Declared
  <2>4. Recorded'
    BY <1>2, <1>4 DEF IInv, Recorded, Running
  <2> QED
    BY <2>1, <2>2, <2>3, <2>4 DEF IInv
<1> QED
  BY <1>1, <1>3, <1>4 DEF Prune, Fail

\* Administrators add only entries that no manifest declares, and may remove any.
LEMMA AdminStep ==
    ASSUME IInv, NEW id \in Ids, AdminAdd(id) \/ AdminDelete(id)
    PROVE  IInv'
<1>1. UNCHANGED <<manifest, state, pc, todo, verb, previous, Declared>> /\ faults' \in Nat
  BY DEF AdminAdd, AdminDelete, Fault, Declared, IInv, TypeOK
<1>2. CASE AdminAdd(id)
  <2>1. /\ id \notin Declarable /\ UNCHANGED <<created, unrecorded, edited>>
        /\ entries' \in [Ids -> Contents \cup {Absent}]
        /\ \A x \in Declarable : entries'[x] = entries[x]
    BY <1>2, SpireRegisterAssumption, ZenonT(60) DEF AdminAdd, IInv, TypeOK, Ids
  <2> QED
    BY <1>1, <2>1, ZenonT(60) DEF IInv, TypeOK, Ownership, Progress, Recorded, Running, Declared
<1>3. CASE AdminDelete(id)
  <2>1. /\ entries' \in [Ids -> Contents \cup {Absent}] /\ entries'[id] = Absent
        /\ \A x \in Declarable : x # id => entries'[x] = entries[x]
        /\ created' = created \ {id} /\ unrecorded' = unrecorded \ {id}
        /\ edited' = edited \cup {id}
    BY <1>3 DEF AdminDelete, IInv, TypeOK, Ids
  <2> QED
    BY <1>1, <2>1, ZenonT(60) DEF IInv, TypeOK, Ownership, Progress, Recorded, Running, Declared
<1> QED
  BY <1>2, <1>3

LEMMA Step == IInv /\ [Next]_vars => IInv'
<1> SUFFICES ASSUME IInv, [Next]_vars PROVE IInv'
  OBVIOUS
<1> USE DEF IInv, TypeOK, Ownership, Progress, Recorded, Running, Declared
<1>1. CASE Load
  BY <1>1, ZenonT(60) DEF Load
<1>2. CASE Show \/ ShowFails
  <2>1. CASE Show
    BY <2>1, ZenonT(60) DEF Show
  <2>2. CASE ShowFails
    BY <2>2 DEF ShowFails, Fault
  <2> QED
    BY <1>2, <2>1, <2>2, Zenon
<1>3. CASE WriteState
  BY <1>3, ZenonT(60) DEF WriteState, Stale
<1>4. CASE NeverHealthy \/ PruneFails \/ Kill \/ Rerun
  <2>1. CASE NeverHealthy
    BY <2>1 DEF NeverHealthy, Fail, Fault
  <2>2. CASE PruneFails
    BY <2>2 DEF PruneFails, Fail, Fault
  <2>3. CASE Kill
    BY <2>3 DEF Kill, Fail, Fault
  <2>4. CASE Rerun
    BY <2>4, ZenonT(60) DEF Rerun
  <2> QED
    BY <1>4, <2>1, <2>2, <2>3, <2>4, Zenon
<1>5. CASE \E m \in Manifests : Deploy(m)
  BY <1>5, ZenonT(60) DEF Deploy
<1>6. CASE Rest \/ UNCHANGED vars
  BY <1>6, ZenonT(60) DEF Rest, vars
<1> QED
  BY <1>1, <1>2, <1>3, <1>4, <1>5, <1>6, ApplyStep, PruneStep, AdminStep, Zenon DEF Next, Reconcile

\* The invariant holds however runs are killed, calls fail, manifests are deployed and
\* entries are edited by hand.
THEOREM RegisterInductive == Spec => []IInv
BY Start, Step, PTL DEF Spec

\* When a run succeeds, every declared entry has its declared contents unless an
\* administrator removed it since, and what this command created and recorded once is
\* declared: writeState, the last step, never forgets an entry that was not pruned.
THEOREM AppliedCorrect == Spec => []AppliedWhenDone
<1>1. IInv => AppliedWhenDone
  BY DEF IInv, Progress, Recorded, AppliedWhenDone
<1> QED
  BY <1>1, RegisterInductive, PTL

\* reconcile deletes only entries it created itself and that the manifest in force does
\* not declare, however earlier runs ended.
THEOREM DeletesOwnStaleCorrect == Spec => DeletesOwnStale
<1> DEFINE Owned == \A id \in Ids :
              entries[id] # Absent /\ entries'[id] = Absent /\ faults' = faults =>
                id \in created /\ id \notin Declared
<1>1. IInv /\ [Next]_vars => [Owned]_vars
  <2> SUFFICES ASSUME IInv, Next, NEW id \in Ids,
                      entries[id] # Absent, entries'[id] = Absent, faults' = faults
               PROVE  id \in created /\ id \notin Declared
    BY DEF vars
  <2>1. entries' # entries /\ faults \in Nat
    BY DEF IInv, TypeOK
  <2>2. ASSUME Apply \/ ApplyFails PROVE FALSE
    <3>1. pc = "apply" /\ Min(todo) \in todo
      BY <2>2, LeastEntry, ZenonT(60) DEF Apply, ApplyFails, IInv, TypeOK, Progress
    <3>2. PICK x \in todo : x = Min(todo)
      BY ZenonT(60), <3>1
    <3>3. Accepted(x) /\ Write(x)
      BY <2>1, <2>2, <3>2 DEF Apply, ApplyFails
    <3> QED
      BY <3>1, <3>3, WriteStep
  <2>3. ASSUME Prune PROVE id \in created /\ id \notin Declared
    <3>1. Stale \in SUBSET Declarable /\ Stale # {}
      BY <2>3 DEF Prune, Stale, IInv, TypeOK
    <3>2. PICK x \in Stale : x = Min(Stale)
      BY <3>1, LeastEntry
    <3>3. id = x
      BY <2>1, <2>3, <3>2, ZenonT(60) DEF Prune, IInv, TypeOK
    <3> QED
      BY <3>1, <3>2, <3>3 DEF Stale, IInv, Ownership
  <2>4. ASSUME \E x \in Ids : AdminAdd(x) \/ AdminDelete(x)
        PROVE  FALSE
    BY <2>1, <2>4 DEF AdminAdd, AdminDelete, Fault
  <2>5. UNCHANGED entries \/ Apply \/ ApplyFails \/ Prune
          \/ \E x \in Ids : AdminAdd(x) \/ AdminDelete(x)
    BY Zenon DEF Next, Reconcile, Load, Show, WriteState, NeverHealthy, ShowFails, PruneFails, Kill,
           Rerun, Rest, Deploy, vars
  <2> QED
    BY <2>1, <2>2, <2>3, <2>4, <2>5
<1> QED
  BY <1>1, RegisterInductive, PTL DEF Spec, DeletesOwnStale

\* Every step of reconcile, of a crash, of a failing call or of an administrator is a
\* step of Reconciliation or leaves its state alone.
LEMMA PromiseStep == IInv /\ [Next]_vars => [Promise!Next]_(Promise!avars)
<1> SUFFICES ASSUME IInv, [Next]_vars PROVE Promise!Next \/ UNCHANGED Promise!avars
  OBVIOUS
<1>1. /\ Promise!Declared = Declared /\ Promise!Manifests = Manifests /\ Promise!Ids = Ids
      /\ Declarable \subseteq Ids
  BY DEF Promise!Declared, Declared, Promise!Manifests, Manifests, Promise!Ids, Ids
<1>2. ASSUME Apply \/ ApplyFails PROVE Promise!Next \/ UNCHANGED Promise!avars
  <2>1. pc = "apply" /\ pc' # "done" /\ UNCHANGED manifest /\ Min(todo) \in todo
    BY <1>2, LeastEntry, ZenonT(60) DEF Apply, ApplyFails, Fail, IInv, TypeOK, Progress
  <2>2. PICK id \in todo : id = Min(todo)
    BY <2>1
  <2>3. CASE UNCHANGED <<entries, created, unrecorded, edited>>
    BY <2>1, <2>3 DEF Promise!avars
  <2>4. CASE Accepted(id) /\ Write(id)
    <3>1. /\ id \in Declared /\ created' = created \cup {id} /\ edited' = edited \ {id}
          /\ unrecorded' = IF id \in created THEN unrecorded ELSE unrecorded \cup {id}
      BY ZenonT(60), <2>1, <2>4, WriteStep
    <3>2. Promise!Bring(id)
      BY <1>1, <2>1, <2>4, <3>1, ZenonT(60) DEF Promise!Bring, Write
    <3> QED
      BY <1>1, <3>1, <3>2 DEF Promise!Next, Declared
  <2> QED
    BY <1>2, <2>2, <2>3, <2>4 DEF Apply, ApplyFails
<1>3. ASSUME Prune PROVE Promise!Next \/ UNCHANGED Promise!avars
  <2>1. Stale \in SUBSET Declarable /\ Stale # {}
    BY <1>3 DEF Prune, Stale, IInv, TypeOK
  <2>2. PICK id \in Stale : id = Min(Stale)
    BY <2>1, LeastEntry
  <2>3. /\ pc = "show" /\ pc' # "done" /\ UNCHANGED <<manifest, edited>>
        /\ id \in Declarable /\ id \in Ids /\ id \notin Declared
    BY <1>1, <1>3, <2>1, <2>2, ZenonT(60) DEF Prune, Fail, Stale
  <2>4. CASE UNCHANGED <<entries, created, unrecorded>>
    BY <2>3, <2>4 DEF Promise!avars
  <2>5. CASE /\ entries' = [entries EXCEPT ![id] = Absent]
             /\ created' = created \ {id} /\ unrecorded' = unrecorded \ {id}
    <3>1. CASE id \in created
      <4>1. Promise!Retire(id)
        BY <1>1, <2>3, <2>5, <3>1, ZenonT(60) DEF Promise!Retire
      <4> QED
        BY <1>1, <2>3, <4>1 DEF Promise!Next
    <3>2. CASE id \notin created
      <4>1. entries[id] = Absent /\ id \notin unrecorded
        BY <2>3, <3>2 DEF IInv, Ownership, Recorded
      <4>2. UNCHANGED <<entries, created, unrecorded>>
        BY <2>3, <2>5, <3>2, <4>1, ZenonT(60) DEF IInv, TypeOK
      <4> QED
        BY <2>3, <4>2 DEF Promise!avars
    <3> QED
      BY <3>1, <3>2
  <2> QED
    BY <1>3, <2>2, <2>4, <2>5 DEF Prune
<1>4. ASSUME WriteState PROVE Promise!Succeed
  <2>1. pc = "show" /\ todo = {} /\ previous \subseteq Declared
    BY <1>4 DEF WriteState, Stale
  <2>2. \A id \in Declared \ edited : entries[id] = manifest[id]
    BY <2>1 DEF IInv, Progress, Running
  <2>3. created \ Declared \subseteq unrecorded
    BY <2>1 DEF IInv, Recorded, Running
  <2> QED
    BY <1>1, <1>4, <2>1, <2>2, <2>3, ZenonT(60) DEF WriteState, Promise!Succeed
<1>5. ASSUME NEW m \in Manifests, Deploy(m) PROVE Promise!Deploy
  BY <1>1, <1>5 DEF Deploy, Promise!Deploy
<1>6. ASSUME NEW id \in Ids, AdminAdd(id) PROVE Promise!Add(id)
  BY <1>6, Zenon DEF AdminAdd, Promise!Add
<1>7. ASSUME NEW id \in Ids, AdminDelete(id) PROVE Promise!Remove(id)
  BY <1>7, ZenonT(60) DEF AdminDelete, Promise!Remove
<1>8. ASSUME \/ Load \/ Show \/ ShowFails \/ NeverHealthy \/ PruneFails \/ Kill \/ Rerun
             \/ Rest \/ UNCHANGED vars
      PROVE  UNCHANGED Promise!avars
  BY <1>8, Zenon DEF Load, Show, ShowFails, NeverHealthy, PruneFails, Kill, Rerun, Rest, vars, Fail,
              Promise!avars
<1> QED
  BY <1>1, <1>2, <1>3, <1>4, <1>5, <1>6, <1>7, <1>8, Zenon DEF Next, Reconcile, Promise!Next

\* spire-register implements Reconciliation: the state file, the order of its steps and
\* the repetition of runs keep the promise although the command forgets everything else.
THEOREM RegisterPromiseKept == Spec => RegisterPromise
<1>1. Init => Promise!Init
  BY DEF Init, Promise!Init, Ids, Promise!Ids, Manifests, Promise!Manifests
<1> QED
  BY <1>1, PromiseStep, RegisterInductive, PTL DEF Spec, RegisterPromise, Promise!Spec
=============================================================================

------------------------------ MODULE TcpPath ------------------------------
(***************************************************************************)
(* A TCP connection of a captured application (bpf/realm.bpf.c, worker.go,   *)
(* proxy.go): connect records the original destination and is redirected to  *)
(* the worker; a sockops callback publishes it under the client's port; the  *)
(* worker accepts the connection, looks the destination up, and forwards it. *)
(*                                                                         *)
(* One network namespace, address and family are in view, so the key of a    *)
(* connection is its client port.  A client socket stands for its cookie.    *)
(* The kernel runs the close callback after the application has closed its   *)
(* end and before it frees the port; the callback of an established          *)
(* connection may be later than accept.                                    *)
(***************************************************************************)
EXTENDS Integers, Sequences, FiniteSets

CONSTANTS
    Conns,            \* client sockets, numbered in the order of their connects
    Ports,            \* client ports
    Dests,            \* original destinations
    Verdict,          \* Verdict[d]: "dns", "deny" or "forward"
    Tries,            \* lookups of originalDestination (20)
    MaxConnections    \* maxConnections of the workload

ASSUME TcpPathAssumption ==
    /\ IsFiniteSet(Conns) /\ Conns \subseteq Nat /\ IsFiniteSet(Ports)
    /\ Verdict \in [Dests -> {"dns", "deny", "forward"}]
    /\ Tries \in Nat \ {0} /\ MaxConnections \in Nat \ {0}

VARIABLES
    sock,         \* sock[c]: the client's socket, with its tcp_storage
    connections,  \* the LRU map: client port to cookie and destination
    loop,         \* the accept loop and its listener: "on", "off" or "closed"
    backlog,      \* connections that wait for accept
    hand,         \* hand[c]: the handler of the worker
    up,           \* up[c]: the upstream connection
    copy,         \* copy[c]: the directions that splice still copies
    limit,        \* slots taken
    active,       \* sync.Map of connections to close at shutdown
    shut,         \* ends that the shutdown goroutine has closed
    closer        \* the shutdown goroutine: "wait", "range" or "done"

client == <<sock, connections>>
handler == <<hand, up, copy, limit, active>>
tcpvars == <<client, handler, loop, backlog, shut, closer>>

NoPort == "none"
NoDest == "none"
Idle == [st |-> "idle", port |-> NoPort, dest |-> NoDest,
         published |-> FALSE, tracked |-> FALSE]
Live == {"open", "shutdown"}            \* the application has the socket
Kept == Live \cup {"closing"}           \* the kernel has not closed it
Handling == {"accepted", "lookup", "target", "dial", "dialled", "splice", "dns"}

ClientEnd(c) == <<c, "client">>
UpstreamEnd(c) == <<c, "upstream">>
-----------------------------------------------------------------------------
TcpInit ==
    /\ sock = [c \in Conns |-> Idle]
    /\ connections = [p \in {} |-> NoDest]
    /\ loop = "on" /\ backlog = <<>>
    /\ hand = [c \in Conns |-> [pc |-> "none", tries |-> 0, dest |-> NoDest]]
    /\ up = [c \in Conns |-> "none"]
    /\ copy = [c \in Conns |-> {}]
    /\ limit = 0 /\ active = {} /\ shut = {} /\ closer = "wait"

\* The four-tuple of an earlier connection is gone: the client aborted it, or
\* both ends have closed it.
Gone(c) ==
    \/ sock[c].st = "aborted"
    \/ sock[c].st = "closed" /\ hand[c].pc \in {"refused", "done"}

PortFree(p) == \A c \in Conns : sock[c].port = p => Gone(c)

\* connect4, connect6: redirect clears the storage of the socket, records the
\* destination and rewrites it; the handshake completes on the loopback.
Connect(c, p, d) ==
    /\ loop # "closed" /\ sock[c].st = "idle" /\ PortFree(p)
    /\ \A b \in Conns : b < c => sock[b].st # "idle"
    /\ sock' = [sock EXCEPT ![c] = [Idle EXCEPT !.st = "open", !.port = p, !.dest = d]]
    /\ backlog' = Append(backlog, c)
    /\ hand' = [hand EXCEPT ![c].pc = "queued"]
    /\ UNCHANGED <<connections, loop, up, copy, limit, active, shut, closer>>

Without(m, keys) == [p \in DOMAIN m \ keys |-> m[p]]
Put(m, p, e) == [q \in DOMAIN m \cup {p} |-> IF q = p THEN e ELSE m[q]]

\* Every workload of the host shares the LRU map: an update for a connection that
\* is not in view evicts a record.
Evict(p) ==
    /\ p \in DOMAIN connections
    /\ connections' = Without(connections, {p})
    /\ UNCHANGED <<sock, handler, loop, backlog, shut, closer>>

\* handle_sockops, ACTIVE_ESTABLISHED_CB; the update may fail.
Publish(c) ==
    LET p == sock[c].port
        e == [cookie |-> c, dest |-> sock[c].dest]
    IN /\ sock[c].st = "open" /\ ~sock[c].published
       /\ \/ /\ connections' = Put(connections, p, e)
             /\ sock' = [sock EXCEPT ![c].published = TRUE, ![c].tracked = TRUE]
          \/ /\ sock' = [sock EXCEPT ![c].published = TRUE]
             /\ UNCHANGED connections
       /\ UNCHANGED <<handler, loop, backlog, shut, closer>>

\* Mutant: the close callback tests for another TCP state and never matches.
ClosedKept(c) == connections

\* handle_sockops, STATE_CB to TCP_CLOSE: only the socket's own record goes.
Closed(c) ==
    LET p == sock[c].port
    IN IF /\ sock[c].tracked /\ p \in DOMAIN connections
          /\ connections[p].cookie = c
         THEN Without(connections, {p}) ELSE connections

\* The socket reaches TCP_CLOSE and its storage goes with it.
Release(c, st) ==
    /\ sock' = [sock EXCEPT ![c] = [Idle EXCEPT !.st = st, !.port = sock[c].port]]
    /\ connections' = Closed(c)

\* The application ends its direction or closes the socket, which leaves the record
\* in place, or resets it, which closes it at once; the callbacks of one socket come
\* in order.
ClientClose(c, how) ==
    /\ sock[c].st \in Live \ {how} /\ sock[c].published
    /\ IF how = "aborted" THEN Release(c, how)
       ELSE sock' = [sock EXCEPT ![c].st = how] /\ UNCHANGED connections
    /\ UNCHANGED <<handler, loop, backlog, shut, closer>>

\* The FIN of a closed socket is acknowledged.
CloseCallback(c) ==
    /\ sock[c].st = "closing" /\ Release(c, "closed")
    /\ UNCHANGED <<handler, loop, backlog, shut, closer>>
-----------------------------------------------------------------------------
(* The worker. *)

\* AcceptTCP, then a slot or an immediate close.
Accept ==
    LET c == Head(backlog)
        full == limit = MaxConnections
    IN /\ loop = "on" /\ backlog # <<>>
       /\ \A x \in Conns : hand[x].pc # "accepted"
       /\ backlog' = Tail(backlog)
       /\ hand' = [hand EXCEPT ![c].pc = IF full THEN "refused" ELSE "accepted"]
       /\ limit' = IF full THEN limit ELSE limit + 1
       /\ UNCHANGED <<client, loop, up, copy, active, shut, closer>>

\* AcceptTCP fails: the loop of this listener is over.
AcceptFails ==
    /\ loop = "on" /\ \A x \in Conns : hand[x].pc # "accepted"
    /\ loop' = "off"
    /\ UNCHANGED <<client, handler, backlog, shut, closer>>

\* active.Store, and the handler starts.
Store(c) ==
    /\ hand[c].pc = "accepted"
    /\ active' = active \cup {ClientEnd(c)}
    /\ hand' = [hand EXCEPT ![c].pc = "lookup"]
    /\ UNCHANGED <<client, loop, backlog, up, copy, limit, shut, closer>>

\* The deferred calls of the handler.
Return(c) ==
    /\ active' = active \ {ClientEnd(c), UpstreamEnd(c)}
    /\ limit' = limit - 1
    /\ hand' = [hand EXCEPT ![c] = [pc |-> "done", tries |-> 0, dest |-> NoDest]]
    /\ copy' = [copy EXCEPT ![c] = {}]
    /\ up' = [up EXCEPT ![c] = IF @ = "none" THEN @ ELSE "closed"]

Goto(c, pc) == hand' = [hand EXCEPT ![c].pc = pc] /\ UNCHANGED <<up, copy, limit, active>>

\* originalDestination: one try.
Lookup(c) ==
    LET p == sock[c].port
    IN /\ hand[c].pc = "lookup"
       /\ IF p \in DOMAIN connections
            THEN /\ hand' = [hand EXCEPT ![c].pc = "target",
                                         ![c].dest = connections[p].dest]
                 /\ UNCHANGED <<up, copy, limit, active>>
          ELSE IF hand[c].tries + 1 < Tries
            THEN /\ hand' = [hand EXCEPT ![c].tries = @ + 1]
                 /\ UNCHANGED <<up, copy, limit, active>>
          ELSE Return(c)
       /\ UNCHANGED <<client, loop, backlog, shut, closer>>

\* Any error but a missing key ends the handler at once.
LookupFails(c) ==
    /\ hand[c].pc = "lookup"
    /\ Return(c)
    /\ UNCHANGED <<client, loop, backlog, shut, closer>>

\* Port 53 is answered here; otherwise target decides.
Target(c) ==
    LET v == Verdict[hand[c].dest]
    IN /\ hand[c].pc = "target"
       /\ CASE v = "dns" -> Goto(c, "dns")
            [] v = "forward" -> Goto(c, "dial")
            [] OTHER -> Return(c)
       /\ UNCHANGED <<client, loop, backlog, shut, closer>>

\* resolver.tcp returns: deadline, end of the stream or the last message.
DnsDone(c) ==
    /\ hand[c].pc = "dns"
    /\ Return(c)
    /\ UNCHANGED <<client, loop, backlog, shut, closer>>

\* The dial, or CONNECT through dialTunnel, succeeds or fails in bounded time.
Dial(c) ==
    /\ hand[c].pc = "dial"
    /\ \/ /\ up' = [up EXCEPT ![c] = "open"]
          /\ hand' = [hand EXCEPT ![c].pc = "dialled"]
          /\ UNCHANGED <<copy, limit, active>>
       \/ Return(c)
    /\ UNCHANGED <<client, loop, backlog, shut, closer>>

StoreUpstream(c) ==
    /\ hand[c].pc = "dialled"
    /\ active' = active \cup {UpstreamEnd(c)}
    /\ hand' = [hand EXCEPT ![c].pc = "splice"]
    /\ copy' = [copy EXCEPT ![c] = {"up", "down"}]
    /\ UNCHANGED <<client, loop, backlog, up, limit, shut, closer>>

\* Mutant: the copy to the upstream ends without CloseWrite.
SpliceUpSilent(c) ==
    /\ "up" \in copy[c]
    /\ sock[c].st # "open" \/ ClientEnd(c) \in shut
    /\ copy' = [copy EXCEPT ![c] = @ \ {"up"}]
    /\ UNCHANGED <<client, loop, backlog, up, hand, limit, active, shut, closer>>

\* splice, client to upstream: at the end, the upstream is told.
SpliceUp(c) ==
    /\ "up" \in copy[c]
    /\ sock[c].st # "open" \/ ClientEnd(c) \in shut
    /\ copy' = [copy EXCEPT ![c] = @ \ {"up"}]
    /\ up' = [up EXCEPT ![c] = IF @ = "open" THEN "eof" ELSE @]
    /\ UNCHANGED <<client, loop, backlog, hand, limit, active, shut, closer>>

\* splice, upstream to client.
SpliceDown(c) ==
    /\ "down" \in copy[c]
    /\ up[c] = "closed" \/ UpstreamEnd(c) \in shut
    /\ copy' = [copy EXCEPT ![c] = @ \ {"down"}]
    /\ UNCHANGED <<client, loop, backlog, up, hand, limit, active, shut, closer>>

\* An end sends something that the other one no longer takes.
WriteFails(c) ==
    /\ \/ /\ "down" \in copy[c] /\ up[c] # "closed"
          /\ sock[c].st \notin Live \/ ClientEnd(c) \in shut
          /\ copy' = [copy EXCEPT ![c] = @ \ {"down"}]
       \/ /\ "up" \in copy[c] /\ sock[c].st = "open"
          /\ up[c] = "closed" \/ UpstreamEnd(c) \in shut
          /\ copy' = [copy EXCEPT ![c] = @ \ {"up"}]
    /\ UNCHANGED <<client, loop, backlog, up, hand, limit, active, shut, closer>>

SpliceEnd(c) ==
    /\ hand[c].pc = "splice" /\ copy[c] = {}
    /\ Return(c)
    /\ UNCHANGED <<client, loop, backlog, shut, closer>>

\* The upstream ends its side.
UpstreamCloses(c) ==
    /\ hand[c].pc = "splice" /\ up[c] \in {"open", "eof"}
    /\ up' = [up EXCEPT ![c] = "closed"]
    /\ UNCHANGED <<client, loop, backlog, hand, copy, limit, active, shut, closer>>

\* The goroutine that waits for ctx.Done closes the listeners; the kernel resets
\* the connections nobody has accepted.
CloseListeners ==
    /\ closer = "wait" /\ closer' = "range"
    /\ loop' = "closed" /\ backlog' = <<>>
    /\ hand' = [c \in Conns |-> IF hand[c].pc = "queued"
                                  THEN [hand[c] EXCEPT !.pc = "refused"] ELSE hand[c]]
    /\ UNCHANGED <<client, up, copy, limit, active, shut>>

\* active.Range.
CloseActive ==
    /\ closer = "range" /\ closer' = "done"
    /\ shut' = shut \cup active
    /\ UNCHANGED <<client, handler, loop, backlog>>

\* The process exits: the kernel closes what is left.
ProcessEnds ==
    /\ loop' = "closed" /\ backlog' = <<>> /\ limit' = 0 /\ active' = {}
    /\ hand' = [c \in Conns |-> IF hand[c].pc = "none" THEN hand[c]
                                ELSE [hand[c] EXCEPT !.pc = "done"]]
    /\ up' = [c \in Conns |-> IF up[c] = "none" THEN "none" ELSE "closed"]
    /\ copy' = [c \in Conns |-> {}]
    /\ UNCHANGED <<client, shut, closer>>

Handler(c) ==
    \/ Store(c) \/ Lookup(c) \/ LookupFails(c) \/ Target(c) \/ DnsDone(c) \/ Dial(c)
    \/ StoreUpstream(c) \/ SpliceUp(c) \/ SpliceDown(c) \/ SpliceEnd(c)

\* What the application, its socket and the upstream do.
Peer(c) ==
    \/ \E p \in Ports, d \in Dests : Connect(c, p, d)
    \/ \E how \in {"shutdown", "closing", "aborted"} : ClientClose(c, how)
    \/ CloseCallback(c)
    \/ UpstreamCloses(c) \/ WriteFails(c)
-----------------------------------------------------------------------------
\* originalDestination, redirect and handle_sockops together: until the kernel has
\* closed the client's socket, a connection is resolved, judged and forwarded only
\* for the destination that this client dialled, although ports are used again,
\* records are evicted or fail to be written, the callback may be later than accept
\* and the application may have closed the socket before the worker looks.
\* (A connection that was reset while it waited for accept may be resolved to the
\* destination of the next user of its port.)
ForwardsOwn ==
    \A c \in Conns :
        /\ hand[c].pc \in Handling \ {"accepted", "lookup"}
        /\ sock[c].st \in Kept
        => hand[c].dest = sock[c].dest

\* The slots taken are exactly those of running handlers.
SlotsExact == limit = Cardinality({c \in Conns : hand[c].pc \in Handling})

\* The slots taken are exactly those of running handlers, and a handler whose
\* client has ended its side ends and gives its slot back, whatever path it is on, given
\* that the upstream closes a connection whose other side is at its end.
SlotReturned ==
    /\ []SlotsExact
    /\ \A c \in Conns :
         sock[c].st \in {"shutdown", "closing", "closed", "aborted"} ~> hand[c].pc \notin Handling
=============================================================================

------------------------------ MODULE DnsPath ------------------------------
(***************************************************************************)
(* A DNS query over UDP (bpf/realm.bpf.c, dns.go): sendmsg is redirected to  *)
(* the listener of a slot that stands for the resolver the application       *)
(* named; a reader puts the datagram on a bounded queue; a worker answers it *)
(* and the reply comes from the port of the slot, which recvmsg turns back   *)
(* into a resolver.  Close stops the readers and the workers.               *)
(*                                                                         *)
(* There is a hook and a listener for each address family.  A socket of IPv6 *)
(* reaches an IPv4 resolver in two ways: sendmsg with its mapped address     *)
(* runs the hook of IPv4, connect with it that of IPv6.  What the socket     *)
(* receives always passes the hook of its own family.                       *)
(*                                                                         *)
(* The kernel runs the hooks of a socket under its lock, so that each is one *)
(* step.                                                                   *)
(***************************************************************************)
EXTENDS Integers, Sequences, FiniteSets

CONSTANTS
    Queries,       \* datagrams, numbered in the order in which they are sent
    UdpSocks,      \* sockets of the application
    Family,        \* Family[u]: address family of the socket, 4 or 6
    Resolvers,     \* resolver addresses it sends to
    V4,            \* those that are IPv4 addresses
    Slots,         \* DNS_SLOTS (8)
    DnsWorkers,    \* worker goroutines (64)
    QueueSize,     \* capacity of the queue (128)
    MaxUpstream    \* capacity of resolver.limit (64)

ASSUME DnsPathAssumption ==
    /\ Slots \in Nat \ {0} /\ QueueSize \in Nat \ {0} /\ MaxUpstream \in Nat \ {0}
    /\ IsFiniteSet(DnsWorkers) /\ Queries \subseteq Nat
    /\ Family \in [UdpSocks -> {4, 6}] /\ V4 \subseteq Resolvers
    /\ {"none", "listener"} \cap Resolvers = {}

VARIABLES
    peers,     \* peers[u]: the slots in the udp_storage of socket u
    query,     \* query[q]: socket, slot, hook, resolver asked, and where it is
    queue,     \* udpDNS.queue
    work,      \* work[w]: what a worker is doing, and for which query
    readers,   \* slots whose reader runs
    stop       \* the stop channel and the listeners are closed

dnsvars == <<peers, query, queue, work, readers, stop>>

Nobody == "none"
Listener == "listener"      \* the loopback address of the slot
Empty == [fam |-> 0, addr |-> Nobody]
Unsent == [at |-> "none", sock |-> Nobody, slot |-> 0, hook |-> 0, asked |-> Nobody,
           from |-> Nobody]
Lost == [Unsent EXCEPT !.at = "lost"]
SlotNumbers == 1..Slots
-----------------------------------------------------------------------------
\* startDNS has bound the ports and started the goroutines of an instance with the
\* slots S and the workers W; the workers wait.
DnsInit(S, W) ==
    /\ peers = [u \in UdpSocks |-> [i \in SlotNumbers |-> Empty]]
    /\ query = [q \in Queries |-> Unsent]
    /\ queue = <<>>
    /\ work = [w \in DnsWorkers |-> [pc |-> IF w \in W THEN "select" ELSE "done",
                                     query |-> Nobody]]
    /\ readers = S /\ stop = FALSE

First(S) == CHOOSE i \in S : \A j \in S : i <= j

\* The hooks that a datagram from u to r may run: none if the socket cannot send to
\* such an address.
Hooks(u, r) == {h \in {4, 6} : (Family[u] = 4 => h = 4) /\ (r \notin V4 => h = 6)}

\* Mutant: a full table gives up its first slot.
SlotForEvicting(u, d) ==
    LET own == {i \in SlotNumbers : peers[u][i] = d}
        empty == {i \in SlotNumbers : peers[u][i].fam = 0}
    IN CASE own # {} -> First(own)
         [] own = {} /\ empty # {} -> First(empty)
         [] OTHER -> 1

\* dns_slot: the slot of the destination, else the first empty one, else none.
SlotFor(u, d) ==
    LET own == {i \in SlotNumbers : peers[u][i] = d}
        empty == {i \in SlotNumbers : peers[u][i].fam = 0}
    IN CASE own # {} -> First(own)
         [] own = {} /\ empty # {} -> First(empty)
         [] OTHER -> 0

\* sendmsg4, sendmsg6 and connect of a datagram socket: redirect to the slot, or
\* refuse, also for want of storage.
Send(q, u, r, h) ==
    LET d == [fam |-> h, addr |-> r]
    IN \E i \in {SlotFor(u, d), 0} :
         /\ query[q].at = "none" /\ \A p \in Queries : p < q => query[p].at # "none"
         /\ query' = [query EXCEPT ![q] =
                        IF i = 0 \/ stop THEN Lost
                        ELSE [at |-> "sent", sock |-> u, slot |-> i, hook |-> h, asked |-> r,
                              from |-> Nobody]]
         /\ peers' = IF i = 0 THEN peers ELSE [peers EXCEPT ![u][i] = d]
         /\ UNCHANGED <<queue, work, readers, stop>>

\* udpDNS.read: a truncated or short datagram, and one too many, is dropped.
Read(q) ==
    /\ query[q].at = "sent" /\ query[q].slot \in readers /\ ~stop
    /\ \/ /\ Len(queue) < QueueSize
          /\ queue' = Append(queue, q)
          /\ query' = [query EXCEPT ![q].at = "queued"]
       \/ /\ query' = [query EXCEPT ![q] = Lost]
          /\ UNCHANGED queue
    /\ UNCHANGED <<peers, work, readers, stop>>

\* Mutant: the reader goes on after an error.
ReaderSpins(i) ==
    /\ stop /\ i \in readers
    /\ UNCHANGED dnsvars

\* The read of a closed listener fails and the reader returns.
ReaderEnds(i) ==
    /\ stop /\ i \in readers
    /\ readers' = readers \ {i}
    /\ UNCHANGED <<peers, query, queue, work, stop>>
-----------------------------------------------------------------------------
(* udpDNS.work. *)

WorkGoto(w, pc) ==
    work' = [work EXCEPT ![w] = [pc |-> pc,
                                 query |-> IF pc \in {"check", "done"} THEN Nobody ELSE @.query]]
Upstream == {w \in DnsWorkers : work[w].pc = "upstream"}

\* The first select.
Check(w) ==
    /\ work[w].pc = "check"
    /\ WorkGoto(w, IF stop THEN "done" ELSE "select")
    /\ UNCHANGED <<peers, query, queue, readers, stop>>

\* The second select, in which either case may win.
Select(w) ==
    /\ work[w].pc = "select"
    /\ \/ /\ stop
          /\ WorkGoto(w, "done") /\ UNCHANGED <<queue, query>>
       \/ /\ queue # <<>>
          /\ queue' = Tail(queue)
          /\ work' = [work EXCEPT ![w] = [pc |-> "answer", query |-> Head(queue)]]
          /\ query' = [query EXCEPT ![Head(queue)].at = "work"]
    /\ UNCHANGED <<peers, readers, stop>>

\* Not a query, answered here (a declared name, REFUSED, FORMERR, or SERVFAIL at
\* the limit), or sent upstream.
Answer(w) ==
    /\ work[w].pc = "answer"
    /\ \/ /\ query' = [query EXCEPT ![work[w].query] = Lost]
          /\ WorkGoto(w, "check")
       \/ /\ WorkGoto(w, "write") /\ UNCHANGED query
       \/ /\ Cardinality(Upstream) < MaxUpstream
          /\ WorkGoto(w, "upstream") /\ UNCHANGED query
    /\ UNCHANGED <<peers, queue, readers, stop>>

\* The HTTP exchange ends: answer, error, timeout, or the context is over.
UpstreamReturns(w) ==
    /\ work[w].pc = "upstream"
    /\ WorkGoto(w, "write")
    /\ UNCHANGED <<peers, query, queue, readers, stop>>

\* WriteToUDP on the listener the datagram came to, unless Pack or the write fails.
Write(w) ==
    /\ work[w].pc = "write"
    /\ \/ query' = [query EXCEPT ![work[w].query] = Lost]
       \/ ~stop /\ query' = [query EXCEPT ![work[w].query].at = "reply"]
    /\ WorkGoto(w, "check")
    /\ UNCHANGED <<peers, queue, readers, stop>>

\* restore in the hook of family fam: a source that is the loopback address of this
\* family becomes the resolver of the slot if that was recorded for this family;
\* any other is left as it is.
Restored(fam, from, peer) ==
    IF from = fam /\ peer.fam = fam THEN peer.addr ELSE Listener

\* recvmsg4, recvmsg6: the reply comes from the listener of the family by whose hook
\* the query left.
Receive(q) ==
    LET u == query[q].sock
    IN /\ query[q].at = "reply"
       /\ query' = [query EXCEPT ![q].at = "seen",
                      ![q].from = Restored(Family[u], query[q].hook, peers[u][query[q].slot])]
       /\ UNCHANGED <<peers, queue, work, readers, stop>>

\* udpDNS.Close up to wg.Wait, and what it waits for.
CloseDns ==
    /\ ~stop /\ stop' = TRUE
    /\ query' = [q \in Queries |-> IF query[q].at = "sent" THEN Lost ELSE query[q]]
    /\ UNCHANGED <<peers, queue, work, readers>>

DnsDrained == stop /\ readers = {} /\ \A w \in DnsWorkers : work[w].pc = "done"

Work(w) == Check(w) \/ Select(w) \/ Answer(w) \/ UpstreamReturns(w) \/ Write(w)

Datagram(q) ==
    \/ \E u \in UdpSocks, r \in Resolvers : \E h \in Hooks(u, r) : Send(q, u, r, h)
    \/ Read(q) \/ Receive(q)
-----------------------------------------------------------------------------
\* redirect, dns_slot and restore: no reply names another resolver than the one to
\* which its own query was sent, however many resolvers a socket talks to at once, by
\* whichever hooks, and in whatever order the answers come.  It names that one if the
\* query left by the hook of the socket's own family; the reply to a query that an
\* IPv6 socket sent to a mapped address shows the listener.
AnswerFromAsked ==
    \A q \in Queries : query[q].at = "seen" =>
        query[q].from = IF query[q].hook = Family[query[q].sock] THEN query[q].asked
                        ELSE Listener
=============================================================================

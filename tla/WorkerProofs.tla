---------------------------- MODULE WorkerProofs ----------------------------
(***************************************************************************)
(* Proofs about the worker, for any number of connections, ports, sockets,   *)
(* queries and goroutines and any values of the limits: a connection is       *)
(* forwarded for the destination its client dialled, no reply names another   *)
(* resolver than the one asked, and the slots of maxConnections are accounted.   *)
(***************************************************************************)
EXTENDS Worker, FiniteSetTheorems, TLAPS

-----------------------------------------------------------------------------
(***************************************************************************)
(* The TCP path.  Records says why a lookup by client port is right: a record *)
(* in the map is that of a socket the kernel has not closed, and no two such  *)
(* sockets have one port.                                                  *)
(***************************************************************************)
SockType == [st : Kept \cup {"idle", "closed", "aborted"}, port : Ports \cup {NoPort},
             dest : Dests \cup {NoDest}, published : BOOLEAN, tracked : BOOLEAN]

HandType == [pc : Handling \cup {"none", "queued", "refused", "done"}, tries : Nat,
             dest : Dests \cup {NoDest}]

TcpType ==
    /\ sock \in [Conns -> SockType] /\ hand \in [Conns -> HandType]
    /\ backlog \in Seq(Conns) /\ limit \in Int
    /\ \A c \in Conns : sock[c].st \in Kept => sock[c].dest \in Dests
    /\ \A c \in Conns : sock[c].st = "idle" => hand[c].pc = "none"

Owner(p, c) ==
    /\ connections[p].cookie = c /\ connections[p].dest = sock[c].dest
    /\ sock[c].st \in Kept /\ sock[c].tracked /\ sock[c].port = p

Records ==
    /\ \A p \in DOMAIN connections : \E c \in Conns : Owner(p, c)
    /\ \A c, d \in Conns :
         sock[c].st \in Kept /\ sock[d].st \in Kept /\ sock[c].port = sock[d].port => c = d

\* A connection waits in the backlog once, and only while it has no handler.
Backlog ==
    /\ \A n \in 1..Len(backlog) : hand[backlog[n]].pc = "queued"
    /\ \A m, n \in 1..Len(backlog) : backlog[m] = backlog[n] => m = n

TcpInv == TcpType /\ Records /\ Backlog /\ ForwardsOwn

TcpStep ==
    \/ \E c \in Conns : Handler(c) \/ Peer(c) \/ Publish(c)
    \/ Accept \/ AcceptFails \/ (\E p \in Ports : Evict(p))
    \/ CloseListeners \/ CloseActive \/ ProcessEnds \/ UNCHANGED tcpvars

Judged == Handling \ {"accepted", "lookup"}

\* What a step of the handler or of its peers may do to hand and limit: nothing, a
\* move to h that keeps the slot, or the end, which gives it back.  Only the lookup
\* sets a destination, that of the record of the client's port.
Move(c, h) ==
    /\ hand[c].pc \in Handling /\ hand' = [hand EXCEPT ![c] = h]
    /\ \/ h.pc \in Handling /\ limit' = limit
       \/ h.pc = "done" /\ limit' = limit - 1
    /\ h.pc \in Judged =>
         \/ hand[c].pc \in Judged /\ h.dest = hand[c].dest
         \/ sock[c].port \in DOMAIN connections /\ h.dest = connections[sock[c].port].dest

\* The steps of a handler are moves of that handler; they do not touch the kernel's
\* records or the backlog.
LEMMA HandlerMoves ==
    ASSUME NEW c \in Conns, TcpType, Records,
           Handler(c) \/ UpstreamCloses(c) \/ WriteFails(c)
    PROVE  /\ UNCHANGED <<sock, connections, backlog>>
           /\ UNCHANGED <<hand, limit>> \/ \E h \in HandType : Move(c, h)
<1> USE TcpPathAssumption DEF client, handler
<1> DEFINE End == [pc |-> "done", tries |-> 0, dest |-> NoDest]
           At(pc) == [hand[c] EXCEPT !.pc = pc]
<1>1. /\ hand[c] \in HandType /\ End \in HandType
      /\ \A pc \in Handling : At(pc) \in HandType /\ At(pc).pc = pc
                              /\ At(pc).dest = hand[c].dest
  BY Zenon DEF TcpType, HandType, Handling
<1>2. ASSUME hand[c].pc \in Handling, Return(c) PROVE Move(c, End)
  BY <1>2 DEF Return, Move, Judged, Handling
<1>3. CASE Store(c)
  <2>1. Move(c, At("lookup"))
    BY <1>1, <1>3 DEF Store, Move, Handling, Judged, TcpType
  <2> QED
    BY <1>1, <1>3, <2>1 DEF Store, Handling
<1>4. CASE Lookup(c)
  <2> DEFINE p == sock[c].port
  <2>1. CASE p \in DOMAIN connections
    <3> DEFINE h == [hand[c] EXCEPT !.pc = "target", !.dest = connections[p].dest]
    <3>1. connections[p].dest \in Dests
      <4>1. PICK d \in Conns : Owner(p, d)
        BY <2>1 DEF Records
      <4>2. sock[d].dest \in Dests
        BY <4>1 DEF TcpType, Owner
      <4> QED
        BY <4>1, <4>2 DEF Owner
    <3>2. h \in HandType /\ h.pc = "target" /\ h.dest = connections[p].dest
      BY <1>1, <3>1, Zenon DEF HandType, Handling
    <3>3. Move(c, h)
      BY <1>4, <2>1, <3>2, Zenon DEF Lookup, Move, Handling, Judged, TcpType
    <3> QED
      BY <1>4, <3>2, <3>3 DEF Lookup
  <2>2. CASE p \notin DOMAIN connections /\ hand[c].tries + 1 < Tries
    <3> DEFINE h == [hand[c] EXCEPT !.tries = @ + 1]
    <3>1. h \in HandType /\ h.pc = "lookup"
      BY <1>1, <1>4 DEF HandType, Handling, Lookup
    <3>2. Move(c, h)
      BY <1>4, <2>2, <3>1 DEF Lookup, Move, Handling, Judged, TcpType
    <3> QED
      BY <1>4, <3>1, <3>2 DEF Lookup
  <2>3. CASE p \notin DOMAIN connections /\ ~(hand[c].tries + 1 < Tries)
    BY <1>1, <1>2, <1>4, <2>3 DEF Lookup, Handling
  <2> QED
    BY <2>1, <2>2, <2>3
<1>5. CASE LookupFails(c) \/ DnsDone(c) \/ SpliceEnd(c)
  BY <1>1, <1>2, <1>5 DEF LookupFails, DnsDone, SpliceEnd, Handling
<1>6. CASE Target(c)
  <2>1. ASSUME NEW pc \in {"dns", "dial"}, Goto(c, pc) PROVE Move(c, At(pc))
    BY <1>1, <1>6, <2>1 DEF Target, Goto, Move, Handling, Judged, TcpType
  <2>2. Goto(c, "dns") \/ Goto(c, "dial") \/ Return(c)
    BY <1>6 DEF Target
  <2> QED
    BY <1>1, <1>2, <1>6, <2>1, <2>2 DEF Target, Handling
<1>7. CASE Dial(c)
  <2>1. ASSUME hand' = [hand EXCEPT ![c].pc = "dialled"], limit' = limit
        PROVE  Move(c, At("dialled"))
    BY <1>1, <1>7, <2>1 DEF Dial, Move, Handling, Judged, TcpType
  <2> QED
    BY <1>1, <1>2, <1>7, <2>1 DEF Dial, Handling
<1>8. CASE StoreUpstream(c)
  <2>1. Move(c, At("splice"))
    BY <1>1, <1>8 DEF StoreUpstream, Move, Handling, Judged, TcpType
  <2> QED
    BY <1>1, <1>8, <2>1 DEF StoreUpstream, Handling
<1>9. CASE SpliceUp(c) \/ SpliceDown(c) \/ UpstreamCloses(c) \/ WriteFails(c)
  BY <1>9, Zenon DEF SpliceUp, SpliceDown, UpstreamCloses, WriteFails
<1> QED
  BY <1>3, <1>4, <1>5, <1>6, <1>7, <1>8, <1>9 DEF Handler

\* What connect, the established callback and the close callbacks make of a socket,
\* field by field.
LEMMA Connected ==
    ASSUME NEW c \in Conns, NEW p \in Ports, NEW d \in Dests, Connect(c, p, d)
    PROVE  \E s \in SockType : /\ sock' = [sock EXCEPT ![c] = s]
                               /\ s.st = "open" /\ s.port = p /\ s.dest = d
<1> DEFINE s == [Idle EXCEPT !.st = "open", !.port = p, !.dest = d]
<1>1. s \in SockType /\ s.st = "open" /\ s.port = p /\ s.dest = d
  BY Zenon DEF SockType, Idle, Kept, Live
<1>2. sock' = [sock EXCEPT ![c] = s]
  BY DEF Connect
<1> QED
  BY <1>1, <1>2, Zenon

LEMMA Published ==
    ASSUME NEW c \in Conns, TcpType, Publish(c)
    PROVE  \E s \in SockType :
              /\ sock' = [sock EXCEPT ![c] = s] /\ s.st = sock[c].st
              /\ s.port = sock[c].port /\ s.dest = sock[c].dest
              /\ \/ UNCHANGED connections /\ s.tracked = sock[c].tracked
                 \/ /\ s.tracked
                    /\ connections' = Put(connections, sock[c].port,
                                          [cookie |-> c, dest |-> sock[c].dest])
<1> DEFINE s == [sock[c] EXCEPT !.published = TRUE, !.tracked = TRUE]
           t == [sock[c] EXCEPT !.published = TRUE]
<1>1. sock[c] \in SockType
  BY DEF TcpType
<1>2. /\ s \in SockType /\ s.st = sock[c].st /\ s.port = sock[c].port
      /\ s.dest = sock[c].dest /\ s.tracked
  BY <1>1, Zenon DEF SockType
<1>3. /\ t \in SockType /\ t.st = sock[c].st /\ t.port = sock[c].port
      /\ t.dest = sock[c].dest /\ t.tracked = sock[c].tracked
  BY <1>1, Zenon DEF SockType
<1>4. \/ /\ connections' = Put(connections, sock[c].port,
                               [cookie |-> c, dest |-> sock[c].dest])
         /\ sock' = [sock EXCEPT ![c] = s]
      \/ UNCHANGED connections /\ sock' = [sock EXCEPT ![c] = t]
  BY Zenon DEF Publish
<1> QED
  BY <1>2, <1>3, <1>4, Zenon

LEMMA Shut ==
    ASSUME NEW c \in Conns, NEW how \in {"shutdown", "closing"}, TcpType, ClientClose(c, how)
    PROVE  \E s \in SockType :
              /\ sock' = [sock EXCEPT ![c] = s] /\ s.st = how /\ s.st \in Kept
              /\ s.port = sock[c].port /\ s.dest = sock[c].dest
              /\ s.tracked = sock[c].tracked
<1> DEFINE s == [sock[c] EXCEPT !.st = how]
<1>1. sock[c] \in SockType
  BY DEF TcpType
<1>2. how \in Kept
  BY DEF Kept, Live
<1>3. /\ s \in SockType /\ s.st = how /\ s.port = sock[c].port
      /\ s.dest = sock[c].dest /\ s.tracked = sock[c].tracked
  BY <1>1, <1>2, Zenon DEF SockType
<1>4. sock' = [sock EXCEPT ![c] = s]
  BY DEF ClientClose
<1> QED
  BY <1>2, <1>3, <1>4, Zenon

\* The socket reaches TCP_CLOSE, by a reset or after a close.
Releases(c, st) == sock[c].st \in Kept /\ Release(c, st) /\ UNCHANGED <<handler, backlog>>

LEMMA Released ==
    ASSUME NEW c \in Conns, NEW st \in {"closed", "aborted"}, TcpType, Releases(c, st)
    PROVE  \E s \in SockType : sock' = [sock EXCEPT ![c] = s] /\ s.st = st /\ s.st \notin Kept
<1> DEFINE s == [Idle EXCEPT !.st = st, !.port = sock[c].port]
<1>1. sock[c].port \in Ports \cup {NoPort}
  BY DEF TcpType, SockType
<1>2. s \in SockType /\ s.st = st
  BY <1>1, Zenon DEF SockType, Idle
<1>3. st \notin Kept
  BY DEF Kept, Live
<1>4. sock' = [sock EXCEPT ![c] = s]
  BY DEF Releases, Release
<1> QED
  BY <1>2, <1>3, <1>4, Zenon

\* What the application, its socket and the upstream do, by what becomes of the socket.
LEMMA PeerSteps ==
    ASSUME NEW c \in Conns, Peer(c)
    PROVE  \/ \E p \in Ports, d \in Dests : Connect(c, p, d)
           \/ \E how \in {"shutdown", "closing"} : ClientClose(c, how)
           \/ \E st \in {"closed", "aborted"} : Releases(c, st)
           \/ UpstreamCloses(c) \/ WriteFails(c)
<1>1. ASSUME ClientClose(c, "aborted") PROVE Releases(c, "aborted")
  BY <1>1, Zenon DEF ClientClose, Releases, Kept
<1>2. ASSUME CloseCallback(c) PROVE Releases(c, "closed")
  BY <1>2, Zenon DEF CloseCallback, Releases, Kept
<1> QED
  BY <1>1, <1>2, Zenon DEF Peer

\* The records the worker writes.
LEMMA HandRecords ==
    \A h \in HandType, pc \in {"queued", "refused", "accepted", "done"} :
        [h EXCEPT !.pc = pc] \in HandType /\ [h EXCEPT !.pc = pc].pc = pc
  BY DEF HandType, Handling

\* The hooks, the worker and its end keep the types.
LEMMA TcpTypeStep == TcpType /\ Records /\ Backlog /\ TcpStep => TcpType'
<1> SUFFICES ASSUME TcpType, Records, Backlog, TcpStep PROVE TcpType'
  OBVIOUS
<1> USE DEF client, handler
<1>1. ASSUME NEW c \in Conns, NEW p \in Ports, NEW d \in Dests, Connect(c, p, d)
      PROVE TcpType'
  <2> DEFINE h == [hand[c] EXCEPT !.pc = "queued"]
  <2>1. PICK s \in SockType : /\ sock' = [sock EXCEPT ![c] = s]
                              /\ s.st = "open" /\ s.dest = d
    BY <1>1, Connected
  <2>2. hand[c] \in HandType
    BY DEF TcpType
  <2>3. h \in HandType
    BY <2>2 DEF HandType
  <2>4. hand' = [hand EXCEPT ![c] = h] /\ backlog' = Append(backlog, c) /\ limit' = limit
    BY <1>1 DEF Connect
  <2>5. backlog' \in Seq(Conns)
    BY <2>4 DEF TcpType
  <2> HIDE DEF h
  <2> QED
    BY <2>1, <2>3, <2>4, <2>5 DEF TcpType
<1>2. ASSUME NEW c \in Conns, NEW how \in {"shutdown", "closing"}, ClientClose(c, how)
      PROVE TcpType'
  <2>1. PICK s \in SockType : /\ sock' = [sock EXCEPT ![c] = s] /\ s.st = how
                              /\ s.dest = sock[c].dest
    BY <1>2, Shut
  <2>2. sock[c].st \in Kept /\ UNCHANGED <<hand, backlog, limit>>
    BY <1>2 DEF ClientClose, Kept
  <2>3. s.dest \in Dests
    BY <2>1, <2>2 DEF TcpType
  <2>4. s.st # "idle"
    BY <1>2, <2>1
  <2> QED
    BY <2>1, <2>2, <2>3, <2>4 DEF TcpType
<1>9. ASSUME NEW c \in Conns, NEW st \in {"closed", "aborted"}, Releases(c, st)
      PROVE TcpType'
  <2>1. PICK s \in SockType : sock' = [sock EXCEPT ![c] = s] /\ s.st = st /\ s.st \notin Kept
    BY <1>9, Released
  <2>2. UNCHANGED <<hand, backlog, limit>>
    BY <1>9 DEF Releases
  <2>3. s.st # "idle"
    BY <1>9, <2>1
  <2> QED
    BY <2>1, <2>2, <2>3 DEF TcpType
<1>3. ASSUME NEW c \in Conns, Publish(c) PROVE TcpType'
  <2>1. PICK s \in SockType : /\ sock' = [sock EXCEPT ![c] = s]
                              /\ s.st = sock[c].st /\ s.dest = sock[c].dest
    BY <1>3, Published, Zenon
  <2>2. UNCHANGED <<hand, backlog, limit>>
    BY <1>3 DEF Publish
  <2> QED
    BY <2>1, <2>2 DEF TcpType
<1>4. CASE Accept
  <2> DEFINE c == Head(backlog)
  <2>1. c \in Conns /\ Tail(backlog) \in Seq(Conns) /\ hand[c].pc = "queued"
    <3>1. backlog \in Seq(Conns) /\ backlog # <<>>
      BY <1>4 DEF Accept, TcpType
    <3>2. 1 \in 1..Len(backlog) /\ c = backlog[1]
      BY <3>1
    <3> QED
      BY <3>1, <3>2 DEF Backlog
  <2>2. limit' \in Int
    BY <1>4, TcpPathAssumption DEF Accept, TcpType
  <2>3. hand' \in [Conns -> HandType]
    BY <1>4, <2>1, HandRecords, Zenon DEF Accept, TcpType
  <2>4. \A x \in Conns : sock[x].st = "idle" => hand'[x].pc = "none"
    BY <1>4, <2>1 DEF Accept, TcpType
  <2> QED
    BY <1>4, <2>1, <2>2, <2>3, <2>4 DEF Accept, TcpType
<1>5. CASE AcceptFails \/ CloseActive \/ UNCHANGED tcpvars \/ \E p \in Ports : Evict(p)
  BY <1>5, Zenon DEF AcceptFails, CloseActive, Evict, tcpvars, TcpType
<1>6. CASE CloseListeners
  <2>2. hand' \in [Conns -> HandType]
    BY <1>6, HandRecords, Zenon DEF CloseListeners, TcpType
  <2>3. \A c \in Conns : hand[c].pc = "none" => hand'[c].pc = "none"
    BY <1>6 DEF CloseListeners, TcpType
  <2>4. UNCHANGED <<sock, limit>> /\ backlog' = <<>>
    BY <1>6 DEF CloseListeners
  <2> QED
    BY <2>2, <2>3, <2>4 DEF TcpType
<1>7. CASE ProcessEnds
  <2>2. hand' \in [Conns -> HandType]
    BY <1>7, HandRecords, Zenon DEF ProcessEnds, TcpType
  <2>3. \A c \in Conns : hand[c].pc = "none" => hand'[c].pc = "none"
    BY <1>7 DEF ProcessEnds, TcpType
  <2>4. UNCHANGED sock /\ limit' = 0 /\ backlog' = <<>>
    BY <1>7 DEF ProcessEnds
  <2> QED
    BY <2>2, <2>3, <2>4 DEF TcpType
<1>8. ASSUME NEW c \in Conns, Handler(c) \/ UpstreamCloses(c) \/ WriteFails(c)
      PROVE TcpType'
  <2>1. CASE UNCHANGED <<hand, limit>>
    BY <1>8, <2>1, HandlerMoves DEF TcpType
  <2>2. ASSUME NEW h \in HandType, Move(c, h) PROVE TcpType'
    <3>1. UNCHANGED <<sock, backlog>>
      BY <1>8, HandlerMoves
    <3> QED
      BY <2>2, <3>1 DEF Move, TcpType, Handling
  <2> QED
    BY <1>8, <2>1, <2>2, HandlerMoves
<1> QED
  BY <1>1, <1>2, <1>3, <1>4, <1>5, <1>6, <1>7, <1>8, <1>9, PeerSteps DEF TcpStep

\* Fewer records of the same sockets are still right.
LEMMA RecordsKept ==
    ASSUME Records, UNCHANGED sock,
           \A r \in DOMAIN connections' :
               r \in DOMAIN connections /\ connections'[r] = connections[r]
    PROVE  Records'
<1>1. ASSUME NEW r \in DOMAIN connections' PROVE \E c \in Conns : Owner(r, c)'
  <2>1. PICK c \in Conns : Owner(r, c)
    BY DEF Records
  <2> QED
    BY <2>1 DEF Owner
<1> QED
  BY <1>1 DEF Records

\* redirect, handle_sockops and the eviction of the LRU map keep every record that
\* of a socket that is not closed: the callback removes it before the port is free.
LEMMA RecordsStep == TcpType /\ Records /\ TcpStep => Records'
<1> SUFFICES ASSUME TcpType, Records, TcpStep PROVE Records'
  OBVIOUS
<1> USE DEF client, handler
<1>1. ASSUME NEW c \in Conns, NEW p \in Ports, NEW d \in Dests, Connect(c, p, d)
      PROVE Records'
  <2>1. \A b \in Conns : sock[b].st \in Kept => sock[b].port # p /\ b # c
    BY <1>1 DEF Connect, PortFree, Gone, Kept, Live
  <2>2. \A b \in Conns : b # c => sock'[b] = sock[b]
    BY <1>1 DEF Connect, TcpType
  <2>3. sock'[c].port = p /\ UNCHANGED connections
    <3>1. PICK s \in SockType : sock' = [sock EXCEPT ![c] = s] /\ s.port = p
      BY <1>1, Connected
    <3> QED
      BY <1>1, <3>1 DEF Connect, TcpType
  <2>4. ASSUME NEW r \in DOMAIN connections, NEW b \in Conns, Owner(r, b)
        PROVE  Owner(r, b)'
    BY <2>1, <2>2, <2>3, <2>4 DEF Owner
  <2> QED
    BY <2>1, <2>2, <2>3, <2>4 DEF Records
<1>2. ASSUME NEW c \in Conns, NEW how \in {"shutdown", "closing"}, ClientClose(c, how)
      PROVE Records'
  <2>1. UNCHANGED connections /\ sock[c].st \in Kept
    BY <1>2 DEF ClientClose, Kept
  <2>2. PICK s \in SockType :
           /\ sock' = [sock EXCEPT ![c] = s] /\ s.st \in Kept
           /\ s.port = sock[c].port /\ s.dest = sock[c].dest /\ s.tracked = sock[c].tracked
    BY <1>2, Shut, ZenonT(60)
  <2>3. sock'[c] = s /\ \A b \in Conns : b # c => sock'[b] = sock[b]
    BY <2>2, Zenon DEF TcpType
  <2>4. ASSUME NEW r \in DOMAIN connections, NEW b \in Conns, Owner(r, b)
        PROVE  Owner(r, b)'
    BY <2>1, <2>2, <2>3, <2>4 DEF Owner
  <2> QED
    BY <2>1, <2>2, <2>3, <2>4 DEF Records
<1>7. ASSUME NEW c \in Conns, NEW st \in {"closed", "aborted"}, Releases(c, st)
      PROVE Records'
  <2>1. PICK s \in SockType : sock' = [sock EXCEPT ![c] = s] /\ s.st \notin Kept
    BY <1>7, Released, ZenonT(60)
  <2>2. sock'[c] = s /\ \A b \in Conns : b # c => sock'[b] = sock[b]
    BY <2>1, Zenon DEF TcpType
  <2>3. connections' = Closed(c)
    BY <1>7 DEF Releases, Release
  <2>4. ASSUME NEW r \in DOMAIN connections'
        PROVE  \E b \in Conns : Owner(r, b)'
    <3>1. r \in DOMAIN connections /\ connections'[r] = connections[r]
      BY <2>3, <2>4 DEF Closed, Without
    <3>2. PICK b \in Conns : Owner(r, b)
      BY <3>1 DEF Records
    <3>3. b # c
      BY <2>3, <2>4, <3>1, <3>2 DEF Closed, Without, Owner
    <3> QED
      BY <2>2, <3>1, <3>2, <3>3 DEF Owner
  <2> QED
    BY <2>1, <2>2, <2>4 DEF Records
<1>3. ASSUME NEW c \in Conns, Publish(c) PROVE Records'
  <2> DEFINE New == [cookie |-> c, dest |-> sock[c].dest]
  <2>1. PICK s \in SockType :
              /\ sock' = [sock EXCEPT ![c] = s] /\ s.st = sock[c].st
              /\ s.port = sock[c].port /\ s.dest = sock[c].dest
              /\ \/ UNCHANGED connections /\ s.tracked = sock[c].tracked
                 \/ s.tracked /\ connections' = Put(connections, sock[c].port, New)
    BY <1>3, Published
  <2>2. \A b \in Conns : /\ sock'[b].st = sock[b].st /\ sock'[b].port = sock[b].port
                         /\ sock'[b].dest = sock[b].dest
                         /\ sock[b].tracked => sock'[b].tracked
    BY <2>1 DEF TcpType
  <2>3. ASSUME NEW r \in DOMAIN connections, connections'[r] = connections[r]
        PROVE  \E b \in Conns : Owner(r, b)'
    <3>1. PICK b \in Conns : Owner(r, b)
      BY DEF Records
    <3> QED
      BY <2>2, <2>3, <3>1 DEF Owner
  <2>4. ASSUME NEW r \in DOMAIN connections'
        PROVE  \E b \in Conns : Owner(r, b)'
    <3>1. CASE r \in DOMAIN connections /\ connections'[r] = connections[r]
      BY <2>3, <3>1
    <3>2. CASE ~(r \in DOMAIN connections /\ connections'[r] = connections[r])
      <4>1. /\ s.tracked /\ connections' = Put(connections, sock[c].port, New)
            /\ r = sock[c].port
        BY <2>1, <2>4, <3>2 DEF Put
      <4>2. sock'[c].tracked /\ sock[c].st \in Kept
        BY <1>3, <2>1, <4>1 DEF Publish, Kept, Live, TcpType
      <4>3. connections'[r].cookie = c /\ connections'[r].dest = sock[c].dest
        BY <4>1 DEF Put
      <4> QED
        BY <2>2, <4>1, <4>2, <4>3, Zenon DEF Owner
    <3> QED
      BY <3>1, <3>2
  <2> QED
    BY <2>2, <2>4 DEF Records
<1>4. ASSUME NEW p \in Ports, Evict(p) PROVE Records'
  <2>1. \A r \in DOMAIN connections' :
           r \in DOMAIN connections /\ connections'[r] = connections[r]
    BY <1>4 DEF Evict, Without
  <2> QED
    BY <1>4, <2>1, RecordsKept DEF Evict
<1>5. CASE Accept \/ AcceptFails \/ CloseListeners \/ CloseActive \/ ProcessEnds
           \/ UNCHANGED tcpvars
  BY <1>5, RecordsKept DEF Accept, AcceptFails, CloseListeners, CloseActive,
     ProcessEnds, tcpvars
<1>6. ASSUME NEW c \in Conns, Handler(c) \/ UpstreamCloses(c) \/ WriteFails(c)
      PROVE Records'
  BY <1>6, HandlerMoves, RecordsKept
<1> QED
  BY <1>1, <1>2, <1>3, <1>4, <1>5, <1>6, <1>7, PeerSteps DEF TcpStep

\* connect queues a connection once; accept and the end of the listener take it out.
LEMMA BacklogStep == TcpType /\ Backlog /\ Records /\ TcpStep => Backlog'
<1> SUFFICES ASSUME TcpType, Backlog, Records, TcpStep PROVE Backlog'
  OBVIOUS
<1> USE DEF client, handler
<1>1. ASSUME NEW c \in Conns, NEW p \in Ports, NEW d \in Dests, Connect(c, p, d)
      PROVE Backlog'
  <2>1. \A n \in 1..Len(backlog) : backlog[n] \in Conns /\ backlog[n] # c
    BY <1>1 DEF Connect, TcpType, Backlog
  <2>2. /\ \A x \in Conns : x # c => hand'[x] = hand[x]
        /\ hand'[c].pc = "queued"
    BY <1>1 DEF Connect, TcpType, HandType
  <2>3. /\ backlog' = Append(backlog, c) /\ Len(backlog') = Len(backlog) + 1
        /\ \A n \in 1..Len(backlog) : backlog'[n] = backlog[n]
        /\ backlog'[Len(backlog) + 1] = c /\ Len(backlog) \in Nat
    BY <1>1 DEF Connect, TcpType
  <2>4. \A n \in 1..Len(backlog') :
           n \in 1..Len(backlog) \/ n = Len(backlog) + 1
    BY <2>3
  <2>5. \A n \in 1..Len(backlog') : hand'[backlog'[n]].pc = "queued"
    BY <2>1, <2>2, <2>3, <2>4 DEF Backlog
  <2>6. \A m, n \in 1..Len(backlog') : backlog'[m] = backlog'[n] => m = n
    BY <2>1, <2>3, <2>4 DEF Backlog
  <2> QED
    BY <2>5, <2>6 DEF Backlog
<1>2. CASE Accept
  <2> DEFINE c == Head(backlog)
  <2>1. backlog \in Seq(Conns) /\ backlog # <<>> /\ backlog' = Tail(backlog)
    BY <1>2 DEF Accept, TcpType
  <2>2. /\ Len(backlog) \in Nat \ {0} /\ Len(backlog') = Len(backlog) - 1
        /\ \A n \in 1..Len(backlog') : backlog'[n] = backlog[n + 1] /\ n + 1 \in 1..Len(backlog)
        /\ c = backlog[1] /\ 1 \in 1..Len(backlog)
    BY <2>1
  <2>3. \A n \in 1..Len(backlog') : backlog'[n] # c /\ backlog'[n] \in Conns
    BY <2>1, <2>2 DEF Backlog
  <2>4. \A x \in Conns : x # c => hand'[x] = hand[x]
    BY <1>2 DEF Accept, TcpType
  <2>5. \A n \in 1..Len(backlog') : hand'[backlog'[n]].pc = "queued"
    <3> SUFFICES ASSUME NEW n \in 1..Len(backlog') PROVE hand'[backlog'[n]].pc = "queued"
      OBVIOUS
    <3>1. backlog'[n] = backlog[n + 1] /\ n + 1 \in 1..Len(backlog)
      BY <2>2, Zenon
    <3>2. hand[backlog'[n]].pc = "queued"
      BY <3>1, Zenon DEF Backlog
    <3>3. hand'[backlog'[n]] = hand[backlog'[n]]
      BY <2>3, <2>4, Zenon
    <3> QED
      BY <3>2, <3>3, Zenon
  <2>6. \A m, n \in 1..Len(backlog') : backlog'[m] = backlog'[n] => m = n
    <3> SUFFICES ASSUME NEW m \in 1..Len(backlog'), NEW n \in 1..Len(backlog'),
                        backlog'[m] = backlog'[n]
                 PROVE  m = n
      OBVIOUS
    <3>1. /\ m + 1 \in 1..Len(backlog) /\ n + 1 \in 1..Len(backlog)
          /\ backlog[m + 1] = backlog[n + 1]
      BY <2>2
    <3>2. m + 1 = n + 1
      BY <3>1, Zenon DEF Backlog
    <3> QED
      BY <3>2
  <2> QED
    BY <2>5, <2>6 DEF Backlog
<1>3. CASE CloseListeners \/ ProcessEnds
  <2>1. backlog' = <<>>
    BY <1>3 DEF CloseListeners, ProcessEnds
  <2> QED
    BY <2>1 DEF Backlog
<1>4. CASE AcceptFails \/ CloseActive \/ UNCHANGED tcpvars \/ \E p \in Ports : Evict(p)
  BY <1>4, Zenon DEF AcceptFails, CloseActive, Evict, tcpvars, Backlog
<1>5. ASSUME NEW c \in Conns, NEW how, NEW st,
             ClientClose(c, how) \/ Releases(c, st) \/ Publish(c)
      PROVE Backlog'
  BY <1>5 DEF ClientClose, Releases, Publish, Backlog
<1>6. ASSUME NEW c \in Conns, Handler(c) \/ UpstreamCloses(c) \/ WriteFails(c)
      PROVE Backlog'
  <2>1. UNCHANGED backlog
    BY <1>6, HandlerMoves
  <2>2. CASE UNCHANGED hand
    BY <2>1, <2>2 DEF Backlog
  <2>3. ASSUME NEW h \in HandType, Move(c, h) PROVE Backlog'
    <3>1. \A n \in 1..Len(backlog) : backlog[n] \in Conns /\ backlog[n] # c
      BY <2>3 DEF Move, Backlog, TcpType, Handling
    <3>2. \A x \in Conns : x # c => hand'[x] = hand[x]
      BY <2>3 DEF Move, TcpType
    <3> QED
      BY <2>1, <3>1, <3>2 DEF Backlog
  <2> QED
    BY <1>6, <2>2, <2>3, HandlerMoves
<1> QED
  BY <1>1, <1>2, <1>3, <1>4, <1>5, <1>6, PeerSteps DEF TcpStep

\* A destination is set by the lookup alone, from the record of the client's port,
\* which is that client's own until the kernel has closed its socket.
LEMMA ForwardsOwnStep ==
    TcpType /\ Records /\ Backlog /\ ForwardsOwn /\ TcpStep => ForwardsOwn'
<1> SUFFICES ASSUME TcpType, Records, Backlog, ForwardsOwn, TcpStep PROVE ForwardsOwn'
  OBVIOUS
<1> USE DEF client, handler
<1>1. ASSUME NEW c \in Conns, NEW p \in Ports, NEW d \in Dests, Connect(c, p, d)
      PROVE ForwardsOwn'
  <2>1. \A x \in Conns : x # c => hand'[x] = hand[x] /\ sock'[x] = sock[x]
    BY <1>1 DEF Connect, TcpType
  <2>2. hand'[c].pc = "queued"
    BY <1>1 DEF Connect, TcpType, HandType
  <2> QED
    BY <2>1, <2>2, Zenon DEF ForwardsOwn, Handling
<1>2. ASSUME NEW c \in Conns, NEW how \in {"shutdown", "closing"}, ClientClose(c, how)
      PROVE ForwardsOwn'
  <2>1. PICK s \in SockType : sock' = [sock EXCEPT ![c] = s] /\ s.dest = sock[c].dest
    BY <1>2, Shut, ZenonT(60)
  <2>2. sock'[c] = s /\ \A x \in Conns : x # c => sock'[x] = sock[x]
    BY <2>1, Zenon DEF TcpType
  <2>3. UNCHANGED hand /\ sock[c].st \in Kept
    BY <1>2 DEF ClientClose, Kept
  <2> QED
    BY <2>1, <2>2, <2>3, ZenonT(60) DEF ForwardsOwn
<1>8. ASSUME NEW c \in Conns, NEW st \in {"closed", "aborted"}, Releases(c, st)
      PROVE ForwardsOwn'
  <2>1. PICK s \in SockType : sock' = [sock EXCEPT ![c] = s] /\ s.st \notin Kept
    BY <1>8, Released, ZenonT(60)
  <2>2. sock'[c] = s /\ \A x \in Conns : x # c => sock'[x] = sock[x]
    BY <2>1, Zenon DEF TcpType
  <2>3. UNCHANGED hand
    BY <1>8 DEF Releases
  <2> QED
    BY <2>1, <2>2, <2>3, ZenonT(60) DEF ForwardsOwn
<1>3. ASSUME NEW c \in Conns, Publish(c) PROVE ForwardsOwn'
  <2>1. PICK s \in SockType : /\ sock' = [sock EXCEPT ![c] = s]
                              /\ s.st = sock[c].st /\ s.dest = sock[c].dest
    BY <1>3, Published, Zenon
  <2>2. UNCHANGED hand
    BY <1>3 DEF Publish
  <2> QED
    BY <2>1, <2>2 DEF ForwardsOwn, TcpType
<1>4. CASE Accept
  <2> DEFINE c == Head(backlog)
  <2>1. \A x \in Conns : x # c => hand'[x] = hand[x]
    BY <1>4 DEF Accept, TcpType
  <2>2. c \in Conns => hand'[c].pc \in {"refused", "accepted"}
    BY <1>4 DEF Accept, TcpType, HandType
  <2>3. UNCHANGED sock
    BY <1>4 DEF Accept
  <2> QED
    BY <2>1, <2>2, <2>3 DEF ForwardsOwn, Handling
<1>5. CASE CloseListeners \/ ProcessEnds
  <2>1. \A x \in Conns : hand'[x] = hand[x] \/ hand'[x].pc \in {"refused", "done"}
    BY <1>5 DEF CloseListeners, ProcessEnds, TcpType, HandType
  <2>2. UNCHANGED sock
    BY <1>5 DEF CloseListeners, ProcessEnds
  <2> QED
    BY <2>1, <2>2 DEF ForwardsOwn, Handling
<1>6. CASE AcceptFails \/ CloseActive \/ UNCHANGED tcpvars \/ \E p \in Ports : Evict(p)
  BY <1>6, Zenon DEF AcceptFails, CloseActive, Evict, tcpvars, ForwardsOwn
<1>7. ASSUME NEW c \in Conns, Handler(c) \/ UpstreamCloses(c) \/ WriteFails(c)
      PROVE ForwardsOwn'
  <2>1. UNCHANGED sock
    BY <1>7, HandlerMoves
  <2>2. CASE UNCHANGED hand
    BY <2>1, <2>2 DEF ForwardsOwn
  <2>3. ASSUME NEW h \in HandType, Move(c, h) PROVE ForwardsOwn'
    <3>1. hand'[c] = h /\ \A x \in Conns : x # c => hand'[x] = hand[x]
      BY <2>3 DEF Move, TcpType
    <3>2. ASSUME h.pc \in Judged, sock[c].st \in Kept PROVE h.dest = sock[c].dest
      <4>1. CASE hand[c].pc \in Judged /\ h.dest = hand[c].dest
        BY <3>2, <4>1 DEF ForwardsOwn, Judged
      <4>2. ASSUME sock[c].port \in DOMAIN connections,
                   h.dest = connections[sock[c].port].dest
            PROVE  h.dest = sock[c].dest
        <5>1. PICK b \in Conns : Owner(sock[c].port, b)
          BY <4>2 DEF Records
        <5>2. b = c
          BY <3>2, <5>1 DEF Records, Owner
        <5> QED
          BY <4>2, <5>1, <5>2 DEF Owner
      <4> QED
        BY <2>3, <3>2, <4>1, <4>2 DEF Move
    <3> QED
      BY <2>1, <3>1, <3>2 DEF ForwardsOwn, Judged
  <2> QED
    BY <1>7, <2>2, <2>3, HandlerMoves
<1> QED
  BY <1>1, <1>2, <1>3, <1>4, <1>5, <1>6, <1>7, <1>8, PeerSteps DEF TcpStep

-----------------------------------------------------------------------------
(***************************************************************************)
(* The slots of maxConnections.                                            *)
(***************************************************************************)
Running == {c \in Conns : hand[c].pc \in Handling}

\* The slots taken are those of running handlers and never exceed the limit.
SlotsBounded == SlotsExact /\ limit \in 0..MaxConnections

\* Counting handlers: one more, and one fewer.
LEMMA CountHandlers ==
    ASSUME NEW S \in SUBSET Conns, NEW c \in Conns
    PROVE  /\ IsFiniteSet(S) /\ Cardinality(S) \in Nat
           /\ c \notin S => Cardinality(S \cup {c}) = Cardinality(S) + 1
           /\ c \in S => Cardinality(S \ {c}) = Cardinality(S) - 1 /\ Cardinality(S) > 0
<1>1. IsFiniteSet(S)
  BY TcpPathAssumption, FS_Subset, Zenon
<1>2. Cardinality(S) \in Nat
  BY <1>1, FS_CardinalityType
<1>3. c \notin S => Cardinality(S \cup {c}) = Cardinality(S) + 1
  BY <1>1, FS_AddElement
<1>4. ASSUME c \in S PROVE Cardinality(S \ {c}) = Cardinality(S) - 1 /\ Cardinality(S) > 0
  <2>1. Cardinality(S \ {c}) = Cardinality(S) - 1
    BY <1>1, <1>4, FS_RemoveElement
  <2>2. IsFiniteSet(S \ {c})
    BY <1>1, FS_Subset
  <2>3. Cardinality(S \ {c}) \in Nat
    BY <2>2, FS_CardinalityType
  <2> QED
    BY <1>2, <2>1, <2>3
<1> QED
  BY <1>1, <1>2, <1>3, <1>4

\* accept takes a slot or refuses, every return gives one back, and nothing else
\* starts or ends a handler.
LEMMA SlotsStep ==
    TcpType /\ Records /\ Backlog /\ SlotsBounded /\ TcpStep => SlotsBounded'
<1> SUFFICES ASSUME TcpType, Records, Backlog, SlotsBounded, TcpStep PROVE SlotsBounded'
  OBVIOUS
<1> USE DEF client, handler
<1>a. limit = Cardinality(Running) /\ limit \in 0..MaxConnections /\ Running \in SUBSET Conns
  BY DEF SlotsBounded, SlotsExact, Running
<1>b. MaxConnections \in Nat \ {0}
  BY TcpPathAssumption
<1>c. ASSUME Running' = Running, limit' = limit PROVE SlotsBounded'
  BY <1>a, <1>c, Zenon DEF SlotsBounded, SlotsExact, Running
<1>1. ASSUME NEW c \in Conns, NEW p \in Ports, NEW d \in Dests, Connect(c, p, d)
      PROVE SlotsBounded'
  <2>1. \A x \in Conns : x # c => hand'[x] = hand[x]
    BY <1>1 DEF Connect, TcpType
  <2>2. hand'[c].pc = "queued" /\ hand[c].pc = "none" /\ limit' = limit
    BY <1>1 DEF Connect, TcpType, HandType
  <2>3. Running' = Running
    BY <2>1, <2>2 DEF Running, Handling
  <2> QED
    BY <1>c, <2>2, <2>3
<1>2. CASE Accept
  <2> DEFINE c == Head(backlog)
  <2>1. c \in Conns /\ hand[c].pc = "queued"
    <3>1. backlog \in Seq(Conns) /\ backlog # <<>>
      BY <1>2 DEF Accept, TcpType
    <3>2. 1 \in 1..Len(backlog) /\ c = backlog[1]
      BY <3>1
    <3> QED
      BY <3>1, <3>2 DEF Backlog
  <2>2. \A x \in Conns : x # c => hand'[x] = hand[x]
    BY <1>2 DEF Accept, TcpType
  <2>3. CASE limit = MaxConnections
    <3>1. hand'[c].pc = "refused" /\ limit' = limit
      BY <1>2, <2>1, <2>3 DEF Accept, TcpType, HandType
    <3>2. Running' = Running
      BY <2>1, <2>2, <3>1 DEF Running, Handling
    <3> QED
      BY <1>c, <3>1, <3>2
  <2>4. CASE limit # MaxConnections
    <3>1. hand'[c].pc = "accepted" /\ limit' = limit + 1
      BY <1>2, <2>1, <2>4 DEF Accept, TcpType, HandType
    <3>2. Running' = Running \cup {c} /\ c \notin Running
      BY <2>1, <2>2, <3>1 DEF Running, Handling
    <3>3. Cardinality(Running') = limit'
      BY <1>a, <2>1, <3>1, <3>2, CountHandlers
    <3>4. limit' \in 0..MaxConnections
      BY <1>a, <1>b, <2>4, <3>1
    <3> QED
      BY <3>3, <3>4 DEF SlotsBounded, SlotsExact, Running
  <2> QED
    BY <2>3, <2>4
<1>3. CASE CloseListeners
  <2>1. limit' = limit
    BY <1>3 DEF CloseListeners
  <2>2. \A x \in Conns : \/ hand'[x] = hand[x]
                         \/ hand[x].pc = "queued" /\ hand'[x].pc = "refused"
    BY <1>3 DEF CloseListeners, TcpType, HandType
  <2>3. Running' = Running
    BY <2>2 DEF Running, Handling
  <2> QED
    BY <1>c, <2>1, <2>3
<1>4. CASE ProcessEnds
  <2>1. \A x \in Conns : hand'[x].pc \in {"none", "done"}
    BY <1>4 DEF ProcessEnds, TcpType, HandType
  <2>2. Running' = {}
    BY <2>1 DEF Running, Handling
  <2>3. Cardinality(Running') = 0
    BY <2>2, FS_EmptySet
  <2>4. limit' = 0
    BY <1>4 DEF ProcessEnds
  <2>5. 0 \in 0..MaxConnections
    BY <1>b
  <2> QED
    BY <2>3, <2>4, <2>5 DEF SlotsBounded, SlotsExact, Running
<1>5. CASE \/ AcceptFails \/ CloseActive \/ UNCHANGED tcpvars \/ (\E p \in Ports : Evict(p))
           \/ \E c \in Conns : \/ \E how \in {"shutdown", "closing"} : ClientClose(c, how)
                              \/ \E st \in {"closed", "aborted"} : Releases(c, st)
                              \/ Publish(c)
  <2>1. UNCHANGED <<hand, limit>>
    BY <1>5, Zenon DEF AcceptFails, CloseActive, tcpvars, Evict, ClientClose, Releases, Publish
  <2> QED
    BY <1>c, <2>1 DEF Running
<1>6. ASSUME NEW c \in Conns, Handler(c) \/ UpstreamCloses(c) \/ WriteFails(c)
      PROVE SlotsBounded'
  <2>1. CASE UNCHANGED <<hand, limit>>
    BY <1>c, <2>1 DEF Running
  <2>2. ASSUME NEW h \in HandType, Move(c, h) PROVE SlotsBounded'
    <3>1. /\ hand'[c] = h /\ \A x \in Conns : x # c => hand'[x] = hand[x]
          /\ c \in Running
      BY <2>2, ZenonT(60) DEF Move, TcpType, Running
    <3>2. CASE h.pc \in Handling /\ limit' = limit
      <4>1. Running' = Running
        BY <3>1, <3>2, Zenon DEF Running
      <4> QED
        BY <1>c, <3>2, <4>1
    <3>3. CASE h.pc = "done" /\ limit' = limit - 1
      <4>1. Running' = Running \ {c}
        BY <3>1, <3>3 DEF Running, Handling
      <4>2. Cardinality(Running') = limit' /\ limit > 0
        BY <1>a, <3>1, <3>3, <4>1, CountHandlers, Zenon
      <4>3. limit' \in 0..MaxConnections
        BY <1>a, <1>b, <3>3, <4>2
      <4> QED
        BY <4>2, <4>3 DEF SlotsBounded, SlotsExact, Running
    <3> QED
      BY <2>2, <3>2, <3>3 DEF Move
  <2> QED
    BY <1>6, <2>1, <2>2, HandlerMoves
<1> QED
  BY <1>1, <1>2, <1>3, <1>4, <1>5, <1>6, PeerSteps DEF TcpStep

-----------------------------------------------------------------------------
(***************************************************************************)
(* The DNS path.  SlotKept says why the port of a slot names a resolver: a    *)
(* slot, once given to a resolver and family, is not given to another.  QueueOnce and    *)
(* WorkOnce say that a datagram is at one place: an answer is written for a   *)
(* query whose record is still there.                                      *)
(***************************************************************************)
QueryType ==
    [at : {"none", "lost", "sent", "queued", "work", "reply", "seen"},
     sock : UdpSocks \cup {Nobody}, slot : 0..Slots, hook : {0, 4, 6},
     asked : Resolvers \cup {Nobody}, from : Resolvers \cup {Nobody, Listener}]

PeerType == [fam : {0, 4, 6}, addr : Resolvers \cup {Nobody}]

DnsType ==
    /\ peers \in [UdpSocks -> [SlotNumbers -> PeerType]]
    /\ query \in [Queries -> QueryType] /\ queue \in Seq(Queries)
    /\ work = [w \in DnsWorkers |-> [pc |-> work[w].pc, query |-> work[w].query]]

QueueOnce ==
    /\ \A n \in 1..Len(queue) : query[queue[n]].at = "queued"
    /\ \A m, n \in 1..Len(queue) : queue[m] = queue[n] => m = n

Held(w) == work[w].pc \in {"answer", "upstream", "write"}

WorkOnce ==
    /\ \A w \in DnsWorkers : Held(w) => /\ work[w].query \in Queries
                                        /\ query[work[w].query].at = "work"
    /\ \A v, w \in DnsWorkers :
          Held(v) /\ Held(w) /\ work[v].query = work[w].query => v = w

Pending(q) == query[q].at \in {"sent", "queued", "work", "reply"}

Entry(h, r) == [fam |-> h, addr |-> r]

SlotKept ==
    \A q \in Queries : Pending(q) =>
        /\ query[q].sock \in UdpSocks /\ query[q].slot \in SlotNumbers
        /\ peers[query[q].sock][query[q].slot] = Entry(query[q].hook, query[q].asked)
        /\ query[q].hook \in {4, 6} /\ query[q].asked \in Resolvers

\* The source that restore leaves on the reply to the query v.
Told(v) == IF v.hook = Family[v.sock] THEN v.asked ELSE Listener

DnsInv == DnsType /\ QueueOnce /\ WorkOnce /\ SlotKept /\ AnswerFromAsked

DnsStep ==
    \/ \E q \in Queries : Datagram(q)
    \/ \E w \in DnsWorkers : Work(w)
    \/ (\E i \in SlotNumbers : ReaderEnds(i)) \/ CloseDns \/ UNCHANGED dnsvars

\* dns_slot: the slot found for a resolver is its own or one that is still empty.
LEMMA SlotFound ==
    ASSUME DnsType, NEW u \in UdpSocks, NEW d
    PROVE  \/ SlotFor(u, d) = 0
           \/ /\ SlotFor(u, d) \in SlotNumbers
              /\ peers[u][SlotFor(u, d)] = d \/ peers[u][SlotFor(u, d)].fam = 0
<1> DEFINE own == {i \in SlotNumbers : peers[u][i] = d}
           empty == {i \in SlotNumbers : peers[u][i].fam = 0}
<1>1. ASSUME NEW S \in SUBSET SlotNumbers, S # {} PROVE First(S) \in S
  <2>1. S \in SUBSET Nat
    BY DnsPathAssumption DEF SlotNumbers
  <2>2. \E i \in S : \A j \in S : i <= j
    <3> DEFINE Less == OpToRel(<, Nat)
    <3>1. PICK i \in S : \A j \in S : ~(<<j, i>> \in Less)
      <4>1. IsWellFoundedOn(Less, Nat)
        BY NatLessThanWellFounded
      <4> HIDE DEF Less
      <4> QED
        BY <1>1, <2>1, <4>1, WFMin, Zenon
    <3>2. \A j \in S : ~(j < i)
      BY <2>1, <3>1, Zenon DEF OpToRel
    <3> QED
      BY <2>1, <3>2
  <2> QED
    BY <2>2 DEF First
<1>2. SlotFor(u, d) = CASE own # {} -> First(own)
                        [] own = {} /\ empty # {} -> First(empty)
                        [] OTHER -> 0
  BY DEF SlotFor
<1>3. CASE own # {}
  BY <1>1, <1>2, <1>3, Zenon
<1>4. CASE own = {} /\ empty # {}
  BY <1>1, <1>2, <1>4, Zenon
<1>5. CASE own = {} /\ empty = {}
  BY <1>2, <1>5, Zenon
<1> QED
  BY <1>3, <1>4, <1>5, Zenon

\* A step that moves one datagram on, or loses it, and keeps what was recorded of it.
Advance(q) ==
    /\ query' \in [Queries -> QueryType] /\ UNCHANGED peers
    /\ \A p \in Queries : p # q => query'[p] = query[p]
    /\ Pending(q)' => /\ Pending(q)
                      /\ query'[q].sock = query[q].sock /\ query'[q].slot = query[q].slot
                      /\ query'[q].hook = query[q].hook /\ query'[q].asked = query[q].asked
    /\ query'[q].at = "seen" => query'[q].from = Told(query'[q])

\* Such a step keeps the slots in agreement with the resolvers.
LEMMA Advanced ==
    ASSUME DnsInv, NEW q \in Queries, Advance(q)
    PROVE  SlotKept' /\ AnswerFromAsked'
<1>1. SlotKept'
  BY ZenonT(60) DEF DnsInv, SlotKept, Advance, Pending
<1>2. AnswerFromAsked'
  BY Zenon DEF DnsInv, AnswerFromAsked, Told, Advance
<1> QED
  BY <1>1, <1>2

\* A datagram that is neither queued nor held may change without them.
LEMMA Elsewhere ==
    ASSUME DnsInv, NEW q \in Queries, \A p \in Queries : p # q => query'[p] = query[p],
           query[q].at \notin {"queued", "work"}, UNCHANGED <<queue, work>>
    PROVE  QueueOnce' /\ WorkOnce'
<1>1. \A n \in 1..Len(queue) : queue[n] \in Queries /\ queue[n] # q
  BY DEF DnsInv, DnsType, QueueOnce
<1>2. \A w \in DnsWorkers : Held(w) => work[w].query \in Queries /\ work[w].query # q
  BY ZenonT(60) DEF DnsInv, WorkOnce
<1>3. QueueOnce'
  BY <1>1 DEF DnsInv, QueueOnce
<1>4. WorkOnce'
  BY <1>2, Zenon DEF DnsInv, WorkOnce, Held
<1> QED
  BY <1>3, <1>4

\* Losing a datagram, or changing only its place, keeps its record.
LEMMA RecordKept ==
    ASSUME DnsInv, NEW q \in Queries, UNCHANGED peers,
           \/ query' = [query EXCEPT ![q] = Lost]
           \/ /\ Pending(q)
              /\ \E at \in {"queued", "work", "reply"} : query' = [query EXCEPT ![q].at = at]
    PROVE  Advance(q)
<1>1. query \in [Queries -> QueryType] /\ query[q] \in QueryType
  BY DEF DnsInv, DnsType
<1>2. CASE query' = [query EXCEPT ![q] = Lost]
  <2>1. Lost \in QueryType /\ Lost.at = "lost"
    BY DnsPathAssumption DEF Lost, Unsent, QueryType
  <2>2. query' \in [Queries -> QueryType] /\ query'[q].at = "lost"
        /\ \A p \in Queries : p # q => query'[p] = query[p]
    BY <1>1, <1>2, <2>1
  <2> QED
    BY <2>2 DEF Advance, Pending
<1>3. ASSUME Pending(q), NEW at \in {"queued", "work", "reply"},
             query' = [query EXCEPT ![q].at = at]
      PROVE  Advance(q)
  <2> DEFINE v == [query[q] EXCEPT !.at = at]
  <2>1. /\ v \in QueryType /\ v.at = at /\ v.sock = query[q].sock
        /\ v.slot = query[q].slot /\ v.hook = query[q].hook /\ v.asked = query[q].asked
    BY <1>1 DEF QueryType
  <2>2. query' = [query EXCEPT ![q] = v]
    BY <1>3
  <2> HIDE DEF v
  <2>3. query' \in [Queries -> QueryType] /\ query'[q] = v
        /\ \A p \in Queries : p # q => query'[p] = query[p]
    BY <1>1, <2>1, <2>2
  <2> QED
    BY <1>3, <2>1, <2>3 DEF Advance, Pending
<1> QED
  BY <1>2, <1>3

\* sendmsg: the slot the query is given is its resolver's own from now on.
LEMMA SendStep ==
    ASSUME DnsInv, NEW q \in Queries, NEW u \in UdpSocks, NEW r \in Resolvers,
           NEW h \in {4, 6}, Send(q, u, r, h)
    PROVE  DnsInv'
<1> DEFINE d == Entry(h, r)
           New(i) == [at |-> "sent", sock |-> u, slot |-> i, hook |-> h, asked |-> r,
                      from |-> Nobody]
<1>1. PICK i \in {SlotFor(u, d), 0} :
         /\ query[q].at = "none"
         /\ query' = [query EXCEPT ![q] = IF i = 0 \/ stop THEN Lost ELSE New(i)]
         /\ peers' = IF i = 0 THEN peers ELSE [peers EXCEPT ![u][i] = d]
         /\ UNCHANGED <<queue, work, readers, stop>>
  BY Zenon DEF Send, Entry
<1>2. /\ peers \in [UdpSocks -> [SlotNumbers -> PeerType]]
      /\ query \in [Queries -> QueryType]
  BY DEF DnsInv, DnsType
<1>3. i # 0 => i \in SlotNumbers /\ (peers[u][i] = d \/ peers[u][i].fam = 0)
  BY <1>1, SlotFound DEF DnsInv
<1>d. d \in PeerType
  BY DEF Entry, PeerType
<1> HIDE DEF d
<1>4. Lost \in QueryType /\ Lost.at = "lost"
  BY DnsPathAssumption DEF Lost, Unsent, QueryType
<1>5. i # 0 => New(i) \in QueryType
  <2> SUFFICES ASSUME i # 0 PROVE New(i) \in QueryType
    OBVIOUS
  <2>1. i \in 0..Slots
    BY <1>3, DnsPathAssumption DEF SlotNumbers
  <2> QED
    BY <2>1, Zenon DEF QueryType
<1>6. /\ query' \in [Queries -> QueryType]
      /\ \A p \in Queries : p # q => query'[p] = query[p]
      /\ query'[q] = IF i = 0 \/ stop THEN Lost ELSE New(i)
  BY <1>1, <1>2, <1>4, <1>5, Zenon
<1>7. peers' \in [UdpSocks -> [SlotNumbers -> PeerType]]
  BY <1>1, <1>2, <1>3, <1>d, Zenon
<1>8. QueueOnce' /\ WorkOnce'
  BY <1>1, <1>6, Elsewhere, Zenon
<1>9. SlotKept'
  <2>1. ASSUME NEW p \in Queries, p # q, Pending(p)
        PROVE  peers'[query[p].sock][query[p].slot] = Entry(query[p].hook, query[p].asked)
    <3>1. /\ query[p].sock \in UdpSocks /\ query[p].slot \in SlotNumbers
          /\ peers[query[p].sock][query[p].slot] = Entry(query[p].hook, query[p].asked)
          /\ query[p].hook \in {4, 6}
      BY <2>1, Zenon DEF DnsInv, SlotKept
    <3>2. CASE i = 0
      BY <1>1, <3>1, <3>2, Zenon
    <3>3. CASE i # 0 /\ query[p].sock = u /\ query[p].slot = i
      <4>1. \A f, x : Entry(f, x).fam = f
        BY Zenon DEF Entry
      <4>2. query[p].hook # 0
        BY <3>1
      <4>3. peers[u][i] = Entry(query[p].hook, query[p].asked)
        BY <3>1, <3>3, Zenon
      <4>4. peers[u][i].fam = query[p].hook
        BY <4>1, <4>3, Zenon
      <4> QED
        BY <1>1, <1>2, <1>3, <3>3, <4>2, <4>3, <4>4, Zenon
    <3>4. CASE i # 0 /\ ~(query[p].sock = u /\ query[p].slot = i)
      BY <1>1, <1>2, <1>3, <3>1, <3>4, Zenon
    <3> QED
      BY <3>2, <3>3, <3>4, Zenon
  <2>2. Pending(q)' => i # 0 /\ query'[q] = New(i)
    BY <1>4, <1>6, Zenon DEF Pending
  <2>3. i # 0 => peers'[u][i] = Entry(h, r)
    BY <1>1, <1>2, <1>3, Zenon DEF d
  <2> QED
    <3> SUFFICES ASSUME NEW p \in Queries, Pending(p)'
                 PROVE  /\ query'[p].sock \in UdpSocks /\ query'[p].slot \in SlotNumbers
                        /\ peers'[query'[p].sock][query'[p].slot]
                             = Entry(query'[p].hook, query'[p].asked)
                        /\ query'[p].hook \in {4, 6} /\ query'[p].asked \in Resolvers
      BY Zenon DEF SlotKept
    <3>1. CASE p = q
      <4>1. /\ query'[p].sock = u /\ query'[p].slot = i /\ i # 0
            /\ query'[p].hook = h /\ query'[p].asked = r
        <5>1. New(i).sock = u /\ New(i).slot = i /\ New(i).hook = h /\ New(i).asked = r
          OBVIOUS
        <5> HIDE DEF New
        <5> QED
          BY <2>2, <3>1, <5>1, Zenon
      <4> QED
        BY <1>3, <2>3, <4>1, Zenon
    <3>2. CASE p # q
      <4>1. query'[p] = query[p] /\ Pending(p)
        BY <1>6, <3>2, Zenon DEF Pending
      <4> QED
        BY <2>1, <3>2, <4>1, Zenon DEF DnsInv, SlotKept
    <3> QED
      BY <3>1, <3>2, Zenon
<1>10. AnswerFromAsked'
  <2> SUFFICES ASSUME NEW p \in Queries, query'[p].at = "seen"
               PROVE  query'[p].from = Told(query'[p])
    BY Zenon DEF AnswerFromAsked, Told
  <2>1. p # q
    <3>1. query'[q].at = "lost" \/ query'[q].at = "sent"
      <4>1. New(i).at = "sent"
        OBVIOUS
      <4> HIDE DEF New
      <4> QED
        BY <1>4, <1>6, <4>1, Zenon
    <3> QED
      BY <3>1, Zenon
  <2> QED
    BY <1>6, <2>1, Zenon DEF DnsInv, AnswerFromAsked, Told
<1> QED
  BY <1>1, <1>6, <1>7, <1>8, <1>9, <1>10, Zenon DEF DnsInv, DnsType

\* A reader queues a datagram once or drops it; the reply is the query's own.
LEMMA ReadReceiveStep ==
    ASSUME DnsInv, NEW q \in Queries, Read(q) \/ Receive(q)
    PROVE  DnsInv'
<1>1. /\ query \in [Queries -> QueryType] /\ query[q] \in QueryType
      /\ queue \in Seq(Queries)
  BY DEF DnsInv, DnsType
<1>2. ASSUME Read(q), query' = [query EXCEPT ![q] = Lost], UNCHANGED queue PROVE DnsInv'
  <2>1. query[q].at = "sent" /\ UNCHANGED <<peers, work>>
    BY <1>2 DEF Read
  <2>2. Advance(q)
    BY <1>2, <2>1, RecordKept, Zenon
  <2>3. QueueOnce' /\ WorkOnce'
    BY <1>2, <2>1, <2>2, Elsewhere, Zenon DEF Advance
  <2> QED
    BY <1>2, <2>1, <2>2, <2>3, Advanced, Zenon DEF DnsInv, DnsType, Advance
<1>3. ASSUME Read(q), queue' = Append(queue, q), query' = [query EXCEPT ![q].at = "queued"]
      PROVE  DnsInv'
  <2>1. query[q].at = "sent" /\ UNCHANGED <<peers, work>>
    BY <1>3 DEF Read
  <2>2. Advance(q)
    BY <1>3, <2>1, RecordKept, Zenon DEF Pending
  <2>3. /\ queue' \in Seq(Queries) /\ Len(queue') = Len(queue) + 1 /\ Len(queue) \in Nat
        /\ \A n \in 1..Len(queue) : queue'[n] = queue[n]
        /\ queue'[Len(queue) + 1] = q
    BY <1>1, <1>3
  <2>4. \A n \in 1..Len(queue) : queue[n] \in Queries /\ queue[n] # q
    BY <1>1, <2>1 DEF DnsInv, QueueOnce
  <2>5. \A n \in 1..Len(queue') : n \in 1..Len(queue) \/ n = Len(queue) + 1
    BY <2>3
  <2>6. query'[q].at = "queued"
    BY <1>1, <1>3 DEF QueryType
  <2>7. \A n \in 1..Len(queue') : query'[queue'[n]].at = "queued"
    <3> SUFFICES ASSUME NEW n \in 1..Len(queue') PROVE query'[queue'[n]].at = "queued"
      OBVIOUS
    <3>1. CASE n \in 1..Len(queue)
      <4>1. queue'[n] = queue[n] /\ queue[n] \in Queries /\ queue[n] # q
        BY <2>3, <2>4, <3>1, Zenon
      <4>2. query'[queue[n]] = query[queue[n]]
        BY <2>2, <4>1, Zenon DEF Advance
      <4> QED
        BY <3>1, <4>1, <4>2, Zenon DEF DnsInv, QueueOnce
    <3>2. CASE n = Len(queue) + 1
      BY <2>3, <2>6, <3>2, Zenon
    <3> QED
      BY <2>5, <3>1, <3>2, Zenon
  <2>8. \A m, n \in 1..Len(queue') : queue'[m] = queue'[n] => m = n
    BY <2>3, <2>4, <2>5, ZenonT(60) DEF DnsInv, QueueOnce
  <2>9. WorkOnce'
    BY <2>1, <2>2, Zenon DEF DnsInv, WorkOnce, Held, Advance
  <2> QED
    BY <2>1, <2>2, <2>3, <2>7, <2>8, <2>9, Advanced, Zenon
       DEF DnsInv, DnsType, QueueOnce, Advance
<1>4. CASE Receive(q)
  <2>1. query[q].at = "reply" /\ UNCHANGED <<peers, queue, work>>
    BY <1>4 DEF Receive
  <2>2. /\ query[q].asked \in Resolvers
        /\ peers[query[q].sock][query[q].slot] = Entry(query[q].hook, query[q].asked)
    BY <2>1, Zenon DEF DnsInv, SlotKept, Pending
  <2>3. query' = [query EXCEPT ![q].at = "seen", ![q].from = Told(query[q])]
    <3>1. \A fam : Restored(fam, query[q].hook, Entry(query[q].hook, query[q].asked))
                    = IF query[q].hook = fam THEN query[q].asked ELSE Listener
      BY DEF Restored, Entry
    <3> QED
      BY <1>4, <2>2, <3>1, Zenon DEF Receive, Told
  <2>4. Advance(q)
    <3> DEFINE v == [query[q] EXCEPT !.at = "seen", !.from = Told(query[q])]
    <3>0. Told(query[q]) \in Resolvers \cup {Nobody, Listener}
      BY <2>2, Zenon DEF Told
    <3>1. v \in QueryType /\ v.at = "seen" /\ v.from = Told(v)
      <4>1. /\ v \in QueryType /\ v.at = "seen" /\ v.from = Told(query[q])
            /\ v.hook = query[q].hook /\ v.sock = query[q].sock /\ v.asked = query[q].asked
        BY <1>1, <3>0, Zenon DEF QueryType
      <4> HIDE DEF v
      <4> QED
        BY <4>1, Zenon DEF Told
    <3>2. query' = [query EXCEPT ![q] = v]
      BY <1>1, <2>3, Zenon
    <3> HIDE DEF v
    <3>3. query' \in [Queries -> QueryType] /\ query'[q] = v
          /\ \A p \in Queries : p # q => query'[p] = query[p]
      BY <1>1, <3>1, <3>2
    <3> QED
      BY <2>1, <3>1, <3>3, Zenon DEF Advance, Pending
  <2>5. QueueOnce' /\ WorkOnce'
    BY <2>1, <2>4, Elsewhere, Zenon DEF Advance
  <2> QED
    BY <2>1, <2>4, <2>5, Advanced, Zenon DEF DnsInv, DnsType, Advance
<1> QED
  BY <1>2, <1>3, <1>4 DEF Read

\* A worker takes a datagram off the queue and keeps it until it is lost or answered.
LEMMA WorkStep == ASSUME DnsInv, NEW w \in DnsWorkers, Work(w) PROVE DnsInv'
<1> DEFINE Typed == work' = [v \in DnsWorkers |-> [pc |-> work'[v].pc, query |-> work'[v].query]]
<1>1. /\ query \in [Queries -> QueryType] /\ queue \in Seq(Queries)
      /\ work = [v \in DnsWorkers |-> [pc |-> work[v].pc, query |-> work[v].query]]
  BY DEF DnsInv, DnsType
<1>2. ASSUME NEW pc, WorkGoto(w, pc)
      PROVE  /\ Typed /\ \A v \in DnsWorkers : v # w => work'[v] = work[v]
             /\ work'[w].pc = pc
             /\ pc \notin {"check", "done"} => work'[w].query = work[w].query
  BY <1>1, <1>2, Zenon DEF WorkGoto
<1>3. ASSUME NEW pc \in {"done", "select", "check"}, WorkGoto(w, pc), UNCHANGED <<peers, query, queue>>
      PROVE  DnsInv'
  <2>1. \A v \in DnsWorkers : Held(v)' => Held(v) /\ work'[v] = work[v]
    BY <1>2, <1>3 DEF Held
  <2>2. WorkOnce'
    BY <1>3, <2>1, ZenonT(60) DEF DnsInv, WorkOnce
  <2> QED
    BY <1>2, <1>3, <2>2, Zenon DEF DnsInv, DnsType, QueueOnce, SlotKept, Pending, AnswerFromAsked
<1>4. ASSUME NEW pc \in {"upstream", "write"}, Held(w), WorkGoto(w, pc),
             UNCHANGED <<peers, query, queue>>
      PROVE  DnsInv'
  <2>1. \A v \in DnsWorkers : Held(v)' => Held(v) /\ work'[v].query = work[v].query
    BY <1>2, <1>4 DEF Held
  <2>2. WorkOnce'
    BY <1>4, <2>1, Zenon DEF DnsInv, WorkOnce
  <2> QED
    BY <1>2, <1>4, <2>2, Zenon DEF DnsInv, DnsType, QueueOnce, SlotKept, Pending, AnswerFromAsked
<1>5. ASSUME Held(w), WorkGoto(w, "check"), UNCHANGED <<peers, queue>>,
             \/ query' = [query EXCEPT ![work[w].query] = Lost]
             \/ query' = [query EXCEPT ![work[w].query].at = "reply"]
      PROVE  DnsInv'
  <2> DEFINE q == work[w].query
  <2>1. q \in Queries /\ query[q].at = "work"
    BY <1>5 DEF DnsInv, WorkOnce
  <2>2. Advance(q)
    <3>1. Pending(q)
      BY <2>1 DEF Pending
    <3>2. \/ query' = [query EXCEPT ![q] = Lost]
          \/ \E at \in {"queued", "work", "reply"} : query' = [query EXCEPT ![q].at = at]
      BY ZenonT(60), <1>5
    <3> HIDE DEF q
    <3> QED
      BY <1>5, <2>1, <3>1, <3>2, RecordKept
  <2>3. \A v \in DnsWorkers : Held(v)' => v # w /\ Held(v) /\ work'[v] = work[v]
    BY <1>2, <1>5 DEF Held
  <2>4. \A v \in DnsWorkers : Held(v)' => work[v].query # q
    BY <1>5, <2>3 DEF DnsInv, WorkOnce
  <2>5. WorkOnce'
    <3>1. \A v \in DnsWorkers : Held(v)' =>
             /\ work'[v].query \in Queries /\ query'[work'[v].query] = query[work[v].query]
             /\ query[work[v].query].at = "work" /\ work'[v] = work[v] /\ Held(v)
      <4> SUFFICES ASSUME NEW v \in DnsWorkers, Held(v)'
                   PROVE  /\ work'[v].query \in Queries
                          /\ query'[work'[v].query] = query[work[v].query]
                          /\ query[work[v].query].at = "work" /\ work'[v] = work[v] /\ Held(v)
        BY Zenon
      <4>1. Held(v) /\ work'[v] = work[v] /\ work[v].query # q
        BY <2>3, <2>4, Zenon
      <4>2. work[v].query \in Queries /\ query[work[v].query].at = "work"
        BY <4>1, Zenon DEF DnsInv, WorkOnce
      <4> HIDE DEF q
      <4>3. query'[work[v].query] = query[work[v].query]
        BY <2>2, <4>1, <4>2, Zenon DEF Advance
      <4> QED
        BY <4>1, <4>2, <4>3, Zenon
    <3> QED
      BY <3>1, ZenonT(60) DEF DnsInv, WorkOnce
  <2>6. \A n \in 1..Len(queue) : queue[n] \in Queries /\ queue[n] # q
    <3>1. \A n \in 1..Len(queue) : queue[n] \in Queries
      BY <1>1
    <3> QED
      BY <2>1, <3>1, Zenon DEF DnsInv, QueueOnce
  <2>7. QueueOnce'
    <3>1. ASSUME NEW n \in 1..Len(queue) PROVE query'[queue[n]] = query[queue[n]]
      BY <2>2, <2>6, <3>1, Zenon DEF Advance
    <3> QED
      BY <1>5, <3>1, ZenonT(60) DEF DnsInv, QueueOnce
  <2>8. SlotKept' /\ AnswerFromAsked'
    BY ZenonT(60), <2>1, <2>2, Advanced
  <2>9. Typed
    BY <1>2, <1>5
  <2> QED
    BY <1>5, <2>2, <2>5, <2>7, <2>8, <2>9, ZenonT(60) DEF DnsInv, DnsType, Advance
<1>6. ASSUME queue # <<>>, queue' = Tail(queue), UNCHANGED peers, ~Held(w),
             work' = [work EXCEPT ![w] = [pc |-> "answer", query |-> Head(queue)]],
             query' = [query EXCEPT ![Head(queue)].at = "work"]
      PROVE  DnsInv'
  <2> DEFINE q == Head(queue)
  <2>1. /\ Len(queue) \in Nat \ {0} /\ Len(queue') = Len(queue) - 1
        /\ \A n \in 1..Len(queue') : queue'[n] = queue[n + 1] /\ n + 1 \in 1..Len(queue)
        /\ q = queue[1] /\ 1 \in 1..Len(queue) /\ q \in Queries /\ queue' \in Seq(Queries)
    BY <1>1, <1>6
  <2>2. query[q].at = "queued"
    BY <2>1, Zenon DEF DnsInv, QueueOnce
  <2>3. Advance(q)
    <3>1. Pending(q)
      BY <2>2, ZenonT(60) DEF Pending
    <3>2. \E at \in {"queued", "work", "reply"} : query' = [query EXCEPT ![q].at = at]
      BY <1>6
    <3> HIDE DEF q
    <3> QED
      BY <1>6, <2>1, <3>1, <3>2, RecordKept, Zenon
  <2>4. \A n \in 1..Len(queue') : queue'[n] # q /\ queue'[n] \in Queries
    <3>1. \A n \in 1..Len(queue') : n + 1 # 1
      OBVIOUS
    <3>2. \A n \in 1..Len(queue) : queue[n] \in Queries
      BY <1>1
    <3> QED
      BY <2>1, <3>1, <3>2, ZenonT(60) DEF DnsInv, QueueOnce
  <2>5. \A n \in 1..Len(queue') : query'[queue'[n]].at = "queued"
    <3> SUFFICES ASSUME NEW n \in 1..Len(queue') PROVE query'[queue'[n]].at = "queued"
      OBVIOUS
    <3>0. queue'[n] = queue[n + 1] /\ n + 1 \in 1..Len(queue)
      BY <2>1
    <3>1. query[queue'[n]].at = "queued"
      BY <3>0, Zenon DEF DnsInv, QueueOnce
    <3>2. query'[queue'[n]] = query[queue'[n]]
      BY <2>3, <2>4, Zenon DEF Advance
    <3> QED
      BY <3>1, <3>2, Zenon
  <2>6. \A m, n \in 1..Len(queue') : queue'[m] = queue'[n] => m = n
    <3> SUFFICES ASSUME NEW m \in 1..Len(queue'), NEW n \in 1..Len(queue'), queue'[m] = queue'[n]
                 PROVE  m = n
      OBVIOUS
    <3>1. /\ m + 1 \in 1..Len(queue) /\ n + 1 \in 1..Len(queue)
          /\ queue[m + 1] = queue[n + 1]
      BY <2>1
    <3>2. m + 1 = n + 1
      BY <3>1, Zenon DEF DnsInv, QueueOnce
    <3> QED
      BY <3>2
  <2>7. query'[q].at = "work"
    BY <1>1, <1>6, <2>1 DEF QueryType
  <2>8. /\ Typed /\ work'[w].query = q
        /\ \A v \in DnsWorkers : v # w => work'[v] = work[v]
    BY <1>1, <1>6, Zenon
  <2>9. \A v \in DnsWorkers : v # w /\ Held(v)' =>
           Held(v) /\ work'[v].query \in Queries /\ work'[v].query # q
    BY <2>2, <2>8, Zenon DEF DnsInv, WorkOnce, Held
  <2>10. WorkOnce'
    <3>1. \A v \in DnsWorkers : Held(v)' => /\ work'[v].query \in Queries
                                             /\ query'[work'[v].query].at = "work"
      <4>1. \A v \in DnsWorkers : v # w /\ Held(v)' =>
               query'[work'[v].query] = query[work[v].query] /\ work'[v].query \in Queries
        <5> SUFFICES ASSUME NEW v \in DnsWorkers, v # w, Held(v)'
                     PROVE  /\ query'[work'[v].query] = query[work[v].query]
                            /\ work'[v].query \in Queries
          BY Zenon
        <5>1. work'[v] = work[v] /\ work'[v].query \in Queries /\ work'[v].query # q
          BY <2>8, <2>9, Zenon
        <5>2. query'[work'[v].query] = query[work'[v].query]
          BY <2>3, <5>1, Zenon DEF Advance
        <5> QED
          BY <5>1, <5>2, Zenon
      <4> QED
        BY <2>1, <2>7, <2>8, <2>9, <4>1, ZenonT(60) DEF DnsInv, WorkOnce
    <3>2. ASSUME NEW u \in DnsWorkers, NEW v \in DnsWorkers, Held(u)', Held(v)',
                 work'[u].query = work'[v].query
          PROVE  u = v
      BY <2>8, <2>9, <3>2, ZenonT(60) DEF DnsInv, WorkOnce
    <3> QED
      BY <3>1, <3>2, Zenon DEF WorkOnce
  <2>11. SlotKept' /\ AnswerFromAsked'
    BY <2>1, <2>3, Advanced
  <2> QED
    BY <1>6, <2>1, <2>3, <2>5, <2>6, <2>8, <2>10, <2>11, Zenon
    DEF DnsInv, DnsType, QueueOnce, Advance
<1>7. CASE Check(w)
  BY <1>3, <1>7 DEF Check
<1>8. CASE Select(w)
  <2>1. ~Held(w)
    BY <1>8 DEF Select, Held
  <2> QED
    BY <1>3, <1>6, <1>8, <2>1 DEF Select
<1>9. CASE Answer(w) \/ UpstreamReturns(w) \/ Write(w)
  <2>1. Held(w)
    BY <1>9 DEF Answer, UpstreamReturns, Write, Held
  <2> QED
    BY <1>4, <1>5, <1>9, <2>1 DEF Answer, UpstreamReturns, Write
<1> QED
  BY <1>7, <1>8, <1>9 DEF Work

\* The DNS path keeps its invariant, its end included.
LEMMA DnsInvStep == DnsInv /\ DnsStep => DnsInv'
<1> SUFFICES ASSUME DnsInv, DnsStep PROVE DnsInv'
  OBVIOUS
<1>1. ASSUME NEW q \in Queries, Datagram(q) PROVE DnsInv'
  <2>1. ASSUME NEW u \in UdpSocks, NEW r \in Resolvers, NEW h \in Hooks(u, r), Send(q, u, r, h)
        PROVE  DnsInv'
    <3>1. h \in {4, 6}
      BY <2>1 DEF Hooks
    <3> QED
      BY <2>1, <3>1, SendStep, ZenonT(60)
  <2> QED
    BY <1>1, <2>1, ReadReceiveStep DEF Datagram
<1>2. CASE UNCHANGED dnsvars \/ \E i \in SlotNumbers : ReaderEnds(i)
  <2>1. UNCHANGED <<peers, query, queue, work>>
    BY <1>2, Zenon DEF dnsvars, ReaderEnds
  <2>2. DnsType' /\ QueueOnce' /\ WorkOnce'
    BY <2>1, ZenonT(60) DEF DnsInv, DnsType, QueueOnce, WorkOnce, Held
  <2> QED
    BY <2>1, <2>2, ZenonT(60) DEF DnsInv, SlotKept, Pending, AnswerFromAsked
<1>3. CASE CloseDns
  <2>1. /\ UNCHANGED <<peers, queue, work>>
        /\ query' = [q \in Queries |-> IF query[q].at = "sent" THEN Lost ELSE query[q]]
    BY <1>3, Zenon DEF CloseDns
  <2>2. Lost \in QueryType /\ Lost.at = "lost"
    BY DnsPathAssumption DEF Lost, Unsent, QueryType
  <2>3. /\ query' \in [Queries -> QueryType]
        /\ \A q \in Queries : \/ query'[q] = query[q]
                              \/ query[q].at = "sent" /\ query'[q].at = "lost"
    BY <2>1, <2>2, ZenonT(60) DEF DnsInv, DnsType
  <2>4. QueueOnce'
    <3>1. \A n \in 1..Len(queue) : queue[n] \in Queries
      BY DEF DnsInv, DnsType
    <3> QED
      <4>1. ASSUME NEW n \in 1..Len(queue) PROVE query'[queue[n]].at = "queued"
        <5>1. queue[n] \in Queries /\ query[queue[n]].at = "queued"
          BY <3>1, <4>1, Zenon DEF DnsInv, QueueOnce
        <5> QED
          BY <2>3, <5>1, Zenon
      <4> QED
        BY <2>1, <4>1, Zenon DEF DnsInv, QueueOnce
  <2>5. WorkOnce'
    BY <2>1, <2>3, Zenon DEF DnsInv, WorkOnce, Held
  <2>6. SlotKept' /\ AnswerFromAsked'
    BY <2>1, <2>3, ZenonT(60) DEF DnsInv, SlotKept, Pending, AnswerFromAsked
  <2> QED
    BY <2>1, <2>3, <2>4, <2>5, <2>6, Zenon DEF DnsInv, DnsType
<1> QED
  BY <1>1, <1>2, <1>3, WorkStep DEF DnsStep
-----------------------------------------------------------------------------
(***************************************************************************)
(* The worker process: its steps are steps of the paths.                   *)
(***************************************************************************)
IInv == TcpInv /\ SlotsBounded /\ DnsInv

\* Each step of the process is a step of one path, or of its end, for the other.
LEMMA NextSteps == [Next]_vars => TcpStep /\ DnsStep
<1> SUFFICES ASSUME [Next]_vars PROVE TcpStep /\ DnsStep
  OBVIOUS
<1>1. ASSUME NEW c \in Conns, InTcp(Handler(c)) \/ InTcp(Peer(c)) \/ InTcp(Publish(c))
      PROVE TcpStep /\ DnsStep
  BY <1>1 DEF InTcp, TcpStep, DnsStep
<1>2. ASSUME \/ InTcp(Accept) \/ InTcp(AcceptFails)
             \/ \E p \in Ports : InTcp(Evict(p))
      PROVE TcpStep /\ DnsStep
  BY <1>2 DEF InTcp, TcpStep, DnsStep
<1>3. CASE Udp
  BY <1>3 DEF Udp, InUdp, TcpStep, DnsStep
<1>4. CASE Cancel \/ Exited \/ UNCHANGED vars
  BY <1>4 DEF Cancel, Exited, vars, TcpStep, DnsStep
<1>5. CASE Shutdown
  BY <1>5 DEF Shutdown, TcpStep, DnsStep
<1>6. CASE Closing \/ Exit
  BY <1>6 DEF Closing, Exit, TcpStep, DnsStep
<1> QED
  BY <1>1, <1>2, <1>3, <1>4, <1>5, <1>6 DEF Next, Tcp

\* runWorker starts with no connection, no datagram and every slot free.
LEMMA WorkerInit == Init => IInv
<1> SUFFICES ASSUME Init PROVE IInv
  OBVIOUS
<1>1. TcpType
  <2>1. Idle \in SockType /\ Idle.st = "idle"
    BY DEF Idle, SockType
  <2>2. [pc |-> "none", tries |-> 0, dest |-> NoDest] \in HandType
    BY DEF HandType
  <2> QED
    <3>1. backlog \in Seq(Conns) /\ limit \in Int
      BY DEF Init, TcpInit
    <3>2. \A c \in Conns : sock[c].st = "idle" /\ sock[c].st \notin Kept /\ hand[c].pc = "none"
      BY <2>1 DEF Init, TcpInit, Kept, Live
    <3>3. sock \in [Conns -> SockType] /\ hand \in [Conns -> HandType]
      BY <2>1, <2>2, Zenon DEF Init, TcpInit
    <3> QED
      BY <3>1, <3>2, <3>3, Zenon DEF TcpType
<1>2. Records /\ Backlog /\ ForwardsOwn
  <2>1. \A c \in Conns : sock[c].st \notin Kept
    BY Zenon DEF Init, TcpInit, Idle, Kept, Live
  <2>2. DOMAIN connections = {} /\ 1..Len(backlog) = {}
    BY DEF Init, TcpInit
  <2> QED
    BY <2>1, <2>2, Zenon DEF Records, Backlog, ForwardsOwn
<1>3. SlotsBounded
  <2>1. Running = {} /\ limit = 0
    BY ZenonT(60) DEF Init, TcpInit, Running, Handling
  <2>2. Cardinality(Running) = 0
    BY <2>1, FS_EmptySet
  <2> QED
    BY <2>1, <2>2, TcpPathAssumption DEF SlotsBounded, SlotsExact, Running
<1>4. DnsInv
  <2>1. Unsent \in QueryType /\ Unsent.at = "none"
    BY DnsPathAssumption DEF Unsent, QueryType
  <2>2. PICK S, W : DnsInit(S, W)
    BY DEF Init
  <2>3. DnsType
    <3>1. queue \in Seq(Queries)
      BY <2>2 DEF DnsInit
    <3>2. Empty \in PeerType
      BY DEF Empty, PeerType
    <3>4. peers \in [UdpSocks -> [SlotNumbers -> PeerType]]
          /\ query \in [Queries -> QueryType]
      BY <2>1, <2>2, <3>2, Zenon DEF DnsInit
    <3>3. work = [w \in DnsWorkers |-> [pc |-> work[w].pc, query |-> work[w].query]]
      BY <2>2 DEF DnsInit
    <3> QED
      BY <3>1, <3>3, <3>4, Zenon DEF DnsType
  <2>4. QueueOnce /\ WorkOnce
    <3>1. 1..Len(queue) = {}
      BY <2>2 DEF DnsInit
    <3>2. \A w \in DnsWorkers : ~Held(w)
      BY <2>2 DEF DnsInit, Held
    <3> QED
      BY <3>1, <3>2, Zenon DEF QueueOnce, WorkOnce
  <2>5. SlotKept /\ AnswerFromAsked
    BY <2>1, <2>2, Zenon DEF DnsInit, SlotKept, Pending, AnswerFromAsked
  <2> QED
    BY <2>3, <2>4, <2>5 DEF DnsInv
<1> QED
  BY <1>1, <1>2, <1>3, <1>4 DEF IInv, TcpInv

\* The invariant is inductive.
THEOREM WorkerInductive == Spec => []IInv
<1>1. IInv /\ [Next]_vars => IInv'
  BY ZenonT(60), NextSteps, TcpTypeStep, RecordsStep, BacklogStep, ForwardsOwnStep, SlotsStep,
     DnsInvStep DEF IInv, TcpInv
<1> QED
  BY <1>1, WorkerInit, PTL DEF Spec

\* originalDestination with redirect and handle_sockops: for any number of sockets
\* and ports and whatever is evicted, until the kernel has closed the client's
\* socket its connection is judged and forwarded for the destination that this client dialled.
THEOREM ForwardsOwnCorrect == Spec => []ForwardsOwn
<1>1. IInv => ForwardsOwn
  BY DEF IInv, TcpInv
<1> QED
  BY <1>1, WorkerInductive, PTL

\* The slots of maxConnections: those taken are exactly those of the running
\* handlers, and there are never more than the limit.
THEOREM SlotsCorrect == Spec => [](SlotsExact /\ limit \in 0..MaxConnections)
<1>1. IInv => SlotsExact /\ limit \in 0..MaxConnections
  BY DEF IInv, SlotsBounded
<1> QED
  BY <1>1, WorkerInductive, PTL

\* redirect, dns_slot and restore, for any number of sockets of either family, slots
\* and workers: no reply carries the address of another resolver than the one to which
\* its own query was sent, and it carries that one exactly if the query left by the
\* hook of the socket's own family.
THEOREM AnswerCorrect == Spec => []AnswerFromAsked
<1>1. IInv => AnswerFromAsked
  BY DEF IInv, DnsInv
<1> QED
  BY <1>1, WorkerInductive, PTL
=============================================================================

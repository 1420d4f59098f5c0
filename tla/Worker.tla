------------------------------- MODULE Worker -------------------------------
(***************************************************************************)
(* The worker process of one workload (worker.go, runWorker): the TCP path   *)
(* and the DNS path serve side by side until the context ends, because of a  *)
(* signal or because the lease pipe of the controller is closed.  Then the   *)
(* process closes its resolver, waits for it, and exits.                    *)
(*                                                                         *)
(* The paths share nothing but the process and the resolver, so a behaviour  *)
(* has traffic of one kind, and one with TCP traffic a resolver of one slot   *)
(* and one worker.                                                         *)
(***************************************************************************)
EXTENDS TcpPath, DnsPath

CONSTANTS
    Traffic       \* kinds of traffic to look at, a subset of {"tcp", "udp"}

ASSUME WorkerAssumption == Traffic \subseteq {"tcp", "udp"}

VARIABLES
    traffic,      \* the kind of this behaviour
    ctx,          \* the context is cancelled
    main          \* runWorker: "serve", "close" or "exit"

vars == <<tcpvars, dnsvars, traffic, ctx, main>>
-----------------------------------------------------------------------------
Init ==
    /\ TcpInit
    /\ \/ traffic = "tcp" /\ DnsInit({1}, {CHOOSE w \in DnsWorkers : TRUE})
       \/ traffic = "udp" /\ DnsInit(SlotNumbers, DnsWorkers)
    /\ traffic \in Traffic /\ ctx = FALSE /\ main = "serve"

\* A step of one path leaves the other, and the process, as they are.
InTcp(A) ==
    /\ main # "exit" /\ traffic = "tcp" /\ A
    /\ UNCHANGED <<dnsvars, traffic, ctx, main>>

InUdp(A) == A /\ UNCHANGED <<tcpvars, traffic, ctx, main>>

\* The listeners and READY are up; connections and datagrams come and go.
Tcp ==
    \/ \E c \in Conns : InTcp(Handler(c)) \/ InTcp(Peer(c)) \/ InTcp(Publish(c))
    \/ InTcp(Accept) \/ InTcp(AcceptFails)
    \/ \E p \in Ports : InTcp(Evict(p))

Udp ==
    \/ \E w \in DnsWorkers : InUdp(Work(w))
    \/ \E i \in SlotNumbers : InUdp(ReaderEnds(i))
    \/ traffic = "udp" /\ \E q \in Queries : InUdp(Datagram(q))

\* A signal, or the end of the lease.
Cancel ==
    /\ ~ctx /\ ctx' = TRUE
    /\ UNCHANGED <<tcpvars, dnsvars, traffic, main>>

Shutdown ==
    /\ main # "exit" /\ ctx
    /\ CloseListeners \/ CloseActive
    /\ UNCHANGED <<dnsvars, traffic, ctx, main>>

\* runWorker returns: the deferred servers.Close.
Closing ==
    /\ main = "serve" /\ ctx /\ main' = "close"
    /\ CloseDns
    /\ UNCHANGED <<tcpvars, traffic, ctx>>

\* wg.Wait returns and the process ends and with it every connection it still has.
Exit ==
    /\ main = "close" /\ DnsDrained /\ main' = "exit"
    /\ ProcessEnds
    /\ UNCHANGED <<dnsvars, traffic, ctx>>

Exited == main = "exit" /\ UNCHANGED vars

Next == Tcp \/ Udp \/ Cancel \/ Shutdown \/ Closing \/ Exit \/ Exited

Spec == Init /\ [][Next]_vars

\* Goroutines run and calls with deadlines return.  An upstream closes when the
\* other side has ended; nobody else is obliged to do anything.
Fairness ==
    /\ WF_vars(Shutdown) /\ WF_vars(Closing) /\ WF_vars(Exit)
    /\ \A c \in Conns :
         /\ WF_vars(InTcp(Handler(c)))
         /\ WF_vars(InTcp(up[c] = "eof" /\ UpstreamCloses(c)))
    /\ \A w \in DnsWorkers : WF_vars(InUdp(Work(w)))
    /\ \A i \in SlotNumbers : WF_vars(InUdp(ReaderEnds(i)))

FairSpec == Spec /\ Fairness
-----------------------------------------------------------------------------
\* runWorker: once the context is over the process exits, although Close waits for
\* sixteen readers and every worker, a full queue and answers in progress included.
WorkerExits == ctx ~> main = "exit"
=============================================================================

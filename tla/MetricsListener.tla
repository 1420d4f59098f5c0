-------------------------- MODULE MetricsListener --------------------------
(***************************************************************************)
(* The metrics listener of a plugin (metrics_listener.go) and the limit on   *)
(* its connections (limitedListener in responder_linux.go).  Each listener   *)
(* that configure installs has an HTTP server of its own, whose Serve runs   *)
(* in a goroutine, so that close may come before Serve has begun, while it   *)
(* waits for a permit or for a connection, or between Accept and the moment  *)
(* the server knows the connection.                                         *)
(***************************************************************************)
EXTENDS Integers, FiniteSets

CONSTANTS
    Addresses,     \* addresses that a configuration may name
    Listeners,     \* listeners, in the order of their creation
    MaxPermits     \* count of limitListener (16)

ASSUME MetricsListenerAssumption ==
    /\ Listeners \subseteq Nat \ {0} /\ IsFiniteSet(Listeners)
    /\ MaxPermits \in Nat \ {0}

VARIABLES
    address,    \* metricsListener.address
    current,    \* metricsListener.listener and .server; 0 is nil
    socket,     \* socket[i]: "none", "open" or "closed"
    boundTo,    \* boundTo[i]: the address of listener i
    stopped,    \* listeners whose done channel is closed
    shutdown,   \* servers that Close was called on
    serve,      \* serve[i]: where the goroutine of Serve is
    permits,    \* permits[i]: permits taken
    conns       \* conns[i]: connections the server serves

listenervars == <<address, current, socket, boundTo, stopped, shutdown, serve, permits, conns>>

Unset == "unset"
-----------------------------------------------------------------------------
ListenerInit ==
    /\ address = Unset /\ current = 0
    /\ socket = [i \in Listeners |-> "none"] /\ boundTo = [i \in Listeners |-> Unset]
    /\ stopped = {} /\ shutdown = {}
    /\ serve = [i \in Listeners |-> "none"]
    /\ permits = [i \in Listeners |-> 0] /\ conns = [i \in Listeners |-> 0]

Fresh == {i \in Listeners : serve[i] = "none" /\ \A j \in Listeners : j < i => serve[j] # "none"}

\* Serve has registered the listener with its server.
Registered(i) == serve[i] \in {"loop", "accept", "accepted"}

\* metricsListener.close on the sockets: server.Close closes a listener that Serve
\* has registered and the connections it knows; listener.Close follows.
Closing(i) ==
    /\ shutdown' = shutdown \cup {i}
    /\ stopped' = IF Registered(i) THEN stopped \cup {i} ELSE stopped
    /\ permits' = [permits EXCEPT ![i] = @ - conns[i]]
    /\ conns' = [conns EXCEPT ![i] = 0]

CloseListener ==
    IF current = 0 THEN UNCHANGED listenervars
    ELSE /\ Closing(current)
         /\ socket' = [socket EXCEPT ![current] = "closed"]
         /\ address' = Unset /\ current' = 0
         /\ UNCHANGED <<boundTo, serve>>

\* Mutant: the old listener is closed before the new address is bound.
ConfigureCloseFirst(a, ok) ==
    IF a = address THEN ok /\ UNCHANGED listenervars
    ELSE IF a = Unset \/ ~ok THEN CloseListener
    ELSE \E i \in Fresh :
           /\ IF current = 0 THEN UNCHANGED <<stopped, shutdown, permits, conns>>
              ELSE Closing(current)
           /\ socket' = [j \in Listeners |-> IF j = i THEN "open"
                                             ELSE IF j = current THEN "closed" ELSE socket[j]]
           /\ boundTo' = [boundTo EXCEPT ![i] = a]
           /\ serve' = [serve EXCEPT ![i] = "spawned"]
           /\ address' = a /\ current' = i

\* configure, which succeeds or fails to bind: the same address changes nothing, an
\* empty one closes, another one is bound before the old listener is closed.  (The
\* error of close could only be that of close(2) on a listening socket: there is none.)
ConfigureListener(a, ok) ==
    IF a = address THEN ok /\ UNCHANGED listenervars
    ELSE IF a = Unset THEN ok /\ CloseListener
    ELSE IF ~ok THEN UNCHANGED listenervars
    ELSE \E i \in Fresh :
           /\ IF current = 0 THEN UNCHANGED <<stopped, shutdown, permits, conns>>
              ELSE Closing(current)
           /\ socket' = [j \in Listeners |-> IF j = i THEN "open"
                                             ELSE IF j = current THEN "closed" ELSE socket[j]]
           /\ boundTo' = [boundTo EXCEPT ![i] = a]
           /\ serve' = [serve EXCEPT ![i] = "spawned"]
           /\ address' = a /\ current' = i
-----------------------------------------------------------------------------
(* http.Server.Serve over limitedListener.Accept. *)

ServeGoto(i, to) == serve' = [serve EXCEPT ![i] = to]

\* Serve returns, and its deferred Close closes the listener.
ServeReturns(i) ==
    /\ ServeGoto(i, "over")
    /\ socket' = [socket EXCEPT ![i] = "closed"] /\ stopped' = stopped \cup {i}

\* Serve refuses to start after Close.
ServeStart(i) ==
    /\ serve[i] = "spawned"
    /\ IF i \in shutdown THEN ServeReturns(i)
       ELSE ServeGoto(i, "loop") /\ UNCHANGED <<socket, stopped>>
    /\ UNCHANGED <<address, current, boundTo, shutdown, permits, conns>>

\* Accept takes a permit, or finds the listener done; either case may win.
AcceptBegins(i) ==
    /\ serve[i] = "loop"
    /\ \/ /\ permits[i] < MaxPermits
          /\ permits' = [permits EXCEPT ![i] = @ + 1]
          /\ ServeGoto(i, "accept") /\ UNCHANGED <<socket, stopped>>
       \/ i \in stopped /\ ServeReturns(i) /\ UNCHANGED permits
    /\ UNCHANGED <<address, current, boundTo, shutdown, conns>>

\* Mutant: the error of a closed socket counts as temporary.
AcceptFailsRetrying(i) ==
    /\ serve[i] = "accept"
    /\ socket[i] = "closed" /\ ServeGoto(i, "loop")
    /\ permits' = [permits EXCEPT ![i] = @ - 1]
    /\ UNCHANGED <<address, current, boundTo, socket, stopped, shutdown, conns>>

\* The inner Accept fails because the socket is closed; the permit is returned.
AcceptFails(i) ==
    /\ serve[i] = "accept"
    /\ socket[i] = "closed" /\ ServeReturns(i)
    /\ permits' = [permits EXCEPT ![i] = @ - 1]
    /\ UNCHANGED <<address, current, boundTo, shutdown, conns>>

\* Another accept error: Serve tries again if it is temporary and else returns.
AcceptBreaks(i) ==
    /\ serve[i] = "accept" /\ socket[i] = "open"
    /\ permits' = [permits EXCEPT ![i] = @ - 1]
    /\ \/ ServeGoto(i, "loop") /\ UNCHANGED <<socket, stopped>>
       \/ ServeReturns(i)
    /\ UNCHANGED <<address, current, boundTo, shutdown, conns>>

AcceptReturns(i) ==
    /\ serve[i] = "accept" /\ socket[i] = "open" /\ ServeGoto(i, "accepted")
    /\ UNCHANGED <<address, current, socket, boundTo, stopped, shutdown, permits, conns>>

\* The server takes the connection, also when Close has gone by meanwhile.
TrackConn(i) ==
    /\ serve[i] = "accepted" /\ ServeGoto(i, "loop")
    /\ conns' = [conns EXCEPT ![i] = @ + 1]
    /\ UNCHANGED <<address, current, socket, boundTo, stopped, shutdown, permits>>

\* limitedConnection.Close, by the client's end, the answer or a timeout.
ConnEnds(i) ==
    /\ conns[i] > 0
    /\ conns' = [conns EXCEPT ![i] = @ - 1]
    /\ permits' = [permits EXCEPT ![i] = @ - 1]
    /\ UNCHANGED <<address, current, socket, boundTo, stopped, shutdown, serve>>

Serving(i) ==
    ServeStart(i) \/ AcceptBegins(i) \/ AcceptFails(i) \/ TrackConn(i)
-----------------------------------------------------------------------------
\* A closed listener with something left to do.
Lagging(i) == socket[i] = "closed" /\ ~(serve[i] = "over" /\ permits[i] = 0)

\* A permit belongs to a connection or to an Accept in progress.
PermitsExact ==
    \A i \in Listeners :
        /\ permits[i] = conns[i] + (IF serve[i] \in {"accept", "accepted"} THEN 1 ELSE 0)
        /\ permits[i] <= MaxPermits

\* limitedListener and limitedConnection: a permit belongs to a connection or to an
\* Accept in progress, and whenever a listener is closed, its Serve returns and
\* every permit comes back.
PermitsReturned ==
    /\ []PermitsExact
    /\ (\E i \in Listeners : Lagging(i)) ~> (\A i \in Listeners : ~Lagging(i))
=============================================================================

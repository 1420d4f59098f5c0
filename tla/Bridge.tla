------------------------------- MODULE Bridge -------------------------------
(***************************************************************************)
(* One connection through serveBridge and proxy (proxy.go): the target is     *)
(* dialled, two goroutines copy, each passes the end of its direction on, and *)
(* both connections are closed when both are done.                          *)
(*                                                                         *)
(* Data are pieces of a stream; a socket buffer holds Buffer of them.         *)
(***************************************************************************)
EXTENDS Integers, FiniteSets

CONSTANTS
    MaxSent,     \* bound on the pieces sent in each direction
    Buffer       \* pieces that fit into a socket buffer

ASSUME BridgeAssumption == MaxSent \in Nat /\ Buffer \in Nat \ {0}

VARIABLES
    conn,        \* "none", "dial", "open" or "closed"
    inq,         \* inq[d]: pieces the copier of d can read
    outq,        \* outq[d]: pieces its sink can read
    copier,      \* copier[d]: "none", "read", "write", "half" or "done"
    ended,       \* directions whose sink has been sent the end
    dead,        \* ends that have closed or reset their connection
    sent, fin, got, eof, broken    \* as in DuplexPipe

bridgevars == <<conn, inq, outq, copier, ended, dead, sent, fin, got, eof, broken>>

Dirs == {"up", "down"}
Ends == {"client", "upstream"}
Source(d) == IF d = "up" THEN "client" ELSE "upstream"
Sink(d) == IF d = "up" THEN "upstream" ELSE "client"
Exists(e) == IF e = "client" THEN conn # "none" ELSE conn = "open"
-----------------------------------------------------------------------------
BridgeInit ==
    /\ conn = "none" /\ dead = {} /\ ended = {} /\ broken = FALSE
    /\ inq = [d \in Dirs |-> 0] /\ outq = [d \in Dirs |-> 0]
    /\ copier = [d \in Dirs |-> "none"]
    /\ sent = [d \in Dirs |-> 0] /\ got = [d \in Dirs |-> 0]
    /\ fin = [d \in Dirs |-> FALSE] /\ eof = [d \in Dirs |-> FALSE]

\* Accept.
Arrive ==
    /\ conn = "none" /\ conn' = "dial"
    /\ UNCHANGED <<inq, outq, copier, ended, dead, sent, fin, got, eof, broken>>

\* dialTarget: the copies start, or the client is closed.
DialTarget ==
    /\ conn = "dial"
    /\ \/ /\ conn' = "open" /\ copier' = [d \in Dirs |-> "read"]
          /\ UNCHANGED <<ended, broken>>
       \/ /\ conn' = "closed" /\ ended' = {"down"} /\ broken' = TRUE
          /\ UNCHANGED copier
    /\ UNCHANGED <<inq, outq, dead, sent, fin, got, eof>>

\* io.Copy, one piece.
CopyRead(d) ==
    /\ copier[d] = "read" /\ inq[d] > 0
    /\ inq' = [inq EXCEPT ![d] = @ - 1]
    /\ copier' = [copier EXCEPT ![d] = "write"]
    /\ UNCHANGED <<conn, outq, ended, dead, sent, fin, got, eof, broken>>

CopyWrite(d) ==
    /\ copier[d] = "write" /\ outq[d] < Buffer /\ Sink(d) \notin dead
    /\ outq' = [outq EXCEPT ![d] = @ + 1]
    /\ copier' = [copier EXCEPT ![d] = "read"]
    /\ UNCHANGED <<conn, inq, ended, dead, sent, fin, got, eof, broken>>

\* io.Copy returns: end of the stream, or an error on either side.
CopyReturns(d) ==
    /\ \/ copier[d] = "read" /\ inq[d] = 0 /\ fin[d]
       \/ copier[d] = "read" /\ Source(d) \in dead
       \/ copier[d] = "write" /\ Sink(d) \in dead
    /\ copier' = [copier EXCEPT ![d] = "half"]
    /\ UNCHANGED <<conn, inq, outq, ended, dead, sent, fin, got, eof, broken>>

\* Mutant: the first copy to end closes both connections.
CloseBothAtOnce(d) ==
    /\ copier[d] = "half"
    /\ ended' = Dirs
    /\ copier' = [x \in Dirs |-> "done"]
    /\ UNCHANGED <<conn, inq, outq, dead, sent, fin, got, eof, broken>>

\* closeWrite.
CloseWrite(d) ==
    /\ copier[d] = "half"
    /\ ended' = ended \cup {d}
    /\ copier' = [copier EXCEPT ![d] = "done"]
    /\ UNCHANGED <<conn, inq, outq, dead, sent, fin, got, eof, broken>>

\* wait.Wait returns and both connections are closed.
CloseBoth ==
    /\ conn = "open" /\ \A d \in Dirs : copier[d] = "done"
    /\ conn' = "closed"
    /\ UNCHANGED <<inq, outq, copier, ended, dead, sent, fin, got, eof, broken>>

Copy(d) == CopyRead(d) \/ CopyWrite(d) \/ CopyReturns(d) \/ CloseWrite(d)

\* The process is gone, and its sockets with it.
Cut ==
    /\ conn' = IF conn = "none" THEN conn ELSE "closed"
    /\ copier' = [d \in Dirs |-> "none"]
    /\ ended' = IF conn \in {"dial", "open"} THEN Dirs ELSE ended
    /\ broken' = (broken \/ conn \in {"dial", "open"})
    /\ UNCHANGED <<inq, outq, dead, sent, fin, got, eof>>
-----------------------------------------------------------------------------
(* The ends. *)

EndSends(d) ==
    /\ Exists(Source(d)) /\ conn # "closed" /\ Source(d) \notin dead /\ ~fin[d]
    /\ sent[d] < MaxSent /\ inq[d] < Buffer
    /\ sent' = [sent EXCEPT ![d] = @ + 1]
    /\ inq' = [inq EXCEPT ![d] = @ + 1]
    /\ UNCHANGED <<conn, outq, copier, ended, dead, fin, got, eof, broken>>

EndFinishes(d) ==
    /\ Exists(Source(d)) /\ conn # "closed" /\ Source(d) \notin dead /\ ~fin[d]
    /\ fin' = [fin EXCEPT ![d] = TRUE]
    /\ UNCHANGED <<conn, inq, outq, copier, ended, dead, sent, got, eof, broken>>

EndReads(d) ==
    /\ Sink(d) \notin dead /\ ~eof[d]
    /\ \/ /\ outq[d] > 0
          /\ outq' = [outq EXCEPT ![d] = @ - 1]
          /\ got' = [got EXCEPT ![d] = @ + 1]
          /\ UNCHANGED eof
       \/ /\ outq[d] = 0 /\ d \in ended
          /\ eof' = [eof EXCEPT ![d] = TRUE]
          /\ UNCHANGED <<outq, got>>
    /\ UNCHANGED <<conn, inq, copier, ended, dead, sent, fin, broken>>

\* An end closes or resets its connection and reads no more.
EndDies(e) ==
    /\ Exists(e) /\ conn # "closed" /\ e \notin dead
    /\ dead' = dead \cup {e} /\ broken' = TRUE
    /\ fin' = [d \in Dirs |-> fin[d] \/ Source(d) = e]
    /\ UNCHANGED <<conn, inq, outq, copier, ended, sent, got, eof>>

Endpoint == (\E d \in Dirs : EndSends(d) \/ EndFinishes(d) \/ EndReads(d))
            \/ \E e \in Ends : EndDies(e)
-----------------------------------------------------------------------------
Pipe == INSTANCE DuplexPipe

\* proxy and closeWrite implement DuplexPipe: each end reads the end of a direction
\* only after everything that was sent on it, a half-closed connection keeps
\* flowing the other way, and both directions get through if the ends read.
PipePromise == Pipe!Spec
=============================================================================

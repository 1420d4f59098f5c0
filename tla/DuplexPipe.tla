----------------------------- MODULE DuplexPipe -----------------------------
(***************************************************************************)
(* What a bridge promises its two ends: a pipe of two independent directions *)
(* which ends each direction after everything that was sent on it, unless an  *)
(* end or the bridge itself breaks off.                                     *)
(***************************************************************************)
EXTENDS Naturals

CONSTANTS
    Dirs,      \* the directions
    MaxSent    \* bound on what is sent on each

VARIABLES
    sent,      \* sent[d]: pieces the source has written
    fin,       \* fin[d]: the source has ended its direction
    got,       \* got[d]: pieces the sink has read
    eof,       \* eof[d]: the sink has read the end
    broken     \* an end or the bridge broke off

vars == <<sent, fin, got, eof, broken>>

Init ==
    /\ sent = [d \in Dirs |-> 0] /\ got = [d \in Dirs |-> 0]
    /\ fin = [d \in Dirs |-> FALSE] /\ eof = [d \in Dirs |-> FALSE]
    /\ broken = FALSE

Send(d) ==
    /\ ~fin[d] /\ sent[d] < MaxSent
    /\ sent' = [sent EXCEPT ![d] = @ + 1]
    /\ UNCHANGED <<fin, got, eof, broken>>

Finish(d) ==
    /\ ~fin[d] /\ fin' = [fin EXCEPT ![d] = TRUE]
    /\ UNCHANGED <<sent, got, eof, broken>>

Deliver(d) ==
    /\ ~eof[d] /\ got[d] < sent[d]
    /\ got' = [got EXCEPT ![d] = @ + 1]
    /\ UNCHANGED <<sent, fin, eof, broken>>

End(d) ==
    /\ ~eof[d]
    /\ broken \/ (fin[d] /\ got[d] = sent[d])
    /\ eof' = [eof EXCEPT ![d] = TRUE]
    /\ UNCHANGED <<sent, fin, got, broken>>

\* An end that breaks off also ends the direction of which it is the source.
Break ==
    /\ broken' = TRUE
    /\ \E D \in SUBSET Dirs : fin' = [d \in Dirs |-> fin[d] \/ d \in D]
    /\ UNCHANGED <<sent, got, eof>>

Next == Break \/ \E d \in Dirs : Send(d) \/ Finish(d) \/ Deliver(d) \/ End(d)

Flows(d) == ~broken /\ (Deliver(d) \/ End(d))

\* What may happen, and that what was sent gets through.
Safe == Init /\ [][Next]_vars

Spec == Safe /\ \A d \in Dirs : WF_vars(Flows(d))
=============================================================================

--------------------------- MODULE ProofResponder ---------------------------
(***************************************************************************)
(* The responder of every host (responder_linux.go): the in-memory proof    *)
(* store behind a root-only control socket (PUT, DELETE) and the public GET. *)
(* Handlers run concurrently; a PUT is checked before the store is locked,   *)
(* so a DELETE, a clean-up or the passing of time can come in between.       *)
(*                                                                         *)
(* A proof is named by the session whose challenge it signs.  The proofs of  *)
(* host h are the stored ones with Host[a] = h.                             *)
(***************************************************************************)
EXTENDS Integers, FiniteSets

CONSTANTS
    Attempts,     \* the sessions
    Hosts,        \* the hosts; a host is also the FQDN it answers for
    Host,         \* Host[a]: the host on which the agent of session a runs
    Claim,        \* Claim[a]: the FQDN in the challenge of session a
    Slots,        \* proofs one responder stores (4)
    TTL, Hz,      \* ChallengeTTL in seconds, clock ticks in a second
    Skew,         \* Skew[h]: ticks by which the clock of h is ahead
    Expiries,     \* bound: the expiries of the challenges, in seconds
    MaxPublish,   \* bound: publishes one process counts before clients stop
    MaxTime       \* bound: last tick of the clock

ASSUME ProofResponderAssumption ==
    /\ IsFiniteSet(Attempts)
    /\ Host \in [Attempts -> Hosts] /\ Claim \in [Attempts -> Hosts]
    /\ Slots \in Nat /\ TTL \in Nat /\ Hz \in Nat \ {0}
    /\ Skew \in [Hosts -> Int]
    /\ Expiries \subseteq Int /\ MaxPublish \in Nat /\ MaxTime \in Nat

VARIABLES
    now,       \* the clock of the server, in ticks
    expires,   \* expires[a]: ExpiresAt in the challenge of session a, seconds
    ctl,       \* ctl[a]: the PUT request of session a
    del,       \* del[a]: the DELETE request of session a
    proofs,    \* the stored proofs
    held,      \* held[h]: the pending gauge of the responder of h
    counts     \* counts[h]: its realm_http_responder_proofs_total

rvars == <<ctl, del, proofs, held, counts>>

NoCounts == [published |-> 0, deleted |-> 0, expired |-> 0]
-----------------------------------------------------------------------------
Clock(h) == now + Skew[h]
Seconds(t) == t \div Hz
Stored(h) == {a \in proofs : Host[a] = h}

\* validateChallenge's window, as the host of session a sees the time.
InWindow(a) ==
    /\ expires[a] > Seconds(Clock(Host[a]))
    /\ expires[a] <= Seconds(Clock(Host[a]) + TTL * Hz)

\* parseProof: the agent's own signature verifies; window and FQDN decide.
ParseProof(a) == InWindow(a) /\ Claim[a] = Host[a]

\* What expireLocked removes.
Expired(h) == {a \in Stored(h) : expires[a] <= Seconds(Clock(h))}

\* Mutant: a replacement moves the gauge like a new proof.
UpdateRecounted(h, added) ==
    LET live == proofs \ Expired(h)
    IN /\ proofs' = live \cup added
       /\ held' = [held EXCEPT ![h] = @ - Cardinality(Expired(h))
                                        + Cardinality(added)]
       /\ counts' = [counts EXCEPT ![h] =
                       [published |-> @.published + Cardinality(added),
                        deleted |-> @.deleted,
                        expired |-> @.expired + Cardinality(Expired(h))]]

\* expireLocked, then the caller stores the proofs in added.
Update(h, added) ==
    LET live == proofs \ Expired(h)
    IN /\ proofs' = live \cup added
       /\ held' = [held EXCEPT ![h] = @ - Cardinality(Expired(h))
                                        + Cardinality(added \ live)]
       /\ counts' = [counts EXCEPT ![h] =
                       [published |-> @.published + Cardinality(added),
                        deleted |-> @.deleted,
                        expired |-> @.expired + Cardinality(Expired(h))]]
-----------------------------------------------------------------------------
ResponderInit ==
    /\ ctl = [a \in Attempts |-> "none"]
    /\ del = [a \in Attempts |-> "none"]
    /\ proofs = {}
    /\ held = [h \in Hosts |-> 0]
    /\ counts = [h \in Hosts |-> NoCounts]

\* control, PUT: the body is read and parseProof runs without the lock.
PutParse(a) ==
    /\ ctl[a] = "sent"
    /\ ctl' = [ctl EXCEPT ![a] = IF ParseProof(a) THEN "parsed" ELSE "refused"]
    /\ UNCHANGED <<del, proofs, held, counts>>

\* Mutant: one proof too many is stored.
PutStoreOneMore(a) ==
    LET h == Host[a]
        live == Stored(h) \ Expired(h)
        full == a \notin live /\ Cardinality(live) > Slots
    IN /\ ctl[a] = "parsed"
       /\ ctl' = [ctl EXCEPT ![a] = IF full THEN "refused" ELSE "created"]
       /\ Update(h, IF full THEN {} ELSE {a})
       /\ UNCHANGED del

\* control, PUT: the critical section.
PutStore(a) ==
    LET h == Host[a]
        live == Stored(h) \ Expired(h)
        full == a \notin live /\ Cardinality(live) >= Slots
    IN /\ ctl[a] = "parsed"
       /\ ctl' = [ctl EXCEPT ![a] = IF full THEN "refused" ELSE "created"]
       /\ Update(h, IF full THEN {} ELSE {a})
       /\ UNCHANGED del

\* control, DELETE: it does not expire other proofs.
DeleteProof(a) ==
    /\ del[a] = "sent"
    /\ del' = [del EXCEPT ![a] = "done"]
    /\ IF a \in proofs
       THEN /\ proofs' = proofs \ {a}
            /\ held' = [held EXCEPT ![Host[a]] = @ - 1]
            /\ counts' = [counts EXCEPT ![Host[a]].deleted = @ + 1]
       ELSE UNCHANGED <<proofs, held, counts>>
    /\ UNCHANGED ctl

\* Mutant: a proof is handed out once.
PublicOnce(h, a, found) ==
    /\ found = (/\ Claim[a] = h
                /\ a \in Stored(h) \ Expired(h))
    /\ IF found
       THEN /\ proofs' = proofs \ {a}
            /\ held' = [held EXCEPT ![h] = @ - 1]
            /\ counts' = [counts EXCEPT ![h].deleted = @ + 1]
       ELSE UNCHANGED <<proofs, held, counts>>
    /\ UNCHANGED <<ctl, del>>

\* public: host h answers a GET for session a.  found is the outcome.
Public(h, a, found) ==
    /\ found = (/\ Claim[a] = h
                /\ a \in Stored(h) \ Expired(h))
    /\ IF Claim[a] = h THEN Update(h, {})
       ELSE UNCHANGED <<proofs, held, counts>>
    /\ UNCHANGED <<ctl, del>>

\* Mutant: the ticker cleans up only an overfull store.
CleanupWhenFull(h) ==
    /\ Expired(h) # {}
    /\ Cardinality(Stored(h)) > Slots
    /\ Update(h, {})
    /\ UNCHANGED <<ctl, del>>

\* The one-second ticker of RunResponder.
Cleanup(h) ==
    /\ Expired(h) # {}
    /\ Update(h, {})
    /\ UNCHANGED <<ctl, del>>

\* The process stops and systemd starts it again: nothing is persisted, and
\* the handlers and connections of the old process are gone.
Restart(h) ==
    /\ proofs' = proofs \ Stored(h)
    /\ held' = [held EXCEPT ![h] = 0]
    /\ counts' = [counts EXCEPT ![h] = NoCounts]
    /\ ctl' = [a \in Attempts |->
                 IF Host[a] = h /\ ctl[a] \in {"sent", "parsed"} THEN "refused"
                 ELSE ctl[a]]
    /\ del' = [a \in Attempts |->
                 IF Host[a] = h /\ del[a] = "sent" THEN "lost" ELSE del[a]]

\* A control connection fails before its handler runs.
ControlLost(a) ==
    /\ \/ ctl[a] = "sent" /\ ctl' = [ctl EXCEPT ![a] = "refused"]
                          /\ UNCHANGED del
       \/ del[a] = "sent" /\ del' = [del EXCEPT ![a] = "lost"]
                          /\ UNCHANGED ctl
    /\ UNCHANGED <<proofs, held, counts>>
-----------------------------------------------------------------------------
(* The responder by itself: any client may repeat any request at any time.  *)
Request(a) ==
    /\ \/ /\ ctl[a] \in {"none", "created", "refused"}
          /\ counts[Host[a]].published < MaxPublish
          /\ ctl' = [ctl EXCEPT ![a] = "sent"] /\ UNCHANGED del
       \/ /\ del[a] # "sent"
          /\ del' = [del EXCEPT ![a] = "sent"] /\ UNCHANGED ctl
    /\ UNCHANGED <<proofs, held, counts>>

Init == ResponderInit /\ now = 0 /\ expires \in [Attempts -> Expiries]

Tick ==
    /\ now < MaxTime
    /\ now' = now + 1
    /\ UNCHANGED <<rvars, expires>>

Handle ==
    /\ \/ \E a \in Attempts :
            \/ Request(a) \/ ControlLost(a)
            \/ PutParse(a) \/ PutStore(a) \/ DeleteProof(a)
       \/ \E h \in Hosts :
            \/ Cleanup(h) \/ Restart(h)
            \/ \E a \in Attempts, found \in BOOLEAN : Public(h, a, found)
    /\ UNCHANGED <<now, expires>>

Next == Handle \/ Tick

Spec == Init /\ [][Next]_<<rvars, now, expires>>
-----------------------------------------------------------------------------
\* PUT, DELETE and expireLocked keep the pending gauge equal to the number of
\* stored proofs, and every counted publish is either still stored, counted as
\* deleted or expired, or was replaced.
StoreAccounted ==
    \A h \in Hosts :
        /\ held[h] = Cardinality(Stored(h))
        /\ counts[h].published >=
             held[h] + counts[h].deleted + counts[h].expired

\* control: although the proof is parsed before the lock, a responder never
\* stores more than Slots proofs, only proofs of its own FQDN, and none that
\* outlives the challenge TTL on its own clock.
StoreBounded ==
    \A h \in Hosts :
        /\ Cardinality(Stored(h)) <= Slots
        /\ \A a \in Stored(h) :
             /\ Claim[a] = h
             /\ expires[a] <= Seconds(Clock(h) + TTL * Hz)
=============================================================================

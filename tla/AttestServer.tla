---------------------------- MODULE AttestServer ----------------------------
(***************************************************************************)
(* The server half of the http_fqdn node attestor: Server, ServerAttempt    *)
(* (server.go) and the Attest stream handler that drives one attempt       *)
(* (adapters.go).  One stream is one element of Attempts; it may run beside *)
(* any other stream, beside the context.AfterFunc goroutine that closes it  *)
(* when its context ends, and beside Configure, which replaces the Server.  *)
(*                                                                         *)
(* The maps active and recent of every Server generation are kept in one    *)
(* set each: an attempt belongs to the generation srv[a] that its stream    *)
(* took a snapshot of, so the map of generation g is the part with srv = g. *)
(*                                                                         *)
(* A critical section takes no tick of the clock unless it waits for another *)
(* lock, and a timer fires in the tick of its deadline.                     *)
(***************************************************************************)
EXTENDS Integers, FiniteSets

CONSTANTS
    Attempts,     \* the attestation streams, each with its own challenge ID
    Nodes,        \* the registered node names
    Keys,         \* bootstrap public keys
    Claim,        \* Claim[a]: the node whose FQDN the payload of stream a names
    Key,          \* Key[a]: the bootstrap key in the payload of stream a
    Capacity,     \* pending sessions of one Server (32)
    Quota,        \* approvals of one node in one Window (6)
    Window,       \* the quota window, in seconds (60)
    TTL,          \* ChallengeTTL, in seconds (120)
    FetchBudget,  \* the deadline of a fetch, in seconds (5)
    Hz,           \* clock ticks in a second
    MaxGen,       \* bound: number of Configure calls
    StartBy,      \* bound: last tick at which a session may begin
    MaxTime       \* bound: last tick of the clock

ASSUME AttestServerAssumption ==
    /\ IsFiniteSet(Attempts)
    /\ Claim \in [Attempts -> Nodes]
    /\ Key \in [Attempts -> Keys]
    /\ Capacity \in Nat /\ Quota \in Nat
    /\ Window \in Nat /\ TTL \in Nat /\ FetchBudget \in Nat
    /\ Hz \in Nat \ {0}
    /\ MaxGen \in Nat /\ StartBy \in Nat /\ MaxTime \in Nat

VARIABLES
    now,         \* the clock, in ticks
    gen,         \* the Server that Configure installed last; 0 before the first
    pc,          \* pc[a]: where the Attest handler of stream a is
    srv,         \* srv[a]: the generation stream a snapshotted
    expires,     \* expires[a]: challenge.ExpiresAt, in seconds
    fetchBy,     \* fetchBy[a]: deadline of fetchCtx, in ticks
    cancelled,   \* streams whose gRPC context was cancelled
    verified,    \* attempts whose Verify was entered
    closed,      \* attempts whose closed flag is set
    active,      \* attempts in Server.active
    recent,      \* approvals still listed in Server.recent
    approved,    \* attempts for which Verify returned a Result
    approvedAt,  \* approvedAt[a]: the time chargeSuccess recorded
    pending      \* pending[n]: the gauge metricsRegistry.pending

vars == <<now, gen, pc, srv, expires, fetchBy, cancelled, verified, closed,
          active, recent, approved, approvedAt, pending>>

timing == <<now, gen>>
session == <<srv, expires, fetchBy, verified>>
slots == <<active, pending>>
ledger == <<recent, approved, approvedAt>>

PCs == {"idle", "recv", "rejected", "await", "received", "fetching",
        "fetched", "charging", "approved", "exit", "done"}

\* What the HTTP endpoint can answer: a key, the key that really signed, and
\* the session whose challenge bytes are the signed payload.
Docs == [jwk : Keys, signer : Keys, payload : Attempts]

-----------------------------------------------------------------------------
Unix(t) == t \div Hz

\* An attempt has a context from Begin on.
Begun(a) == pc[a] \notin {"idle", "recv", "rejected"}

ActiveOf(g) == {a \in active : srv[a] = g}

\* Mutant: the attempt's context has no deadline.
CtxDoneUntimed(a) == a \in closed \/ a \in cancelled

\* The attempt's context: cancelled by Close, by its stream or by the deadline.
CtxDone(a) == a \in closed \/ a \in cancelled \/ now >= expires[a] * Hz

FetchCtxDone(a) == CtxDone(a) \/ now >= fetchBy[a]

\* Server.recent[node] of the attempt's own Server.
Bucket(a) == {b \in recent : srv[b] = srv[a] /\ Claim[b] = Claim[a]}

\* Mutant: the comparison with the cutoff is reversed.
KeptReversed(a) == {b \in Bucket(a) : approvedAt[b] <= now - Window * Hz}

\* chargeSuccess keeps the approvals of the last Window only.
Kept(a) == {b \in Bucket(a) : approvedAt[b] > now - Window * Hz}

\* Mutant: any document with a valid signature will do.
ProofSelfSigned(a, d) == d.signer = d.jwk

\* verifyProof with the session's own key, then bytes.Equal with rawChallenge.
ProofAccepted(a, d) ==
    /\ d.jwk = Key[a]
    /\ d.signer = d.jwk
    /\ d.payload = a
-----------------------------------------------------------------------------
Init ==
    /\ now = 0
    /\ gen = 0
    /\ pc = [a \in Attempts |-> "idle"]
    /\ srv = [a \in Attempts |-> 0]
    /\ expires = [a \in Attempts |-> 0]
    /\ fetchBy = [a \in Attempts |-> 0]
    /\ cancelled = {} /\ verified = {} /\ closed = {}
    /\ active = {} /\ recent = {}
    /\ approved = {}
    /\ approvedAt = [a \in Attempts |-> 0]
    /\ pending = [n \in Nodes |-> 0]

\* ServerPlugin.Configure: a fresh Server, with empty maps, serves new streams.
Configure ==
    /\ gen < MaxGen
    /\ gen' = gen + 1
    /\ UNCHANGED <<now, pc, session, cancelled, closed, slots, ledger>>

\* Attest: take the snapshot of begin; without one the stream fails at once.
Attest(a) ==
    /\ pc[a] = "idle"
    /\ srv' = [srv EXCEPT ![a] = gen]
    /\ pc' = [pc EXCEPT ![a] = IF gen = 0 THEN "rejected" ELSE "recv"]
    /\ UNCHANGED <<timing, expires, fetchBy, verified, cancelled, closed, slots,
                   ledger>>

\* The stream ends, or its payload is malformed, of another version, names an
\* unknown FQDN or holds an invalid key: no session is reserved.
RejectPayload(a) ==
    /\ pc[a] = "recv"
    /\ pc' = [pc EXCEPT ![a] = "rejected"]
    /\ UNCHANGED <<timing, session, cancelled, closed, slots, ledger>>

\* Server.Begin, under Server.mu, for a valid payload.  The stream may have been
\* cancelled since Begin looked at its context.
BeginFull(a) ==
    /\ pc[a] = "recv"
    /\ Cardinality(ActiveOf(srv[a])) >= Capacity
    /\ pc' = [pc EXCEPT ![a] = "rejected"]
    /\ UNCHANGED <<timing, session, cancelled, closed, slots, ledger>>

\* Mutant: the room in active is not checked.
BeginUnbounded(a) ==
    /\ pc[a] = "recv"
    /\ now <= StartBy
    /\ expires' = [expires EXCEPT ![a] = Unix(now + TTL * Hz)]
    /\ active' = active \cup {a}
    /\ pending' = [pending EXCEPT ![Claim[a]] = @ + 1]
    /\ pc' = [pc EXCEPT ![a] = "await"]
    /\ UNCHANGED <<timing, srv, fetchBy, verified, cancelled, closed, ledger>>

\* Mutant: the lifetime is subtracted from the time.
BeginExpired(a) ==
    /\ pc[a] = "recv"
    /\ now <= StartBy
    /\ Cardinality(ActiveOf(srv[a])) < Capacity
    /\ expires' = [expires EXCEPT ![a] = Unix(now - TTL * Hz)]
    /\ active' = active \cup {a}
    /\ pending' = [pending EXCEPT ![Claim[a]] = @ + 1]
    /\ pc' = [pc EXCEPT ![a] = "await"]
    /\ UNCHANGED <<timing, srv, fetchBy, verified, cancelled, closed, ledger>>

Begin(a) ==
    /\ pc[a] = "recv"
    /\ now <= StartBy
    /\ Cardinality(ActiveOf(srv[a])) < Capacity
    /\ expires' = [expires EXCEPT ![a] = Unix(now + TTL * Hz)]
    /\ active' = active \cup {a}
    /\ pending' = [pending EXCEPT ![Claim[a]] = @ + 1]
    /\ pc' = [pc EXCEPT ![a] = "await"]
    /\ UNCHANGED <<timing, srv, fetchBy, verified, cancelled, closed, ledger>>

\* receivePluginMessage returns a challenge response only while both contexts
\* live.
Receive(a) ==
    /\ pc[a] = "await"
    /\ ~CtxDone(a)
    /\ pc' = [pc EXCEPT ![a] = "received"]
    /\ UNCHANGED <<timing, session, cancelled, closed, slots, ledger>>

\* The challenge could not be sent, the stream broke, a context ended, or the
\* message is no challenge response.
ReceiveFail(a) ==
    /\ pc[a] = "await"
    /\ pc' = [pc EXCEPT ![a] = "exit"]
    /\ UNCHANGED <<timing, session, cancelled, closed, slots, ledger>>

\* ServerAttempt.Verify up to the fetch: the first critical section, then the
\* checks of the ready message and of the expiry.  readyOK says whether the
\* message decodes and carries this attempt's ID.
VerifyStart(a, readyOK) ==
    /\ pc[a] = "received"
    /\ IF a \in closed \/ a \in verified
       THEN /\ pc' = [pc EXCEPT ![a] = "exit"]
            /\ UNCHANGED <<verified, fetchBy>>
       ELSE /\ verified' = verified \cup {a}
            /\ IF readyOK /\ Unix(now) < expires[a]
               THEN /\ pc' = [pc EXCEPT ![a] = "fetching"]
                    /\ fetchBy' = [fetchBy EXCEPT ![a] = now + FetchBudget * Hz]
               ELSE /\ pc' = [pc EXCEPT ![a] = "exit"]
                    /\ UNCHANGED fetchBy
    /\ UNCHANGED <<timing, srv, expires, cancelled, closed, slots, ledger>>

\* Verify returns, and its fetchCtx with it.
Return(a, to) ==
    /\ pc' = [pc EXCEPT ![a] = to]
    /\ fetchBy' = [fetchBy EXCEPT ![a] = 0]

\* fetch returns a body and verifyProof accepts or refuses it.  No lock is held.
FetchReturn(a, d) ==
    /\ pc[a] = "fetching"
    /\ IF ProofAccepted(a, d)
       THEN pc' = [pc EXCEPT ![a] = "fetched"] /\ UNCHANGED fetchBy
       ELSE Return(a, "exit")
    /\ UNCHANGED <<timing, srv, expires, verified, cancelled, closed, slots,
                   ledger>>

\* No pinned address answers, the answer is not 200, or fetchCtx ends first.
FetchFail(a) ==
    /\ pc[a] = "fetching"
    /\ Return(a, "exit")
    /\ UNCHANGED <<timing, srv, expires, verified, cancelled, closed, slots,
                   ledger>>

\* Mutant: only the closed flag is looked at again after the fetch.
SessionOpen(a) == a \notin closed

\* The session is looked at again.
SessionLive(a) ==
    a \notin closed /\ Unix(now) < expires[a] /\ ~FetchCtxDone(a)

\* The second critical section of Verify, under ServerAttempt.mu: a session that is
\* still live goes on to chargeSuccess.
SessionEnded(a) ==
    /\ pc[a] = "fetched"
    /\ ~SessionLive(a)
    /\ Return(a, "exit")
    /\ UNCHANGED <<timing, srv, expires, verified, cancelled, closed, slots,
                   ledger>>

SessionConfirmed(a) ==
    /\ pc[a] = "fetched"
    /\ SessionLive(a)
    /\ pc' = [pc EXCEPT ![a] = "charging"]
    /\ UNCHANGED <<timing, session, cancelled, closed, slots, ledger>>

\* chargeSuccess, once it has Server.mu.  ServerAttempt.mu is held all along; the
\* stream may be cancelled and the deadlines pass meanwhile.
RateLimited(a) ==
    /\ pc[a] = "charging"
    /\ Cardinality(Kept(a)) >= Quota
    /\ recent' = (recent \ Bucket(a)) \cup Kept(a)
    /\ Return(a, "exit")
    /\ UNCHANGED <<timing, srv, expires, verified, cancelled, closed, slots,
                   approved, approvedAt>>

Approve(a) ==
    /\ pc[a] = "charging"
    /\ Cardinality(Kept(a)) < Quota
    /\ recent' = (recent \ Bucket(a)) \cup Kept(a) \cup {a}
    /\ approved' = approved \cup {a}
    /\ approvedAt' = [approvedAt EXCEPT ![a] = now]
    /\ Return(a, "approved")
    /\ UNCHANGED <<timing, srv, expires, verified, cancelled, closed, slots>>

\* The attributes are sent, or the send fails: the handler returns either way.
SendAttributes(a) ==
    /\ pc[a] = "approved"
    /\ pc' = [pc EXCEPT ![a] = "exit"]
    /\ UNCHANGED <<timing, session, cancelled, closed, slots, ledger>>

\* The deferred attempt.Close of Attest, up to the unlock of ServerAttempt.mu.
HandlerClose(a) ==
    /\ pc[a] = "exit"
    /\ closed' = closed \cup {a}
    /\ pc' = [pc EXCEPT ![a] = "done"]
    /\ UNCHANGED <<timing, session, cancelled, slots, ledger>>

\* The context.AfterFunc goroutine: the same Close, run when the context ends; it
\* waits for ServerAttempt.mu.
CtxClose(a) ==
    /\ Begun(a) /\ pc[a] # "charging"
    /\ a \notin closed
    /\ CtxDone(a)
    /\ closed' = closed \cup {a}
    /\ UNCHANGED <<timing, pc, session, cancelled, slots, ledger>>

\* Mutant: the gauge moves whether or not the session is still listed.
CloseRemoveTwice(a) ==
    /\ a \in closed
    /\ active' = active \ {a}
    /\ pending' = [pending EXCEPT ![Claim[a]] = @ - 1]
    /\ UNCHANGED <<timing, pc, session, cancelled, closed, ledger>>

\* The second half of Close, under Server.mu, by whichever caller set closed.
CloseRemove(a) ==
    /\ a \in closed
    /\ a \in active
    /\ active' = active \ {a}
    /\ pending' = [pending EXCEPT ![Claim[a]] = @ - 1]
    /\ UNCHANGED <<timing, pc, session, cancelled, closed, ledger>>

\* SPIRE cancels the stream's context; after Close that changes nothing more.
Cancel(a) ==
    /\ pc[a] \notin {"idle", "rejected", "done"}
    /\ a \notin cancelled \cup closed
    /\ cancelled' = cancelled \cup {a}
    /\ UNCHANGED <<timing, pc, session, closed, slots, ledger>>

Tick ==
    /\ now < MaxTime
    /\ now' = now + 1
    /\ UNCHANGED <<gen, pc, session, cancelled, closed, slots, ledger>>

\* All streams of the bounded instance have returned.
Finished ==
    /\ \A a \in Attempts : pc[a] \in {"rejected", "done"}
    /\ active = {} /\ now = MaxTime /\ gen = MaxGen
    /\ UNCHANGED vars

HandlerStep(a) ==
    \/ Attest(a) \/ RejectPayload(a) \/ BeginFull(a) \/ Begin(a)
    \/ Receive(a) \/ ReceiveFail(a)
    \/ \E readyOK \in BOOLEAN : VerifyStart(a, readyOK)
    \/ \E d \in Docs : FetchReturn(a, d)
    \/ FetchFail(a) \/ SessionEnded(a) \/ SessionConfirmed(a)
    \/ RateLimited(a) \/ Approve(a)
    \/ SendAttributes(a) \/ HandlerClose(a)

Next ==
    \/ Configure
    \/ \E a \in Attempts :
        HandlerStep(a) \/ CtxClose(a) \/ CloseRemove(a) \/ Cancel(a)
    \/ Tick
    \/ Finished

Spec == Init /\ [][Next]_vars

\* Timers fire, AfterFunc goroutines run, Close never blocks for ever on a
\* mutex, and a handler that only waits for a context or computes goes on.
Fairness ==
    /\ WF_vars(Tick)
    /\ \A a \in Attempts :
        /\ WF_vars(CtxClose(a)) /\ WF_vars(CloseRemove(a))
        /\ WF_vars(CtxDone(a) /\ ReceiveFail(a))
        /\ WF_vars(\E readyOK \in BOOLEAN : VerifyStart(a, readyOK))
        /\ WF_vars(FetchCtxDone(a) /\ FetchFail(a))
        /\ WF_vars(SessionEnded(a) \/ SessionConfirmed(a))
        /\ WF_vars(RateLimited(a) \/ Approve(a))
        /\ WF_vars(SendAttributes(a)) /\ WF_vars(HandlerClose(a))

FairSpec == Spec /\ Fairness
-----------------------------------------------------------------------------
\* Every variable holds a value of its Go type; deadlines are natural numbers.
TypeOK ==
    /\ now \in Nat /\ gen \in 0..MaxGen
    /\ pc \in [Attempts -> PCs]
    /\ srv \in [Attempts -> 0..MaxGen]
    /\ expires \in [Attempts -> Nat] /\ fetchBy \in [Attempts -> Nat]
    /\ cancelled \subseteq Attempts /\ verified \subseteq Attempts
    /\ closed \subseteq Attempts /\ active \subseteq Attempts
    /\ recent \subseteq Attempts /\ approved \subseteq Attempts
    /\ approvedAt \in [Attempts -> Nat]
    /\ pending \in [Nodes -> Int]

\* The approvals that one Server gave the node of b in the Window ending at b's.
WindowOf(b) ==
    {a \in approved : /\ srv[a] = srv[b] /\ Claim[a] = Claim[b]
                      /\ approvedAt[a] > approvedAt[b] - Window * Hz
                      /\ approvedAt[a] <= approvedAt[b]}

\* chargeSuccess: no Server approves one node more than Quota times within any
\* span of Window seconds, wherever the span ends.
QuotaHolds == \A b \in approved : Cardinality(WindowOf(b)) <= Quota

\* The pending gauge counts the reserved attempts of a node, of all Servers,
\* whichever of the handler and the AfterFunc goroutine closes an attempt.
PendingExact ==
    \A n \in Nodes : pending[n] = Cardinality({a \in active : Claim[a] = n})

\* Begin never reserves more than Capacity sessions of one Server, and a
\* session that may still be approved holds its reservation.
CapacityHolds ==
    /\ \A g \in 1..MaxGen : Cardinality(ActiveOf(g)) <= Capacity
    /\ \A a \in Attempts : Begun(a) /\ a \notin closed => a \in active

\* Verify: the quota is charged only for a session that was found live after the
\* fetch: reserved, its stream not cancelled, its challenge not expired and its proof
\* fetched within the budget.  No Close comes between that and the result, although
\* its stream may end and its deadlines pass while chargeSuccess waits for the lock.
ApprovalInSession ==
    [][\A a \in Attempts :
        /\ a \in approved' \ approved =>
             pc[a] = "charging" /\ a \in (active \cap verified) \ closed
        /\ pc[a] # "charging" /\ pc'[a] = "charging" =>
             /\ a \in active \ (closed \cup cancelled)
             /\ now < expires[a] * Hz /\ now < fetchBy[a]]_vars

\* Close and Attest: a reserved session gives its slot back and its handler returns,
\* even when the peer never answers, the stream stays open or the fetch hangs until
\* its deadline.
SlotReleased ==
    \A a \in Attempts : a \in active ~> (a \notin active /\ pc[a] = "done")

\* The flags of an attempt and the place of its handler read as its status in the
\* ledger.
Status(a) == IF a \in approved THEN "granted"
             ELSE IF ~Begun(a) THEN "new"
             ELSE IF pc[a] = "charging" THEN "admitted"
             ELSE IF a \in closed \/ pc[a] \in {"exit", "done"} THEN "over" ELSE "open"

\* The attestor's promise to SPIRE.
Ledger == INSTANCE ApprovalLedger WITH
    Books <- 1..MaxGen,
    Span <- Window * Hz,
    clock <- now,
    status <- [a \in Attempts |-> Status(a)],
    book <- [a \in Attempts |-> IF Begun(a) THEN srv[a] ELSE 0],
    deadline <- [a \in Attempts |-> expires[a] * Hz],
    grantedAt <- approvedAt

\* The server implements the ledger: sessions are admitted before their deadline and
\* granted within the quota, at most once, and every session ends.
LedgerPromise == Ledger!Promise
=============================================================================

----------------------------- MODULE NodeAttest -----------------------------
(***************************************************************************)
(* One attestation end to end: the agent plugin of a session, the responder *)
(* of each host and the server plugin, joined by SPIRE's streams, the       *)
(* control sockets and the HTTP fetch.  Each session makes a fresh          *)
(* bootstrap key, so a key is named by its session.                        *)
(***************************************************************************)
EXTENDS Integers, FiniteSets

CONSTANTS
    Attempts, Hosts, Host, Claim, Skew,
    Pinned,       \* Pinned[h]: the hosts behind the pinned addresses of node h
    Capacity, Quota, Slots, Window, TTL, FetchBudget, AgentTTL, PutBudget,
    DeleteBudget, Hz,
    Scenes,       \* what may happen in a behaviour: a set of Scene
    MaxGen, StartBy, MaxTime

VARIABLES
    now, expires,
    gen, pc, srv, fetchBy, cancelled, verified, closed, active, recent,
    approved, approvedAt, pending,
    apc, aidBy, callBy, dropped, published, submitted,
    ctl, del, proofs, held, counts,
    scene         \* the scene of this behaviour

S == INSTANCE AttestServer WITH
        Nodes <- Hosts, Keys <- Attempts, Key <- [a \in Attempts |-> a]
R == INSTANCE ProofResponder WITH Expiries <- {}, MaxPublish <- 0
A == INSTANCE AgentAttempt

server == <<now, gen, pc, srv, expires, fetchBy, cancelled, verified, closed,
            active, recent, approved, approvedAt, pending>>
agent == <<apc, aidBy, callBy, dropped, published, submitted>>
store == <<proofs, held, counts>>
responder == <<ctl, del, store>>
vars == <<server, agent, responder, scene>>

\* The document signed in session b.
Doc(b) == [jwk |-> b, signer |-> b, payload |-> b]
FaultKinds == {"peer",      \* the server's peer sends bad or early messages
               "stream",    \* a stream or a transport breaks
               "stray",     \* a fetch gets a stored document of any session
               "control",   \* a control connection fails
               "restart"}   \* a responder restarts

\* The sessions that take place, the faults they meet, and how long time runs.
Scene == [who : SUBSET Attempts, faults : SUBSET FaultKinds, horizon : 0..MaxTime]

ASSUME SceneAssumption == Scenes \subseteq Scene

ASSUME NodeAttestAssumption ==
    /\ IsFiniteSet(Attempts)
    /\ Host \in [Attempts -> Hosts] /\ Claim \in [Attempts -> Hosts]
    /\ Skew \in [Hosts -> Int]
    /\ Slots \in Nat /\ TTL \in Nat /\ Hz \in Nat \ {0} /\ MaxTime \in Nat

Can(kind) == kind \in scene.faults
-----------------------------------------------------------------------------
Init == S!Init /\ A!AgentInit /\ R!ResponderInit /\ scene \in Scenes

Server(a) ==
    \* SPIRE configures its plugins before it serves agents.
    /\ \/ gen > 0 /\ apc[a] # "idle" /\ S!Attest(a)
       \/ Can("peer") /\ S!RejectPayload(a)
       \/ S!BeginFull(a)
       \/ S!Begin(a)
       \* ready proves nothing: a peer may send it whenever it likes.
       \/ (Can("peer") \/ apc[a] = "wait") /\ S!Receive(a)
       \/ (Can("stream") \/ S!CtxDone(a)) /\ S!ReceiveFail(a)
       \/ \E readyOK \in BOOLEAN : 
            (Can("peer") \/ readyOK) /\ S!VerifyStart(a, readyOK)
       \/ (Can("stream") \/ S!FetchCtxDone(a)) /\ S!FetchFail(a)
       \/ S!SessionEnded(a) \/ S!SessionConfirmed(a) \/ S!RateLimited(a) \/ S!Approve(a)
       \/ S!SendAttributes(a) \/ S!HandlerClose(a)
       \/ S!CtxClose(a) \/ S!CloseRemove(a)
       \/ Can("stream") /\ S!Cancel(a)
    /\ UNCHANGED <<agent, responder, scene>>

\* fetch reaches the responder behind a pinned address, which answers it.
Fetch(a) ==
    /\ \E h \in Pinned[Claim[a]], found \in BOOLEAN :
        /\ R!Public(h, a, found)
        /\ IF found THEN S!FetchReturn(a, Doc(a)) ELSE S!FetchFail(a)
    /\ UNCHANGED <<agent, scene>>

\* Something else answers with a proof that some responder once published.
FetchStray(a) ==
    /\ Can("stray")
    /\ \E b \in Attempts : ctl[b] = "created" /\ S!FetchReturn(a, Doc(b))
    /\ UNCHANGED <<agent, responder, scene>>

Agent(a) ==
    /\ \/ a \in scene.who /\ A!Aid(a)
       \/ S!Begun(a) /\ A!Respond(a, R!InWindow(a))
       \/ A!PutReply(a) \/ A!PutTimeout(a)
       \/ A!SendReady(a)
       \/ Can("stream") /\ (A!SendReadyFail(a) \/ A!Drop(a))
       \/ /\ Can("stream") \/ A!AidDone(a) \/ pc[a] \in {"done", "rejected"}
          /\ A!StreamEnd(a)
       \/ A!Close(a) \/ A!Closed(a)
    /\ UNCHANGED <<server, store, scene>>

Responder ==
    /\ \/ \E a \in Attempts :
            \/ R!PutParse(a) \/ R!PutStore(a) \/ R!DeleteProof(a)
            \/ Can("control") /\ R!ControlLost(a)
       \/ \E h \in Hosts : R!Cleanup(h) \/ (Can("restart") /\ R!Restart(h))
    /\ UNCHANGED <<server, agent, scene>>

Configure == S!Configure /\ UNCHANGED <<agent, responder, scene>>

Tick == now < scene.horizon /\ S!Tick /\ UNCHANGED <<agent, responder, scene>>

Finished ==
    /\ \A a \in scene.who : apc[a] = "done"
    /\ now = scene.horizon
    /\ UNCHANGED vars

Next ==
    \/ \E a \in Attempts : Server(a) \/ Fetch(a) \/ FetchStray(a) \/ Agent(a)
    \/ Responder \/ Configure \/ Tick \/ Finished

Spec == Init /\ [][Next]_vars

\* Timers fire, handlers run, and the clean-up ticker of each responder ticks.
Fairness ==
    /\ WF_vars(Tick)
    /\ WF_vars(Configure)
    /\ \A h \in Hosts : WF_vars(R!Cleanup(h) /\ UNCHANGED <<server, agent, scene>>)
    /\ \A a \in Attempts :
        /\ WF_vars((R!PutParse(a) \/ R!PutStore(a) \/ R!DeleteProof(a))
                     /\ UNCHANGED <<server, agent, scene>>)
        /\ WF_vars(Agent(a))
        /\ WF_vars(Server(a))
        /\ WF_vars(Fetch(a))

FairSpec == Spec /\ Fairness
-----------------------------------------------------------------------------
\* Verify, parseProof and validateChallenge together: a session is approved
\* only if the agent of that very session signed its challenge and the
\* responder of the claimed host, on which that agent runs, stored the proof.
\* No proof of another session and no early or false ready message will do.
ApprovalIsLocal ==
    \A a \in approved :
        /\ a \in published
        /\ ctl[a] = "created"
        /\ Host[a] = Claim[a]

\* Until the agent closes its attempt, its proof leaves the store only by
\* expiry or with the responder process.
KeptWhileNeeded ==
    [][\A a \in proofs \ proofs' :
        \/ apc[a] \in {"exit", "closing", "done"}
        \/ a \in R!Expired(Host[a])
        \/ counts'[Host[a]] = R!NoCounts]_vars

\* Whatever is lost or late, no proof stays for ever: a PUT that arrives after
\* its session's DELETE, or whose DELETE is lost, is removed by expiry.
ProofsVanish == \A a \in Attempts : <>[](a \notin proofs)

\* agent.go and docs/realm-http-attestation.md: when the stream is closed and
\* the responder has answered the DELETE, the proof is gone.
CleanedUpOnClose ==
    \A a \in Attempts : apc[a] = "done" /\ del[a] = "done" => a \notin proofs
=============================================================================

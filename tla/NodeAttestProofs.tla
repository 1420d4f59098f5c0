-------------------------- MODULE NodeAttestProofs --------------------------
(***************************************************************************)
(* Proofs about an attestation end to end, for any number of hosts, sessions, *)
(* skews, pinned addresses and faults: an approval is local to the session    *)
(* and the host it is about, a proof stays while its agent needs it, and the  *)
(* composed system runs the server plugin as AttestServer specifies it and    *)
(* the responders as ProofResponder promises them.                          *)
(***************************************************************************)
EXTENDS NodeAttest, TLAPS

(***************************************************************************)
(* The inductive invariant.  Respond happens once in a session, so a PUT that *)
(* the responder answered with created is never sent again: the answer is    *)
(* still there when the server, much later, approves.                        *)
(***************************************************************************)
TypeOK ==
    /\ DOMAIN pc = Attempts /\ DOMAIN apc = Attempts
    /\ DOMAIN ctl = Attempts /\ DOMAIN del = Attempts /\ DOMAIN counts = Hosts
    /\ approved \subseteq Attempts /\ proofs \subseteq Attempts

SentOnce(a) ==
    /\ a \in published => apc[a] \notin {"idle", "payload"}
    /\ ctl[a] # "none" => a \in published
    /\ del[a] # "none" => apc[a] \in {"closing", "done"}

\* Verify has accepted a proof.
Shown(a) == pc[a] \in {"fetched", "charging"}

StoredLocally(a) ==
    /\ ctl[a] \in {"parsed", "created"} => Host[a] = Claim[a]
    /\ a \in proofs => ctl[a] = "created"
    /\ Shown(a) \/ a \in approved => ctl[a] = "created"

IInv == TypeOK /\ \A a \in Attempts : SentOnce(a) /\ StoredLocally(a)

LEMMA Start == Init => IInv
BY DEF Init, S!Init, A!AgentInit, R!ResponderInit, IInv, TypeOK, SentOnce, StoredLocally,
   Shown

\* What a step of the server half leaves of the invariant: only a fetch that brought
\* the session's own proof, or an approval after one, needs an argument.
LEMMA ServerKeeps ==
    ASSUME IInv, UNCHANGED <<apc, published, ctl, del>>, TypeOK',
           \A a \in Attempts : a \in proofs' => a \in proofs,
           \A a \in Attempts : Shown(a)' => Shown(a) \/ ctl[a] = "created",
           \A a \in Attempts : a \in approved' => a \in approved \/ Shown(a)
    PROVE  IInv'
BY DEF IInv, SentOnce, StoredLocally

LEMMA ServerStep ==
    ASSUME IInv, NEW a \in Attempts, Server(a)
    PROVE  IInv'
<1>1. UNCHANGED <<apc, published, ctl, del, proofs, counts>>
  BY DEF Server, agent, responder, store
<1>2. /\ DOMAIN pc' = Attempts /\ approved' \subseteq Attempts
      /\ \A b \in Attempts : Shown(b)' => Shown(b)
      /\ \A b \in Attempts : b \in approved' => b \in approved \/ Shown(b)
  <2> USE DEF IInv, TypeOK, Shown, S!timing, S!session, S!slots, S!ledger
  <2>1. CASE S!Attest(a) \/ S!RejectPayload(a) \/ S!BeginFull(a) \/ S!Begin(a)
    BY <2>1 DEF S!Attest, S!RejectPayload, S!BeginFull, S!Begin
  <2>2. CASE S!Receive(a) \/ S!ReceiveFail(a) \/ \E ok \in BOOLEAN : S!VerifyStart(a, ok)
    BY <2>2 DEF S!Receive, S!ReceiveFail, S!VerifyStart
  <2>3. CASE S!FetchFail(a) \/ S!SessionEnded(a) \/ S!SessionConfirmed(a)
             \/ S!RateLimited(a) \/ S!Approve(a)
    BY <2>3 DEF S!FetchFail, S!SessionEnded, S!SessionConfirmed, S!RateLimited, S!Approve, S!Return
  <2>4. CASE S!SendAttributes(a) \/ S!HandlerClose(a) \/ S!CtxClose(a) \/ S!CloseRemove(a)
               \/ S!Cancel(a)
    BY <2>4 DEF S!SendAttributes, S!HandlerClose, S!CtxClose, S!CloseRemove, S!Cancel
  <2> QED
    BY <2>1, <2>2, <2>3, <2>4 DEF Server
<1>3. TypeOK'
  BY <1>1, <1>2 DEF IInv, TypeOK
<1> QED
  BY <1>1, <1>2, <1>3, ServerKeeps

\* A GET makes the responder expire proofs; it never adds one.
LEMMA PublicStep ==
    ASSUME IInv, NEW h, NEW a \in Attempts, NEW found \in BOOLEAN,
           R!Public(h, a, found)
    PROVE  /\ proofs' \subseteq proofs /\ DOMAIN counts' = Hosts /\ UNCHANGED <<ctl, del>>
           /\ found => a \in proofs
BY DEF R!Public, R!Update, R!Stored, IInv, TypeOK

LEMMA FetchStep ==
    ASSUME IInv, NEW a \in Attempts, Fetch(a)
    PROVE  IInv'
<1>1. PICK h \in Pinned[Claim[a]], found \in BOOLEAN :
        /\ R!Public(h, a, found)
        /\ IF found THEN S!FetchReturn(a, Doc(a)) ELSE S!FetchFail(a)
  BY DEF Fetch
<1>2. UNCHANGED <<apc, published>>
  BY DEF Fetch, agent
<1>3. proofs' \subseteq proofs /\ DOMAIN counts' = Hosts /\ UNCHANGED <<ctl, del>>
  BY <1>1, PublicStep
<1>4. found => ctl[a] = "created"
  BY <1>1, PublicStep, Zenon DEF IInv, StoredLocally
<1>5. /\ UNCHANGED approved /\ DOMAIN pc' = Attempts
      /\ \A b \in Attempts : Shown(b)' => Shown(b) \/ (b = a /\ found)
  BY <1>1, Zenon DEF Shown, S!FetchReturn, S!FetchFail, S!Return, S!ledger, IInv, TypeOK
<1>6. TypeOK'
  BY <1>2, <1>3, <1>5 DEF IInv, TypeOK
<1> QED
  BY <1>2, <1>3, <1>4, <1>5, <1>6, ServerKeeps

\* verifyProof accepts, of all documents any session ever published, only the one
\* that this session's agent signed over this session's challenge.
LEMMA OnlyOwnDocument ==
    ASSUME NEW a \in Attempts, NEW b \in Attempts, S!ProofAccepted(a, Doc(b))
    PROVE  b = a
BY DEF S!ProofAccepted, Doc

LEMMA StrayStep ==
    ASSUME IInv, NEW a \in Attempts, FetchStray(a)
    PROVE  IInv'
<1>1. PICK b \in Attempts : ctl[b] = "created" /\ S!FetchReturn(a, Doc(b))
  BY DEF FetchStray
<1>2. UNCHANGED <<apc, published, ctl, del, proofs, counts>>
  BY DEF FetchStray, agent, responder, store
<1>3. /\ UNCHANGED approved /\ DOMAIN pc' = Attempts
      /\ \A c \in Attempts : Shown(c)' =>
           Shown(c) \/ (c = a /\ S!ProofAccepted(a, Doc(b)))
  BY <1>1, Zenon DEF Shown, S!FetchReturn, S!Return, S!ledger, IInv, TypeOK
<1>4. S!ProofAccepted(a, Doc(b)) => ctl[a] = "created"
  BY <1>1, OnlyOwnDocument
<1>5. TypeOK'
  BY <1>2, <1>3 DEF IInv, TypeOK
<1> QED
  BY <1>2, <1>3, <1>4, <1>5, ServerKeeps

\* A step of the agent's handler moves only that handler, its PUT and its DELETE.
LEMMA AgentStep ==
    ASSUME IInv, NEW a \in Attempts, Agent(a)
    PROVE  IInv'
<1>1. UNCHANGED <<pc, approved, proofs, counts>>
  BY DEF Agent, server, store
<1>2. /\ DOMAIN apc' = Attempts /\ DOMAIN ctl' = Attempts /\ DOMAIN del' = Attempts
      /\ \A b \in Attempts : b # a =>
           /\ apc'[b] = apc[b] /\ ctl'[b] = ctl[b] /\ del'[b] = del[b]
           /\ b \in published' <=> b \in published
      /\ SentOnce(a)'
      /\ ctl'[a] = ctl[a] \/ (ctl[a] = "none" /\ ctl'[a] = "sent")
  <2> USE DEF IInv, TypeOK, SentOnce, A!Goto, A!CallOver
  <2>1. CASE A!Aid(a)
    BY <2>1, Zenon DEF A!Aid
  <2>2. CASE A!Respond(a, R!InWindow(a))
    BY <2>2 DEF A!Respond
  <2>3. CASE A!PutReply(a) \/ A!PutTimeout(a)
    BY <2>3 DEF A!PutReply, A!PutTimeout
  <2>4. CASE A!SendReady(a) \/ A!SendReadyFail(a) \/ A!Drop(a) \/ A!StreamEnd(a)
    BY <2>4 DEF A!SendReady, A!SendReadyFail, A!Drop, A!StreamEnd
  <2>5. CASE A!Close(a) \/ A!Closed(a)
    BY <2>5 DEF A!Close, A!Closed
  <2> QED
    BY <2>1, <2>2, <2>3, <2>4, <2>5, Zenon DEF Agent
<1>3. TypeOK'
  BY <1>1, <1>2, Zenon DEF IInv, TypeOK
<1>4. \A b \in Attempts : SentOnce(b)'
  BY <1>2, Zenon DEF IInv, SentOnce
<1>5. \A b \in Attempts : StoredLocally(b)'
  BY <1>1, <1>2, ZenonT(60) DEF IInv, StoredLocally, Shown
<1> QED
  BY <1>3, <1>4, <1>5 DEF IInv

\* The responders: a PUT is parsed against the host it arrived at, and what is stored
\* was answered with created.
LEMMA ResponderStep ==
    ASSUME IInv, Responder
    PROVE  IInv'
<1>1. UNCHANGED <<pc, approved, apc, published>>
  BY DEF Responder, server, agent
<1>2. /\ DOMAIN ctl' = Attempts /\ DOMAIN del' = Attempts /\ DOMAIN counts' = Hosts
      /\ proofs' \subseteq Attempts
      /\ \A b \in Attempts :
           /\ ctl[b] \in {"none", "created"} => ctl'[b] = ctl[b]
           /\ del[b] = "none" => del'[b] = "none"
           /\ ctl'[b] \in {"parsed", "created"} => Host[b] = Claim[b]
           /\ b \in proofs' => b \in proofs \/ ctl'[b] = "created"
  <2> USE DEF IInv, TypeOK, StoredLocally
  <2>1. ASSUME NEW a \in Attempts, R!PutParse(a) PROVE <1>2!:
    BY <2>1, ZenonT(60) DEF R!PutParse, R!ParseProof
  <2>2. ASSUME NEW a \in Attempts, R!PutStore(a) PROVE <1>2!:
    BY <2>2, ZenonT(60) DEF R!PutStore, R!Update
  <2>3. ASSUME NEW a \in Attempts, R!DeleteProof(a) \/ R!ControlLost(a) PROVE <1>2!:
    BY <2>3 DEF R!DeleteProof, R!ControlLost
  <2>4. ASSUME NEW h \in Hosts, R!Cleanup(h) PROVE <1>2!:
    BY <2>4 DEF R!Cleanup, R!Update
  <2>5. ASSUME NEW h \in Hosts, R!Restart(h) PROVE <1>2!:
    BY <2>5 DEF R!Restart
  <2> QED
    BY <2>1, <2>2, <2>3, <2>4, <2>5, Zenon DEF Responder
<1> QED
  BY <1>1, <1>2, ZenonT(60) DEF IInv, TypeOK, SentOnce, StoredLocally, Shown

LEMMA Step == IInv /\ [Next]_vars => IInv'
<1> SUFFICES ASSUME IInv, [Next]_vars PROVE IInv'
  OBVIOUS
<1>1. CASE Configure \/ Tick \/ Finished \/ UNCHANGED vars
  <2>1. UNCHANGED <<pc, approved, apc, published, ctl, del, proofs, counts>>
    BY <1>1, Zenon DEF Configure, Tick, Finished, S!Configure, S!Tick, vars, server, agent,
               responder, store, S!session, S!slots, S!ledger
  <2> QED
    BY <2>1 DEF IInv, TypeOK, SentOnce, StoredLocally, Shown
<1> QED
  BY <1>1, ServerStep, FetchStep, StrayStep, AgentStep, ResponderStep DEF Next

\* The invariant holds whatever is lost, late, restarted or answered by a stranger.
THEOREM NodeAttestInductive == Spec => []IInv
BY Start, Step, PTL DEF Spec

\* Verify, parseProof and validateChallenge together: a session is approved only if the
\* agent of that very session signed its challenge and the responder of the claimed
\* host, on which that agent runs, stored the proof.
THEOREM ApprovalIsLocalCorrect == Spec => []ApprovalIsLocal
<1>1. IInv => ApprovalIsLocal
  BY DEF IInv, TypeOK, SentOnce, StoredLocally, ApprovalIsLocal
<1> QED
  BY <1>1, NodeAttestInductive, PTL
-----------------------------------------------------------------------------
(* Which steps take a proof out of a store.                                 *)

\* expireLocked removes only what has expired.
LEMMA UpdateRemoves ==
    ASSUME NEW h, NEW added, R!Update(h, added), NEW a \in proofs \ proofs'
    PROVE  a \in R!Expired(Host[a])
BY DEF R!Update, R!Expired, R!Stored

\* Until the agent closes its attempt, its proof leaves the store only by expiry or with
\* the responder process: no GET, no PUT of another session, no agent that is still at
\* work takes it away.
THEOREM KeptWhileNeededCorrect == Spec => KeptWhileNeeded
<1> DEFINE Leaves(a) == \/ apc[a] \in {"exit", "closing", "done"}
                        \/ a \in R!Expired(Host[a])
                        \/ counts'[Host[a]] = R!NoCounts
<1>1. IInv /\ [Next]_vars => [\A a \in proofs \ proofs' : Leaves(a)]_vars
  <2> SUFFICES ASSUME IInv, Next, NEW a \in proofs \ proofs' PROVE Leaves(a)
    BY DEF vars
  <2>0. a \in Attempts
    BY DEF IInv, TypeOK
  <2>1. ASSUME NEW b \in Attempts, Server(b) \/ FetchStray(b) \/ Agent(b) PROVE Leaves(a)
    BY <2>1, Zenon DEF Server, FetchStray, Agent, responder, store
  <2>2. ASSUME NEW b \in Attempts, Fetch(b) PROVE Leaves(a)
    <3>1. PICK h \in Pinned[Claim[b]], found \in BOOLEAN : R!Public(h, b, found)
      BY <2>2 DEF Fetch
    <3>2. R!Update(h, {})
      BY <3>1 DEF R!Public
    <3> QED
      BY <3>2, UpdateRemoves
  <2>3. ASSUME NEW b \in Attempts, R!PutParse(b) \/ R!ControlLost(b) PROVE Leaves(a)
    BY <2>3 DEF R!PutParse, R!ControlLost
  <2>4. ASSUME NEW b \in Attempts, R!PutStore(b) PROVE Leaves(a)
    BY <2>4, UpdateRemoves DEF R!PutStore
  <2>5. ASSUME NEW b \in Attempts, R!DeleteProof(b) PROVE Leaves(a)
    <3>1. a = b /\ del[a] = "sent"
      BY <2>5 DEF R!DeleteProof
    <3> QED
      BY <2>0, <3>1 DEF IInv, SentOnce
  <2>6. ASSUME NEW h \in Hosts, R!Cleanup(h) PROVE Leaves(a)
    BY <2>6, UpdateRemoves DEF R!Cleanup
  <2>7. ASSUME NEW h \in Hosts, R!Restart(h) PROVE Leaves(a)
    BY <2>7, Zenon DEF R!Restart, R!Stored, IInv, TypeOK
  <2>8. CASE Configure \/ Tick \/ Finished
    BY <2>8, Zenon DEF Configure, Tick, Finished, vars, responder, store
  <2> QED
    BY <2>1, <2>2, <2>3, <2>4, <2>5, <2>6, <2>7, <2>8, Zenon DEF Next, Responder
<1> QED
  BY <1>1, NodeAttestInductive, PTL DEF Spec, KeptWhileNeeded
-----------------------------------------------------------------------------
(* The composed system and the server by itself.                            *)

\* Beside agents, responders and faults the server plugin behaves as AttestServer says:
\* every step of the composed system is a step of that specification or leaves the
\* server alone.  What is proved of AttestServer holds here.
THEOREM RunsTheServer == Spec => S!Spec
<1>1. Init => S!Init
  BY DEF Init
<1>2. [Next]_vars => [S!Next]_(S!vars)
  <2> SUFFICES ASSUME [Next]_vars PROVE S!Next \/ UNCHANGED S!vars
    OBVIOUS
  <2>1. ASSUME NEW a \in Attempts, Server(a) PROVE S!Next
    BY <2>1 DEF Server, S!Next, S!HandlerStep
  <2>2. ASSUME NEW a \in Attempts, NEW b \in Attempts, S!FetchReturn(a, Doc(b)) PROVE S!Next
    <3>1. Doc(b) \in S!Docs
      BY DEF Doc, S!Docs
    <3> QED
      BY <2>2, <3>1 DEF S!Next, S!HandlerStep
  <2>3. ASSUME NEW a \in Attempts, S!FetchFail(a) PROVE S!Next
    BY <2>3 DEF S!Next, S!HandlerStep
  <2>4. ASSUME NEW a \in Attempts, Fetch(a) \/ FetchStray(a) PROVE S!Next
    BY <2>2, <2>3, <2>4, Zenon DEF Fetch, FetchStray
  <2>5. ASSUME NEW a \in Attempts, Agent(a) PROVE UNCHANGED S!vars
    BY <2>5, Zenon DEF Agent, server, S!vars
  <2>6. CASE Responder \/ Finished \/ UNCHANGED vars
    BY <2>6, Zenon DEF Responder, Finished, vars, server, S!vars
  <2>7. CASE Configure \/ Tick
    BY <2>7 DEF Configure, Tick, S!Next
  <2> QED
    BY <2>1, <2>4, <2>5, <2>6, <2>7 DEF Next
<1> QED
  BY <1>1, <1>2, PTL DEF Spec, S!Spec
-----------------------------------------------------------------------------
(***************************************************************************)
(* The composed system and the responders.  By itself a responder is proved   *)
(* correct for deadlines that never change.  Here Begin sets the deadline of a *)
(* session while responders run: what is stored keeps its deadline because a  *)
(* PUT leaves only after Begin, and Begin happens once.                      *)
(***************************************************************************)
P == INSTANCE ProofResponderProofs WITH Expiries <- {}, MaxPublish <- 0

SentAfterBegin == \A a \in Attempts : ctl[a] # "none" => S!Begun(a)

StoreInv == IInv /\ P!IInv /\ SentAfterBegin

\* The constants satisfy what the proofs about responders assume.
LEMMA ResponderConstants ==
    /\ P!IsFiniteSet(Attempts)
    /\ Host \in [Attempts -> Hosts] /\ Claim \in [Attempts -> Hosts]
    /\ Slots \in Nat /\ TTL \in Nat /\ Hz \in Nat \ {0}
    /\ Skew \in [Hosts -> Int]
    /\ {} \subseteq Int /\ 0 \in Nat /\ MaxTime \in Nat
<1>1. IsFiniteSet(Attempts) = P!IsFiniteSet(Attempts)
  BY Zenon DEF IsFiniteSet, P!IsFiniteSet
<1> QED
  BY <1>1, NodeAttestAssumption

\* Both instances of the responder count alike.
LEMMA SameCount == \A T : R!Cardinality(T) = P!Cardinality(T)
BY Zenon DEF R!Cardinality, P!Cardinality

\* The deadline Begin computes is a whole number of seconds.
LEMMA DeadlineType ==
    ASSUME now \in Nat
    PROVE  S!Unix(now + TTL * Hz) \in Int
<1>1. now + TTL * Hz \in Int /\ now + TTL * Hz <= now + TTL * Hz
  BY NodeAttestAssumption
<1>2. P!Seconds(now + TTL * Hz) \in Int
  BY ZenonT(60), <1>1, P!SecondsMonotone, ResponderConstants
<1> QED
  BY <1>2 DEF P!Seconds, S!Unix

\* Only Begin changes a deadline, and no step ends a session's life before it.
LEMMA ServerDeadlines ==
    ASSUME IInv, NEW a \in Attempts, Server(a)
    PROVE  /\ UNCHANGED now
           /\ \A b \in Attempts : S!Begun(b) => S!Begun(b)'
           /\ \/ UNCHANGED expires
              \/ /\ ~S!Begun(a)
                 /\ expires' = [expires EXCEPT ![a] = S!Unix(now + TTL * Hz)]
<1> USE DEF IInv, TypeOK, S!timing, S!session, S!slots, S!ledger, S!Begun
<1>1. CASE S!Attest(a) \/ S!RejectPayload(a) \/ S!BeginFull(a)
  BY <1>1, Zenon DEF S!Attest, S!RejectPayload, S!BeginFull
<1>2. CASE S!Begin(a)
  BY <1>2, Zenon DEF S!Begin
<1>3. CASE S!Receive(a) \/ S!ReceiveFail(a) \/ \E ok \in BOOLEAN : S!VerifyStart(a, ok)
  BY <1>3, ZenonT(60) DEF S!Receive, S!ReceiveFail, S!VerifyStart
<1>4. CASE S!FetchFail(a) \/ S!SessionEnded(a) \/ S!SessionConfirmed(a)
           \/ S!RateLimited(a) \/ S!Approve(a)
  BY <1>4, ZenonT(60) DEF S!FetchFail, S!SessionEnded, S!SessionConfirmed, S!RateLimited, S!Approve, S!Return
<1>5. CASE S!SendAttributes(a) \/ S!HandlerClose(a) \/ S!CtxClose(a) \/ S!CloseRemove(a)
             \/ S!Cancel(a)
  BY <1>5, Zenon DEF S!SendAttributes, S!HandlerClose, S!CtxClose, S!CloseRemove, S!Cancel
<1> QED
  BY <1>1, <1>2, <1>3, <1>4, <1>5, Zenon DEF Server

\* A step that leaves the stores alone and changes no deadline of a sent proof.
LEMMA StoreUntouched ==
    ASSUME IInv, P!IInv, UNCHANGED <<proofs, held, counts, now>>,
           DOMAIN ctl' = Attempts, DOMAIN del' = Attempts, expires' \in [Attempts -> Int],
           \A a \in Attempts : ctl'[a] = "parsed" => ctl[a] = "parsed",
           \A a \in Attempts : ctl[a] # "none" => expires'[a] = expires[a]
    PROVE  P!IInv'
<1>1. P!TypeOK'
  BY Zenon DEF P!IInv, P!TypeOK
<1>2. P!Parsed'
  BY ZenonT(60) DEF IInv, StoredLocally, P!IInv, P!Parsed, P!Fits, P!Clock, P!Seconds
<1> QED
  BY <1>1, <1>2, Zenon DEF P!IInv, P!StoreAccounted, P!Stored

\* The handlers, the ticker and a restart are those of the responder by itself.
LEMMA SameHandlers ==
    /\ \A a \in Attempts : R!PutParse(a) => P!PutParse(a)
    /\ \A a \in Attempts : R!PutStore(a) => P!PutStore(a)
    /\ \A a \in Attempts : R!DeleteProof(a) => P!DeleteProof(a)
    /\ \A a \in Attempts : R!ControlLost(a) => P!ControlLost(a)
    /\ \A h \in Hosts : R!Cleanup(h) => P!Cleanup(h)
    /\ \A h \in Hosts : R!Restart(h) => P!Restart(h)
    /\ \A h \in Hosts, a \in Attempts, found \in BOOLEAN :
         R!Public(h, a, found) => P!Public(h, a, found)
<1>1. /\ \A h : R!Stored(h) = P!Stored(h)
      /\ \A h : R!Expired(h) = P!Expired(h)
  BY Zenon DEF R!Stored, P!Stored, R!Expired, P!Expired, R!Seconds, P!Seconds, R!Clock,
               P!Clock
<1>2. \A h, added : R!Update(h, added) => P!Update(h, added)
  BY <1>1, SameCount, ZenonT(60) DEF R!Update, P!Update
<1>3. \A a \in Attempts : R!ParseProof(a) = P!ParseProof(a)
  BY Zenon DEF R!ParseProof, P!ParseProof, R!InWindow, P!InWindow, R!Seconds, P!Seconds,
               R!Clock, P!Clock
<1>4. \A a \in Attempts : R!PutParse(a) => P!PutParse(a)
  BY <1>3, Zenon DEF R!PutParse, P!PutParse
<1>5. \A a \in Attempts : R!PutStore(a) => P!PutStore(a)
  BY <1>1, <1>2, SameCount, ZenonT(60) DEF R!PutStore, P!PutStore
<1>6. \A a \in Attempts : R!DeleteProof(a) => P!DeleteProof(a)
  BY Zenon DEF R!DeleteProof, P!DeleteProof
<1>7. \A a \in Attempts : R!ControlLost(a) => P!ControlLost(a)
  BY Zenon DEF R!ControlLost, P!ControlLost
<1>8. \A h \in Hosts : R!Cleanup(h) => P!Cleanup(h)
  BY <1>1, <1>2, Zenon DEF R!Cleanup, P!Cleanup
<1>9. \A h \in Hosts : R!Restart(h) => P!Restart(h)
  BY <1>1, Zenon DEF R!Restart, P!Restart, R!NoCounts, P!NoCounts
<1>10. \A h \in Hosts, a \in Attempts, found \in BOOLEAN :
         R!Public(h, a, found) => P!Public(h, a, found)
  BY <1>1, <1>2, ZenonT(60) DEF R!Public, P!Public
<1> QED
  BY <1>4, <1>5, <1>6, <1>7, <1>8, <1>9, <1>10, Zenon

\* A step that is one of the responders by themselves, or none of theirs.
LEMMA ResponderKeeps ==
    ASSUME P!IInv, P!Next \/ UNCHANGED <<ctl, del, proofs, held, counts, now, expires>>
    PROVE  P!IInv'
<1>1. P!Next \/ UNCHANGED <<P!rvars, now, expires>>
  BY Zenon DEF P!rvars
<1> QED
  BY ZenonT(60), <1>1, P!Step, ResponderConstants

\* Every step of the composed system keeps what the responders promise.
LEMMA StoreStep == StoreInv /\ [Next]_vars => StoreInv'
<1> SUFFICES ASSUME StoreInv, [Next]_vars PROVE P!IInv' /\ SentAfterBegin'
  BY Step DEF StoreInv
<1>0. IInv /\ IInv' /\ P!IInv /\ SentAfterBegin
  BY Step, Zenon DEF StoreInv
<1>1. ASSUME NEW a \in Attempts, Server(a) PROVE P!IInv' /\ SentAfterBegin'
  <2>1. UNCHANGED <<ctl, del, proofs, held, counts>>
    BY <1>1, Zenon DEF Server, responder, store
  <2>2. SentAfterBegin'
    BY <1>0, <1>1, <2>1, ServerDeadlines, Zenon DEF SentAfterBegin
  <2>3. CASE UNCHANGED expires
    BY <1>0, <1>1, <2>1, <2>2, <2>3, ServerDeadlines, ResponderKeeps, Zenon
  <2>4. ASSUME ~S!Begun(a), expires' = [expires EXCEPT ![a] = S!Unix(now + TTL * Hz)]
        PROVE  P!IInv'
    <3>1. expires \in [Attempts -> Int] /\ now \in Nat
      BY <1>0, Zenon DEF P!IInv, P!TypeOK
    <3>2. S!Unix(now + TTL * Hz) \in Int
      BY <3>1, DeadlineType
    <3>3. /\ expires' \in [Attempts -> Int]
          /\ \A b \in Attempts : ctl[b] # "none" => expires'[b] = expires[b]
      BY <1>0, <2>4, <3>1, <3>2, ZenonT(60) DEF SentAfterBegin
    <3> QED
      BY <1>0, <1>1, <2>1, <3>3, ServerDeadlines, StoreUntouched, Zenon DEF IInv, TypeOK
  <2> QED
    BY <1>0, <1>1, <2>2, <2>3, <2>4, ServerDeadlines, Zenon
<1>2. ASSUME NEW a \in Attempts, S!FetchFail(a) \/ \E b \in Attempts : S!FetchReturn(a, Doc(b))
      PROVE  UNCHANGED <<now, expires>> /\ \A b \in Attempts : S!Begun(b) => S!Begun(b)'
  BY <1>0, <1>2, Zenon DEF S!FetchReturn, S!FetchFail, S!Return, S!timing, S!Begun, IInv, TypeOK
<1>3. ASSUME NEW a \in Attempts, Fetch(a) PROVE P!IInv' /\ SentAfterBegin'
  <2>1. PICK h \in Pinned[Claim[a]], found \in BOOLEAN :
          /\ R!Public(h, a, found)
          /\ IF found THEN S!FetchReturn(a, Doc(a)) ELSE S!FetchFail(a)
    BY <1>3, ZenonT(60) DEF Fetch
  <2>2. UNCHANGED <<now, expires>> /\ \A b \in Attempts : S!Begun(b) => S!Begun(b)'
    BY <1>2, <2>1, Zenon
  <2>3. UNCHANGED <<ctl, del>> /\ SentAfterBegin'
    BY <1>0, <2>1, <2>2, PublicStep, Zenon DEF SentAfterBegin
  <2>4. CASE h = Claim[a]
    <3>1. P!Public(h, a, found) /\ h \in Hosts
      BY <2>1, <2>4, SameHandlers, NodeAttestAssumption, Zenon
    <3> QED
      BY <1>0, <2>2, <2>3, <3>1, ResponderKeeps, Zenon DEF P!Next, P!Handle
  <2>5. CASE h # Claim[a]
    BY <1>0, <2>1, <2>2, <2>3, <2>5, ResponderKeeps, Zenon DEF R!Public
  <2> QED
    BY <2>4, <2>5
<1>4. ASSUME NEW a \in Attempts, FetchStray(a) PROVE P!IInv' /\ SentAfterBegin'
  <2>1. UNCHANGED <<ctl, del, proofs, held, counts>>
    BY <1>4, Zenon DEF FetchStray, responder, store
  <2>2. UNCHANGED <<now, expires>> /\ \A b \in Attempts : S!Begun(b) => S!Begun(b)'
    BY <1>2, <1>4, Zenon DEF FetchStray
  <2> QED
    BY <1>0, <2>1, <2>2, ResponderKeeps, Zenon DEF SentAfterBegin
<1>5. ASSUME NEW a \in Attempts, Agent(a) PROVE P!IInv' /\ SentAfterBegin'
  <2>1. UNCHANGED <<now, expires, pc, proofs, held, counts>>
    BY <1>5, Zenon DEF Agent, server, store
  <2>2. \/ UNCHANGED ctl
        \/ S!Begun(a) /\ ctl' = [ctl EXCEPT ![a] = "sent"]
    BY <1>5, Zenon DEF Agent, A!Aid, A!Respond, A!PutReply, A!PutTimeout, A!SendReady,
                 A!SendReadyFail, A!Drop, A!StreamEnd, A!Close, A!Closed
  <2>3. SentAfterBegin'
    BY <1>0, <2>1, <2>2, Zenon DEF SentAfterBegin, S!Begun, IInv, TypeOK
  <2>4. /\ expires' \in [Attempts -> Int] /\ DOMAIN ctl' = Attempts /\ DOMAIN del' = Attempts
        /\ \A b \in Attempts : ctl'[b] = "parsed" => ctl[b] = "parsed"
        /\ \A b \in Attempts : ctl[b] # "none" => expires'[b] = expires[b]
    BY <1>0, <2>1, <2>2, Zenon DEF P!IInv, P!TypeOK, IInv, TypeOK
  <2> QED
    BY <1>0, <2>1, <2>3, <2>4, StoreUntouched, Zenon
<1>6. CASE Responder
  <2>1. UNCHANGED <<now, expires, pc>>
    BY <1>6, Zenon DEF Responder, server
  <2>2. P!Next
    BY <1>6, <2>1, SameHandlers, Zenon DEF Responder, P!Next, P!Handle
  <2>3. \A a \in Attempts : ctl[a] = "none" => ctl'[a] = "none"
    BY <1>0, <1>6, ZenonT(60) DEF Responder, R!PutParse, R!PutStore, R!DeleteProof, R!ControlLost,
                     R!Cleanup, R!Restart, IInv, TypeOK
  <2> QED
    BY <1>0, <2>1, <2>2, <2>3, ResponderKeeps, Zenon DEF SentAfterBegin, S!Begun
<1>7. CASE Tick
  <2>1. UNCHANGED <<ctl, del, proofs, held, counts, expires, pc>> /\ P!Tick
    BY <1>7, Zenon DEF Tick, S!Tick, S!session, responder, store, P!Tick, P!rvars
  <2> QED
    BY <1>0, <2>1, ResponderKeeps, Zenon DEF SentAfterBegin, S!Begun, P!Next
<1>8. CASE Configure \/ Finished \/ UNCHANGED vars
  <2>1. UNCHANGED <<ctl, del, proofs, held, counts, now, expires, pc>>
    BY <1>8, Zenon DEF Configure, Finished, S!Configure, S!session, vars, server,
                 responder, store
  <2> QED
    BY <1>0, <2>1, ResponderKeeps, Zenon DEF SentAfterBegin, S!Begun
<1> QED
  BY <1>1, <1>3, <1>4, <1>5, <1>6, <1>7, <1>8, Zenon DEF Next

\* Nothing is sent or stored at first.
LEMMA StoreStart == Init => StoreInv
<1> SUFFICES ASSUME Init PROVE StoreInv
  OBVIOUS
<1>1. /\ ctl = [a \in Attempts |-> "none"] /\ del = [a \in Attempts |-> "none"]
      /\ proofs = {} /\ held = [h \in Hosts |-> 0] /\ now = 0
      /\ counts = [h \in Hosts |-> [published |-> 0, deleted |-> 0, expired |-> 0]]
      /\ expires = [a \in Attempts |-> 0]
  BY Zenon DEF Init, S!Init, R!ResponderInit, R!NoCounts
<1>2. P!TypeOK
  BY <1>1 DEF P!TypeOK, P!CountsType
<1>3. P!Parsed /\ SentAfterBegin
  BY <1>1 DEF P!Parsed, SentAfterBegin
<1>4. \A h \in Hosts : P!Cardinality(P!Stored(h)) = 0
  <2>1. \A h \in Hosts : P!Stored(h) = {}
    BY <1>1, ZenonT(60) DEF P!Stored
  <2>2. P!Cardinality({}) = 0
    BY P!FS_EmptySet, ResponderConstants
  <2> QED
    BY <2>1, <2>2
<1>5. P!StoreAccounted
  <2> SUFFICES ASSUME NEW h \in Hosts
               PROVE  /\ held[h] = P!Cardinality(P!Stored(h))
                      /\ counts[h].published >=
                           held[h] + counts[h].deleted + counts[h].expired
    BY Zenon DEF P!StoreAccounted
  <2>1. held[h] = 0 /\ counts[h].published = 0 /\ counts[h].deleted = 0 /\ counts[h].expired = 0
    BY <1>1
  <2>2. 0 >= 0 + 0 + 0
    OBVIOUS
  <2> QED
    BY <1>4, <2>1, <2>2, Zenon
<1> QED
  BY <1>2, <1>3, <1>4, <1>5, Start, NodeAttestAssumption DEF StoreInv, P!IInv

\* The responders keep their promises in the composed system too, where PUT and DELETE
\* come from agents that time out and the deadline of a proof from the server's Begin:
\* gauge and counters agree with the store, which holds at most Slots proofs, all of
\* the responder's own FQDN and none beyond the challenge TTL on its own clock.
THEOREM RunsTheResponders == Spec => [](R!StoreAccounted /\ R!StoreBounded)
<1>1. ASSUME StoreInv PROVE R!StoreAccounted /\ R!StoreBounded
  <2>1. \A h : R!Stored(h) = P!Stored(h) /\ P!Stored(h) \subseteq proofs
    BY Zenon DEF R!Stored, P!Stored
  <2>2. R!StoreAccounted
    BY <1>1, <2>1, SameCount, Zenon DEF R!StoreAccounted, P!StoreAccounted, StoreInv, P!IInv
  <2>3. ASSUME NEW h \in Hosts PROVE R!Cardinality(R!Stored(h)) <= Slots
    BY <1>1, <2>1, SameCount, Zenon DEF StoreInv, P!IInv
  <2>4. ASSUME NEW h \in Hosts, NEW a \in R!Stored(h)
        PROVE  Claim[a] = h /\ expires[a] <= R!Seconds(R!Clock(h) + TTL * Hz)
    <3>1. a \in Attempts /\ a \in proofs /\ Host[a] = h
      BY <1>1, <2>4, ZenonT(60) DEF R!Stored, StoreInv, IInv, TypeOK
    <3> QED
      BY <1>1, <3>1, Zenon DEF StoreInv, P!IInv, P!Parsed, P!Fits, P!Seconds, P!Clock,
                         R!Seconds, R!Clock
  <2> QED
    BY <2>2, <2>3, <2>4, Zenon DEF R!StoreBounded
<1> QED
  BY <1>1, StoreStart, StoreStep, PTL DEF Spec
=============================================================================

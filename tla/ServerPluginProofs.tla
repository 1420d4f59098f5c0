------------------------- MODULE ServerPluginProofs -------------------------
(***************************************************************************)
(* Proofs about AttestServer, for any number of streams, nodes and           *)
(* generations and any values of the limits, and about the plugin around it,  *)
(* for any number of addresses and listeners.                              *)
(***************************************************************************)
EXTENDS ServerPlugin, FiniteSetTheorems, TLAPS

\* Arithmetic of deadlines: products and quotients of naturals are naturals.
LEMMA DeadlineArithmetic ==
    /\ \A x, y \in Nat : x * y \in Nat
    /\ \A x \in Nat : Unix(x) \in Nat
<1>1. \A x, y \in Nat : x * y \in Nat
  OBVIOUS
<1>2. \A x \in Nat : Unix(x) \in Nat
  BY AttestServerAssumption DEF Unix
<1> QED
  BY <1>1, <1>2

\* The handler, the AfterFunc goroutine, Configure and the clock keep every
\* variable within its type.
LEMMA TypeStep == TypeOK /\ [Next]_vars => TypeOK'
<1> SUFFICES ASSUME TypeOK, [Next]_vars PROVE TypeOK'
  OBVIOUS
<1> USE AttestServerAssumption
<1>1. CASE Configure
  BY <1>1 DEF Configure, TypeOK, session, slots, ledger
<1>2. CASE Tick
  BY <1>2 DEF Tick, TypeOK, session, slots, ledger
<1>3. CASE UNCHANGED vars
  BY <1>3 DEF vars, TypeOK
<1>4. ASSUME NEW a \in Attempts,
             CtxClose(a) \/ CloseRemove(a) \/ Cancel(a) \/ HandlerClose(a)
      PROVE TypeOK'
  BY <1>4 DEF CtxClose, CloseRemove, Cancel, HandlerClose, TypeOK, timing,
     session, slots, ledger, PCs
<1>5. ASSUME NEW a \in Attempts, HandlerStep(a) PROVE TypeOK'
  <2> USE DEF TypeOK, timing, session, slots, ledger, PCs, Return
  <2>1. CASE Attest(a)
    BY <2>1 DEF Attest
  <2>2. CASE RejectPayload(a) \/ BeginFull(a) \/ Receive(a) \/ ReceiveFail(a)
             \/ SendAttributes(a) \/ SessionConfirmed(a)
    BY <2>2, Zenon DEF RejectPayload, BeginFull, Receive, ReceiveFail, SendAttributes,
       SessionConfirmed
  <2>3. CASE Begin(a)
    <3>1. Unix(now + TTL * Hz) \in Nat
      BY DeadlineArithmetic
    <3> QED
      BY <2>3, <3>1 DEF Begin
  <2>4. ASSUME NEW readyOK \in BOOLEAN, VerifyStart(a, readyOK) PROVE TypeOK'
    <3>1. now + FetchBudget * Hz \in Nat
      BY DeadlineArithmetic
    <3> QED
      BY <2>4, <3>1 DEF VerifyStart
  <2>5. ASSUME NEW d \in Docs, FetchReturn(a, d) PROVE TypeOK'
    BY <2>5 DEF FetchReturn
  <2>6. CASE FetchFail(a) \/ SessionEnded(a)
    BY <2>6 DEF FetchFail, SessionEnded
  <2>7. CASE RateLimited(a) \/ Approve(a)
    <3>1. CASE RateLimited(a)
      BY <3>1 DEF RateLimited, Bucket, Kept
    <3>2. CASE Approve(a)
      BY <3>2, ZenonT(60) DEF Approve, Bucket, Kept
    <3> QED
      BY <2>7, <3>1, <3>2
  <2>8. CASE HandlerClose(a)
    BY <2>8, <1>4
  <2> QED
    BY <1>5, <2>1, <2>2, <2>3, <2>4, <2>5, <2>6, <2>7, <2>8, Zenon DEF HandlerStep
<1> QED
  BY <1>1, <1>2, <1>3, <1>4, <1>5 DEF Next, Finished

\* TypeOK holds in every reachable state.
THEOREM TypeCorrect == Spec => []TypeOK
<1>1. Init => TypeOK
  BY AttestServerAssumption DEF Init, TypeOK, PCs
<1> QED
  BY <1>1, TypeStep, PTL DEF Spec
-----------------------------------------------------------------------------
(***************************************************************************)
(* The inductive invariant.  SessionFacts ties the handler's position to the *)
(* sets an attempt is in; no Close comes while its quota is charged.         *)
(* LedgerFacts says why pruning recent loses nothing: *)
(* every approval of the last Window is still listed.                       *)
(***************************************************************************)
SessionFacts ==
    \A a \in Attempts :
        /\ a \in closed \cup active \cup approved => Begun(a)
        /\ Begun(a) /\ a \notin closed => a \in active
        /\ pc[a] \in {"await", "received", "fetching", "fetched", "charging"}
             => a \notin approved
        /\ pc[a] \in {"fetching", "fetched", "charging"} => a \in verified
        /\ pc[a] = "charging" => a \notin closed
        /\ pc[a] = "approved" => a \in approved
        /\ pc[a] = "recv" \/ Begun(a) => srv[a] \in 1..MaxGen

RecentOf(g, n) == {b \in recent : srv[b] = g /\ Claim[b] = n}

LedgerFacts ==
    /\ recent \subseteq approved
    /\ \A a \in approved :
        /\ approvedAt[a] <= now
        /\ approvedAt[a] > now - Window * Hz => a \in recent
    /\ \A g \in 0..MaxGen, n \in Nodes : Cardinality(RecentOf(g, n)) <= Quota

IInv == TypeOK /\ SessionFacts /\ LedgerFacts /\ QuotaHolds /\ PendingExact
            /\ CapacityHolds

\* Every step of the handler and of the closers keeps SessionFacts.
LEMMA SessionStep == TypeOK /\ SessionFacts /\ [Next]_vars => SessionFacts'
<1> SUFFICES ASSUME TypeOK, SessionFacts, [Next]_vars PROVE SessionFacts'
  OBVIOUS
<1> USE AttestServerAssumption
        DEF TypeOK, SessionFacts, Begun, timing, session, slots, ledger, PCs, Return
<1>1. CASE Configure \/ Tick
  BY <1>1 DEF Configure, Tick
<1>2. CASE UNCHANGED vars
  BY <1>2, ZenonT(60) DEF vars
<1>3. ASSUME NEW a \in Attempts, CtxClose(a) \/ CloseRemove(a) \/ Cancel(a)
      PROVE SessionFacts'
  BY <1>3, Zenon DEF CtxClose, CloseRemove, Cancel
<1>4. ASSUME NEW a \in Attempts, HandlerStep(a) PROVE SessionFacts'
  <2>1. CASE Attest(a)
    BY <2>1 DEF Attest
  <2>2. CASE RejectPayload(a) \/ BeginFull(a)
    BY <2>2, ZenonT(60) DEF RejectPayload, BeginFull
  <2>3. CASE Begin(a)
    BY <2>3, Zenon DEF Begin
  <2>4. CASE Receive(a) \/ ReceiveFail(a) \/ SendAttributes(a)
    <3>1. CASE Receive(a)
      BY <3>1, ZenonT(60) DEF Receive
    <3>2. CASE ReceiveFail(a)
      BY <3>2, ZenonT(60) DEF ReceiveFail
    <3>3. CASE SendAttributes(a)
      BY <3>3, ZenonT(60) DEF SendAttributes
    <3> QED
      BY <2>4, <3>1, <3>2, <3>3, Zenon
  <2>5. ASSUME NEW readyOK \in BOOLEAN, VerifyStart(a, readyOK)
        PROVE SessionFacts'
    BY <2>5, ZenonT(60) DEF VerifyStart
  <2>6. ASSUME NEW d \in Docs, FetchReturn(a, d) PROVE SessionFacts'
    BY <2>6, ZenonT(60) DEF FetchReturn
  <2>7. CASE FetchFail(a) \/ SessionEnded(a) \/ RateLimited(a)
    <3>1. CASE FetchFail(a)
      BY <3>1, ZenonT(60) DEF FetchFail
    <3>2. CASE SessionEnded(a)
      BY <3>2, ZenonT(60) DEF SessionEnded
    <3>3. CASE RateLimited(a)
      BY <3>3, ZenonT(60) DEF RateLimited
    <3> QED
      BY <2>7, <3>1, <3>2, <3>3, Zenon
  <2>8. CASE Approve(a)
    BY <2>8 DEF Approve
  <2>10. CASE SessionConfirmed(a)
    BY <2>10, ZenonT(60) DEF SessionConfirmed, SessionLive
  <2>9. CASE HandlerClose(a)
    BY <2>9 DEF HandlerClose
  <2> QED
    BY <1>4, <2>1, <2>2, <2>3, <2>4, <2>5, <2>6, <2>7, <2>8, <2>9, <2>10, Zenon
       DEF HandlerStep
<1> QED
  BY <1>1, <1>2, <1>3, <1>4, Zenon DEF Next, Finished

\* Subsets of the set of streams are finite, and counting is monotonic.
LEMMA CountSubset ==
    ASSUME NEW S \in SUBSET Attempts, NEW T \in SUBSET S
    PROVE  /\ IsFiniteSet(S) /\ IsFiniteSet(T)
           /\ Cardinality(S) \in Nat /\ Cardinality(T) \in Nat
           /\ Cardinality(T) <= Cardinality(S)
<1>1. IsFiniteSet(S)
  BY AttestServerAssumption, FS_Subset
<1>2. IsFiniteSet(T)
  BY <1>1, FS_Subset
<1>3. Cardinality(T) <= Cardinality(S)
  BY <1>1, FS_Subset
<1> QED
  BY <1>1, <1>2, <1>3, FS_CardinalityType

\* Adding a stream to a set of streams counts one more, unless it is there.
LEMMA CountAdd ==
    ASSUME NEW S \in SUBSET Attempts, NEW a \in Attempts
    PROVE  Cardinality(S \cup {a}) = IF a \in S THEN Cardinality(S)
                                                ELSE Cardinality(S) + 1
BY AttestServerAssumption, FS_Subset, FS_AddElement

\* Removing a stream from a set of streams counts one less, if it is there.
LEMMA CountRemove ==
    ASSUME NEW S \in SUBSET Attempts, NEW a \in Attempts
    PROVE  Cardinality(S \ {a}) = IF a \in S THEN Cardinality(S) - 1
                                             ELSE Cardinality(S)
BY AttestServerAssumption, FS_Subset, FS_RemoveElement

\* chargeSuccess, in the second critical section of Verify, keeps the ledger
\* and the quota; every other step leaves the ledger alone or only ages it.
LEMMA LedgerStep ==
    TypeOK /\ SessionFacts /\ LedgerFacts /\ QuotaHolds /\ [Next]_vars
        => LedgerFacts' /\ QuotaHolds'
<1> SUFFICES ASSUME TypeOK, SessionFacts, LedgerFacts, QuotaHolds, [Next]_vars
             PROVE  LedgerFacts' /\ QuotaHolds'
  OBVIOUS
<1>0. TypeOK'
  BY TypeStep
<1>w. PICK W \in Nat : W = Window * Hz
  BY DeadlineArithmetic, AttestServerAssumption
<1>k. /\ Quota \in Nat
      /\ \A S \in SUBSET Attempts : Cardinality(S) \in Nat
  BY CountSubset, AttestServerAssumption
<1>1. ASSUME UNCHANGED <<now, srv, recent, approved, approvedAt>>
      PROVE  LedgerFacts' /\ QuotaHolds'
  BY <1>1 DEF LedgerFacts, QuotaHolds, RecentOf, WindowOf
<1>2. CASE Tick
  <2>1. /\ now' = now + 1 /\ now \in Nat
        /\ UNCHANGED <<srv, recent, approved, approvedAt>>
    BY <1>2 DEF Tick, TypeOK, ledger, session
  <2>2. \A g \in 0..MaxGen, n \in Nodes : RecentOf(g, n)' = RecentOf(g, n)
    BY <2>1 DEF RecentOf
  <2>3. LedgerFacts'
    BY <1>w, <2>1, <2>2 DEF LedgerFacts, TypeOK
  <2> QED
    BY <2>1, <2>3, Zenon DEF QuotaHolds, WindowOf
<1>3. ASSUME NEW a \in Attempts, Attest(a) PROVE LedgerFacts' /\ QuotaHolds'
  <2>1. /\ a \notin approved
        /\ UNCHANGED <<now, recent, approved, approvedAt>>
        /\ \A b \in Attempts : b # a => srv'[b] = srv[b]
    BY <1>3 DEF Attest, SessionFacts, Begun, TypeOK, timing, ledger
  <2>2. \A g \in 0..MaxGen, n \in Nodes : RecentOf(g, n)' = RecentOf(g, n)
    BY <2>1, Zenon DEF RecentOf, LedgerFacts, TypeOK
  <2>3. \A b \in approved : WindowOf(b)' = WindowOf(b)
    BY <2>1, Zenon DEF WindowOf, TypeOK
  <2> QED
    BY <2>1, <2>2, <2>3 DEF LedgerFacts, QuotaHolds
<1>4. ASSUME NEW a \in Attempts, RateLimited(a) PROVE LedgerFacts' /\ QuotaHolds'
  <2>1. /\ recent' = (recent \ Bucket(a)) \cup Kept(a)
        /\ UNCHANGED <<now, srv, approved, approvedAt>>
    BY <1>4 DEF RateLimited, timing
  <2>2. recent' \subseteq recent
    BY <2>1, Zenon DEF Kept, Bucket
  <2>3. \A b \in approved : approvedAt[b] > now - Window * Hz => b \in recent'
    BY <2>1 DEF Kept, LedgerFacts
  <2>4. ASSUME NEW g \in 0..MaxGen, NEW n \in Nodes
        PROVE Cardinality(RecentOf(g, n)') <= Quota
    <3>1. RecentOf(g, n)' \subseteq RecentOf(g, n)
      BY <2>1, <2>2 DEF RecentOf
    <3>2. RecentOf(g, n) \in SUBSET Attempts
      BY DEF RecentOf, TypeOK
    <3>3. /\ Cardinality(RecentOf(g, n)') <= Cardinality(RecentOf(g, n))
          /\ Cardinality(RecentOf(g, n)') \in Nat
          /\ Cardinality(RecentOf(g, n)) \in Nat
      BY <3>1, <3>2, CountSubset
    <3>4. Cardinality(RecentOf(g, n)) <= Quota
      BY DEF LedgerFacts
    <3> QED
      BY <1>k, <3>3, <3>4
  <2>5. LedgerFacts'
    BY <2>1, <2>2, <2>3, <2>4 DEF LedgerFacts
  <2> QED
    BY <2>1, <2>5, Zenon DEF QuotaHolds, WindowOf
<1>5. ASSUME NEW a \in Attempts, Approve(a) PROVE LedgerFacts' /\ QuotaHolds'
  <2>1. /\ recent' = (recent \ Bucket(a)) \cup Kept(a) \cup {a}
        /\ approved' = approved \cup {a}
        /\ approvedAt' = [approvedAt EXCEPT ![a] = now]
        /\ UNCHANGED <<now, srv>>
        /\ Cardinality(Kept(a)) < Quota
        /\ a \notin approved
    BY <1>5, Zenon DEF Approve, timing, SessionFacts
  <2>2. Kept(a) \in SUBSET Attempts /\ a \notin Kept(a)
    BY <2>1, Zenon DEF Kept, Bucket, TypeOK, LedgerFacts
  <2>3. Cardinality(Kept(a) \cup {a}) <= Quota
    BY <1>k, <2>1, <2>2, CountAdd
  <2>4. ASSUME NEW S \in SUBSET (Kept(a) \cup {a}) PROVE Cardinality(S) <= Quota
    <3>1. Kept(a) \cup {a} \in SUBSET Attempts
      BY <2>2
    <3> QED
      BY <1>k, <2>3, <3>1, CountSubset
  <2>5. \A b \in approved' : /\ approvedAt'[b] <= now'
                             /\ approvedAt'[b] > now' - Window * Hz => b \in recent'
    BY <1>w, <2>1 DEF LedgerFacts, TypeOK, Kept
  <2>6. ASSUME NEW g \in 0..MaxGen, NEW n \in Nodes
        PROVE Cardinality(RecentOf(g, n)') <= Quota
    <3>1. CASE g = srv[a] /\ n = Claim[a]
      <4>1. RecentOf(g, n)' \subseteq Kept(a) \cup {a}
        BY <2>1, <3>1, Zenon DEF RecentOf, Bucket
      <4> QED
        BY <2>4, <4>1
    <3>2. CASE ~(g = srv[a] /\ n = Claim[a])
      <4>1. RecentOf(g, n)' = RecentOf(g, n)
        BY <2>1, <3>2, Zenon DEF RecentOf, Bucket, Kept
      <4> QED
        BY <4>1 DEF LedgerFacts
    <3> QED
      BY <3>1, <3>2
  <2>7. recent' \subseteq approved'
    BY <2>1, Zenon DEF LedgerFacts, Kept, Bucket
  <2>8. LedgerFacts'
    BY <2>5, <2>6, <2>7 DEF LedgerFacts
  <2>9. ASSUME NEW b \in approved' PROVE Cardinality(WindowOf(b)') <= Quota
    <3>1. CASE approvedAt'[b] = now /\ srv[b] = srv[a] /\ Claim[b] = Claim[a]
      <4>1. ASSUME NEW c \in WindowOf(b)', c # a PROVE c \in Kept(a)
        <5>1. /\ c \in approved /\ srv[c] = srv[a] /\ Claim[c] = Claim[a]
              /\ approvedAt[c] > now - Window * Hz
          BY <2>1, <3>1, <4>1, Zenon DEF WindowOf, TypeOK
        <5> QED
          BY <5>1, Zenon DEF Kept, Bucket, LedgerFacts
      <4> QED
        BY <2>4, <4>1
    <3>2. CASE ~(approvedAt'[b] = now /\ srv[b] = srv[a] /\ Claim[b] = Claim[a])
      <4>1. b \in approved /\ b # a
        BY <2>1, <3>2 DEF TypeOK
      <4>2. a \notin WindowOf(b)'
        <5>1. approvedAt'[b] = now => ~(srv[a] = srv[b] /\ Claim[a] = Claim[b])
          BY <3>2, Zenon
        <5>2. approvedAt'[b] \in Nat /\ approvedAt'[b] <= now /\ approvedAt'[a] = now
              /\ srv' = srv
          BY <2>1, <2>5, <4>1, Zenon DEF TypeOK, timing
        <5>3. now <= approvedAt'[b] => approvedAt'[b] = now
          BY <5>2 DEF TypeOK
        <5> QED
          BY <5>1, <5>2, <5>3, Zenon DEF WindowOf
      <4>3. WindowOf(b)' = WindowOf(b)
        BY <2>1, <4>1, <4>2, Zenon DEF WindowOf, TypeOK
      <4> QED
        BY <4>1, <4>3 DEF QuotaHolds
    <3> QED
      BY <3>1, <3>2
  <2> QED
    BY <2>8, <2>9 DEF QuotaHolds
<1>6. CASE Configure \/ UNCHANGED vars
  BY <1>1, <1>6 DEF Configure, vars, session, ledger
<1>7. ASSUME NEW a \in Attempts, CtxClose(a) \/ CloseRemove(a) \/ Cancel(a)
      PROVE  LedgerFacts' /\ QuotaHolds'
  BY <1>1, <1>7, Zenon DEF CtxClose, CloseRemove, Cancel, timing, session, ledger
<1>8. ASSUME NEW a \in Attempts, HandlerStep(a) PROVE LedgerFacts' /\ QuotaHolds'
  <2> USE <1>1 DEF timing, session, ledger
  <2>1. CASE RejectPayload(a) \/ BeginFull(a) \/ Begin(a) \/ Receive(a)
             \/ ReceiveFail(a) \/ SessionConfirmed(a) \/ SendAttributes(a) \/ HandlerClose(a)
    BY <2>1, Zenon DEF RejectPayload, BeginFull, Begin, Receive, ReceiveFail,
       SessionConfirmed, SendAttributes, HandlerClose
  <2>2. ASSUME NEW readyOK \in BOOLEAN, VerifyStart(a, readyOK)
        PROVE  LedgerFacts' /\ QuotaHolds'
    BY <2>2 DEF VerifyStart
  <2>3. ASSUME NEW d \in Docs, FetchReturn(a, d) PROVE LedgerFacts' /\ QuotaHolds'
    BY <2>3 DEF FetchReturn
  <2>4. CASE FetchFail(a) \/ SessionEnded(a)
    BY <2>4 DEF FetchFail, SessionEnded
  <2> QED
    BY <1>3, <1>4, <1>5, <1>8, <2>1, <2>2, <2>3, <2>4, Zenon DEF HandlerStep
<1> QED
  BY <1>2, <1>6, <1>7, <1>8 DEF Next, Finished

\* Begin and Close move the gauge, and nothing else does, by the one stream that
\* enters or leaves active.
LEMMA PendingStep ==
    TypeOK /\ SessionFacts /\ PendingExact /\ [Next]_vars => PendingExact'
<1> SUFFICES ASSUME TypeOK, SessionFacts, PendingExact, [Next]_vars
             PROVE  PendingExact'
  OBVIOUS
<1>1. ASSUME UNCHANGED slots PROVE PendingExact'
  BY <1>1 DEF slots, PendingExact
<1>2. ASSUME NEW a \in Attempts, Begin(a) PROVE PendingExact'
  <2>1. /\ a \notin active /\ active' = active \cup {a}
        /\ pending' = [pending EXCEPT ![Claim[a]] = @ + 1]
    BY <1>2, Zenon DEF Begin, SessionFacts, Begun
  <2>2. ASSUME NEW n \in Nodes
        PROVE  pending'[n] = Cardinality({b \in active' : Claim[b] = n})
    <3> DEFINE S == {b \in active : Claim[b] = n}
    <3>1. S \in SUBSET Attempts /\ a \notin S /\ pending[n] = Cardinality(S)
      BY <2>1 DEF TypeOK, PendingExact
    <3>2. CASE n = Claim[a]
      <4>1. {b \in active' : Claim[b] = n} = S \cup {a}
        BY <2>1, <3>2
      <4>2. Cardinality(S \cup {a}) = Cardinality(S) + 1
        BY <3>1, CountAdd, Zenon
      <4> QED
        BY <2>1, <3>1, <3>2, <4>1, <4>2, Zenon DEF TypeOK
    <3>3. CASE n # Claim[a]
      <4>1. {b \in active' : Claim[b] = n} = S
        BY <2>1, <3>3
      <4> QED
        BY <2>1, <3>1, <3>3, <4>1, Zenon DEF TypeOK
    <3> QED
      BY <3>2, <3>3, Zenon
  <2> QED
    BY <2>2 DEF PendingExact
<1>3. ASSUME NEW a \in Attempts, CloseRemove(a) PROVE PendingExact'
  <2>1. /\ a \in active /\ active' = active \ {a}
        /\ pending' = [pending EXCEPT ![Claim[a]] = @ - 1]
    BY <1>3 DEF CloseRemove
  <2>2. ASSUME NEW n \in Nodes
        PROVE  pending'[n] = Cardinality({b \in active' : Claim[b] = n})
    <3> DEFINE S == {b \in active : Claim[b] = n}
    <3>1. S \in SUBSET Attempts /\ pending[n] = Cardinality(S)
      BY DEF TypeOK, PendingExact
    <3>2. CASE n = Claim[a]
      <4>1. {b \in active' : Claim[b] = n} = S \ {a} /\ a \in S
        BY <2>1, <3>2
      <4>2. Cardinality(S \ {a}) = Cardinality(S) - 1
        BY <3>1, <4>1, CountRemove, Zenon
      <4> QED
        BY <2>1, <3>1, <3>2, <4>1, <4>2, Zenon DEF TypeOK
    <3>3. CASE n # Claim[a]
      <4>1. {b \in active' : Claim[b] = n} = S
        BY <2>1, <3>3
      <4> QED
        BY <2>1, <3>1, <3>3, <4>1, Zenon DEF TypeOK
    <3> QED
      BY <3>2, <3>3
  <2> QED
    BY <2>2 DEF PendingExact
<1>4. ASSUME NEW a \in Attempts, HandlerStep(a) PROVE PendingExact'
  <2>1. HandlerStep(a) /\ ~Begin(a) => UNCHANGED slots
    BY Zenon DEF HandlerStep, Attest, RejectPayload, BeginFull, Receive, ReceiveFail,
       VerifyStart, FetchReturn, FetchFail, SessionEnded, SessionConfirmed,
       RateLimited, Approve, SendAttributes, HandlerClose, slots
  <2> QED
    BY <1>1, <1>2, <1>4, <2>1
<1>5. ASSUME NEW a \in Attempts, CtxClose(a) \/ Cancel(a) PROVE PendingExact'
  BY <1>1, <1>5 DEF CtxClose, Cancel
<1>6. CASE Configure \/ Tick \/ UNCHANGED vars
  BY <1>1, <1>6, ZenonT(60) DEF Configure, Tick, vars, slots
<1> QED
  BY <1>3, <1>4, <1>5, <1>6 DEF Next, Finished

\* Begin checks the room that it then takes, and nothing else takes any.
LEMMA CapacityStep ==
    TypeOK /\ SessionFacts /\ CapacityHolds /\ [Next]_vars => CapacityHolds'
<1> SUFFICES ASSUME TypeOK, SessionFacts, CapacityHolds, [Next]_vars
             PROVE  CapacityHolds'
  OBVIOUS
<1>0. SessionFacts'
  BY SessionStep
<1> DEFINE Fits == \A g \in 1..MaxGen : Cardinality(ActiveOf(g)) <= Capacity
<1>k. Fits /\ Capacity \in Nat
  BY AttestServerAssumption DEF CapacityHolds
<1>1. ASSUME UNCHANGED <<srv, active>> PROVE Fits'
  BY <1>1, <1>k DEF ActiveOf
<1>2. ASSUME NEW a \in Attempts, Begin(a) PROVE Fits'
  <2>1. /\ active' = active \cup {a} /\ a \notin active /\ srv' = srv
        /\ Cardinality(ActiveOf(srv[a])) < Capacity
    BY <1>2, Zenon DEF Begin, SessionFacts, Begun
  <2>2. ASSUME NEW g \in 1..MaxGen PROVE Cardinality(ActiveOf(g)') <= Capacity
    <3>1. CASE g = srv[a]
      <4>1. ActiveOf(g)' = ActiveOf(g) \cup {a} /\ a \notin ActiveOf(g)
        BY <2>1, <3>1 DEF ActiveOf
      <4>2. ActiveOf(g) \in SUBSET Attempts
        BY DEF ActiveOf, TypeOK
      <4>3. /\ Cardinality(ActiveOf(g)') = Cardinality(ActiveOf(g)) + 1
            /\ Cardinality(ActiveOf(g)) \in Nat
        BY <4>1, <4>2, CountAdd, CountSubset
      <4> QED
        BY <1>k, <2>1, <3>1, <4>3
    <3>2. CASE g # srv[a]
      <4>1. ActiveOf(g)' = ActiveOf(g)
        BY <2>1, <3>2 DEF ActiveOf
      <4> QED
        BY <1>k, <4>1
    <3> QED
      BY <3>1, <3>2
  <2> QED
    BY <2>2
<1>3. ASSUME NEW a \in Attempts, CloseRemove(a) PROVE Fits'
  <2>1. active' = active \ {a} /\ srv' = srv
    BY <1>3 DEF CloseRemove, session
  <2>2. ASSUME NEW g \in 1..MaxGen PROVE Cardinality(ActiveOf(g)') <= Capacity
    <3>1. ActiveOf(g)' \in SUBSET ActiveOf(g) /\ ActiveOf(g) \in SUBSET Attempts
      BY <2>1 DEF ActiveOf, TypeOK
    <3>2. /\ Cardinality(ActiveOf(g)') <= Cardinality(ActiveOf(g))
          /\ Cardinality(ActiveOf(g)') \in Nat /\ Cardinality(ActiveOf(g)) \in Nat
      BY <3>1, CountSubset
    <3> QED
      BY <1>k, <3>2
  <2> QED
    BY <2>2
<1>4. ASSUME NEW a \in Attempts, Attest(a) PROVE Fits'
  <2>1. /\ a \notin active /\ active' = active
        /\ \A b \in Attempts : b # a => srv'[b] = srv[b]
    BY <1>4, Zenon DEF Attest, SessionFacts, Begun, TypeOK, slots
  <2>2. \A g \in 1..MaxGen : ActiveOf(g)' = ActiveOf(g)
    BY <2>1 DEF ActiveOf, TypeOK
  <2> QED
    BY <1>k, <2>2
<1>5. ASSUME NEW a \in Attempts, HandlerStep(a) PROVE Fits'
  <2>1. HandlerStep(a) /\ ~Begin(a) /\ ~Attest(a) => UNCHANGED <<srv, active>>
    BY Zenon DEF HandlerStep, RejectPayload, BeginFull, Receive, ReceiveFail,
       VerifyStart, FetchReturn, FetchFail, SessionEnded, SessionConfirmed,
       RateLimited, Approve, SendAttributes, HandlerClose, slots, session
  <2> QED
    BY <1>1, <1>2, <1>4, <1>5, <2>1
<1>6. ASSUME NEW a \in Attempts, CtxClose(a) \/ Cancel(a) PROVE Fits'
  BY <1>1, <1>6 DEF CtxClose, Cancel, slots, session
<1>7. ASSUME Configure \/ Tick \/ UNCHANGED vars PROVE Fits'
  BY <1>1, <1>7, Zenon DEF Configure, Tick, vars, slots, session
<1>8. Fits'
  BY <1>3, <1>5, <1>6, <1>7 DEF Next, Finished
<1> QED
  BY <1>0, <1>8, Zenon DEF CapacityHolds, SessionFacts
-----------------------------------------------------------------------------
\* IInv holds initially: no stream has begun and every count is of the empty set.
LEMMA InductiveInit == Init => IInv
<1> SUFFICES ASSUME Init PROVE IInv
  OBVIOUS
<1>1. TypeOK
  BY AttestServerAssumption DEF Init, TypeOK, PCs
<1>2. SessionFacts
  BY DEF Init, SessionFacts, Begun
<1>3. Cardinality({}) = 0
  BY FS_EmptySet
<1>4. LedgerFacts /\ QuotaHolds
  <2>1. \A g \in 0..MaxGen, n \in Nodes : RecentOf(g, n) = {}
    BY DEF Init, RecentOf
  <2>2. approved = {} /\ recent = {}
    BY DEF Init
  <2>3. 0 <= Quota
    BY AttestServerAssumption
  <2>4. LedgerFacts
    BY <1>3, <2>1, <2>2, <2>3, Zenon DEF LedgerFacts
  <2> QED
    BY <2>2, <2>4, Zenon DEF QuotaHolds
<1>5. PendingExact
  <2>1. \A n \in Nodes : {a \in active : Claim[a] = n} = {}
    BY DEF Init
  <2> QED
    BY <1>3, <2>1 DEF Init, PendingExact
<1>6. CapacityHolds
  <2>1. \A g \in 1..MaxGen : ActiveOf(g) = {}
    BY DEF Init, ActiveOf
  <2>2. 0 <= Capacity
    BY AttestServerAssumption
  <2> QED
    BY <1>2, <1>3, <2>1, <2>2, Zenon DEF CapacityHolds, SessionFacts
<1> QED
  BY <1>1, <1>2, <1>4, <1>5, <1>6 DEF IInv

\* IInv is inductive.
THEOREM Inductive == Spec => []IInv
<1>1. IInv /\ [Next]_vars => IInv'
  BY TypeStep, SessionStep, LedgerStep, PendingStep, CapacityStep DEF IInv
<1> QED
  BY <1>1, InductiveInit, PTL DEF Spec

\* chargeSuccess: whatever the interleaving of handlers, closers and
\* reconfigurations, no Server exceeds the quota of a node in any window.
THEOREM QuotaCorrect == Spec => []QuotaHolds
<1>1. IInv => QuotaHolds
  BY DEF IInv
<1> QED
  BY <1>1, Inductive, PTL

\* Begin and Close: the pending gauge is exact although Close has two callers
\* and two critical sections.
THEOREM PendingCorrect == Spec => []PendingExact
<1>1. IInv => PendingExact
  BY DEF IInv
<1> QED
  BY <1>1, Inductive, PTL

\* Begin: a Server never holds more than Capacity sessions, and a session that
\* can still be approved holds a slot.
THEOREM CapacityCorrect == Spec => []CapacityHolds
<1>1. IInv => CapacityHolds
  BY DEF IInv
<1> QED
  BY <1>1, Inductive, PTL

\* Verify: the quota is charged only for a session found live after the fetch, and
\* the approval finds it still reserved and not closed.
THEOREM ApprovalCorrect == Spec => ApprovalInSession
<1> DEFINE Approved(a) == pc[a] = "charging" /\ a \in (active \cap verified) \ closed
           Charged(a) == /\ a \in active \ (closed \cup cancelled)
                         /\ now < expires[a] * Hz /\ now < fetchBy[a]
<1>1. ASSUME IInv, [Next]_vars, NEW a \in approved' \ approved PROVE Approved(a)
  <2>1. a \in Attempts /\ Approve(a)
    BY <1>1, ZenonT(60) DEF IInv, Next, HandlerStep, Configure, Attest, RejectPayload,
       BeginFull, Begin, Receive, ReceiveFail, VerifyStart, FetchReturn, FetchFail,
       SessionEnded, SessionConfirmed, RateLimited, Approve, SendAttributes, HandlerClose,
       CtxClose, CloseRemove, Cancel, Tick, Finished, vars, ledger, TypeOK
  <2>2. pc[a] = "charging"
    BY <2>1, Zenon DEF Approve
  <2>3. a \in active /\ a \in verified /\ a \notin closed
    BY <1>1, <2>1, <2>2, Zenon DEF IInv, SessionFacts, Begun
  <2> QED
    BY <2>2, <2>3
<1>2. ASSUME IInv, [Next]_vars, NEW a \in Attempts, pc[a] # "charging", pc'[a] = "charging"
      PROVE  Charged(a)
  <2>1. SessionConfirmed(a)
    <3>1. pc \in [Attempts -> PCs]
      BY <1>2 DEF IInv, TypeOK
    <3>2. ASSUME NEW b \in Attempts, HandlerStep(b) PROVE SessionConfirmed(a)
      BY <1>2, <3>1, <3>2, ZenonT(60) DEF HandlerStep, Attest, RejectPayload, BeginFull, Begin,
         Receive, ReceiveFail, VerifyStart, FetchReturn, FetchFail, SessionEnded,
         SessionConfirmed, RateLimited, Approve, SendAttributes, HandlerClose, Return
    <3>3. (\E b \in Attempts : HandlerStep(b)) \/ UNCHANGED pc
      BY <1>2, Zenon DEF Next, Configure, CtxClose, CloseRemove, Cancel, Tick, Finished, vars
    <3> QED
      BY <1>2, <3>2, <3>3
  <2>2. /\ pc[a] = "fetched" /\ a \notin closed /\ a \notin cancelled
        /\ ~(now >= expires[a] * Hz) /\ ~(now >= fetchBy[a])
    BY <2>1, Zenon DEF SessionConfirmed, SessionLive, FetchCtxDone, CtxDone
  <2>3. /\ now \in Nat /\ expires[a] * Hz \in Nat /\ fetchBy[a] \in Nat
    BY <1>2, DeadlineArithmetic, AttestServerAssumption DEF IInv, TypeOK
  <2>4. a \in active
    BY <1>2, <2>2, Zenon DEF IInv, SessionFacts, Begun
  <2> QED
    BY <2>2, <2>3, <2>4
<1>3. IInv /\ [Next]_vars =>
        [\A a \in Attempts :
            /\ a \in approved' \ approved => Approved(a)
            /\ pc[a] # "charging" /\ pc'[a] = "charging" => Charged(a)]_vars
  BY <1>1, <1>2, Zenon
<1> QED
  BY <1>3, Inductive, PTL DEF Spec, ApprovalInSession
-----------------------------------------------------------------------------
(***************************************************************************)
(* Refinement.  Begin opens a session of the ledger, SessionConfirmed admits *)
(* it and Approve grants it; the first Close of an unapproved session, or its *)
(* handler when it gives up, ends it; Tick is Pass; and all other steps leave *)
(* the ledger unchanged.                                                   *)
(***************************************************************************)
\* Every step of the server is a step of the ledger or leaves it unchanged.
LEMMA LedgerSimulation == IInv /\ [Next]_vars => [Ledger!LedgerNext]_(Ledger!lvars)
<1> SUFFICES ASSUME IInv, [Next]_vars PROVE [Ledger!LedgerNext]_(Ledger!lvars)
  OBVIOUS
<1>0. TypeOK /\ SessionFacts /\ LedgerFacts /\ TypeOK'
  BY TypeStep DEF IInv
<1>1. ASSUME /\ UNCHANGED <<now, srv, expires, approved, approvedAt>>
             /\ \A a \in Attempts : Begun(a)' = Begun(a) /\ Status(a)' = Status(a)
      PROVE  UNCHANGED Ledger!lvars
  BY <1>1, Zenon DEF Ledger!lvars, Status
<1>2. CASE Tick
  <2>1. /\ now' = now + 1
        /\ UNCHANGED <<pc, srv, expires, closed, approved, approvedAt>>
    BY <1>2 DEF Tick, session, ledger
  <2>2. Ledger!Pass
    BY <2>1, Zenon DEF Ledger!Pass, Begun, Status
  <2> QED
    BY <2>2 DEF Ledger!LedgerNext
<1>3. ASSUME NEW a \in Attempts, Begin(a) PROVE Ledger!Open(a)
  <2>1. /\ expires' = [expires EXCEPT ![a] = expires'[a]]
        /\ pc[a] = "recv" /\ pc' = [pc EXCEPT ![a] = "await"]
        /\ UNCHANGED <<now, srv, closed, approved, approvedAt>>
    BY <1>0, <1>3, Zenon DEF Begin, timing, ledger, TypeOK
  <2>2. a \notin approved /\ a \notin closed /\ srv[a] \in 1..MaxGen
    BY <1>0, <2>1 DEF SessionFacts, Begun
  <2>3. ~Begun(a) /\ Begun(a)'
    BY <1>0, <2>1, Zenon DEF Begun, TypeOK
  <2>4. \A b \in Attempts : b # a => Begun(b)' = Begun(b)
    BY <1>0, <2>1, Zenon DEF Begun, TypeOK
  <2>5. expires'[a] * Hz \in Nat
    BY <1>0, DeadlineArithmetic, AttestServerAssumption, Zenon DEF TypeOK
  <2>6. [b \in Attempts |-> IF Begun(b) THEN srv[b] ELSE 0]'
          = [[b \in Attempts |-> IF Begun(b) THEN srv[b] ELSE 0] EXCEPT ![a] = srv[a]]
    BY <2>1, <2>3, <2>4, Zenon
  <2>7. [b \in Attempts |-> expires[b] * Hz]'
          = [[b \in Attempts |-> expires[b] * Hz] EXCEPT ![a] = expires'[a] * Hz]
    BY <1>0, <2>1, Zenon DEF TypeOK
  <2>10. pc'[a] = "await" /\ \A b \in Attempts : b # a => pc'[b] = pc[b]
    BY <1>0, <2>1, Zenon DEF TypeOK
  <2>8. [b \in Attempts |-> Status(b)]'
          = [[b \in Attempts |-> Status(b)] EXCEPT ![a] = "open"]
    BY <2>1, <2>2, <2>3, <2>4, <2>10, Zenon DEF Status
  <2>9. Status(a) = "new"
    BY <2>2, <2>3 DEF Status
  <2> QED
    BY <2>1, <2>2, <2>5, <2>6, <2>7, <2>8, <2>9, Zenon DEF Ledger!Open, Status
<1>4. ASSUME NEW a \in Attempts, Approve(a) PROVE Ledger!Grant(a)
  <2>1. /\ pc[a] = "charging"
        /\ Cardinality(Kept(a)) < Quota
        /\ approved' = approved \cup {a}
        /\ approvedAt' = [approvedAt EXCEPT ![a] = now]
        /\ pc' = [pc EXCEPT ![a] = "approved"]
        /\ UNCHANGED <<now, srv, expires, closed>>
    BY <1>4, Zenon DEF Approve, Return, timing
  <2>2. a \notin approved /\ Begun(a) /\ \A b \in approved : Begun(b)
    BY <1>0, <2>1, Zenon DEF SessionFacts, Begun, TypeOK
  <2>3. \A b \in Attempts : Begun(b)' = Begun(b)
    BY <1>0, <2>1, Zenon DEF Begun, TypeOK
  <2>4. \A b \in Attempts : b # a => pc'[b] = pc[b]
    BY <1>0, <2>1, Zenon DEF TypeOK
  <2>5. Ledger!GrantedLately(a) = Kept(a)
    BY <1>0, <2>2, Zenon DEF Ledger!GrantedLately, Status, Kept, Bucket, LedgerFacts, TypeOK
  <2>6. Ledger!Cardinality(Kept(a)) = Cardinality(Kept(a))
    BY Zenon DEF Ledger!Cardinality, Cardinality
  <2>7. Status(a) = "admitted"
    BY <2>1, <2>2, Zenon DEF Status
  <2>8. [b \in Attempts |-> Status(b)]'
          = [[b \in Attempts |-> Status(b)] EXCEPT ![a] = "granted"]
    BY <2>1, <2>3, <2>4, Zenon DEF Status
  <2> QED
    BY <2>1, <2>3, <2>5, <2>6, <2>7, <2>8, Zenon DEF Ledger!Grant
<1>6. ASSUME NEW a \in Attempts, Attest(a) PROVE UNCHANGED Ledger!lvars
  <2>1. /\ \A b \in Attempts : Begun(b)' = Begun(b)
        /\ \A b \in Attempts : Begun(b) => srv'[b] = srv[b]
        /\ \A b \in Attempts : Begun(b) => pc'[b] = pc[b]
        /\ UNCHANGED <<now, expires, closed, approved, approvedAt>>
    BY <1>0, <1>6, Zenon DEF Attest, Begun, TypeOK, timing, ledger
  <2>2. \A b \in Attempts : Status(b)' = Status(b)
    BY <2>1, Zenon DEF Status
  <2> QED
    BY <2>1, <2>2, Zenon DEF Ledger!lvars
<1>5. ASSUME UNCHANGED <<now, srv, expires, approved, approvedAt>>,
             \A b \in Attempts : Begun(b)' = Begun(b),
             NEW a \in Attempts, \A b \in Attempts : b # a => Status(b)' = Status(b)
      PROVE  /\ Status(a)' = Status(a) => UNCHANGED Ledger!lvars
             /\ Status(a) \in {"open", "admitted"} /\ Status(a)' = "over" => Ledger!End(a)
  <2>1. Status(a)' = Status(a) => UNCHANGED Ledger!lvars
    BY <1>1, <1>5, Zenon
  <2>2. ASSUME Status(a) \in {"open", "admitted"}, Status(a)' = "over" PROVE Ledger!End(a)
    <3>1. [b \in Attempts |-> Status(b)]'
            = [[b \in Attempts |-> Status(b)] EXCEPT ![a] = "over"]
      BY <1>5, <2>2, Zenon
    <3> QED
      BY <1>5, <2>2, <3>1, Zenon DEF Ledger!End
  <2> QED
    BY <2>1, <2>2
<1>7. ASSUME UNCHANGED <<now, srv, expires, closed, approved, approvedAt>>,
             UNCHANGED pc
      PROVE  UNCHANGED Ledger!lvars
  BY <1>7, Zenon DEF Ledger!lvars, Status, Begun
<1>8. ASSUME NEW a \in Attempts, NEW to \in PCs, pc' = [pc EXCEPT ![a] = to],
             UNCHANGED <<now, srv, expires, closed, approved, approvedAt>>
      PROVE  /\ Begun(a)' = Begun(a) /\ Status(a)' = Status(a) => UNCHANGED Ledger!lvars
             /\ /\ pc[a] \in {"await", "received", "fetching", "fetched", "charging"}
                /\ to = "exit"
                => Ledger!End(a) \/ UNCHANGED Ledger!lvars
  <2>1. pc'[a] = to /\ \A b \in Attempts : b # a => pc'[b] = pc[b]
    BY <1>0, <1>8, Zenon DEF TypeOK
  <2>2. \A b \in Attempts : b # a => Begun(b)' = Begun(b) /\ Status(b)' = Status(b)
    BY <1>8, <2>1, Zenon DEF Begun, Status
  <2>3. ASSUME Begun(a)' = Begun(a), Status(a)' = Status(a) PROVE UNCHANGED Ledger!lvars
    BY <1>5, <1>8, <2>2, <2>3, Zenon
  <2>4. ASSUME pc[a] \in {"await", "received", "fetching", "fetched", "charging"}, to = "exit"
        PROVE  Ledger!End(a) \/ UNCHANGED Ledger!lvars
    <3>1. Begun(a) /\ Begun(a)' /\ a \notin approved
      BY <1>0, <2>1, <2>4, Zenon DEF Begun, SessionFacts
    <3>2. Status(a)' = "over"
      BY <1>8, <2>1, <2>4, <3>1, Zenon DEF Status
    <3>3. Status(a) \in {"open", "admitted", "over"}
      BY <3>1, Zenon DEF Status
    <3>4. \A b \in Attempts : Begun(b)' = Begun(b)
      <4>1. Begun(a)' = Begun(a)
        BY <2>1, <2>4, Zenon DEF Begun
      <4> QED
        BY <2>2, <4>1, Zenon
    <3> QED
      BY <1>5, <1>8, <2>2, <3>2, <3>3, <3>4, Zenon
  <2> QED
    BY <2>3, <2>4
<1>9. ASSUME NEW a \in Attempts, HandlerClose(a) \/ CtxClose(a)
      PROVE  Ledger!End(a) \/ UNCHANGED Ledger!lvars
  <2>1. /\ closed' = closed \cup {a} /\ Begun(a) /\ pc[a] # "charging"
        /\ UNCHANGED <<now, srv, expires, approved, approvedAt>>
    BY <1>9, Zenon DEF HandlerClose, CtxClose, Begun, timing, session, ledger
  <2>2. /\ pc'[a] = pc[a] \/ (pc[a] = "exit" /\ pc'[a] = "done")
        /\ \A b \in Attempts : b # a => pc'[b] = pc[b]
    BY <1>0, <1>9, Zenon DEF HandlerClose, CtxClose, TypeOK
  <2>3. /\ Begun(a)'
        /\ \A b \in Attempts : Begun(b)' = Begun(b)
        /\ \A b \in Attempts : b # a => Status(b)' = Status(b)
    <3>1. Begun(a)' = Begun(a)
      BY <2>2, Zenon DEF Begun
    <3>2. \A b \in Attempts : b # a => Begun(b)' = Begun(b) /\ Status(b)' = Status(b)
      BY <2>1, <2>2, Zenon DEF Begun, Status
    <3> QED
      BY <2>1, <3>1, <3>2, Zenon
  <2>4. CASE a \in approved
    <3>1. Status(a)' = Status(a)
      BY <2>1, <2>4, Zenon DEF Status
    <3> QED
      BY <1>5, <2>1, <2>3, <3>1, Zenon
  <2>5. CASE a \notin approved
    <3>1. Status(a)' = "over" /\ Status(a) \in {"open", "over"}
      BY <2>1, <2>2, <2>3, <2>5, Zenon DEF Status
    <3> QED
      BY <1>5, <2>1, <2>3, <3>1, Zenon
  <2> QED
    BY <2>4, <2>5
<1>10. ASSUME NEW a \in Attempts, SessionConfirmed(a) PROVE Ledger!Admit(a)
  <2>1. /\ pc[a] = "fetched" /\ SessionLive(a) /\ pc' = [pc EXCEPT ![a] = "charging"]
        /\ UNCHANGED <<now, srv, expires, closed, approved, approvedAt>>
    BY <1>10, Zenon DEF SessionConfirmed, timing, session, ledger
  <2>2. a \notin approved /\ a \notin closed /\ Begun(a)
    BY <1>0, <2>1, Zenon DEF SessionFacts, Begun, SessionLive
  <2>3. pc'[a] = "charging" /\ \A b \in Attempts : b # a => pc'[b] = pc[b]
    BY <1>0, <2>1, Zenon DEF TypeOK
  <2>4. \A b \in Attempts : Begun(b)' = Begun(b)
    BY <2>1, <2>3, Zenon DEF Begun
  <2>5. now < expires[a] * Hz
    <3>1. ~(now >= expires[a] * Hz)
      BY <2>1, Zenon DEF SessionLive, FetchCtxDone, CtxDone
    <3>2. now \in Nat /\ expires[a] * Hz \in Nat
      BY <1>0, DeadlineArithmetic, AttestServerAssumption, Zenon DEF TypeOK
    <3> QED
      BY <3>1, <3>2
  <2>6. Status(a) = "open"
    BY <2>1, <2>2, Zenon DEF Status
  <2>7. [b \in Attempts |-> Status(b)]'
          = [[b \in Attempts |-> Status(b)] EXCEPT ![a] = "admitted"]
    BY <2>1, <2>2, <2>3, <2>4, Zenon DEF Status
  <2> QED
    BY <2>1, <2>4, <2>5, <2>6, <2>7, Zenon DEF Ledger!Admit
<1>11. ASSUME NEW a \in Attempts, HandlerStep(a)
      PROVE  [Ledger!LedgerNext]_(Ledger!lvars)
  <2> USE DEF timing, session, ledger
  <2>p. {"rejected", "received", "fetching", "fetched", "exit"} \subseteq PCs
    BY DEF PCs
  <2>1. CASE RejectPayload(a) \/ BeginFull(a)
    <3>1. pc[a] = "recv" /\ pc' = [pc EXCEPT ![a] = "rejected"]
          /\ UNCHANGED <<now, srv, expires, closed, approved, approvedAt>>
      BY <2>1, Zenon DEF RejectPayload, BeginFull
    <3>2. pc'[a] = "rejected"
      BY <1>0, <3>1, Zenon DEF TypeOK
    <3>3. Begun(a)' = Begun(a) /\ Status(a)' = Status(a)
      BY <3>1, <3>2, Zenon DEF Begun, Status
    <3> QED
      BY <1>8, <2>p, <3>1, <3>3, Zenon
  <2>2. ASSUME NEW to \in {"received", "fetching", "fetched"}, pc' = [pc EXCEPT ![a] = to],
               pc[a] \in {"await", "received", "fetching"},
               UNCHANGED <<now, srv, expires, closed, approved, approvedAt>>
        PROVE  UNCHANGED Ledger!lvars
    <3>1. pc'[a] = to
      BY <1>0, <2>2, Zenon DEF TypeOK
    <3>2. Begun(a)' = Begun(a) /\ Status(a)' = Status(a)
      BY <2>2, <3>1, Zenon DEF Begun, Status
    <3> QED
      BY <1>8, <2>p, <2>2, <3>2, Zenon
  <2>3. CASE SendAttributes(a)
    <3>1. /\ pc[a] = "approved" /\ pc' = [pc EXCEPT ![a] = "exit"]
          /\ UNCHANGED <<now, srv, expires, closed, approved, approvedAt>>
      BY <2>3, Zenon DEF SendAttributes
    <3>2. a \in approved /\ pc'[a] = "exit"
      BY <1>0, <3>1, Zenon DEF SessionFacts, TypeOK
    <3>3. Begun(a)' = Begun(a) /\ Status(a)' = Status(a)
      BY <3>1, <3>2, Zenon DEF Begun, Status
    <3> QED
      BY <1>8, <2>p, <3>1, <3>3, Zenon
  <2>4. ASSUME NEW readyOK \in BOOLEAN, VerifyStart(a, readyOK)
        PROVE  Ledger!End(a) \/ UNCHANGED Ledger!lvars
    BY <1>8, <2>p, <2>2, <2>4, ZenonT(60) DEF VerifyStart
  <2>5. ASSUME NEW d \in Docs, FetchReturn(a, d)
        PROVE  Ledger!End(a) \/ UNCHANGED Ledger!lvars
    BY <1>8, <2>p, <2>2, <2>5, ZenonT(60) DEF FetchReturn, Return
  <2>6. CASE Receive(a)
    BY <2>2, <2>6, Zenon DEF Receive
  <2>7. CASE ReceiveFail(a) \/ FetchFail(a) \/ SessionEnded(a) \/ RateLimited(a)
    BY <1>8, <2>p, <2>7, ZenonT(60) DEF ReceiveFail, FetchFail, SessionEnded, RateLimited, Return,
       Ledger!LedgerNext
  <2> QED
    BY <1>3, <1>4, <1>6, <1>9, <1>10, <1>11, <2>1, <2>3, <2>4, <2>5, <2>6, <2>7, Zenon
       DEF HandlerStep, Ledger!LedgerNext
<1>12. ASSUME NEW a \in Attempts, CloseRemove(a) \/ Cancel(a)
      PROVE  UNCHANGED Ledger!lvars
  BY <1>7, <1>12, Zenon DEF CloseRemove, Cancel, timing, session, ledger
<1>13. CASE Configure \/ UNCHANGED vars
  BY <1>7, <1>13, Zenon DEF Configure, vars, session, ledger
<1> QED
  BY <1>2, <1>9, <1>11, <1>12, <1>13 DEF Next, Finished, Ledger!LedgerNext

\* The server implements the safety part of the ledger it promises to SPIRE.
THEOREM LedgerRefined == Spec => Ledger!Safe
<1>1. Init => Ledger!LedgerInit
  BY AttestServerAssumption DEF Init, Ledger!LedgerInit, Status, Begun
<1> QED
  BY <1>1, Inductive, LedgerSimulation, PTL DEF Spec, Ledger!Safe

-----------------------------------------------------------------------------
(***************************************************************************)
(* The plugin.  Its steps are steps of the server, so what is proved of the   *)
(* streams holds of them in the plugin, however Configure is refused or       *)
(* races with them.                                                        *)
(***************************************************************************)

\* ServerPlugin.Configure installs a fresh Server or changes nothing of it; Close
\* and the metrics listener do not touch it.
LEMMA PluginServes == PluginSafe => Spec
<1>1. PluginInit => Init
  BY DEF PluginInit
<1>2. [PluginNext]_pluginvars => [Next]_vars
  BY Zenon DEF PluginNext, PluginConfigure, PluginClose, StreamStep, ListenerStep, InListener,
     Next, pluginvars
<1> QED
  BY <1>1, <1>2, PTL DEF PluginSafe, Spec

\* What the plugin keeps of its listener: a listener is unused until it is bound, the
\* one that is current is open unless its Serve gave up, no other is open, and the
\* address on record is that of the configuration until Close.
ListenerType ==
    /\ socket \in [Listeners -> {"none", "open", "closed"}]
    /\ boundTo \in [Listeners -> Addresses \cup {Unset}]
    /\ serve \in [Listeners -> {"none", "spawned", "loop", "accept", "accepted", "over"}]
    /\ permits \in [Listeners -> Int] /\ conns \in [Listeners -> Nat]
    /\ current \in Listeners \cup {0}

ListenerBound ==
    /\ \A i \in Listeners : serve[i] = "none" => socket[i] = "none"
    /\ \A i \in Listeners : socket[i] = "open" => i = current /\ boundTo[i] = address
    /\ current # 0 => socket[current] = "open" \/ serve[current] = "over"
    /\ current = 0 <=> address = Unset
    /\ address = IF quit THEN Unset ELSE configured

PluginInv == ListenerType /\ ListenerBound /\ PermitsExact

\* server.Close ends the connections it knows and returns their permits.
LEMMA CloseKeeps ==
    ASSUME ListenerType, PermitsExact, NEW j \in Listeners, Closing(j)
    PROVE  /\ permits' \in [Listeners -> Int] /\ conns' \in [Listeners -> Nat]
           /\ \A i \in Listeners : i # j => permits'[i] = permits[i] /\ conns'[i] = conns[i]
           /\ conns'[j] = 0
           /\ permits'[j] = IF serve[j] \in {"accept", "accepted"} THEN 1 ELSE 0
<1>1. permits' = [permits EXCEPT ![j] = permits[j] - conns[j]]
      /\ conns' = [conns EXCEPT ![j] = 0]
  BY DEF Closing
<1>2. /\ permits \in [Listeners -> Int] /\ conns \in [Listeners -> Nat]
      /\ permits[j] = conns[j] + (IF serve[j] \in {"accept", "accepted"} THEN 1 ELSE 0)
  BY DEF ListenerType, PermitsExact
<1>3. permits[j] - conns[j] = IF serve[j] \in {"accept", "accepted"} THEN 1 ELSE 0
  BY <1>2
<1> QED
  BY <1>1, <1>2, <1>3

\* metricsListener.close: everything about the closed listener is put back.
LEMMA CloseStep ==
    ASSUME ListenerType, ListenerBound, PermitsExact, CloseListener
    PROVE  /\ ListenerType' /\ PermitsExact'
           /\ address' = Unset /\ current' = 0
           /\ \A i \in Listeners : socket'[i] # "open" /\ serve'[i] = serve[i]
           /\ \A i \in Listeners : serve[i] = "none" => socket'[i] = "none"
<1>1. CASE current = 0
  BY <1>1, MetricsListenerAssumption, Zenon
     DEF CloseListener, listenervars, ListenerType, ListenerBound, PermitsExact
<1>2. CASE current # 0
  <2>1. /\ current \in Listeners /\ Closing(current)
        /\ socket' = [socket EXCEPT ![current] = "closed"]
        /\ address' = Unset /\ current' = 0 /\ UNCHANGED <<boundTo, serve>>
    BY <1>2 DEF CloseListener, ListenerType
  <2>2. /\ permits' \in [Listeners -> Int] /\ conns' \in [Listeners -> Nat]
        /\ \A i \in Listeners : i # current => permits'[i] = permits[i] /\ conns'[i] = conns[i]
        /\ conns'[current] = 0
        /\ permits'[current] = IF serve[current] \in {"accept", "accepted"} THEN 1 ELSE 0
    BY <2>1, CloseKeeps, Zenon
  <2>3. ListenerType'
    BY <2>1, <2>2, Zenon DEF ListenerType
  <2>4. PermitsExact'
    BY <2>1, <2>2, MetricsListenerAssumption DEF PermitsExact
  <2>5. serve[current] # "none"
    BY <1>2, <2>1 DEF ListenerBound
  <2> QED
    BY <2>1, <2>3, <2>4, <2>5, Zenon DEF ListenerBound, ListenerType
<1> QED
  BY <1>1, <1>2, Zenon

\* configure binds the new address before the old listener is closed, or changes
\* nothing.
LEMMA ConfigureStep ==
    ASSUME PluginInv, NEW a \in Addresses \cup {Unset}, PluginConfigure(a)
    PROVE  PluginInv'
<1> USE DEF PluginInv
<1>0. ~quit /\ quit' = quit /\ address = configured
  BY DEF PluginConfigure, ListenerBound
<1>1. ASSUME UNCHANGED listenervars, configured' = configured PROVE PluginInv'
  BY <1>0, <1>1, Zenon DEF listenervars, ListenerType, ListenerBound, PermitsExact
<1>2. ASSUME a = address, UNCHANGED listenervars, configured' = a PROVE PluginInv'
  BY <1>0, <1>2, Zenon DEF listenervars, ListenerType, ListenerBound, PermitsExact
<1>3. ASSUME a = Unset, CloseListener, configured' = a PROVE PluginInv'
  BY <1>0, <1>3, CloseStep, Zenon DEF ListenerBound
<1>4. ASSUME a # address, a # Unset, NEW i \in Fresh, configured' = a,
             IF current = 0 THEN UNCHANGED <<stopped, shutdown, permits, conns>>
             ELSE Closing(current),
             socket' = [j \in Listeners |-> IF j = i THEN "open"
                                            ELSE IF j = current THEN "closed" ELSE socket[j]],
             boundTo' = [boundTo EXCEPT ![i] = a],
             serve' = [serve EXCEPT ![i] = "spawned"],
             address' = a, current' = i
      PROVE  PluginInv'
  <2>1. i \in Listeners /\ serve[i] = "none"
    BY DEF Fresh
  <2>2. current # i
    BY <2>1, MetricsListenerAssumption DEF ListenerBound
  <2>3. /\ permits' \in [Listeners -> Int] /\ conns' \in [Listeners -> Nat]
        /\ \A j \in Listeners : j # current => permits'[j] = permits[j] /\ conns'[j] = conns[j]
        /\ current \in Listeners =>
             /\ conns'[current] = 0
             /\ permits'[current] = IF serve[current] \in {"accept", "accepted"} THEN 1 ELSE 0
    <3>1. CASE current = 0
      BY <1>4, <3>1, MetricsListenerAssumption, Zenon DEF ListenerType
    <3>2. CASE current # 0
      BY <1>4, <3>2, CloseKeeps, Zenon DEF ListenerType
    <3> QED
      BY <3>1, <3>2, Zenon
  <2>4. ListenerType'
    BY <1>4, <2>1, <2>3, Zenon DEF ListenerType
  <2>5. PermitsExact'
    <3> SUFFICES ASSUME NEW j \in Listeners
                 PROVE  /\ permits'[j] = conns'[j] + (IF serve'[j] \in {"accept", "accepted"}
                                                     THEN 1 ELSE 0)
                        /\ permits'[j] <= MaxPermits
      BY Zenon DEF PermitsExact
    <3>0. /\ permits[j] = conns[j] + (IF serve[j] \in {"accept", "accepted"} THEN 1 ELSE 0)
          /\ permits[j] <= MaxPermits
      BY Zenon DEF PermitsExact
    <3>1. serve'[i] = "spawned" /\ (j # i => serve'[j] = serve[j])
      BY <1>4, <2>1, Zenon DEF ListenerType
    <3>2. CASE j = current
      <4>1. /\ conns'[j] = 0 /\ serve'[j] = serve[j]
            /\ permits'[j] = IF serve[j] \in {"accept", "accepted"} THEN 1 ELSE 0
        BY <2>2, <2>3, <3>1, <3>2, Zenon
      <4> QED
        BY <4>1, MetricsListenerAssumption
    <3>3. CASE j # current /\ j # i
      BY <2>3, <3>0, <3>1, <3>3, Zenon
    <3>4. CASE j = i
      <4>1. permits'[j] = permits[j] /\ conns'[j] = conns[j] /\ serve[j] = "none"
            /\ serve'[j] = "spawned"
        BY <2>1, <2>2, <2>3, <3>1, <3>4, Zenon
      <4> QED
        BY <3>0, <4>1, Zenon
    <3> QED
      BY <2>2, <3>2, <3>3, <3>4, Zenon
  <2>6. ListenerBound'
    BY <1>0, <1>4, <2>1, <2>2, MetricsListenerAssumption, Zenon DEF ListenerBound, ListenerType
  <2> QED
    BY <2>4, <2>5, <2>6
<1> QED
  BY <1>0, <1>1, <1>2, <1>3, <1>4, Zenon DEF PluginConfigure, ConfigureListener, Configure

\* Serve, Accept and the connections of one listener.
LEMMA ServingStep ==
    ASSUME PluginInv, NEW i \in Listeners, UNCHANGED <<configured, quit>>,
           Serving(i) \/ ConnEnds(i) \/ AcceptReturns(i) \/ AcceptBreaks(i)
    PROVE  PluginInv'
<1> USE DEF PluginInv
<1>1. /\ serve \in [Listeners -> {"none", "spawned", "loop", "accept", "accepted", "over"}]
      /\ socket \in [Listeners -> {"none", "open", "closed"}]
      /\ permits \in [Listeners -> Int] /\ conns \in [Listeners -> Nat]
      /\ current \in Listeners \cup {0}
  BY Zenon DEF ListenerType
<1>2. /\ UNCHANGED <<address, current, boundTo>>
      /\ \A j \in Listeners : j # i => /\ serve'[j] = serve[j] /\ socket'[j] = socket[j]
                                       /\ permits'[j] = permits[j] /\ conns'[j] = conns[j]
  BY <1>1, Zenon DEF Serving, ServeStart, AcceptBegins, AcceptFails, TrackConn, ConnEnds,
     AcceptReturns, AcceptBreaks, ServeReturns, ServeGoto
<1>0. /\ permits[i] \in Int /\ conns[i] \in Nat
      /\ permits[i] + 1 \in Int /\ permits[i] - 1 \in Int
      /\ conns[i] + 1 \in Nat /\ (conns[i] > 0 => conns[i] - 1 \in Nat)
  BY <1>1
<1>3. ListenerType'
  <2>1. serve' \in [Listeners -> {"none", "spawned", "loop", "accept", "accepted", "over"}]
    BY <1>1, ZenonT(60) DEF Serving, ServeStart, AcceptBegins, AcceptFails, TrackConn, ConnEnds,
       AcceptReturns, AcceptBreaks, ServeReturns, ServeGoto
  <2>2. socket' \in [Listeners -> {"none", "open", "closed"}]
    BY <1>1, ZenonT(60) DEF Serving, ServeStart, AcceptBegins, AcceptFails, TrackConn, ConnEnds,
       AcceptReturns, AcceptBreaks, ServeReturns, ServeGoto
  <2>3. permits' \in [Listeners -> Int]
    BY <1>0, <1>1, ZenonT(60) DEF Serving, ServeStart, AcceptBegins, AcceptFails, TrackConn, ConnEnds,
       AcceptReturns, AcceptBreaks, ServeReturns, ServeGoto
  <2>4. conns' \in [Listeners -> Nat]
    BY <1>0, <1>1, ZenonT(60) DEF Serving, ServeStart, AcceptBegins, AcceptFails, TrackConn, ConnEnds,
       AcceptReturns, AcceptBreaks, ServeReturns, ServeGoto
  <2> QED
    BY <1>2, <2>1, <2>2, <2>3, <2>4, Zenon DEF ListenerType
<1>4. \/ serve'[i] = serve[i] /\ socket'[i] = socket[i]
      \/ /\ serve[i] \notin {"none", "over"} /\ serve'[i] # "none"
         /\ socket'[i] = socket[i] \/ (socket'[i] = "closed" /\ serve'[i] = "over")
  BY <1>1, Zenon DEF Serving, ServeStart, AcceptBegins, AcceptFails, TrackConn, ConnEnds,
     AcceptReturns, AcceptBreaks, ServeReturns, ServeGoto
<1>5. ListenerBound'
  BY <1>1, <1>2, <1>4, ZenonT(60) DEF ListenerBound
<1>6. permits'[i] = conns'[i] + (IF serve'[i] \in {"accept", "accepted"} THEN 1 ELSE 0)
      /\ permits'[i] <= MaxPermits
  <2> DEFINE Accepting(at) == at \in {"accept", "accepted"}
  <2>1. \/ /\ permits'[i] = permits[i] /\ conns'[i] = conns[i]
           /\ Accepting(serve'[i]) <=> Accepting(serve[i])
        \/ /\ permits[i] < MaxPermits /\ permits'[i] = permits[i] + 1 /\ conns'[i] = conns[i]
           /\ ~Accepting(serve[i]) /\ Accepting(serve'[i])
        \/ /\ permits'[i] = permits[i] - 1 /\ conns'[i] = conns[i]
           /\ Accepting(serve[i]) /\ ~Accepting(serve'[i])
        \/ /\ permits'[i] = permits[i] /\ conns'[i] = conns[i] + 1
           /\ Accepting(serve[i]) /\ ~Accepting(serve'[i])
        \/ /\ permits'[i] = permits[i] - 1 /\ conns'[i] = conns[i] - 1
           /\ Accepting(serve'[i]) <=> Accepting(serve[i])
    BY <1>1, ZenonT(60) DEF Serving, ServeStart, AcceptBegins, AcceptFails, TrackConn, ConnEnds,
       AcceptReturns, AcceptBreaks, ServeReturns, ServeGoto
  <2>2. /\ permits[i] = conns[i] + (IF Accepting(serve[i]) THEN 1 ELSE 0)
        /\ permits[i] <= MaxPermits /\ MaxPermits \in Nat
    BY MetricsListenerAssumption, Zenon DEF PermitsExact
  <2> HIDE DEF Accepting
  <2>3. permits'[i] = conns'[i] + (IF Accepting(serve'[i]) THEN 1 ELSE 0)
        /\ permits'[i] <= MaxPermits
    <3> DEFINE p == permits[i]
               c == conns[i]
               One(at) == IF Accepting(at) THEN 1 ELSE 0
    <3>1. One(serve[i]) \in {0, 1} /\ One(serve'[i]) \in {0, 1}
      BY Zenon
    <3>2. \/ permits'[i] = p /\ conns'[i] = c /\ One(serve'[i]) = One(serve[i])
          \/ /\ p < MaxPermits /\ permits'[i] = p + 1 /\ conns'[i] = c
             /\ One(serve[i]) = 0 /\ One(serve'[i]) = 1
          \/ /\ permits'[i] = p - 1 /\ conns'[i] = c
             /\ One(serve[i]) = 1 /\ One(serve'[i]) = 0
          \/ /\ permits'[i] = p /\ conns'[i] = c + 1
             /\ One(serve[i]) = 1 /\ One(serve'[i]) = 0
          \/ permits'[i] = p - 1 /\ conns'[i] = c - 1 /\ One(serve'[i]) = One(serve[i])
      BY <2>1, ZenonT(60)
    <3>3. /\ p \in Int /\ c \in Nat /\ p = c + One(serve[i])
          /\ p <= MaxPermits /\ MaxPermits \in Nat
      BY <1>0, <2>2, Zenon
    <3> HIDE DEF p, c, One
    <3>4. permits'[i] = conns'[i] + One(serve'[i]) /\ permits'[i] <= MaxPermits
      <4>1. p - 1 <= MaxPermits /\ (p < MaxPermits => p + 1 <= MaxPermits)
        BY <3>3
      <4>2. /\ p = c + 0 => p + 1 = c + 1
            /\ p = c + 1 => p - 1 = c + 0 /\ p = (c + 1) + 0
        BY <3>3
      <4>3. p - 1 = (c - 1) + One(serve[i])
        BY <3>1, <3>3
      <4> QED
        BY <3>2, <3>3, <4>1, <4>2, <4>3, ZenonT(60)
    <3> QED
      BY <3>4, Zenon DEF One
  <2> QED
    BY <2>3, Zenon DEF Accepting
<1>7. PermitsExact'
  BY <1>2, <1>6, Zenon DEF PermitsExact
<1> QED
  BY <1>3, <1>5, <1>7

\* The invariant of the listener is inductive.
THEOREM ListenerInductive == PluginSafe => []PluginInv
<1>1. PluginInit => PluginInv
  <2> SUFFICES ASSUME PluginInit PROVE PluginInv
    OBVIOUS
  <2>1. ListenerType
    BY DEF PluginInit, ListenerInit, ListenerType
  <2>2. ListenerBound
    BY MetricsListenerAssumption DEF PluginInit, ListenerInit, ListenerBound
  <2>3. PermitsExact
    BY MetricsListenerAssumption DEF PluginInit, ListenerInit, PermitsExact
  <2> QED
    BY <2>1, <2>2, <2>3 DEF PluginInv
<1>2. ASSUME PluginInv, [PluginNext]_pluginvars PROVE PluginInv'
  <2>1. ASSUME NEW a \in Offered, PluginConfigure(a) PROVE PluginInv'
    BY <1>2, <2>1, ConfigureStep DEF Offered
  <2>2. CASE PluginClose
    BY <1>2, <2>2, CloseStep, Zenon DEF PluginClose, PluginInv, ListenerBound
  <2>3. CASE StreamStep \/ UNCHANGED pluginvars
    <3>1. UNCHANGED <<listenervars, configured, quit>>
      BY <2>3, Zenon DEF StreamStep, pluginvars
    <3>2. UNCHANGED <<address, current, socket, boundTo, stopped, shutdown, serve, permits, conns>>
      BY <3>1, Zenon DEF listenervars
    <3> QED
      BY <1>2, <3>1, <3>2, Zenon DEF PluginInv, ListenerType, ListenerBound, PermitsExact
  <2>4. CASE ListenerStep
    BY <1>2, <2>4, ServingStep DEF ListenerStep, InListener
  <2> QED
    BY <1>2, <2>1, <2>2, <2>3, <2>4 DEF PluginNext
<1> QED
  BY <1>1, <1>2, PTL DEF PluginSafe

\* configure: what listens is the address of the configuration in force and nothing
\* else does, for any addresses and however many replaced listeners lag behind.
THEOREM BoundCorrect == PluginSafe => []BoundAsConfigured
<1>1. PluginInv => BoundAsConfigured
  BY MetricsListenerAssumption, Zenon
     DEF PluginInv, ListenerType, ListenerBound, BoundAsConfigured
<1> QED
  BY <1>1, ListenerInductive, PTL

\* limitedListener: permits are exactly those of connections and of an Accept in
\* progress and never exceed the count, for every listener at every moment.
THEOREM PermitsCorrect == PluginSafe => []PermitsExact
<1>1. PluginInv => PermitsExact
  BY DEF PluginInv
<1> QED
  BY <1>1, ListenerInductive, PTL

\* The plugin keeps what the server promises: the quota, the reservations and their
\* gauge, and the ledger.
THEOREM PluginPromise ==
    PluginSafe => [](QuotaHolds /\ PendingExact /\ CapacityHolds) /\ Ledger!Safe
  BY PluginServes, QuotaCorrect, PendingCorrect, CapacityCorrect, LedgerRefined, PTL
=============================================================================

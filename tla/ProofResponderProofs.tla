------------------------ MODULE ProofResponderProofs ------------------------
(***************************************************************************)
(* Proofs about the responders, for any number of hosts, sessions and clock  *)
(* skews and any values of the limits: the store is bounded, holds only       *)
(* proofs of its own host, and its gauge and counters agree with it.         *)
(***************************************************************************)
EXTENDS ProofResponder, FiniteSetTheorems, TLAPS

\* Integer division by the clock rate is monotonic.
LEMMA SecondsMonotone ==
    ASSUME NEW x \in Int, NEW y \in Int, x <= y
    PROVE  Seconds(x) \in Int /\ Seconds(y) \in Int /\ Seconds(x) <= Seconds(y)
<1>1. Hz \in Int /\ Hz > 0
  BY ProofResponderAssumption
<1>2. /\ Seconds(x) \in Int /\ Seconds(y) \in Int
      /\ Hz * Seconds(x) <= x /\ y < Hz * Seconds(y) + Hz
  BY <1>1 DEF Seconds
<1>3. \A p, q \in Int : Hz * p < Hz * q + Hz => p <= q
  <2> SUFFICES ASSUME NEW p \in Int, NEW q \in Int, p > q
               PROVE  ~(Hz * p < Hz * q + Hz)
    OBVIOUS
  <2>1. PICK d \in Nat : p = q + 1 + d
    <3>1. p - q - 1 \in Nat /\ p = q + 1 + (p - q - 1)
      OBVIOUS
    <3> QED
      BY <3>1
  <2>2. Hz * p = Hz * q + Hz + Hz * d
    BY <1>1, <2>1
  <2>3. Hz * d >= 0
    BY <1>1, <2>1
  <2> QED
    BY <1>1, <2>2, <2>3
<1>4. Hz * Seconds(x) < Hz * Seconds(y) + Hz
  BY <1>1, <1>2
<1> QED
  BY <1>2, <1>3, <1>4

\* Subsets of the sessions are finite, and counting is monotonic.
LEMMA CountPart ==
    ASSUME NEW S \in SUBSET Attempts, NEW T \in SUBSET S
    PROVE  /\ IsFiniteSet(S) /\ Cardinality(S) \in Nat /\ Cardinality(T) \in Nat
           /\ Cardinality(T) <= Cardinality(S)
           /\ Cardinality(S \ T) = Cardinality(S) - Cardinality(T)
<1>1. IsFiniteSet(S) /\ IsFiniteSet(T)
  BY ProofResponderAssumption, FS_Subset
<1>2. Cardinality(S) \in Nat /\ Cardinality(T) \in Nat
  BY <1>1, FS_CardinalityType
<1>3. Cardinality(T) <= Cardinality(S)
  BY <1>1, FS_Subset
<1>4. Cardinality(S \ T) = Cardinality(S) - Cardinality(T)
  <2>1. Cardinality(S \ T) = Cardinality(S) - Cardinality(S \cap T) /\ S \cap T = T
    BY <1>1, FS_Difference
  <2> QED
    BY <2>1
<1> QED
  BY <1>1, <1>2, <1>3, <1>4

\* Counting one proof more and one fewer.
LEMMA CountOne ==
    ASSUME NEW S \in SUBSET Attempts, NEW a
    PROVE  /\ Cardinality(S) \in Nat
           /\ Cardinality(S \cup {a}) = Cardinality(S) + (IF a \in S THEN 0 ELSE 1)
           /\ Cardinality(S \ {a}) = Cardinality(S) - (IF a \in S THEN 1 ELSE 0)
<1>1. IsFiniteSet(S) /\ Cardinality(S) \in Nat
  BY CountPart, Zenon
<1>2. Cardinality(S \cup {a}) = IF a \in S THEN Cardinality(S) ELSE Cardinality(S) + 1
  BY <1>1, FS_AddElement
<1>3. Cardinality(S \ {a}) = IF a \in S THEN Cardinality(S) - 1 ELSE Cardinality(S)
  BY <1>1, FS_RemoveElement, Zenon
<1> QED
  BY <1>1, <1>2, <1>3
-----------------------------------------------------------------------------
(***************************************************************************)
(* The inductive invariant.  Parsed says what a PUT brings from parseProof    *)
(* across the gap to the critical section: time only widens its window.     *)
(***************************************************************************)
CountsType == [published : Nat, deleted : Nat, expired : Nat]

TypeOK ==
    /\ now \in Nat /\ expires \in [Attempts -> Int]
    /\ DOMAIN ctl = Attempts /\ DOMAIN del = Attempts
    /\ proofs \subseteq Attempts /\ held \in [Hosts -> Int] /\ counts \in [Hosts -> CountsType]

Fits(a) == Claim[a] = Host[a] /\ expires[a] <= Seconds(Clock(Host[a]) + TTL * Hz)

Parsed == \A a \in Attempts : ctl[a] = "parsed" \/ a \in proofs => Fits(a)

IInv == TypeOK /\ Parsed /\ StoreAccounted /\ \A h \in Hosts : Cardinality(Stored(h)) <= Slots

\* expireLocked and a store of at most one proof, by the responder of h.
LEMMA UpdateStep ==
    ASSUME TypeOK, StoreAccounted, NEW h \in Hosts, NEW added \in SUBSET Attempts,
           added = {} \/ \E a \in Attempts : added = {a} /\ Host[a] = h,
           Update(h, added)
    PROVE  /\ proofs' \subseteq proofs \cup added /\ proofs' \subseteq Attempts
           /\ held' \in [Hosts -> Int] /\ counts' \in [Hosts -> CountsType]
           /\ StoreAccounted'
           /\ \A g \in Hosts : g # h => Stored(g)' = Stored(g)
           /\ Stored(h)' = (Stored(h) \ Expired(h)) \cup added
<1> DEFINE E == Expired(h)
           live == proofs \ E
           old == counts[h]
           new == [published |-> old.published + Cardinality(added), deleted |-> old.deleted,
                   expired |-> old.expired + Cardinality(E)]
<1>1. /\ proofs' = live \cup added
      /\ held' = [held EXCEPT ![h] = held[h] - Cardinality(E) + Cardinality(added \ live)]
      /\ counts' = [counts EXCEPT ![h] = new]
  BY DEF Update
<1>2. /\ E \in SUBSET Stored(h) /\ Stored(h) \in SUBSET Attempts
      /\ Stored(h) \ E \in SUBSET Attempts
  BY DEF Expired, Stored, TypeOK
<1>3. /\ Cardinality(E) \in Nat /\ Cardinality(Stored(h)) \in Nat
      /\ Cardinality(Stored(h) \ E) = Cardinality(Stored(h)) - Cardinality(E)
  BY <1>2, CountPart
<1>4. /\ Cardinality(added) \in Nat /\ Cardinality(added \ live) \in Nat
      /\ Cardinality(added \ live) <= Cardinality(added)
      /\ Cardinality((Stored(h) \ E) \cup added)
           = Cardinality(Stored(h) \ E) + Cardinality(added \ live)
  <2>1. CASE added = {}
    <3>1. added \ live = {} /\ (Stored(h) \ E) \cup added = Stored(h) \ E
      BY <2>1
    <3> QED
      BY <1>3, <2>1, <3>1, FS_EmptySet
  <2>2. ASSUME NEW a \in Attempts, added = {a}, Host[a] = h
        PROVE  /\ Cardinality(added) = 1
               /\ Cardinality(added \ live) = IF a \in Stored(h) \ E THEN 0 ELSE 1
               /\ Cardinality((Stored(h) \ E) \cup added)
                    = Cardinality(Stored(h) \ E) + (IF a \in Stored(h) \ E THEN 0 ELSE 1)
    <3>1. Cardinality({a}) = 1 /\ Cardinality({}) = 0
      BY FS_Singleton, FS_EmptySet, Zenon
    <3>2. a \in live <=> a \in Stored(h) \ E
      BY <2>2 DEF Stored
    <3>3. added \ live = IF a \in Stored(h) \ E THEN {} ELSE {a}
      BY <2>2, <3>2
    <3>4. Cardinality((Stored(h) \ E) \cup {a})
            = Cardinality(Stored(h) \ E) + (IF a \in Stored(h) \ E THEN 0 ELSE 1)
      BY <1>2, CountOne, Zenon
    <3> QED
      BY <2>2, <3>1, <3>3, <3>4, Zenon
  <2> HIDE DEF live, E
  <2>3. ASSUME added # {} PROVE /\ Cardinality(added) = 1
                                /\ Cardinality(added \ live) \in {0, 1}
                                /\ Cardinality((Stored(h) \ E) \cup added)
                                     = Cardinality(Stored(h) \ E) + Cardinality(added \ live)
    BY <2>2, <2>3, Zenon
  <2> QED
    BY <2>1, <2>3
<1>5. /\ \A g \in Hosts : g # h => Stored(g)' = Stored(g)
      /\ Stored(h)' = (Stored(h) \ E) \cup added
      /\ proofs' \subseteq proofs \cup added /\ proofs' \subseteq Attempts
  BY <1>1 DEF Stored, Expired, TypeOK
<1>6. held' \in [Hosts -> Int] /\ held'[h] = Cardinality(Stored(h)')
      /\ \A g \in Hosts : g # h => held'[g] = held[g]
  <2>1. held[h] = Cardinality(Stored(h)) /\ held \in [Hosts -> Int]
    BY DEF StoreAccounted, TypeOK
  <2> QED
    BY <1>1, <1>3, <1>4, <1>5, <2>1
<1>7. /\ new \in CountsType
      /\ old.published >= held[h] + old.deleted + old.expired
      /\ new.published >= held'[h] + new.deleted + new.expired
  <2>1. old \in CountsType /\ held[h] \in Int
        /\ old.published >= held[h] + old.deleted + old.expired
    BY DEF StoreAccounted, TypeOK
  <2>2. /\ old.published \in Nat /\ old.deleted \in Nat /\ old.expired \in Nat
    BY <2>1 DEF CountsType
  <2>3. new \in CountsType
    BY <1>3, <1>4, <2>2 DEF CountsType
  <2>4. held'[h] = held[h] - Cardinality(E) + Cardinality(added \ live)
    BY <1>1 DEF TypeOK
  <2> QED
    BY <1>3, <1>4, <2>1, <2>2, <2>3, <2>4
<1>8. counts' \in [Hosts -> CountsType] /\ counts'[h] = new
      /\ \A g \in Hosts : g # h => counts'[g] = counts[g]
  BY <1>1, <1>7 DEF TypeOK
<1> HIDE DEF new, old, live, E
<1>9. StoreAccounted'
  BY <1>5, <1>6, <1>7, <1>8, Zenon DEF StoreAccounted
<1> QED
  BY <1>5, <1>6, <1>8, <1>9 DEF E

\* A store of one proof respects the limit, as PUT checks it.
LEMMA StoreLimit ==
    ASSUME TypeOK, NEW h \in Hosts, NEW a \in Attempts, Cardinality(Stored(h)) <= Slots
    PROVE  LET live == Stored(h) \ Expired(h)
           IN /\ Cardinality(live) <= Slots
              /\ ~(a \notin live /\ Cardinality(live) >= Slots) =>
                   Cardinality(live \cup {a}) <= Slots
<1> DEFINE live == Stored(h) \ Expired(h)
<1>1. live \in SUBSET Stored(h) /\ Stored(h) \in SUBSET Attempts /\ live \in SUBSET Attempts
  BY DEF Stored, TypeOK
<1>2. /\ Cardinality(live) <= Cardinality(Stored(h)) /\ Cardinality(live) \in Nat
      /\ Cardinality(Stored(h)) \in Nat
  BY <1>1, CountPart, Zenon
<1>3. Cardinality(live \cup {a}) = Cardinality(live) + (IF a \in live THEN 0 ELSE 1)
  BY <1>1, CountOne, Zenon
<1>4. Slots \in Nat
  BY ProofResponderAssumption
<1> HIDE DEF live
<1>5. Cardinality(live) <= Slots
  BY <1>2, <1>4
<1>6. ~(a \notin live /\ Cardinality(live) >= Slots) => Cardinality(live \cup {a}) <= Slots
  BY <1>2, <1>3, <1>4, <1>5
<1> QED
  BY <1>5, <1>6 DEF live

\* The passing of time and the rest of the control plane keep the window of a proof.
LEMMA FitsLater ==
    ASSUME TypeOK, now' \in {now, now + 1}, UNCHANGED expires
    PROVE  \A a \in Attempts : Fits(a) => Fits(a)'
<1> SUFFICES ASSUME NEW a \in Attempts, Fits(a) PROVE Fits(a)'
  OBVIOUS
<1>1. Host[a] \in Hosts /\ Skew[Host[a]] \in Int /\ TTL * Hz \in Nat /\ now \in Nat
  BY ProofResponderAssumption DEF TypeOK
<1>2. PICK w \in Nat : w = TTL * Hz
  BY <1>1
<1> DEFINE x == now + Skew[Host[a]] + w
           y == now' + Skew[Host[a]] + w
<1>3. x \in Int /\ y \in Int /\ x <= y
  BY <1>1
<1>4. Seconds(x) \in Int /\ Seconds(y) \in Int /\ Seconds(x) <= Seconds(y)
  BY <1>3, SecondsMonotone
<1>5. expires[a] \in Int /\ expires[a] <= Seconds(x) /\ Claim[a] = Host[a]
  BY <1>2 DEF Fits, Clock, TypeOK
<1>6. Fits(a)' = (Claim[a] = Host[a] /\ expires[a] <= Seconds(y))
  BY <1>2 DEF Fits, Clock, Seconds
<1>7. expires[a] <= Seconds(y)
  <2> HIDE DEF x, y, Seconds
  <2>1. PICK p \in Int : p = Seconds(x)
    BY <1>4
  <2>2. PICK q \in Int : q = Seconds(y)
    BY <1>4
  <2>3. expires[a] <= q
    BY <1>4, <1>5, <2>1, <2>2
  <2> QED
    BY <2>2, <2>3
<1> QED
  BY <1>5, <1>6, <1>7, Zenon

\* The store changes by Update of one host: nothing else is needed of PUT, GET and
\* the ticker.
LEMMA UpdateKeeps ==
    ASSUME IInv, NEW h \in Hosts, NEW added \in SUBSET Attempts,
           added = {} \/ \E a \in Attempts :
              /\ added = {a} /\ Host[a] = h /\ Fits(a)
              /\ ~(/\ a \notin Stored(h) \ Expired(h)
                   /\ Cardinality(Stored(h) \ Expired(h)) >= Slots),
           Update(h, added), UNCHANGED <<now, expires, del>>, DOMAIN ctl' = Attempts,
           \A a \in Attempts : ctl'[a] = "parsed" => ctl[a] = "parsed"
    PROVE  IInv'
<1>1. /\ proofs' \subseteq proofs \cup added /\ proofs' \subseteq Attempts
      /\ held' \in [Hosts -> Int] /\ counts' \in [Hosts -> CountsType]
      /\ StoreAccounted'
      /\ \A g \in Hosts : g # h => Stored(g)' = Stored(g)
      /\ Stored(h)' = (Stored(h) \ Expired(h)) \cup added
  BY UpdateStep DEF IInv
<1>2. TypeOK'
  BY <1>1 DEF IInv, TypeOK
<1>3. \A a \in Attempts : Fits(a) => Fits(a)'
  BY FitsLater DEF IInv
<1>4. Parsed'
  BY <1>1, <1>3 DEF IInv, Parsed
<1>5. Cardinality(Stored(h)') <= Slots
  <2>1. CASE added = {}
    <3>1. /\ Stored(h) \ Expired(h) \in SUBSET Stored(h) /\ Stored(h) \in SUBSET Attempts
      BY DEF Stored, IInv, TypeOK
    <3>2. /\ Cardinality(Stored(h) \ Expired(h)) <= Cardinality(Stored(h))
          /\ Cardinality(Stored(h) \ Expired(h)) \in Nat /\ Cardinality(Stored(h)) \in Nat
      BY <3>1, CountPart, Zenon
    <3>3. Stored(h)' = Stored(h) \ Expired(h)
      BY <1>1, <2>1
    <3>4. Cardinality(Stored(h)) <= Slots /\ Slots \in Nat
      BY ProofResponderAssumption, Zenon DEF IInv
    <3> QED
      BY <3>2, <3>3, <3>4
  <2>2. ASSUME NEW a \in Attempts, added = {a},
               ~(/\ a \notin Stored(h) \ Expired(h)
                 /\ Cardinality(Stored(h) \ Expired(h)) >= Slots)
        PROVE  Cardinality(Stored(h)') <= Slots
    BY <1>1, <2>2, StoreLimit, Zenon DEF IInv
  <2> QED
    BY <2>1, <2>2
<1> QED
  BY <1>1, <1>2, <1>4, <1>5 DEF IInv

\* The handler of DELETE removes one proof, moves the gauge and counts it.
LEMMA DeleteKeeps ==
    ASSUME IInv, NEW a \in proofs, DeleteProof(a), UNCHANGED <<now, expires>>,
           \A b \in Attempts : Fits(b) => Fits(b)'
    PROVE  IInv'
<1> DEFINE h == Host[a]
           old == counts[h]
           new == [published |-> old.published, deleted |-> old.deleted + 1,
                   expired |-> old.expired]
<1>1. a \in Attempts /\ h \in Hosts /\ old \in CountsType
  BY ProofResponderAssumption DEF IInv, TypeOK
<1>2. old.published \in Nat /\ old.deleted \in Nat /\ old.expired \in Nat
  BY <1>1 DEF CountsType
<1>3. /\ proofs' = proofs \ {a} /\ held' = [held EXCEPT ![h] = held[h] - 1]
      /\ counts' = [counts EXCEPT ![h] = [old EXCEPT !.deleted = old.deleted + 1]]
      /\ UNCHANGED ctl /\ DOMAIN del' = Attempts
  BY DEF DeleteProof, IInv, TypeOK
<1>4. [old EXCEPT !.deleted = old.deleted + 1] = new
  BY <1>1, <1>2 DEF CountsType
<1>5. new \in CountsType
  BY <1>2 DEF CountsType
<1>6. /\ Stored(h)' = Stored(h) \ {a} /\ a \in Stored(h)
      /\ \A g \in Hosts : g # h => Stored(g)' = Stored(g)
  BY <1>3 DEF Stored
<1>7. \A g \in Hosts : Stored(g) \in SUBSET Attempts
  BY DEF Stored, IInv, TypeOK
<1>8. /\ Cardinality(Stored(h)) \in Nat
      /\ Cardinality(Stored(h)') = Cardinality(Stored(h)) - 1
  BY <1>1, <1>6, <1>7, CountOne
<1>9. counts' = [counts EXCEPT ![h] = new]
  BY <1>3, <1>4, Zenon
<1> HIDE DEF new
<1>10. TypeOK'
  BY <1>1, <1>3, <1>5, <1>9 DEF IInv, TypeOK
<1>11. Parsed'
  BY <1>3 DEF IInv, Parsed
<1>12. StoreAccounted'
  <2>1. held'[h] = held[h] - 1 /\ counts'[h] = new
    BY <1>1, <1>3, <1>9 DEF IInv, TypeOK
  <2>2. \A g \in Hosts : g # h => held'[g] = held[g] /\ counts'[g] = counts[g]
    BY <1>3, <1>9 DEF IInv, TypeOK
  <2>3. /\ new.published = old.published /\ new.deleted = old.deleted + 1
        /\ new.expired = old.expired
    BY DEF new
  <2>4. held[h] = Cardinality(Stored(h)) /\ old.published >= held[h] + old.deleted + old.expired
    BY <1>1 DEF IInv, StoreAccounted
  <2>5. held'[h] = Cardinality(Stored(h)') /\ new.published >= held'[h] + new.deleted + new.expired
    BY <1>2, <1>8, <2>1, <2>3, <2>4
  <2> QED
    BY <1>6, <2>1, <2>2, <2>5, Zenon DEF IInv, StoreAccounted
<1>13. \A g \in Hosts : Cardinality(Stored(g)') <= Slots
  BY <1>6, <1>8, ProofResponderAssumption DEF IInv
<1> QED
  BY <1>10, <1>11, <1>12, <1>13 DEF IInv

\* A restart empties the store of one host and resets what counts it.
LEMMA RestartKeeps ==
    ASSUME IInv, NEW h \in Hosts, Restart(h), UNCHANGED <<now, expires>>,
           \A b \in Attempts : Fits(b) => Fits(b)'
    PROVE  IInv'
<1>1. /\ proofs' = proofs \ Stored(h) /\ held' = [held EXCEPT ![h] = 0]
      /\ counts' = [counts EXCEPT ![h] = NoCounts]
      /\ DOMAIN ctl' = Attempts /\ DOMAIN del' = Attempts
      /\ \A a \in Attempts : ctl'[a] = "parsed" => ctl[a] = "parsed"
  BY DEF Restart
<1>2. NoCounts \in CountsType
  BY DEF NoCounts, CountsType
<1>3. TypeOK'
  BY <1>1, <1>2 DEF IInv, TypeOK
<1>4. Parsed'
  BY <1>1 DEF IInv, Parsed
<1>5. Stored(h)' = {} /\ \A g \in Hosts : g # h => Stored(g)' = Stored(g)
  BY <1>1 DEF Stored
<1>6. Cardinality(Stored(h)') = 0
  BY <1>5, FS_EmptySet
<1>7. StoreAccounted'
  <2>1. held'[h] = 0 /\ counts'[h] = NoCounts
    BY <1>1 DEF IInv, TypeOK
  <2>2. \A g \in Hosts : g # h => held'[g] = held[g] /\ counts'[g] = counts[g]
    BY <1>1 DEF IInv, TypeOK
  <2> QED
    <3> SUFFICES ASSUME NEW g \in Hosts
                 PROVE  /\ held'[g] = Cardinality(Stored(g)')
                        /\ counts'[g].published >=
                             held'[g] + counts'[g].deleted + counts'[g].expired
      BY Zenon DEF StoreAccounted
    <3>1. CASE g = h
      <4>1. NoCounts.published >= 0 + NoCounts.deleted + NoCounts.expired
        BY DEF NoCounts
      <4> QED
        BY <1>6, <2>1, <3>1, <4>1, Zenon
    <3>2. CASE g # h
      BY <1>5, <2>2, <3>2, Zenon DEF IInv, StoreAccounted
    <3> QED
      BY <3>1, <3>2, Zenon
<1>8. \A g \in Hosts : Cardinality(Stored(g)') <= Slots
  BY <1>5, <1>6, ProofResponderAssumption DEF IInv
<1> QED
  BY <1>3, <1>4, <1>7, <1>8 DEF IInv

\* The requests, the handlers, the ticker, a restart and the clock keep the invariant.
LEMMA Step == IInv /\ [Next]_<<rvars, now, expires>> => IInv'
<1> SUFFICES ASSUME IInv, [Next]_<<rvars, now, expires>> PROVE IInv'
  OBVIOUS
<1>0. UNCHANGED expires /\ now' \in {now, now + 1}
  BY DEF Next, Handle, Tick
<1>1. \A a \in Attempts : Fits(a) => Fits(a)'
  BY <1>0, FitsLater DEF IInv
<1>2. ASSUME UNCHANGED <<proofs, held, counts>>, now' \in Nat,
             DOMAIN ctl' = Attempts, DOMAIN del' = Attempts,
             \A a \in Attempts : ctl'[a] = "parsed" => Fits(a)
      PROVE  IInv'
  BY <1>0, <1>1, <1>2, Zenon DEF IInv, TypeOK, Parsed, StoreAccounted, Stored
<1>3. CASE Tick \/ UNCHANGED <<rvars, now, expires>>
  BY <1>2, <1>3 DEF Tick, rvars, IInv, TypeOK, Parsed
<1>4. ASSUME Handle PROVE IInv'
  <2>1. UNCHANGED <<now, expires>>
    BY <1>4 DEF Handle
  <2>2. ASSUME NEW a \in Attempts, Request(a) \/ ControlLost(a) PROVE IInv'
    BY <1>2, <2>1, <2>2 DEF Request, ControlLost, IInv, TypeOK, Parsed
  <2>3. ASSUME NEW a \in Attempts, PutParse(a) PROVE IInv'
    <3>1. ctl'[a] = "parsed" => Fits(a)
      BY <2>3 DEF PutParse, ParseProof, InWindow, Fits, IInv, TypeOK
    <3> QED
      BY <1>2, <2>1, <2>3, <3>1 DEF PutParse, IInv, TypeOK, Parsed
  <2>4. ASSUME NEW a \in Attempts, PutStore(a) PROVE IInv'
    <3> DEFINE h == Host[a]
               full == /\ a \notin Stored(h) \ Expired(h)
                       /\ Cardinality(Stored(h) \ Expired(h)) >= Slots
               added == IF full THEN {} ELSE {a}
    <3>1. /\ ctl[a] = "parsed" /\ Update(h, added) /\ UNCHANGED del
          /\ ctl' = [ctl EXCEPT ![a] = IF full THEN "refused" ELSE "created"]
      BY <2>4 DEF PutStore
    <3>2. Fits(a)
      BY <3>1 DEF IInv, Parsed
    <3>3. DOMAIN ctl' = Attempts /\ \A b \in Attempts : ctl'[b] = "parsed" => ctl[b] = "parsed"
      BY <3>1 DEF IInv, TypeOK
    <3>4. h \in Hosts /\ added \in SUBSET Attempts
      BY ProofResponderAssumption
    <3>5. added = {} \/ (added = {a} /\ Host[a] = h /\ ~full)
      OBVIOUS
    <3> QED
      BY ZenonT(60), <2>1, <3>1, <3>2, <3>3, <3>4, <3>5, UpdateKeeps
  <2>5. ASSUME NEW a \in Attempts, DeleteProof(a), a \notin proofs PROVE IInv'
    BY <1>2, <2>1, <2>5 DEF DeleteProof, IInv, TypeOK, Parsed
  <2>6. ASSUME NEW a \in Attempts, DeleteProof(a), a \in proofs PROVE IInv'
    BY <1>1, <2>1, <2>6, DeleteKeeps
  <2>7. ASSUME NEW h \in Hosts, Cleanup(h) PROVE IInv'
    <3>1. Update(h, {}) /\ UNCHANGED <<ctl, del>>
      BY <2>7 DEF Cleanup
    <3> QED
      BY <2>1, <3>1, UpdateKeeps, Zenon DEF IInv, TypeOK
  <2>8. ASSUME NEW h \in Hosts, Restart(h) PROVE IInv'
    BY <1>1, <2>1, <2>8, RestartKeeps
  <2>9. ASSUME NEW h \in Hosts, NEW a \in Attempts, NEW found \in BOOLEAN, Public(h, a, found)
        PROVE  IInv'
    <3>1. UNCHANGED <<ctl, del>>
      BY <2>9 DEF Public
    <3>2. CASE Update(h, {})
      BY <2>1, <3>1, <3>2, UpdateKeeps, Zenon DEF IInv, TypeOK
    <3>3. CASE UNCHANGED <<proofs, held, counts>>
      BY <1>2, <2>1, <3>1, <3>3 DEF IInv, TypeOK, Parsed
    <3> QED
      BY <2>9, <3>2, <3>3 DEF Public
  <2> QED
    BY <1>4, <2>2, <2>3, <2>4, <2>5, <2>6, <2>7, <2>8, <2>9 DEF Handle
<1> QED
  BY <1>3, <1>4 DEF Next

\* Nothing is stored at first.
LEMMA Start == Init => IInv
<1> SUFFICES ASSUME Init PROVE IInv
  OBVIOUS
<1>1. TypeOK
  <2>1. NoCounts \in CountsType
    BY DEF NoCounts, CountsType
  <2>2. expires \in [Attempts -> Int]
    BY ProofResponderAssumption, Zenon DEF Init
  <2> QED
    BY <2>1, <2>2 DEF Init, ResponderInit, TypeOK
<1>2. Parsed
  BY DEF Init, ResponderInit, Parsed
<1>3. \A h \in Hosts : Stored(h) = {}
  BY DEF Init, ResponderInit, Stored
<1>4. \A h \in Hosts : Cardinality(Stored(h)) = 0
  BY <1>3, FS_EmptySet
<1>5. StoreAccounted
  BY <1>4 DEF Init, ResponderInit, StoreAccounted, NoCounts
<1> QED
  BY <1>1, <1>2, <1>4, <1>5, ProofResponderAssumption DEF IInv

\* The invariant holds in every reachable state of the responders, whatever the
\* requests, losses, restarts and clocks.
THEOREM ResponderInductive == Spec => []IInv
BY Start, Step, PTL DEF Spec

\* PUT, DELETE, GET, the ticker and a restart keep the gauge of every responder equal
\* to the number of its stored proofs, and count each publish away at most once.
THEOREM StoreAccountedCorrect == Spec => []StoreAccounted
<1>1. IInv => StoreAccounted
  BY DEF IInv
<1> QED
  BY <1>1, ResponderInductive, PTL

\* control: although the proof is parsed before the lock and the limit is checked
\* under it, a responder never stores more than Slots proofs, only proofs of its own
\* FQDN, and none beyond the challenge TTL on its own clock.
THEOREM StoreBoundedCorrect == Spec => []StoreBounded
<1>1. ASSUME IInv PROVE StoreBounded
  <2> SUFFICES ASSUME NEW h \in Hosts, NEW a \in Stored(h)
               PROVE  Claim[a] = h /\ expires[a] <= Seconds(Clock(h) + TTL * Hz)
    BY <1>1 DEF IInv, StoreBounded
  <2>1. a \in Attempts /\ a \in proofs /\ Host[a] = h
    BY <1>1 DEF Stored, IInv, TypeOK
  <2> QED
    BY <1>1, <2>1 DEF IInv, Parsed, Fits
<1> QED
  BY <1>1, ResponderInductive, PTL
=============================================================================

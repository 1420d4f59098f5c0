----------------------- MODULE IdentityExporterProofs -----------------------
(***************************************************************************)
(* Proofs about the collection loop of realm-identity-metrics, for any        *)
(* workloads, nodes, lifetimes of certificates and time limits that keep       *)
(* collectionInterval + collectionTimeout within freshnessLimit: what a scrape *)
(* shows as a success is current, and the records of a running loop are fresh. *)
(***************************************************************************)
EXTENDS IdentityExporter, WellFoundedInduction, TLAPS

Stages == {"begin", "probe", "jobs", "done"}
Progress == {"none", "queued", "wait", "observe", "done"}
Expiry == Nat \cup {NoExpiry}
Ages == Nat \cup {Never}
RecType == [age : Ages, ok : BOOLEAN, left : Expiry, rests : SUBSET Nat]
HoldType == [age : Ages, ok : BOOLEAN, left : Expiry, rests : SUBSET Nat, dormant : BOOLEAN]

TypeOK ==
    /\ view \in Views /\ phase \in {"collect", "idle", "exit"}
    /\ elapsed \in 0..CollectTimeout /\ ticker \in 0..Interval /\ rounds \in 0..2
    /\ task \in [Tasks -> Stages]
    /\ canary \in [ready : BOOLEAN, ok : BOOLEAN, left : Nat]
    /\ job \in [Watched -> Progress]
    /\ alias \in [asked : Nat, ok : BOOLEAN, left : Expiry, rests : SUBSET Nat]
    /\ rec \in [view -> RecType] /\ hold \in [Watched -> HoldType]

\* The loop: the ticker runs from the end of the first round on, and no round
\* outlasts its context.  Between rounds no goroutine is at work.
LoopInv ==
    /\ phase = "collect" /\ rounds = 0 => ticker = Interval
    /\ phase = "collect" /\ rounds > 0 => ticker = Interval - elapsed
    /\ phase # "collect" =>
         /\ rounds > 0 /\ elapsed = 0
         /\ \A t \in Tasks : task[t] = "begin"
         /\ \A h \in Watched : job[h] = "none"

\* A worker has a job only while collectWorkloads collects its results.
JobInv ==
    \A h \in Watched :
       /\ task["workloads"] = "begin" => job[h] = "none"
       /\ task["workloads"] = "done" => job[h] \in {"none", "done"}

\* validUntil is the earliest of the expiries that the record rests on.
Earliest(left, rests) ==
    IF rests = {} THEN left = NoExpiry
    ELSE left \in rests /\ \A l \in rests : left <= l
Bounded(s) == Earliest(s.left, s.rests)

RestInv ==
    /\ \A c \in view : Bounded(rec[c])
    /\ \A h \in Watched : Bounded(hold[h]) /\ (hold[h].ok => hold[h].rests # {})
    /\ Bounded(alias)

\* The record was written in this round.
Recorded(c) == IF c = "bundle" THEN task["bootstrap"] # "begin" ELSE task[c] = "done"
Seen(h) == task["workloads"] = "done" \/ job[h] = "done"

\* A record that was not made in this round is at most an interval older than what
\* is left of that one; the first interval begins when the first round is over.
Kept(age, p, r, e, k) ==
    /\ p = "collect" /\ r = 2 => age \in 0..(Interval + e)
    /\ p # "collect" /\ r = 1 => age \in 0..(CollectTimeout + Interval - k)
    /\ p # "collect" /\ r = 2 => age \in 0..(Interval - k)

TimeInv ==
    /\ \A c \in view : /\ Kept(rec[c].age, phase, rounds, elapsed, ticker)
                       /\ phase = "collect" /\ Recorded(c) => rec[c].age \in 0..elapsed
    /\ \A h \in Watched : /\ Kept(hold[h].age, phase, rounds, elapsed, ticker)
                          /\ phase = "collect" /\ Seen(h) => hold[h].age \in 0..elapsed

\* The observer of this round is the canary of this round: one that can be used was
\* recorded as a success, and so was one that a holder has been observed with.
CanaryInv ==
    "workloads" \in view =>
      /\ canary.ready => task["canary"] = "done"
      /\ task["canary"] = "done" => /\ canary.ready
                                     /\ canary.ok /\ canary.left > 0 => rec["canary"].ok
      /\ \A h \in Watched :
           /\ job[h] = "observe" => canary.ready /\ rec["canary"].ok
           /\ phase = "collect" /\ Seen(h) /\ hold[h].ok => canary.ready /\ rec["canary"].ok
           /\ phase # "collect" /\ hold[h].ok => rec["canary"].ok

\* A success of the workloads collector rests on every holder that is not dormant.
WorkInv ==
    "workloads" \in view /\ (phase # "collect" \/ task["workloads"] = "done")
        /\ rec["workloads"].ok =>
      \A h \in Watched :
         hold[h].dormant \/ (hold[h].ok /\ rec["workloads"].left # NoExpiry
                                        /\ rec["workloads"].left <= hold[h].left)

IInv == TypeOK /\ LoopInv /\ JobInv /\ RestInv /\ TimeInv /\ CanaryInv /\ WorkInv
-----------------------------------------------------------------------------
(* Expiries and ages. *)

LEMMA LeastOf ==
    ASSUME NEW S \in SUBSET Nat, S # {}
    PROVE  Min(S) \in S /\ \A l \in S : Min(S) <= l
<1> DEFINE Less == OpToRel(<, Nat)
<1>1. PICK i \in S : \A j \in S : ~(<<j, i>> \in Less)
  <2>1. IsWellFoundedOn(Less, Nat)
    BY NatLessThanWellFounded
  <2> HIDE DEF Less
  <2> QED
    BY <2>1, WFMin, Zenon
<1>2. \A j \in S : ~(j < i)
  BY <1>1, Zenon DEF OpToRel
<1>3. \E k \in S : \A j \in S : k <= j
  BY <1>2
<1> QED
  BY <1>3, Zenon DEF Min

\* earlier combines two expiries; the result is the earliest of what both rest on.
LEMMA EarlierOf ==
    ASSUME NEW a \in Expiry, NEW b \in Expiry, NEW R \in SUBSET Nat, Earliest(a, R)
    PROVE  earlier(a, b) \in Expiry /\ Earliest(earlier(a, b), R \cup ({b} \ {NoExpiry}))
<1>1. CASE b = NoExpiry
  <2>1. earlier(a, b) = a /\ R \cup ({b} \ {NoExpiry}) = R
    BY <1>1 DEF earlier
  <2> QED
    BY <2>1
<1>2. CASE b # NoExpiry /\ a = NoExpiry
  <2>1. R = {}
    BY <1>2 DEF Earliest, NoExpiry
  <2>2. earlier(a, b) = b /\ R \cup ({b} \ {NoExpiry}) = {b}
    BY <1>2, <2>1 DEF earlier
  <2> QED
    BY <1>2, <2>2 DEF Earliest, Expiry
<1>3. CASE b # NoExpiry /\ a # NoExpiry
  <2>1. a \in R /\ (\A l \in R : a <= l) /\ a \in Nat /\ b \in Nat
    BY <1>3 DEF Earliest, Expiry
  <2>2. R \cup ({b} \ {NoExpiry}) = R \cup {b}
    BY <1>3
  <2>3. CASE b < a
    <3>1. earlier(a, b) = b
      BY <1>3, <2>3 DEF earlier
    <3>2. \A l \in R \cup {b} : b <= l
      BY <2>1, <2>3
    <3> QED
      BY <2>1, <2>2, <3>1, <3>2 DEF Earliest
  <2>4. CASE ~(b < a)
    <3>1. earlier(a, b) = a
      BY <1>3, <2>4 DEF earlier
    <3>2. \A l \in R \cup {b} : a <= l
      BY <2>1, <2>4
    <3> QED
      BY <2>1, <2>2, <3>1, <3>2 DEF Earliest, Expiry
  <2> QED
    BY <2>3, <2>4
<1> QED
  BY <1>1, <1>2, <1>3

\* Time passes for all certificates alike, and the earliest stays the earliest.
LEMMA ShrunkEarliest ==
    ASSUME NEW a \in Expiry, NEW R \in SUBSET Nat, Earliest(a, R)
    PROVE  /\ Shrunk(a) \in Expiry /\ {Shrunk(l) : l \in R} \in SUBSET Nat
           /\ Earliest(Shrunk(a), {Shrunk(l) : l \in R})
           /\ {Shrunk(l) : l \in R} = {} <=> R = {}
<1>1. \A l \in Nat : Shrunk(l) \in Nat
  BY DEF Shrunk
<1>2. \A k, l \in Nat : k <= l => Shrunk(k) <= Shrunk(l)
  BY DEF Shrunk
<1>3. Shrunk(NoExpiry) = NoExpiry
  BY DEF Shrunk, NoExpiry
<1>4. Shrunk(a) \in Expiry
  BY <1>1, <1>3 DEF Expiry
<1>5. CASE R = {}
  BY <1>3, <1>4, <1>5 DEF Earliest
<1>6. CASE R # {}
  <2>1. a \in R /\ \A l \in R : a <= l
    BY <1>6, Zenon DEF Earliest
  <2>2. \A k \in {Shrunk(l) : l \in R} : Shrunk(a) <= k
    BY <1>2, <2>1
  <2> QED
    BY <1>1, <1>4, <1>6, <2>1, <2>2 DEF Earliest
<1> QED
  BY <1>5, <1>6

LEMMA OlderOf ==
    ASSUME NEW a \in Ages
    PROVE  Older(a) \in Ages /\ (a \in Nat => Older(a) \in Nat /\ Older(a) <= a + 1)
<1>1. CASE a = Never
  BY <1>1 DEF Older, Never, Ages
<1>2. CASE a \in Nat
  <2>1. Older(a) = Min({a + 1, Freshness + 1})
    BY <1>2 DEF Older, Never
  <2>2. {a + 1, Freshness + 1} \in SUBSET Nat
    BY <1>2, IdentityExporterAssumption
  <2>3. Min({a + 1, Freshness + 1}) \in Nat /\ Min({a + 1, Freshness + 1}) <= a + 1
    BY <2>2, LeastOf
  <2> QED
    BY <2>1, <2>3 DEF Ages
<1> QED
  BY <1>1, <1>2 DEF Ages

LEMMA LaterRec ==
    ASSUME NEW s \in RecType, Bounded(s)
    PROVE  /\ Later(s) \in RecType /\ Bounded(Later(s))
           /\ Later(s).age = Older(s.age) /\ Later(s).ok = s.ok
           /\ Later(s).left = Shrunk(s.left) /\ Later(s).rests = {Shrunk(l) : l \in s.rests}
<1>1. /\ Later(s).age = Older(s.age) /\ Later(s).ok = s.ok
      /\ Later(s).left = Shrunk(s.left) /\ Later(s).rests = {Shrunk(l) : l \in s.rests}
  BY DEF Later, RecType
<1>2. /\ Shrunk(s.left) \in Expiry /\ {Shrunk(l) : l \in s.rests} \in SUBSET Nat
      /\ Earliest(Shrunk(s.left), {Shrunk(l) : l \in s.rests})
  BY ShrunkEarliest DEF RecType, Bounded
<1>3. Older(s.age) \in Ages
  BY OlderOf DEF RecType
<1> HIDE DEF Older, Shrunk
<1>4. Later(s) \in RecType
  BY <1>2, <1>3, Zenon DEF Later, RecType
<1> QED
  BY <1>1, <1>2, <1>4 DEF Bounded

LEMMA LaterHold ==
    ASSUME NEW s \in HoldType, Bounded(s)
    PROVE  /\ Later(s) \in HoldType /\ Bounded(Later(s))
           /\ Later(s).age = Older(s.age) /\ Later(s).ok = s.ok /\ Later(s).dormant = s.dormant
           /\ Later(s).left = Shrunk(s.left)
           /\ s.rests # {} => Later(s).rests # {}
<1>1. /\ Later(s).age = Older(s.age) /\ Later(s).ok = s.ok /\ Later(s).dormant = s.dormant
      /\ Later(s).left = Shrunk(s.left) /\ Later(s).rests = {Shrunk(l) : l \in s.rests}
  BY DEF Later, HoldType
<1>2. /\ Shrunk(s.left) \in Expiry /\ {Shrunk(l) : l \in s.rests} \in SUBSET Nat
      /\ Earliest(Shrunk(s.left), {Shrunk(l) : l \in s.rests})
      /\ {Shrunk(l) : l \in s.rests} = {} <=> s.rests = {}
  BY ShrunkEarliest DEF HoldType, Bounded
<1>3. Older(s.age) \in Ages
  BY OlderOf DEF HoldType
<1>4. Later(s) \in HoldType
  BY <1>2, <1>3, Zenon DEF Later, HoldType
<1> QED
  BY <1>1, <1>2, <1>4 DEF Bounded
-----------------------------------------------------------------------------
(* Steps of the collectors: the loop stands still, records are made or kept. *)

LEMMA TaskNames ==
    ASSUME TypeOK
    PROVE  /\ view \subseteq {"bundle", "bootstrap", "canary", "workloads", "agents", "aliases"}
           /\ "bundle" \in view => "bootstrap" \in Tasks
           /\ "bootstrap" \in Tasks => "bundle" \in view
           /\ "workloads" \in view => "workloads" \in Tasks /\ "canary" \in Tasks
           /\ Tasks \subseteq view /\ \A c \in view : c # "bundle" => c \in Tasks
           /\ Watched # {} => "workloads" \in view
           /\ "agents" \in view => Nodes > 0
BY IdentityExporterAssumption DEF TypeOK, Tasks, Watched
LEMMA ElapsedNat == ASSUME TypeOK PROVE elapsed \in Nat
BY IdentityExporterAssumption DEF TypeOK

LEMMA AgeOfNew ==
    ASSUME NEW r, NEW k, NEW e \in Nat
    PROVE  Kept(0, "collect", r, e, k) /\ 0 \in 0..e
BY IdentityExporterAssumption DEF Kept

LEMMA AgeAtEnd ==
    ASSUME NEW r \in 0..2, NEW e \in 0..CollectTimeout, NEW a \in 0..e,
           NEW k \in 0..Interval, r > 0 => k = Interval - e
    PROVE  Kept(a, "idle", IF r < 2 THEN r + 1 ELSE 2, 0, IF r = 0 THEN Interval ELSE k)
<1>1. Interval \in Nat /\ CollectTimeout \in Nat /\ e \in Nat /\ a \in Nat /\ a <= e
      /\ e <= CollectTimeout
  BY IdentityExporterAssumption
<1>2. CASE r = 0
  BY <1>1, <1>2 DEF Kept
<1>3. CASE r = 1 \/ r = 2
  BY <1>1, <1>3 DEF Kept
<1> QED
  BY <1>2, <1>3

LEMMA AgeAtBegin ==
    ASSUME NEW r, NEW a, Kept(a, "idle", r, 0, 0)
    PROVE  Kept(a, "collect", r, 0, Interval)
BY IdentityExporterAssumption DEF Kept

LEMMA AgeAtTick ==
    ASSUME NEW r \in 0..2, NEW e \in 0..CollectTimeout, NEW a \in Ages, NEW k \in 0..Interval,
           NEW p \in {"collect", "idle"}, p = "idle" => r > 0, Kept(a, p, r, e, k)
    PROVE  Kept(Older(a), p, r, IF p = "collect" THEN e + 1 ELSE e, IF r = 0 THEN k ELSE k - 1)
<1>1. Interval \in Nat /\ CollectTimeout \in Nat /\ e \in Nat /\ k \in Nat
  BY IdentityExporterAssumption
<1>2. a \in Nat => Older(a) \in Nat /\ Older(a) <= a + 1
  BY OlderOf
<1>3. PICK b : b = Older(a)
  OBVIOUS
<1>4. CASE p = "collect"
  BY <1>1, <1>2, <1>3, <1>4 DEF Kept
<1>5. CASE p = "idle"
  BY <1>1, <1>2, <1>3, <1>5 DEF Kept
<1> QED
  BY <1>4, <1>5
\* What a step of another collector leaves of the canary and its observations.
LEMMA CanaryKept ==
    ASSUME CanaryInv, TypeOK,
           UNCHANGED <<view, phase, canary, job, hold>>,
           "workloads" \in view =>
             /\ task'["canary"] = task["canary"] /\ task'["workloads"] = task["workloads"]
             /\ rec'["canary"] = rec["canary"]
    PROVE  CanaryInv'
BY DEF CanaryInv, Seen, Watched

\* A step of one collector but for the workloads: it makes records, or keeps them.
LEMMA TaskStep ==
    ASSUME IInv, phase = "collect", NEW t \in Tasks, t # "workloads",
           UNCHANGED <<view, phase, elapsed, ticker, rounds, job, hold>>,
           task' \in [Tasks -> Stages], \A x \in Tasks : x # t => task'[x] = task[x],
           rec' \in [view -> RecType],
           \A c \in view :
             \/ rec'[c] = rec[c] /\ (Recorded(c)' => Recorded(c))
             \/ rec'[c].age = 0 /\ Bounded(rec'[c]) /\ c # "workloads",
           alias' \in [asked : Nat, ok : BOOLEAN, left : Expiry, rests : SUBSET Nat],
           Bounded(alias'),
           canary' \in [ready : BOOLEAN, ok : BOOLEAN, left : Nat],
           CanaryInv'
    PROVE  IInv'
<1>1. Tasks' = Tasks /\ Watched' = Watched /\ elapsed \in Nat
  BY IdentityExporterAssumption DEF IInv, TypeOK, Tasks, Watched
<1>2. TypeOK'
  BY <1>1 DEF IInv, TypeOK
<1>3. LoopInv'
  BY <1>1 DEF IInv, LoopInv
<1>4. "workloads" \in view => task'["workloads"] = task["workloads"]
  BY TaskNames DEF IInv
<1>5. JobInv'
  BY <1>1, <1>4 DEF IInv, JobInv, Watched
<1>6. RestInv'
  BY <1>1 DEF IInv, RestInv
<1>7. TimeInv'
  <2>1. ASSUME NEW c \in view
        PROVE  /\ Kept(rec'[c].age, phase, rounds, elapsed, ticker)
               /\ Recorded(c)' => rec'[c].age \in 0..elapsed
    <3>1. CASE rec'[c] = rec[c] /\ (Recorded(c)' => Recorded(c))
      BY <3>1 DEF IInv, TimeInv
    <3>2. CASE rec'[c].age = 0
      BY <1>1, <3>2, AgeOfNew
    <3> QED
      BY <3>1, <3>2
  <2>2. ASSUME NEW h \in Watched
        PROVE  /\ Kept(hold[h].age, phase, rounds, elapsed, ticker)
               /\ Seen(h)' => hold[h].age \in 0..elapsed
    BY <1>4, Zenon DEF IInv, TimeInv, Seen, Watched
  <2> QED
    BY <1>1, <2>1, <2>2 DEF TimeInv
<1>8. WorkInv'
  <2>1. "workloads" \in view => rec'["workloads"] = rec["workloads"]
    OBVIOUS
  <2> QED
    BY <1>1, <1>4, <2>1, ZenonT(60) DEF IInv, WorkInv
<1> QED
  BY <1>2, <1>3, <1>5, <1>6, <1>7, <1>8 DEF IInv

LEMMA Outcomes ==
    /\ Failure \in RecType /\ Failure.age = 0 /\ Failure.ok = FALSE /\ Bounded(Failure)
    /\ HolderFailure \in HoldType /\ HolderFailure.age = 0 /\ HolderFailure.ok = FALSE
    /\ Bounded(HolderFailure) /\ HolderFailure.dormant = FALSE
    /\ HolderDormant \in HoldType /\ HolderDormant.age = 0 /\ HolderDormant.ok = FALSE
    /\ Bounded(HolderDormant)
BY Zenon DEF Failure, HolderFailure, HolderDormant, UnrecordedHolder, RecType, HoldType, Bounded,
   Earliest, Expiry, Ages

LEMMA Successes ==
    ASSUME NEW l \in Expiry, NEW R \in SUBSET Nat, Earliest(l, R)
    PROVE  /\ Success(l, R) \in RecType /\ Success(l, R).age = 0 /\ Success(l, R).ok = TRUE
           /\ Bounded(Success(l, R)) /\ Success(l, R).left = l
BY DEF Success, RecType, Bounded, Ages

LEMMA OneCertificate ==
    ASSUME NEW l \in Lifetimes PROVE l \in Expiry /\ {l} \in SUBSET Nat /\ Earliest(l, {l})
BY IdentityExporterAssumption DEF Expiry, Earliest

\* A task that writes its own record and is done.
LEMMA RecordStep ==
    ASSUME IInv, phase = "collect", NEW t \in Tasks, t \notin {"workloads", "canary"},
           UNCHANGED <<loop, canary, job, alias, hold>>, Done(t),
           NEW o \in RecType, o.age = 0, Bounded(o), record(t, o), task[t] # "begin" \/ t # "bootstrap"
    PROVE  IInv'
<1>1. /\ task' \in [Tasks -> Stages] /\ \A x \in Tasks : x # t => task'[x] = task[x]
      /\ task'[t] = "done"
  BY DEF Done, Goto, IInv, TypeOK, Stages
<1>2. t \in view /\ rec' \in [view -> RecType] /\ rec'[t] = o
      /\ \A c \in view : c # t => rec'[c] = rec[c]
  BY TaskNames DEF record, IInv, TypeOK
<1>3. \A c \in view : c # t => (Recorded(c)' => Recorded(c))
  BY <1>1, TaskNames DEF Recorded, IInv
<1>4. "workloads" \in view => /\ task'["canary"] = task["canary"]
                              /\ task'["workloads"] = task["workloads"]
                              /\ rec'["canary"] = rec["canary"]
  BY <1>1, <1>2, TaskNames, Zenon DEF IInv
<1>5. UNCHANGED <<view, phase, elapsed, ticker, rounds>>
  BY DEF loop
<1>6. CanaryInv'
  BY <1>4, <1>5, CanaryKept, ZenonT(60) DEF IInv
<1>7. /\ alias' \in [asked : Nat, ok : BOOLEAN, left : Expiry, rests : SUBSET Nat]
      /\ Bounded(alias') /\ canary' \in [ready : BOOLEAN, ok : BOOLEAN, left : Nat]
  BY ZenonT(60) DEF IInv, TypeOK, RestInv
<1> QED
  BY <1>1, <1>2, <1>3, <1>5, <1>6, <1>7, TaskStep, ZenonT(60)

LEMMA LoadBundleStep ==
    ASSUME IInv, NEW good \in BOOLEAN, LoadBundle(good)
    PROVE  IInv'
<1>1. /\ phase = "collect" /\ "bootstrap" \in Tasks /\ task["bootstrap"] = "begin"
      /\ UNCHANGED <<view, phase, elapsed, ticker, rounds, canary, job, alias, hold>>
  BY DEF LoadBundle, loop
<1>2. PICK g, b \in RecType :
        /\ g.age = 0 /\ Bounded(g) /\ b.age = 0 /\ Bounded(b)
        /\ \/ rec' = [rec EXCEPT !["bundle"] = g] /\ Goto("bootstrap", "probe")
           \/ rec' = [rec EXCEPT !["bundle"] = g, !["bootstrap"] = b] /\ Goto("bootstrap", "done")
  <2>1. NoExpiry \in Expiry /\ Earliest(NoExpiry, {})
    BY DEF Expiry, Earliest
  <2>2. Success(NoExpiry, {}) \in RecType /\ Success(NoExpiry, {}).age = 0
        /\ Bounded(Success(NoExpiry, {}))
    BY <2>1, Successes, Zenon
  <2> QED
    BY <2>2, Outcomes DEF LoadBundle, Done
<1>3. /\ task' \in [Tasks -> Stages]
      /\ \A x \in Tasks : x # "bootstrap" => task'[x] = task[x]
      /\ task'["bootstrap"] \in {"probe", "done"}
      /\ task'["bootstrap"] = "done" => rec'["bootstrap"] = b
  BY <1>1, <1>2, TaskNames DEF Goto, IInv, TypeOK, Stages
<1>4. /\ rec' \in [view -> RecType] /\ rec'["bundle"] = g
      /\ \A c \in view : c \notin {"bundle", "bootstrap"} => rec'[c] = rec[c]
      /\ rec'["bootstrap"] = b \/ (rec'["bootstrap"] = rec["bootstrap"] /\ task'["bootstrap"] # "done")
  BY <1>1, <1>2, <1>3, TaskNames DEF IInv, TypeOK, Goto
<1>5. \A c \in view : \/ rec'[c] = rec[c] /\ (Recorded(c)' => Recorded(c))
                      \/ rec'[c].age = 0 /\ Bounded(rec'[c]) /\ c # "workloads"
  <2>1. ASSUME NEW c \in view, c \notin {"bundle", "bootstrap"} PROVE Recorded(c)' => Recorded(c)
    BY <1>3, <2>1, TaskNames DEF Recorded, IInv
  <2>2. task'["bootstrap"] # "done" => ~Recorded("bootstrap")'
    BY DEF Recorded
  <2> QED
    BY <1>2, <1>4, <2>1, <2>2
<1>6. CanaryInv'
  <2>1. "workloads" \in view => /\ task'["canary"] = task["canary"]
                                /\ task'["workloads"] = task["workloads"]
                                /\ rec'["canary"] = rec["canary"]
    BY <1>3, <1>4, TaskNames DEF IInv
  <2> QED
    BY <1>1, <2>1, CanaryKept DEF IInv
<1>7. /\ alias' \in [asked : Nat, ok : BOOLEAN, left : Expiry, rests : SUBSET Nat]
      /\ Bounded(alias') /\ canary' \in [ready : BOOLEAN, ok : BOOLEAN, left : Nat]
  BY <1>1 DEF IInv, TypeOK, RestInv
<1> QED
  BY <1>1, <1>3, <1>4, <1>5, <1>6, <1>7, TaskStep, Zenon

LEMMA ProbeStep == ASSUME IInv, Probe PROVE IInv'
<1>1. PICK o \in RecType : o.age = 0 /\ Bounded(o) /\ record("bootstrap", o)
  BY Outcomes, Successes, OneCertificate, Zenon DEF Probe
<1> QED
  BY <1>1, RecordStep DEF Probe

LEMMA AgentsStep == ASSUME IInv, Agents PROVE IInv'
<1>1. PICK o \in RecType : o.age = 0 /\ Bounded(o) /\ record("agents", o)
  <2>1. ASSUME NEW ls \in [1..Nodes -> Lifetimes],
               record("agents", Success(Min({ls[n] : n \in 1..Nodes}), {ls[n] : n \in 1..Nodes}))
        PROVE  \E o \in RecType : o.age = 0 /\ Bounded(o) /\ record("agents", o)
    <3> DEFINE R == {ls[n] : n \in 1..Nodes}
    <3>1. 1 \in 1..Nodes
      BY TaskNames, IdentityExporterAssumption DEF Agents, IInv
    <3>2. R \in SUBSET Nat /\ R # {}
      <4>1. \A n \in 1..Nodes : ls[n] \in Nat
        BY IdentityExporterAssumption, Zenon
      <4>2. ls[1] \in R
        BY <3>1
      <4> QED
        BY <4>1, <4>2
    <3> HIDE DEF R
    <3>3. Min(R) \in Expiry /\ Earliest(Min(R), R)
      BY <3>2, LeastOf, Zenon DEF Expiry, Earliest
    <3>4. Success(Min(R), R) \in RecType /\ Success(Min(R), R).age = 0
          /\ Bounded(Success(Min(R), R))
      BY <3>2, <3>3, Successes, Zenon
    <3> QED
      BY <2>1, <3>4 DEF R
  <2> QED
    BY <2>1, Outcomes, Zenon DEF Agents
<1> QED
  BY <1>1, RecordStep DEF Agents

LEMMA CollectedAliasesStep == ASSUME IInv, CollectedAliases PROVE IInv'
<1>1. PICK o \in RecType : o.age = 0 /\ Bounded(o) /\ record("aliases", o)
  <2>1. alias.left \in Expiry /\ alias.rests \in SUBSET Nat /\ Earliest(alias.left, alias.rests)
    BY DEF IInv, TypeOK, RestInv, Bounded
  <2> QED
    BY <2>1, Outcomes, Successes, Zenon DEF CollectedAliases
<1> QED
  BY <1>1, RecordStep DEF CollectedAliases

LEMMA AliasStep == ASSUME IInv, Alias PROVE IInv'
<1>1. /\ phase = "collect" /\ "aliases" \in Tasks
      /\ UNCHANGED <<view, phase, elapsed, ticker, rounds, task, canary, job, rec, hold>>
  BY Zenon DEF Alias, loop
<1>2. /\ alias.asked \in Nat /\ alias.ok \in BOOLEAN /\ alias.left \in Expiry
      /\ alias.rests \in SUBSET Nat /\ Earliest(alias.left, alias.rests)
      /\ alias = [asked |-> alias.asked, ok |-> alias.ok, left |-> alias.left,
                  rests |-> alias.rests]
  BY ZenonT(60) DEF IInv, TypeOK, RestInv, Bounded
<1>3. /\ alias' \in [asked : Nat, ok : BOOLEAN, left : Expiry, rests : SUBSET Nat]
      /\ Bounded(alias')
  <2>1. ASSUME NEW l \in Lifetimes \cup {NoExpiry},
               alias' = [alias EXCEPT !.asked = @ + 1, !.left = earlier(@, l),
                                      !.rests = @ \cup ({l} \ {NoExpiry})]
        PROVE  <1>3!:
    <3>1. l \in Expiry /\ ({l} \ {NoExpiry}) \in SUBSET Nat
      BY IdentityExporterAssumption DEF Expiry
    <3>2. PICK e \in Expiry : /\ e = earlier(alias.left, l)
                              /\ Earliest(e, alias.rests \cup ({l} \ {NoExpiry}))
      BY <1>2, <3>1, EarlierOf
    <3>3. alias' = [asked |-> alias.asked + 1, ok |-> alias.ok, left |-> e,
                    rests |-> alias.rests \cup ({l} \ {NoExpiry})]
      BY <1>2, <2>1, <3>2, Zenon
    <3> QED
      BY <1>2, <3>1, <3>2, <3>3 DEF Bounded
  <2>2. CASE alias' = [alias EXCEPT !.asked = @ + 1, !.ok = FALSE]
    <3>1. alias' = [asked |-> alias.asked + 1, ok |-> FALSE, left |-> alias.left,
                    rests |-> alias.rests]
      BY <1>2, <2>2, Zenon
    <3> QED
      BY <1>2, <3>1 DEF Bounded
  <2> QED
    BY <2>1, <2>2, Zenon DEF Alias
<1>4. CanaryInv'
  BY <1>1, CanaryKept DEF IInv
<1>5. \A c \in view : Recorded(c)' => Recorded(c)
  BY <1>1 DEF Recorded
<1>6. /\ task' \in [Tasks -> Stages] /\ rec' \in [view -> RecType]
      /\ canary' \in [ready : BOOLEAN, ok : BOOLEAN, left : Nat]
  BY <1>1 DEF IInv, TypeOK
<1> QED
  BY ZenonT(60), <1>1, <1>3, <1>4, <1>5, <1>6, TaskStep

LEMMA FetchCanaryStep == ASSUME IInv, FetchCanary PROVE IInv'
<1>1. /\ phase = "collect" /\ "canary" \in Tasks /\ task["canary"] = "begin"
      /\ UNCHANGED <<view, phase, elapsed, ticker, rounds, job, alias, hold>>
  BY DEF FetchCanary, loop
<1>2. PICK o \in RecType, l \in Nat :
        /\ o.age = 0 /\ Bounded(o) /\ record("canary", o)
        /\ \E ok \in BOOLEAN : canary' = [ready |-> TRUE, ok |-> ok, left |-> l]
        /\ l > 0 => o.ok
  <2>1. CASE \E l \in Lifetimes : /\ record("canary", Success(l, {l}))
                                  /\ canary' = [ready |-> TRUE, ok |-> TRUE, left |-> l]
    <3>1. PICK l \in Lifetimes : /\ record("canary", Success(l, {l}))
                                 /\ canary' = [ready |-> TRUE, ok |-> TRUE, left |-> l]
      BY <2>1, Zenon
    <3>2. l \in Nat /\ l \in Expiry /\ {l} \in SUBSET Nat /\ Earliest(l, {l})
      BY OneCertificate, IdentityExporterAssumption
    <3>3. /\ Success(l, {l}) \in RecType /\ Success(l, {l}).age = 0 /\ Success(l, {l}).ok = TRUE
          /\ Bounded(Success(l, {l}))
      BY <3>2, Successes, Zenon
    <3> QED
      BY <3>1, <3>2, <3>3, Zenon
  <2>2. CASE /\ record("canary", Failure)
             /\ \E ok \in BOOLEAN : canary' = [ready |-> TRUE, ok |-> ok, left |-> 0]
    <3>1. 0 \in Nat /\ ~(0 > 0)
      OBVIOUS
    <3> QED
      BY <2>2, <3>1, Outcomes, Zenon
  <2> QED
    BY <2>1, <2>2, Zenon DEF FetchCanary
<1>3. /\ task' \in [Tasks -> Stages] /\ task'["canary"] = "done"
      /\ \A x \in Tasks : x # "canary" => task'[x] = task[x]
  BY <1>1, Zenon DEF FetchCanary, Done, Goto, IInv, TypeOK, Stages
<1>4. /\ rec' \in [view -> RecType] /\ rec'["canary"] = o
      /\ \A c \in view : c # "canary" => rec'[c] = rec[c]
  BY <1>1, <1>2, TaskNames DEF record, IInv, TypeOK
<1>5. \A c \in view : c # "canary" => (Recorded(c)' => Recorded(c))
  BY <1>3, TaskNames DEF Recorded, IInv
<1>6. /\ canary' \in [ready : BOOLEAN, ok : BOOLEAN, left : Nat] /\ canary'.ready
      /\ canary'.left > 0 => o.ok
  BY <1>2
<1>7. CanaryInv'
  <2>1. CASE "workloads" \in view
    <3>1. ~canary.ready /\ task'["workloads"] = task["workloads"]
      BY <1>1, <1>3, <2>1, TaskNames DEF IInv, CanaryInv
    <3>2. \A h \in Watched : /\ job[h] # "observe"
                             /\ Seen(h)' = Seen(h)
                             /\ Seen(h) => ~hold[h].ok
      BY <1>1, <2>1, <3>1, Zenon DEF IInv, CanaryInv, Seen
    <3>3. canary'.ready /\ (canary'.left > 0 => rec'["canary"].ok)
      BY <1>4, <1>6, Zenon
    <3>4. Watched' = Watched
      BY <1>1, Zenon DEF Watched
    <3> QED
      BY <1>1, <1>3, <3>2, <3>3, <3>4, ZenonT(60) DEF CanaryInv
  <2> QED
    BY <1>1, <2>1, Zenon DEF CanaryInv
<1>8. alias' \in [asked : Nat, ok : BOOLEAN, left : Expiry, rests : SUBSET Nat] /\ Bounded(alias')
  BY <1>1 DEF IInv, TypeOK, RestInv
<1>9. \A c \in view : \/ rec'[c] = rec[c] /\ (Recorded(c)' => Recorded(c))
                      \/ rec'[c].age = 0 /\ Bounded(rec'[c]) /\ c # "workloads"
  <2>1. rec'["canary"].age = 0 /\ Bounded(rec'["canary"])
    BY <1>2, <1>4, Zenon
  <2> QED
    BY <1>4, <1>5, <2>1, Zenon
<1> QED
  BY <1>1, <1>3, <1>4, <1>6, <1>7, <1>8, <1>9, TaskStep, ZenonT(60)
-----------------------------------------------------------------------------
(* The workloads. *)

\* A step of the observation of one holder.
LEMMA HolderStep ==
    ASSUME IInv, NEW h \in Watched, job[h] \in {"queued", "wait", "observe"},
           UNCHANGED <<loop, task, canary, alias, rec>>,
           NEW stage \in {"wait", "observe", "done"}, job' = [job EXCEPT ![h] = stage],
           stage = "observe" => canary.ready /\ rec["canary"].ok,
           \/ hold' = hold /\ stage # "done"
           \/ \E o \in HoldType : /\ hold' = [hold EXCEPT ![h] = o] /\ stage = "done"
                                  /\ o.age = 0 /\ Bounded(o)
                                  /\ o.ok => o.rests # {} /\ canary.ready /\ rec["canary"].ok
    PROVE  IInv'
<1>1. /\ "workloads" \in view /\ phase = "collect" /\ task["workloads"] \notin {"begin", "done"}
      /\ elapsed \in Nat
  <2>1. "workloads" \in view /\ elapsed \in Nat
    BY TaskNames, ElapsedNat, Zenon DEF IInv
  <2> QED
    BY <2>1, ZenonT(60) DEF IInv, LoopInv, JobInv
<1>2. /\ UNCHANGED <<view, phase, elapsed, ticker, rounds>> /\ Tasks' = Tasks /\ Watched' = Watched
  BY Zenon DEF loop, Tasks, Watched
<1>3. /\ job' \in [Watched -> Progress] /\ job'[h] = stage
      /\ \A x \in Watched : x # h => job'[x] = job[x]
  BY ZenonT(60) DEF IInv, TypeOK, Progress
<1>4. /\ hold' \in [Watched -> HoldType] /\ \A x \in Watched : x # h => hold'[x] = hold[x]
      /\ \/ hold'[h] = hold[h] /\ stage # "done"
         \/ /\ hold'[h].age = 0 /\ Bounded(hold'[h])
            /\ hold'[h].ok => hold'[h].rests # {} /\ canary.ready /\ rec["canary"].ok
  BY ZenonT(60) DEF IInv, TypeOK
<1>5. TypeOK'
  BY <1>2, <1>3, <1>4, Zenon DEF IInv, TypeOK
<1>6. LoopInv' /\ JobInv'
  BY <1>1, <1>2, <1>3, Zenon DEF IInv, LoopInv, JobInv
<1>7. RestInv'
  BY <1>2, <1>4, Zenon DEF IInv, RestInv
<1>8. \A x \in Watched : x # h => Seen(x)' = Seen(x)
  BY <1>3, Zenon DEF Seen
<1>9. stage # "done" => ~Seen(h)'
  BY <1>1, <1>3, ZenonT(60) DEF Seen
<1>10. TimeInv'
  <2>1. \A c \in view : Recorded(c)' = Recorded(c)
    BY Zenon DEF Recorded
  <2>2. ASSUME NEW x \in Watched
        PROVE  /\ Kept(hold'[x].age, phase, rounds, elapsed, ticker)
               /\ Seen(x)' => hold'[x].age \in 0..elapsed
    <3>1. CASE x = h
      <4>1. CASE hold'[h] = hold[h] /\ stage # "done"
        BY <1>1, <1>9, <3>1, <4>1, ZenonT(60) DEF IInv, TimeInv
      <4>2. CASE hold'[h].age = 0
        <5>1. Kept(0, "collect", rounds, elapsed, ticker) /\ 0 \in 0..elapsed
          BY ZenonT(60), <1>1, AgeOfNew
        <5> QED
          BY <1>1, <3>1, <4>2, <5>1, Zenon
      <4> QED
        BY <1>4, <4>1, <4>2, Zenon
    <3>2. CASE x # h
      BY <1>1, <1>4, <1>8, <3>2, Zenon DEF IInv, TimeInv
    <3> QED
      BY <3>1, <3>2, Zenon
  <2> QED
    BY <1>2, <2>1, <2>2, Zenon DEF IInv, TimeInv
<1>11. CanaryInv'
  <2>1. \A x \in Watched : /\ job'[x] = "observe" => canary.ready /\ rec["canary"].ok
                           /\ Seen(x)' /\ hold'[x].ok => canary.ready /\ rec["canary"].ok
    BY <1>1, <1>3, <1>4, <1>8, <1>9, ZenonT(60) DEF IInv, CanaryInv
  <2> QED
    BY <1>1, <1>2, <2>1, Zenon DEF IInv, CanaryInv
<1>12. WorkInv'
  BY <1>1, <1>2, Zenon DEF WorkInv
<1> QED
  BY <1>5, <1>6, <1>7, <1>10, <1>11, <1>12 DEF IInv

\* recordHolder refuses a success that has expired or has no expiry.
LEMMA Refused ==
    ASSUME NEW h, NEW o \in HoldType, o.age = 0, Bounded(o)
    PROVE  \E q \in HoldType :
             /\ recordHolder(h, o) = [hold EXCEPT ![h] = q] /\ q.age = 0 /\ Bounded(q)
             /\ q.ok => o.ok /\ q.rests # {}
<1>1. CASE o.ok /\ ~(o.left # NoExpiry /\ o.left > 0)
  <2>1. recordHolder(h, o) = [hold EXCEPT ![h] = HolderFailure]
    BY <1>1 DEF recordHolder, HolderFailure
  <2> QED
    BY <2>1, Outcomes, Zenon
<1>2. CASE ~(o.ok /\ ~(o.left # NoExpiry /\ o.left > 0))
  <2>1. recordHolder(h, o) = [hold EXCEPT ![h] = o]
    BY <1>2, Zenon DEF recordHolder
  <2>2. o.ok => o.rests # {}
    BY <1>2 DEF Bounded, Earliest
  <2> QED
    BY <2>1, <2>2, Zenon
<1> QED
  BY <1>1, <1>2, Zenon

LEMMA TakeJobStep == ASSUME IInv, NEW h \in Watched, TakeJob(h) PROVE IInv'
<1>1. job[h] = "queued" /\ UNCHANGED <<loop, task, canary, alias, rec>>
  BY DEF TakeJob
<1>2. CASE job' = [job EXCEPT ![h] = "wait"] /\ UNCHANGED hold
  BY <1>1, <1>2, HolderStep, Zenon
<1>3. ASSUME NEW o \in {HolderDormant, HolderFailure},
             job' = [job EXCEPT ![h] = "done"], hold' = recordHolder(h, o)
      PROVE  IInv'
  <2>1. o \in HoldType /\ o.age = 0 /\ Bounded(o) /\ ~o.ok
    BY Outcomes
  <2>2. PICK q \in HoldType : /\ hold' = [hold EXCEPT ![h] = q] /\ q.age = 0 /\ Bounded(q) /\ ~q.ok
    BY ZenonT(60), <1>3, <2>1, Refused
  <2> QED
    BY <1>1, <1>3, <2>2, HolderStep, Zenon
<1> QED
  BY <1>2, <1>3 DEF TakeJob

LEMMA AwaitCanaryStep == ASSUME IInv, NEW h \in Watched, AwaitCanary(h) PROVE IInv'
<1>1. job[h] = "wait" /\ UNCHANGED <<loop, task, canary, alias, rec>>
  BY DEF AwaitCanary
<1>2. CASE /\ canary.ready /\ canary.ok /\ canary.left > 0
           /\ job' = [job EXCEPT ![h] = "observe"] /\ UNCHANGED hold
  <2>1. rec["canary"].ok
    BY <1>2, TaskNames, Zenon DEF IInv, CanaryInv
  <2> QED
    BY <1>1, <1>2, <2>1, HolderStep, Zenon
<1>3. CASE job' = [job EXCEPT ![h] = "done"] /\ hold' = recordHolder(h, HolderFailure)
  <2>1. PICK q \in HoldType : /\ hold' = [hold EXCEPT ![h] = q] /\ q.age = 0 /\ Bounded(q) /\ ~q.ok
    BY <1>3, Outcomes, Refused, Zenon
  <2> QED
    BY <1>1, <1>3, <2>1, HolderStep, Zenon
<1> QED
  BY <1>2, <1>3 DEF AwaitCanary

\* The certificates of the observer and of the peer bound the observation.
LEMMA ObservedBounded ==
    ASSUME IInv, NEW l \in Lifetimes
    PROVE  Observed(l) \in HoldType /\ Observed(l).age = 0 /\ Bounded(Observed(l))
<1>1. canary.left \in Nat /\ l \in Nat /\ canary.left # NoExpiry /\ l # NoExpiry
  BY IdentityExporterAssumption DEF IInv, TypeOK, NoExpiry
<1>2. Earliest(canary.left, {canary.left}) /\ canary.left \in Expiry /\ l \in Expiry
  BY <1>1 DEF Earliest, Expiry
<1>3. {canary.left} \cup ({l} \ {NoExpiry}) = {canary.left, l}
  BY <1>1
<1>4. PICK e \in Expiry : e = earlier(canary.left, l) /\ Earliest(e, {canary.left, l})
  <2>1. {canary.left} \in SUBSET Nat
    BY <1>1
  <2>2. /\ earlier(canary.left, l) \in Expiry
        /\ Earliest(earlier(canary.left, l), {canary.left} \cup ({l} \ {NoExpiry}))
    BY <1>2, <2>1, EarlierOf
  <2> QED
    BY <1>3, <2>2
<1>5. PICK f \in HoldType : f = HolderFailure /\ f.age = 0
  BY Outcomes
<1>6. PICK R \in SUBSET Nat : R = {canary.left, l}
  BY <1>1, Zenon
<1>7. Observed(l) = [f EXCEPT !.ok = TRUE, !.left = e, !.rests = R]
  BY <1>4, <1>5, <1>6 DEF Observed
<1>8. /\ Observed(l) \in HoldType /\ Observed(l).age = 0 /\ Observed(l).left = e
      /\ Observed(l).rests = R
  BY <1>5, <1>7, Zenon DEF HoldType
<1> QED
  BY <1>4, <1>6, <1>8, Zenon DEF Bounded

LEMMA ObserveStep == ASSUME IInv, NEW h \in Watched, Observe(h) PROVE IInv'
<1>1. /\ job[h] = "observe" /\ UNCHANGED <<loop, task, canary, alias, rec>>
      /\ job' = [job EXCEPT ![h] = "done"]
  BY DEF Observe
<1>2. canary.ready /\ rec["canary"].ok
  BY <1>1, TaskNames, Zenon DEF IInv, CanaryInv
<1>3. PICK o \in HoldType : o.age = 0 /\ Bounded(o) /\ hold' = recordHolder(h, o)
  BY Outcomes, ObservedBounded DEF Observe
<1>4. PICK q \in HoldType : /\ hold' = [hold EXCEPT ![h] = q] /\ q.age = 0 /\ Bounded(q)
                            /\ q.ok => q.rests # {}
  BY <1>3, Refused, ZenonT(60)
<1> QED
  BY <1>1, <1>2, <1>4, HolderStep, Zenon

\* A step of collectWorkloads that leaves the canary alone, at its beginning or end.
LEMMA ActivityStep == ASSUME IInv, Activity PROVE IInv'
<1>1. /\ phase = "collect" /\ "workloads" \in Tasks /\ "workloads" \in view
      /\ task["workloads"] = "begin" /\ elapsed \in Nat
      /\ UNCHANGED <<view, phase, elapsed, ticker, rounds, canary, alias>>
      /\ Tasks' = Tasks /\ Watched' = Watched
  BY ElapsedNat, ZenonT(60) DEF Activity, loop, Tasks, Watched, IInv
<1>2. CASE /\ UNCHANGED <<rec, hold>> /\ job' = [h \in Watched |-> "queued"]
           /\ Goto("workloads", "jobs")
  <2>1. /\ task' \in [Tasks -> Stages] /\ task'["workloads"] = "jobs"
        /\ \A x \in Tasks : x # "workloads" => task'[x] = task[x]
        /\ job' \in [Watched -> Progress] /\ \A h \in Watched : job'[h] = "queued"
    BY <1>1, <1>2 DEF Goto, IInv, TypeOK, Stages, Progress
  <2>2. TypeOK' /\ LoopInv' /\ JobInv' /\ RestInv'
    BY <1>1, <1>2, <2>1, ZenonT(60) DEF IInv, TypeOK, LoopInv, JobInv, RestInv
  <2>3. /\ \A c \in view : Recorded(c)' => Recorded(c)
        /\ \A h \in Watched : ~Seen(h)'
    BY <2>1, TaskNames DEF Recorded, Seen, IInv
  <2>4. TimeInv'
    BY <1>1, <1>2, <2>3, Zenon DEF IInv, TimeInv
  <2>5. CanaryInv'
    BY <1>1, <1>2, <2>1, <2>3, TaskNames, Zenon DEF IInv, CanaryInv
  <2>6. WorkInv'
    BY <1>1, <2>1, Zenon DEF WorkInv
  <2> QED
    BY <2>2, <2>4, <2>5, <2>6 DEF IInv
<1>3. CASE /\ hold' = [h \in Watched |-> HolderFailure] /\ record("workloads", Failure)
           /\ Done("workloads") /\ UNCHANGED job
  <2>1. /\ task' \in [Tasks -> Stages] /\ task'["workloads"] = "done"
        /\ \A x \in Tasks : x # "workloads" => task'[x] = task[x]
    BY <1>1, <1>3 DEF Done, Goto, IInv, TypeOK, Stages
  <2>2. /\ rec' \in [view -> RecType] /\ rec'["workloads"] = Failure
        /\ \A c \in view : c # "workloads" => rec'[c] = rec[c]
    BY <1>1, <1>3, Outcomes, Zenon DEF record, IInv, TypeOK
  <2>3. /\ hold' \in [Watched -> HoldType]
        /\ \A h \in Watched : hold'[h].age = 0 /\ ~hold'[h].ok /\ Bounded(hold'[h])
    BY <1>3, Outcomes
  <2>4. TypeOK' /\ LoopInv'
    BY <1>1, <1>3, <2>1, <2>2, <2>3, Zenon DEF IInv, TypeOK, LoopInv
  <2>5. JobInv'
    BY <1>1, <1>3, <2>1 DEF IInv, JobInv
  <2>6. RestInv'
    BY <1>1, <2>2, <2>3, Outcomes, Zenon DEF IInv, RestInv
  <2>7. TimeInv'
    <3>1. ASSUME NEW c \in view
          PROVE  /\ Kept(rec'[c].age, phase, rounds, elapsed, ticker)
                 /\ Recorded(c)' => rec'[c].age \in 0..elapsed
      <4>1. CASE c = "workloads"
        BY <1>1, <2>2, <4>1, AgeOfNew, Outcomes, Zenon
      <4>2. CASE c # "workloads"
        <5>1. Recorded(c)' => Recorded(c)
          BY <2>1, <4>2, TaskNames DEF Recorded, IInv
        <5> QED
          BY <1>1, <2>2, <4>2, <5>1, Zenon DEF IInv, TimeInv
      <4> QED
        BY <4>1, <4>2, Zenon
    <3> QED
      BY <1>1, <2>3, <3>1, AgeOfNew, Zenon DEF TimeInv
  <2>8. CanaryInv'
    BY <1>1, <1>3, <2>1, <2>2, <2>3, TaskNames, Zenon DEF IInv, CanaryInv
  <2>9. WorkInv'
    BY <2>2, Outcomes, Zenon DEF WorkInv
  <2> QED
    BY <2>4, <2>5, <2>6, <2>7, <2>8, <2>9 DEF IInv
<1> QED
  BY <1>2, <1>3 DEF Activity

\* The expiry of the workloads is the earliest of those of its holders.
LEMMA UntilOf ==
    ASSUME IInv
    PROVE  LET rests == UNION {hold[h].rests : h \in Live}
           IN  /\ Until \in Expiry /\ rests \in SUBSET Nat /\ Earliest(Until, rests)
               /\ \A h \in Live : hold[h].left # NoExpiry => Until # NoExpiry /\ Until <= hold[h].left
<1> DEFINE R == UNION {hold[h].rests : h \in Live}
<1>1. \A h \in Live : /\ hold[h].left \in Expiry /\ hold[h].rests \in SUBSET Nat
                      /\ Earliest(hold[h].left, hold[h].rests)
  BY Zenon DEF Live, IInv, TypeOK, HoldType, RestInv, Bounded
<1>2. Expiries \in SUBSET Nat
  BY <1>1, Zenon DEF Expiries, Expiry
<1>3. R \in SUBSET Nat
  BY <1>1, Zenon
<1>4. \A h \in Live : hold[h].left # NoExpiry <=> hold[h].rests # {}
  <2>1. \A h \in Live : hold[h].left = NoExpiry => hold[h].left \notin hold[h].rests
    <3>1. NoExpiry \notin Nat
      BY DEF NoExpiry
    <3> QED
      BY <1>1, <3>1, Zenon
  <2> QED
    BY <1>1, <2>1, Zenon DEF Earliest
<1>5. CASE Expiries = {}
  <2>1. \A h \in Live : hold[h].left = NoExpiry
    BY <1>5, ZenonT(60) DEF Expiries
  <2>2. R = {} /\ Until = NoExpiry
    BY <1>4, <1>5, <2>1, ZenonT(60) DEF Until
  <2> QED
    BY <2>1, <2>2, ZenonT(60) DEF Earliest, Expiry
<1>6. CASE Expiries # {}
  <2>1. Until \in Expiries /\ (\A l \in Expiries : Until <= l) /\ Until \in Nat /\ Until # NoExpiry
    <3>1. Until = Min(Expiries)
      BY <1>6 DEF Until
    <3>2. Min(Expiries) \in Expiries /\ \A l \in Expiries : Min(Expiries) <= l
      BY <1>2, <1>6, LeastOf
    <3>3. NoExpiry \notin Expiries
      BY DEF Expiries
    <3> QED
      BY <1>2, <3>1, <3>2, <3>3, Zenon
  <2>2. PICK g \in Live : Until = hold[g].left /\ hold[g].rests # {}
    BY <1>4, <2>1, Zenon DEF Expiries
  <2>3. Until \in R
    BY <1>1, <2>2 DEF Earliest
  <2>4. \A h \in Live : hold[h].left # NoExpiry => Until <= hold[h].left
    BY <2>1 DEF Expiries
  <2>5. ASSUME NEW l \in R PROVE Until <= l
    <3>1. PICK h \in Live : l \in hold[h].rests
      OBVIOUS
    <3>2. hold[h].left # NoExpiry /\ hold[h].left <= l /\ hold[h].left \in Nat /\ l \in Nat
      BY <1>1, <1>3, <1>4, <3>1, Zenon DEF Earliest, Expiry
    <3> QED
      BY <2>1, <2>4, <3>2
  <2> QED
    BY <1>3, <2>1, <2>3, <2>4, <2>5, Zenon DEF Earliest, Expiry
<1> QED
  BY <1>5, <1>6, <1>3, Zenon

LEMMA CollectedWorkloadsStep == ASSUME IInv, CollectedWorkloads PROVE IInv'
<1>1. /\ phase = "collect" /\ "workloads" \in Tasks /\ "workloads" \in view
      /\ task["workloads"] = "jobs" /\ elapsed \in Nat
      /\ UNCHANGED <<view, phase, elapsed, ticker, rounds, canary, alias, job, hold>>
      /\ Tasks' = Tasks /\ Watched' = Watched /\ \A h \in Watched : job[h] = "done"
  BY ElapsedNat, ZenonT(60) DEF CollectedWorkloads, loop, Tasks, Watched, IInv
<1>2. PICK o \in RecType :
        /\ o.age = 0 /\ Bounded(o) /\ record("workloads", o)
        /\ o.ok => \A h \in Live : hold[h].ok /\ o.left # NoExpiry /\ o.left <= hold[h].left
  <2>1. CASE /\ record("workloads", Failure)
    BY <2>1, Outcomes, Zenon
  <2>2. CASE /\ \A h \in Live : hold[h].ok
             /\ record("workloads", Success(Until, UNION {hold[h].rests : h \in Live}))
    <3> DEFINE R == UNION {hold[h].rests : h \in Live}
    <3>1. /\ Until \in Expiry /\ R \in SUBSET Nat /\ Earliest(Until, R)
          /\ \A h \in Live : hold[h].left # NoExpiry => Until # NoExpiry /\ Until <= hold[h].left
      BY UntilOf, Zenon
    <3>2. \A h \in Live : hold[h].left # NoExpiry
      <4>1. ASSUME NEW h \in Live
            PROVE  hold[h] \in HoldType /\ hold[h].rests # {} /\ Earliest(hold[h].left, hold[h].rests)
        BY <2>2, Zenon DEF Live, IInv, TypeOK, RestInv, Bounded
      <4>2. ASSUME NEW h \in Live
            PROVE  hold[h].left \in hold[h].rests /\ hold[h].rests \in SUBSET Nat
        BY <4>1, Zenon DEF Earliest, HoldType
      <4> QED
        BY <4>2 DEF NoExpiry
    <3> HIDE DEF R
    <3>3. /\ Success(Until, R) \in RecType /\ Success(Until, R).age = 0
          /\ Bounded(Success(Until, R)) /\ Success(Until, R).left = Until
      BY <3>1, Successes, Zenon
    <3>4. record("workloads", Success(Until, R))
      BY <2>2, Zenon DEF R
    <3> QED
      BY <2>2, <3>1, <3>2, <3>3, <3>4, Zenon
  <2> QED
    BY <2>1, <2>2, Zenon DEF CollectedWorkloads
<1>3. /\ task' \in [Tasks -> Stages] /\ task'["workloads"] = "done"
      /\ \A x \in Tasks : x # "workloads" => task'[x] = task[x]
  BY <1>1, Zenon DEF CollectedWorkloads, Done, Goto, IInv, TypeOK, Stages
<1>4. /\ rec' \in [view -> RecType] /\ rec'["workloads"] = o
      /\ \A c \in view : c # "workloads" => rec'[c] = rec[c]
  BY <1>1, <1>2 DEF record, IInv, TypeOK
<1>5. TypeOK' /\ LoopInv' /\ JobInv'
  BY <1>1, <1>3, <1>4, Zenon DEF IInv, TypeOK, LoopInv, JobInv
<1>6. RestInv'
  BY <1>1, <1>2, <1>4, Zenon DEF IInv, RestInv
<1>7. TimeInv'
  <2>1. ASSUME NEW c \in view
        PROVE  /\ Kept(rec'[c].age, phase, rounds, elapsed, ticker)
               /\ Recorded(c)' => rec'[c].age \in 0..elapsed
    <3>1. CASE c = "workloads"
      BY <1>1, <1>2, <1>4, <3>1, AgeOfNew, Zenon
    <3>2. CASE c # "workloads"
      <4>1. Recorded(c)' => Recorded(c)
        BY <1>3, <3>2, TaskNames DEF Recorded, IInv
      <4> QED
        BY <1>1, <1>4, <3>2, <4>1, Zenon DEF IInv, TimeInv
    <3> QED
      BY <3>1, <3>2, Zenon
  <2>2. \A h \in Watched : Seen(h)
    BY <1>1 DEF Seen
  <2> QED
    BY <1>1, <2>1, <2>2, Zenon DEF IInv, TimeInv
<1>8. CanaryInv'
  <2>1. \A h \in Watched : Seen(h)
    BY <1>1 DEF Seen
  <2> QED
    BY <1>1, <1>3, <1>4, <2>1, TaskNames, Zenon DEF IInv, CanaryInv
<1>9. WorkInv'
  BY <1>1, <1>2, <1>4, Zenon DEF WorkInv, Live
<1> QED
  BY <1>5, <1>6, <1>7, <1>8, <1>9 DEF IInv
-----------------------------------------------------------------------------
(* The loop. *)

LEMMA EndRoundStep == ASSUME IInv, EndRound PROVE IInv'
<1>1. /\ phase = "collect" /\ phase' = "idle" /\ elapsed' = 0 /\ UNCHANGED <<view, rec, hold>>
      /\ canary' = NoCanary /\ alias' = NoAlias /\ task' = AtRest /\ job' = NoJobs
      /\ rounds' = (IF rounds < 2 THEN rounds + 1 ELSE 2)
      /\ ticker' = (IF rounds = 0 THEN Interval ELSE ticker)
      /\ \A t \in Tasks : task[t] = "done"
      /\ Tasks' = Tasks /\ Watched' = Watched
  BY DEF EndRound, Tasks, Watched
<1>2. /\ task' \in [Tasks -> Stages] /\ \A t \in Tasks : task'[t] = "begin"
      /\ job' \in [Watched -> Progress] /\ \A h \in Watched : job'[h] = "none"
  BY <1>1 DEF AtRest, NoJobs, Stages, Progress
<1>3. /\ canary' \in [ready : BOOLEAN, ok : BOOLEAN, left : Nat] /\ ~canary'.ready
      /\ alias' \in [asked : Nat, ok : BOOLEAN, left : Expiry, rests : SUBSET Nat]
      /\ Bounded(alias')
  BY <1>1, Zenon DEF NoCanary, NoAlias, Bounded, Earliest, Expiry
<1>4. /\ rounds' \in 1..2 /\ ticker' \in 0..Interval /\ elapsed' \in 0..CollectTimeout
  <2>1. rounds \in 0..2 /\ ticker \in 0..Interval /\ elapsed \in 0..CollectTimeout
    BY Zenon DEF IInv, TypeOK
  <2>2. rounds' \in 1..2
    BY <1>1, <2>1
  <2>3. Interval \in 0..Interval
    BY IdentityExporterAssumption
  <2>4. ticker' \in 0..Interval
    BY <1>1, <2>1, <2>3, Zenon
  <2>5. elapsed' \in 0..CollectTimeout
    BY <1>1, <2>1, IdentityExporterAssumption
  <2> QED
    BY <2>2, <2>4, <2>5
<1>5. TypeOK'
  <2>1. rounds' \in 0..2
    BY <1>4
  <2> QED
    BY <1>1, <1>2, <1>3, <1>4, <2>1, Zenon DEF IInv, TypeOK
<1>6. LoopInv'
  BY <1>1, <1>2, <1>4 DEF LoopInv
<1>7. JobInv'
  BY <1>1, <1>2 DEF JobInv
<1>8. RestInv'
  BY <1>1, <1>3, Zenon DEF IInv, RestInv
<1>9. TimeInv'
  <2>1. /\ \A c \in view : rec[c].age \in 0..elapsed
        /\ \A h \in Watched : hold[h].age \in 0..elapsed
    <3>1. \A c \in view : Recorded(c)
      BY <1>1, TaskNames DEF IInv, Recorded
    <3>2. \A h \in Watched : Seen(h)
      BY <1>1, TaskNames DEF IInv, Seen
    <3> QED
      BY <1>1, <3>1, <3>2, Zenon DEF IInv, TimeInv
  <2>2. /\ rounds \in 0..2 /\ elapsed \in 0..CollectTimeout /\ ticker \in 0..Interval
        /\ rounds > 0 => ticker = Interval - elapsed
    BY <1>1, Zenon DEF IInv, TypeOK, LoopInv
  <2>3. \A a \in 0..elapsed : Kept(a, phase', rounds', elapsed', ticker')
    BY <1>1, <2>2, AgeAtEnd
  <2> QED
    BY <1>1, <2>1, <2>3, Zenon DEF TimeInv
<1>10. CanaryInv'
  <2>1. CASE "workloads" \in view
    <3>1. \A h \in Watched : hold[h].ok => rec["canary"].ok
      BY <1>1, <2>1, TaskNames, Zenon DEF IInv, CanaryInv, Seen
    <3>2. task'["canary"] = "begin"
      BY <1>2, <2>1, TaskNames DEF IInv
    <3> QED
      BY <1>1, <1>2, <1>3, <3>1, <3>2, Zenon DEF CanaryInv
  <2> QED
    BY <1>1, <2>1, Zenon DEF CanaryInv
<1>11. WorkInv'
  <2>1. "workloads" \in view => task["workloads"] = "done"
    BY <1>1, TaskNames DEF IInv
  <2> QED
    BY <1>1, <2>1, Zenon DEF IInv, WorkInv
<1> QED
  BY <1>5, <1>6, <1>7, <1>8, <1>9, <1>10, <1>11 DEF IInv

LEMMA BeginRoundStep == ASSUME IInv, BeginRound PROVE IInv'
<1>1. /\ phase = "idle" /\ ticker = 0 /\ phase' = "collect" /\ ticker' = Interval
      /\ UNCHANGED <<view, elapsed, rounds, task, canary, job, alias, rec, hold>>
      /\ Tasks' = Tasks /\ Watched' = Watched
  BY DEF BeginRound, local, Tasks, Watched
<1>2. /\ elapsed = 0 /\ rounds > 0 /\ (\A t \in Tasks : task[t] = "begin")
      /\ \A h \in Watched : job[h] = "none"
  BY <1>1 DEF IInv, LoopInv
<1>3. TypeOK' /\ LoopInv' /\ JobInv' /\ RestInv'
  <2>1. ticker' \in 0..Interval /\ ticker' = Interval - elapsed'
    BY <1>1, <1>2, IdentityExporterAssumption
  <2>2. TypeOK'
    BY <1>1, <2>1, ZenonT(60) DEF IInv, TypeOK
  <2>3. LoopInv'
    BY <1>1, <2>1, ZenonT(60) DEF LoopInv
  <2>4. JobInv' /\ RestInv'
    BY <1>1, ZenonT(60) DEF IInv, JobInv, RestInv
  <2> QED
    BY <2>2, <2>3, <2>4
<1>4. /\ \A c \in view : ~Recorded(c)'
      /\ \A h \in Watched : ~Seen(h)'
  BY <1>1, <1>2, TaskNames DEF IInv, Recorded, Seen
<1>5. TimeInv'
  <2>1. /\ \A c \in view : Kept(rec[c].age, "idle", rounds, 0, 0)
        /\ \A h \in Watched : Kept(hold[h].age, "idle", rounds, 0, 0)
    BY <1>1, <1>2, Zenon DEF IInv, TimeInv
  <2>2. /\ \A c \in view : Kept(rec[c].age, "collect", rounds, 0, Interval)
        /\ \A h \in Watched : Kept(hold[h].age, "collect", rounds, 0, Interval)
    BY <2>1, AgeAtBegin, Zenon
  <2> QED
    BY <1>1, <1>2, <1>4, <2>2, Zenon DEF TimeInv
<1>6. CanaryInv'
  BY <1>1, <1>2, <1>4, TaskNames, Zenon DEF IInv, CanaryInv
<1>7. WorkInv'
  BY <1>1, <1>2, TaskNames, Zenon DEF IInv, WorkInv
<1> QED
  BY <1>3, <1>5, <1>6, <1>7 DEF IInv

\* One tick: every age and every expiry moves together.
LEMMA TickStep == ASSUME IInv, Tick PROVE IInv'
<1>1. /\ ~Pressing /\ UNCHANGED <<view, phase, rounds, task, job>>
      /\ elapsed' = (IF phase = "collect" THEN elapsed + 1 ELSE elapsed)
      /\ ticker' = (IF rounds = 0 THEN ticker ELSE ticker - 1)
      /\ canary' = [canary EXCEPT !.left = Shrunk(@)]
      /\ alias' = [alias EXCEPT !.left = Shrunk(@), !.rests = {Shrunk(l) : l \in @}]
      /\ rec' = [c \in view |-> Later(rec[c])] /\ hold' = [h \in Watched |-> Later(hold[h])]
      /\ Tasks' = Tasks /\ Watched' = Watched
  BY DEF Tick, Tasks, Watched
<1>2. /\ phase \in {"collect", "idle"} /\ (phase = "collect" => elapsed # CollectTimeout)
      /\ phase = "idle" => ticker # 0
  BY <1>1 DEF IInv, TypeOK, Pressing, CtxDone
<1>3. /\ elapsed \in 0..CollectTimeout /\ ticker \in 0..Interval /\ rounds \in 0..2
      /\ Interval \in Nat /\ CollectTimeout \in Nat /\ CollectTimeout < Interval
      /\ phase = "collect" /\ rounds > 0 => ticker = Interval - elapsed
      /\ phase # "collect" => rounds > 0 /\ elapsed = 0
  BY IdentityExporterAssumption, Zenon DEF IInv, TypeOK, LoopInv
<1>4. /\ elapsed' \in 0..CollectTimeout /\ ticker' \in 0..Interval
      /\ phase = "collect" /\ rounds > 0 => ticker' = Interval - elapsed'
      /\ phase # "collect" => elapsed' = 0
      /\ phase = "collect" /\ rounds = 0 => ticker' = ticker
  BY <1>1, <1>2, <1>3
<1>5. /\ canary' \in [ready : BOOLEAN, ok : BOOLEAN, left : Nat]
      /\ canary'.ready = canary.ready /\ canary'.ok = canary.ok
      /\ canary'.left > 0 => canary.left > 0
  <2>1. PICK n \in Nat : n = Shrunk(canary.left) /\ (n > 0 => canary.left > 0)
    BY DEF IInv, TypeOK, Shrunk
  <2> QED
    BY <1>1, <2>1 DEF IInv, TypeOK
<1>6. /\ alias' \in [asked : Nat, ok : BOOLEAN, left : Expiry, rests : SUBSET Nat]
      /\ Bounded(alias')
  <2>1. /\ alias.left \in Expiry /\ alias.rests \in SUBSET Nat
        /\ Earliest(alias.left, alias.rests)
    BY Zenon DEF IInv, TypeOK, RestInv, Bounded
  <2>2. PICK e \in Expiry, R \in SUBSET Nat :
          e = Shrunk(alias.left) /\ R = {Shrunk(l) : l \in alias.rests} /\ Earliest(e, R)
    BY <2>1, ShrunkEarliest, Zenon
  <2>3. alias' = [alias EXCEPT !.left = e, !.rests = R]
    BY <1>1, <2>2
  <2>4. /\ alias' \in [asked : Nat, ok : BOOLEAN, left : Expiry, rests : SUBSET Nat]
        /\ alias'.left = e /\ alias'.rests = R
    BY <2>2, <2>3, Zenon DEF IInv, TypeOK
  <2> QED
    BY <2>2, <2>4 DEF Bounded
<1>7. /\ rec' \in [view -> RecType]
      /\ \A c \in view : /\ rec'[c].age = Older(rec[c].age) /\ rec'[c].ok = rec[c].ok
                         /\ rec'[c].left = Shrunk(rec[c].left) /\ Bounded(rec'[c])
  <2>1. \A c \in view : rec[c] \in RecType /\ Bounded(rec[c])
    BY ZenonT(60) DEF IInv, TypeOK, RestInv
  <2> QED
    BY <1>1, <2>1, LaterRec
<1>8. /\ hold' \in [Watched -> HoldType]
      /\ \A h \in Watched :
           /\ hold'[h].age = Older(hold[h].age) /\ hold'[h].ok = hold[h].ok
           /\ hold'[h].dormant = hold[h].dormant
           /\ hold'[h].left = Shrunk(hold[h].left) /\ Bounded(hold'[h])
           /\ hold[h].rests # {} => hold'[h].rests # {}
  <2>1. \A h \in Watched : hold[h] \in HoldType /\ Bounded(hold[h])
    BY DEF IInv, TypeOK, RestInv
  <2> QED
    BY <1>1, <2>1, LaterHold
<1>9. TypeOK'
  BY <1>1, <1>4, <1>5, <1>6, <1>7, <1>8, Zenon DEF IInv, TypeOK
<1>10. LoopInv' /\ JobInv'
  BY <1>1, <1>4 DEF IInv, LoopInv, JobInv
<1>11. RestInv'
  BY <1>1, <1>6, <1>7, <1>8, ZenonT(60) DEF IInv, RestInv
<1>12. TimeInv'
  <2>1. ASSUME NEW a \in Ages, Kept(a, phase, rounds, elapsed, ticker)
        PROVE  Kept(Older(a), phase', rounds', elapsed', ticker')
    BY <1>1, <1>2, <1>3, <2>1, AgeAtTick
  <2>2. ASSUME NEW a \in 0..elapsed, phase = "collect"
        PROVE  Older(a) \in 0..elapsed'
    <3>1. a \in Nat /\ a \in Ages /\ a <= elapsed /\ elapsed \in Nat /\ elapsed' = elapsed + 1
      BY <1>1, <1>3, <2>2 DEF Ages
    <3>2. Older(a) \in Nat /\ Older(a) <= a + 1
      BY <3>1, OlderOf
    <3> QED
      BY <3>1, <3>2
  <2>3. /\ \A c \in view : rec[c].age \in Ages /\ Recorded(c)' = Recorded(c)
        /\ \A h \in Watched : hold[h].age \in Ages /\ Seen(h)' = Seen(h)
    BY <1>1 DEF IInv, TypeOK, RecType, HoldType, Recorded, Seen
  <2>4. \A c \in view : /\ Kept(rec'[c].age, phase', rounds', elapsed', ticker')
                        /\ phase = "collect" /\ Recorded(c) => rec'[c].age \in 0..elapsed'
    BY <1>7, <2>1, <2>2, <2>3, Zenon DEF IInv, TimeInv
  <2>5. \A h \in Watched : /\ Kept(hold'[h].age, phase', rounds', elapsed', ticker')
                           /\ phase = "collect" /\ Seen(h) => hold'[h].age \in 0..elapsed'
    BY <1>8, <2>1, <2>2, <2>3, Zenon DEF IInv, TimeInv
  <2> QED
    BY <1>1, <2>3, <2>4, <2>5 DEF TimeInv
<1>13. CanaryInv'
  <2>1. "workloads" \in view => rec'["canary"].ok = rec["canary"].ok
    BY <1>7, TaskNames, Zenon DEF IInv
  <2>2. \A h \in Watched : hold'[h].ok = hold[h].ok /\ (Seen(h)' => Seen(h))
    BY <1>1, <1>8, Zenon DEF Seen
  <2>3. UNCHANGED <<view, phase, task, job, Watched>>
    BY <1>1, Zenon DEF Watched
  <2> QED
    BY <1>5, <2>1, <2>2, <2>3, ZenonT(60) DEF IInv, CanaryInv
<1>14. WorkInv'
  <2>1. \A a, b \in Expiry : a # NoExpiry /\ a <= b => Shrunk(a) # NoExpiry /\ Shrunk(a) <= Shrunk(b)
    BY DEF Expiry, NoExpiry, Shrunk
  <2>2. /\ "workloads" \in view => rec["workloads"].left \in Expiry
        /\ \A h \in Watched : hold[h].left \in Expiry
    BY Zenon DEF IInv, TypeOK, RecType, HoldType
  <2> QED
    BY <1>1, <1>7, <1>8, <2>1, <2>2 DEF IInv, WorkInv
<1> QED
  BY <1>9, <1>10, <1>11, <1>12, <1>13, <1>14 DEF IInv

LEMMA QuietStep ==
    ASSUME IInv, Cancel \/ Exit \/ UNCHANGED vars
    PROVE  IInv'
<1>1. /\ UNCHANGED <<view, elapsed, ticker, rounds, task, canary, job, alias, rec, hold>>
      /\ phase' = phase \/ (phase = "idle" /\ phase' = "exit")
      /\ Tasks' = Tasks /\ Watched' = Watched
  BY Zenon DEF Cancel, Exit, vars, loop, local, Tasks, Watched
<1>2. (phase' = "collect" <=> phase = "collect") /\ phase' \in {"collect", "idle", "exit"}
  BY <1>1, Zenon DEF IInv, TypeOK
<1>3. TypeOK' /\ LoopInv' /\ JobInv' /\ RestInv'
  BY <1>1, <1>2, Zenon DEF IInv, TypeOK, LoopInv, JobInv, RestInv
<1>4. (\A c \in view : Recorded(c)' = Recorded(c)) /\ \A h \in Watched : Seen(h)' = Seen(h)
  BY <1>1 DEF Recorded, Seen
<1>5. TimeInv'
  <2>1. \A a : Kept(a, phase, rounds, elapsed, ticker) => Kept(a, phase', rounds, elapsed, ticker)
    BY <1>2 DEF Kept
  <2> QED
    BY <1>1, <1>2, <1>4, <2>1, Zenon DEF IInv, TimeInv
<1>6. CanaryInv' /\ WorkInv'
  BY <1>1, <1>2, <1>4, Zenon DEF IInv, CanaryInv, WorkInv
<1> QED
  BY <1>3, <1>5, <1>6 DEF IInv

LEMMA Start == Init => IInv
<1> SUFFICES ASSUME Init PROVE IInv
  OBVIOUS
<1>1. /\ phase = "collect" /\ rounds = 0 /\ elapsed = 0 /\ ticker = Interval /\ view \in Views
      /\ task \in [Tasks -> Stages] /\ \A t \in Tasks : task[t] = "begin"
      /\ job \in [Watched -> Progress] /\ \A h \in Watched : job[h] = "none"
  BY DEF Init, AtRest, NoJobs, Stages, Progress
<1>2. /\ Unrecorded \in RecType /\ Bounded(Unrecorded)
      /\ UnrecordedHolder \in HoldType /\ Bounded(UnrecordedHolder) /\ ~UnrecordedHolder.ok
      /\ ~Unrecorded.ok
  BY Zenon DEF Unrecorded, UnrecordedHolder, RecType, HoldType, Bounded, Earliest, Expiry, Ages
<1>3. /\ canary \in [ready : BOOLEAN, ok : BOOLEAN, left : Nat] /\ ~canary.ready
      /\ alias \in [asked : Nat, ok : BOOLEAN, left : Expiry, rests : SUBSET Nat]
      /\ Bounded(alias)
  BY Zenon DEF Init, NoCanary, NoAlias, Bounded, Earliest, Expiry
<1>4. /\ rec \in [view -> RecType] /\ (\A c \in view : rec[c] = Unrecorded)
      /\ hold \in [Watched -> HoldType] /\ (\A h \in Watched : hold[h] = UnrecordedHolder)
  BY <1>2 DEF Init
<1>5. TypeOK
  <2>1. /\ elapsed \in 0..CollectTimeout /\ ticker \in 0..Interval /\ rounds \in 0..2
    BY <1>1, IdentityExporterAssumption
  <2> QED
    BY <1>1, <1>3, <1>4, <2>1, Zenon DEF TypeOK
<1>6. LoopInv /\ JobInv
  BY <1>1 DEF LoopInv, JobInv
<1>7. RestInv
  BY <1>2, <1>3, <1>4, Zenon DEF RestInv
<1>8. (\A c \in view : ~Recorded(c)) /\ \A h \in Watched : ~Seen(h)
  BY <1>1, <1>5, TaskNames DEF Recorded, Seen
<1>9. TimeInv
  <2>1. ASSUME NEW age PROVE Kept(age, phase, rounds, elapsed, ticker)
    BY <1>1 DEF Kept
  <2> QED
    BY <1>8, <2>1, Zenon DEF TimeInv
<1>10. CanaryInv /\ WorkInv
  BY <1>1, <1>2, <1>3, <1>4, <1>5, <1>8, TaskNames, Zenon DEF CanaryInv, WorkInv
<1> QED
  BY <1>5, <1>6, <1>7, <1>9, <1>10 DEF IInv

LEMMA Step == IInv /\ [Next]_vars => IInv'
<1> SUFFICES ASSUME IInv, [Next]_vars PROVE IInv'
  OBVIOUS
<1>1. CASE Collect
  BY <1>1, LoadBundleStep, ProbeStep, FetchCanaryStep, ActivityStep, CollectedWorkloadsStep,
     TakeJobStep, AwaitCanaryStep, ObserveStep, AgentsStep, AliasStep, CollectedAliasesStep
     DEF Collect
<1>2. CASE EndRound \/ BeginRound \/ Tick
  BY <1>2, EndRoundStep, BeginRoundStep, TickStep
<1>3. CASE Cancel \/ Exit \/ UNCHANGED vars
  BY <1>3, QuietStep
<1> QED
  BY <1>1, <1>2, <1>3 DEF Next, Finished
-----------------------------------------------------------------------------
\* Neither freshness nor the agreement of success and expiry is inductive by itself:
\* the first needs the clocks of the loop, the second what each record rests on.
THEOREM ExporterInductive == Spec => []IInv
<1> QED
  BY Start, Step, PTL DEF Spec

\* successful and holderSuccessful: what a scrape shows as a success is a fresh
\* success none of whose certificates has expired, for any set of workloads and any
\* lifetimes; recordHolder, earlier and the loops over agents, aliases and results
\* lose no expiry.
THEOREM SuccessIsCurrentCorrect == Spec => []SuccessIsCurrent
<1>1. IInv => SuccessIsCurrent
  <2> SUFFICES ASSUME IInv PROVE SuccessIsCurrent
    OBVIOUS
  <2>1. ASSUME NEW l \in Expiry, NEW R \in SUBSET Nat, Earliest(l, R)
        PROVE  (l = NoExpiry \/ l > 0) <=> 0 \notin R
    BY <2>1 DEF Earliest, Expiry, NoExpiry
  <2>2. ASSUME NEW l \in Expiry, NEW R \in SUBSET Nat, Earliest(l, R), R # {}
        PROVE  (l # NoExpiry /\ l > 0) <=> 0 \notin R
    <3>1. l \in Nat /\ l # NoExpiry
      <4>1. l \in R
        BY <2>2, Zenon DEF Earliest
      <4> QED
        BY <4>1 DEF NoExpiry
    <3>2. (l = NoExpiry \/ l > 0) <=> 0 \notin R
      BY <2>1, <2>2
    <3> QED
      BY <3>1, <3>2
  <2>3. \A c \in view : /\ rec[c].left \in Expiry /\ rec[c].rests \in SUBSET Nat
                        /\ Earliest(rec[c].left, rec[c].rests)
    BY Zenon DEF IInv, TypeOK, RecType, RestInv, Bounded
  <2>4. \A h \in Watched : /\ hold[h].left \in Expiry /\ hold[h].rests \in SUBSET Nat
                           /\ Earliest(hold[h].left, hold[h].rests)
                           /\ hold[h].ok => hold[h].rests # {}
    BY Zenon DEF IInv, TypeOK, HoldType, RestInv, Bounded
  <2>5. \A c \in view :
           successful(rec[c]) <=> rec[c].ok /\ fresh(rec[c]) /\ 0 \notin rec[c].rests
    BY <2>1, <2>3, Zenon DEF successful
  <2>6. \A h \in Watched :
           holderSuccessful(hold[h]) <=> hold[h].ok /\ fresh(hold[h]) /\ 0 \notin hold[h].rests
    BY <2>2, <2>4, Zenon DEF holderSuccessful
  <2> QED
    BY <2>5, <2>6, Zenon DEF SuccessIsCurrent
<1> QED
  BY <1>1, ExporterInductive, PTL

\* Between rounds no record is stale.
LEMMA FreshBetweenRounds ==
    ASSUME IInv, phase # "collect"
    PROVE  (\A c \in view : fresh(rec[c])) /\ \A h \in Watched : fresh(hold[h])
<1>1. rounds \in {1, 2} /\ ticker \in 0..Interval
  BY DEF IInv, TypeOK, LoopInv
<1>2. /\ Interval \in Nat /\ CollectTimeout \in Nat /\ Freshness \in Nat
      /\ Interval + CollectTimeout <= Freshness
  BY IdentityExporterAssumption
<1>3. ASSUME NEW a, Kept(a, phase, rounds, elapsed, ticker) PROVE a # Never /\ a <= Freshness
  <2>1. a \in 0..(CollectTimeout + Interval - ticker) \/ a \in 0..(Interval - ticker)
    BY <1>1, <1>3 DEF Kept
  <2> QED
    BY <1>1, <1>2, <2>1 DEF Never
<1> QED
  BY <1>3, Zenon DEF IInv, TimeInv, fresh

\* loop, collect and freshnessLimit: whatever the timing of the collectors, once two
\* rounds are over every record is fresh as long as the process runs, if an interval
\* and a budget fit into the limit.
THEOREM NeverStaleCorrect == Spec => []NeverStale
<1>1. IInv => NeverStale
  <2> SUFFICES ASSUME IInv, rounds = 2
               PROVE  (\A c \in view : fresh(rec[c])) /\ \A h \in Watched : fresh(hold[h])
    BY DEF NeverStale
  <2>1. CASE phase = "collect"
    <3>1. /\ Interval \in Nat /\ CollectTimeout \in Nat /\ Freshness \in Nat
          /\ Interval + CollectTimeout <= Freshness /\ elapsed \in 0..CollectTimeout
      BY IdentityExporterAssumption, Zenon DEF IInv, TypeOK
    <3>2. ASSUME NEW a, Kept(a, phase, rounds, elapsed, ticker) PROVE a # Never /\ a <= Freshness
      <4>1. a \in 0..(Interval + elapsed)
        BY <2>1, <3>2 DEF Kept
      <4> QED
        BY <3>1, <4>1 DEF Never
    <3> QED
      BY <3>2, Zenon DEF IInv, TimeInv, fresh
  <2>2. CASE phase # "collect"
    BY <2>2, FreshBetweenRounds
  <2> QED
    BY <2>1, <2>2, Zenon
<1> QED
  BY <1>1, ExporterInductive, PTL

\* collectWorkloads: between rounds a successful collector means that each holder is
\* dormant or successful, although its record is older than the collector's.
THEOREM WorkloadsExplainedCorrect == Spec => []WorkloadsExplained
<1>1. IInv => WorkloadsExplained
  <2> SUFFICES ASSUME IInv, phase = "idle", "workloads" \in view, successful(rec["workloads"]),
                      NEW h \in Watched
               PROVE  dormant(hold[h]) \/ holderSuccessful(hold[h])
    BY DEF WorkloadsExplained
  <2>1. fresh(hold[h])
    BY FreshBetweenRounds
  <2>2. hold[h].dormant \/ (hold[h].ok /\ rec["workloads"].left # NoExpiry
                                       /\ rec["workloads"].left <= hold[h].left)
    BY Zenon DEF IInv, WorkInv, successful
  <2>3. /\ rec["workloads"].left = NoExpiry \/ rec["workloads"].left > 0
        /\ rec["workloads"].left \in Expiry /\ hold[h].left \in Expiry
    BY Zenon DEF successful, IInv, TypeOK, RecType, HoldType
  <2>4. hold[h].dormant \/ (hold[h].ok /\ hold[h].left # NoExpiry /\ hold[h].left > 0)
    <3>1. \A l, m \in Expiry : l # NoExpiry /\ l > 0 /\ l <= m => m # NoExpiry /\ m > 0
      BY DEF Expiry, NoExpiry
    <3> QED
      BY <2>2, <2>3, <3>1, Zenon
  <2> QED
    BY <2>1, <2>4, Zenon DEF dormant, holderSuccessful
<1> QED
  BY <1>1, ExporterInductive, PTL

\* collectWorkloads and recordHolder: without a canary of this round no holder stays
\* successful on the strength of an earlier observer.
THEOREM NoFallbackObserverCorrect == Spec => []NoFallbackObserver
<1>1. IInv => NoFallbackObserver
  BY Zenon DEF IInv, CanaryInv, NoFallbackObserver
<1> QED
  BY <1>1, ExporterInductive, PTL
=============================================================================

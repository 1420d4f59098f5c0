-------------------------- MODULE IdentityExporter --------------------------
(***************************************************************************)
(* The collection loop of realm-identity-metrics (exporter.go, workloads.go, *)
(* workload_state.go): a round every 30 seconds runs the collectors side by  *)
(* side under one 20 second budget, the holders of workload certificates     *)
(* wait for the canary of the same round, and what a scrape shows is the     *)
(* last record of each, as long as it is fresh and nothing in it expired.    *)
(*                                                                         *)
(* Time is in ticks of some seconds.  A time stamp is kept as its age, an     *)
(* expiry as the ticks that are left; a certificate is what is left of it.   *)
(* A context that is over ends its operation at once: time waits for that.   *)
(* The collectors of a round are independent but for the canary, so a        *)
(* behaviour has some of them in view; the round may last longer for the     *)
(* sake of the others.                                                     *)
(***************************************************************************)
EXTENDS Integers, FiniteSets, FiniteSetsExt

CONSTANTS
    Views,          \* sets of collectors that a behaviour may have in view
    Holders,        \* Workloads of the configuration
    Nodes,          \* number of Nodes of the configuration
    Parallelism,    \* workloadParallelism
    Interval,       \* collectionInterval
    CollectTimeout, \* collectionTimeout
    OpTimeout,      \* operationTimeout
    Freshness,      \* freshnessLimit
    Lifetimes       \* what is left of a certificate when it is first seen

Never == -1       \* the zero time stamp
NoExpiry == -1    \* the zero expiry

ASSUME IdentityExporterAssumption ==
    /\ \A v \in Views :
         /\ v \subseteq {"bundle", "bootstrap", "canary", "workloads", "agents", "aliases"}
         /\ "bundle" \in v <=> "bootstrap" \in v
         /\ "workloads" \in v => "canary" \in v
         /\ "agents" \in v => Nodes > 0
    /\ IsFiniteSet(Holders) /\ Nodes \in Nat /\ Parallelism \in Nat \ {0}
    /\ OpTimeout \in Nat \ {0} /\ CollectTimeout \in Nat \ {0}
    /\ Interval \in Nat /\ CollectTimeout < Interval
    /\ Freshness \in Nat /\ Interval + CollectTimeout <= Freshness
    /\ Lifetimes \subseteq Nat \ {0}

VARIABLES
    view,      \* the collectors in view
    phase,     \* the loop: "collect", "idle" or "exit"
    stop,      \* the context of the loop is cancelled
    elapsed,   \* ticks since collect began
    ticker,    \* ticks until the ticker fires
    rounds,    \* ghost: rounds completed, counted up to two
    task,      \* task[t]: what the goroutine of the round is doing
    opAge,     \* opAge[t]: ticks since its current operation began
    canary,    \* the canaryResult of the round, and whether ready is closed
    unit,      \* the ActiveState that systemctl reported for each holder
    job,       \* job[h]: progress of the holder's observation
    jobAge,    \* jobAge[h]: ticks since observeHolder began
    alias,     \* nodes asked so far, and the outcome that collectAliases builds
    rec,       \* exporter.states
    hold       \* exporter.holders

loop == <<view, phase, stop, elapsed, ticker, rounds>>
local == <<task, opAge, canary, unit, job, jobAge, alias>>
vars == <<loop, local, rec, hold>>

Tasks == view \ {"bundle"}
Watched == IF "workloads" \in view THEN Holders ELSE {}
-----------------------------------------------------------------------------
(* What a scrape shows. *)

earlier(a, b) ==
    IF b = NoExpiry THEN a
    ELSE IF a = NoExpiry \/ b < a THEN b ELSE a

fresh(s) == s.age # Never /\ s.age <= Freshness
successful(s) == s.ok /\ fresh(s) /\ (s.left = NoExpiry \/ s.left > 0)
holderSuccessful(s) == s.ok /\ fresh(s) /\ s.left # NoExpiry /\ s.left > 0
dormant(s) == s.dormant /\ fresh(s)

healthy ==
    /\ \A c \in view : successful(rec[c])
    /\ \A h \in Watched : dormant(hold[h]) \/ holderSuccessful(hold[h])

\* A record: its age, whether it succeeded, validUntil, and (ghost) what is left
\* of each certificate that the success rests on.
Unrecorded == [age |-> Never, ok |-> FALSE, left |-> NoExpiry, rests |-> {}]
UnrecordedHolder == [age |-> Never, ok |-> FALSE, left |-> NoExpiry, rests |-> {},
                     dormant |-> FALSE]
Failure == [age |-> 0, ok |-> FALSE, left |-> NoExpiry, rests |-> {}]
Success(left, rests) == [age |-> 0, ok |-> TRUE, left |-> left, rests |-> rests]

record(c, o) == rec' = [rec EXCEPT ![c] = o]

\* Mutant: a failed observation leaves the expiry and success of the last one.
RecordHolderKeeps(h, o) ==
    [hold EXCEPT ![h] = IF o.ok \/ o.dormant THEN o ELSE [hold[h] EXCEPT !.age = 0]]

\* recordHolder refuses an observation whose validUntil has come.
recordHolder(h, o) ==
    [hold EXCEPT ![h] =
       IF o.ok /\ ~(o.left # NoExpiry /\ o.left > 0)
         THEN [UnrecordedHolder EXCEPT !.age = 0] ELSE o]

HolderFailure == [UnrecordedHolder EXCEPT !.age = 0]
HolderDormant == [UnrecordedHolder EXCEPT !.age = 0, !.dormant = TRUE]
-----------------------------------------------------------------------------
NoCanary == [ready |-> FALSE, ok |-> FALSE, left |-> 0]
NoAlias == [asked |-> 0, ok |-> TRUE, left |-> NoExpiry, rests |-> {}]

AtRest == [t \in Tasks |-> "begin"]
NoJobs == [h \in Watched |-> "none"]
NotAsked == [h \in Watched |-> "active"]

Init ==
    /\ view \in Views
    /\ phase = "collect" /\ stop = FALSE /\ ticker = Interval /\ rounds = 0
    /\ elapsed = 0 /\ task = AtRest /\ opAge = [t \in Tasks |-> 0]
    /\ canary = NoCanary /\ alias = NoAlias
    /\ unit = NotAsked /\ job = NoJobs /\ jobAge = [h \in Watched |-> 0]
    /\ rec = [c \in view |-> Unrecorded]
    /\ hold = [h \in Watched |-> UnrecordedHolder]

CtxDone == stop \/ elapsed = CollectTimeout

Goto(t, stage) == task' = [task EXCEPT ![t] = stage] /\ opAge' = [opAge EXCEPT ![t] = 0]
Done(t) == Goto(t, "done")

\* collectBootstrap: the bundle file.
LoadBundle(good) ==
    /\ phase = "collect" /\ "bootstrap" \in Tasks /\ task["bootstrap"] = "begin"
    /\ \/ /\ good
          /\ rec' = [rec EXCEPT !["bundle"] = Success(NoExpiry, {})]
          /\ Goto("bootstrap", "probe")
       \/ /\ ~good
          /\ rec' = [rec EXCEPT !["bundle"] = Failure, !["bootstrap"] = Failure]
          /\ Done("bootstrap")
    /\ UNCHANGED <<loop, canary, unit, job, jobAge, alias, hold>>

\* collectBootstrap: the probe of the server, bounded by its verified chain.
Probe ==
    /\ phase = "collect" /\ "bootstrap" \in Tasks /\ task["bootstrap"] = "probe"
    /\ \/ /\ ~CtxDone
          /\ \E l \in Lifetimes : record("bootstrap", Success(l, {l}))
       \/ record("bootstrap", Failure)
    /\ Done("bootstrap")
    /\ UNCHANGED <<loop, canary, unit, job, jobAge, alias, hold>>

\* The canary task: fetch, record, close(ready).  A certificate that expires between
\* fetch and canaryOutcome fails the record, but not the result the workers see.
FetchCanary ==
    /\ phase = "collect" /\ "canary" \in Tasks /\ task["canary"] = "begin"
    /\ \/ /\ ~CtxDone
          /\ \E l \in Lifetimes :
               /\ record("canary", Success(l, {l}))
               /\ canary' = [ready |-> TRUE, ok |-> TRUE, left |-> l]
       \/ /\ record("canary", Failure)
          /\ canary' = [ready |-> TRUE, ok |-> FALSE, left |-> 0]
       \/ /\ ~CtxDone /\ record("canary", Failure)
          /\ canary' = [ready |-> TRUE, ok |-> TRUE, left |-> 0]
    /\ Done("canary")
    /\ UNCHANGED <<loop, unit, job, jobAge, alias, hold>>
-----------------------------------------------------------------------------
(* collectWorkloads. *)

\* workloadActivity: one systemctl call for all units.
Activity ==
    /\ phase = "collect" /\ "workloads" \in Tasks /\ task["workloads"] = "begin"
    /\ \/ /\ ~CtxDone /\ UNCHANGED <<rec, hold>>
          /\ \E u \in [Watched -> {"active", "inactive", "other"}] : unit' = u
          /\ job' = [h \in Watched |-> "queued"]
          /\ Goto("workloads", "jobs")
       \/ /\ hold' = [h \in Watched |-> HolderFailure]
          /\ record("workloads", Failure)
          /\ Done("workloads") /\ UNCHANGED <<unit, job>>
    /\ UNCHANGED <<loop, canary, jobAge, alias>>

Busy == {h \in Watched : job[h] \in {"wait", "observe"}}

\* A worker takes a job; only an active unit makes it wait.
TakeJob(h) ==
    /\ job[h] = "queued" /\ Cardinality(Busy) < Parallelism
    /\ CASE unit[h] = "inactive" ->
              job' = [job EXCEPT ![h] = "done"] /\ hold' = recordHolder(h, HolderDormant)
         [] unit[h] = "other" ->
              job' = [job EXCEPT ![h] = "done"] /\ hold' = recordHolder(h, HolderFailure)
         [] OTHER -> job' = [job EXCEPT ![h] = "wait"] /\ UNCHANGED hold
    /\ UNCHANGED <<loop, task, opAge, canary, unit, jobAge, alias, rec>>

\* Mutant: the worker polls for a canary that can be used, and for nothing else.
AwaitCanaryBlindly(h) ==
    /\ job[h] = "wait"
    /\ IF canary.ready /\ canary.ok /\ canary.left > 0
         THEN /\ job' = [job EXCEPT ![h] = "observe"]
              /\ jobAge' = [jobAge EXCEPT ![h] = 0]
         ELSE UNCHANGED <<job, jobAge>>
    /\ UNCHANGED <<loop, task, opAge, canary, unit, alias, rec, hold>>

\* The select over ctx.Done and ready; an observer that has expired is refused.
AwaitCanary(h) ==
    /\ job[h] = "wait"
    /\ \/ /\ canary.ready /\ canary.ok /\ canary.left > 0
          /\ job' = [job EXCEPT ![h] = "observe"]
          /\ jobAge' = [jobAge EXCEPT ![h] = 0] /\ UNCHANGED hold
       \/ /\ CtxDone \/ (canary.ready /\ ~(canary.ok /\ canary.left > 0))
          /\ job' = [job EXCEPT ![h] = "done"]
          /\ hold' = recordHolder(h, HolderFailure) /\ UNCHANGED jobAge
    /\ UNCHANGED <<loop, task, opAge, canary, unit, alias, rec>>

\* Mutant: the observation is bounded by the chain of the peer alone.
ObservedPeerOnly(l) == [HolderFailure EXCEPT !.ok = TRUE, !.left = l,
                                             !.rests = {canary.left, l}]

\* A successful observation lasts as long as the observer and the peer's chain.
Observed(l) == [HolderFailure EXCEPT !.ok = TRUE, !.left = earlier(canary.left, l),
                                     !.rests = {canary.left, l}]

\* observeHolder returns; a result after the budget is an error.
Observe(h) ==
    /\ job[h] = "observe"
    /\ \/ /\ ~CtxDone
          /\ \E l \in Lifetimes : hold' = recordHolder(h, Observed(l))
       \/ hold' = recordHolder(h, HolderFailure)
    /\ job' = [job EXCEPT ![h] = "done"] /\ jobAge' = [jobAge EXCEPT ![h] = 0]
    /\ UNCHANGED <<loop, task, opAge, canary, unit, alias, rec>>

\* All results are in: the collector fails if a holder did, and lasts as long as the
\* earliest expiry of the others, in whatever order the results came.
Live == {h \in Watched : ~hold[h].dormant}
Expiries == {hold[h].left : h \in Live} \ {NoExpiry}
Until == IF Expiries = {} THEN NoExpiry ELSE Min(Expiries)

\* Mutant: the error of one holder is overwritten by the success of another.
CollectedLastError ==
    /\ phase = "collect" /\ "workloads" \in Tasks /\ task["workloads"] = "jobs"
    /\ \A h \in Watched : job[h] = "done"
    /\ record("workloads",
         IF \A h \in Watched : h \in Live /\ ~hold[h].ok
           THEN Failure
           ELSE Success(Until, UNION {hold[h].rests : h \in Live}))
    /\ Done("workloads")
    /\ UNCHANGED <<loop, canary, unit, job, jobAge, alias, hold>>

CollectedWorkloads ==
    /\ phase = "collect" /\ "workloads" \in Tasks /\ task["workloads"] = "jobs"
    /\ \A h \in Watched : job[h] = "done"
    /\ record("workloads",
         IF \E h \in Live : ~hold[h].ok
           THEN Failure
           ELSE Success(Until, UNION {hold[h].rests : h \in Live}))
    /\ Done("workloads")
    /\ UNCHANGED <<loop, canary, unit, job, jobAge, alias, hold>>
-----------------------------------------------------------------------------
(* The admin socket. *)

\* collectAgents: one call; an agent that is not valid fails the collector.
Agents ==
    /\ phase = "collect" /\ "agents" \in Tasks /\ task["agents"] = "begin"
    /\ \/ /\ ~CtxDone
          /\ \E ls \in [1..Nodes -> Lifetimes] :
               record("agents", Success(Min({ls[n] : n \in 1..Nodes}), {ls[n] : n \in 1..Nodes}))
       \/ record("agents", Failure)
    /\ Done("agents")
    /\ UNCHANGED <<loop, canary, unit, job, jobAge, alias, hold>>

\* collectAliases asks for one node after the other, each within its own timeout;
\* an alias without expiry leaves validUntil alone.
Alias ==
    /\ phase = "collect" /\ "aliases" \in Tasks /\ task["aliases"] = "begin"
    /\ alias.asked < Nodes
    /\ \/ /\ ~CtxDone
          /\ \E l \in Lifetimes \cup {NoExpiry} :
               alias' = [alias EXCEPT !.asked = @ + 1, !.left = earlier(@, l),
                                      !.rests = @ \cup ({l} \ {NoExpiry})]
       \/ alias' = [alias EXCEPT !.asked = @ + 1, !.ok = FALSE]
    /\ opAge' = [opAge EXCEPT !["aliases"] = 0]
    /\ UNCHANGED <<loop, task, canary, unit, job, jobAge, rec, hold>>

CollectedAliases ==
    /\ phase = "collect" /\ "aliases" \in Tasks /\ task["aliases"] = "begin"
    /\ alias.asked = Nodes
    /\ record("aliases", IF alias.ok THEN Success(alias.left, alias.rests) ELSE Failure)
    /\ Done("aliases")
    /\ UNCHANGED <<loop, canary, unit, job, jobAge, alias, hold>>
-----------------------------------------------------------------------------
(* The loop. *)

\* Mutant: collect returns without waiting for the workloads.
EndRoundEarly ==
    /\ phase = "collect" /\ \A t \in Tasks \ {"workloads"} : task[t] = "done"
    /\ phase' = "idle"
    /\ elapsed' = 0 /\ task' = AtRest /\ opAge' = [t \in Tasks |-> 0]
    /\ canary' = NoCanary /\ alias' = NoAlias
    /\ unit' = NotAsked /\ job' = NoJobs /\ jobAge' = [h \in Watched |-> 0]
    /\ rounds' = IF rounds < 2 THEN rounds + 1 ELSE 2
    /\ ticker' = IF rounds = 0 THEN Interval ELSE ticker
    /\ UNCHANGED <<view, stop, rec, hold>>

\* wg.Wait returns, and nothing is left of the round but its records; the ticker
\* is created after the first one.
EndRound ==
    /\ phase = "collect" /\ \A t \in Tasks : task[t] = "done"
    /\ phase' = "idle"
    /\ elapsed' = 0 /\ task' = AtRest /\ opAge' = [t \in Tasks |-> 0]
    /\ canary' = NoCanary /\ alias' = NoAlias
    /\ unit' = NotAsked /\ job' = NoJobs /\ jobAge' = [h \in Watched |-> 0]
    /\ rounds' = IF rounds < 2 THEN rounds + 1 ELSE 2
    /\ ticker' = IF rounds = 0 THEN Interval ELSE ticker
    /\ UNCHANGED <<view, stop, rec, hold>>

BeginRound ==
    /\ phase = "idle" /\ ticker = 0
    /\ phase' = "collect" /\ ticker' = Interval
    /\ UNCHANGED <<view, stop, elapsed, rounds, local, rec, hold>>

Cancel ==
    /\ phase # "exit" /\ ~stop /\ stop' = TRUE
    /\ UNCHANGED <<view, phase, elapsed, ticker, rounds, local, rec, hold>>

Exit ==
    /\ phase = "idle" /\ stop /\ phase' = "exit"
    /\ UNCHANGED <<view, stop, elapsed, ticker, rounds, local, rec, hold>>

Older(age) == IF age = Never THEN Never ELSE Min({age + 1, Freshness + 1})
Shrunk(left) == IF left > 0 THEN left - 1 ELSE left
Later(s) == [s EXCEPT !.age = Older(@), !.left = Shrunk(@),
                      !.rests = {Shrunk(l) : l \in @}]

\* The task is in an operation with a timeout of its own.
Timed(t) == task[t] \in {"begin", "probe"}

\* Operations whose context is over, and a loop that has something to do, go first.
Pressing ==
    \/ phase = "exit"
    \/ phase = "idle" /\ (stop \/ ticker = 0)
    \/ /\ phase = "collect"
       /\ \/ CtxDone
          \/ \E t \in Tasks : Timed(t) /\ opAge[t] = OpTimeout
          \/ \E h \in Watched : job[h] = "observe" /\ jobAge[h] = OpTimeout

Tick ==
    /\ ~Pressing
    /\ elapsed' = IF phase = "collect" THEN elapsed + 1 ELSE elapsed
    /\ ticker' = IF rounds = 0 THEN ticker ELSE ticker - 1
    /\ opAge' = [t \in Tasks |-> IF phase = "collect" /\ Timed(t)
                                   THEN opAge[t] + 1 ELSE opAge[t]]
    /\ jobAge' = [h \in Watched |-> IF job[h] = "observe" THEN jobAge[h] + 1 ELSE jobAge[h]]
    /\ canary' = [canary EXCEPT !.left = Shrunk(@)]
    /\ alias' = [alias EXCEPT !.left = Shrunk(@), !.rests = {Shrunk(l) : l \in @}]
    /\ rec' = [c \in view |-> Later(rec[c])]
    /\ hold' = [h \in Watched |-> Later(hold[h])]
    /\ UNCHANGED <<view, phase, stop, rounds, task, unit, job>>

Finished == phase = "exit" /\ UNCHANGED vars

Collect ==
    \/ \E good \in BOOLEAN : LoadBundle(good)
    \/ Probe \/ FetchCanary \/ Activity \/ CollectedWorkloads
    \/ \E h \in Watched : TakeJob(h) \/ AwaitCanary(h) \/ Observe(h)
    \/ Agents \/ Alias \/ CollectedAliases

Next == Collect \/ EndRound \/ BeginRound \/ Cancel \/ Exit \/ Tick \/ Finished

Spec == Init /\ [][Next]_vars

\* Goroutines run, timers fire; nothing obliges anyone to cancel the loop.
FairSpec ==
    Spec /\ WF_vars(Collect) /\ WF_vars(EndRound) /\ WF_vars(BeginRound)
         /\ WF_vars(Exit) /\ WF_vars(Tick)
-----------------------------------------------------------------------------
\* success and observation_success are shown exactly as long as the record is a
\* success, is fresh, and none of the certificates it rests on has expired: the
\* observer's own certificate bounds every holder it observed, and the earliest
\* holder bounds the workloads collector.
SuccessIsCurrent ==
    /\ \A c \in view :
         successful(rec[c]) <=> rec[c].ok /\ fresh(rec[c]) /\ 0 \notin rec[c].rests
    /\ \A h \in Watched :
         holderSuccessful(hold[h]) <=> hold[h].ok /\ fresh(hold[h]) /\ 0 \notin hold[h].rests

\* Between rounds, a workloads collector that is shown successful stands for
\* holders that are each shown successful or dormant: their records do not go
\* stale before that of the collector, although they are older.
WorkloadsExplained ==
    phase = "idle" /\ "workloads" \in view /\ successful(rec["workloads"]) =>
      \A h \in Watched : dormant(hold[h]) \/ holderSuccessful(hold[h])

\* From the second round on no record ever goes stale while the loop runs: the
\* budget of a round and the interval leave the freshness limit a margin.  (The
\* first gap is longer, for the ticker starts when the first round ends.)
NeverStale ==
    rounds = 2 => /\ \A c \in view : fresh(rec[c])
                  /\ \A h \in Watched : fresh(hold[h])

\* When the observer could not be fetched in the last round, no holder is shown
\* successful on the strength of an earlier observer: every active one has failed
\* and its certificate samples are gone.
NoFallbackObserver ==
    phase = "idle" /\ "workloads" \in view /\ ~rec["canary"].ok =>
      \A h \in Watched : ~hold[h].ok

\* Every round ends, within the budget of its context, whatever the canary, the
\* holders and the commands do, and a cancelled loop exits: no collector outlives
\* the context.
RoundsEnd ==
    /\ (phase = "collect") ~> (phase # "collect")
    /\ stop ~> (phase = "exit")
=============================================================================

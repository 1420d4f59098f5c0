----------------------- MODULE AgentControllerProofs -----------------------
(***************************************************************************)
(* Proofs about the controller of a workload, for any number of starts,       *)
(* handlers, crashes, worker deaths and failing calls: no worker outlives its *)
(* capture, no two workers serve, a gate opens only for a captured and saved *)
(* key, and state.json never loses a native unit that is still running.      *)
(***************************************************************************)
EXTENDS AgentController, FiniteSetTheorems, TLAPS

Phases == {"none", "kill", "uncap", "recover", "setup", "attach", "spawn", "wait", "save"}
Starting == {"setup", "attach", "spawn", "wait"}
JobType == [phase : Phases, key : Keys \cup {0}, ready : BOOLEAN,
            after : {"start", "recover", "release", "fail", "down"}]
Gates == {"idle", "queued", "serving", "prepared", "refused", "ready", "error"}
WorkerType == [key : Keys, epoch : Nat, stage : {"boot", "joined", "ready"}]

TypeOK ==
    /\ native \in BOOLEAN /\ gapAge \in Nat
    /\ life \in [Keys -> {"absent", "pre", "gap", "app", "stopping", "gone"}]
    /\ gate \in [Keys -> Gates]
    /\ ctrl \in {"up", "stopping", "down"} /\ epoch \in Nat
    /\ lock \in Keys \cup {Free, Reconcile, Stop} /\ job \in JobType
    /\ current \in Keys \cup {0} /\ emptyAge \in Int /\ state \in Keys \cup {0}
    /\ captured \subseteq Keys /\ workers \subseteq WorkerType

(***************************************************************************)
(* The inductive invariant.  LockInv: what the holder of controller.mu is     *)
(* doing says what the current instance and state.json can be.              *)
(***************************************************************************)
LockInv ==
    /\ lock = Free <=> job.phase = "none"
    /\ ctrl = "down" => lock = Free /\ current = 0 /\ captured = {}
    /\ job.phase \in Starting \cup {"recover"} => current = 0
    /\ job.phase = "recover" \/ job.after \in {"recover", "release"} => lock = Reconcile
    /\ job.after = "start" => lock \in Keys /\ job.key = lock
    /\ job.phase \in Starting \cup {"save"} =>
         /\ job.key \in Keys
         /\ IF lock \in Keys THEN job.key = lock ELSE state = job.key
    /\ job.phase = "save" => lock \in Keys /\ current = job.key
    /\ current # 0 => current = state \/ job.phase \in {"save", "kill", "uncap"}

\* Nothing is known of a start that has not happened yet.
Known ==
    \A k \in Keys : life[k] = "absent" =>
        /\ gate[k] = "idle" /\ k \notin {lock, job.key, current, state}
        /\ \A w \in workers : w.key # k

\* Workers of this controller exist only from Spawn to KillWorker, one at a time, and
\* none of an earlier controller serves beside one.
NoneExpected ==
    \/ job.phase \in {"uncap", "recover", "setup", "attach", "spawn"}
    \/ job.phase = "none" /\ current = 0

WorkerInv ==
    /\ \A w \in workers : w.epoch <= epoch
    /\ \A v, w \in workers : v.epoch = epoch /\ w.epoch = epoch => v = w
    /\ \A v, w \in workers : v.stage = "ready" /\ w.stage = "ready" => v = w
    /\ \A v, w \in workers : w.epoch = epoch /\ v.stage = "ready" => v.epoch = epoch
    /\ ctrl # "down" /\ NoneExpected => Done

CaptureInv ==
    /\ CaptureOutlivesWorker
    /\ job.phase \in {"spawn", "wait", "save"} /\ Exists(job.key) => job.key \in captured
    /\ current # 0 /\ Exists(current) => current \in captured

\* prepare has accepted the gate of start k and the unit has not ended.
Opened(k) == life[k] \in {"gap", "app"} \/ (life[k] = "pre" /\ gate[k] \in {"prepared", "ready"})

\* The starts of a native unit follow each other; emptySince is not older than the gap
\* between ExecStartPre and ExecStart, so the limit is not reached in it.
UnitInv ==
    /\ native => \A j, k \in Keys : j < k /\ life[k] # "absent" => life[j] = "gone"
    /\ ~native => \A k \in Keys : life[k] # "gap"
    /\ (\E k \in Keys : life[k] = "gap") => gapAge <= GapMax
    /\ current # 0 /\ life[current] = "pre" => emptyAge = NotEmpty
    /\ current # 0 /\ life[current] = "gap" => emptyAge <= gapAge

StateInv ==
    /\ native => \A k \in Keys : Opened(k) => state = k
    /\ native /\ lock \in Keys /\ job.phase \in {"spawn", "wait", "save"} =>
         \A k \in Keys : Opened(k) => k = lock
    /\ job.after = "release" /\ job.phase \in {"kill", "uncap"} =>
         state # 0 /\ life[state] \in {"stopping", "gone"}

IInv == TypeOK /\ LockInv /\ Known /\ WorkerInv /\ CaptureInv /\ UnitInv /\ StateInv
-----------------------------------------------------------------------------
(* The bookkeeping record of the holder.                                    *)

LEMMA JobFields == job \in JobType =>
    /\ job.phase \in Phases /\ job.key \in Keys \cup {0} /\ job.ready \in BOOLEAN
    /\ job.after \in {"start", "recover", "release", "fail", "down"}
BY DEF JobType

LEMMA JobNone == NoJob \in JobType /\ NoJob.phase = "none" /\ NoJob.key = 0 /\ NoJob.after = "fail"
BY DEF NoJob, JobType, Phases

LEMMA JobGoto ==
    ASSUME job \in JobType, NEW p \in Phases, Goto(p)
    PROVE  /\ job' \in JobType /\ job'.phase = p /\ job'.key = job.key /\ job'.after = job.after
BY DEF Goto, JobType

LEMMA JobFail ==
    ASSUME job \in JobType, NEW p \in Phases, Fail(p)
    PROVE  /\ job' \in JobType /\ job'.phase = p /\ job'.key = job.key /\ job'.after = "fail"
BY Zenon DEF Fail, JobType

LEMMA JobBegin ==
    ASSUME NEW p \in Phases, NEW k \in Keys \cup {0},
           NEW a \in {"start", "recover", "release", "fail", "down"}, Begin(p, k, a)
    PROVE  /\ job' \in JobType /\ job'.phase = p /\ job'.key = k /\ job'.after = a
BY DEF Begin, JobType

\* Keys, the holders that are no key, and 0 are different.
LEMMA Holders == /\ Keys \subseteq Nat \ {0}
                 /\ Free \notin Keys /\ Reconcile \notin Keys /\ Stop \notin Keys
                 /\ Reconcile # Free /\ Stop # Free /\ Reconcile # Stop
BY AgentControllerAssumption DEF Keys, Free, Reconcile, Stop

LEMMA Ages == NotEmpty \in Int /\ NotEmpty <= 0 /\ 0 <= GapMax
BY AgentControllerAssumption DEF NotEmpty

LEMMA InitInv == Init => IInv
<1> SUFFICES ASSUME Init PROVE IInv
  OBVIOUS
<1>1. TypeOK
  BY AgentControllerAssumption, JobNone DEF Init, TypeOK, NotEmpty, Gates
<1>2. LockInv
  BY JobNone DEF Init, LockInv, Starting
<1>3. Known /\ WorkerInv /\ CaptureInv
  BY JobNone, Holders DEF Init, Known, WorkerInv, CaptureInv, CaptureOutlivesWorker, Done, Free
<1>4. UnitInv /\ StateInv
  BY JobNone, Holders DEF Init, UnitInv, StateInv, Opened, Free
<1> QED
  BY <1>1, <1>2, <1>3, <1>4 DEF IInv
-----------------------------------------------------------------------------
(* The unit and its gate process.                                           *)

\* The starts of a native unit exist one at a time.
LEMMA OneExists ==
    ASSUME IInv, native, NEW j \in Keys, NEW k \in Keys, Exists(j), Exists(k)
    PROVE  j = k
BY Holders DEF IInv, UnitInv, Exists

LEMMA UnitStep ==
    ASSUME IInv, NEW k \in Keys, Unit(k)
    PROVE  IInv'
<1>1. /\ UNCHANGED <<native, ctrl, epoch, lock, job, current, emptyAge, state, workers, Done>>
      /\ DOMAIN life = Keys /\ DOMAIN gate = Keys /\ JobType = JobType'
      /\ \A i \in Keys : i # k => life'[i] = life[i] /\ gate'[i] = gate[i]
      /\ \A i \in Keys : i # k => (i \in captured' <=> i \in captured)
      /\ TypeOK'
  <2>1. UNCHANGED <<native, ctrl, epoch, lock, job, current, emptyAge, state, workers>>
    BY Zenon DEF Unit, UnitStart, GateConnect, GateReturn, AppStart, UnitStop, UnitGone, unit
  <2>2. UNCHANGED <<Done, JobType>> /\ DOMAIN life = Keys /\ DOMAIN gate = Keys
    BY <2>1, Zenon DEF Done, JobType, IInv, TypeOK
  <2>3. /\ \A i \in Keys : i # k => life'[i] = life[i] /\ gate'[i] = gate[i]
        /\ \A i \in Keys : i # k => (i \in captured' <=> i \in captured)
    BY <2>2, ZenonT(60)
       DEF Unit, UnitStart, GateConnect, GateReturn, AppStart, UnitStop, UnitGone, unit
  <2>4. /\ life' \in [Keys -> {"absent", "pre", "gap", "app", "stopping", "gone"}]
        /\ gate' \in [Keys -> Gates]
        /\ captured' \subseteq Keys
    BY ZenonT(60) DEF Unit, UnitStart, GateConnect, GateReturn, AppStart, UnitStop, UnitGone, unit,
                      IInv, TypeOK, Gates
  <2>5. gapAge' \in Nat
    BY DEF Unit, UnitStart, GateConnect, GateReturn, AppStart, UnitStop, UnitGone, unit,
           IInv, TypeOK
  <2>6. TypeOK'
    BY <2>1, <2>2, <2>4, <2>5, ZenonT(60) DEF IInv, TypeOK
  <2> QED
    BY <2>1, <2>2, <2>3, <2>6, Zenon
<1>2. LockInv'
  BY <1>1, Zenon
     DEF Unit, UnitGone, UnitStart, GateConnect, GateReturn, AppStart, UnitStop, IInv, LockInv
<1>3. /\ life'[k] # "absent"
      /\ Exists(k)' => /\ Exists(k) \/ life[k] = "absent"
                       /\ k \in captured' <=> k \in captured
  BY Zenon
     DEF Unit, UnitStart, GateConnect, GateReturn, AppStart, UnitStop, UnitGone, unit, IInv,
         TypeOK, Exists
<1>4. Known'
  BY <1>1, <1>3 DEF IInv, Known
<1>5. WorkerInv'
  BY <1>1 DEF IInv, WorkerInv, NoneExpected
<1>6. CaptureInv'
  <2>1. \A i \in Keys : Exists(i)' /\ (i \in {job.key, current} \/ \E w \in workers : w.key = i) =>
          Exists(i) /\ (i \in captured => i \in captured')
    BY <1>1, <1>3 DEF IInv, Known, Exists
  <2>2. \A w \in workers : w.key \in Keys
    BY DEF IInv, TypeOK, WorkerType
  <2>3. CaptureOutlivesWorker'
    BY <1>1, <2>1, <2>2 DEF IInv, CaptureInv, CaptureOutlivesWorker
  <2>4. job.phase \in {"spawn", "wait", "save"} => job.key \in Keys
    BY DEF IInv, LockInv, Starting
  <2>5. current # 0 => current \in Keys
    BY DEF IInv, TypeOK
  <2> QED
    BY <1>1, <2>1, <2>3, <2>4, <2>5 DEF IInv, CaptureInv
<1>7. UnitInv' /\ StateInv'
  <2> USE DEF IInv, Opened
  <2>0. /\ native /\ Exists(k) => \A i \in Keys : i # k => ~Exists(i)
        /\ \A i \in Keys : i < k => i \in 1..(k - 1)
    BY OneExists, Holders
  <2>1. CASE UnitStart(k)
    <3>1. life'[k] = "pre" /\ UNCHANGED <<gate, gapAge>> /\ gate[k] = "idle" /\ current # k
          /\ state # k
      BY <2>1, Zenon DEF UnitStart, Known, TypeOK
    <3>2. native => \A i \in Keys : i < k => life[i] = "gone"
      BY <2>0, <2>1, Zenon DEF UnitStart
    <3>3. life[k] = "absent"
      BY <2>1, Zenon DEF UnitStart
    <3>4. UnitInv'
      BY <1>1, <3>1, <3>2, <3>3, ZenonT(60) DEF UnitInv, TypeOK
    <3> QED
      BY <1>1, <3>1, <3>4, ZenonT(60) DEF StateInv, TypeOK
  <2>2. CASE GateConnect(k)
    <3>1. UNCHANGED <<life, gapAge>> /\ gate'[k] \notin {"prepared", "ready"}
      BY <2>2, Zenon DEF GateConnect, unit, TypeOK
    <3>2. UnitInv'
      BY <1>1, <3>1, ZenonT(60) DEF UnitInv
    <3> QED
      BY <1>1, <3>1, <3>2, ZenonT(60) DEF StateInv
  <2>3. CASE GateReturn(k)
    <3>0. life[k] = "pre" /\ gate'[k] = "idle" /\ gapAge' = 0 /\ Exists(k)
      BY <2>3, Zenon DEF GateReturn, Exists, TypeOK
    <3>1. CASE gate[k] = "ready" /\ native /\ life' = [life EXCEPT ![k] = "gap"]
      <4>1. \A i \in Keys : i # k => ~Opened(i) /\ life[i] # "gap"
        BY <2>0, <3>0, <3>1, Zenon DEF Exists
      <4>2. life'[k] = "gap"
        BY <3>1, Zenon DEF TypeOK
      <4>3. UnitInv'
        BY <1>1, <3>0, <3>1, <4>1, <4>2, Ages, ZenonT(60) DEF UnitInv, TypeOK
      <4> QED
        BY <1>1, <3>0, <3>1, <4>1, <4>2, <4>3, ZenonT(60) DEF StateInv, TypeOK
    <3>2. CASE gate[k] = "ready" /\ ~native /\ life' = [life EXCEPT ![k] = "app"]
      BY <1>1, <3>0, <3>2, ZenonT(60) DEF UnitInv, StateInv, TypeOK
    <3>3. CASE life' = [life EXCEPT ![k] = "stopping"]
      <4>1. life'[k] = "stopping"
        BY <3>3, Zenon DEF TypeOK
      <4>2. UnitInv'
        <5>1. native => \A i, j \in Keys : i < j /\ life'[j] # "absent" => life'[i] = "gone"
          BY <1>1, <3>0, <4>1, ZenonT(60) DEF UnitInv, TypeOK
        <5>2. \A i \in Keys : life'[i] = "gap" => life[i] = "gap"
          BY <1>1, <4>1, ZenonT(60)
        <5>3. \A i \in Keys : life'[i] = "pre" => life[i] = "pre"
          BY <1>1, <4>1, ZenonT(60)
        <5>4. native => \A i \in Keys : life'[i] # "gap"
          BY <2>0, <3>0, <5>2, Zenon DEF Exists
        <5>5. \A i \in Keys : life'[i] # "gap"
          BY <5>2, <5>4, Zenon DEF UnitInv
        <5> QED
          BY <1>1, <3>0, <5>1, <5>3, <5>5, Holders, ZenonT(60) DEF UnitInv, TypeOK
      <4> QED
        BY <1>1, <3>0, <4>1, <4>2, ZenonT(60) DEF StateInv, TypeOK
    <3> QED
      BY <2>3, <3>1, <3>2, <3>3, Zenon DEF GateReturn
  <2>4. CASE AppStart(k)
    BY <1>1, <2>4, Holders, Ages, ZenonT(60) DEF AppStart, UnitInv, StateInv, TypeOK
  <2>5. CASE UnitStop(k)
    <3>1. life'[k] = "stopping" /\ Exists(k) /\ gapAge' = 0
      BY <2>5, Zenon DEF UnitStop, Exists, TypeOK
    <3>2. UnitInv'
      BY <1>1, <2>0, <3>1, Ages, ZenonT(60) DEF UnitInv, TypeOK, Exists
    <3> QED
      BY <1>1, <3>1, <3>2, ZenonT(60) DEF StateInv, TypeOK
  <2>6. CASE UnitGone(k)
    <3>1. life'[k] = "gone" /\ life[k] = "stopping" /\ UNCHANGED <<gapAge, gate>>
      BY <2>6, Zenon DEF UnitGone, TypeOK
    <3>2. UnitInv'
      BY <1>1, <3>1, ZenonT(60) DEF UnitInv, TypeOK
    <3> QED
      BY <1>1, <3>1, <3>2, ZenonT(60) DEF StateInv, TypeOK
  <2> QED
    BY <2>1, <2>2, <2>3, <2>4, <2>5, <2>6, Zenon DEF Unit
<1> QED
  BY <1>1, <1>2, <1>4, <1>5, <1>6, <1>7 DEF IInv
-----------------------------------------------------------------------------
(* Taking controller.mu.                                                    *)

\* The lock is taken for a job that begins with the kill of the current instance or, if
\* there is none, behind it.
LEMMA LockTaken ==
    ASSUME IInv, lock = Free, ctrl # "down",
           UNCHANGED <<unit, ctrl, epoch, current, emptyAge, state, captured, workers>>,
           NEW h \in Keys \cup {Reconcile, Stop}, lock' = h,
           NEW p \in {"kill", "setup", "recover"}, NEW key \in Keys \cup {0},
           NEW a \in {"start", "recover", "release", "down"}, Begin(p, key, a),
           p \in {"setup", "recover"} => current = 0,
           p = "recover" \/ a \in {"recover", "release"} => h = Reconcile,
           a = "start" <=> h \in Keys, h \in Keys => key = h /\ gate[h] = "queued",
           h \notin Keys => key = 0, p = "setup" => h \in Keys,
           gate' = IF h \in Keys THEN [gate EXCEPT ![h] = "serving"] ELSE gate,
           a = "release" => /\ p = "kill" /\ current # 0
                            /\ life[current] \in {"stopping", "gone"}
    PROVE  IInv'
<1>1. job' \in JobType /\ job'.phase = p /\ job'.key = key /\ job'.after = a
  <2>1. p \in Phases /\ a \in {"start", "recover", "release", "fail", "down"}
    BY DEF Phases
  <2> QED
    BY <2>1, JobBegin
<1>2. job.phase = "none" /\ h # Free
  BY Holders DEF IInv, LockInv
<1>3. /\ UNCHANGED <<native, life, gapAge, Done>> /\ \A k \in Keys : Exists(k)' = Exists(k)
      /\ \A k \in Keys : gate'[k] = gate[k] \/ (k = h /\ gate[k] = "queued" /\ gate'[k] = "serving")
      /\ gate' \in [Keys -> Gates]
      /\ JobType' = JobType
  BY DEF unit, Done, Exists, IInv, TypeOK, Gates
<1>4. TypeOK'
  BY <1>1, <1>3 DEF IInv, TypeOK, unit
<1>5. LockInv'
  BY <1>1, <1>2, Holders DEF IInv, TypeOK, LockInv, Starting
<1>6. Known'
  BY <1>1, <1>3, Holders DEF IInv, Known
<1>7. WorkerInv'
  BY <1>1, <1>2, <1>3 DEF IInv, WorkerInv, NoneExpected
<1>8. CaptureInv'
  BY <1>1, <1>3 DEF IInv, CaptureInv, CaptureOutlivesWorker, Exists
<1>9. UnitInv'
  BY <1>3 DEF IInv, UnitInv
<1>10. StateInv'
  BY <1>1, <1>2, <1>3, Zenon DEF IInv, StateInv, Opened, LockInv
<1> QED
  BY <1>4, <1>5, <1>6, <1>7, <1>8, <1>9, <1>10 DEF IInv

\* A connection moves on while nothing else changes.  A gate is accepted only when
\* state.json names it and no job is under way.
LEMMA GateMoves ==
    ASSUME IInv, NEW k \in Keys, gate[k] # "idle", NEW v \in Gates,
           gate' = [gate EXCEPT ![k] = v],
           v \in {"prepared", "ready"} => Opened(k) \/ (lock = Free /\ state = k),
           UNCHANGED <<unit, ctrl, epoch, lock, job, current, emptyAge, state, captured, workers>>
    PROVE  IInv'
<1>1. /\ UNCHANGED <<native, life, gapAge, Done, JobType>>
      /\ \A i \in Keys : gate'[i] = gate[i] \/ (i = k /\ gate'[i] = v)
  BY DEF unit, Done, IInv, TypeOK, JobType
<1>2. TypeOK' /\ LockInv'
  BY <1>1, ZenonT(60) DEF IInv, TypeOK, LockInv
<1>3. Known'
  BY <1>1, Zenon DEF IInv, Known
<1>4. WorkerInv' /\ CaptureInv' /\ UnitInv'
  BY <1>1, ZenonT(60) DEF IInv, WorkerInv, NoneExpected, CaptureInv, CaptureOutlivesWorker,
                          Exists, UnitInv
<1>5. StateInv'
  <2>1. \A i \in Keys : Opened(i)' => Opened(i) \/ (i = k /\ lock = Free /\ state = k)
    BY <1>1, Zenon DEF Opened
  <2>2. lock = Free => lock \notin Keys
    BY Holders
  <2> QED
    BY <1>1, <2>1, <2>2, Zenon DEF IInv, StateInv
<1> QED
  BY <1>2, <1>3, <1>4, <1>5 DEF IInv

LEMMA GateLockStep ==
    ASSUME IInv, NEW k \in Keys, GateLock(k)
    PROVE  IInv'
<1>1. /\ ctrl # "down" /\ lock = Free /\ gate[k] = "queued"
      /\ UNCHANGED <<unit, ctrl, epoch, current, emptyAge, state, captured, workers>>
  BY DEF GateLock
<1>2. ASSUME UNCHANGED <<lock, job>>, NEW verdict \in {"prepared", "refused"},
             gate' = [gate EXCEPT ![k] = verdict], verdict = "prepared" => current = k
      PROVE  IInv'
  <2>1. job.phase = "none"
    BY <1>1 DEF IInv, LockInv
  <2>2. verdict = "prepared" => state = k
    BY <1>2, <2>1, Holders DEF IInv, LockInv
  <2>3. verdict \in Gates
    BY <1>2 DEF Gates
  <2> QED
    BY <1>1, <1>2, <2>2, <2>3, GateMoves, Zenon
<1>3. ASSUME NEW p \in {"kill", "setup"}, lock' = k, Begin(p, k, "start"),
             gate' = [gate EXCEPT ![k] = "serving"], p = "setup" => current = 0
      PROVE  IInv'
  BY <1>1, <1>3, LockTaken, Zenon
<1> QED
  BY <1>2, <1>3 DEF GateLock

\* The handler's answer needs no lock: what it opens has been open since prepare returned.
LEMMA GateAnswerStep ==
    ASSUME IInv, NEW k \in Keys, GateAnswer(k)
    PROVE  IInv'
<1>1. UNCHANGED <<unit, ctrl, epoch, lock, job, current, emptyAge, state, captured, workers>>
  BY Zenon DEF GateAnswer
<1>2. CASE gate[k] = "prepared" /\ gate' = [gate EXCEPT ![k] = Answered(k, "ready")]
  <2>1. Answered(k, "ready") \in Gates /\ (Answered(k, "ready") = "ready" => Opened(k))
        /\ Answered(k, "ready") # "prepared"
    BY <1>2 DEF Answered, Gates, Opened
  <2> QED
    BY <1>1, <1>2, <2>1, GateMoves, Zenon
<1>3. CASE gate[k] = "refused" /\ gate' = [gate EXCEPT ![k] = Answered(k, "error")]
  <2>1. Answered(k, "error") \in Gates \ {"prepared", "ready"}
    BY DEF Answered, Gates
  <2> QED
    BY <1>1, <1>3, <2>1, GateMoves, Zenon
<1> QED
  BY <1>2, <1>3, Zenon DEF GateAnswer

LEMMA ReconcileLockStep ==
    ASSUME IInv, ReconcileLock
    PROVE  IInv'
<1>1. /\ ctrl = "up" /\ lock = Free
      /\ UNCHANGED <<unit, gate, ctrl, epoch, current, state, captured, workers>>
  BY DEF ReconcileLock
<1>2. ASSUME UNCHANGED <<lock, job>>, current # 0,
             \/ emptyAge' = NotEmpty
             \/ emptyAge' = 0 /\ ~Populated(current)
      PROVE  IInv'
  <2>1. UNCHANGED <<native, life, gapAge, Done>>
    BY <1>1 DEF unit, Done
  <2>2. TypeOK' /\ LockInv' /\ Known'
    BY <1>1, <1>2, <2>1 DEF IInv, TypeOK, LockInv, Known, NotEmpty, JobType
  <2>3. WorkerInv' /\ CaptureInv' /\ StateInv'
    BY <1>1, <1>2, <2>1, ZenonT(60) DEF IInv, WorkerInv, NoneExpected, CaptureInv, CaptureOutlivesWorker,
                            Exists, StateInv, Opened
  <2>4. UnitInv'
    BY <1>1, <1>2, <2>1 DEF IInv, TypeOK, UnitInv, Populated, NotEmpty
  <2> QED
    BY <2>2, <2>3, <2>4 DEF IInv
<1>3. ASSUME UNCHANGED emptyAge, lock' = Reconcile,
             NEW p \in {"kill", "recover"}, NEW a \in {"recover", "release"}, Begin(p, 0, a),
             p = "recover" => current = 0,
             a = "release" => p = "kill" /\ current # 0 /\ life[current] \in {"stopping", "gone"}
      PROVE  IInv'
  BY <1>1, <1>3, LockTaken, Holders, Zenon
<1>4. ASSUME current # 0, ~Populated(current), emptyAge >= EmptyLimit
      PROVE  life[current] \in {"stopping", "gone"}
  <2>1. current \in Keys /\ life[current] # "absent"
    BY <1>4 DEF IInv, TypeOK, Known
  <2>2. life[current] # "gap"
    BY <1>4, <2>1, AgentControllerAssumption DEF IInv, TypeOK, UnitInv
  <2> QED
    BY <1>4, <2>1, <2>2 DEF IInv, TypeOK, Populated
<1> QED
  BY <1>2, <1>3, <1>4 DEF ReconcileLock

LEMMA ShutdownLockStep ==
    ASSUME IInv, ShutdownLock
    PROVE  IInv'
BY LockTaken, Holders, Zenon DEF ShutdownLock
-----------------------------------------------------------------------------
(* Steps of the holder of the lock.                                         *)

\* A step of the job that changes only the job record, and the lock and the gate if it is
\* the last one.
LEMMA JobMoves ==
    ASSUME IInv, job.phase # "none", NEW p \in Phases \ {"none"},
           UNCHANGED <<unit, gate, ctrl, epoch, lock, current, emptyAge, state, captured, workers>>,
           job' \in JobType, job'.phase = p, job'.after \in {job.after, "fail"},
           job'.key = job.key \/ (job.phase = "recover" /\ p = "setup" /\ job'.key = state),
           \/ p \in {"kill", "uncap"} /\ job'.after = "fail" /\ (p = "uncap" => Done)
           \/ p = "attach" /\ job.phase = "setup"
           \/ p = "setup" /\ job.phase = "recover" /\ state # 0 /\ job'.key = state
    PROVE  IInv'
<1>1. /\ UNCHANGED <<native, life, gapAge, Done, JobType>> /\ \A k \in Keys : Exists(k)' = Exists(k)
  BY DEF unit, Done, Exists, JobType
<1>2. TypeOK'
  BY <1>1 DEF IInv, TypeOK
<1>3. job.key \in Keys \cup {0} /\ state \in Keys \cup {0}
  BY JobFields DEF IInv, TypeOK
<1>4. LockInv'
  BY <1>3, Holders, Zenon DEF IInv, LockInv, Starting
<1>5. Known'
  BY <1>1, <1>3 DEF IInv, Known
<1>6. WorkerInv'
  BY <1>1 DEF IInv, WorkerInv, NoneExpected
<1>7. CaptureInv'
  BY <1>1, Zenon DEF IInv, CaptureInv, CaptureOutlivesWorker, Exists
<1>8. UnitInv' /\ StateInv'
  BY <1>1, Zenon DEF IInv, UnitInv, StateInv, Opened
<1> QED
  BY <1>2, <1>4, <1>5, <1>6, <1>7, <1>8 DEF IInv

LEMMA SetupStep == ASSUME IInv, Setup PROVE IInv'
<1>1. /\ job.phase = "setup" /\ job \in JobType /\ Done
      /\ UNCHANGED <<unit, gate, ctrl, epoch, lock, current, emptyAge, state, captured, workers>>
  BY Holders, Zenon DEF Setup, IInv, TypeOK, WorkerInv, NoneExpected, LockInv
<1>2. CASE Goto("attach")
  BY <1>1, <1>2, JobGoto, JobMoves DEF Phases
<1>3. CASE Fail("uncap")
  BY <1>1, <1>3, JobFail, JobMoves DEF Phases
<1> QED
  BY <1>2, <1>3 DEF Setup

LEMMA StartAbortedStep == ASSUME IInv, StartAborted PROVE IInv'
BY JobFail, JobMoves, Zenon DEF StartAborted, Phases, IInv, TypeOK

\* close kills and waits for the worker: no process of this controller is left.
LEMMA KillStep == ASSUME IInv, KillWorker PROVE IInv'
<1>1. /\ job.phase = "kill" /\ workers' = {w \in workers : w.epoch # epoch}
      /\ UNCHANGED <<unit, gate, ctrl, epoch, lock, current, emptyAge, state, captured>>
      /\ job' \in JobType /\ job'.phase = "uncap" /\ job'.key = job.key /\ job'.after = job.after
  BY JobGoto DEF KillWorker, Phases, IInv, TypeOK
<1>2. /\ UNCHANGED <<native, life, gapAge, JobType>> /\ \A k \in Keys : Exists(k)' = Exists(k)
      /\ Done' /\ workers' \subseteq workers
  BY <1>1 DEF unit, Done, Exists, JobType
<1>3. TypeOK' /\ LockInv' /\ Known'
  BY <1>1, <1>2, ZenonT(60) DEF IInv, TypeOK, LockInv, Known, Starting
<1>4. WorkerInv'
  BY <1>1, <1>2, Zenon DEF IInv, WorkerInv
<1>5. CaptureInv'
  BY <1>1, <1>2, Zenon DEF IInv, CaptureInv, CaptureOutlivesWorker, Exists
<1>6. UnitInv' /\ StateInv'
  BY <1>1, <1>2, Zenon DEF IInv, UnitInv, StateInv, Opened
<1> QED
  BY <1>3, <1>4, <1>5, <1>6 DEF IInv

\* The lock is given back: only the holder's gate, if it is one, gets its answer.
LEMMA Unlocked ==
    ASSUME IInv, NEW verdict \in {"prepared", "refused"}, Finish(verdict)
    PROVE  /\ lock' = Free /\ job' \in JobType /\ job'.phase = "none" /\ job'.key = 0
           /\ job'.after = "fail"
           /\ gate' \in [Keys -> Gates]
           /\ \A k \in Keys : k # lock => gate'[k] = gate[k]
           /\ lock \in Keys => gate'[lock] = verdict
BY JobNone DEF Finish, IInv, TypeOK, Gates

\* A connection that breaks gets no verdict.
LEMMA Disconnects ==
    ASSUME IInv
    PROVE  /\ Disconnected \in [Keys -> Gates]
           /\ \A k \in Keys : \/ Disconnected[k] = gate[k]
                              \/ Disconnected[k] \in {"error", "idle"} /\ gate[k] # "idle"
<1>1. \A k \in Keys : k \in Serving => gate[k] # "idle"
  BY Zenon DEF Serving
<1>2. \A k \in Keys : Answered(k, "error") \in {"error", "idle"}
  BY Zenon DEF Answered
<1>3. gate \in [Keys -> Gates] /\ "error" \in Gates /\ "idle" \in Gates
  BY Zenon DEF IInv, TypeOK, Gates
<1> QED
  BY <1>1, <1>2, <1>3, ZenonT(60) DEF Disconnected

\* capture.Close comes after the worker, and nothing is current after it.
LEMMA CloseStep == ASSUME IInv, CloseCapture PROVE IInv'
<1>1. /\ job.phase = "uncap" /\ captured' = {} /\ current' = 0 /\ emptyAge' = NotEmpty
      /\ UNCHANGED <<native, life, gapAge, epoch, workers, Done, JobType>> /\ job \in JobType
      /\ lock # Free /\ ctrl # "down" /\ Done
      /\ \A k \in Keys : Exists(k)' = Exists(k)
  BY Zenon
     DEF CloseCapture, unit, Done, IInv, TypeOK, JobType, LockInv, WorkerInv, NoneExpected, Exists
<1>2. \A k \in Keys : life[k] = "absent" => k \notin {lock, job.key, current, state}
  BY DEF IInv, Known
<1>3. ASSUME job' \in JobType, state' \in {0, state}, lock' \in {lock, Free},
             ctrl' \in {ctrl, "down"}, ctrl' = "down" => lock' = Free,
             gate' \in [Keys -> Gates],
             job'.key \in {job.key, 0}, job'.phase \in {"none", "setup", "recover"},
             lock' = Free <=> job'.phase = "none",
             \A k \in Keys : gate'[k] = gate[k] \/ (gate'[k] \in {"error", "idle"} /\ gate[k] # "idle")
                               \/ (gate'[k] = "refused" /\ k = lock),
             job'.phase = "setup" => job.after = "start" /\ job'.after = "start" /\ job'.key = job.key,
             job'.phase = "recover" => job.after \in {"recover", "release"} /\ job'.after = job.after,
             job'.phase = "none" => job'.after = "fail",
             state' # state => job.after = "release"
      PROVE  IInv'
  <2>1. TypeOK'
    BY <1>1, <1>3, Ages, ZenonT(60) DEF IInv, TypeOK
  <2>2. LockInv'
    BY <1>1, <1>3, Holders, ZenonT(60) DEF IInv, LockInv, TypeOK, Starting
  <2>3. Known'
    BY <1>1, <1>2, <1>3, Holders, ZenonT(60) DEF IInv, Known, Free
  <2>4. WorkerInv'
    BY <1>1, <1>3, Zenon DEF IInv, WorkerInv, Done
  <2>5. CaptureInv'
    BY <1>1, <1>3, Zenon DEF IInv, CaptureInv, CaptureOutlivesWorker, Done
  <2>6. UnitInv'
    BY <1>1 DEF IInv, UnitInv
  <2>7. StateInv'
    <3>1. \A k \in Keys : Opened(k)' => Opened(k)
      BY <1>1, <1>3, Zenon DEF Opened
    <3>2. native /\ state' # state => \A k \in Keys : ~Opened(k)
      BY <1>1, <1>3, Zenon DEF IInv, StateInv, Opened
    <3> QED
      BY <1>1, <1>3, <3>1, <3>2, Zenon DEF IInv, StateInv
  <2> QED
    BY <2>1, <2>2, <2>3, <2>4, <2>5, <2>6, <2>7 DEF IInv
<1>4. CASE job.after \in {"start", "recover", "release"} /\ lock' = lock
  <2>1. PICK p \in {"setup", "recover"} : Goto(p) /\ (p = "setup" <=> job.after = "start")
    BY <1>1, <1>4, Holders, Zenon DEF CloseCapture, Finish
  <2>2. job' \in JobType /\ job'.phase = p /\ job'.key = job.key /\ job'.after = job.after
    BY <1>1, <2>1, JobGoto DEF Phases
  <2> QED
    BY <1>1, <1>3, <1>4, <2>1, <2>2, Zenon DEF CloseCapture, IInv, TypeOK
<1>5. CASE job.after = "fail" /\ Finish("refused") /\ UNCHANGED <<ctrl, state>>
  BY <1>1, <1>3, <1>5, Unlocked
<1>6. CASE /\ job.after = "down" /\ lock' = Free /\ job' = NoJob /\ ctrl' = "down"
           /\ gate' = Disconnected
           /\ UNCHANGED state
  BY <1>1, <1>3, <1>6, Disconnects, JobNone, Zenon
<1> QED
  BY <1>1, <1>4, <1>5, <1>6 DEF CloseCapture

\* The job ends where no instance is current: the gate, if any, is refused.
LEMMA GivesUp ==
    ASSUME IInv, job.phase = "recover", Finish("refused"), state' \in {0, state},
           state' # state /\ native => \A k \in Keys : ~Exists(k),
           UNCHANGED <<unit, ctrl, epoch, current, emptyAge, captured, workers>>
    PROVE  IInv'
<1>1. /\ UNCHANGED <<native, life, gapAge, Done, JobType>> /\ \A k \in Keys : Exists(k)' = Exists(k)
  BY DEF unit, Done, Exists, JobType
<1>2. /\ lock' = Free /\ job' \in JobType /\ job'.phase = "none" /\ job'.key = 0
      /\ job'.after = "fail" /\ gate' = gate /\ lock = Reconcile /\ current = 0
  BY Unlocked, Holders, Zenon DEF IInv, LockInv, Finish
<1>3. TypeOK' /\ LockInv'
  BY <1>1, <1>2, Holders, ZenonT(60) DEF IInv, TypeOK, LockInv, Starting
<1>4. Known'
  BY <1>1, <1>2, Holders DEF IInv, Known, Free
<1>5. WorkerInv' /\ CaptureInv' /\ UnitInv'
  BY <1>1, <1>2, Zenon
     DEF IInv, WorkerInv, NoneExpected, CaptureInv, CaptureOutlivesWorker, Exists,
                    UnitInv
<1>6. StateInv'
  BY <1>1, <1>2, Holders, Zenon DEF IInv, StateInv, Opened, Exists
<1> QED
  BY <1>3, <1>4, <1>5, <1>6 DEF IInv

\* recover forgets a key only when the path of its cgroup is gone, and then no start of a
\* native unit exists.
LEMMA RecoverStep == ASSUME IInv, Recover PROVE IInv'
<1>1. /\ job.phase = "recover" /\ job \in JobType /\ state \in Keys \cup {0}
      /\ UNCHANGED <<unit, ctrl, epoch, current, emptyAge, captured, workers>>
  BY DEF Recover, IInv, TypeOK
<1>2. CASE Finish("refused") /\ UNCHANGED state
  BY <1>1, <1>2, GivesUp
<1>3. CASE state # 0 /\ ~PathExists(state) /\ Finish("refused") /\ state' = 0
  BY <1>1, <1>3, GivesUp DEF PathExists
<1>4. CASE state # 0 /\ job' = [job EXCEPT !.phase = "setup", !.key = state]
             /\ UNCHANGED <<gate, lock, state>>
  <2>1. /\ job' \in JobType /\ job'.phase = "setup" /\ job'.key = state /\ job'.after = job.after
    BY <1>1, <1>4, Zenon DEF JobType, Phases
  <2> QED
    BY <1>1, <1>4, <2>1, JobMoves DEF Phases
<1> QED
  BY <1>2, <1>3, <1>4 DEF Recover

\* attachCapture: from here on no other start of a native unit has an open gate, because
\* its cgroup would have to exist beside this one.
LEMMA AttachStep == ASSUME IInv, Attach PROVE IInv'
<1>1. /\ job.phase = "attach" /\ job \in JobType
      /\ UNCHANGED <<unit, gate, ctrl, epoch, lock, current, emptyAge, state, workers>>
  BY DEF Attach, IInv, TypeOK
<1>2. current = 0 /\ job.key \in Keys /\ Done /\ lock # Free /\ ctrl # "down"
  BY <1>1, Zenon DEF IInv, LockInv, Starting, WorkerInv, NoneExpected
<1>3. CASE Fail("uncap") /\ UNCHANGED captured
  BY <1>1, <1>2, <1>3, JobFail, JobMoves, Zenon DEF Phases
<1>4. CASE Exists(job.key) /\ captured' = captured \cup {job.key} /\ Goto("spawn")
  <2>1. job' \in JobType /\ job'.phase = "spawn" /\ job'.key = job.key /\ job'.after = job.after
    BY <1>1, <1>4, JobGoto DEF Phases
  <2>2. UNCHANGED <<native, life, gapAge, Done, JobType>> /\ \A k \in Keys : Exists(k)' = Exists(k)
    BY <1>1 DEF unit, Done, Exists, JobType
  <2>3. TypeOK' /\ LockInv' /\ Known'
    BY <1>1, <1>2, <1>4, <2>1, <2>2, Zenon DEF IInv, TypeOK, LockInv, Known, Starting
  <2>4. WorkerInv' /\ CaptureInv' /\ UnitInv'
    BY <1>1, <1>2, <1>4, <2>1, <2>2, Zenon DEF IInv, WorkerInv, NoneExpected, CaptureInv,
       CaptureOutlivesWorker, Done, UnitInv
  <2>5. native /\ lock \in Keys => \A k \in Keys : Opened(k) => k = lock
    BY <1>1, <1>2, <1>4, OneExists, Zenon DEF IInv, LockInv, Starting, Opened, Exists
  <2>6. StateInv'
    BY <1>1, <2>1, <2>2, <2>5, Zenon DEF IInv, StateInv, Opened
  <2> QED
    BY <2>3, <2>4, <2>6 DEF IInv
<1> QED
  BY <1>3, <1>4 DEF Attach

\* workerCgroup: the new worker is the only one of this controller, and no other serves.
LEMMA SpawnStep == ASSUME IInv, Spawn PROVE IInv'
<1>1. /\ job.phase = "spawn" /\ job \in JobType
      /\ UNCHANGED <<unit, gate, ctrl, epoch, lock, current, emptyAge, state, captured>>
  BY Zenon DEF Spawn, IInv, TypeOK
<1>2. current = 0 /\ job.key \in Keys /\ Done /\ lock # Free /\ ctrl # "down" /\ epoch \in Nat
  BY <1>1, Zenon DEF IInv, TypeOK, LockInv, Starting, WorkerInv, NoneExpected
<1>3. CASE Fail("uncap") /\ UNCHANGED workers
  BY <1>1, <1>2, <1>3, JobFail, JobMoves DEF Phases
<1>4. CASE /\ Goto("wait")
           /\ \A w \in workers : w.stage = "boot"
           /\ workers' = workers \cup {[key |-> job.key, epoch |-> epoch, stage |-> "boot"]}
  <2>1. job' \in JobType /\ job'.phase = "wait" /\ job'.key = job.key /\ job'.after = job.after
    BY <1>1, <1>4, JobGoto DEF Phases
  <2>2. UNCHANGED <<native, life, gapAge, JobType>> /\ \A k \in Keys : Exists(k)' = Exists(k)
    BY <1>1 DEF unit, Exists, JobType
  <2>3. PICK n \in WorkerType : n.key = job.key /\ n.epoch = epoch /\ n.stage = "boot"
                                  /\ workers' = workers \cup {n}
    BY <1>2, <1>4, Zenon DEF WorkerType
  <2>4. TypeOK' /\ LockInv' /\ UnitInv' /\ StateInv'
    BY <1>1, <1>2, <2>1, <2>2, <2>3, ZenonT(60)
       DEF IInv, TypeOK, LockInv, Starting, UnitInv, StateInv, Opened
  <2>5. Known'
    BY <1>1, <2>1, <2>2, <2>3, ZenonT(60) DEF IInv, Known
  <2>6. WorkerInv'
    <3>1. epoch <= epoch
      BY DEF IInv, TypeOK
    <3> QED
      BY <1>1, <1>2, <1>4, <2>1, <2>3, <3>1, ZenonT(60) DEF IInv, WorkerInv, NoneExpected, Done
  <2>7. CaptureInv'
    BY <1>1, <1>2, <2>1, <2>2, <2>3, Zenon
       DEF IInv, CaptureInv, CaptureOutlivesWorker, Done, Exists
  <2> QED
    BY <2>4, <2>5, <2>6, <2>7 DEF IInv
<1> QED
  BY <1>3, <1>4 DEF Spawn

\* The started instance becomes current; recover's instance is the one state.json names.
LEMMA StartedStep == ASSUME IInv, Started PROVE IInv'
<1>1. /\ job.phase = "wait" /\ job \in JobType /\ current' = job.key /\ emptyAge' = NotEmpty
      /\ UNCHANGED <<unit, ctrl, epoch, state, captured, workers>>
  BY DEF Started, IInv, TypeOK
<1>2. /\ current = 0 /\ job.key \in Keys /\ lock # Free /\ ctrl # "down"
      /\ IF lock \in Keys THEN job.key = lock ELSE state = job.key
      /\ Exists(job.key) => job.key \in captured
  BY <1>1, Zenon DEF IInv, LockInv, Starting, CaptureInv
<1>3. UNCHANGED <<native, life, gapAge, Done, JobType>> /\ \A k \in Keys : Exists(k)' = Exists(k)
  BY <1>1 DEF unit, Done, Exists, JobType
<1>4. gapAge \in Nat /\ NotEmpty \in Int /\ NotEmpty <= gapAge
  BY DEF IInv, TypeOK, NotEmpty
<1>5. UnitInv'
  BY <1>1, <1>3, <1>4, Zenon DEF IInv, UnitInv
<1>6. CASE lock \in Keys /\ Goto("save") /\ UNCHANGED <<lock, gate>>
  <2>1. job' \in JobType /\ job'.phase = "save" /\ job'.key = job.key /\ job'.after = job.after
    BY <1>1, <1>6, JobGoto DEF Phases
  <2>2. TypeOK' /\ LockInv' /\ Known'
    BY <1>1, <1>2, <1>3, <1>4, <1>6, <2>1, Holders, Zenon
       DEF IInv, TypeOK, LockInv, Starting, Known
  <2>3. WorkerInv' /\ CaptureInv' /\ StateInv'
    BY <1>1, <1>2, <1>3, <1>6, <2>1, Zenon DEF IInv, WorkerInv, NoneExpected, CaptureInv,
       CaptureOutlivesWorker, Exists, StateInv, Opened
  <2> QED
    BY <1>5, <2>2, <2>3 DEF IInv
<1>7. CASE lock \notin Keys /\ Finish("prepared")
  <2>1. /\ lock' = Free /\ job' \in JobType /\ job'.phase = "none" /\ job'.key = 0
        /\ job'.after = "fail" /\ UNCHANGED gate
    BY <1>7, Unlocked DEF Finish
  <2>2. TypeOK' /\ LockInv' /\ Known'
    BY <1>1, <1>2, <1>3, <1>4, <1>7, <2>1, Holders, Zenon
       DEF IInv, TypeOK, LockInv, Starting, Known
  <2>3. WorkerInv' /\ CaptureInv' /\ StateInv'
    BY <1>1, <1>2, <1>3, <1>7, <2>1, Holders, Zenon
       DEF IInv, WorkerInv, NoneExpected, CaptureInv,
       CaptureOutlivesWorker, Exists, StateInv, Opened
  <2> QED
    BY <1>5, <2>2, <2>3 DEF IInv
<1> QED
  BY <1>6, <1>7 DEF Started

\* saveState, then the answer: no other start of a native unit has an open gate, so no
\* running unit loses its state.
LEMMA SaveStep == ASSUME IInv, SaveState PROVE IInv'
<1>1. /\ job.phase = "save" /\ job \in JobType /\ state' = job.key /\ Finish("prepared")
      /\ UNCHANGED <<unit, ctrl, epoch, current, emptyAge, captured, workers>>
  BY DEF SaveState, IInv, TypeOK
<1>2. /\ lock \in Keys /\ current = job.key /\ job.key = lock /\ ctrl # "down"
  BY <1>1, Holders, ZenonT(60) DEF IInv, LockInv
<1>3. /\ UNCHANGED <<native, life, gapAge, Done, JobType>> /\ \A k \in Keys : Exists(k)' = Exists(k)
  BY <1>1 DEF unit, Done, Exists, JobType
<1>4. /\ lock' = Free /\ job' \in JobType /\ job'.phase = "none" /\ job'.key = 0
      /\ job'.after = "fail"
      /\ gate' \in [Keys -> Gates]
      /\ \A k \in Keys : k # lock => gate'[k] = gate[k]
  BY <1>1, Unlocked, Zenon
<1>5. TypeOK' /\ LockInv'
  BY <1>1, <1>2, <1>3, <1>4, Holders, Zenon DEF IInv, TypeOK, LockInv, Starting
<1>6. Known'
  BY <1>1, <1>2, <1>3, <1>4, Holders, Zenon DEF IInv, Known, Free
<1>7. WorkerInv' /\ CaptureInv' /\ UnitInv'
  BY <1>1, <1>2, <1>3, <1>4, Holders, ZenonT(60) DEF IInv, WorkerInv, NoneExpected, CaptureInv,
     CaptureOutlivesWorker, Exists, UnitInv
<1>8. StateInv'
  BY <1>1, <1>2, <1>3, <1>4, Holders, Zenon DEF IInv, StateInv, Opened
<1> QED
  BY <1>5, <1>6, <1>7, <1>8 DEF IInv

LEMMA StepFailsStep == ASSUME IInv, StepFails PROVE IInv'
<1>1. job \in JobType /\ UNCHANGED <<unit, ctrl, epoch, current, emptyAge, state, captured, workers>>
  BY Zenon DEF StepFails, IInv, TypeOK
<1>2. CASE job.phase \in {"setup", "attach", "spawn"} /\ Fail("uncap") /\ UNCHANGED <<lock, gate>>
  <2>1. Done
    BY <1>2, Zenon DEF IInv, LockInv, WorkerInv, NoneExpected
  <2> QED
    BY <1>1, <1>2, <2>1, JobFail, JobMoves, Zenon DEF Phases
<1>3. CASE job.phase \in {"wait", "save"} /\ Fail("kill") /\ UNCHANGED <<lock, gate>>
  BY <1>1, <1>3, JobFail, JobMoves, Zenon DEF Phases
<1>4. CASE job.phase = "recover" /\ Finish("refused")
  BY <1>1, <1>4, GivesUp
<1>5. CASE /\ \E k \in Keys : gate[k] = "queued" /\ gate' = [gate EXCEPT ![k] = "refused"]
           /\ UNCHANGED <<lock, job>>
  <2>1. "refused" \in Gates
    BY DEF Gates
  <2> QED
    BY <1>1, <1>5, <2>1, GateMoves, Zenon
<1> QED
  BY <1>2, <1>3, <1>4, <1>5 DEF StepFails
-----------------------------------------------------------------------------
(* The worker and the controller process.                                   *)

\* A worker goes on to another stage.  Only one of this controller announces itself, and
\* then it is the only one.
LEMMA WorkerMoves ==
    ASSUME IInv, NEW w \in workers, NEW s \in {"joined", "ready"}, w.stage # "ready",
           s = "ready" => w.epoch = epoch,
           workers' = (workers \ {w}) \cup {[w EXCEPT !.stage = s]},
           job' \in JobType, job'.phase = job.phase, job'.key = job.key, job'.after = job.after,
           UNCHANGED <<unit, gate, ctrl, epoch, lock, current, emptyAge, state, captured>>
    PROVE  IInv'
<1>1. w \in WorkerType
  BY DEF IInv, TypeOK
<1>2. PICK n \in WorkerType : n.key = w.key /\ n.epoch = w.epoch /\ n.stage = s
                                /\ workers' = (workers \ {w}) \cup {n}
  BY <1>1, Zenon DEF WorkerType
<1>3. UNCHANGED <<native, life, gapAge, JobType>> /\ \A k \in Keys : Exists(k)' = Exists(k)
  BY DEF unit, Exists, JobType
<1>4. TypeOK' /\ LockInv' /\ UnitInv' /\ StateInv'
  BY <1>2, <1>3 DEF IInv, TypeOK, LockInv, UnitInv, StateInv, Opened
<1>5. Known'
  BY <1>2, <1>3 DEF IInv, Known
<1>6. WorkerInv'
  BY <1>2, <1>3 DEF IInv, WorkerInv, NoneExpected, Done
<1>7. CaptureInv'
  BY <1>2, <1>3 DEF IInv, CaptureInv, CaptureOutlivesWorker, Exists
<1> QED
  BY <1>4, <1>5, <1>6, <1>7 DEF IInv

LEMMA WorkerGone ==
    ASSUME IInv, workers' \subseteq workers,
           UNCHANGED <<unit, gate, ctrl, epoch, lock, job, current, emptyAge, state, captured>>
    PROVE  IInv'
<1>1. UNCHANGED <<native, life, gapAge, JobType>> /\ \A k \in Keys : Exists(k)' = Exists(k)
  BY DEF unit, Exists, JobType
<1>2. TypeOK' /\ LockInv' /\ UnitInv' /\ StateInv' /\ Known'
  <2>1. TypeOK'
    BY <1>1, ZenonT(60) DEF IInv, TypeOK
  <2>2. LockInv' /\ Known'
    BY <1>1, ZenonT(60) DEF IInv, LockInv, Known
  <2>3. UnitInv' /\ StateInv'
    BY <1>1, ZenonT(60) DEF IInv, UnitInv, StateInv, Opened
  <2> QED
    BY <2>1, <2>2, <2>3
<1>3. WorkerInv' /\ CaptureInv'
  BY <1>1, Zenon
     DEF IInv, WorkerInv, NoneExpected, Done, CaptureInv, CaptureOutlivesWorker, Exists
<1> QED
  BY <1>2, <1>3 DEF IInv

LEMMA WorkerStep ==
    ASSUME IInv, WorkerJoin \/ WorkerReady \/ WorkerExit \/ WorkerDies
    PROVE  IInv'
<1>1. CASE WorkerJoin
  BY <1>1, WorkerMoves, ZenonT(60) DEF WorkerJoin, IInv, TypeOK
<1>2. CASE WorkerReady
  <2>1. PICK w \in workers :
          /\ w.stage = "joined" /\ w.epoch = epoch
          /\ workers' = (workers \ {w}) \cup {[w EXCEPT !.stage = "ready"]}
          /\ job' = IF job.phase = "wait" THEN [job EXCEPT !.ready = TRUE] ELSE job
          /\ UNCHANGED <<unit, gate, ctrl, epoch, lock, current, emptyAge, state, captured>>
    BY <1>2 DEF WorkerReady
  <2>2. job' \in JobType /\ job'.phase = job.phase /\ job'.key = job.key /\ job'.after = job.after
    BY <2>1, Zenon DEF IInv, TypeOK, JobType
  <2> QED
    BY <2>1, <2>2, WorkerMoves, Zenon
<1>3. CASE WorkerExit \/ WorkerDies
  BY <1>3, WorkerGone, Zenon DEF WorkerExit, WorkerDies
<1> QED
  BY <1>1, <1>2, <1>3

\* A crash closes the capture and the connections, and leaves state.json and the worker.
LEMMA CrashStep == ASSUME IInv, Crash PROVE IInv'
<1>1. /\ ctrl' = "down" /\ lock' = Free /\ job' = NoJob /\ current' = 0 /\ emptyAge' = NotEmpty
      /\ captured' = {} /\ gate' = Disconnected
      /\ UNCHANGED <<unit, epoch, state, workers>>
  BY DEF Crash
<1>2. UNCHANGED <<native, life, gapAge, JobType>> /\ \A k \in Keys : Exists(k)' = Exists(k)
  BY <1>1 DEF unit, Exists, JobType
<1>3. /\ \A k \in Keys : gate'[k] = gate[k] \/ (gate'[k] \in {"error", "idle"} /\ gate[k] # "idle")
      /\ gate' \in [Keys -> Gates]
  BY <1>1, Disconnects, Zenon
<1>4. TypeOK'
  BY <1>1, <1>2, <1>3, JobNone, Ages, ZenonT(60) DEF IInv, TypeOK
<1>5. LockInv'
  BY <1>1, JobNone DEF LockInv, Starting
<1>6. Known'
  BY <1>1, <1>2, <1>3, JobNone, Holders, Zenon DEF IInv, Known, Free
<1>7. WorkerInv' /\ CaptureInv' /\ UnitInv'
  BY <1>1, <1>2, JobNone, Zenon DEF IInv, WorkerInv, CaptureInv, CaptureOutlivesWorker, UnitInv
<1>8. StateInv'
  BY <1>1, <1>2, <1>3, JobNone, Zenon DEF IInv, StateInv, Opened
<1> QED
  BY <1>4, <1>5, <1>6, <1>7, <1>8 DEF IInv

\* The next controller owns none of the workers it finds.
LEMMA RestartStep == ASSUME IInv, Restart PROVE IInv'
<1>1. /\ ctrl = "down" /\ ctrl' = "up" /\ epoch' = epoch + 1 /\ epoch \in Nat
      /\ UNCHANGED <<unit, gate, lock, job, current, emptyAge, state, captured, workers>>
  BY DEF Restart, IInv, TypeOK
<1>2. UNCHANGED <<native, life, gapAge, JobType>> /\ \A k \in Keys : Exists(k)' = Exists(k)
  BY <1>1 DEF unit, Exists, JobType
<1>3. \A w \in workers : w.epoch \in Nat
  BY DEF IInv, TypeOK, WorkerType
<1>4. Done' /\ \A w \in workers : w.epoch <= epoch' /\ w.epoch # epoch'
  BY <1>1, <1>3 DEF IInv, WorkerInv, Done
<1>5. TypeOK' /\ LockInv' /\ Known' /\ UnitInv' /\ StateInv'
  <2>1. epoch' \in Nat
    BY <1>1
  <2>2. TypeOK'
    BY <1>1, <1>2, <2>1, ZenonT(60) DEF IInv, TypeOK
  <2>3. LockInv' /\ Known'
    BY <1>1, <1>2, ZenonT(60) DEF IInv, LockInv, Known
  <2>4. UnitInv' /\ StateInv'
    BY <1>1, <1>2, ZenonT(60) DEF IInv, UnitInv, StateInv, Opened
  <2> QED
    BY <2>2, <2>3, <2>4
<1>6. WorkerInv' /\ CaptureInv'
  BY <1>1, <1>2, <1>4, Zenon DEF IInv, WorkerInv, CaptureInv, CaptureOutlivesWorker, Exists
<1> QED
  BY <1>5, <1>6 DEF IInv

LEMMA StopBeginStep == ASSUME IInv, StopBegin PROVE IInv'
<1>1. /\ ctrl = "up" /\ ctrl' = "stopping"
      /\ UNCHANGED <<unit, gate, epoch, lock, job, current, emptyAge, state, captured, workers>>
  BY DEF StopBegin
<1>2. UNCHANGED <<native, life, gapAge, JobType, Done>> /\ \A k \in Keys : Exists(k)' = Exists(k)
  BY <1>1 DEF unit, Exists, JobType, Done
<1>3. TypeOK' /\ LockInv' /\ Known' /\ UnitInv' /\ StateInv'
  <2>1. TypeOK'
    BY <1>1, <1>2, ZenonT(60) DEF IInv, TypeOK
  <2>2. LockInv' /\ Known'
    BY <1>1, <1>2, ZenonT(60) DEF IInv, LockInv, Known
  <2>3. UnitInv' /\ StateInv'
    BY <1>1, <1>2, ZenonT(60) DEF IInv, UnitInv, StateInv, Opened
  <2> QED
    BY <2>1, <2>2, <2>3
<1>4. WorkerInv' /\ CaptureInv'
  BY <1>1, <1>2, Zenon
     DEF IInv, WorkerInv, NoneExpected, CaptureInv, CaptureOutlivesWorker, Exists
<1> QED
  BY <1>3, <1>4 DEF IInv

\* Time: the age of an empty unit does not overtake the gap.
LEMMA TickStep == ASSUME IInv, Tick PROVE IInv'
<1>1. /\ UNCHANGED <<native, life, gate, ctrl, epoch, lock, job, current, state, captured, workers>>
      /\ gapAge \in Nat /\ emptyAge \in Int
      /\ emptyAge' \in {emptyAge, emptyAge + 1} /\ (emptyAge = NotEmpty => emptyAge' = NotEmpty)
      /\ (\E k \in Keys : life[k] = "gap") => gapAge' = gapAge + 1 /\ gapAge < GapMax
      /\ gapAge' \in Nat
  <2>1. /\ UNCHANGED <<native, life, gate, ctrl, epoch, lock, job, current, state, captured, workers>>
        /\ gapAge' = IF \E k \in Keys : life[k] = "gap" THEN gapAge + 1 ELSE 0
        /\ \A k \in Keys : life[k] = "gap" => gapAge < GapMax
        /\ emptyAge' = IF emptyAge \in 0..(EmptyLimit - 1) THEN emptyAge + 1 ELSE emptyAge
    BY Zenon DEF Tick
  <2>2. gapAge \in Nat /\ emptyAge \in Int
    BY Zenon DEF IInv, TypeOK
  <2>3. NotEmpty \notin 0..(EmptyLimit - 1) /\ gapAge + 1 \in Nat /\ 0 \in Nat
    BY <2>2 DEF NotEmpty
  <2> QED
    BY <2>1, <2>2, <2>3, ZenonT(60)
<1>2. UNCHANGED <<JobType, Done>>
  BY <1>1 DEF JobType, Done
<1>3. TypeOK' /\ LockInv' /\ Known' /\ StateInv'
  <2>1. emptyAge' \in Int
    BY <1>1
  <2>2. TypeOK'
    BY <1>1, <1>2, <2>1, ZenonT(60) DEF IInv, TypeOK
  <2> QED
    BY <1>1, <1>2, <2>2, ZenonT(60) DEF IInv, LockInv, Known, StateInv, Opened
<1>4. WorkerInv' /\ CaptureInv'
  BY <1>1, <1>2, Zenon
     DEF IInv, WorkerInv, NoneExpected, CaptureInv, CaptureOutlivesWorker, Exists
<1>5. current # 0 => current \in Keys
  BY DEF IInv, TypeOK
<1>6. UnitInv'
  <2>1. current # 0 /\ life[current] = "gap" => emptyAge' <= gapAge'
    BY <1>1, <1>5 DEF IInv, UnitInv
  <2>2. (\E k \in Keys : life[k] = "gap") => gapAge' <= GapMax
    BY <1>1, AgentControllerAssumption
  <2> QED
    BY <1>1, <2>1, <2>2, Zenon DEF IInv, UnitInv
<1> QED
  BY <1>3, <1>4, <1>6 DEF IInv

LEMMA Step == IInv /\ [Next]_vars => IInv'
<1> SUFFICES ASSUME IInv, [Next]_vars PROVE IInv'
  OBVIOUS
<1>1. CASE Finished \/ UNCHANGED vars
  <2>1. UNCHANGED <<native, life, gapAge, gate, ctrl, epoch, lock, job, current, emptyAge, state,
                    captured, workers, bounds>>
    BY <1>1, Zenon DEF Finished, vars, unit
  <2>2. TypeOK'
    BY <2>1, ZenonT(60) DEF IInv, TypeOK, JobType
  <2>3. LockInv' /\ Known'
    BY <2>1, ZenonT(60) DEF IInv, LockInv, Known
  <2>4. WorkerInv' /\ CaptureInv'
    BY <2>1, Zenon DEF IInv, WorkerInv, NoneExpected, Done, CaptureInv, CaptureOutlivesWorker,
                       Exists
  <2>5. UnitInv' /\ StateInv'
    BY <2>1, ZenonT(60) DEF IInv, UnitInv, StateInv, Opened, Done
  <2> QED
    BY <2>2, <2>3, <2>4, <2>5 DEF IInv
<1>2. CASE Job
  BY <1>2, KillStep, CloseStep, RecoverStep, SetupStep, AttachStep, SpawnStep, StartedStep,
     StartAbortedStep, SaveStep DEF Job, Start
<1> QED
  BY <1>1, <1>2, UnitStep, GateLockStep, GateAnswerStep, ReconcileLockStep, ShutdownLockStep, StepFailsStep,
     WorkerStep, CrashStep, StopBeginStep, RestartStep, TickStep DEF Next

\* The invariant holds through every interleaving of gates, rounds of reconcile, failing
\* calls, deaths of workers, crashes, stops and restarts.
THEOREM ControllerInductive == Spec => []IInv
BY InitInv, Step, PTL DEF Spec

\* instance.close and the failure paths of start stop the worker before the capture: the
\* cgroup of a living worker of the running controller is captured.
THEOREM CaptureCorrect == Spec => []CaptureOutlivesWorker
<1>1. IInv => CaptureOutlivesWorker
  BY DEF IInv, CaptureInv
<1> QED
  BY <1>1, ControllerInductive, PTL

\* workerCgroup and the lease: no two workers of the workload have announced themselves
\* at a time, whatever predecessor of the service started them.
THEOREM OneServingCorrect == Spec => []OneServing
<1>1. ASSUME IInv PROVE OneServing
  <2> DEFINE R == {w \in workers : w.stage = "ready"}
  <2>1. \A v, w \in R : v = w
    BY <1>1 DEF IInv, WorkerInv
  <2>2. R = {} \/ \E w : R = {w}
    BY <2>1
  <2>3. Cardinality({}) = 0 /\ \A w : Cardinality({w}) = 1
    BY FS_EmptySet, FS_Singleton
  <2>4. Cardinality(R) \in {0, 1}
    <3> HIDE DEF R
    <3> QED
      BY <2>2, <2>3, Zenon
  <2> QED
    BY <2>4 DEF OneServing
<1> QED
  BY <1>1, ControllerInductive, PTL

\* expiredEmpty and recover never forget a native unit between the answer to its gate
\* and the end of its application, through the empty moment in between and any crash.
THEOREM StateRetainedCorrect == Spec => []StateRetained
<1>1. IInv => StateRetained
  BY DEF IInv, StateInv, Opened, StateRetained
<1> QED
  BY <1>1, ControllerInductive, PTL

\* prepare accepts only the key that is current, saved and captured, and whatever happens
\* before its handler writes READY, state.json still names the native unit that waits.
THEOREM GateOpensCapturedCorrect == Spec => GateOpensCaptured
<1> DEFINE Opens ==
      \A k \in Keys :
        /\ gate[k] # "prepared" /\ gate'[k] = "prepared" =>
             current' = k /\ state' = k /\ (Exists(k) => k \in captured')
        /\ gate[k] # "ready" /\ gate'[k] = "ready" => (native => state' = k)
<1>1. IInv /\ [Next]_vars => [Opens]_vars
  <2>1. SUFFICES ASSUME IInv, Next, NEW k \in Keys, gate'[k] # gate[k],
                        gate'[k] \in {"prepared", "ready"}
                 PROVE  /\ gate'[k] = "prepared" =>
                             current' = k /\ state' = k /\ (Exists(k) => k \in captured')
                        /\ gate'[k] = "ready" => (native => state' = k)
    BY Zenon DEF vars
  <2>2. GateLock(k) \/ SaveState \/ GateAnswer(k)
    <3>0. DOMAIN gate = Keys
      BY <2>1, ZenonT(60) DEF IInv, TypeOK
    <3>1. ASSUME Finish("refused") PROVE FALSE
      BY <2>1, <3>0, <3>1 DEF Finish
    <3>2. ASSUME NEW j \in Keys, GateLock(j) \/ GateAnswer(j), j # k PROVE FALSE
      BY <2>1, <3>0, <3>2 DEF GateLock, GateAnswer
    <3>3. ASSUME NEW j \in Keys, Unit(j) PROVE FALSE
      BY <2>1, <3>0, <3>3, ZenonT(60)
         DEF Unit, UnitStart, GateConnect, GateReturn, AppStart, UnitStop, UnitGone
    <3>4. ASSUME gate' = Disconnected PROVE FALSE
      BY <2>1, <3>4, Disconnects, Zenon
    <3>5. ASSUME NEW j \in Keys, gate' = [gate EXCEPT ![j] = "refused"] PROVE FALSE
      BY <2>1, <3>0, <3>5
    <3>6. ~(CloseCapture \/ Recover \/ StepFails \/ Crash)
      BY <2>1, <3>1, <3>4, <3>5, Zenon DEF CloseCapture, Recover, StepFails, Crash
    <3>7. ~Started
      BY <2>1, Zenon DEF Started, Finish
    <3>8. ~(KillWorker \/ Setup \/ Attach \/ Spawn \/ StartAborted \/ ReconcileLock \/ ShutdownLock)
      BY <2>1, Zenon
         DEF KillWorker, Setup, Attach, Spawn, StartAborted, ReconcileLock, ShutdownLock
    <3>9. ~(WorkerJoin \/ WorkerReady \/ WorkerExit \/ WorkerDies \/ StopBegin \/ Restart \/ Tick
              \/ Finished)
      BY <2>1, Zenon DEF WorkerJoin, WorkerReady, WorkerExit, WorkerDies, StopBegin, Restart, Tick,
                  Finished, vars
    <3> QED
      BY <2>1, <3>2, <3>3, <3>6, <3>7, <3>8, <3>9, Zenon DEF Next, Job, Start
  <2>3. CASE GateLock(k)
    <3>1. gate'[k] = "prepared" /\ current = k /\ lock = Free /\ UNCHANGED <<current, state, captured>>
      BY <2>1, <2>3, Zenon DEF GateLock, IInv, TypeOK
    <3> QED
      BY <2>1, <3>1, Holders, Zenon DEF IInv, LockInv, CaptureInv
  <2>4. CASE SaveState
    <3>1. /\ job.phase = "save" /\ state' = job.key /\ UNCHANGED <<current, captured>>
          /\ lock = k /\ gate'[k] = "prepared"
      BY <2>1, <2>4, Unlocked DEF SaveState
    <3> QED
      BY <2>1, <3>1, Zenon DEF IInv, LockInv, CaptureInv, Starting
  <2>5. CASE GateAnswer(k)
    <3>1. gate[k] = "prepared" /\ gate'[k] = Answered(k, "ready") /\ UNCHANGED state
      BY <2>1, <2>5, Zenon DEF GateAnswer, Answered, IInv, TypeOK
    <3>2. gate'[k] = "ready" /\ Opened(k)
      BY <2>1, <3>1, Zenon DEF Answered, Opened
    <3> QED
      BY <2>1, <3>1, <3>2, Zenon DEF IInv, StateInv
  <2> QED
    BY <2>2, <2>3, <2>4, <2>5
<1> QED
  BY <1>1, ControllerInductive, PTL DEF Spec, GateOpensCaptured
=============================================================================

-------------------------- MODULE AgentController --------------------------
(***************************************************************************)
(* The controller of one workload in realm-agent (agent.go, recovery.go):    *)
(* gate connections, the reconciliation loop, the forwarding worker, the BPF *)
(* capture and state.json, through crashes and restarts of the controller,   *)
(* deaths of the worker and restarts of the workload's unit.                *)
(*                                                                         *)
(* Each start of the unit is a new pair of cgroup and network namespace and  *)
(* so a new key, numbered 1..MaxStarts; 0 stands for no key.  A native unit  *)
(* runs the gate as ExecStartPre and is empty between gate and application;  *)
(* a container keeps its helper process.  All steps of prepare, reconcile    *)
(* and the final shutdown run under controller.mu, whose holder is lock.     *)
(***************************************************************************)
EXTENDS Integers, FiniteSets

CONSTANTS
    MaxStarts,    \* bound: starts of the unit
    Kinds,        \* a native unit (TRUE), rootless containers (FALSE) or either
    Handlers,     \* gate connections served at once (16)
    EmptyLimit,   \* ticks after which an empty unit is released (30 seconds)
    GapMax,       \* most ticks systemd takes from ExecStartPre to ExecStart
    MaxCrashes,   \* bound: controller crashes and stops
    MaxDeaths,    \* bound: worker deaths
    MaxFails      \* bound: failing system calls and timeouts

ASSUME AgentControllerAssumption ==
    /\ MaxStarts \in Nat /\ Kinds \subseteq BOOLEAN
    /\ Handlers \in Nat /\ EmptyLimit \in Nat
    /\ GapMax \in Nat /\ GapMax < EmptyLimit
    /\ MaxCrashes \in Nat /\ MaxDeaths \in Nat /\ MaxFails \in Nat

VARIABLES
    native,    \* the workload is a systemd unit
    life,      \* life[k]: the unit's start k
    gapAge,    \* ticks since the gate of the unit in its gap has exited
    gate,      \* gate[k]: the gate connection of start k
    ctrl, epoch, \* the controller process, and how often it was started
    lock,      \* holder of controller.mu: a gate's key, Free, Reconcile or Stop
    job,       \* what the holder is doing
    current,   \* key of controller.current
    emptyAge,  \* ticks since emptySince; NotEmpty for the zero time
    state,     \* key in state.json
    captured,  \* cgroups with attached programs
    workers,   \* worker processes not yet waited for
    crashes, deaths, fails

unit == <<native, life, gapAge>>
bounds == <<crashes, deaths, fails>>
vars == <<unit, gate, ctrl, epoch, lock, job, current, emptyAge, state, captured,
          workers, bounds>>

Keys == 1..MaxStarts
Free == 0
Reconcile == -1
Stop == -2
NotEmpty == -1
NoJob == [phase |-> "none", key |-> 0, after |-> "fail", ready |-> FALSE]
-----------------------------------------------------------------------------
Populated(k) == life[k] \in {"pre", "app"}
Exists(k) == life[k] \in {"pre", "gap", "app", "stopping"}

\* The starts of a native unit share one cgroup path.
PathExists(k) == IF native THEN \E j \in Keys : Exists(j) ELSE Exists(k)

\* instance.done: the worker of the current instance has been waited for.
Done == \A w \in workers : w.epoch # epoch

\* Connections with a handler: it waits for the lock, holds it, or has left prepare
\* and is about to write the answer.
Serving == {k \in Keys : gate[k] \in {"queued", "serving", "prepared", "refused"}}

Init ==
    /\ native \in Kinds
    /\ life = [k \in Keys |-> "absent"] /\ gapAge = 0
    /\ gate = [k \in Keys |-> "idle"]
    /\ ctrl = "up" /\ epoch = 1
    /\ lock = Free /\ job = NoJob
    /\ current = 0 /\ emptyAge = NotEmpty
    /\ state = 0 /\ captured = {} /\ workers = {}
    /\ crashes = 0 /\ deaths = 0 /\ fails = 0
-----------------------------------------------------------------------------
(* The unit and its gate process. *)

UnitStart(k) ==
    /\ life[k] = "absent"
    /\ \A j \in 1..(k - 1) : IF native THEN life[j] = "gone" ELSE life[j] # "absent"
    /\ life' = [life EXCEPT ![k] = "pre"]
    /\ UNCHANGED <<native, gapAge, gate, ctrl, epoch, lock, job, current, emptyAge, state,
                   captured, workers, bounds>>

\* gate connects; serve accepts, and prepare pins the peer and reads its key.
GateConnect(k) ==
    /\ ctrl = "up" /\ life[k] = "pre" /\ gate[k] = "idle"
    /\ gate' = [gate EXCEPT ![k] =
                  IF Cardinality(Serving) < Handlers THEN "queued" ELSE "error"]
    /\ UNCHANGED <<unit, ctrl, epoch, lock, job, current, emptyAge, state, captured,
                   workers, bounds>>

\* Its answer reaches a gate process that still waits; a connection whose peer is gone,
\* or has read its answer, is over.
Answered(k, answer) == IF life[k] = "pre" THEN answer ELSE "idle"

\* The gate process reads its answer and exits; a container's helper goes on.
GateReturn(k) ==
    /\ life[k] = "pre"
    /\ \/ gate[k] = "ready" /\ life' = [life EXCEPT ![k] =
                                          IF native THEN "gap" ELSE "app"]
       \/ gate[k] = "error" /\ life' = [life EXCEPT ![k] = "stopping"]
    /\ gapAge' = 0
    /\ gate' = [gate EXCEPT ![k] = "idle"]
    /\ UNCHANGED <<native, ctrl, epoch, lock, job, current, emptyAge, state, captured,
                   workers, bounds>>

AppStart(k) ==
    /\ life[k] = "gap"
    /\ life' = [life EXCEPT ![k] = "app"]
    /\ gapAge' = 0
    /\ UNCHANGED <<native, gate, ctrl, epoch, lock, job, current, emptyAge, state, captured,
                   workers, bounds>>

\* The gate times out or is stopped, or the application ends; prepare may still
\* be busy with the connection of a gate that is gone.
UnitStop(k) ==
    /\ life[k] \in {"pre", "gap", "app"}
    /\ life' = [life EXCEPT ![k] = "stopping"]
    /\ gapAge' = 0
    /\ gate' = [gate EXCEPT ![k] = IF k \in Serving THEN @ ELSE "idle"]
    /\ UNCHANGED <<native, ctrl, epoch, lock, job, current, emptyAge, state, captured,
                   workers, bounds>>

\* The empty cgroup is removed, and the links attached to it with it.
UnitGone(k) ==
    /\ life[k] = "stopping"
    /\ life' = [life EXCEPT ![k] = "gone"]
    /\ captured' = captured \ {k}
    /\ UNCHANGED <<native, gapAge, gate, ctrl, epoch, lock, job, current, emptyAge, state,
                   workers, bounds>>
-----------------------------------------------------------------------------
(* Steps of the holder of controller.mu. *)

Begin(phase, key, after) ==
    job' = [phase |-> phase, key |-> key, after |-> after, ready |-> FALSE]

Goto(phase) == job' = [job EXCEPT !.phase = phase]

\* The holder unlocks; prepare has returned this verdict to a gate's handler.
Finish(verdict) ==
    /\ lock' = Free /\ job' = NoJob
    /\ gate' = IF lock \in Keys THEN [gate EXCEPT ![lock] = verdict] ELSE gate

\* The handler, without the lock, writes READY or ERROR to its connection.
GateAnswer(k) ==
    /\ \/ gate[k] = "prepared" /\ gate' = [gate EXCEPT ![k] = Answered(k, "ready")]
       \/ gate[k] = "refused" /\ gate' = [gate EXCEPT ![k] = Answered(k, "error")]
    /\ UNCHANGED <<unit, ctrl, epoch, lock, job, current, emptyAge, state, captured,
                   workers, bounds>>

\* The process ends, and its connections with it.
Disconnected == [k \in Keys |-> IF k \in Serving THEN Answered(k, "error") ELSE gate[k]]

\* prepare, from taking the lock to the decision about the current instance.
GateLock(k) ==
    /\ ctrl # "down" /\ lock = Free /\ gate[k] = "queued"
    /\ \/ /\ current = k /\ ~Done
          /\ gate' = [gate EXCEPT ![k] = "prepared"]
          /\ UNCHANGED <<lock, job>>
       \/ /\ current \notin {0, k} /\ ~Done /\ Populated(current)
          /\ gate' = [gate EXCEPT ![k] = "refused"]
          /\ UNCHANGED <<lock, job>>
       \/ /\ current # 0
          /\ Done \/ (current # k /\ ~Populated(current))
          /\ lock' = k /\ Begin("kill", k, "start")
          /\ gate' = [gate EXCEPT ![k] = "serving"]
       \/ /\ current = 0
          /\ lock' = k /\ Begin("setup", k, "start")
          /\ gate' = [gate EXCEPT ![k] = "serving"]
    /\ UNCHANGED <<unit, ctrl, epoch, current, emptyAge, state, captured, workers,
                   bounds>>

\* Mutant: reconcile never looks at instance.done.
ReconcileIgnoresExit ==
    /\ ctrl = "up" /\ lock = Free
    /\ \/ /\ current # 0 /\ ~Populated(current) /\ emptyAge = NotEmpty
          /\ emptyAge' = 0 /\ UNCHANGED <<lock, job>>
       \/ /\ current # 0 /\ ~Populated(current) /\ emptyAge >= EmptyLimit
          /\ lock' = Reconcile /\ Begin("kill", 0, "release") /\ UNCHANGED emptyAge
       \/ /\ current = 0 /\ state # 0
          /\ lock' = Reconcile /\ Begin("recover", 0, "recover") /\ UNCHANGED emptyAge
    /\ UNCHANGED <<unit, gate, ctrl, epoch, current, state, captured, workers, bounds>>

\* One round of reconcile that finds something to do.
ReconcileLock ==
    /\ ctrl = "up" /\ lock = Free
    /\ \/ /\ current # 0 /\ Done
          /\ lock' = Reconcile /\ Begin("kill", 0, "recover")
          /\ UNCHANGED emptyAge
       \/ /\ current # 0 /\ ~Done /\ Populated(current) /\ emptyAge # NotEmpty
          /\ emptyAge' = NotEmpty
          /\ UNCHANGED <<lock, job>>
       \/ /\ current # 0 /\ ~Done /\ ~Populated(current) /\ emptyAge = NotEmpty
          /\ emptyAge' = 0
          /\ UNCHANGED <<lock, job>>
       \/ /\ current # 0 /\ ~Done /\ ~Populated(current) /\ emptyAge >= EmptyLimit
          /\ lock' = Reconcile /\ Begin("kill", 0, "release")
          /\ UNCHANGED emptyAge
       \/ /\ current = 0 /\ state # 0
          /\ lock' = Reconcile /\ Begin("recover", 0, "recover")
          /\ UNCHANGED emptyAge
    /\ UNCHANGED <<unit, gate, ctrl, epoch, current, state, captured, workers, bounds>>

\* Mutant: close does not wait for the worker.
KillWorkerUnwaited ==
    /\ job.phase = "kill"
    /\ Goto("uncap")
    /\ UNCHANGED <<unit, gate, ctrl, epoch, lock, current, emptyAge, state, captured,
                   workers, bounds>>

\* instance.close, or the failed start: the worker is killed and waited for.
KillWorker ==
    /\ job.phase = "kill"
    /\ workers' = {w \in workers : w.epoch # epoch}
    /\ Goto("uncap")
    /\ UNCHANGED <<unit, gate, ctrl, epoch, lock, current, emptyAge, state, captured,
                   bounds>>

\* capture.Close, and what the caller does once the instance is closed.
CloseCapture ==
    /\ job.phase = "uncap"
    /\ captured' = {}
    /\ current' = 0 /\ emptyAge' = NotEmpty
    /\ \/ /\ job.after = "start" /\ Goto("setup")
          /\ UNCHANGED <<gate, ctrl, lock, state>>
       \/ /\ job.after = "recover" /\ Goto("recover")
          /\ UNCHANGED <<gate, ctrl, lock, state>>
       \/ /\ job.after = "release" /\ Goto("recover") /\ state' = 0
          /\ UNCHANGED <<gate, ctrl, lock>>
       \/ /\ job.after = "fail" /\ Finish("refused")
          /\ UNCHANGED <<ctrl, state>>
       \/ /\ job.after = "down" /\ lock' = Free /\ job' = NoJob /\ ctrl' = "down"
          /\ gate' = Disconnected
          /\ UNCHANGED state
    /\ UNCHANGED <<unit, epoch, workers, bounds>>

Fail(after) == job' = [job EXCEPT !.phase = after, !.after = "fail"]

\* Mutant: recover forgets a unit without processes.
RecoverForgetful ==
    /\ job.phase = "recover"
    /\ IF state # 0 /\ Populated(state)
         THEN /\ job' = [job EXCEPT !.phase = "setup", !.key = state]
              /\ UNCHANGED <<gate, lock, state>>
         ELSE Finish("refused") /\ state' = 0
    /\ UNCHANGED <<unit, ctrl, epoch, current, emptyAge, captured, workers, bounds>>

\* Mutant: recover keeps the state of a cgroup that does not exist any more.
RecoverKeepsAll ==
    /\ job.phase = "recover"
    /\ IF state # 0 /\ Populated(state)
         THEN /\ job' = [job EXCEPT !.phase = "setup", !.key = state]
              /\ UNCHANGED <<gate, lock>>
         ELSE Finish("refused")
    /\ UNCHANGED <<unit, ctrl, epoch, current, emptyAge, state, captured, workers,
                   bounds>>

\* recover: state.json names a cgroup path and a key.
Recover ==
    /\ job.phase = "recover"
    /\ \/ /\ state = 0 /\ Finish("refused") /\ UNCHANGED state
       \/ /\ state # 0 /\ ~PathExists(state)
          /\ Finish("refused") /\ state' = 0
       \/ /\ state # 0 /\ PathExists(state) /\ Populated(state)
          /\ job' = [job EXCEPT !.phase = "setup", !.key = state]
          /\ UNCHANGED <<gate, lock, state>>
       \/ /\ state # 0 /\ PathExists(state)
          /\ ~Populated(state) \/ (native /\ life[state] = "pre")
          /\ Finish("refused") /\ UNCHANGED state
    /\ UNCHANGED <<unit, ctrl, epoch, current, emptyAge, captured, workers, bounds>>

\* setupNetwork runs under the controller's context.
Setup ==
    /\ job.phase = "setup"
    /\ IF ctrl = "up" THEN Goto("attach") ELSE Fail("uncap")
    /\ UNCHANGED <<unit, gate, ctrl, epoch, lock, current, emptyAge, state, captured,
                   workers, bounds>>

\* attachCapture; the kernel refuses a cgroup that has been removed.
Attach ==
    /\ job.phase = "attach"
    /\ IF Exists(job.key)
         THEN captured' = captured \cup {job.key} /\ Goto("spawn")
         ELSE Fail("uncap") /\ UNCHANGED captured
    /\ UNCHANGED <<unit, gate, ctrl, epoch, lock, current, emptyAge, state, workers,
                   bounds>>

\* Mutant: workerCgroup does not look at cgroup.events.
SpawnUnchecked ==
    /\ job.phase = "spawn"
    /\ workers' = workers \cup {[key |-> job.key, epoch |-> epoch, stage |-> "boot"]}
    /\ Goto("wait")
    /\ UNCHANGED <<unit, gate, ctrl, epoch, lock, current, emptyAge, state, captured,
                   bounds>>

\* workerCgroup refuses a populated group; then the worker process starts.
Spawn ==
    /\ job.phase = "spawn"
    /\ IF ctrl # "up" \/ \E w \in workers : w.stage # "boot"
         THEN Fail("uncap") /\ UNCHANGED workers
         ELSE /\ workers' = workers \cup
                    {[key |-> job.key, epoch |-> epoch, stage |-> "boot"]}
              /\ Goto("wait")
    /\ UNCHANGED <<unit, gate, ctrl, epoch, lock, current, emptyAge, state, captured,
                   bounds>>

\* Mutant: prepare answers without saveState.
StartedUnsaved ==
    /\ job.phase = "wait" /\ job.ready
    /\ current' = job.key /\ emptyAge' = NotEmpty
    /\ Finish("prepared")
    /\ UNCHANGED <<unit, ctrl, epoch, state, captured, workers, bounds>>

\* The readiness line arrived: the instance becomes current, and prepare (not
\* recover) goes on to save it.
Started ==
    /\ job.phase = "wait" /\ job.ready
    /\ current' = job.key /\ emptyAge' = NotEmpty
    /\ IF lock \in Keys THEN Goto("save") /\ UNCHANGED <<lock, gate>>
                        ELSE Finish("prepared")
    /\ UNCHANGED <<unit, ctrl, epoch, state, captured, workers, bounds>>

\* Mutant: the end of the readiness pipe is not noticed.
StartAbortedLate ==
    /\ job.phase = "wait" /\ ctrl = "stopping"
    /\ Fail("kill")
    /\ UNCHANGED <<unit, gate, ctrl, epoch, lock, current, emptyAge, state, captured,
                   workers, bounds>>

\* The readiness pipe hit its end, or the controller's context was cancelled.
StartAborted ==
    /\ job.phase = "wait"
    /\ (Done /\ ~job.ready) \/ ctrl = "stopping"
    /\ Fail("kill")
    /\ UNCHANGED <<unit, gate, ctrl, epoch, lock, current, emptyAge, state, captured,
                   workers, bounds>>

SaveState ==
    /\ job.phase = "save"
    /\ state' = job.key
    /\ Finish("prepared")
    /\ UNCHANGED <<unit, ctrl, epoch, current, emptyAge, captured, workers, bounds>>

\* A system call of the job fails, the worker is not ready in 15 seconds, or prepare
\* refuses the peer before it asks for the lock.
StepFails ==
    /\ fails < MaxFails /\ fails' = fails + 1
    /\ \/ /\ job.phase \in {"setup", "attach", "spawn"} /\ Fail("uncap")
          /\ UNCHANGED <<lock, gate>>
       \/ /\ job.phase \in {"wait", "save"} /\ Fail("kill")
          /\ UNCHANGED <<lock, gate>>
       \/ /\ job.phase = "recover" /\ Finish("refused")
       \/ /\ \E k \in Keys : gate[k] = "queued" /\ gate' = [gate EXCEPT ![k] = "refused"]
          /\ UNCHANGED <<lock, job>>
    /\ UNCHANGED <<unit, ctrl, epoch, current, emptyAge, state, captured, workers,
                   crashes, deaths>>
-----------------------------------------------------------------------------
(* The worker process. *)

\* sandboxWorker enters the worker's resource cgroup.
WorkerJoin ==
    \E w \in workers :
      /\ w.stage = "boot"
      /\ workers' = (workers \ {w}) \cup {[w EXCEPT !.stage = "joined"]}
      /\ UNCHANGED <<unit, gate, ctrl, epoch, lock, job, current, emptyAge, state,
                     captured, bounds>>

\* runWorker has bound its listeners and writes READY to the live controller.
WorkerReady ==
    \E w \in workers :
      /\ w.stage = "joined" /\ w.epoch = epoch /\ ctrl # "down"
      /\ workers' = (workers \ {w}) \cup {[w EXCEPT !.stage = "ready"]}
      /\ job' = IF job.phase = "wait" THEN [job EXCEPT !.ready = TRUE] ELSE job
      /\ UNCHANGED <<unit, gate, ctrl, epoch, lock, current, emptyAge, state,
                     captured, bounds>>

\* The lease pipe of a dead controller hit its end, READY has no reader, or the
\* cancelled context of a stopping controller kills the worker.
WorkerExit ==
    \E w \in workers :
      /\ w.epoch # epoch \/ ctrl # "up"
      /\ workers' = workers \ {w}
      /\ UNCHANGED <<unit, gate, ctrl, epoch, lock, job, current, emptyAge, state,
                     captured, bounds>>

\* The worker fails or is killed for its memory.
WorkerDies ==
    /\ deaths < MaxDeaths /\ deaths' = deaths + 1
    /\ \E w \in workers : w.epoch = epoch /\ workers' = workers \ {w}
    /\ UNCHANGED <<unit, gate, ctrl, epoch, lock, job, current, emptyAge, state,
                   captured, crashes, fails>>
-----------------------------------------------------------------------------
(* The controller process. *)

\* Its descriptors close: the BPF links, the connections, the lease.
Crash ==
    /\ ctrl # "down" /\ crashes < MaxCrashes /\ crashes' = crashes + 1
    /\ ctrl' = "down"
    /\ lock' = Free /\ job' = NoJob /\ current' = 0 /\ emptyAge' = NotEmpty
    /\ captured' = {}
    /\ gate' = Disconnected
    /\ UNCHANGED <<unit, epoch, state, workers, deaths, fails>>

\* serve's context is cancelled: no new gates, no new rounds of reconcile.
StopBegin ==
    /\ ctrl = "up" /\ crashes < MaxCrashes /\ crashes' = crashes + 1
    /\ ctrl' = "stopping"
    /\ UNCHANGED <<unit, gate, epoch, lock, job, current, emptyAge, state, captured,
                   workers, deaths, fails>>

\* The deferred shutdown closes the current instance.
ShutdownLock ==
    /\ ctrl = "stopping" /\ lock = Free
    /\ lock' = Stop /\ Begin("kill", 0, "down")
    /\ UNCHANGED <<unit, gate, ctrl, epoch, current, emptyAge, state, captured,
                   workers, bounds>>

\* systemd starts the service again, perhaps before an orphaned worker is gone.
Restart ==
    /\ ctrl = "down"
    /\ ctrl' = "up" /\ epoch' = epoch + 1
    /\ UNCHANGED <<unit, gate, lock, job, current, emptyAge, state, captured, workers,
                   bounds>>

Tick ==
    /\ \A k \in Keys : life[k] = "gap" => gapAge < GapMax
    /\ gapAge' = IF \E k \in Keys : life[k] = "gap" THEN gapAge + 1 ELSE 0
    /\ emptyAge' = IF emptyAge \in 0..(EmptyLimit - 1) THEN emptyAge + 1 ELSE emptyAge
    /\ <<gapAge, emptyAge>>' # <<gapAge, emptyAge>>
    /\ UNCHANGED <<native, life, gate, ctrl, epoch, lock, job, current, state, captured,
                   workers, bounds>>

\* Every start is over and released: nothing is left to do.
Finished ==
    /\ \A k \in Keys : life[k] = "gone"
    /\ ctrl = "up" /\ lock = Free /\ current = 0 /\ state = 0
    /\ UNCHANGED vars
-----------------------------------------------------------------------------
Unit(k) == UnitStart(k) \/ GateConnect(k) \/ GateReturn(k) \/ AppStart(k)
             \/ UnitStop(k) \/ UnitGone(k)
Start == Setup \/ Attach \/ Spawn \/ Started \/ StartAborted \/ SaveState
Job == KillWorker \/ CloseCapture \/ Recover \/ Start

Next ==
    \/ \E k \in Keys : Unit(k) \/ GateLock(k) \/ GateAnswer(k)
    \/ ReconcileLock \/ ShutdownLock \/ Job \/ StepFails
    \/ WorkerJoin \/ WorkerReady \/ WorkerExit \/ WorkerDies
    \/ Crash \/ StopBegin \/ Restart \/ Tick \/ Finished

Spec == Init /\ [][Next]_vars

\* The holder of the lock goes on, every waiter for it gets its turn (the
\* starvation mode of sync.Mutex), handlers write their answers, workers start or notice their lease, systemd
\* restarts the service, moves a started unit on and removes a stopped one.
Fairness ==
    /\ WF_vars(Job) /\ SF_vars(ReconcileLock) /\ SF_vars(ShutdownLock)
    /\ \A k \in Keys : SF_vars(GateLock(k)) /\ WF_vars(GateAnswer(k))
                         /\ WF_vars(GateConnect(k)) /\ WF_vars(GateReturn(k))
                         /\ WF_vars(AppStart(k)) /\ WF_vars(UnitGone(k))
    /\ WF_vars(WorkerJoin) /\ WF_vars(WorkerReady) /\ WF_vars(WorkerExit)
    /\ WF_vars(Restart) /\ WF_vars(Tick)

FairSpec == Spec /\ Fairness
-----------------------------------------------------------------------------
(* Properties. *)

\* As long as a worker of the running controller lives, the cgroup it serves is
\* captured, if it still exists: instance.close and the failure paths of start
\* stop the worker before they close the capture.
CaptureOutlivesWorker ==
    ctrl # "down" =>
      \A w \in workers : w.epoch = epoch /\ Exists(w.key) => w.key \in captured

\* No two workers of the workload have announced themselves at a time, not even
\* when the service is restarted while the worker of its dead predecessor still
\* runs: workerCgroup refuses a populated group, and a bootstrap that had not
\* joined the group yet finds no reader for its READY.
OneServing ==
    Cardinality({w \in workers : w.stage = "ready"}) <= 1

\* prepare accepts a gate only when its key is the current instance, has been saved
\* for recovery, and its cgroup, if it still exists, is captured.  Its handler writes
\* READY without the lock: the worker may be dead and the instance closed by then,
\* but the native unit that still waits is the one state.json names, so that
\* reconcile captures it again.
GateOpensCaptured ==
    [][\A k \in Keys :
         /\ gate[k] # "prepared" /\ gate'[k] = "prepared" =>
              current' = k /\ state' = k /\ (Exists(k) => k \in captured')
         /\ gate[k] # "ready" /\ gate'[k] = "ready" => (native => state' = k)]_vars

\* From the answer to its gate until its application stops, state.json names a
\* native unit, through the empty moment between ExecStartPre and ExecStart and
\* whatever crashes: expiredEmpty and recover never forget it.
StateRetained ==
    \A k \in Keys :
      native /\ life[k] \in {"gap", "app"} => state = k

Served(k) ==
    /\ ctrl = "up" /\ current = k /\ k \in captured
    /\ \E w \in workers : w.key = k /\ w.epoch = epoch /\ w.stage = "ready"

\* An application that state.json names is eventually captured and served by a
\* worker of the running controller, or stops, or another start takes its place:
\* reconcile recreates dead workers and recovers after restarts.
AppServed ==
    \A k \in Keys :
      (life[k] = "app" /\ state = k) ~> (life[k] # "app" \/ state # k \/ Served(k))

\* Every gate connection that a handler takes on is answered in the end, whatever
\* else contends for the controller's lock, and its handler is free again.
GateAnswered ==
    \A k \in Keys : (k \in Serving) ~> (k \notin Serving)

\* A start that is over is eventually released: neither the current instance nor
\* state.json keeps it (reconcile's expiredEmpty, recover's missing path).
Released ==
    \A k \in Keys : (life[k] = "gone") ~> (current # k /\ state # k)

\* The README allows one active cgroup and namespace pair for each workload: no
\* two applications whose gates have opened run at a time.
OneActive ==
    \A j, k \in Keys : life[j] = "app" /\ life[k] = "app" => j = k
=============================================================================

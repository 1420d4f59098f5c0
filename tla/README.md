# Verification of the Realm stack

The repository configures a fleet of NixOS hosts. Most of it is declarative; the programs with
run-time state of their own are the Go programs of the Realm stack under `pkgs/`, which isolate
workloads and give hosts and workloads SPIFFE identities:

| part | source | role |
| --- | --- | --- |
| `realm-node-attest` | `pkgs/realm-node-attest` | SPIRE node attestor `http_fqdn`: server plugin, agent plugin and the HTTP responder that each host runs |
| `realm-agent` | `pkgs/realm-agent` | per-host controller that gates workload start, runs one network worker per workload and attaches BPF capture to its cgroup |
| `realm-helper` | `pkgs/realm-helper` | socket activation, bridges, container supervision, SPIRE entry registration |
| `realm-identity-metrics` | `pkgs/realm-identity-metrics` | exporter that observes SPIRE, canaries and workload certificates |

The models are TLA+ modules translated from that code, checked by TLC on small instances. All
the safety properties that the passing runs check are proved by TLAPS for all instances. `PROJECT.json` lists components, runs, the map from
definitions to source lines, mutants, findings, hazards and theorems.

## Node attestation

A host proves that it controls its FQDN. The agent plugin opens a stream with a fresh bootstrap key;
the server plugin reserves a session and sends a challenge; the agent signs it and publishes the
signed document through the control socket of its host's responder; it tells the server it is
ready; the server fetches the document over HTTP from the pinned addresses of the host, verifies it
and approves. Sessions expire, streams break, requests overtake each other, and the server may be
reconfigured at any time.

* `AttestServer` — `server.go` and `ServerPlugin` of `adapters.go`. A stream is an element of
  `Attempts` with a program counter `pc[a]`. `active`, `recent` and `pending` are `Server.active`,
  `Server.recent` and the pending gauge; the maps of all generations are kept in one set, an attempt
  belongs to generation `srv[a]`. `Begin`, `VerifyStart`, `CloseRemove` and `Approve`/`RateLimited`
  (`chargeSuccess`) are the critical sections of `Server.mu`; `SessionEnded` and `SessionConfirmed` are the second look at
  the session under `ServerAttempt.mu`, which stays locked until the charge, so that no `Close` comes
  between them, but a cancellation or a deadline may. `CtxClose` is the `context.AfterFunc` goroutine;
  `Configure` installs a new `Server`.
* `ApprovalLedger` — what the server promises: a session is opened once, granted at most once and
  if it was admitted before its deadline, within the quota, and does not stay open for ever.
* `AgentAttempt` — `agent.go` and `aidAttestation`. A control call is a request in flight (`ctl`,
  `del`) that the agent may give up on while the responder still handles it.
* `ProofResponder` — `responder_linux.go`: the proof store, with PUT split into the unlocked parse
  and the locked store, DELETE, GET, the clean-up ticker and a restart that forgets everything.
* `MetricsListener` — `metrics_listener.go` and `limitedListener` of `responder_linux.go`. Every listener
  that `configure` installs has its own HTTP server, whose `Serve` goroutine lags behind: `serve[i]` is
  where it is, `permits[i]` and `conns[i]` are the channel of the limiter and the connections the
  server knows. `http.Server.Serve` is external and modelled by what it does with its listener. The
  error that `close` may return has no branch: closing a listening socket that is open does not fail.
* `ServerPlugin` — `AttestServer` and `MetricsListener` joined by `Configure` and `Close` of the plugin: a
  configuration replaces the `Server` only if its metrics address could be bound. Streams and metrics
  share nothing else, so a behaviour has either.
* `NodeAttest` — agent, responder and server composed. A behaviour has a scene: the sessions that take
  place, the classes of faults they meet and how long time runs.
* `ServerPluginProofs`, `ProofResponderProofs`, `NodeAttestProofs` — proofs; the other components have theirs
  in modules named alike, and `DeclarationProofs` has those of `SpireRegister` and `WorkloadPolicy` (see
  Proofs).
* `MC*` and `*.cfg` — instances for TLC.

## Workload controller, policy, registrations, metrics

* `AgentController` — `agent.go`, `recovery.go`, `resources.go`, with the parts of `sandbox.go`,
  `network.go`, `bpf.go` and `worker.go` that the controller starts. One workload. A start of its unit
  is a key `k`; `life[k]` is the unit, `gate[k]` its gate connection, from the wait for the lock through
  the verdict of `prepare` (`Finish`) to the answer, which the handler writes after the lock is free
  (`GateAnswer`). `lock` is the holder of
  `controller.mu` and `job` the step of `prepare`, `start`, `recover` or `close` it is at, so that a
  crash, a dying worker, a stopping unit and time can come between any two steps. `captured`,
  `workers` and `state` are the kernel's attachments, the worker processes and `state.json`, which
  outlive the controller or not as the code and the kernel make them. `native` says
  whether the workload is a systemd unit (whose gate exits before the application starts) or a
  rootless container; a run may consider both.
* `WorkloadPolicy` — `target` and the port conditions of `validate` in `config.go`, and
  `destination.addr` with its errors in `bpf.go`: pure functions, asked one question in each behaviour and compared
  with the longest match and with the meaning of a port range. The loop over the routes is the
  function `Loop` from the number of turns to the route chosen so far. Port arithmetic is modulo 2^16.
* `SpireRegister` — `realm-helper spire-register`: `Load`, `Show`, `Apply`, `Prune`, `WriteState` are
  the steps of `reconcile`; a run may be killed between any two, a CLI call may fail with or without
  effect, a deployment brings another manifest and an administrator edits entries.
  `strict` says whether the server's CLI fails when it is asked to delete an unknown entry; the code
  does not tell, so both are considered.
* `Reconciliation` — what `spire-register` promises, without state file, runs, crashes or CLI calls: it brings
  declared entries to their contents, retires its own that are not declared, and reports success
  only when nothing it knows of is left to do. `RegisterPromise` says that `SpireRegister` implements it.
* `IdentityExporter` — the collection loop of `realm-identity-metrics`. A round runs one goroutine for
  each collector under a common budget; holders queue for a limited number of workers and wait for the
  canary of the same round. Time stamps are kept as ages and expiries as remaining ticks, so rounds
  are unlimited. A canary certificate that expires between its fetch and its record fails the record but
  not the result that the workers wait for; `Observe` looks at its expiry again. `view` says which collectors a behaviour has in view; those out of view share nothing
  with the others but the end of the round, which may therefore come late.

## Captured traffic

The worker of a workload serves what the BPF programs of `AgentController`'s capture redirect to it.

* `TcpPath` — `redirect` and `handle_sockops` of `realm.bpf.c`, the accept loop and handlers of
  `worker.go`, `splice` of `proxy.go`. `sock[c]` is a client socket with its `tcp_storage`;
  `connections` is the LRU map from a client port to cookie and destination, which may evict at any
  moment; `hand[c]` is the handler, `limit` its slot. `Publish`, the callback of an established
  connection, may come after `Accept`. The record of a connection goes with the callback of its
  `TCP_CLOSE` (`CloseCallback`), some time after the application has closed the socket and before the
  kernel frees the port; until then a closed client can still be looked up. Clients half-close, close and reset, writes fail, and a port is used again at once.
* `DnsPath` — `dns_slot`, `redirect` and `restore` of `realm.bpf.c` and `udpDNS` of `dns.go`: the slots of a
  socket, the hooks of the two address families by which a query leaves and its reply comes back, the
  readers, the bounded queue, the workers with their limit on upstream calls, and `Close`.
* `Worker` — both in one process, from READY to the exit that a signal or the end of the controller's
  lease brings about.

The kernel is external: hooks of one socket are serialised by its lock, and hooks of different sockets
and the worker interleave.

## Container entry point

* `ContainerHelper` — `realm-helper launch` (`container.go`): the gate of the agent, the routes, the child,
  `signal.Notify` with its channel that drops, `Wait4` of any process, and the exit code; and
  `realm-helper bridge`. `pid1` says whether the helper is PID 1 of its container, whose
  end takes every process along and to which orphans fall.
* `Bridge` — `proxy.go`: one connection, two copiers, half-close. Both subcommands use it.
* `DuplexPipe` — what a bridge promises its ends; `PipePromise` says that `Bridge` implements it, fairness
  included.

The programs meet through SPIRE, the file system and systemd, which are external, and at three places
directly: in node attestation, which is composed in `NodeAttest`; at the agent's gate, where
`ContainerHelper` and `AgentController` are each the other's environment (`DialAgent` and `ReadAnswer` on
one side, `GateConnect` and `GateReturn` on the other); and between controller and worker, which the
lease pipe joins (`WorkerExit` there, `Cancel` here).

## Runs

| run | instance | what it shows |
| --- | --- | --- |
| `server` | 2 streams of a node, 1 slot, quota 1, 2 generations, 2 ticks a second; or 2 metrics listeners, 2 addresses, 2 permits | capacity and quota hold for each Server, the gauge is exact, approvals happen in session; slots and handlers are released; `LedgerPromise`: the server refines `ApprovalLedger`, fairness included. What listens is what is configured, and a closed listener gets all its permits back |
| `responder_store` | 3 proofs, 1 slot, a clock that is ahead | store, gauge and counters agree; the bound holds under repeated, interleaved and broken-off requests |
| `attest` | 1 session under every class of fault; or an honest session and one with the FQDN of another host, with false ready messages, foreign documents and restarts | only a proof signed in the session and stored on the claimed host is approved; a proof stays while it is needed, and none stays for ever |
| `attest_cleanup` | 1 session that may be cancelled | violation, see Findings |
| `agent` | 2 starts of a native unit or 2 containers, 1 crash or stop, 1 worker death, 1 failing call, 1 handler | capture outlives the worker, one worker serves, the gate opens only when captured and saved, state is kept; recorded applications are served, gates answered, finished starts released |
| `agent_onepair` | 2 containers, 2 handlers | violation, see Findings |
| `declaration` | 2 declarable entries and 1 by hand, 3 manifests in a row, 2 faults, strict and lenient server; or up to 2 routes over 2-bit addresses of 2 families | `RegisterPromise`: the command refines `Reconciliation`, so a successful run has applied everything and pruned what was recorded; it deletes only its own stale entries; starting the unit again makes every failure good but one. Longest match and reserved prefixes |
| `port_overlap` | ports at every edge of the conditions of `validate` | violation, see Findings |
| `register_leak` | 1 failing call, 2 manifests | violation, see Findings |
| `exporter` | 2 holders, 1 worker and the canary; or bundle, probe and agents; or agents and the aliases of 2 nodes | success is shown exactly while fresh and unexpired; from the second round on no record goes stale; no holder is shown on the strength of an earlier observer; rounds end, a cancelled loop exits |
| `worker` | 2 connections with 1 port and 1 slot, every verdict; or 3 queries of an IPv6 socket to an IPv4 and an IPv6 resolver, 2 slots, 1 worker, a queue of 1 | a connection is forwarded for its own destination, a reply names the resolver that was asked or, after a query by the hook of the other family, the listener, slots come back, a cancelled worker exits |
| `container` | a launch with 2 routes, 2 dials, 3 signals of 2 kinds, 1 orphan; or a bridge with 2 pieces each way | the application starts only behind gate and routes, the helper exits as the application did, signals get through; `PipePromise` |

Some properties say where the guarantee ends, and that is where to look when the code changes:

* `QuotaHolds` counts per `Server`, so a reconfiguration opens a new quota.
* `Converges` excepts a strict server when a recorded, undeclared entry is already gone, for then every
  run stops at its deletion until the state file is repaired.
* `AnswerFromAsked` says which replies are restored: those to queries that left by the hook of the
  socket's own family (see Findings for the others).
* `ApprovalInSession` ends with the second look at the session. The stream may be cancelled or a
  deadline pass while `chargeSuccess` waits for the lock, and the session is approved all the same.
* `GateOpensCaptured` speaks of two moments. When `prepare` unlocks, the key is current, saved and
  captured. When READY is written, the worker may have died and the instance may be closed, but
  state.json still names the native unit that reads it.
* `ForwardsOwn` speaks of clients whose connection the kernel has not closed. One that was reset while it waited for
  accept has no record any more, and its handler may find that of the next user of the port, when
  its own client is gone.
* `BoundAsConfigured` excepts a listener whose accept failed for good: `Serve` closes it, and configuring
  the same address again returns early and does not open it. In the worker any accept error ends
  the accept loop of its listener until the worker is replaced (`AcceptFails`).
* `KeptWhileNeeded` excepts a restart of the responder, which forgets every proof.
* `SignalForwarded` excepts signals that come while the channel is full, and begins with `signal.Notify`. A signal between the start of the child and `Notify` ends a
  helper that is not PID 1 and leaves the application behind.

### Bounds

Every bound is a constant in the module and has its value in the cfg. Limits of the code (capacity,
quota, slots, handlers, parallelism) are 1 or 2 with at least one more contender, so that the limit is
reached, held and passed by a replacement. Times keep their order and the relations that matter: the
fetch budget is shorter than the challenge, the challenge longer than the quota window where the
window must slide within it; `Hz = 2` makes whole-second expiry differ from the clock. For the
controller `GapMax < EmptyLimit` says that systemd starts an application within the 30 seconds that an
empty unit is kept. For the exporter `Interval + CollectTimeout <= Freshness < Interval + 2 * CollectTimeout`, as
30 + 20 <= 65 < 70 in the code (3, 2 and 5 ticks in the run): that is the margin `NeverStale` is about, and
the reason it speaks of the second round on. The first gap is up to 70 seconds, because the ticker is
created when the first round has ended, so a record of the first round can be stale for a few seconds
if the first two rounds are both slow. Two starts and three manifests are enough to have an old and a
new one side by side and, for manifests, an entry that comes back. Two bits of address have prefixes
of three lengths. Two connections on one port are an earlier and a later user of a key; an
IPv6 socket has three ways to two resolvers (one of them by mapped address through either hook), one
more than there are slots; one DNS worker, a queue of one and three queries make the
queue full while an answer is in progress. Two dials have one that fails and one after it; three
signals with a channel of two overflow it. Two pieces with a buffer of one make a copier wait for its
sink.

Where one run looks at several situations (streams or listener, scenes, views, traffic, subcommands),
`Init` chooses one of them, so that their state spaces add up and do not multiply. Broken streams are
looked at with one session; with two the instance is out of reach.

No run uses symmetry, and every passing run checks deadlock: a final stuttering disjunct (`Finished`,
`Rest`, `Answered`, `Exited`, `Over`) names the states in which nothing is left to do.

### Fairness

Weak fairness stands for goroutines that are scheduled, timers that fire and mutexes that are
released; nothing forces a peer, a client, an administrator or a fault to act. In `AttestServer` a
handler that waits for its peer is fair only once its context is over, and a fetch only once its own
deadline has come. `AgentController` uses strong fairness for the waiters of `controller.mu`
(the starvation mode of `sync.Mutex` hands the lock to a waiter of more than a millisecond) and weak
fairness for the service being started again and empty cgroups being removed. After a crash systemd does so
(`Restart=on-failure` in `realm-agent.nix`); after a stop it is the restart of a deployment that does.
`MetricsListener` assumes that every connection ends, which the read, write and idle timeouts of its
server see to. `Worker` assumes that calls with deadlines return and that an upstream closes a
connection whose other side has ended; without the latter a half-closed connection may keep its slot, for
`splice` has no timeout. In `ContainerHelper` the ends of a connection read what comes; nothing makes
them send or close, nor the application end. `SpireRegister` assumes that a failed unit is started again. Its unit has no `Restart=`, so this is an
assumption about boots, deployments and operators, and `Converges` is to be read under it.

## Proofs

Eight modules hold theorems. Each states its results for every value of the constants that satisfies the
named assumptions of the modules it is about, and none about a bounded instance: the bounds of the
runs (`MaxTime`, `MaxStarts`, `MaxFaults`, ...) are arbitrary naturals there. Every module has the same plan: an
inductive invariant, one lemma for each action or group of actions that says it is preserved, and the
theorems as consequences. The invariants were model-checked on the instances of the runs before
they were proved.

| module | theorem | states |
| --- | --- | --- |
| `ServerPluginProofs` | `TypeCorrect`, `QuotaCorrect`, `PendingCorrect`, `CapacityCorrect` | `TypeOK`, `QuotaHolds`, `PendingExact`, `CapacityHolds` of `AttestServer` |
| | `ApprovalCorrect` | the action property `ApprovalInSession` |
| | `LedgerRefined` | `AttestServer` implements the safety part of `ApprovalLedger` |
| | `PluginPromise` | the plugin with its listener keeps all of the above |
| | `BoundCorrect`, `PermitsCorrect` | `BoundAsConfigured`, and `PermitsExact` (the safety part of `PermitsReturned`) |
| `NodeAttestProofs` | `ApprovalIsLocalCorrect`, `KeptWhileNeededCorrect` | `ApprovalIsLocal`, and the action property `KeptWhileNeeded` |
| | `RunsTheServer` | the composition implements `AttestServer` |
| | `RunsTheResponders` | `StoreAccounted` and `StoreBounded` of every responder in the composition, where `Begin` sets deadlines while responders run |
| `ProofResponderProofs` | `StoreAccountedCorrect`, `StoreBoundedCorrect` | `StoreAccounted`, `StoreBounded` |
| `AgentControllerProofs` | `CaptureCorrect`, `OneServingCorrect`, `StateRetainedCorrect` | `CaptureOutlivesWorker`, `OneServing`, `StateRetained` |
| | `GateOpensCapturedCorrect` | the action property `GateOpensCaptured` |
| `WorkerProofs` | `ForwardsOwnCorrect`, `AnswerCorrect` | `ForwardsOwn`, `AnswerFromAsked` |
| | `SlotsCorrect` | `SlotsExact` (the safety part of `SlotReturned`), and that the limit is kept |
| `ContainerHelperProofs` | `BridgeIsPipe` | `Bridge` implements the safety part of `DuplexPipe` |
| | `StartGatedCorrect`, `StatusOfAppCorrect` | `StartGated`, `StatusOfApp`: the safety parts of `LaunchDecides` and `ExitsAsChild` |
| `DeclarationProofs` | `RegisterPromiseKept` | `RegisterPromise`: `SpireRegister` implements `Reconciliation` |
| | `AppliedCorrect`, `DeletesOwnStaleCorrect` | `AppliedWhenDone` (an invariant of `SpireRegister` that no run lists), and the action property `DeletesOwnStale` |
| | `MostSpecificRouteCorrect`, `OnlyPublicLeavesCorrect`, `AcceptedPortsCorrect` | `MostSpecificRoute` for any number of routes and address bits, `OnlyPublicLeaves`, and for all 16-bit ports that `AcceptedPortsUsable` fails only where the addition wraps (`DNSBase` 65528, `TCPPort` at or above it) |
| `IdentityExporterProofs` | `SuccessIsCurrentCorrect`, `NeverStaleCorrect`, `WorkloadsExplainedCorrect`, `NoFallbackObserverCorrect` | the invariants of those names |

### Why the invariants are needed

* **Server.** `QuotaHolds` counts approvals, while the code counts what is left in `Server.recent` after
  pruning. `LedgerFacts` closes the gap: every approval of the last window is still listed, and the
  list of a node never exceeds the quota. `SessionFacts` ties the position of a handler to the sets
  its attempt is in, which `PendingExact` and `CapacityHolds` need to see that `Begin` adds a stream that is
  not there and that the second of two `Close` calls removes nothing. Counting steps use `CountSubset`,
  `CountAdd` and `CountRemove`; `DeadlineArithmetic` is the integer division of expiry times.
* **Plugin.** `ListenerBound` says that a listener is unused until it is bound, that the current one is open
  unless its `Serve` gave up, and that no other is open. A lagging `Serve` goroutine then can only give up
  a listener that is closed already or that is the current one.
* **Session end to end.** An approval comes long after the PUT was answered. `SentOnce` says that an agent
  responds once in a session, so the answer `created` is still on record when the server approves;
  `StoredLocally` says that what was created passed the parser of the host it is claimed for.
  The proofs of the responder by itself assume deadlines that never change. In the composition
  `Begin` sets them; `SentAfterBegin` says that a PUT leaves only after `Begin` of its session, so no
  proof under way or stored sees its deadline change, and the responder's own step lemma applies to
  every other step.
* **Responder.** `Parsed` carries what the unlocked parse has established to the locked store: time has
  passed in between, and a deadline that was within the TTL still is (`SecondsMonotone`).
* **Controller.** `LockInv` says what the holder of `controller.mu` is doing and which key it does it for.
  `WorkerInv` says that workers of this controller exist only from `Spawn` to `KillWorker`, and that none of
  an earlier one serves beside them. `UnitInv` bounds `emptySince` by the gap of a native unit, which with
  `GapMax < EmptyLimit` is why `expiredEmpty` does not forget a unit between `ExecStartPre` and `ExecStart`.
* **Worker.** `Records` says why a lookup by client port is right: a record in the map is that of a socket
  that the kernel has not closed, and no two such sockets have one port. `Backlog` says that a connection waits for
  accept once. For DNS `SlotKept` says that the slot of a pending query still names the resolver that was
  asked and the family of the hook it left by; `QueueOnce` and `WorkOnce` that a query is at one place only.
* **Bridge and launch.** `PipeInv` accounts for every piece (waiting for the copier, carried by it, waiting
  for the sink or received) and says that an end travels behind all data unless the connection broke. `HelperInv` follows the
  main goroutine through gate, routes, start and reaping.
* **Registration.** `Ownership`: an entry that can be declared is on the server only if the command created
  it. `Recorded`: what was created and written to the state file is still there, or in what the run has
  read from it, until it is pruned; and what no success has covered yet was created by the command. The
  state file is the command's only memory of ownership, so this is also what makes a success of the
  code a `Succeed` of `Reconciliation`, whose guard speaks of everything ever created.
* **Policy.** `LoopChooses` says what `target` has chosen after `i` routes: nothing if none of them matches,
  otherwise one that matches, that none of them exceeds in length and none before it equals. It is an
  induction over `i`, done as an argument about the least `i` at which it fails (`LeastNatural`); that
  the recursive function exists at all (`LoopRuns`) is proved in the same way. `PolicyInv` says that a
  verdict is the answer to the question that was asked and that accepted ports have passed `validate`.
* **Exporter.** `RestInv` bounds the expiry that a record carries by every certificate it rests on, through
  `earlier` and the minimum over holders. `TimeInv` bounds the age of every record by the position of
  ticker and round: from the second round on it is at most `Interval` and the duration of the current
  round. `CanaryInv` says that an observer in use is the canary of this round.

### Assumptions

Most assumptions only give constants their types. Those that say more, and where they come from:

* `GapMax < EmptyLimit`: systemd starts an application within the 30 seconds that an empty unit is kept;
* `CollectTimeout < Interval` and `Interval + CollectTimeout <= Freshness`: 20, 30 and 65 seconds in
  `exporter.go`;
* collectors in view come with what they depend on: `workloads` with `canary`, and `agents` with at least
  one node, which the configuration demands;
* `Hz > 0`, and limits that the code has as channel sizes or positive constants are not zero;
* `Sockets \cap {Internet, Denied} = {}`: the socket of a route is none of the two other verdicts of
  `target`; ports are 16-bit numbers;
* `{"none", "listener"} \cap Resolvers = {}` and `"app" \notin Orphans`: the names that stand for nobody, for
  the loopback listener and for the application are not those of a resolver or another process.

### Only model-checked

* Liveness, and refinement with fairness, which are beyond the prover: `SlotReleased`, `ProofsVanish`,
  `AppServed`, `GateAnswered`, `Released`, `Converges`, `RoundsEnd`, `WorkerExits`, `SignalForwarded`, and what
  `LedgerPromise`, `PermitsReturned`, `SlotReturned`, `PipePromise`, `LaunchDecides` and `ExitsAsChild` say beyond
  their safety parts.
* That the mutants break their properties, and that the situations the properties speak of occur: both
  are matters of one instance.

## Findings

* `attest_cleanup`: a PUT that was parsed but not stored survives the DELETE of its clean-up until it
  expires, while the document says that the plugin cleans up when the stream closes.
* `agent_onepair`: a second container passes the gate while the first one runs, if the worker of
  the first has died or the controller has just restarted; the README allows one active pair.
* `register_leak`: an entry created by a run that failed before it wrote its state is never pruned
  if the next manifest drops it, although the comment on `reconcile` says so.
* `port_overlap`: `validate` accepts a `TCPPort` among the resolver ports if `DNSBase` is 65528, where
  `DNSBase+8` is zero in uint16, although its error and the assertion of `realm-agent.nix` name the overlap.
* `worker`, `AnswerFromAsked`: an IPv6 socket that sends to the mapped address of an IPv4 resolver leaves by
  `sendmsg4` and gets its reply through `recvmsg6`, where `restore` finds neither `::1` nor a peer of its
  family and leaves the source alone, so the application sees the listener. `README.md` of the agent
  says that the hooks restore the resolver address on UDP replies.

## Inventory and what is not modelled

`PROJECT.json` lists every part. Not modelled: Nix modules, hosts and packages (declarative, no state
at run time), the editor and session scripts (unrelated, one-shot), command line parsing, encodings
(JSON, JWS, PEM, Prometheus text), the individual calls of namespace set-up and sandbox and the checks of the
worker before READY (outcomes), the error return of `reap` (`Wait4` does not fail while the child is not
reaped), account checks and socket set-up of `serve`,
several workloads of one agent (they share no state but the process), fingerprints, rotation
times and counters of the exporter, attempt counters of the attestor, DNS messages and the name policy
of the resolver (an outcome), the CONNECT exchange of a dial (an outcome with a deadline), socket
activation (one check of the environment), `wait-spire-agent` (a polling loop without state), and
spire-server itself, which appears as the answers the code distinguishes.

## Plan

In order of importance:

1. `ContainerHelper` composed with the gate of `AgentController`, and `Worker` with its lease.
2. An abstract specification of a workload's isolation (gate, capture, served) that `AgentController`
   refines.

-------------------------- MODULE ContainerHelper --------------------------
(***************************************************************************)
(* realm-helper as the entry point of a container (container.go: launch) or   *)
(* as a socket-activated bridge (bridge.go), with one connection through it.  *)
(*                                                                         *)
(* launch waits for the Realm agent, opens the routes, starts the application *)
(* and supervises it.  The helper may be PID 1 of the container.             *)
(***************************************************************************)
EXTENDS Bridge, Sequences, Functions

CONSTANTS
    Modes,         \* subset of {"launch", "bridge"}
    Routes,        \* listeners to open: routes.json and the backend socket
    Attempts,      \* dials that fit into the 60 seconds of waitAgent
    Signals,       \* numbers of the forwarded signals that are sent
    Codes,         \* exit codes of processes of the application
    Orphans,       \* processes that the application leaves behind
    ForwardSize,   \* capacity of forward (4)
    MaxSignals     \* bound on the signals sent

ASSUME ContainerAssumption ==
    /\ Modes \subseteq {"launch", "bridge"} /\ Attempts \in Nat \ {0}
    /\ Signals \subseteq 1..64 /\ Codes \subseteq 0..127
    /\ ForwardSize \in Nat \ {0} /\ MaxSignals \in Nat
    /\ "app" \notin Orphans

VARIABLES
    mode,          \* the subcommand
    pid1,          \* the helper is PID 1 of its container
    pc,            \* the main goroutine
    dials,         \* dials of waitAgent that failed
    answer,        \* what the agent answered: "none", "READY" or "other"
    listening,     \* listeners whose serveBridge runs
    bound,         \* listeners that were opened
    child,         \* the application: "none", "alive" or "over"
    end,           \* how it ended
    zombies,       \* processes to reap
    left,          \* orphans that have ended, with their status
    pending,       \* signals the runtime has not yet passed to forward
    forward,       \* the channel
    childSignals,  \* signals the application was sent
    signals,       \* signals sent so far
    status,        \* what reap sent to supervise
    code           \* exit code of the helper

fixed == <<mode, pid1>>
gate == <<dials, answer>>
routes == <<listening, bound>>
processes == <<child, end, zombies, left>>
notices == <<pending, forward, childSignals, signals>>
result == <<status, code>>
vars == <<bridgevars, fixed, pc, gate, routes, processes, notices, result>>

None == "none"
App == "app"
NoCode == -1
NoStatus == [kind |-> "none", value |-> 0]
Exited(c) == [kind |-> "exit", value |-> c]
Killed(s) == [kind |-> "signal", value |-> s]

\* supervise: the exit code that stands for a wait status.
Code(s) == IF s.kind = "signal" THEN 128 + s.value ELSE s.value
-----------------------------------------------------------------------------
\* REALM_AGENT_SOCKET may be unset; a bridge has no gate.
Init ==
    /\ BridgeInit
    /\ mode \in Modes /\ pid1 \in (IF mode = "launch" THEN BOOLEAN ELSE {FALSE})
    /\ pc \in (IF mode = "launch" THEN {"gate", "routes"} ELSE {"routes"})
    /\ dials = 0 /\ answer = IF pc = "gate" THEN None ELSE "READY"
    /\ listening = {} /\ bound = {}
    /\ child = None /\ end = NoStatus /\ zombies = {} /\ left = [o \in {} |-> None]
    /\ pending = {} /\ forward = <<>> /\ childSignals = {} /\ signals = 0
    /\ status = NoStatus /\ code = NoCode

\* The process ends; with PID 1 every process of the container does.
ExitWith(c) ==
    /\ pc' = "exit" /\ code' = c /\ listening' = {}
    /\ pending' = {} /\ forward' = <<>>
    /\ IF pid1 /\ child = "alive"
         THEN child' = "over" /\ end' = Killed(9) ELSE UNCHANGED <<child, end>>
    /\ Cut
    /\ UNCHANGED <<fixed, gate, bound, zombies, left, childSignals, signals, status>>

Goto(to) ==
    /\ pc' = to
    /\ UNCHANGED <<bridgevars, fixed, processes, notices, result>>

\* waitAgent: a dial that fails is tried again until the deadline.
DialAgent ==
    /\ pc = "gate"
    /\ \/ Goto("answer") /\ UNCHANGED <<gate, routes>>
       \/ /\ dials + 1 < Attempts /\ dials' = dials + 1
          /\ Goto("gate") /\ UNCHANGED <<answer, routes>>
       \/ dials + 1 = Attempts /\ ExitWith(1)

\* Mutant: any line will do.
ReadAnyAnswer ==
    /\ pc = "answer"
    /\ \/ answer' \in {"READY", "other"} /\ Goto("routes") /\ UNCHANGED <<dials, routes>>
       \/ ExitWith(1)

\* The answer is READY; another line, the end or a timeout is final.
ReadAnswer ==
    /\ pc = "answer"
    /\ \/ answer' = "READY" /\ Goto("routes") /\ UNCHANGED <<dials, routes>>
       \/ ExitWith(1)

\* startContainerRoutes and bridgeCommand: one listener, whose serveBridge starts
\* at once.
OpenRoute ==
    /\ pc = "routes"
    /\ \/ \E r \in Routes \ bound :
            /\ bound' = bound \cup {r} /\ listening' = listening \cup {r}
            /\ Goto("routes") /\ UNCHANGED gate
       \/ bound # Routes /\ ExitWith(1)
       \/ /\ bound = Routes /\ Goto(IF mode = "launch" THEN "start" ELSE "serve")
          /\ UNCHANGED <<gate, routes>>

\* serveBridge returns when Accept fails.
AcceptFails(r) ==
    /\ r \in listening /\ listening' = listening \ {r}
    /\ UNCHANGED <<bridgevars, fixed, pc, gate, bound, processes, notices, result>>

\* bridgeCommand returns the first failure.
BridgeFails == pc = "serve" /\ listening # bound /\ ExitWith(1)

\* child.Start.
Start ==
    /\ pc = "start"
    /\ \/ /\ pc' = "notify" /\ child' = "alive"
          /\ UNCHANGED <<bridgevars, fixed, gate, routes, end, zombies, left, notices, result>>
       \/ ExitWith(1)

\* signal.Notify, then the goroutines.
Notify == pc = "notify" /\ Goto("wait") /\ UNCHANGED <<gate, routes>>
-----------------------------------------------------------------------------
(* supervise and reap. *)

\* The application exits, or dies of a signal it was sent or of its own accord.
AppEnds ==
    /\ child = "alive" /\ child' = "over"
    /\ \/ \E c \in Codes : end' = Exited(c)
       \/ \E s \in childSignals \cup {9} : end' = Killed(s)
    /\ zombies' = IF pc = "exit" THEN zombies ELSE zombies \cup {App}
    /\ UNCHANGED <<bridgevars, fixed, pc, gate, routes, left, notices, result>>

\* A process that the application left to PID 1 ends.
OrphanEnds(o, c) ==
    /\ pid1 /\ pc # "exit" /\ child # None /\ o \notin DOMAIN left
    /\ left' = [x \in DOMAIN left \cup {o} |-> IF x = o THEN Exited(c) ELSE left[x]]
    /\ zombies' = zombies \cup {o}
    /\ UNCHANGED <<bridgevars, fixed, pc, gate, routes, child, end, notices, result>>

\* Mutant: the first status ends the loop.
ReapFirst(p) ==
    /\ pc = "wait" /\ status = NoStatus /\ p \in zombies
    /\ zombies' = zombies \ {p}
    /\ status' = IF p = App THEN end ELSE left[p]
    /\ UNCHANGED <<bridgevars, fixed, pc, gate, routes, child, end, left, notices, code>>

\* reap: Wait4 returns any child; the loop goes on until it was the application.
Reap(p) ==
    /\ pc = "wait" /\ status = NoStatus /\ p \in zombies
    /\ zombies' = zombies \ {p}
    /\ status' = IF p = App THEN end ELSE NoStatus
    /\ UNCHANGED <<bridgevars, fixed, pc, gate, routes, child, end, left, notices, code>>

Supervise == pc = "wait" /\ status # NoStatus /\ ExitWith(Code(status))

\* The container runtime or an operator sends a signal.  Before Notify it ends the
\* helper; the runtime keeps one of each kind.
Kill(s) ==
    /\ pc # "exit" /\ mode = "launch" /\ signals < MaxSignals
    /\ \/ /\ pc # "wait" /\ ExitWith(128 + s)
       \/ /\ pc = "wait"
          /\ pending' = pending \cup {s} /\ signals' = signals + 1
          /\ UNCHANGED <<bridgevars, fixed, pc, gate, routes, processes, forward,
                         childSignals, result>>

\* The runtime never blocks on a full channel.
PassSignal(s) ==
    /\ s \in pending /\ pending' = pending \ {s}
    /\ forward' = IF Len(forward) < ForwardSize THEN Append(forward, s) ELSE forward
    /\ UNCHANGED <<bridgevars, fixed, pc, gate, routes, processes, childSignals, signals,
                   result>>

\* Mutant: the signals are received, but only the last one is passed on.
ForwardLast ==
    /\ forward # <<>> /\ forward' = <<>>
    /\ childSignals' = IF child = "alive" THEN childSignals \cup {forward[Len(forward)]}
                       ELSE childSignals
    /\ UNCHANGED <<bridgevars, fixed, pc, gate, routes, processes, pending, signals, result>>

\* child.Process.Signal; the error of a process that is over is ignored.
ForwardSignal ==
    /\ forward # <<>> /\ forward' = Tail(forward)
    /\ childSignals' = IF child = "alive" THEN childSignals \cup {Head(forward)}
                       ELSE childSignals
    /\ UNCHANGED <<bridgevars, fixed, pc, gate, routes, processes, pending, signals, result>>
-----------------------------------------------------------------------------
Helper ==
    \/ DialAgent \/ ReadAnswer \/ OpenRoute \/ Start \/ Notify \/ Supervise
    \/ \E p \in Orphans \cup {App} : Reap(p)

InBridge(A) == A /\ UNCHANGED <<fixed, pc, gate, routes, processes, notices, result>>

\* The listeners of both subcommands are served by serveBridge; the connection is
\* looked at in a bridge.
Connection ==
    \/ mode = "bridge" /\ listening # {} /\ InBridge(Arrive)
    \/ InBridge(DialTarget) \/ InBridge(CloseBoth)
    \/ \E d \in Dirs : InBridge(Copy(d))
    \/ InBridge(Endpoint)

Faults ==
    \/ \E r \in Routes : AcceptFails(r)
    \/ \E s \in Signals : Kill(s)
    \/ AppEnds \/ \E o \in Orphans, c \in Codes : OrphanEnds(o, c)

Over == pc = "exit" /\ UNCHANGED vars

Next ==
    \/ Helper \/ BridgeFails \/ Connection \/ Faults \/ ForwardSignal \/ Over
    \/ \E s \in Signals : PassSignal(s)

Spec == Init /\ [][Next]_vars

\* Goroutines run, dials and the wait for the answer have deadlines, and the ends
\* of a connection read what comes.  Nothing obliges an end to send, to finish or
\* to close, nor the application to end.
Fairness ==
    /\ WF_vars(Helper) /\ WF_vars(BridgeFails) /\ WF_vars(ForwardSignal)
    /\ \A s \in Signals : WF_vars(PassSignal(s))
    /\ WF_vars(InBridge(DialTarget)) /\ WF_vars(InBridge(CloseBoth))
    /\ \A d \in Dirs : WF_vars(InBridge(Copy(d))) /\ WF_vars(InBridge(EndReads(d)))

FairSpec == Spec /\ Fairness
-----------------------------------------------------------------------------
\* The application runs only behind an open gate and open routes.
StartGated == child # None => answer = "READY" /\ bound = Routes

\* launchCommand: the application starts only after READY (if there is an agent to
\* wait for) and with every route open, and the launch always comes to a decision,
\* whatever the agent does.
LaunchDecides ==
    /\ [](mode = "launch" => StartGated)
    /\ mode = "launch" ~> (child # None \/ pc = "exit")

\* The status that reap sends, and the exit code it becomes, are the application's.
StatusOfApp ==
    status # NoStatus => /\ child = "over" /\ status = end
                         /\ pc = "exit" => code = Code(end)

\* supervise and reap: the helper takes the status of the application and of no
\* other process for its own, in whatever order processes are reaped, and it exits
\* once the application has.
ExitsAsChild ==
    /\ [](mode = "launch" => StatusOfApp)
    /\ child = "over" ~> pc = "exit"

\* supervise: a signal that found room in forward reaches the application unless it
\* is over, and one that the runtime has received is dropped only while the channel
\* is full of others, all of which then reach it.  (A signal between Start and Notify
\* ends the helper instead; unless it is PID 1, the application stays behind.)
SignalForwarded ==
    \A s \in Signals :
      /\ s \in Range(forward) ~> (s \in childSignals \/ child = "over")
      /\ s \in pending ~> \/ s \in childSignals \/ child = "over"
                          \/ Len(forward) = ForwardSize
=============================================================================

---------------------------- MODULE ServerPlugin ----------------------------
(***************************************************************************)
(* The server plugin as a process (adapters.go): the Attest streams of        *)
(* AttestServer and the metrics listener, which Configure replaces together   *)
(* under the lock of the plugin.                                            *)
(*                                                                         *)
(* The two share Configure and nothing else.  A behaviour either has streams  *)
(* and configurations without a metrics address, or no streams and any.      *)
(***************************************************************************)
EXTENDS AttestServer, MetricsListener

VARIABLES
    streams,      \* whether this behaviour has streams
    configured,   \* the metrics address of the configuration in force
    quit          \* Close of the plugin has run

pluginvars == <<vars, listenervars, streams, configured, quit>>
-----------------------------------------------------------------------------
PluginInit ==
    /\ Init /\ ListenerInit
    /\ streams \in BOOLEAN /\ configured = Unset /\ quit = FALSE

Offered == IF streams THEN {Unset} ELSE Addresses \cup {Unset}

\* ServerPlugin.Configure: a configuration whose metrics address cannot be bound is
\* refused and leaves the Server in place.
PluginConfigure(a) ==
    /\ ~quit
    /\ \/ ConfigureListener(a, TRUE) /\ Configure /\ configured' = a
       \/ gen < MaxGen /\ ConfigureListener(a, FALSE) /\ UNCHANGED <<vars, configured>>
    /\ UNCHANGED <<streams, quit>>

\* ServerPlugin.Close.
PluginClose ==
    /\ ~quit /\ ~streams /\ quit' = TRUE
    /\ CloseListener
    /\ UNCHANGED <<vars, streams, configured>>

StreamStep ==
    /\ \/ streams /\ \E a \in Attempts :
            HandlerStep(a) \/ CtxClose(a) \/ CloseRemove(a) \/ Cancel(a)
       \/ Tick
       \/ Finished
    /\ UNCHANGED <<listenervars, streams, configured, quit>>

InListener(A) == A /\ UNCHANGED <<vars, streams, configured, quit>>

ListenerStep ==
    \E i \in Listeners :
        \/ InListener(Serving(i)) \/ InListener(ConnEnds(i))
        \/ InListener(AcceptReturns(i)) \/ InListener(AcceptBreaks(i))

PluginNext ==
    \/ \E a \in Offered : PluginConfigure(a)
    \/ PluginClose \/ StreamStep \/ ListenerStep
    \/ quit /\ UNCHANGED pluginvars

PluginSafe == PluginInit /\ [][PluginNext]_pluginvars

\* Serve runs, and the timeouts of the HTTP server end every connection.
PluginSpec ==
    /\ PluginSafe /\ Fairness
    /\ \A i \in Listeners :
         /\ WF_listenervars(InListener(Serving(i)))
         /\ WF_listenervars(InListener(ConnEnds(i)))
-----------------------------------------------------------------------------
\* configure: what listens is the metrics address of the configuration in force, and
\* nothing else does, whatever replacements were refused and however the goroutines
\* of replaced listeners lag behind.  (An accept error that is not temporary closes
\* the listener, and configuring the same address again does not open it.)
BoundAsConfigured ==
    /\ \A i \in Listeners : socket[i] = "open" => i = current /\ boundTo[i] = configured
    /\ ~quit => address = configured
    /\ ~quit /\ configured # Unset =>
         current # 0 /\ (socket[current] = "open" \/ serve[current] = "over")
=============================================================================

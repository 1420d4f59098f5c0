---------------------------- MODULE AgentAttempt ----------------------------
(***************************************************************************)
(* The agent half of the http_fqdn node attestor: AgentAttempt (agent.go)    *)
(* and the AidAttestation stream handler that drives it (adapters.go).  The  *)
(* handler publishes through the control socket of its host's responder; a   *)
(* control call that its deadline or its stream abandons stays on its way.   *)
(***************************************************************************)
EXTENDS Integers

CONSTANTS
    Attempts,      \* the sessions
    AgentTTL,      \* lifetime of AidAttestation's context, in seconds (120)
    PutBudget,     \* deadline of a control call, in seconds (2)
    DeleteBudget,  \* deadline of the clean-up call, in seconds (1)
    Hz             \* clock ticks in a second

VARIABLES
    now,        \* the clock, in ticks
    apc,        \* apc[a]: where the AidAttestation handler of session a is
    aidBy,      \* aidBy[a]: deadline of its context, in ticks
    callBy,     \* callBy[a]: deadline of its control call, in ticks
    dropped,    \* sessions whose agent stream was cancelled
    published,  \* sessions with AgentAttempt.published set
    submitted,  \* sessions recorded as proof_submitted
    ctl,        \* ctl[a]: the PUT request of session a
    del         \* del[a]: the DELETE request of session a

avars == <<apc, aidBy, callBy, dropped, published, submitted>>
-----------------------------------------------------------------------------
AidDone(a) == a \in dropped \/ now >= aidBy[a]

AgentInit ==
    /\ apc = [a \in Attempts |-> "idle"]
    /\ aidBy = [a \in Attempts |-> 0]
    /\ callBy = [a \in Attempts |-> 0]
    /\ dropped = {} /\ published = {} /\ submitted = {}

\* A control call returns, and its deadline with it.
CallOver(a) == callBy' = [callBy EXCEPT ![a] = 0]

Goto(a, l) == apc' = [apc EXCEPT ![a] = l]

\* AidAttestation: BeginAgent makes a key, and the payload is sent.
Aid(a) ==
    /\ apc[a] = "idle"
    /\ Goto(a, "payload")
    /\ aidBy' = [aidBy EXCEPT ![a] = now + AgentTTL * Hz]
    /\ UNCHANGED <<callBy, dropped, published, submitted, ctl, del>>

\* Respond: valid says whether the challenge passes the checks.  published is
\* set before the PUT leaves.
Respond(a, valid) ==
    /\ apc[a] = "payload"
    /\ ~AidDone(a)
    /\ IF valid
       THEN /\ Goto(a, "publishing")
            /\ published' = published \cup {a}
            /\ ctl' = [ctl EXCEPT ![a] = "sent"]
            /\ callBy' = [callBy EXCEPT ![a] = now + PutBudget * Hz]
       ELSE Goto(a, "exit") /\ UNCHANGED <<published, ctl, callBy>>
    /\ UNCHANGED <<aidBy, dropped, submitted, del>>

\* controlRequest returns with the status of the PUT.
PutReply(a) ==
    /\ apc[a] = "publishing"
    /\ ctl[a] \in {"created", "refused"}
    /\ Goto(a, IF ctl[a] = "created" THEN "ready" ELSE "exit")
    /\ CallOver(a)
    /\ UNCHANGED <<aidBy, dropped, published, submitted, ctl, del>>

\* controlRequest gives up; the responder's handler may still be running.
PutTimeout(a) ==
    /\ apc[a] = "publishing"
    /\ AidDone(a) \/ now >= callBy[a]
    /\ Goto(a, "exit")
    /\ CallOver(a)
    /\ UNCHANGED <<aidBy, dropped, published, submitted, ctl, del>>

\* The ready message is sent.  It is recorded as a submission only if the
\* context was live when the send began.
SendReady(a) ==
    /\ apc[a] = "ready"
    /\ Goto(a, "wait")
    /\ submitted' = IF AidDone(a) THEN submitted ELSE submitted \cup {a}
    /\ UNCHANGED <<aidBy, callBy, dropped, published, ctl, del>>

SendReadyFail(a) ==
    /\ apc[a] = "ready"
    /\ Goto(a, "exit")
    /\ UNCHANGED <<aidBy, callBy, dropped, published, submitted, ctl, del>>

\* The stream ends, is cancelled or times out, or carries a second challenge.
StreamEnd(a) ==
    /\ apc[a] \in {"payload", "wait"}
    /\ Goto(a, "exit")
    /\ UNCHANGED <<aidBy, callBy, dropped, published, submitted, ctl, del>>

\* SPIRE cancels the agent's stream while the handler is busy.
Drop(a) ==
    /\ apc[a] \in {"publishing", "ready"}
    /\ a \notin dropped
    /\ dropped' = dropped \cup {a}
    /\ UNCHANGED <<apc, aidBy, callBy, published, submitted, ctl, del>>

\* The deferred AgentAttempt.Close: with an ID on record a DELETE is sent.
Close(a) ==
    /\ apc[a] = "exit"
    /\ IF a \in published
       THEN /\ Goto(a, "closing")
            /\ del' = [del EXCEPT ![a] = "sent"]
            /\ callBy' = [callBy EXCEPT ![a] = now + DeleteBudget * Hz]
       ELSE Goto(a, "done") /\ UNCHANGED <<del, callBy>>
    /\ UNCHANGED <<aidBy, dropped, published, submitted, ctl>>

\* The DELETE answered, failed or timed out; its error is ignored.
Closed(a) ==
    /\ apc[a] = "closing"
    /\ del[a] \in {"done", "lost"} \/ now >= callBy[a]
    /\ Goto(a, "done")
    /\ CallOver(a)
    /\ UNCHANGED <<aidBy, dropped, published, submitted, ctl, del>>

=============================================================================

--------------------------- MODULE MCDeclaration ---------------------------
(* What is deployed for a workload: its SPIRE entries and its policy.  They   *)
(* share no state, so a behaviour looks at one of them; one that looks at    *)
(* the policy registers an empty manifest first.                            *)
EXTENDS SpireRegister, MCWorkloadPolicy

VARIABLE part      \* what this behaviour looks at: "entries" or "policy"

MCInit ==
    /\ Init /\ PolicyInit
    /\ \/ part = "entries" /\ dest = CHOOSE d \in Raw : TRUE
       \/ part = "policy" /\ Declared = {} /\ ~strict

MCNext ==
    /\ UNCHANGED part
    /\ \/ part = "entries" /\ Next /\ UNCHANGED policyVars
       \/ part = "policy" /\ Reconcile /\ UNCHANGED policyVars
       \/ part = "policy" /\ pc = "done" /\ PolicyNext /\ UNCHANGED vars

MCSpec ==
    /\ MCInit /\ [][MCNext]_<<vars, policyVars, part>>
    /\ WF_vars(Reconcile) /\ WF_vars(Rerun)
=============================================================================

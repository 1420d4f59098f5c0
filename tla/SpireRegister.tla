--------------------------- MODULE SpireRegister ---------------------------
(***************************************************************************)
(* realm-helper spire-register (spireregister.go): one oneshot run after     *)
(* another reconciles the SPIRE server's entries with the manifest of the    *)
(* deployed configuration.  A run may be killed between any two steps, its   *)
(* CLI calls may fail with or without effect, a deployment replaces the       *)
(* manifest and restarts the unit, and administrators edit entries by hand.  *)
(*                                                                         *)
(* Declared entries are numbered in the order of their manifest keys, which   *)
(* is the order reconcile applies and records them in.                      *)
(***************************************************************************)
EXTENDS Integers, FiniteSetsExt

CONSTANTS
    Declarable,          \* entries a manifest may declare
    Manual,              \* entries only administrators add
    Contents,            \* parent, SPIFFE ID and selectors of an entry
    Faults,              \* which of FaultKinds happen
    MaxFaults,           \* bound: faults and administrators' edits
    MaxDeploys,          \* bound: deployments
    Strictness           \* the servers considered, see strict

Absent == 0
FaultKinds == {"health", "show", "apply", "lost", "delete", "kill", "admin"}

ASSUME SpireRegisterAssumption ==
    /\ Declarable \subseteq Nat /\ Manual \subseteq Nat
    /\ Declarable \cap Manual = {}
    /\ Contents \subseteq Nat \ {Absent}
    /\ Faults \subseteq FaultKinds
    /\ MaxFaults \in Nat /\ MaxDeploys \in Nat /\ Strictness \subseteq BOOLEAN

VARIABLES
    strict,      \* spire-server reports deleting an unknown entry
    entries,     \* the server's entries: contents or Absent
    manifest,    \* the deployed declaration: contents or Absent
    state,       \* IDs in the state file
    pc,          \* where the current run is
    todo,        \* declared entries still to apply
    verb,        \* create or update, for the least entry of todo
    previous,    \* IDs read from the state file and still to look at
    created,     \* ghost: entries of the server that this command created
    unrecorded,  \* ghost: those never written to the state file since
    edited,      \* ghost: declared entries that administrators have removed
    faults, deploys

vars == <<strict, entries, manifest, state, pc, todo, verb, previous, created, unrecorded,
          edited, faults, deploys>>
Ids == Declarable \cup Manual
Manifests == [Declarable -> Contents \cup {Absent}]
Declared == {id \in Declarable : manifest[id] # Absent}

Init ==
    /\ strict \in Strictness
    /\ entries = [id \in Ids |-> Absent]
    /\ manifest \in Manifests
    /\ state = {} /\ pc = "wait"
    /\ todo = {} /\ verb = "create" /\ previous = {}
    /\ created = {} /\ unrecorded = {} /\ edited = {}
    /\ faults = 0 /\ deploys = 0
-----------------------------------------------------------------------------
Fault(kind) == kind \in Faults /\ faults < MaxFaults /\ faults' = faults + 1

Fail == pc' = "failed" /\ UNCHANGED <<todo, verb, previous>>

\* The server answers a health check, and reconcile reads manifest and state.
Load ==
    /\ pc = "wait"
    /\ pc' = "show" /\ todo' = Declared /\ previous' = state /\ verb' = "create"
    /\ UNCHANGED <<strict, entries, manifest, state, created, unrecorded, edited, faults,
                   deploys>>

\* The health checks are used up.
NeverHealthy ==
    /\ pc = "wait" /\ Fault("health") /\ Fail
    /\ UNCHANGED <<strict, entries, manifest, state, created, unrecorded, edited, deploys>>

\* Mutant: apply always creates.
ShowNever ==
    /\ pc = "show" /\ todo # {}
    /\ verb' = "create" /\ pc' = "apply"
    /\ UNCHANGED <<strict, entries, manifest, state, todo, previous, created, unrecorded,
                   edited, faults, deploys>>

\* apply: entry show tells whether to create or to update.
Show ==
    /\ pc = "show" /\ todo # {}
    /\ verb' = IF entries[Min(todo)] # Absent THEN "update" ELSE "create"
    /\ pc' = "apply"
    /\ UNCHANGED <<strict, entries, manifest, state, todo, previous, created, unrecorded,
                   edited, faults, deploys>>

\* A call that fails for another reason also reads as "does not exist".
ShowFails ==
    /\ pc = "show" /\ todo # {} /\ Fault("show")
    /\ verb' = "create" /\ pc' = "apply"
    /\ UNCHANGED <<strict, entries, manifest, state, todo, previous, created, unrecorded,
                   edited, deploys>>

\* The server takes a create of an unknown and an update of a known entry.
Accepted(id) == (verb = "create") <=> (entries[id] = Absent)

Write(id) ==
    /\ entries' = [entries EXCEPT ![id] = manifest[id]]
    /\ edited' = edited \ {id}
    /\ created' = IF verb = "create" THEN created \cup {id} ELSE created
    /\ unrecorded' = IF verb = "create" THEN unrecorded \cup {id} ELSE unrecorded

\* apply: entry create or entry update.
Apply ==
    /\ pc = "apply"
    /\ \/ /\ Accepted(Min(todo)) /\ Write(Min(todo))
          /\ pc' = "show" /\ todo' = todo \ {Min(todo)}
          /\ UNCHANGED <<verb, previous>>
       \/ /\ ~Accepted(Min(todo)) /\ Fail
          /\ UNCHANGED <<entries, created, unrecorded, edited>>
    /\ UNCHANGED <<strict, manifest, state, faults, deploys>>

ApplyFails ==
    /\ pc = "apply" /\ Fail
    /\ \/ Fault("apply") /\ UNCHANGED <<entries, created, unrecorded, edited>>
       \/ Fault("lost") /\ Accepted(Min(todo)) /\ Write(Min(todo))
    /\ UNCHANGED <<strict, manifest, state, deploys>>
-----------------------------------------------------------------------------
\* Recorded IDs that the manifest no longer declares.
Stale == previous \ Declared

\* Mutant: recorded IDs are deleted whether or not they are still declared.
PruneDeclared ==
    /\ pc = "show" /\ todo = {} /\ previous # {}
    /\ LET id == Min(previous) IN
         /\ previous' = previous \ {id} /\ UNCHANGED <<pc, todo, verb>>
         /\ entries' = [entries EXCEPT ![id] = Absent]
         /\ created' = created \ {id} /\ unrecorded' = unrecorded \ {id}
    /\ UNCHANGED <<strict, manifest, state, edited, faults, deploys>>

Prune ==
    /\ pc = "show" /\ todo = {} /\ Stale # {}
    /\ LET id == Min(Stale) IN
         \/ /\ entries[id] # Absent \/ ~strict
            /\ previous' = previous \ {id} /\ UNCHANGED <<pc, todo, verb>>
            /\ entries' = [entries EXCEPT ![id] = Absent]
            /\ created' = created \ {id} /\ unrecorded' = unrecorded \ {id}
         \/ /\ entries[id] = Absent /\ strict /\ Fail
            /\ UNCHANGED <<entries, created, unrecorded>>
    /\ UNCHANGED <<strict, manifest, state, edited, faults, deploys>>

PruneFails ==
    /\ pc = "show" /\ todo = {} /\ Stale # {} /\ Fault("delete") /\ Fail
    /\ UNCHANGED <<strict, entries, manifest, state, created, unrecorded, edited, deploys>>

\* Mutant: the state file is replaced before the stale entries are deleted.
WriteStateUnpruned ==
    /\ pc = "show" /\ todo = {}
    /\ state' = Declared /\ unrecorded' = unrecorded \ Declared
    /\ pc' = "done" /\ previous' = {}
    /\ UNCHANGED <<strict, entries, manifest, todo, verb, created, edited, faults, deploys>>

\* writeState: the new list replaces the old one in one rename.
WriteState ==
    /\ pc = "show" /\ todo = {} /\ Stale = {}
    /\ state' = Declared /\ unrecorded' = unrecorded \ Declared
    /\ pc' = "done" /\ previous' = {}
    /\ UNCHANGED <<strict, entries, manifest, todo, verb, created, edited, faults, deploys>>
-----------------------------------------------------------------------------
\* The process is killed between two steps.
Kill ==
    /\ pc \in {"wait", "show", "apply"} /\ Fault("kill") /\ Fail
    /\ UNCHANGED <<strict, entries, manifest, state, created, unrecorded, edited, deploys>>

\* A failed unit is started again.
Rerun ==
    /\ pc = "failed" /\ pc' = "wait"
    /\ UNCHANGED <<strict, entries, manifest, state, todo, verb, previous, created,
                   unrecorded, edited, faults, deploys>>

\* A deployment with another manifest restarts the unit (restartTriggers).
Deploy(m) ==
    /\ deploys < MaxDeploys /\ deploys' = deploys + 1
    /\ m # manifest /\ manifest' = m
    /\ pc' = "wait"
    /\ UNCHANGED <<strict, entries, state, todo, verb, previous, created, unrecorded,
                   edited, faults>>

AdminAdd(id) ==
    /\ Fault("admin") /\ id \in Manual /\ entries[id] = Absent
    /\ \E c \in Contents : entries' = [entries EXCEPT ![id] = c]
    /\ UNCHANGED <<strict, manifest, state, pc, todo, verb, previous, created, unrecorded,
                   edited, deploys>>

AdminDelete(id) ==
    /\ Fault("admin") /\ entries[id] # Absent
    /\ entries' = [entries EXCEPT ![id] = Absent]
    /\ created' = created \ {id} /\ unrecorded' = unrecorded \ {id}
    /\ edited' = edited \cup {id}
    /\ UNCHANGED <<strict, manifest, state, pc, todo, verb, previous, deploys>>

\* RemainAfterExit: nothing happens until the next deployment.
Rest == pc = "done" /\ UNCHANGED vars

Reconcile ==
    Load \/ Show \/ Apply \/ Prune \/ WriteState

Next ==
    \/ Reconcile \/ NeverHealthy \/ ShowFails \/ ApplyFails \/ PruneFails
    \/ Kill \/ Rerun \/ Rest
    \/ \E m \in Manifests : Deploy(m)
    \/ \E id \in Ids : AdminAdd(id) \/ AdminDelete(id)

Spec == Init /\ [][Next]_vars

\* A run goes on.  A failed unit has no Restart=: that it is started again, at the
\* next boot, deployment or by hand, is an assumption about its operators.
FairSpec == Spec /\ WF_vars(Reconcile) /\ WF_vars(Rerun)
-----------------------------------------------------------------------------
\* reconcile deletes only entries it created itself and that the manifest in
\* force does not declare, however earlier runs ended: an entry that stays
\* declared is updated in place and an entry added by hand is left alone.
DeletesOwnStale ==
    [][\A id \in Ids :
         entries[id] # Absent /\ entries'[id] = Absent /\ faults' = faults =>
           id \in created /\ id \notin Declared]_vars

\* Runs, crashes, failing calls and the state file together keep the promise of
\* Reconciliation: every entry that reconcile writes takes the contents the manifest
\* in force declares, every entry it deletes is its own and undeclared, and a run
\* succeeds only with the manifest in force and everything pruned that any earlier
\* success had covered.
Promise == INSTANCE Reconciliation WITH done <- (pc = "done")
RegisterPromise == Promise!Spec

\* When a run succeeds, every declared entry has the declared contents on the
\* server, unless an administrator has removed it since it was written: stale
\* answers of entry show and half-done earlier runs do not matter.  And the only
\* undeclared entries of this command left there are ones whose creation no run
\* has recorded: whatever was in the state file once is pruned in the end, because
\* writeState comes last.
AppliedWhenDone ==
    pc = "done" =>
      /\ \A id \in Declared \ edited : entries[id] = manifest[id]
      /\ created \ Declared \subseteq unrecorded

\* The comment on reconcile: entries that this command created previously and
\* that the manifest no longer declares are removed.
PrunesCreated ==
    pc = "done" => created \subseteq Declared

\* However runs fail, if failures are finitely many and the unit is started again
\* after each, the deployed manifest is finally in force and recorded.  There is
\* one exception: a server that refuses to delete an unknown entry stops every
\* run at a recorded, undeclared ID whose entry is gone, because an interrupted
\* run had deleted it before writeState or an administrator has.
Converges ==
    \/ <>[](pc = "done")
    \/ strict /\ <>[](\E id \in state \ Declared : entries[id] = Absent)
=============================================================================

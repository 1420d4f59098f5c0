--------------------------- MODULE Reconciliation ---------------------------
(***************************************************************************)
(* What spire-register promises, without state file, runs, crashes or CLI    *)
(* calls: between deployments the command brings declared entries to their   *)
(* declared contents and retires entries of its own that are not declared,   *)
(* one at a time, and reports success only when nothing it knows of is left  *)
(* to do.  Administrators may edit entries at any time.                     *)
(***************************************************************************)
CONSTANTS Declarable, Manual, Contents, Absent

VARIABLES
    entries,     \* the server's entries: contents or Absent
    manifest,    \* the declaration in force: contents or Absent
    created,     \* entries of the server that the command created
    unrecorded,  \* those not part of any success since
    edited,      \* declared entries that administrators have removed
    done         \* the command has succeeded with this manifest

avars == <<entries, manifest, created, unrecorded, edited, done>>
Ids == Declarable \cup Manual
Manifests == [Declarable -> Contents \cup {Absent}]
Declared == {id \in Declarable : manifest[id] # Absent}

Init ==
    /\ entries = [id \in Ids |-> Absent]
    /\ manifest \in Manifests
    /\ created = {} /\ unrecorded = {} /\ edited = {} /\ done = FALSE

\* A declared entry takes its declared contents, whatever it was before.
Bring(id) ==
    /\ ~done /\ id \in Declared
    /\ entries' = [entries EXCEPT ![id] = manifest[id]]
    /\ created' = created \cup {id}
    /\ unrecorded' = IF id \in created THEN unrecorded ELSE unrecorded \cup {id}
    /\ edited' = edited \ {id}
    /\ UNCHANGED <<manifest, done>>

\* An entry of the command that is no longer declared goes.
Retire(id) ==
    /\ ~done /\ id \in created \ Declared
    /\ entries' = [entries EXCEPT ![id] = Absent]
    /\ created' = created \ {id} /\ unrecorded' = unrecorded \ {id}
    /\ UNCHANGED <<manifest, edited, done>>

\* Success: the declaration is in force, and what was created under an earlier
\* one is gone unless no success has ever covered it.
Succeed ==
    /\ ~done /\ done' = TRUE
    /\ \A id \in Declared \ edited : entries[id] = manifest[id]
    /\ created \ Declared \subseteq unrecorded
    /\ unrecorded' = unrecorded \ Declared
    /\ UNCHANGED <<entries, manifest, created, edited>>

Deploy ==
    /\ manifest' \in Manifests \ {manifest} /\ done' = FALSE
    /\ UNCHANGED <<entries, created, unrecorded, edited>>

\* Administrators add entries that no manifest declares, and remove any.
Add(id) ==
    /\ id \in Manual /\ entries[id] = Absent
    /\ \E c \in Contents : entries' = [entries EXCEPT ![id] = c]
    /\ UNCHANGED <<manifest, created, unrecorded, edited, done>>

Remove(id) ==
    /\ entries[id] # Absent /\ entries' = [entries EXCEPT ![id] = Absent]
    /\ created' = created \ {id} /\ unrecorded' = unrecorded \ {id}
    /\ edited' = edited \cup {id}
    /\ UNCHANGED <<manifest, done>>

Next ==
    \/ Succeed \/ Deploy
    \/ \E id \in Ids : Bring(id) \/ Retire(id) \/ Add(id) \/ Remove(id)

Spec == Init /\ [][Next]_avars
=============================================================================

-------------------------------- MODULE Clean --------------------------------
(***************************************************************************)
(* l8k clean: cleanWithUninstaller, deleteNetworkOperatorCustomResources   *)
(* and deleteAllAndWait of pkg/networkoperatorplugin/clean.go, racing with *)
(* the controllers of the operator being removed.                          *)
(*                                                                         *)
(* A ref stands for the instances of one kind.  Rank is the order in which *)
(* the command visits refs: namespaced kinds sorted by name, then the      *)
(* cluster-scoped kinds in the order of clusterScopedCleanKinds, which     *)
(* ends with NicClusterPolicy.                                             *)
(***************************************************************************)
EXTENDS Naturals, FiniteSets

CONSTANTS
    Namespaced,     \* refs of the operator namespace
    ClusterScoped,  \* refs of clusterScopedCleanKinds
    Rank,           \* the order the command visits refs in
    Roots,          \* root policies: their controllers create other refs
    Spawned,        \* the refs those controllers create
    Initial,        \* refs that may exist when the command starts
    Needs,          \* finalizers of r wait for the refs Needs[r] to enter deletion
    Faults,         \* which of FaultKinds may happen
    MaxSpawns,      \* bound: creations by controllers
    MaxRuns         \* bound: how often the user starts the command

Refs == Namespaced \cup ClusterScoped
FaultKinds == {"list", "delete", "get", "helm", "cancel", "kill"}

ASSUME RefsAssumption ==
    /\ Namespaced \cap ClusterScoped = {}
    /\ Roots \subseteq ClusterScoped
    /\ Spawned \subseteq Namespaced
    /\ Initial \subseteq Refs
    /\ Needs \in [Refs -> SUBSET Refs]
    /\ Rank \in [Refs -> Nat]
    /\ \A r, q \in Refs : Rank[r] = Rank[q] => r = q

ASSUME BoundsAssumption ==
    /\ Faults \subseteq FaultKinds
    /\ MaxSpawns \in Nat /\ MaxRuns \in Nat \ {0}

VARIABLES
    objs,       \* what the API server holds for each ref
    operator,   \* the Helm release's controllers are running
    spawns,
    pc, runs, cancelled,
    keep,       \* KeepHelmChart
    hasConfig,  \* RestConfig is not nil
    first,      \* this is the initial deletion set, not a sweep
    todo,       \* refs the current loop still has to visit
    refs,       \* the deletion set of this pass
    deleted,    \* deletion requests the API server accepted
    result,     \* the error that ended the command, or "success"
    signalled   \* history: refs this run sent a deletion request for

clusterVars == <<objs, operator, spawns>>
optionVars  == <<runs, keep, hasConfig>>
vars == <<clusterVars, optionVars, pc, cancelled, first, todo, refs, deleted,
          result, signalled>>

Results == {"none", "success", "list", "delete", "wait", "config", "helm",
            "killed"}

TypeOK ==
    /\ objs \in [Refs -> {"absent", "live", "terminating"}]
    /\ operator \in BOOLEAN /\ spawns \in 0..MaxSpawns
    /\ pc \in {"list", "signal", "wait", "helm", "done"}
    /\ runs \in 1..MaxRuns /\ cancelled \in BOOLEAN
    /\ keep \in BOOLEAN /\ hasConfig \in BOOLEAN /\ first \in BOOLEAN
    /\ todo \subseteq Refs /\ refs \subseteq Refs /\ signalled \subseteq Refs
    /\ deleted \in Nat
    /\ result \in Results

Init ==
    /\ objs \in [Refs -> {"absent", "live"}]
    /\ \A r \in Refs \ Initial : objs[r] = "absent"
    /\ operator \in BOOLEAN /\ (operator \/ \A r \in Refs : objs[r] = "absent")
    /\ spawns = 0 /\ runs = 1
    /\ keep \in BOOLEAN /\ hasConfig \in BOOLEAN
    /\ pc = "list" /\ cancelled = FALSE /\ first = TRUE
    /\ todo = Refs /\ refs = {} /\ deleted = 0
    /\ result = "none" /\ signalled = {}

Present(r) == objs[r] # "absent"
May(f) == f \in Faults

-----------------------------------------------------------------------------
(* The cluster.                                                            *)

\* Controllers finish a deletion once everything its finalizers wait for has
\* entered deletion.  Only a running operator processes finalizers.
Finalize(r) ==
    /\ operator /\ objs[r] = "terminating"
    /\ \A d \in Needs[r] : objs[d] # "live"
    /\ objs' = [objs EXCEPT ![r] = "absent"]
    /\ UNCHANGED <<operator, spawns, optionVars, pc, cancelled, first, todo,
                   refs, deleted, result, signalled>>

\* A controller (re)creates a service resource while a root policy exists,
\* even one that is already being deleted.
Spawn(r) ==
    /\ operator /\ objs[r] = "absent" /\ spawns < MaxSpawns
    /\ \E p \in Roots : Present(p)
    /\ objs' = [objs EXCEPT ![r] = "live"]
    /\ spawns' = spawns + 1
    /\ UNCHANGED <<operator, optionVars, pc, cancelled, first, todo, refs,
                   deleted, result, signalled>>

\* The caller's context is done.
Cancel ==
    /\ May("cancel") /\ ~cancelled /\ pc # "done"
    /\ cancelled' = TRUE
    /\ UNCHANGED <<clusterVars, optionVars, pc, first, todo, refs, deleted,
                   result, signalled>>

-----------------------------------------------------------------------------
(* The command.                                                            *)

\* The ref a loop over S visits next.
IsNext(r, S) == r \in S /\ \A q \in S : Rank[r] <= Rank[q]

Finish(r) ==
    /\ pc' = "done" /\ result' = r
    /\ UNCHANGED <<clusterVars, optionVars, cancelled, first, todo, refs,
                   deleted, signalled>>

\* listNamespacedCustomResources, then listClusterScopedCleanResources: one
\* List call per kind.  A kind that is no longer served contributes nothing.
ListRef(r) ==
    /\ pc = "list" /\ IsNext(r, todo)
    /\ todo' = todo \ {r}
    /\ refs' = IF Present(r) THEN refs \cup {r} ELSE refs
    /\ UNCHANGED <<clusterVars, optionVars, pc, cancelled, first, deleted,
                   result, signalled>>

ListFails ==
    /\ pc = "list" /\ todo # {} /\ (May("list") \/ cancelled)
    /\ Finish("list")

StartListing ==
    /\ pc' = "list" /\ todo' = Refs /\ refs' = {} /\ first' = FALSE

\* The whole deletion set is known.  An empty initial set goes straight to
\* the sweep; a sweep that finds nothing ends the custom-resource phase.
Listed ==
    /\ pc = "list" /\ todo = {}
    /\ \/ refs # {} /\ pc' = "signal" /\ todo' = refs /\ UNCHANGED <<refs, first>>
       \/ refs = {} /\ first /\ StartListing
       \/ refs = {} /\ ~first /\ pc' = "helm" /\ UNCHANGED <<todo, refs, first>>
    /\ UNCHANGED <<clusterVars, optionVars, cancelled, deleted, result,
                   signalled>>

\* First loop of deleteAllAndWait: a background deletion request for every
\* ref, before waiting on any of them.  A ref that is gone is not counted.
Signal(r) ==
    /\ pc = "signal" /\ IsNext(r, todo)
    /\ todo' = todo \ {r}
    /\ IF Present(r)
       THEN /\ objs' = [objs EXCEPT ![r] = "terminating"]
            /\ deleted' = deleted + 1
            /\ signalled' = signalled \cup {r}
       ELSE UNCHANGED <<objs, deleted, signalled>>
    /\ UNCHANGED <<operator, spawns, optionVars, pc, cancelled, first, refs,
                   result>>

SignalFails ==
    /\ pc = "signal" /\ todo # {} /\ (May("delete") \/ cancelled)
    /\ Finish("delete")

\* Mutant: waiting starts once the namespaced refs are signalled.
AllSignalledPerScope ==
    /\ pc = "signal" /\ todo \cap Namespaced = {}
    /\ pc' = "wait" /\ todo' = refs
    /\ UNCHANGED <<clusterVars, optionVars, cancelled, first, refs, deleted,
                   result, signalled>>

AllSignalled ==
    /\ pc = "signal" /\ todo = {}
    /\ pc' = "wait" /\ todo' = refs
    /\ UNCHANGED <<clusterVars, optionVars, cancelled, first, refs, deleted,
                   result, signalled>>

\* Second loop: one Get per ref.  The first one still there ends the pass, and
\* the next pass starts over with the whole set.
WaitRef(r) ==
    /\ pc = "wait" /\ IsNext(r, todo)
    /\ todo' = IF Present(r) THEN refs ELSE todo \ {r}
    /\ UNCHANGED <<clusterVars, optionVars, pc, cancelled, first, refs,
                   deleted, result, signalled>>

WaitFails ==
    /\ pc = "wait" /\ todo # {} /\ (May("get") \/ cancelled)
    /\ Finish("wait")

\* Mutant: no sweep after the wait.
AllGoneUnswept ==
    /\ pc = "wait" /\ todo = {}
    /\ pc' = "helm"
    /\ UNCHANGED <<clusterVars, optionVars, cancelled, deleted, result,
                   signalled, todo, refs, first>>

\* Every ref of the set was seen gone: sweep both scopes again.
AllGone ==
    /\ pc = "wait" /\ todo = {}
    /\ StartListing
    /\ UNCHANGED <<clusterVars, optionVars, cancelled, deleted, result,
                   signalled>>

\* Helm comes last, and only if the release is l8k's to remove.
KeepHelm ==
    /\ pc = "helm" /\ keep
    /\ Finish("success")

NoRestConfig ==
    /\ pc = "helm" /\ ~keep /\ ~hasConfig
    /\ Finish("config")

\* Uninstall of a release that is not there is a successful no-op; one that
\* fails may have stopped the controllers already.
UninstallHelm ==
    /\ pc = "helm" /\ ~keep /\ hasConfig
    /\ \/ ~cancelled /\ operator' = FALSE /\ result' = "success"
       \/ May("helm") /\ operator' \in {operator, FALSE} /\ result' = "helm"
       \/ cancelled /\ UNCHANGED operator /\ result' = "helm"
    /\ pc' = "done"
    /\ UNCHANGED <<objs, spawns, optionVars, cancelled, first, todo, refs,
                   deleted, signalled>>

\* No signal is handled, so Ctrl-C ends the process between any two calls.
Killed ==
    /\ May("kill") /\ pc # "done"
    /\ Finish("killed")

\* "Safe to re-run after a partial cleanup."
Rerun ==
    /\ pc = "done" /\ result # "success" /\ runs < MaxRuns
    /\ runs' = runs + 1
    /\ pc' = "list" /\ cancelled' = FALSE /\ first' = TRUE
    /\ todo' = Refs /\ refs' = {} /\ deleted' = 0 /\ result' = "none"
    /\ signalled' = {}
    /\ keep' \in BOOLEAN /\ hasConfig' \in BOOLEAN
    /\ UNCHANGED clusterVars

Terminated == pc = "done" /\ UNCHANGED vars

Controllers == \/ \E r \in Refs : Finalize(r)
               \/ \E r \in Spawned : Spawn(r)

Command ==
    \/ \E r \in Refs : ListRef(r) \/ Signal(r) \/ WaitRef(r)
    \/ Listed \/ AllSignalled \/ AllGone
    \/ KeepHelm \/ NoRestConfig \/ UninstallHelm

Failure == ListFails \/ SignalFails \/ WaitFails

Next == Controllers \/ Command \/ Failure \/ Cancel \/ Killed \/ Rerun \/ Terminated

Spec == Init /\ [][Next]_vars

\* The command keeps running, and a running operator eventually processes the
\* finalizers that can be processed.  A call need not fail because it may,
\* but it does once the context is done.
Fairness ==
    /\ WF_vars(Command)
    /\ WF_vars(cancelled /\ Failure)
    /\ \A r \in Refs : WF_vars(Finalize(r))

FairSpec == Spec /\ Fairness

-----------------------------------------------------------------------------
(* Properties.                                                             *)

\* "Helm is always last so controllers remain available to process
\* custom-resource finalizers": controllers that stopped leave no custom
\* resource behind, whatever they created while the root policies vanished.
OperatorOutlivesResources ==
    ~operator => \A r \in Refs : ~Present(r)

\* A command that reports success leaves both scopes empty, and they stay so,
\* also when the operator was kept and its controllers still run.
SuccessMeansEmpty ==
    result = "success" => \A r \in Refs : ~Present(r)

\* The wait looks for a name that a controller has taken again since its
\* deletion was requested.
Recreated == pc = "wait" /\ \E r \in refs \cap Spawned : objs[r] = "live"

\* "Sending all requests first prevents one CR's finalizer from blocking on
\* another CR that has not entered deletion": as long as the operator runs
\* cleanup ends, whatever finalizers wait for and whatever first appears while
\* the command works, unless the name of a deleted resource is taken again.
CleanupEnds == operator ~> (pc = "done" \/ Recreated)

-----------------------------------------------------------------------------
(* The promise of Teardown.                                                *)

Outcome == IF pc # "done" THEN "running"
           ELSE IF result = "success" THEN "success" ELSE "failed"

Promise == INSTANCE Teardown WITH
             crs <- {r \in Refs : Present(r)}, operator <- operator,
             outcome <- Outcome

\* clean.go implements the promise.
KeepsPromise == Promise!Spec
=============================================================================

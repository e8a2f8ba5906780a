----------------------------- MODULE CleanProofs -----------------------------
(***************************************************************************)
(* Theorems about Clean, for every set of kinds, visiting order, finalizer *)
(* dependency, fault and bound.                                            *)
(*                                                                         *)
(* The safety of cleanup rests on one fact: when the sweep starts, every   *)
(* root policy has been seen gone, so no controller creates anything any   *)
(* more and what the sweep's listing has passed stays empty.               *)
(***************************************************************************)
EXTENDS Clean, TLAPS

\* The initial listing misses no root policy: each is still to be listed, in
\* the deletion set, or gone.
RootsListed ==
    /\ first /\ pc = "list" =>
         \A p \in Roots : Present(p) => p \in todo \cup refs
    /\ first /\ pc \in {"signal", "wait"} =>
         \A p \in Roots : Present(p) => p \in refs

\* A waiting pass has seen every ref it has passed gone, and a root policy
\* does not come back.
WaitSound ==
    pc = "wait" => /\ todo \subseteq refs
                   /\ \A p \in Roots : p \in refs \ todo => ~Present(p)

\* Sweeps only happen after the last root policy is gone.
RootsGone == ~first => \A p \in Roots : ~Present(p)

\* A sweep's listing has passed nothing that exists without recording it.
Swept ==
    pc = "list" /\ ~first => \A r \in Refs : Present(r) => r \in todo \cup refs

\* Past the last sweep, or with the operator gone, both scopes are empty.
Emptied ==
    /\ pc = "helm" \/ result = "success" => ~first
    /\ result = "success" => pc = "done"
    /\ pc = "helm" \/ result = "success" \/ ~operator =>
         \A r \in Refs : ~Present(r)

IInv == TypeOK /\ RootsListed /\ WaitSound /\ RootsGone /\ Swept /\ Emptied

\* The state of the objects, the loop variables and the options of cleanup
\* stay in their types.
THEOREM TypeCorrect == Spec => []TypeOK
<1>1. Init => TypeOK
  <2> SUFFICES ASSUME Init PROVE TypeOK
    OBVIOUS
  <2>1. objs \in [Refs -> {"absent", "live", "terminating"}]
    BY DEF Init
  <2>2. spawns \in 0..MaxSpawns /\ runs \in 1..MaxRuns /\ deleted \in Nat
    BY BoundsAssumption DEF Init
  <2> QED
    BY <2>1, <2>2 DEF Init, TypeOK, Results
<1>2. TypeOK /\ [Next]_vars => TypeOK'
  <2> SUFFICES ASSUME TypeOK, [Next]_vars PROVE TypeOK'
    OBVIOUS
  <2> USE RefsAssumption, BoundsAssumption DEF TypeOK, Results
  <2>1. ASSUME NEW r \in Refs, Finalize(r) PROVE TypeOK'
    BY <2>1 DEF Finalize, optionVars
  <2>2. ASSUME NEW r \in Spawned, Spawn(r) PROVE TypeOK'
    BY <2>2 DEF Spawn, optionVars, Refs
  <2>3. ASSUME NEW r \in Refs, ListRef(r) PROVE TypeOK'
    BY <2>3 DEF ListRef, clusterVars, optionVars
  <2>4. ASSUME NEW r \in Refs, Signal(r) PROVE TypeOK'
    BY <2>4 DEF Signal, optionVars
  <2>5. ASSUME NEW r \in Refs, WaitRef(r) PROVE TypeOK'
    BY <2>5 DEF WaitRef, clusterVars, optionVars
  <2>6. CASE \/ ListFails \/ SignalFails \/ WaitFails
             \/ KeepHelm \/ NoRestConfig \/ Killed
    BY <2>6 DEF ListFails, SignalFails, WaitFails, KeepHelm, NoRestConfig,
                Killed, Finish, clusterVars, optionVars
  <2>7. CASE Listed
    BY <2>7 DEF Listed, StartListing, clusterVars, optionVars
  <2>8. CASE AllSignalled \/ AllGone
    BY <2>8 DEF AllSignalled, AllGone, StartListing, clusterVars, optionVars
  <2>9. CASE UninstallHelm
    <3>1. operator' \in BOOLEAN
      BY <2>9 DEF UninstallHelm
    <3>2. result' \in Results /\ pc' = "done"
      BY <2>9 DEF UninstallHelm
    <3> QED
      BY <2>9, <3>1, <3>2 DEF UninstallHelm, optionVars
  <2>10. CASE Cancel
    BY <2>10 DEF Cancel, clusterVars, optionVars
  <2>12. CASE Terminated \/ UNCHANGED vars
    BY <2>12 DEF Terminated, vars, clusterVars, optionVars
  <2>11. CASE Rerun
    <3>1. runs' \in 1..MaxRuns
      BY <2>11 DEF Rerun
    <3> QED
      BY <2>11, <3>1 DEF Rerun, clusterVars
  <2> QED
    BY <2>1, <2>2, <2>3, <2>4, <2>5, <2>6, <2>7, <2>8, <2>9, <2>10, <2>11,
       <2>12
       DEF Next, Controllers, Command, Failure
<1> QED
  BY <1>1, <1>2, PTL DEF Spec

\* The root policies and what controllers create are different kinds.
LEMMA SpawnedAreNotRoots ==
    ASSUME NEW r \in Spawned PROVE r \in Refs /\ r \notin Roots
BY RefsAssumption DEF Refs

\* Root policies are among the kinds the command lists and deletes.
LEMMA RootsAreRefs == Roots \subseteq Refs
BY RefsAssumption DEF Refs

\* The invariant behind OperatorOutlivesResources and SuccessMeansEmpty is
\* established by Init and preserved by every step.
THEOREM Inductive == Spec => []IInv
<1> USE DEF Present
<1>1. Init => RootsListed /\ WaitSound /\ RootsGone /\ Swept /\ Emptied
  BY RootsAreRefs
     DEF Init, RootsListed, WaitSound, RootsGone, Swept, Emptied
<1>2. TypeOK /\ TypeOK' /\ IInv /\ [Next]_vars => IInv'
  <2> SUFFICES ASSUME TypeOK, TypeOK', IInv, [Next]_vars
               PROVE  (RootsListed /\ WaitSound /\ RootsGone /\ Swept
                        /\ Emptied)'
    BY DEF IInv
  <2> USE RootsAreRefs DEF TypeOK, IInv, RootsListed, WaitSound, RootsGone,
                          Swept, Emptied
  <2>1. ASSUME NEW r \in Refs, Finalize(r)
        PROVE  (RootsListed /\ WaitSound /\ RootsGone /\ Swept /\ Emptied)'
    BY <2>1 DEF Finalize
  <2>2. ASSUME NEW r \in Spawned, Spawn(r)
        PROVE  (RootsListed /\ WaitSound /\ RootsGone /\ Swept /\ Emptied)'
    BY <2>2, SpawnedAreNotRoots DEF Spawn
  <2>3. ASSUME NEW r \in Refs, ListRef(r)
        PROVE  (RootsListed /\ WaitSound /\ RootsGone /\ Swept /\ Emptied)'
    BY <2>3 DEF ListRef, IsNext, clusterVars
  <2>4. ASSUME NEW r \in Refs, Signal(r)
        PROVE  (RootsListed /\ WaitSound /\ RootsGone /\ Swept /\ Emptied)'
    BY <2>4 DEF Signal, IsNext
  <2>5. ASSUME NEW r \in Refs, WaitRef(r)
        PROVE  (RootsListed /\ WaitSound /\ RootsGone /\ Swept /\ Emptied)'
    BY <2>5 DEF WaitRef, IsNext, clusterVars
  <2>6. CASE \/ ListFails \/ SignalFails \/ WaitFails
             \/ KeepHelm \/ NoRestConfig \/ Killed
    BY <2>6 DEF ListFails, SignalFails, WaitFails, KeepHelm, NoRestConfig,
                Killed, Finish, clusterVars
  <2>7. CASE Listed
    BY <2>7 DEF Listed, StartListing, clusterVars
  <2>8. CASE AllSignalled
    BY <2>8 DEF AllSignalled, clusterVars
  <2>9. CASE AllGone
    BY <2>9 DEF AllGone, StartListing, clusterVars
  <2>10. CASE UninstallHelm
    BY <2>10 DEF UninstallHelm
  <2>11. CASE Cancel \/ Terminated \/ UNCHANGED vars
    BY <2>11 DEF Cancel, Terminated, vars, clusterVars
  <2>12. CASE Rerun
    BY <2>12 DEF Rerun, clusterVars
  <2> QED
    BY <2>1, <2>2, <2>3, <2>4, <2>5, <2>6, <2>7, <2>8, <2>9, <2>10, <2>11,
       <2>12
       DEF Next, Controllers, Command, Failure
<1> QED
  BY <1>1, <1>2, TypeCorrect, PTL DEF Spec, IInv

\* Controllers outlive the custom resources they must finalize.
THEOREM OperatorLast == Spec => []OperatorOutlivesResources
<1>1. IInv => OperatorOutlivesResources
  BY DEF IInv, Emptied, OperatorOutlivesResources
<1> QED
  BY <1>1, Inductive, PTL

\* A successful cleanup leaves nothing, and nothing grows back.
THEOREM SuccessEmpty == Spec => []SuccessMeansEmpty
<1>1. IInv => SuccessMeansEmpty
  BY DEF IInv, Emptied, SuccessMeansEmpty
<1> QED
  BY <1>1, Inductive, PTL

\* The command implements what Teardown promises: every step of the command,
\* of a controller or of the user is a step of the promise or leaves it alone.
THEOREM Refinement == Spec => KeepsPromise
<1> USE DEF Present
<1> DEFINE There == {r \in Refs : Present(r)}
<1>1. Init => Promise!Init
  BY DEF Init, Promise!Init, Outcome
<1>2. IInv /\ [Next]_vars => [Promise!Next]_(Promise!vars)
  <2> SUFFICES ASSUME IInv, [Next]_vars
               PROVE  Promise!Next \/ UNCHANGED Promise!vars
    OBVIOUS
  <2> USE DEF IInv
  <2>1. ASSUME NEW r \in Refs, Finalize(r) PROVE Promise!Churn
    <3>1. operator /\ Outcome # "success"
      BY <2>1 DEF Finalize, Emptied, Outcome
    <3>2. UNCHANGED <<operator, Outcome>>
      BY <2>1 DEF Finalize, Outcome
    <3> QED
      BY <3>1, <3>2 DEF Promise!Churn
  <2>2. ASSUME NEW r \in Spawned, Spawn(r) PROVE Promise!Churn
    <3>1. operator /\ Outcome # "success"
      BY <2>2, RootsAreRefs DEF Spawn, Emptied, RootsGone, Outcome
    <3>2. UNCHANGED <<operator, Outcome>>
      BY <2>2 DEF Spawn, Outcome
    <3> QED
      BY <3>1, <3>2 DEF Promise!Churn
  <2>3. ASSUME NEW r \in Refs, ListRef(r) \/ WaitRef(r)
        PROVE  UNCHANGED Promise!vars
    BY <2>3 DEF ListRef, WaitRef, clusterVars, Outcome, Promise!vars
  <2>4. ASSUME NEW r \in Refs, Signal(r) PROVE UNCHANGED Promise!vars
    <3>1. \A q \in Refs : Present(q)' <=> Present(q)
      BY <2>4 DEF Signal, TypeOK
    <3>2. UNCHANGED <<operator, Outcome>>
      BY <2>4 DEF Signal, Outcome
    <3> QED
      BY <3>1, <3>2 DEF Promise!vars
  <2>5. CASE ListFails \/ SignalFails \/ WaitFails \/ NoRestConfig \/ Killed
    <3>1. /\ pc # "done" /\ pc' = "done" /\ result' # "success"
          /\ UNCHANGED <<objs, operator>>
      BY <2>5 DEF ListFails, SignalFails, WaitFails, NoRestConfig, Killed, Finish,
                  clusterVars
    <3>2. Outcome = "running" /\ Outcome' = "failed"
      BY <3>1 DEF Outcome
    <3>3. Promise!Fail
      BY <3>1, <3>2 DEF Promise!Fail
    <3> QED
      BY <3>3 DEF Promise!Next
  <2>6. CASE KeepHelm
    <3>1. Promise!KeepOperator
      BY <2>6 DEF KeepHelm, Finish, clusterVars, Outcome, Emptied,
                  Promise!KeepOperator
    <3> QED
      BY <3>1 DEF Promise!Next
  <2>7. CASE UninstallHelm
    <3>1. There = {} /\ There' = There /\ Outcome = "running"
      BY <2>7 DEF UninstallHelm, Emptied, Outcome
    <3>2. Outcome' \in {"success", "failed"}
      BY <2>7 DEF UninstallHelm, Outcome
    <3>3. CASE operator' = FALSE
      BY <3>1, <3>2, <3>3 DEF Promise!Uninstall, Promise!Next
    <3>4. CASE operator' = operator /\ result' # "success"
      <4>1. Outcome' = "failed"
        BY <2>7, <3>4 DEF UninstallHelm, Outcome
      <4> QED
        BY <3>1, <3>4, <4>1 DEF Promise!Fail, Promise!Next
    <3> QED
      BY <2>7, <3>3, <3>4 DEF UninstallHelm
  <2>8. CASE Listed \/ AllSignalled \/ AllGone
    BY <2>8 DEF Listed, AllSignalled, AllGone, StartListing, clusterVars,
                Outcome, Promise!vars
  <2>9. CASE Cancel \/ Terminated \/ UNCHANGED vars
    BY <2>9 DEF Cancel, Terminated, vars, clusterVars, Outcome, Promise!vars
  <2>10. CASE Rerun
    <3>1. Promise!Retry
      BY <2>10 DEF Rerun, clusterVars, Outcome, Promise!Retry
    <3> QED
      BY <3>1 DEF Promise!Next
  <2> QED
    BY <2>1, <2>2, <2>3, <2>4, <2>5, <2>6, <2>7, <2>8, <2>9, <2>10
       DEF Next, Controllers, Command, Failure, Promise!Next
<1> QED
  BY <1>1, <1>2, Inductive, PTL DEF Spec, KeepsPromise, Promise!Spec
=============================================================================

--------------------------- MODULE DiscoveryProofs ---------------------------
(***************************************************************************)
(* Theorems about Discovery: what l8k discover leaves in the cluster, that *)
(* the inventory it publishes is that of the cluster as it is, and that    *)
(* labels are only changed for a layout that works, for any set of nodes   *)
(* and hardware, any number of runs, kills and changes by others.          *)
(***************************************************************************)
EXTENDS Discovery, TLAPS

Cleaning == {"cleanNs", "cleanBinding", "cleanRole"}

\* The steps between the pre-clean and the return of DiscoverClusterConfig.
Working == Steps \ (Cleaning \cup {"waitGone", "done"})

\* The control of the command: what the teardown and the result depend on.
ControlInv ==
    /\ ns \in {"absent", "active", "terminating"} /\ pc \in Steps
    /\ opts \in Options
    /\ cancelled \in BOOLEAN /\ ensured \in BOOLEAN /\ final \in BOOLEAN
    /\ cleared \in BOOLEAN /\ cleanFailed \in BOOLEAN /\ interfered \in BOOLEAN
    /\ final => pc \in Cleaning \cup {"done"} /\ ~cancelled
    /\ pc # "done" /\ ~final => result = "none"
    /\ pc = "done" /\ result # "killed" /\ ensured /\ ~opts.keep => final

\* What the teardown has achieved, delete by delete.
TeardownInv ==
    final /\ ~cleanFailed =>
        /\ pc \in {"cleanBinding", "cleanRole", "done"} => ns # "active"
        /\ pc \in {"cleanRole", "done"} => "binding" \notin objects
        /\ pc = "done" => "role" \notin objects

-----------------------------------------------------------------------------
(* The command's control.                                                  *)

\* Every initial state is one of a run that has just started.
LEMMA ControlInit == Init => ControlInv /\ TeardownInv
BY RunsAssumption DEF Init, ControlInv, TeardownInv, Steps, Cleaning

\* A run that returns registers its teardown, in a fresh context.
LEMMA ControlExit ==
    ASSUME ControlInv, TeardownInv, NEW r \in Results \ {"none", "killed"},
           Finish(r), pc \in Working
    PROVE  ControlInv' /\ TeardownInv'
BY DEF ControlInv, TeardownInv, Finish, Exit, clusterVars, history, Working, Cleaning,
       Steps, Results, Options

\* The deletes of the pre-clean and of the teardown.
LEMMA ControlClean ==
    ASSUME ControlInv, TeardownInv,
           DeleteNamespace \/ DeleteRbac \/ DeleteFails
    PROVE  ControlInv' /\ TeardownInv'
<1> USE DEF ControlInv, TeardownInv, Goto, clusterVars, history, dataVars, Cleaning,
            Steps, Options, AfterCleanup
<1>1. CASE DeleteNamespace
  BY <1>1 DEF DeleteNamespace
<1>2. CASE DeleteRbac
  BY <1>2 DEF DeleteRbac
<1>3. CASE DeleteFails
  BY <1>3 DEF DeleteFails
<1> QED
  BY <1>1, <1>2, <1>3

\* The steps up to the pods that go on.
LEMMA ControlBootstrap ==
    ASSUME ControlInv, TeardownInv,
           WaitGone \/ WaitGoneTimesOut \/ EligibleNodes \/ Ensure
    PROVE  ControlInv' /\ TeardownInv'
<1> USE DEF Goto, clusterVars, history, dataVars
<1>1. CASE WaitGone \/ WaitGoneTimesOut
  <2>1. /\ pc = "waitGone" /\ pc' = "eligible" /\ cleared' \in {cleared, TRUE}
        /\ UNCHANGED <<ns, objects, opts, cancelled, ensured, final, result, cleanFailed, interfered>>
    BY <1>1 DEF WaitGone, WaitGoneTimesOut
  <2> QED
    BY <2>1 DEF ControlInv, TeardownInv, Steps, Cleaning
<1>2. CASE EligibleNodes
  <2>1. CASE Finish("failed")
    BY <1>2, <2>1, ControlExit DEF EligibleNodes, Working, Cleaning, Steps, Results
  <2>2. CASE ~Finish("failed")
    BY <1>2, <2>2 DEF EligibleNodes, ControlInv, TeardownInv, Steps, Cleaning
  <2> QED
    BY <2>1, <2>2
<1>3. CASE EnsureNamespace
  BY <1>3 DEF EnsureNamespace, ControlInv, TeardownInv, Steps, Cleaning
<1>4. ASSUME NEW o \in Objects, NEW step \in Working, EnsureObject(o, step)
      PROVE  ControlInv' /\ TeardownInv'
  BY <1>4 DEF EnsureObject, ControlInv, TeardownInv, Working, Steps, Cleaning, Objects,
              Namespaced, Rbac
<1> QED
  BY <1>1, <1>2, <1>3, <1>4 DEF Ensure, Objects, Namespaced, Rbac, Working, Steps, Cleaning

\* The steps from the pods to the end.
LEMMA ControlInventory ==
    ASSUME ControlInv, TeardownInv,
           \/ \E pods \in PodStates : PollPods(pods)
           \/ \E present \in SUBSET Nodes : ProbeNICs(present)
           \/ PollDevices \/ ListDevices
           \/ \E p \in Identities : Plan(p)
           \/ \E n \in Nodes : PatchNode(n)
           \/ PatchesDone \/ Verify \/ Evidence \/ PodsTimeOut
           \/ (pc = "devices" /\ Finish("failed")) \/ CallFails
    PROVE  ControlInv' /\ TeardownInv'
<1>1. /\ pc \in Working
      /\ \/ \E r \in Results \ {"none", "killed"} : Finish(r)
         \/ /\ pc' \in Working
            /\ UNCHANGED <<ns, objects, opts, cancelled, ensured, final, result, cleanFailed, cleared>>
            /\ interfered' \in {interfered, FALSE}
  <2> USE DEF Goto, clusterVars, history, dataVars, Working, Steps, Cleaning, Results
  <2>1. CASE (\E pods \in PodStates : PollPods(pods)) \/ PodsTimeOut
    BY <2>1 DEF PollPods, PodsTimeOut
  <2>2. CASE \E present \in SUBSET Nodes : ProbeNICs(present)
    BY <2>2 DEF ProbeNICs
  <2>3. CASE PollDevices \/ ListDevices
    BY <2>3 DEF PollDevices, ListDevices
  <2>4. CASE \E p \in Identities : Plan(p)
    <3>1. PICK p \in Identities : Plan(p)
      BY <2>4
    <3>2. CASE LayoutValid(p)
      BY <3>1, <3>2 DEF Plan
    <3>3. CASE ~LayoutValid(p)
      BY <3>1, <3>3 DEF Plan
    <3> QED
      BY <3>2, <3>3
  <2>5. CASE (\E n \in Nodes : PatchNode(n)) \/ PatchesDone
    BY <2>5 DEF PatchNode, PatchesDone
  <2>6. CASE Verify \/ Evidence
    BY <2>6 DEF Verify, Evidence
  <2>7. CASE (pc = "devices" /\ Finish("failed")) \/ CallFails
    BY <2>7 DEF CallFails, Fallible
  <2> QED
    BY <2>1, <2>2, <2>3, <2>4, <2>5, <2>6, <2>7
<1>2. CASE \E r \in Results \ {"none", "killed"} : Finish(r)
  BY <1>1, <1>2, ControlExit
<1>3. CASE /\ pc' \in Working
           /\ UNCHANGED <<ns, objects, opts, cancelled, ensured, final, result, cleanFailed, cleared>>
           /\ interfered' \in {interfered, FALSE}
  BY <1>1, <1>3 DEF ControlInv, TeardownInv, Working, Steps, Cleaning
<1> QED
  BY <1>1, <1>2, <1>3

\* The process is killed, or run again.
LEMMA ControlRestart ==
    ASSUME ControlInv, TeardownInv, Killed \/ Rerun
    PROVE  ControlInv' /\ TeardownInv'
<1>1. CASE Killed
  BY <1>1 DEF Killed, ControlInv, TeardownInv, Steps, clusterVars
<1>2. CASE Rerun
  BY <1>2, RunsAssumption DEF Rerun, ControlInv, TeardownInv, Steps, Cleaning
<1> QED
  BY <1>1, <1>2

\* What the rest of the cluster does.
LEMMA ControlOthers ==
    ASSUME ControlInv, TeardownInv, Others \/ UNCHANGED vars
    PROVE  ControlInv' /\ TeardownInv'
<1>1. /\ UNCHANGED <<pc, opts, ensured, final, result, cleared, cleanFailed>>
      /\ ns' \in {ns, "absent"} /\ objects' \subseteq objects /\ interfered' \in BOOLEAN
      /\ cancelled' \in BOOLEAN
      /\ cancelled' = cancelled \/ pc \in {"pods", "probe", "devices"}
  <2> USE DEF Otherwise, Drained, clusterVars, dataVars, history, ControlInv
  <2>1. CASE Cancel
    BY <2>1 DEF Cancel
  <2>2. CASE NamespaceDrains \/ NamespaceGoes
    BY <2>2 DEF NamespaceDrains, NamespaceGoes
  <2>3. CASE \E n \in Nodes : DevicePublished(n)
    BY <2>3 DEF DevicePublished
  <2>4. CASE \E n \in Nodes, condition \in Conditions : NodeChanges(n, condition)
    BY <2>4 DEF NodeChanges, Churns
  <2>5. CASE \E n \in Nodes, l \in Touched : LabelsChange(n, l)
    BY <2>5 DEF LabelsChange, Churns
  <2>6. CASE UNCHANGED vars
    BY <2>6 DEF vars
  <2> QED
    BY <2>1, <2>2, <2>3, <2>4, <2>5, <2>6 DEF Others
<1> QED
  BY <1>1 DEF ControlInv, TeardownInv, Cleaning

\* The control of the command in every state.
LEMMA ControlInvariant == Spec => [](ControlInv /\ TeardownInv)
<1>1. ControlInv /\ TeardownInv /\ [Next]_vars => (ControlInv /\ TeardownInv)'
  BY ControlClean, ControlBootstrap, ControlInventory, ControlRestart, ControlOthers
  DEF Next, Command, TimesOut
<1> QED
  BY <1>1, ControlInit, PTL DEF Spec

\* However a run ends after its bootstrap, short of being killed, the daemon's
\* namespace and permissions go unless kept on request or a delete fails.
THEOREM DiscoveryTearsDown == Spec => []TornDown
<1>1. ControlInv /\ TeardownInv => TornDown
  BY DEF ControlInv, TeardownInv, TornDown, Remains, Rbac
<1> QED
  BY <1>1, ControlInvariant, PTL

-----------------------------------------------------------------------------
(* The inventory is current.                                               *)

Inventoried == {"plan", "patch", "verify", "evidence"}
Selecting   == {"crds", "namespace", "account", "role", "binding", "daemonset",
                "pods", "probe", "devices", "list"} \cup Inventoried

\* The types that reading and publishing NicDevices depend on.
DeviceTypes ==
    /\ hw \in [Nodes -> Installed]
    /\ device \in [Nodes -> SUBSET NICs]
    /\ found \in [Nodes -> SUBSET NICs]
    /\ selected \subseteq Nodes /\ target \subseteq Nodes

\* Once the namespace was seen gone nothing older than this run's daemon is
\* published in it, and it is not deleted before the inventory is read.
FreshDevices ==
    /\ ns = "absent" => \A n \in Nodes \ Foreign : device[n] = {}
    /\ cleared => \A n \in Nodes \ Foreign : device[n] \subseteq hw[n]
    /\ pc \in Cleaning \cup {"waitGone"} /\ ~final => ~cleared
    /\ cleared /\ pc \in Working => ns # "terminating"
    /\ cleared /\ pc = "list" => \A n \in selected \ Foreign : device[n] # {}

\* Only requested nodes are selected, targeted and inventoried.
Scoped ==
    /\ pc \in Selecting => \A n \in selected : Requested(n)
    /\ pc = "pods" => \A n \in target : Requested(n)
    /\ pc \in Inventoried => \A n \in Nodes : found[n] # {} => Requested(n)

\* What was read is what the cluster has.
ReadIsCurrent ==
    pc \in Inventoried /\ cleared =>
        /\ \A n \in Nodes \ Foreign : found[n] \subseteq hw[n]
        /\ \A n \in selected \ Foreign : found[n] # {}

FreshInv == DeviceTypes /\ FreshDevices /\ Scoped /\ ReadIsCurrent

\* A first run starts with no NicDevices but another operator's.
LEMMA FreshInit == Init => FreshInv
<1> SUFFICES ASSUME Init PROVE FreshInv
  OBVIOUS
<1>1. hw \in [Nodes -> Installed]
  BY LayoutsAssumption DEF Init
<1>2. device \in [Nodes -> SUBSET NICs]
  <2>1. \A n \in Nodes : hw[n] \in SUBSET NICs
    BY <1>1 DEF Installed, NICs
  <2> QED
    BY <2>1 DEF Init
<1>3. \A n \in Nodes \ Foreign : device[n] = {}
  BY DEF Init
<1> QED
  BY <1>1, <1>2, <1>3 DEF Init, FreshInv, DeviceTypes, FreshDevices, Scoped, ReadIsCurrent,
                          NoDevices, Working, Steps, Cleaning, Selecting, Inventoried

\* The run returns or is killed: nothing of the inventory is left.
LEMMA FreshExit ==
    ASSUME FreshInv, Forget, UNCHANGED <<ns, target, device, hw>>,
           pc' \in {"cleanNs", "done"}, pc' = "cleanNs" => final', cleared' => cleared
    PROVE  FreshInv'
<1>1. DeviceTypes'
  BY DEF FreshInv, DeviceTypes, Forget, NoDevices
<1>2. FreshDevices'
  BY DEF FreshInv, FreshDevices, Working, Steps, Cleaning
<1>3. Scoped' /\ ReadIsCurrent'
  BY DEF Scoped, ReadIsCurrent, Selecting, Inventoried
<1> QED
  BY <1>1, <1>2, <1>3 DEF FreshInv

\* A run that returns with an error, a refusal or a success.
LEMMA FreshFinish ==
    ASSUME FreshInv, NEW r, Finish(r)
    PROVE  FreshInv'
<1>1. Forget /\ UNCHANGED <<ns, target, device, hw>> /\ (cleared' => cleared)
  BY DEF Finish, Exit, clusterVars, history
<1>2. pc' \in {"cleanNs", "done"} /\ (pc' = "cleanNs" => final')
  BY DEF Finish, Exit
<1> QED
  BY <1>1, <1>2, FreshExit

\* The deletes.  A terminating namespace is none the teardown waits for.
LEMMA FreshClean ==
    ASSUME FreshInv, ControlInv, DeleteNamespace \/ DeleteRbac \/ DeleteFails
    PROVE  FreshInv'
<1>1. /\ ns' = ns \/ (ns = "active" /\ ns' = "terminating")
      /\ UNCHANGED <<hw, device, found, selected, target, opts, cleared, final>>
      /\ pc \in Cleaning /\ pc' \notin Working
  BY DEF DeleteNamespace, DeleteRbac, DeleteFails, Goto, AfterCleanup, clusterVars,
         dataVars, history, Working, Steps, Cleaning
<1>2. pc' \notin Selecting /\ pc' # "pods" /\ pc' # "list" /\ pc' \notin Inventoried
  BY <1>1 DEF Working, Steps, Cleaning, Selecting, Inventoried
<1> QED
  BY <1>1, <1>2 DEF FreshInv, DeviceTypes, FreshDevices, Scoped, ReadIsCurrent

\* The namespace seen gone, the nodes looked up, the daemon bootstrapped.
LEMMA FreshBootstrap ==
    ASSUME FreshInv, ControlInv,
           WaitGone \/ WaitGoneTimesOut \/ EligibleNodes \/ Ensure
    PROVE  FreshInv'
<1> USE DEF FreshInv, Working, Steps, Cleaning, Selecting, Inventoried
<1>1. CASE WaitGone
  <2>1. /\ pc' = "eligible" /\ ns = "absent"
        /\ UNCHANGED <<ns, hw, device, found, selected, target, opts, final>>
    BY <1>1 DEF WaitGone, Goto, clusterVars, dataVars
  <2> QED
    BY <2>1 DEF DeviceTypes, FreshDevices, Scoped, ReadIsCurrent
<1>2. CASE WaitGoneTimesOut
  <2>1. /\ pc = "waitGone" /\ pc' = "eligible"
        /\ UNCHANGED <<ns, hw, device, found, selected, target, opts, cleared, final>>
    BY <1>2 DEF WaitGoneTimesOut, Goto, clusterVars, dataVars, history
  <2>2. ~cleared
    BY <2>1 DEF FreshDevices, ControlInv
  <2> QED
    BY <2>1, <2>2 DEF DeviceTypes, FreshDevices, Scoped, ReadIsCurrent
<1>3. CASE EligibleNodes
  <2>1. CASE Finish("failed")
    BY <2>1, FreshFinish
  <2>2. CASE ~Finish("failed")
    <3>1. /\ pc = "eligible" /\ pc' = "crds"
          /\ UNCHANGED <<ns, hw, device, found, target, opts, cleared, final>>
          /\ selected' = IF opts.workers = {} THEN Eligible ELSE opts.workers
          /\ opts.workers \subseteq Eligible
      BY <1>3, <2>2 DEF EligibleNodes, Goto, clusterVars, history
    <3>2. selected' \subseteq Nodes /\ \A n \in selected' : Requested(n)
      BY <3>1 DEF Eligible, Requested
    <3> QED
      BY <3>1, <3>2 DEF DeviceTypes, FreshDevices, Scoped, ReadIsCurrent, Requested
  <2> QED
    BY <2>1, <2>2
<1>4. CASE EnsureNamespace
  <2>1. /\ pc = "namespace" /\ pc' = "account" /\ ns' = IF ns = "absent" THEN "active" ELSE ns
        /\ UNCHANGED <<hw, device, found, selected, target, opts, cleared, final>>
    BY <1>4 DEF EnsureNamespace, Goto, dataVars, history
  <2> QED
    BY <2>1 DEF DeviceTypes, FreshDevices, Scoped, ReadIsCurrent, Requested
<1>5. ASSUME NEW o \in Objects, NEW step \in Selecting \ Inventoried, EnsureObject(o, step),
             o \in Selecting, step = "pods" <=> o = "daemonset", step # "list"
      PROVE  FreshInv'
  <2>1. /\ pc = o /\ pc' = step
        /\ UNCHANGED <<ns, hw, device, found, opts, cleared, final>>
        /\ \/ o = "daemonset" /\ target' = selected /\ selected' = {}
           \/ o # "daemonset" /\ UNCHANGED <<target, selected>>
    BY <1>5 DEF EnsureObject, history
  <2> QED
    BY <1>5, <2>1 DEF DeviceTypes, FreshDevices, Scoped, ReadIsCurrent, Requested
<1> QED
  BY <1>1, <1>2, <1>3, <1>4, <1>5 DEF Ensure, Objects, Namespaced, Rbac

\* Pods, NICs and NicDevices waited for and read.
LEMMA FreshRead ==
    ASSUME FreshInv, ControlInv,
           \/ \E pods \in PodStates : PollPods(pods)
           \/ PodsTimeOut
           \/ \E present \in SUBSET Nodes : ProbeNICs(present)
           \/ PollDevices \/ ListDevices
    PROVE  FreshInv'
<1> USE DEF FreshInv, Working, Steps, Cleaning, Selecting, Inventoried
<1>1. CASE \E pods \in PodStates : PollPods(pods)
  <2>1. PICK pods \in PodStates : PollPods(pods)
    BY <1>1
  <2>2. /\ pc = "pods" /\ pc' \in {"pods", "probe"}
        /\ UNCHANGED <<ns, hw, device, found, target, opts, cleared, final>>
        /\ selected' = {n \in Nodes : pods[n] = "ready"}
    BY <2>1 DEF PollPods, Goto, clusterVars, history
  <2>3. selected' \subseteq target
    BY <2>2 DEF PodStates
  <2> QED
    BY <2>2, <2>3 DEF DeviceTypes, FreshDevices, Scoped, ReadIsCurrent, Requested
<1>2. ASSUME pc \in {"pods", "probe"}, pc' \in {"probe", "devices"}, selected' \subseteq selected,
             UNCHANGED <<ns, hw, device, found, target, opts, cleared, final>>
      PROVE  FreshInv'
  BY <1>2 DEF DeviceTypes, FreshDevices, Scoped, ReadIsCurrent, Requested
<1>3. CASE PodsTimeOut
  <2>1. CASE Finish("failed")
    BY <2>1, FreshFinish
  <2>2. CASE ~Finish("failed")
    BY <1>2, <1>3, <2>2 DEF PodsTimeOut, Goto, clusterVars, dataVars, history
  <2> QED
    BY <2>1, <2>2
<1>4. CASE \E present \in SUBSET Nodes : ProbeNICs(present)
  <2>1. CASE Finish("failed")
    BY <2>1, FreshFinish
  <2>2. CASE ~Finish("failed")
    BY <1>2, <1>4, <2>2 DEF ProbeNICs, Goto, clusterVars, history
  <2> QED
    BY <2>1, <2>2
<1>5. CASE PollDevices
  <2>1. /\ pc = "devices" /\ pc' = "list" /\ \A n \in selected : device[n] # {}
        /\ UNCHANGED <<ns, hw, device, found, selected, target, opts, cleared, final>>
    BY <1>5 DEF PollDevices, Goto, clusterVars, dataVars, history
  <2> QED
    BY <2>1 DEF DeviceTypes, FreshDevices, Scoped, ReadIsCurrent, Requested
<1>6. CASE ListDevices
  <2>1. /\ pc = "list" /\ pc' = "plan"
        /\ found' = [n \in Nodes |-> IF Requested(n) THEN device[n] ELSE {}]
        /\ UNCHANGED <<ns, hw, device, selected, target, opts, cleared, final>>
    BY <1>6 DEF ListDevices, Goto, clusterVars, history
  <2>2. \A n \in Nodes : Requested(n)' <=> Requested(n)
    BY <2>1 DEF Requested
  <2>3. DeviceTypes'
    BY <2>1 DEF DeviceTypes
  <2>4. FreshDevices'
    BY <2>1 DEF FreshDevices
  <2>5. \A n \in Nodes : found'[n] = (IF Requested(n) THEN device[n] ELSE {})
    BY <2>1
  <2>6. \A n \in selected : n \in Nodes /\ Requested(n)
    BY <2>1 DEF Scoped, DeviceTypes
  <2>7. Scoped'
    BY <2>1, <2>2, <2>5, <2>6 DEF Scoped
  <2>8. ReadIsCurrent'
    BY <2>1, <2>5, <2>6 DEF ReadIsCurrent, FreshDevices
  <2> QED
    BY <2>3, <2>4, <2>7, <2>8
<1> QED
  BY <1>1, <1>3, <1>4, <1>5, <1>6

\* The plan, the patches and the verification leave the inventory alone.
LEMMA FreshPlan ==
    ASSUME FreshInv, ControlInv,
           \/ \E p \in Identities : Plan(p)
           \/ \E n \in Nodes : PatchNode(n)
           \/ PatchesDone \/ Verify \/ Evidence
           \/ (pc = "devices" /\ Finish("failed")) \/ CallFails
    PROVE  FreshInv'
<1>1. ASSUME pc \in Inventoried, pc' \in Inventoried,
             UNCHANGED <<ns, hw, device, found, selected, target, opts, cleared, final>>
      PROVE  FreshInv'
  BY <1>1 DEF FreshInv, DeviceTypes, FreshDevices, Scoped, ReadIsCurrent, Requested, Working,
              Steps, Cleaning, Selecting, Inventoried
<1>2. ASSUME \E r \in Results : Finish(r) PROVE FreshInv'
  BY <1>2, FreshFinish
<1> USE DEF Goto, clusterVars, dataVars, history, Inventoried, Results
<1>3. CASE \E p \in Identities : Plan(p)
  <2>1. PICK p \in Identities : Plan(p)
    BY <1>3
  <2>2. CASE LayoutValid(p)
    BY <1>1, <2>1, <2>2 DEF Plan
  <2>3. CASE ~LayoutValid(p)
    BY <1>2, <2>1, <2>3 DEF Plan
  <2> QED
    BY <2>2, <2>3
<1>4. CASE (\E n \in Nodes : PatchNode(n)) \/ PatchesDone
  BY <1>1, <1>4 DEF PatchNode, PatchesDone
<1>5. CASE Verify
  <2>1. CASE Exact
    BY <1>1, <1>5, <2>1 DEF Verify
  <2>2. CASE ~Exact
    BY <1>2, <1>5, <2>2 DEF Verify
  <2> QED
    BY <2>1, <2>2
<1>6. CASE Evidence \/ (pc = "devices" /\ Finish("failed")) \/ CallFails
  BY <1>2, <1>6 DEF Evidence, CallFails
<1> QED
  BY <1>3, <1>4, <1>5, <1>6

\* The process is killed, or run again on hardware that may have changed.
LEMMA FreshRestart ==
    ASSUME FreshInv, ControlInv, Killed \/ Rerun
    PROVE  FreshInv'
<1>1. CASE Killed
  <2>1. Forget /\ UNCHANGED <<ns, target, device, hw>> /\ pc' = "done"
        /\ (cleared' => cleared)
    BY <1>1 DEF Killed, clusterVars
  <2> QED
    BY <2>1, FreshExit
<1>2. CASE Rerun
  <2>1. /\ pc' = "cleanNs" /\ ~cleared' /\ UNCHANGED <<ns, device, found, selected, target>>
    BY <1>2 DEF Rerun, dataVars
  <2>2. hw' \in [Nodes -> Installed]
    BY <1>2 DEF Rerun, FreshInv, DeviceTypes
  <2> QED
    BY <2>1, <2>2 DEF FreshInv, DeviceTypes, FreshDevices, Scoped, ReadIsCurrent, Working,
                      Steps, Cleaning, Selecting, Inventoried
<1> QED
  BY <1>1, <1>2

\* The cluster: a namespace that goes takes its NicDevices along, and a daemon
\* publishes what its node has.
LEMMA FreshOthers ==
    ASSUME FreshInv, ControlInv, Others \/ UNCHANGED vars
    PROVE  FreshInv'
<1>1. ASSUME UNCHANGED <<ns, device, hw, found, selected, target, opts, cleared, final, pc>>
      PROVE  FreshInv'
  BY <1>1 DEF FreshInv, DeviceTypes, FreshDevices, Scoped, ReadIsCurrent, Requested
<1> USE DEF Otherwise, clusterVars, dataVars, history
<1>2. CASE Cancel \/ UNCHANGED vars
  BY <1>1, <1>2 DEF Cancel, vars
<1>3. CASE \E n \in Nodes, condition \in Conditions : NodeChanges(n, condition)
  BY <1>1, <1>3 DEF NodeChanges
<1>4. CASE \E n \in Nodes, l \in Touched : LabelsChange(n, l)
  BY <1>1, <1>4 DEF LabelsChange
<1>5. CASE NamespaceDrains \/ NamespaceGoes
  <2>1. /\ ns = "terminating" /\ ns' \in {"absent", "terminating"} /\ target' = {}
        /\ device' = [n \in Nodes |-> IF n \in Foreign THEN device[n] ELSE {}]
        /\ UNCHANGED <<hw, found, selected, opts, cleared, final, pc>>
    BY <1>5 DEF NamespaceDrains, NamespaceGoes, Drained
  <2>2. ~(cleared /\ pc = "list")
    BY <2>1 DEF FreshInv, FreshDevices, Working, Steps, Cleaning
  <2>3. DeviceTypes'
    BY <2>1 DEF FreshInv, DeviceTypes
  <2>4. FreshDevices'
    BY <2>1, <2>2 DEF FreshInv, FreshDevices, Working, Steps, Cleaning
  <2>5. Scoped' /\ ReadIsCurrent'
    BY <2>1 DEF FreshInv, Scoped, ReadIsCurrent, Requested
  <2> QED
    BY <2>3, <2>4, <2>5 DEF FreshInv
<1>6. CASE \E n \in Nodes : DevicePublished(n)
  <2>1. PICK n \in Nodes : DevicePublished(n)
    BY <1>6
  <2>2. /\ n \in Foreign \/ ns = "active"
        /\ UNCHANGED <<ns, target, hw, found, selected, opts, cleared, final, pc>>
    BY <2>1 DEF DevicePublished
  <2>3. PICK d \in SUBSET NICs :
          /\ device' = [device EXCEPT ![n] = d]
          /\ d \subseteq device[n] \cup hw[n]
          /\ device[n] \subseteq hw[n] => d # {}
    <3>1. hw[n] \subseteq NICs /\ device[n] \subseteq NICs
      BY DEF FreshInv, DeviceTypes, Installed, NICs
    <3>2. CASE \E c \in hw[n] \ device[n] : device' = [device EXCEPT ![n] = @ \cup {c}]
      <4>1. PICK c \in hw[n] \ device[n] : device' = [device EXCEPT ![n] = @ \cup {c}]
        BY <3>2
      <4>2. device' = [device EXCEPT ![n] = device[n] \cup {c}]
        BY <4>1 DEF FreshInv, DeviceTypes
      <4> QED
        BY <3>1, <4>1, <4>2
    <3>3. CASE \E c \in device[n] \ hw[n] : device' = [device EXCEPT ![n] = @ \ {c}]
      <4>1. PICK c \in device[n] \ hw[n] : device' = [device EXCEPT ![n] = @ \ {c}]
        BY <3>3
      <4>2. device' = [device EXCEPT ![n] = device[n] \ {c}]
        BY <4>1 DEF FreshInv, DeviceTypes
      <4> QED
        BY <3>1, <4>1, <4>2
    <3> QED
      BY <2>1, <3>2, <3>3 DEF DevicePublished
  <2>4. \A m \in Nodes : device'[m] = IF m = n THEN d ELSE device[m]
    BY <2>3 DEF FreshInv, DeviceTypes
  <2>5. DeviceTypes'
    BY <2>2, <2>3 DEF FreshInv, DeviceTypes
  <2>6. FreshDevices'
    BY <2>2, <2>3, <2>4 DEF FreshInv, FreshDevices, DeviceTypes
  <2>7. Scoped' /\ ReadIsCurrent'
    BY <2>2 DEF FreshInv, Scoped, ReadIsCurrent, Requested
  <2> QED
    BY <2>5, <2>6, <2>7 DEF FreshInv
<1> QED
  BY <1>2, <1>3, <1>4, <1>5, <1>6 DEF Others

\* When the pre-clean saw the old namespace gone, the inventory whose selectors
\* are published holds no NIC its node does not have, every node waited for,
\* and none that was not requested, though NicDevices come and go one by one.
THEOREM InventoryCurrent == Spec => []InventoryIsCurrent
<1>1. ControlInv /\ FreshInv /\ [Next]_vars => FreshInv'
  BY FreshClean, FreshBootstrap, FreshRead, FreshPlan, FreshRestart, FreshOthers
  DEF Next, Command, TimesOut
<1>2. FreshInv => InventoryIsCurrent
  BY DEF FreshInv, Scoped, ReadIsCurrent, InventoryIsCurrent, Inventoried
<1> QED
  BY <1>1, <1>2, FreshInit, ControlInvariant, PTL DEF Spec

-----------------------------------------------------------------------------
(* The plan predicts the outcome.                                          *)

\* The labels the nodes will have once the remaining patches are made.
Outcome == [n \in Nodes |-> IF n \in todo THEN Patched(labels[n], Patch(ident[found[n]]))
                            ELSE labels[n]]

\* The membership that was validated holds of the labels to come, as long as
\* nobody else changes nodes or labels.
PlanInv ==
    /\ labels = [n \in Nodes |-> labels[n]]
    /\ pc = "verify" => todo = {}
    /\ pc \in {"patch", "verify"} /\ ~interfered =>
         /\ \A h \in Groups : Selects(selectors[h], Outcome) = Workers(h)
         /\ GpuExact(ident, Outcome)
    /\ PlanPredictsOutcome

\* An empty patch changes nothing.
LEMMA EmptyPatch == ASSUME NEW have PROVE Patched(have, {}) = have
BY DEF Patched

\* Groups and workers are read off the inventory.
LEMMA SameInventory ==
    ASSUME found' = found
    PROVE  /\ Groups' = Groups /\ Inventory' = Inventory
           /\ \A h : Workers(h)' = Workers(h)
BY DEF Groups, Inventory, Workers

\* Whom a label selects depends on the nodes and the labels only.
LEMMA SameGpus ==
    ASSUME found' = found, node' = node, NEW p, NEW lk, GpuExact(p, lk),
           ident' = p, Outcome' = lk
    PROVE  GpuExact(ident, Outcome)'
<1>1. Groups' = Groups /\ Inventory' = Inventory /\ Live' = Live
  BY SameInventory DEF Live
<1>2. ASSUME NEW h \in Groups, p[h].gpu # ""
      PROVE  {n \in Live' : GpuLabel(p[h]) \subseteq lk[n] \cup Static[n] \cup {<<"host", <<n>>>>}}
               = {n \in Inventory' : p[found'[n]].gpu = p[h].gpu}
  <2>1. Selects(GpuLabel(p[h]), lk) = {n \in Inventory : p[found[n]].gpu = p[h].gpu}
    BY <1>2 DEF GpuExact
  <2>2. Selects(GpuLabel(p[h]), lk)
          = {n \in Live : GpuLabel(p[h]) \subseteq lk[n] \cup Static[n] \cup {<<"host", <<n>>>>}}
    BY DEF Selects
  <2>3. {n \in Inventory' : p[found'[n]].gpu = p[h].gpu}
          = {n \in Inventory : p[found[n]].gpu = p[h].gpu}
    BY <1>1
  <2> QED
    BY <1>1, <2>1, <2>2, <2>3
<1>3. ASSUME NEW h \in Groups', ident'[h].gpu # ""
      PROVE  Selects(GpuLabel(ident[h]), Outcome)'
               = {n \in Inventory' : ident'[found'[n]].gpu = ident'[h].gpu}
  <2>1. h \in Groups /\ p[h].gpu # ""
    BY <1>1, <1>3
  <2>2. Selects(GpuLabel(ident[h]), Outcome)'
          = {n \in Live' : GpuLabel(p[h]) \subseteq lk[n] \cup Static[n] \cup {<<"host", <<n>>>>}}
    BY DEF Selects, GpuLabel
  <2>3. {n \in Inventory' : ident'[found'[n]].gpu = ident'[h].gpu}
          = {n \in Inventory' : p[found'[n]].gpu = p[h].gpu}
    OBVIOUS
  <2> QED
    BY <1>2, <2>1, <2>2, <2>3
<1> QED
  BY <1>3 DEF GpuExact

\* Membership depends on the nodes, the inventory and the labels only.
LEMMA SameMembership ==
    ASSUME PlanInv, found' = found, node' = node, ident' = ident, selectors' = selectors,
           Outcome' = Outcome, pc \in {"patch", "verify"}, pc' \in {"patch", "verify"},
           interfered' <=> interfered, labels' = [n \in Nodes |-> labels'[n]],
           pc' = "verify" => todo' = {}, result' = "none"
    PROVE  PlanInv'
<1>1. ASSUME ~interfered'
      PROVE  /\ (\A h \in Groups : Selects(selectors[h], Outcome) = Workers(h))'
             /\ GpuExact(ident, Outcome)'
  <2>1. /\ \A h \in Groups : Selects(selectors[h], Outcome) = Workers(h)
        /\ GpuExact(ident, Outcome)
    BY <1>1 DEF PlanInv
  <2>2. Live' = Live
    BY DEF Live
  <2>3. (\A h \in Groups : Selects(selectors[h], Outcome) = Workers(h))'
    BY <2>1, <2>2, SameInventory DEF Selects
  <2>4. GpuExact(ident, Outcome)'
    BY <2>1, SameGpus
  <2> QED
    BY <2>3, <2>4
<1> QED
  BY <1>1 DEF PlanInv, PlanPredictsOutcome

\* The plan promises what it validated.
LEMMA PlanPromises ==
    ASSUME ControlInv, PlanInv, NEW p \in Identities, Plan(p), LayoutValid(p)
    PROVE  PlanInv'
<1>1. /\ pc = "plan" /\ pc' = "patch" /\ ident' = p
      /\ todo' = {n \in Inventory : Patch(p[found[n]]) # {}}
      /\ \A h \in Groups : selectors'[h] \in SelectorsOf(h, p)
      /\ UNCHANGED <<labels, node, found, result>>
  BY DEF Plan, Goto, clusterVars
<1>2. Outcome' = Proposed(p)
  <2>1. \A n \in Nodes : Patch(p[found[n]]) = {} => Patched(labels[n], Patch(p[found[n]])) = labels[n]
    BY EmptyPatch
  <2>2. \A n \in Nodes : (IF n \in todo' THEN Patched(labels[n], Patch(p[found[n]])) ELSE labels[n])
                           = (IF n \in Inventory THEN Patched(labels[n], Patch(p[found[n]]))
                              ELSE labels[n])
    BY <1>1, <2>1
  <2>3. Outcome' = [n \in Nodes |-> IF n \in todo' THEN Patched(labels[n], Patch(p[found[n]]))
                                    ELSE labels[n]]
    BY <1>1 DEF Outcome, Patched
  <2> QED
    BY <2>2, <2>3 DEF Proposed
<1>3. Live' = Live
  BY <1>1 DEF Live
<1>4. \A h \in Groups : Selects(selectors'[h], Proposed(p)) = Workers(h)
  BY <1>1 DEF SelectorsOf
<1>5. GpuExact(p, Proposed(p))
  BY DEF LayoutValid
<1>6. /\ (\A h \in Groups : Selects(selectors[h], Outcome) = Workers(h))'
      /\ GpuExact(ident, Outcome)'
  <2> HIDE DEF Outcome, Proposed
  <2>1. (\A h \in Groups : Selects(selectors[h], Outcome) = Workers(h))'
    BY <1>1, <1>2, <1>3, <1>4, SameInventory DEF Selects
  <2>2. GpuExact(ident, Outcome)'
    BY <1>1, <1>2, <1>5, SameGpus
  <2> QED
    BY <2>1, <2>2
<1>7. result' = "none"
  BY <1>1 DEF ControlInv, Cleaning
<1> QED
  BY <1>1, <1>6, <1>7 DEF PlanInv, PlanPredictsOutcome

\* A patch does what was planned.
LEMMA PatchAsPlanned ==
    ASSUME ControlInv, PlanInv, NEW n \in Nodes, PatchNode(n)
    PROVE  PlanInv'
<1>1. /\ pc = "patch" /\ pc' = "patch" /\ n \in todo /\ todo' = todo \ {n}
      /\ labels' = [labels EXCEPT ![n] = Patched(labels[n], Patch(ident[found[n]]))]
      /\ UNCHANGED <<node, found, ident, selectors, result, interfered>>
  BY DEF PatchNode, Goto, history
<1>2. labels = [m \in Nodes |-> labels[m]]
  BY DEF PlanInv
<1>3. \A m \in Nodes : labels'[m] = IF m = n THEN Patched(labels[n], Patch(ident[found[n]]))
                                     ELSE labels[m]
  BY <1>1, <1>2
<1>4. labels' = [m \in Nodes |-> labels'[m]]
  BY <1>1, <1>2
<1>5. Outcome' = Outcome
  <2>1. Outcome' = [m \in Nodes |-> IF m \in todo' THEN Patched(labels'[m], Patch(ident[found[m]]))
                                    ELSE labels'[m]]
    BY <1>1 DEF Outcome, Patched
  <2>2. \A m \in Nodes : (IF m \in todo' THEN Patched(labels'[m], Patch(ident[found[m]])) ELSE labels'[m])
                          = (IF m \in todo THEN Patched(labels[m], Patch(ident[found[m]])) ELSE labels[m])
    BY <1>1, <1>3
  <2> QED
    BY <2>1, <2>2 DEF Outcome
<1>6. result' = "none"
  BY <1>1 DEF ControlInv, Cleaning
<1> QED
  BY <1>1, <1>4, <1>5, <1>6, SameMembership

\* The verification finds what the plan promised.
LEMMA VerifiesAsPlanned ==
    ASSUME ControlInv, PlanInv, Verify
    PROVE  PlanInv'
<1>1. pc = "verify" /\ todo = {} /\ labels' = labels /\ interfered' = interfered
  BY DEF Verify, PlanInv, Goto, Finish, clusterVars, history
<1>2. Outcome = labels
  BY <1>1 DEF Outcome, PlanInv
<1>3. ~interfered => Exact
  BY <1>1, <1>2 DEF Exact, PlanInv
<1>4. CASE Exact
  <2>1. pc' = "evidence" /\ result' = "none"
    BY <1>1, <1>4 DEF Verify, Goto, ControlInv, Cleaning
  <2> QED
    BY <1>1, <2>1 DEF PlanInv, PlanPredictsOutcome
<1>5. CASE ~Exact
  <2>1. pc' \in {"cleanNs", "done"}
    BY <1>5 DEF Verify, Finish, Exit
  <2> QED
    BY <1>1, <1>3, <1>5, <2>1 DEF PlanInv, PlanPredictsOutcome
<1> QED
  BY <1>4, <1>5

\* The other steps do not patch, plan or verify.
LEMMA PlanOtherCommand ==
    ASSUME ControlInv, PlanInv,
           labels' = labels, interfered' = interfered,
           pc' \notin {"patch", "verify"},
           result' \in {result, "none", "failed", "layout", "success"}
    PROVE  PlanInv'
BY DEF PlanInv, PlanPredictsOutcome

\* The command goes on.
LEMMA PlanCommand ==
    ASSUME ControlInv, PlanInv, Command
    PROVE  PlanInv'
<1>1. ASSUME NEW r \in {"failed", "layout", "success"}, Finish(r) PROVE PlanInv'
  BY <1>1, PlanOtherCommand DEF Finish, Exit, clusterVars, history
<1> USE DEF Goto, clusterVars, dataVars, history
<1>2. CASE DeleteNamespace \/ DeleteRbac \/ DeleteFails
  BY <1>2, PlanOtherCommand DEF DeleteNamespace, DeleteRbac, DeleteFails, AfterCleanup
<1>3. CASE WaitGone \/ WaitGoneTimesOut
  BY <1>3, PlanOtherCommand DEF WaitGone, WaitGoneTimesOut
<1>4. CASE EligibleNodes
  BY <1>1, <1>4, PlanOtherCommand DEF EligibleNodes
<1>5. CASE Ensure
  BY <1>5, PlanOtherCommand DEF Ensure, EnsureObject, EnsureNamespace
<1>6. CASE (\E pods \in PodStates : PollPods(pods)) \/ PodsTimeOut
  BY <1>1, <1>6, PlanOtherCommand DEF PollPods, PodsTimeOut
<1>7. CASE \E present \in SUBSET Nodes : ProbeNICs(present)
  BY <1>1, <1>7, PlanOtherCommand DEF ProbeNICs
<1>8. CASE PollDevices \/ ListDevices
  BY <1>8, PlanOtherCommand DEF PollDevices, ListDevices
<1>9. CASE \E p \in Identities : Plan(p)
  <2>1. PICK p \in Identities : Plan(p)
    BY <1>9
  <2>2. CASE LayoutValid(p)
    BY <2>1, <2>2, PlanPromises
  <2>3. CASE ~LayoutValid(p)
    BY <1>1, <2>1, <2>3 DEF Plan
  <2> QED
    BY <2>2, <2>3
<1>10. CASE \E n \in Nodes : PatchNode(n)
  BY <1>10, PatchAsPlanned
<1>11. CASE PatchesDone
  <2>1. /\ pc = "patch" /\ pc' = "verify" /\ todo = {} /\ todo' = todo
        /\ UNCHANGED <<labels, node, found, ident, selectors, result, interfered>>
    BY <1>11 DEF PatchesDone
  <2>2. Outcome' = Outcome
    BY <2>1 DEF Outcome, Patched
  <2>3. labels' = [n \in Nodes |-> labels'[n]] /\ result' = "none"
    BY <2>1 DEF PlanInv, ControlInv, Cleaning
  <2> QED
    BY <2>1, <2>2, <2>3, SameMembership
<1>12. CASE Verify
  BY <1>12, VerifiesAsPlanned
<1>13. CASE Evidence \/ (pc = "devices" /\ Finish("failed")) \/ CallFails
  BY <1>1, <1>13 DEF Evidence, CallFails
<1> QED
  BY <1>2, <1>3, <1>4, <1>5, <1>6, <1>7, <1>8, <1>9, <1>10, <1>11, <1>12, <1>13
  DEF Command, TimesOut

\* Restarts, and what the rest of the cluster does.
LEMMA PlanEnvironment ==
    ASSUME ControlInv, PlanInv, Killed \/ Rerun \/ Others \/ UNCHANGED vars
    PROVE  PlanInv'
<1> USE DEF Otherwise, clusterVars, dataVars, history
<1>1. CASE Killed
  BY <1>1 DEF Killed, PlanInv, PlanPredictsOutcome
<1>2. CASE Rerun
  BY <1>2 DEF Rerun, PlanInv, PlanPredictsOutcome
<1>3. ASSUME UNCHANGED <<pc, result, interfered, labels, node, found, ident, selectors, todo>>
      PROVE  PlanInv'
  <2>1. Outcome' = Outcome
    BY <1>3 DEF Outcome, Patched
  <2>2. CASE pc \in {"patch", "verify"}
    <3>1. result' = "none" /\ labels' = [n \in Nodes |-> labels'[n]]
      BY <1>3, <2>2 DEF ControlInv, Cleaning, PlanInv
    <3>2. pc' = "verify" => todo' = {}
      BY <1>3 DEF PlanInv
    <3> QED
      BY <1>3, <2>1, <2>2, <3>1, <3>2, SameMembership
  <2>3. CASE pc \notin {"patch", "verify"}
    BY <1>3, <2>3 DEF PlanInv, PlanPredictsOutcome
  <2> QED
    BY <2>2, <2>3
<1>4. CASE Cancel \/ UNCHANGED vars
  BY <1>3, <1>4 DEF Cancel, vars
<1>5. CASE NamespaceDrains \/ NamespaceGoes
  BY <1>3, <1>5 DEF NamespaceDrains, NamespaceGoes, Drained
<1>6. CASE \E n \in Nodes : DevicePublished(n)
  BY <1>3, <1>6 DEF DevicePublished
<1>7. ASSUME Churns, UNCHANGED <<pc, result, todo>>, labels' = [n \in Nodes |-> labels'[n]]
      PROVE  PlanInv'
  BY <1>7 DEF Churns, PlanInv, PlanPredictsOutcome
<1>8. CASE \E n \in Nodes, condition \in Conditions : NodeChanges(n, condition)
  <2>1. Churns /\ UNCHANGED <<pc, result, todo, labels>>
    BY <1>8 DEF NodeChanges
  <2> QED
    BY <1>7, <2>1 DEF PlanInv
<1>9. CASE \E n \in Nodes, l \in Touched : LabelsChange(n, l)
  <2>1. PICK n \in Nodes, l \in Touched : LabelsChange(n, l)
    BY <1>9
  <2>2. /\ Churns /\ UNCHANGED <<pc, result, todo>>
        /\ labels' = [labels EXCEPT ![n] = IF l \in labels[n] THEN labels[n] \ {l}
                                           ELSE Patched(labels[n], {l})]
    BY <2>1 DEF LabelsChange
  <2>3. labels' = [m \in Nodes |-> labels'[m]]
    BY <2>2 DEF PlanInv
  <2> QED
    BY <1>7, <2>2, <2>3
<1> QED
  BY <1>1, <1>2, <1>4, <1>5, <1>6, <1>8, <1>9 DEF Others

\* Labels are never changed for a layout that then fails by itself: without
\* interference the verification after the last patch finds the membership
\* that was validated before the first, whatever earlier runs left behind.
THEOREM PlansComeTrue == Spec => []PlanPredictsOutcome
<1>1. Init => PlanInv
  BY DEF Init, PlanInv, PlanPredictsOutcome
<1>2. ControlInv /\ PlanInv /\ [Next]_vars => PlanInv'
  BY PlanCommand, PlanEnvironment DEF Next
<1>3. PlanInv => PlanPredictsOutcome
  BY DEF PlanInv
<1> QED
  BY <1>1, <1>2, <1>3, ControlInvariant, PTL DEF Spec
=============================================================================

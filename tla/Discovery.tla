------------------------------ MODULE Discovery ------------------------------
(***************************************************************************)
(* l8k discover (discovery/discover.go, pkg/nicconfigdaemon): clear what an *)
(* earlier run left, bootstrap the NIC configuration daemon in a private    *)
(* namespace, wait for its pods and for the NicDevices they publish, group  *)
(* the nodes, label them, publish a selector per group, tear down.  Each    *)
(* API call of the command is a step.  The namespace controller, the        *)
(* DaemonSet controller, the daemon, nodes that fail or leave, and users    *)
(* who label nodes act between them; a run may be killed and repeated.      *)
(*                                                                          *)
(* A NIC stands for the PFs its NicDevice reports, so that a set of NICs is *)
(* a fingerprint; probing and enrichment are abstracted to what they find,  *)
(* or fail to find.                                                         *)
(***************************************************************************)
EXTENDS Naturals, FiniteSets

CONSTANTS
    Nodes,
    Hardware,   \* the sets of NICs with NicDevices that a node may have
    EastWest,   \* the sets of NICs that show an east-west PF when reported
    Product,    \* set of NICs -> [machine, gpu] as labels or probes tell them
    Foreign,    \* nodes whose NicDevices another operator's namespace holds
    Static,     \* node -> labels <<key, value>> nobody changes
    Touched,    \* Launch Kit labels others add or remove
    Layouts,    \* the hardware the cluster may start with
    Runs,       \* options l8k discover is run with, of Options
    MaxRuns, MaxChurn

VARIABLES
    ns,         \* the bootstrap namespace
    objects,    \* what Ensure created and is still there
    target,     \* nodes the DaemonSet is restricted to
    node,       \* node -> its condition
    hw,         \* node -> its NICs, without the ones that have no NicDevice
    device,     \* node -> NICs its NicDevices report
    labels,     \* node -> Launch Kit labels <<key, value>>
    churn,      \* changes by others so far
    pc, opts, run, cancelled,
    ensured,    \* the deferred teardown is registered
    final,      \* Cleanup runs as that teardown, not as the pre-clean
    selected,   \* eligible nodes; from "pods" on those with Ready pods when last
                \* polled; from "devices" on those with NICs that publish
    found,      \* node -> NICs in the NicDevices read
    ident,      \* fingerprint of a group -> [machine, gpu] of its group
    selectors,  \* fingerprint of a group -> its node selector
    todo,       \* nodes still to be patched
    result,
    \* --- history, read by properties only ---
    cleared,    \* the pre-clean saw the namespace gone
    cleanFailed,\* a delete of the teardown failed
    interfered  \* somebody changed nodes or labels since the plan was made

clusterVars == <<ns, objects, target, node, hw, device, labels, churn>>
history     == <<cleared, cleanFailed, interfered>>
dataVars    == <<selected, found, ident, selectors, todo>>
vars == <<clusterVars, pc, opts, run, cancelled, ensured, final, dataVars,
          result, history>>

NICs       == UNION Hardware
Installed  == Hardware \cup {{}}
Namespaced == {"account", "daemonset"}
Rbac       == {"role", "binding"}
Objects    == {"crds"} \cup Namespaced \cup Rbac
Conditions == {"ready", "cordoned", "notReady", "gone"}
Options    == [keep : BOOLEAN, workers : SUBSET Nodes]
Steps      == {"cleanNs", "cleanBinding", "cleanRole", "waitGone", "eligible",
               "crds", "namespace", "account", "role", "binding", "daemonset",
               "pods", "probe", "devices", "list", "plan", "patch", "verify",
               "evidence", "done"}
Results    == {"none", "success", "failed", "layout", "mismatch", "killed"}

\* GeneratedGroupIdentifier and GPULabelValue as labels <<key, value>>.
MachineLabel(p) == IF p.machine = "" \/ p.gpu = "" THEN {}
                   ELSE {<<"machine", <<p.machine, p.gpu>>>>}
GpuLabel(p)     == IF p.gpu = "" THEN {} ELSE {<<"gpu", <<p.gpu>>>>}
Patch(p)        == MachineLabel(p) \cup GpuLabel(p)
Unknown == [machine |-> "", gpu |-> ""]

ASSUME HardwareAssumption == EastWest \subseteq (SUBSET NICs) \ {{}}
ASSUME TouchedAssumption  == Touched \subseteq UNION {Patch(Product[h]) : h \in Installed}
ASSUME RunsAssumption     == Runs \subseteq Options
ASSUME LayoutsAssumption  == Layouts \subseteq [Nodes -> Installed]
ASSUME BoundsAssumption   == MaxRuns \in Nat \ {0} /\ MaxChurn \in Nat

Live == {n \in Nodes : node[n] # "gone"}

TypeOK ==
    /\ ns \in {"absent", "active", "terminating"}
    /\ objects \subseteq Objects /\ target \subseteq Nodes
    /\ node \in [Nodes -> Conditions]
    /\ hw \in [Nodes -> Installed]
    /\ device \in [Nodes -> SUBSET NICs]
    /\ labels \in [Nodes -> SUBSET UNION {Patch(Product[h]) : h \in Installed}]
    /\ churn \in Nat
    /\ pc \in Steps /\ opts \in Options /\ run \in Nat
    /\ {cancelled, ensured, final} \subseteq BOOLEAN
    /\ selected \subseteq Nodes /\ todo \subseteq Nodes
    /\ found \in [Nodes -> SUBSET NICs]
    /\ DOMAIN ident \subseteq EastWest /\ DOMAIN selectors = DOMAIN ident
    /\ result \in Results
    /\ {cleared, cleanFailed, interfered} \subseteq BOOLEAN

NoDevices   == [n \in Nodes |-> {}]
Empty       == [h \in {} |-> {}]

\* No launch-kit run has been here; another operator may have.
Init ==
    /\ ns = "absent" /\ objects = {} /\ target = {}
    /\ node = [n \in Nodes |-> "ready"]
    /\ hw \in Layouts
    /\ device = [n \in Nodes |-> IF n \in Foreign THEN hw[n] ELSE {}]
    /\ labels = [n \in Nodes |-> {}]
    /\ churn = 0
    /\ pc = "cleanNs" /\ opts \in Runs /\ run = 1 /\ cancelled = FALSE
    /\ ensured = FALSE /\ final = FALSE
    /\ selected = {} /\ found = NoDevices /\ ident = Empty
    /\ selectors = Empty /\ todo = {} /\ result = "none"
    /\ cleared = FALSE /\ cleanFailed = FALSE /\ interfered = FALSE

-----------------------------------------------------------------------------
\* The command goes on, changing nothing but the variables named outside.
Goto(step) ==
    /\ pc' = step
    /\ UNCHANGED <<opts, run, cancelled, ensured, final, result>>

\* Nothing of the inventory outlives the run.
Forget ==
    /\ selected' = {} /\ found' = NoDevices /\ ident' = Empty
    /\ selectors' = Empty /\ todo' = {}

\* Mutant: the teardown uses the context of the run.
ExitSameContext(r) ==
    /\ result' = r
    /\ final' = (ensured /\ ~opts.keep)
    /\ pc' = IF final' THEN "cleanNs" ELSE "done"
    /\ Forget
    /\ UNCHANGED <<opts, run, cancelled, ensured>>

\* DiscoverClusterConfig returns: the deferred teardown runs if registered,
\* with a context of its own, which nobody cancels.
Exit(r) ==
    /\ result' = r
    /\ final' = (ensured /\ ~opts.keep)
    /\ pc' = IF final' THEN "cleanNs" ELSE "done"
    /\ cancelled' = FALSE
    /\ Forget
    /\ UNCHANGED <<opts, run, ensured>>

Finish(r) == Exit(r) /\ UNCHANGED <<clusterVars, history>>

\* An API call, an exec or a lookup that ends the run when it fails.
Fallible == {"eligible", "crds", "namespace", "account", "role", "binding",
             "daemonset", "devices", "list", "plan", "patch", "verify",
             "evidence"}
CallFails == pc \in Fallible /\ Finish("failed")

-----------------------------------------------------------------------------
(* nicconfigdaemon.Cleanup: before the bootstrap and, deferred, after it.   *)

AfterCleanup == IF final THEN "done" ELSE "waitGone"

DeleteNamespace ==
    /\ pc = "cleanNs" /\ ~cancelled
    /\ ns' = IF ns = "active" THEN "terminating" ELSE ns
    /\ Goto("cleanBinding")
    /\ UNCHANGED <<objects, target, node, hw, device, labels, churn,
                   dataVars, history>>

DeleteRbac ==
    /\ pc \in {"cleanBinding", "cleanRole"} /\ ~cancelled
    /\ objects' = objects \ {IF pc = "cleanRole" THEN "role" ELSE "binding"}
    /\ Goto(IF pc = "cleanBinding" THEN "cleanRole" ELSE AfterCleanup)
    /\ UNCHANGED <<ns, target, node, hw, device, labels, churn,
                   dataVars, history>>

\* A failed delete is reported, and the next one attempted.
DeleteFails ==
    /\ pc \in {"cleanNs", "cleanBinding", "cleanRole"}
    /\ cleanFailed' = (cleanFailed \/ (final /\ ~cancelled))
    /\ Goto(IF pc = "cleanNs" THEN "cleanBinding"
            ELSE IF pc = "cleanBinding" THEN "cleanRole" ELSE AfterCleanup)
    /\ UNCHANGED <<clusterVars, dataVars, cleared, interfered>>

\* WaitForNamespaceDeleted; the timeout is a warning only.
\* Mutant: an accepted delete is taken for a finished one.
WaitGoneTerminating ==
    /\ pc = "waitGone" /\ ~cancelled /\ ns # "active"
    /\ cleared' = TRUE
    /\ Goto("eligible")
    /\ UNCHANGED <<clusterVars, dataVars, cleanFailed, interfered>>

WaitGone ==
    /\ pc = "waitGone" /\ ~cancelled /\ ns = "absent"
    /\ cleared' = TRUE
    /\ Goto("eligible")
    /\ UNCHANGED <<clusterVars, dataVars, cleanFailed, interfered>>

WaitGoneTimesOut ==
    /\ pc = "waitGone" /\ Goto("eligible")
    /\ UNCHANGED <<clusterVars, dataVars, history>>

-----------------------------------------------------------------------------
(* The nodes to look at, and Ensure.                                        *)

Eligible == {n \in Nodes : node[n] = "ready"}

EligibleNodes ==
    /\ pc = "eligible" /\ ~cancelled
    /\ IF Eligible = {} \/ ~(opts.workers \subseteq Eligible)
       THEN Finish("failed")
       ELSE /\ selected' = IF opts.workers = {} THEN Eligible ELSE opts.workers
            /\ Goto("crds")
            /\ UNCHANGED <<clusterVars, found, ident, selectors, todo, history>>

\* ensureCRDs creates what is missing, applyUnstructured creates or updates.
\* Nothing can be created in a namespace that is not active; what is left in a
\* terminating one can be updated.
Applies(o) == o \in objects \/ o \notin Namespaced \/ ns = "active"

EnsureObject(o, step) ==
    /\ pc = o /\ ~cancelled /\ Applies(o)
    /\ objects' = objects \cup {o}
    /\ IF o = "daemonset"
       THEN target' = selected /\ selected' = {} /\ ensured' = TRUE
       ELSE UNCHANGED <<target, selected, ensured>>
    /\ pc' = step
    /\ UNCHANGED <<ns, node, hw, device, labels, churn, opts, run,
                   cancelled, final, found, ident, selectors, todo, result, history>>

EnsureNamespace ==
    /\ pc = "namespace" /\ ~cancelled
    /\ ns' = IF ns = "absent" THEN "active" ELSE ns
    /\ Goto("account")
    /\ UNCHANGED <<objects, target, node, hw, device, labels, churn,
                   dataVars, history>>

Ensure ==
    \/ EnsureObject("crds", "namespace")
    \/ EnsureNamespace
    \/ EnsureObject("account", "role")
    \/ EnsureObject("role", "binding")
    \/ EnsureObject("binding", "daemonset")
    \/ EnsureObject("daemonset", "pods")

-----------------------------------------------------------------------------
(* waitForDaemonSetPods, filterNodesWithNICs, waitNicDevicesDiscovered.     *)

\* Pods come up, get stuck and fail as they like: a poll finds any states,
\* of no pods where the DaemonSet does not place them.
PodStates == {pods \in [Nodes -> {"none", "pending", "stuck", "ready"}] :
                \A n \in Nodes : n \notin target \cap Live => pods[n] = "none"}

\* canProceed: the other pods are stuck or on nodes that are not Ready.
CanProceed(pods) ==
    /\ \E n \in Nodes : pods[n] = "ready"
    /\ \A n \in Nodes : pods[n] = "pending" => node[n] = "notReady"

\* A poll that must go on keeps the Ready pods it saw, for the timeout.  The
\* nodes, read for pending pods only, may be unreadable.
PollPods(pods) ==
    /\ pc = "pods" /\ ~cancelled /\ \E n \in Nodes : pods[n] # "none"
    /\ selected' = {n \in Nodes : pods[n] = "ready"}
    /\ \/ CanProceed(pods) /\ Goto("probe")
       \/ /\ ~CanProceed(pods) \/ \E n \in Nodes : pods[n] = "pending"
          /\ selected' # selected /\ Goto("pods")
    /\ UNCHANGED <<clusterVars, found, ident, selectors, todo, history>>

\* Mutant: without a Ready pod the wait goes on.
PodsTimeOutPatient ==
    /\ pc = "pods" /\ selected # {} /\ ~cancelled
    /\ Goto("probe") /\ UNCHANGED <<clusterVars, dataVars, history>>

PodsTimeOut ==
    /\ pc = "pods"
    /\ IF selected = {} \/ cancelled THEN Finish("failed")
       ELSE Goto("probe") /\ UNCHANGED <<clusterVars, dataVars, history>>

\* Nodes whose probe fails are not waited for, nor those without a NIC.
ProbeNICs(present) ==
    /\ pc = "probe"
    /\ present \subseteq {n \in selected : hw[n] # {}}
    /\ IF present = {} \/ cancelled THEN Finish("failed")
       ELSE /\ selected' = present
            /\ Goto("devices")
            /\ UNCHANGED <<clusterVars, found, ident, selectors, todo, history>>

\* NicDevices are listed in all namespaces, and listed again once every node
\* has one: not all of them, which nobody could tell.
PollDevices ==
    /\ pc = "devices" /\ ~cancelled
    /\ \A n \in selected : device[n] # {}
    /\ Goto("list") /\ UNCHANGED <<clusterVars, dataVars, history>>

Requested(n) == opts.workers = {} \/ n \in opts.workers

ListDevices ==
    /\ pc = "list" /\ ~cancelled
    /\ found' = [n \in Nodes |-> IF Requested(n) THEN device[n] ELSE {}]
    /\ Goto("plan")
    /\ UNCHANGED <<clusterVars, selected, ident, selectors, todo, history>>

-----------------------------------------------------------------------------
(* buildClusterConfig and applyMachineLabelToGroups.                        *)

\* One group per fingerprint; without an east-west PF it is dropped.
Workers(h) == {n \in Nodes : found[n] = h}
Groups     == {h \in EastWest : Workers(h) # {}}
Inventory  == UNION {Workers(h) : h \in Groups}

\* What labels, DMI and GPU probes find of the machine and GPU of the group:
\* those of any of its workers.  The machine alone says no more than nothing:
\* Patch is empty either way.
Known(h) ==
    UNION {{Product[hw[n]], [machine |-> "", gpu |-> Product[hw[n]].gpu], Unknown} :
             n \in Workers(h)}
Identities ==
    {p \in [Groups -> UNION {Known(h) : h \in Groups}] :
        \A h \in Groups : p[h] \in Known(h)}

Patched(have, patch) ==
    {l \in have : \A q \in patch : q[1] # l[1]} \cup patch

Proposed(p) ==
    [n \in Nodes |-> IF n \in Inventory THEN Patched(labels[n], Patch(p[found[n]]))
                     ELSE labels[n]]

\* selectorMatchesOnlyNodes over the nodes of the cluster.
Selects(selector, lk) ==
    {n \in Live : selector \subseteq lk[n] \cup Static[n] \cup {<<"host", <<n>>>>}}

\* The workers of all groups with this GPU carry its label, nobody else.
GpuExact(p, lk) ==
    \A h \in Groups : p[h].gpu # "" =>
        Selects(GpuLabel(p[h]), lk) = {n \in Inventory : p[found[n]].gpu = p[h].gpu}

\* readOnlyNodeSelectors: labels the workers share, or the host of the only
\* one.  The code prefers some, but all exact ones select the same nodes.
Candidates(h, lk) ==
    {s \in SUBSET UNION {lk[n] \cup Static[n] : n \in Workers(h)} :
        s # {} /\ \A n \in Workers(h) : s \subseteq lk[n] \cup Static[n]}
    \cup {{<<"host", <<n>>>>} : n \in {m \in Nodes : Workers(h) = {m}}}

SelectorsOf(h, p) ==
    {s \in (IF MachineLabel(p[h]) = {} THEN Candidates(h, Proposed(p))
            ELSE {MachineLabel(p[h])}) :
        Selects(s, Proposed(p)) = Workers(h)}

\* Mutant: only the workers' own labels are looked at.
LayoutValidInside(p) ==
    /\ Inventory \subseteq Live
    /\ \A h, i \in Groups : h # i /\ MachineLabel(p[h]) # {}
                               => MachineLabel(p[h]) # MachineLabel(p[i])
    /\ \A h \in Groups : SelectorsOf(h, p) # {}

LayoutValid(p) ==
    /\ Inventory \subseteq Live
    /\ \A h, i \in Groups : h # i /\ MachineLabel(p[h]) # {}
                               => MachineLabel(p[h]) # MachineLabel(p[i])
    /\ \A h \in Groups : SelectorsOf(h, p) # {}
    /\ GpuExact(p, Proposed(p))

\* The whole layout is validated on fresh labels before the first patch.
Plan(p) ==
    /\ pc = "plan" /\ ~cancelled
    /\ IF LayoutValid(p)
       THEN /\ ident' = p
            /\ selectors' \in
                 {q \in [Groups -> UNION {SelectorsOf(h, p) : h \in Groups}] :
                    \A h \in Groups : q[h] \in SelectorsOf(h, p)}
            /\ todo' = {n \in Inventory : Patch(p[found[n]]) # {}}
            /\ interfered' = FALSE
            /\ Goto("patch")
            /\ UNCHANGED <<clusterVars, selected, found, cleared, cleanFailed>>
       ELSE Finish("layout")

\* A strategic-merge patch per worker; the ones made stay if a later one fails.
PatchNode(n) ==
    /\ pc = "patch" /\ ~cancelled /\ n \in todo \cap Live
    /\ labels' = [labels EXCEPT ![n] = Patched(@, Patch(ident[found[n]]))]
    /\ todo' = todo \ {n}
    /\ Goto("patch")
    /\ UNCHANGED <<ns, objects, target, node, hw, device, churn, selected,
                   found, ident, selectors, history>>

PatchesDone ==
    /\ pc = "patch" /\ todo = {} /\ Goto("verify")
    /\ UNCHANGED <<clusterVars, dataVars, history>>

\* Selectors are published if a fresh read shows exact membership.
Exact ==
    /\ \A h \in Groups : Selects(selectors[h], labels) = Workers(h)
    /\ GpuExact(ident, labels)

Verify ==
    /\ pc = "verify" /\ ~cancelled
    /\ IF Exact
       THEN Goto("evidence") /\ UNCHANGED <<clusterVars, dataVars, history>>
       ELSE Finish("mismatch")

\* GPUDirect's default is settled, secondary networking inspected.
Evidence == pc = "evidence" /\ ~cancelled /\ Finish("success")

\* The timers of the three waits.
TimesOut ==
    \/ WaitGoneTimesOut \/ PodsTimeOut
    \/ pc = "devices" /\ Finish("failed")

Killed ==
    /\ pc # "done" /\ pc' = "done" /\ result' = "killed" /\ Forget
    /\ cancelled' = FALSE /\ ensured' = FALSE /\ final' = FALSE
    /\ cleared' = FALSE /\ cleanFailed' = FALSE /\ interfered' = FALSE
    /\ UNCHANGED <<clusterVars, opts, run>>

Command ==
    \/ DeleteNamespace \/ DeleteRbac
    \/ DeleteFails
    \/ WaitGone \/ EligibleNodes \/ Ensure
    \/ pc = "pods" /\ \E pods \in PodStates : PollPods(pods)
    \/ pc = "probe" /\ \E present \in SUBSET Nodes : ProbeNICs(present)
    \/ PollDevices \/ ListDevices
    \/ pc = "plan" /\ \E p \in Identities : Plan(p)
    \/ \E n \in Nodes : PatchNode(n)
    \/ PatchesDone \/ Verify \/ Evidence \/ TimesOut \/ CallFails

\* l8k discover is run again; a node may have been rebuilt meanwhile.
Rerun ==
    /\ pc = "done" /\ run < MaxRuns /\ run' = run + 1
    /\ pc' = "cleanNs" /\ opts' \in Runs
    /\ cancelled' = FALSE /\ ensured' = FALSE /\ final' = FALSE
    /\ result' = "none"
    /\ cleared' = FALSE /\ cleanFailed' = FALSE /\ interfered' = FALSE
    /\ \/ hw' = hw /\ churn' = churn
       \/ /\ churn < MaxChurn /\ churn' = churn + 1
          /\ \E n \in Nodes, h \in Installed :
                h # hw[n] /\ hw' = [hw EXCEPT ![n] = h]
    /\ UNCHANGED <<ns, objects, target, node, device, labels, dataVars>>

-----------------------------------------------------------------------------
(* The rest of the cluster.                                                 *)

\* Nobody looks at the cluster after the last run.
Otherwise(unchanged) ==
    /\ pc # "done" \/ run < MaxRuns
    /\ UNCHANGED <<unchanged, pc, opts, run, cancelled, ensured, final, dataVars,
                   result, cleared, cleanFailed>>

\* The run's context ends.  Elsewhere that is the next call failing, which
\* CallFails, DeleteFails and WaitGoneTimesOut allow anyway.
Cancel ==
    /\ pc \in {"pods", "probe", "devices"} /\ ~cancelled /\ cancelled' = TRUE
    /\ UNCHANGED <<clusterVars, pc, opts, run, ensured, final, dataVars,
                   result, history>>

Drained ==
    /\ objects' = objects \ Namespaced /\ target' = {}
    /\ device' = [n \in Nodes |-> IF n \in Foreign THEN device[n] ELSE {}]

\* A terminating namespace is emptied, then goes, if nothing holds it up.
NamespaceDrains ==
    /\ ns = "terminating" /\ Drained
    /\ Otherwise(<<ns, node, hw, labels, churn, interfered>>)

NamespaceGoes ==
    /\ ns = "terminating" /\ ns' = "absent" /\ Drained
    /\ Otherwise(<<node, hw, labels, churn, interfered>>)

\* The daemon, once its pod has come up on n, or another operator's daemon
\* reports what the node has, one NicDevice per NIC and call: it creates the
\* missing ones and deletes those of NICs that are not there.
DevicePublished(n) ==
    /\ n \in Foreign \/ (n \in target /\ ns = "active")
    /\ node[n] # "gone"
    /\ \/ \E c \in hw[n] \ device[n] :
             device' = [device EXCEPT ![n] = @ \cup {c}]
       \/ \E c \in device[n] \ hw[n] :
             device' = [device EXCEPT ![n] = @ \ {c}]
    /\ Otherwise(<<ns, objects, target, node, hw, labels, churn, interfered>>)

\* Changes right before a step that reads nodes or labels, or amid such steps:
\* earlier ones show nobody anything else.
Reading == {"plan", "patch", "verify"}
Churns ==
    /\ churn < MaxChurn /\ churn' = churn + 1
    /\ interfered' = (interfered \/ pc \in {"patch", "verify"})

NodeChanges(n, condition) ==
    /\ Churns /\ condition # node[n]
    /\ pc \in {"eligible", "pods"} \/ (pc \in Reading /\ condition = "gone")
    /\ node' = [node EXCEPT ![n] = condition]
    /\ Otherwise(<<ns, objects, target, hw, device, labels>>)

\* Somebody adds, changes or removes a Launch Kit label.
LabelsChange(n, l) ==
    /\ Churns /\ pc \in Reading
    /\ labels' = [labels EXCEPT ![n] = IF l \in @ THEN @ \ {l}
                                       ELSE Patched(@, {l})]
    /\ Otherwise(<<ns, objects, target, node, hw, device>>)

Others ==
    \/ Cancel \/ NamespaceDrains \/ NamespaceGoes
    \/ \E n \in Nodes : DevicePublished(n)
    \/ \E n \in Nodes, condition \in Conditions : NodeChanges(n, condition)
    \/ \E n \in Nodes, l \in Touched : LabelsChange(n, l)

Next == Command \/ Killed \/ Rerun \/ Others

\* The process runs, its calls return and its timers fire.
Spec == /\ Init /\ [][Next]_vars
        /\ WF_vars(Command) /\ WF_vars(TimesOut)

-----------------------------------------------------------------------------
(* Properties.                                                              *)

\* If the pre-clean saw the old namespace gone, the inventory whose selectors
\* are published is of the cluster as it is: no NIC reaches it that the node
\* does not have, such as those of NicDevices an interrupted run left, every
\* node waited for is in it, and none outside the requested workers.  Not all
\* NICs of a node need be in it, as the wait ends with the first.  Another
\* operator's NicDevices are only as fresh as that operator keeps them.
InventoryIsCurrent ==
    pc = "evidence" /\ cleared =>
        /\ \A n \in Nodes \ Foreign : found[n] \subseteq hw[n]
        /\ \A n \in selected \ Foreign : found[n] # {}
        /\ \A n \in Nodes : found[n] # {} => Requested(n)

\* The layout that is validated before the first patch is the one verified
\* after the last: labels are never changed for a layout that fails by itself,
\* whatever earlier runs left on nodes that are not in this inventory.
PlanPredictsOutcome == result = "mismatch" => interfered

\* However a run ends after its bootstrap, short of being killed, the daemon's
\* namespace and its cluster-wide permissions go, unless asked to stay or a
\* delete fails.  A cancelled run tears down too.
Remains == ns = "active" \/ objects \cap Rbac # {}
TornDown ==
    pc = "done" /\ result # "killed" /\ ensured /\ ~opts.keep /\ ~cleanFailed
        => ~Remains

\* No wait of l8k discover is unbounded: not for a namespace that never goes,
\* pods that never start or NicDevices that are never published.
DiscoveryEnds == []<>(pc = "done")

=============================================================================

# k8s-launch-kit in TLA+

This directory is the verification project of k8s-launch-kit (`l8k`), the
command that discovers the NICs of a Kubernetes cluster, generates the
configuration of the NVIDIA Network Operator for it, deploys that
configuration, validates the result and cleans it up again. It holds TLA+
modules translated from the Go source under `src/pkg`, TLC configurations that
check them on small instances, and TLAPS proofs of the results that matter
most. Paths below are relative to the repository; `deploy.go`, `clean.go` and
`helm.go` are those of `src/pkg/networkoperatorplugin`.

How to run: `tlc -config clean.cfg MCClean` for a run (the module of each run
is listed in `PROJECT.json`), `tlapm CleanProofs.tla` for the proofs.

## The system

`l8k` is one sequential process per invocation. What makes it hard is that
everything it decides on lives elsewhere: in the Kubernetes API server, in the
controllers of the operator it installs, in the Helm release store, on the
nodes. Between any two API calls other actors move. It handles no signals, so
an interrupt is the death of the process wherever it happens to be; the only
cancellation the code sees is its context (`--deploy-timeout`, `--timeout`).

| part | state | operations | what makes it correct |
|---|---|---|---|
| Manifest reconciliation (`applyAndWait`, `pollUntilTerminal`, `deploy.go`) | pre-apply generation, awaited resourceVersion, retry timer | pre-read, ownership and scope checks, apply, gate, live scope, validate, re-apply, wait | a wait ends for the right reason: never on status of an earlier spec, always when the object settles |
| Deployment phases (`applyBundleWithInstaller`) | phase, position in the bundle, deferred manifests | inspect, Helm, preflight, remediate, OCP configuration, policies, other manifests, verify | refusals change nothing, dry runs persist nothing, policies gate the rest, success means verified |
| Cleanup (`clean.go`) | deletion set, pass, position | list, signal, wait, sweep, uninstall | the operator goes last, success leaves nothing, cleanup ends |
| Helm release (`helm.go`) | release history in the cluster | install, upgrade, no-op, conflict, uninstall | a different release is replaced only on request; pending operations are not disturbed |
| Preflight (`preflight/`) | live versions, strays, inspection evidence | compare, list, inspect, remediate | all strays are inspected before one is deleted, and only as they were inspected |
| CR state validators (`crstate/`) | none; four kinds of reads per call | classify an object | success is never read off leftovers: conditions of an earlier template, node states written too early, components the platform owns |
| Target scope (`target_scope.go`) | none | resolve, match | selectors match exactly the intended workers |
| Secondary-network ownership (`secondarynetwork/`) | none | decide over DaemonSets and the live policy | nobody's Multus or CNI plugins are taken away or installed twice |
| IPPools (`pkg/config`, `ipam_collision.go`) | none | cut subnets, reserve ranges, compare with configured and live ranges | no two pools overlap, none holds a cluster address |
| OpenShift configuration (`ocp*.go`) | SR-IOV operator config, MachineConfig, sysctls | create, patch, verify | no foreign field is overwritten |
| Discovery (`discovery/`, `pkg/nicconfigdaemon`) | bootstrap namespace and permissions, NicDevices, node labels | pre-clean, bootstrap, wait, probe, list, label, verify, tear down | the inventory is the cluster's, not an earlier run's; each selector selects exactly its group; what was created is removed; every wait ends |
| Connectivity validation (`connectivity/`) | test workloads in the cluster, route cache, listeners in pods, deadline | create, roll out, plan, look up routes, probe one by one or in batches, clean up | a pass was measured, a failure is this test's own, the plan fits its deadline, nothing is left |
| Validation command (`pkg/target/host/validate*.go`, `validate.go`) | the checks made so far | read release, policies, values, strays, manifests; wait; matrix; report | exit code 0 is earned, and the JUnit file agrees with it |
| Rendering (`templates.go`, `render_plan.go`, `workload.go`, `pkg/app/generate.go`) | output directory, effective configuration | filter, bucket, merge, render, check, empty, write | one run's files, each selecting its own group's workers |
| Spectrum-X addressing (`spectrumx/`, `spectrumx_*.go`) | host indexes of one call | read topology, number hosts, allocate, pool | prefixes are unique, inside their pool, and every endpoint has one |
| Presets (`pkg/presets`, `pkg/presetmatch`) | catalog on disk or embedded | load, match, validate, apply | what the report marks is what deviates |
| Configuration, profiles, firmware | files | merge, select, download | precedence of explicit over default values |
| Target dispatch, launcher, command line, terminal output | options | order the phases, print | discovery before generation before deployment |

Parts interact by calls in one process (the launcher calls discovery, rendering
and deployment; deployment calls Helm, preflight, the validators and the scope
checks) and otherwise only through the API server. `PROJECT.json` lists every
part with its status, and the hazards at the lines where they bite.

## What is modelled

**`Reconcile`** is one manifest from its pre-apply read to the verdict that ends
its wait. `pc` is the next API call of `applyAndWait` or of the poll loop, so
the cluster can change between any two. The cluster is the object (which spec it
carries, generation, resourceVersion, what the validator reads as the
controller's state and the spec that state was written for), the labels of the
nodes, and the actors that touch them: the controller, somebody who deletes the
object, another client that restores it or writes only metadata. A controller
that comes to the status that is already there writes nothing, as the API server
gives an identical update no new resourceVersion. `kind` says what the code asks
of the manifest's kind (observation gate, target scope, ownership check, retry
window) and is chosen in `Init`, so that one run covers all of them. `Faults`
names what may go wrong: each read and write, label drift, the deadline, the
death of the process. Resource versions are numbers drawn from one counter; the
code and the model compare them for equality only. The validators are abstracted
to their verdicts (`Classified`; see `CrState`). History variables (`armed`,
`appliedRv`, `gateMissed`, `touched`, `judgedRv`, `judgedOf`, `window`) record
what the properties talk about and guard nothing.

**`Deploy`** is the sequence of phases of one `l8k deploy` with all
combinations of its options against a first or repeated deployment. The wait
for a manifest is one step that `Reconcile` justifies: it ends well only if the
controller has reported the applied spec ready. The Helm phase is one step per
outcome; preflight reads that fail are skipped as in the code, so it may find
less than there is.

**`Takeover`** is what `Deploy` leaves coarse: how one `l8k deploy` takes over
a cluster that other clients write too. Each API read and write is a step of
its own, so other Helm clients, users who edit, delete and recreate
NicClusterPolicies, the operator and the platform act between any two; the run
may be killed anywhere and starts from what earlier runs left. The cluster is
the last Helm revision (`release`), the policies with UID, resourceVersion and
the Multus and CNI sections l8k and others own in them, and the owners of the
`installers` found on the nodes. The run reads the live policy, then the
installers (`CheckPolicyRead`, `CheckInstallers`), with `--overwrite-existing`
the strays it would remove (`CheckRemovals`), then the release. It installs,
upgrades, refuses or does nothing (`HelmRead` to `HelmLost`), runs preflight,
inspects every stray and deletes each with the UID and resourceVersion it was
inspected at, checks ownership again and applies the policy; a policy that
vanishes during the wait is checked and applied again. Recognizing an
installer among the DaemonSets is abstracted to its owner, and the health of
its pods to a choice. `stood` and `stoodRun` record which ownership facts have
held since the phase and the run began, and guard nothing.

**`Discovery`** is `l8k discover` (`DiscoverClusterConfig`,
`pkg/nicconfigdaemon`), again one step per API call. It deletes what an earlier
run left and waits for the namespace to go (`DeleteNamespace` to
`WaitGoneTimesOut`), picks the Ready schedulable nodes, creates the daemon
(`Ensure`), polls its pods (`PollPods`) and probes the nodes with Ready ones for
NICs, waits until each has published a NicDevice and lists all there are.
NicDevices come one by one, so a node may be listed with some of its NICs. Nodes
with the same PF fingerprint are a group; the proposed labels are validated as a
whole (`Plan`), patched node by node and verified on a fresh read (`Verify`).
Every return after `Ensure` passes through the deferred `Cleanup`, which has a
context of its own. Between the steps the namespace controller drains the
namespace, daemons publish, nodes fail, are cordoned or leave, and somebody
changes labels; a run may be cancelled or killed and repeated after a node was
rebuilt. Hardware is a set of NICs, whose fingerprint groups the node; GPU, DMI
and preset lookup to the machine and GPU they find or do not find (`Known`). The
choice among selectors that are exact for a group is left open: the code's order
of preference does not change what they select. `cleared`, `cleanFailed` and
`interfered` are history variables.

**`Clean`** is `l8k clean`: one step per List, Delete and Get call, against
controllers that process finalizers (`Needs` says which other refs must have
entered deletion first) and recreate service resources as long as a root policy
exists. A ref stands for the instances of one kind; `Rank` is the visiting
order. **`Teardown`** is what cleanup promises, without its loops; `Clean`
implements it by the mapping at the end of the module.

**`Connectivity`** is one run of the matrix (`RunMatrixBundle`), one step per
API call and per exec into a pod: creating the isolation objects of OpenShift
and the DaemonSets, their rollout, building and planning the pods, then family
by family the source routes with their cache, the gateway and ICMP probes one at
a time and the RDMA families in batches that start servers, run clients, parse
the cells and kill the servers. `routes` is what is known of the route of each
test of the family; the cache outlives the family, while `fresh` records the
lookups made in it. A batch is a set of positions in the family's tests. Any
call may fail, a create may be lost after it took effect, and the context may
expire anywhere; the deferred cleanup has a context of its own. `clock` adds up
what the commands may take in a slow cluster, so that it can be compared with
the deadline. The exec of an ICMP test has no timeout of its own, only the
command in the pod has: `ICMPStalls` is one that hangs until the deadline.
**`Matrix`** holds the pure part: endpoints of a pod, the plan of each family
and mode, batches, timeouts, verdicts on a route and a bandwidth. What the
fabric does (`net`: who reaches whom, which gateway answers, where routes lead)
is chosen in `Init`. `listeners` are the server processes in the pods; starting
the servers of a batch first kills those of the same program, as the code's
command line does.

**`Validate`** is `validateRunner.Run`: settings, presets, the four once-only
checks, the manifests, the optional wait in which objects settle and polls
fail, the gate before the matrix, the verdicts, and each return's exit code,
banner, HTML and deferred JUnit file. The matrix is any set of rows
`Connectivity` may return, and the manifest results are a set, since nothing
depends on their order. **`Verdict`** holds the pure decisions (inputs,
versions, classification of a document, verdicts, JUnit cases), **`Presets`**
the catalog and what a report marks.

**`Generate`** is `l8k generate` run after run over one output directory, with
deployments of the run itself or of what is on disk in between, and a kill
anywhere. A deployment records each document with the configuration it was
rendered from (`conf`) and the one it was checked against (`by`), which are the
same unless a run died between its two writes. The directory is emptied file by
file and may be left half empty (`CleanDirectory`: by a kill on the way, or by
an error on one file, past which `os.RemoveAll` goes on), and a file may be cut
off in the middle (`CutFile`). A document cut in two is refused when it is
loaded, so the whole documents before the cut are what counts. **`Render`** is
what a run renders: the filter, buckets of equal GPU and rail count, merged
groups, the scope of each kind, selectors, namespaces, workloads, the sources a
document is annotated with and the check of its selector. A rail's subnet is
found by counting the rails of the plans before it (`SubnetsBefore`), which is
how far `preallocatePlanSubnets` has cut the one run of subnets by then.
**`Ipam`** is the arithmetic of the pools, over `AddrBits` bits, and **`Lists`**
the lists that the code filters, orders and sums in loops, by position (`Matrix`
and `SpectrumX` use it too). A document is a record of what the properties tell
apart; template text is not modelled. A deployment passes `checkLiveIPPoolCIDRs`
and `checkBundleTargetScopes` against the nodes, as `applyBundleWithInstaller`
does first; what it does afterwards is `Deploy`.

**`CrState`** calls the validators of `crstate/` again and again, one read per
step, while templates are edited, nodes relabelled, devices come and go, the NIC
operator writes device lists and sections, its daemons report on the generation
they started from, the SR-IOV operator reports success before the functions
exist, functions, node states and virtual functions vanish again, the node
policy is edited, and policies report their components. **`Classify`** is what
each validator makes of what it has read (vendor and device ids in one case: the
folding of letters is left out). `running` records what the hardware really
runs, which is what `DevicesConfigured` compares. There are no devices and no
device lists at the start: the daemons publish them.

**`SpectrumX`** writes a topology file block by block in any order, passes the
layout checks of RA2.4 and RA3.1 and calls `BuildCIDRPools` once per plan, on
its merged group; only the rail pool configuration is rendered per source in
Mode B, and `OneParent` counts those. **`Addressing`** is the reading of both
formats, the numbering of hosts, the address schemes of every tier, mode and IP
version including VR, and the pools. A host is numbered by the first link that
names it, counted among the first links of the hosts that share its key, which
is what the code's map of next indexes amounts to; pools and their allocations
are sets, since they are looked up by name.

The modules named `MC...` fix the constants. `MCValidate` also states three
reference definitions for `Presets` as assumptions TLC evaluates over all
lists of up to two PFs: a group is enriched from a preset whenever validation
sees no topology deviation; the report marks exactly the rows some deviation
names; a directory loads by name exactly when it can match. Definitions whose
comment starts with "Mutant:" are deliberate bugs: putting one in the place of
the definition that follows it must violate the property it is paired with in
`PROJECT.json`.

## What the runs show

| run | bounds | result |
|---|---|---|
| `reconcile_safety` | 3 kinds, 3 writes, 2 deletions, 2 runs, all faults; 3.1 M states | `GateRespected`, `FreshVerdict`, `TimeoutMeansPersistent` hold |
| `reconcile_liveness` | 3 kinds, 2 writes, 1 deletion, 1 run; 129 k states | what must end the wait ends it |
| `reconcile_rerun` | 1 write, 2 runs, the first may be killed | violated: the finding below |
| `clean` | 4 kinds, 2 recreations, 2 runs, all faults; 165 k states | safety, refinement of `Teardown`, termination |
| `deploy` | 2 policies, 2 other manifests, 1 stray, all options and faults; 195 k states | dry and refused runs write nothing, policies gate the rest, success is verified |
| `takeover` | 2 charts, 2 policy names, 1 component, others write while fewer than 3 writes were made; 2.3 M states | release replaced on request only, networking kept, one installer, blocked runs change nothing |
| `discover` | 2 nodes, 2 NICs, 2 kinds of hardware, 2 runs, 1 change by others, every call may fail; 747 k states | current inventory, predictable labelling, teardown, termination |
| `connectivity` | 1 DaemonSet, 3 pods, 2 rails, 3 support objects, 9 option sets, 5 networks, 2 failing calls; 420 k states | passes are measured, failures are a test's own, the deadline suffices, listeners are current, nothing is left, the run ends |
| `validate` | 19 inputs, worlds with one thing wrong each, 2 failing reads; 108 k states | exit code 0 is earned, JUnit agrees, the command ends |
| `generate` | 37 configurations over 4 workers, 2 runs, 6-bit addresses; 285 k states | one run's files, selectors in scope, disjoint pools, deployed pools clear of the cluster's addresses |
| `crstate` | 8 kinds, 2 devices, 2 nodes, 2 templates, 1 edit; 3.7 M states | success means configured devices, functions in place, our components ready |
| `spectrumx` | 2 or 3 hosts, every order of their blocks, all tiers, modes and IP versions, both formats, VR; 100 k states | unique prefixes inside their own pool, VR endpoints have pools |

Why the bounds are enough. A wait compares an object's version with one
remembered value, so a second deletion, a second run and a third write are the
shortest histories in which a stale value, a re-armed gate and an intervening
write can meet; nothing in the code counts further. Cleanup treats refs of a
scope alike except for order, and two of each scope, one of them spawned and
one a root, give every order of signalling, vanishing and reappearing. A
deployment's loops treat all policies but the first alike, and all other
manifests but IPPools and Pods. In `Takeover` one component stands for both,
since Multus and the CNI plugins are checked alike and independently; two
policy names give a bundle without a policy two strays; two writes of others
suffice to delete and recreate, or edit and restore, what the run has read.
In `Discovery` two nodes, one with NicDevices of another operator, one node
type with an east-west and a north-south NIC and another type with the first of
them only, so that a half reported node looks like the other type or like none,
and a second run give stale NicDevices and labels on nodes in and outside the
inventory, colliding groups and shared GPU labels; others change nodes only
right before or amid steps that read them, which is when it is noticed.
In `Connectivity` two faults suffice for one failing call during the run and
one during cleanup, or a lookup that fails in one family and a kill that fails
in another; three pods, one without a usable address, are planned into all
kinds of pair. In `Validate` every input differs from a sound one in one
respect; two failing reads hit a check and a later poll. In `Generate` a
second configuration over the first one's directory is the shortest history in
which files, effective configuration and cluster can disagree; six bits hold
eight pools of eight addresses, so that alignment, overflow and full reserves
all occur. In `CrState` one edit makes every status a leftover; two nodes give
a selector that matches one, both or none. In `SpectrumX` values sit on both
sides of the limit of each field (SU 63 and 64, pod 31, rail 7 and 8, VR host
127, 128 and 252).
Runs whose command ends (`takeover`, `discover`, `connectivity`, `validate`,
`generate`, `spectrumx`) do not look for deadlocks.

Finding (quoted with its lines in `PROJECT.json`). The observation gate of
`deploy.go` is armed only when this run's apply raised the generation. If a run
dies after its apply, the next run's apply is a no-op, the gate stays open and
the ready status the controller wrote for the previous spec is taken for
success.

Behaviours met while modelling that have no run of their own:

- `deploy.go:453`: a failed pre-apply read is taken for "no object", so an apply
  that changes nothing arms the gate; a settled object's version never moves
  again and the wait lasts until the deadline, for ever without one. The same
  happens (`deploy.go:647`) when the controller comes to the status that is
  already there: NicClusterPolicy has no observedGeneration, so it writes
  nothing.
- `deploy.go:644`: a failed read of the gate lets the validator's verdict
  through at the apply's own resourceVersion, against the comment on
  `pollUntilTerminal`. The comment on `applyAndWait` says a missing object is
  re-applied once; the loop re-applies it every time it is missing.
- `clean.go:313`: the wait looks for names, so a service resource recreated
  under its name keeps the wait going and is not deleted again.
- `deploy.go:239`: a conflicting Helm release ends the deployment before
  preflight, so other drift is not reported although
  `docs/advanced/deployment.md:133` promises one report. Without `values.yaml`
  the Helm phase is skipped but the chart version is still compared, and
  `--overwrite-existing` calls its drift remediated.
- `helm.go:311`: a release whose last operation failed but whose chart and
  values match is treated as up to date and reported ready.
- `discover.go:193`: the teardown is deferred after the bootstrap, so one that
  fails half way leaves its namespace and permissions until the next run. A
  pre-clean that fails or times out is only a warning.
- `discover.go:1028`: the wait ends when each node has published one NicDevice,
  so a node that has published some of its NICs is grouped by those.
- Connectivity: a create whose answer is lost is not recorded and is not cleaned
  up. An ICMP exec whose stream stalls is not ended by the timeout of its
  command (`icmp.go:64`; `gateway.go:213` has one) and may use up the deadline.
- Validation: a preset deviation with objects still in progress prints a FAIL
  banner and exits 0 (`validate_helpers.go:99`); a group that matches its preset
  now is still marked with the deviation stored at discovery.
- Generation: buckets of one GPU type and different rail counts share the merged
  identifier. The effective configuration is written after the manifests
  (`generate.go:199`): a run that is killed or fails in between leaves its
  manifests beside the configuration of the run before, and `l8k deploy`
  compares their selectors with the groups of that one, although `README.md:63`
  says that deploy checks exact worker membership. The comment on
  `buildBucketMerged` (`render_plan.go:239`) counts on Mode B for rails that
  differ in PCI address, but Mode B depends on the filter alone; on Kubernetes
  the workload is patched from the source groups, not from "the same network
  buckets" (`templates.go:1148`).
- Validators: interface-name templates have no generation check; a configuration
  template that selects no device stays in progress until the deadline;
  Succeeded for an earlier policy with the same number of virtual functions is
  accepted.
- Spectrum-X: `hostIndexKey` counts by attributes the address may drop, so a
  file with plane or pod on some hosts only can yield one prefix twice. A call
  for a VR group numbers its own group's hosts only, so two VR groups may be
  given the same prefixes; RA2.4 and RA3.1 refuse a second group, earlier
  versions do not. Outside VR a rail missing from the file leaves its endpoints
  without a pool.

The properties of the passing runs state the exceptions these force:
`FreshVerdict` speaks of a first run whose gate could be read and whose object
nobody else touched; `GateRespected` of polls in which the gate could be read;
`SettledEndsWait` excepts an object that nobody has a reason to write after the
apply that armed its gate; `CleanupEnds` a retaken name; `InventoryIsCurrent`
speaks of runs whose pre-clean saw the namespace gone, and not of NICs still
unpublished; `TornDown` excepts a delete that fails; `NothingLeft` lost creates
and failed deletes; `WithinBudget` a stalled ICMP exec, after which only tests
of that last family are left; `VfsInPlace` speaks of each node as it was read;
`SuccessIsEarned` speaks of runs in which no once-only read failed, since a
failed one is a skipped check; `DevicesConfigured` of configuration and firmware
templates; `AppliedInScope` of manifests deployed with the configuration of
their own run (a directory that a later run left half emptied included, a
half-written one not, as it has no configuration of its own), and of sources
that list workers; `AddressesUnique` of well-formed files (the same attributes
on all hosts, no plane on a host) and of groups the code keeps apart
(`KeptApart`); `PoolHoldsItsOwn`, in what it says of workers, of groups that
name some; `EndpointsHavePools` of VR under RA2.4 and RA3.1, the only profiles
that render endpoints.

Fairness. The command's next step is not delayed for ever (`WF` of `Command`):
it is one running process, and its HTTP calls return. The timer and the
five-minute window fire. `SF` of `WaitTimesOut`: a Go `select` picks at random
among ready cases, so a fired timer is not passed over for ever by ticks. `SF`
of `LiveScope` and `Validate`: a read retried every poll succeeds eventually. In
`Clean` a running operator processes each finalizer that can be processed;
without that no cleanup could end. In `Discovery` the timers of the three waits
fire (`WF` of `TimesOut`). In `Connectivity` and `Validate` the process runs on
(`WF` of `Run`): each call returns, by its own timeout at the latest, and the
deadline of `--wait` passes (`WF` of `DeadlinePasses`). `Generate`, `CrState`
and `SpectrumX` have no liveness property and no fairness. Nothing is assumed of
third parties, nor of the controller in `Reconcile`.

## What is proved

Proofs hold for all values of the constants: kinds, reference sets, bundles,
nodes, plans, orders, fault sets and bounds. Each proof module extends the
module it is about; an inductive invariant is a conjunction of named parts, each
with a sentence on what it says of the code.

`ReconcileProofs`. `TypeCorrect`. `GateTheorem`: `Spec => []GateRespected`. Not
inductive by itself: the verdict is taken two calls after the gate was read.
`GateInv` adds that an armed gate awaits 0 or the applied version, that a
cleared one has seen another version, and that behind the gate the live
version is another one; it rests on `Revisions`, that versions come from one
growing counter. `FreshTheorem`: `Spec => []FreshVerdict`. `BeforeApply` says
that in a first run the status belongs to the live spec and an earlier spec has
not changed since the pre-apply read, so that the apply raises the generation;
`AfterApply` says a stale status sits at exactly the awaited version. This
covers deletion and restoration at any point, by anybody. `TimeoutTheorem`:
`Spec => []TimeoutMeansPersistent`, by `WindowInv`: while the timer counts, and
once it has fired, the verdicts since its start hold a retryable error and none
that stops it.

`CleanProofs`. `TypeCorrect`; `Inductive`: sweeps start only after every root
policy was seen gone, hence nothing is created any more and what a sweep's
listing has passed stays empty (`RootsListed`, `WaitSound`, `RootsGone`,
`Swept`, `Emptied`). From it `OperatorLast`, `SuccessEmpty`, and `Refinement`:
`Clean` implements `Teardown`. It rests on `RefsAssumption`: only root policies'
controllers create refs, and they are cluster-scoped and not created by others.

`TakeoverProofs`. `TypeCorrect`. `KeepsNetworking`: `Spec => NetworkingKept`.
It rests on `Safe`: an absent policy has no section; resource versions, those
remembered too, are those of writes already made (`Numbered`), so that no
later write can restore one; what
was inspected had no section and still has none as long as UID and version
match (`EvidenceHolds`), which is what the delete's preconditions test; and
the sections l8k owns in the live policy at the apply are among those it
renders (`RendersAllMine`), although the check and the apply are two calls
with other clients between them. `BlockedRuns`: `Spec =>
[]BlockedRunTouchesNothing`, by `Met`: past each check, the conflict that
check looks for has not stood since the run began, and before the last of
them nothing was changed. `ReleaseReplacedOnRequest` and `NoSecondInstaller`
are the action properties `ReplacedOnRequest` and `OneInstaller`, by `Settled`:
on the way to an upgrade it was asked for, and before an apply, the re-apply of
a vanished policy included, nobody else's installer of what the bundle manages
has stood since the phase began.

`DeployProofs`. `DeployTypeCorrect`; `NothingPersisted`
(`DryRunPersistsNothing`), `SuccessIsVerified` (`SuccessMeansVerified`) and
`PoliciesGate` (the action property `PoliciesGateRest`). The inductive
`DeployInv` has where the loops of the phases are (`LoopsInBounds`), which
manifests a real run has seen ready by then (`SeenSoFar`), and that nothing is
written before Helm or by a dry run (`NoEarlyEffect`). `DryRunLeavesCluster`
says that the history variable `effects` misses nothing: no step of a dry run
changes the release, the strays, the drift or the manifests. `BundleAssumption`
is what `bundle/load.go` ensures, which refuses a resource declared twice:
policies are distinct and no other manifest is one of them.

The module also holds the theorems about what a deployment is given. It extends
`Generate` and `SpectrumX` too, which name their specifications `GenerateSpec`
and `SpectrumSpec` and share no variable with `Deploy`.

- `Generate`: `OutputOfOneRun` (`FilesOfOneRun`), `DeployedInScope`
  (`AppliedInScope`) and `DeployedPoolsKeepClear` (`DeployedPoolsClear`). None
  is inductive: `GenerateInv` adds that what is on disk is of a run that began,
  and of an earlier one until the current run writes (`RunsInOrder`), that
  manifests and effective configuration of one run are of one configuration
  (`OneConfPerRun`), and that what was assembled or written keeps off the ranges
  configured then (`PoolsChecked`). `ScopeExact` is what the deploy-time
  selector check implies, for any groups and documents. `FilesRemoved`,
  `FileWritten` and `CutFileKeeps` say what each step on the directory leaves in
  it.
- `PoolsNeverOverlap` (`PoolsDisjoint`): for any number of groups, rails and
  plans. `PoolsInv` says that what was rendered so far comes from one list of
  plans and one run of subnets, and that a plan's pools are cut at the places
  counted before it. The lemmas count: the places of a later plan come after
  those of an earlier one (`PlacesInOrder`), the filter and the renaming leave a
  list of plans (`FilteredGroups`, `PlansListed`, `RenamedPlans`), the subnets
  of a run follow one another without overlap (`OneRunOfSubnets`, `SubnetsCut`),
  and of a template's documents only the pools of its own rails are pools
  (`DocumentsOfScope`).
- The arithmetic of the pools, for every mask, start and offset: `SubnetsApart`
  (two subnets cut at different positions do not overlap) and `ReservedInside`
  (the reserved ranges lie inside their subnet and leave an address).
- The address schemes, for every tier, mode and IP version:
  `HostAddressesDistinct` and `VRAddressesDistinct` (equal prefixes come from
  equal coordinates, by one lemma per layout that reads the fields back from the
  octets they share), `PoolPrefixTellsPool` and `VRPoolPrefixTellsPool` (the
  network of an allocation tells its pool).
- `SpectrumX`: `PoolsHoldTheirOwn` (`PoolHoldsItsOwn`), `AddressesNeverShared`
  (`AddressesUnique`), `VRPoolsComplete`: an accepted VR group has a pool for
  both NICs of each of four rails, and `EndpointsFindPools`
  (`EndpointsHavePools`). `SpectrumInv` says that the file written so far
  decodes, that groups are built in order and each from the file. From there the
  argument is about one finished file: hosts that share a key have different
  numbers (`CountedApart`, `NumbersApart`), the coordinates of a link are those
  its host was numbered under (`LinkFacts`, `NetworkTellsKey`), so equal
  prefixes lead back to one host, whichever call gave them out. For the
  endpoints, `LayoutsChecked` and `AllAccepted` add that what is built has
  passed the layout checks and was accepted; a rendered group has the PFs of a
  source that passed (`MergedIsSource`), hence four rails of two NICs
  (`VRLayout`) and eight endpoints in four claims (`VRHasEight`, `FourClaims`).

`ConnectivityProofs`. `RunLeavesNothing` (`NothingLeft`), by `CleanupInv`: what
exists is excused or recorded while the run goes on, and still ahead of the
cleanup's position once that has begun; it needs what reversing, appending and
concatenating keep of a sequence's elements. `ForeignObjectsKept`: on OpenShift
no object that was there before the run is deleted. `ClientsMeetTheirServers`
(`ListenersCurrent`): starting a batch replaces whatever listens under its
program's name. `PassesAreMeasured` (`PassMeansMeasured`): one lemma per way a
row is reported (gateway, ICMP, a batch with or without output), over any plan,
route cache and network. The last two need to know how far the run is
(`ProbeInv`: which pods are listed, which tests planned, which batches are
left). `FailuresAreFresh` (`FailureNotInherited`): `RouteInv` says that the
cache holds no failed lookup, and that a route that failed was looked up in this
family. `TestsFitTheBudget` (`WithinBudget`): `BudgetInv` says that the clock is
within the sum of what the families before may take and of the part the running
one has spent, or an ICMP exec has hung; it needs that sums over lists of tests
and batches grow with each element, that the batches of a family are the ones
its budget was made from, and that a list filtered by a set of positions is a
list. These are inductions over sets of numbers, which the library's set forms
of induction allow.

`DiscoveryProofs`. `DiscoveryTearsDown` (`TornDown`): `ControlInv` says which
returns lead to the teardown, `TeardownInv` what each delete has achieved, while
the namespace drains and other actors go on. `InventoryCurrent`
(`InventoryIsCurrent`): once the namespace was seen gone nothing older than this
run's daemon is published in it (`FreshDevices`), so that every NIC listed is
one its node has (`ReadIsCurrent`) and only requested nodes are in it
(`Scoped`). `PlansComeTrue` (`PlanPredictsOutcome`), by `PlanInv`: as long as
nobody else changes nodes or labels, the labels there are, with the patches that
are left, are those that were validated.

`CrStateProofs`. `RelaxedPolicyIsReady` (`ManagedReady`), from what
`openShiftPolicyResult` computes. `ReadyPolicyHasVfs` (`VfsInPlace`), by
`SriovInv`: a node read as successful had the functions the policy, as it was
read, asks for, whatever became of policy and functions since.
`ConfiguredDevicesRun` (`DevicesConfigured`), by `DevicesKnown`: a condition of
a device is honest about the hardware for the generation it names, whatever was
edited while the daemon was at work, and a section that has not changed since is
what it is about.

`ValidateProofs`. `ZeroIsEarned` (`SuccessIsEarned`) and `ReportTellsExit`
(`JUnitTellsExit`). The invariants follow the run: the JUnit writer's data is
that of the request (`Prepared`), with no failed read each check says what the
cluster does (`Reads`), the results are those of the objects as they were seen
(`Judged`), only a bundle that is ready goes on to the matrix (`Passed`), whose
rows are real (`Measured`); so exit code 0 stands for all of it (`Earned`), and
the file was built from the same data (`Written`). The lemmas say what a check
that does not object implies (`VersionCompared`, `ComponentsCompared`,
`ValuesCompared`, `ObjectsJudged`) and which cases a clean and a failed run
have (`CleanCases`, `FailureHasCase`).

The assumptions are those named `ASSUME` in the modules; TLC evaluates them in
every run. Most give a constant its shape (`TemplatesAssumption`,
`PoliciesAssumption`, `HardwareAssumption`, `ConnectivityAssumption`,
`WorldsAssumption`, `NodesAssumption`: internal addresses are numbers;
`SettingsAssumption`: there is a plan to render and a source in each, in two or
three tiers, and a topology file is a list of links of one format whose fields
are what its decoder lets through; `InputsAssumption`: a configuration lists its
groups and their PFs, and the numbers of its address plan are numbers); those
that say more are `RefsAssumption`, `BundleAssumption`, that Helm names a
release's secrets by release and revision (`SecretsOfHelm`), and that the NIC
daemon's labels are those of east-west hardware (`TouchedAssumption`). The
inductive invariants were checked with TLC on the runs' instances before they
were proved.

Only model-checked, and why:

- termination (`MismatchEndsWait`, `SettledEndsWait`, `DriftEndsWait`,
  `CleanupEnds`, `DiscoveryEnds`, `RunEnds`, `ValidateEnds`): liveness under
  fairness is outside the prover;
- `FreshAfterRerun` is false, see the finding.

The type invariants of `Reconcile`, `Clean`, `Takeover` and `Deploy` are
theorems; those of `Discovery` and `Validate` document the state and hold on the
instances of their runs when added to the configuration.

## Plan

1. Done: all modules, their runs, and proofs about all ten components that have
   a specification.
2. Done: every invariant and every safety action property the runs check is a
   theorem. Liveness stays with TLC.

## Not modelled

Text templates and their output, formatting, reports and logging, flag parsing,
schema generation, release catalogs and build tools: no state, or only text.
GPU, fabric and firmware probes and the rail assignment of discovery are
abstracted to what they find. The merging of configuration layers, profile
selection, chart and firmware download, and the OpenShift steps of `ocp*.go`
beyond their order in `Deploy` are not modelled. Two `l8k` runs at the same time
are not modelled (other Helm clients and other writers of policies are), nor in
`Takeover` the OpenShift variant, which has no Helm phase and no stray checks,
nor `DiscoverReadOnly`, which writes nothing.

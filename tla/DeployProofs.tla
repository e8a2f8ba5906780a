---------------------------- MODULE DeployProofs ----------------------------
(***************************************************************************)
(* Theorems about Deploy: the order of the phases of l8k deploy and what a *)
(* dry run, a refusal and a success stand for, for bundles of any size,    *)
(* every fault and every interleaving with the cluster's controllers; then *)
(* about what a deployment is given: the files, selectors and pools of     *)
(* Generate, and the addresses that Ipam and Addressing compute.           *)
(***************************************************************************)
EXTENDS Deploy, Generate, SpectrumX, FiniteSetTheorems, WellFoundedInduction, TLAPS

\* Where the loops of phases 1-4 are, and that only a real run waits.
LoopsInBounds ==
    /\ pc \in {"policy", "policyWait"} => i <= Len(Policies) + 1
    /\ pc = "policyWait" => i <= Len(Policies)
    /\ pc \in {"other", "otherRetry", "verify"} => i <= Len(Others) + 1
    /\ pc = "otherRetry" => i <= Len(Others)
    /\ pc \in {"policyWait", "otherRetry", "verify"} => ~dryRun
    /\ pc # "done" => result = "none"

\* What a real run has seen ready when it is in each of the phases.
SeenSoFar ==
    ~dryRun =>
      /\ pc \in {"policy", "policyWait"} =>
           \A k \in 1..Len(Policies) : k < i => Policies[k] \in seen
      /\ pc \in {"api", "other", "otherRetry", "verify"} =>
           \A k \in 1..Len(Policies) : Policies[k] \in seen
      /\ pc = "verify" =>
           \A k \in 1..Len(Others) : k < i => Others[k] \in seen

\* Nothing is written before Helm, and nothing by a dry run.
NoEarlyEffect ==
    /\ pc \in {"inspect", "helm"} \/ dryRun => effects = {}
    /\ result \in {"inspection", "conflict"} => effects = {}

\* The inductive invariant of the command.
DeployInv ==
    /\ TypeOK /\ LoopsInBounds /\ SeenSoFar /\ NoEarlyEffect
    /\ SuccessMeansVerified

-----------------------------------------------------------------------------
(* The bundle.                                                             *)

\* The manifests are the documents of the two lists.
LEMMA BundleDocuments ==
    /\ Len(Policies) \in Nat /\ Len(Others) \in Nat
    /\ \A k \in 1..Len(Policies) : Policies[k] \in Manifests
    /\ \A k \in 1..Len(Others) : Others[k] \in Manifests /\ Others[k] \in ToSet(Others)
    /\ \A m \in Manifests : \/ \E k \in 1..Len(Policies) : m = Policies[k]
                            \/ \E k \in 1..Len(Others) : m = Others[k]
<1>1. Policies \in Seq(Manifests) /\ Others \in Seq(Manifests)
  BY BundleAssumption
<1>2. /\ Len(Policies) \in Nat /\ DOMAIN Policies = 1..Len(Policies)
      /\ Len(Others) \in Nat /\ DOMAIN Others = 1..Len(Others)
  BY <1>1
<1> QED
  BY <1>2 DEF Manifests, ToSet

\* A policy is none of the other manifests, and no two policies are the same.
LEMMA BundleDistinct ==
    /\ \A k \in 1..Len(Policies) : Policies[k] \notin ToSet(Others)
    /\ \A j, k \in 1..Len(Policies) : Policies[j] = Policies[k] => j = k
<1>1. DOMAIN Policies = 1..Len(Policies)
  BY BundleAssumption
<1> QED
  BY <1>1, BundleAssumption DEF ToSet, IsInjective

-----------------------------------------------------------------------------
(* The invariant is inductive.                                             *)

\* The inspections start with nothing written and nothing seen.
LEMMA DeployInit == Init => DeployInv
<1> SUFFICES ASSUME Init PROVE DeployInv
  OBVIOUS
<1>1. served \in BOOLEAN
  BY DEF Init
<1>2. objects \subseteq Manifests /\ ready \subseteq objects
  BY DEF Init
<1>3. i \in 1..(Len(Policies) + Len(Others) + 1) /\ attempt \in 1..MaxAttempts
  BY BundleDocuments DEF Init, MaxAttempts
<1>4. TypeOK
  BY <1>1, <1>2, <1>3 DEF Init, TypeOK, Steps, Results
<1> QED
  BY <1>4 DEF Init, DeployInv, LoopsInBounds, SeenSoFar, NoEarlyEffect, SuccessMeansVerified

\* What the cluster does by itself, and the passing of time, leave the
\* command's progress alone.
LEMMA EnvironmentStep ==
    ASSUME DeployInv,
           \/ \E m \in Manifests : Reconciles(m)
           \/ ApiInstalled \/ Cancel \/ ApiDeadline \/ UNCHANGED vars
    PROVE  DeployInv'
<1> USE DEF DeployInv, TypeOK, LoopsInBounds, SeenSoFar, NoEarlyEffect,
            SuccessMeansVerified, optionVars, clusterVars
<1>1. CASE \E m \in Manifests : Reconciles(m)
  BY <1>1 DEF Reconciles
<1>2. CASE ApiInstalled
  BY <1>2 DEF ApiInstalled
<1>3. CASE Cancel
  BY <1>3 DEF Cancel
<1>4. CASE ApiDeadline
  BY <1>4 DEF ApiDeadline
<1>5. CASE UNCHANGED vars
  BY <1>5 DEF vars
<1> QED
  BY <1>1, <1>2, <1>3, <1>4, <1>5

\* The phases that come before the first manifest.
LEMMA EarlyStep ==
    ASSUME DeployInv,
           \/ Inspect \/ HelmRefused \/ HelmInstall \/ Preflight
           \/ (\E s \in Strays : RemoveStray(s)) \/ Remediated \/ Configure
    PROVE  DeployInv'
<1> USE BundleDocuments
    DEF DeployInv, TypeOK, LoopsInBounds, SeenSoFar, NoEarlyEffect,
        SuccessMeansVerified, optionVars, clusterVars, runVars, GoTo, Finish,
        Steps, Results, Effects, MaxAttempts
<1>1. CASE Inspect
  BY <1>1 DEF Inspect
<1>2. CASE HelmRefused
  BY <1>2 DEF HelmRefused
<1>3. CASE HelmInstall
  <2>1. /\ release' \in {"absent", "same", "different", "pending"}
        /\ effects' \subseteq Effects /\ (dryRun => effects' = effects)
    BY <1>3 DEF HelmInstall
  <2> QED
    BY <1>3, <2>1 DEF HelmInstall
<1>4. CASE Preflight
  <2>1. PICK d \in Readable(VersionDrift), s \in Readable(ConflictingStrays) :
           PreflightFound(WithStrays(d, s), s)
    BY <1>4 DEF Preflight
  <2>2. s \subseteq Strays
    BY DEF Readable, ConflictingStrays
  <2> QED
    BY <1>4, <2>1, <2>2 DEF Preflight, PreflightFound
<1>5. CASE \E s \in Strays : RemoveStray(s)
  BY <1>5 DEF RemoveStray
<1>6. CASE Remediated
  BY <1>6 DEF Remediated
<1>7. CASE Configure
  BY <1>7 DEF Configure
<1> QED
  BY <1>1, <1>2, <1>3, <1>4, <1>5, <1>6, <1>7

\* What applying a manifest may change, in a dry run and in a real one.
AppliedTypes ==
    /\ objects' \subseteq Manifests /\ ready' \subseteq objects'
    /\ drift' \in BOOLEAN /\ effects' \subseteq Effects
    /\ dryRun => effects' = effects

\* An apply leaves the cluster's view of the bundle well-formed.
LEMMA ApplyTypes ==
    ASSUME TypeOK, NEW m \in Manifests, ApplyManifest(m)
    PROVE  AppliedTypes
<1>1. drift' \in BOOLEAN
  BY DEF ApplyManifest, TypeOK
<1> QED
  BY <1>1 DEF ApplyManifest, TypeOK, AppliedTypes, Effects

\* Phases 1 to 4 when nothing fails.
LEMMA BundleStep ==
    ASSUME DeployInv,
           \/ ApplyPolicy \/ PolicyReady \/ PoliciesDone \/ ApiCompatible
           \/ ApplyOther \/ RetryPod \/ DeferOther \/ AwaitApi
           \/ OthersDone \/ VerifyReady \/ Deployed
    PROVE  DeployInv'
<1> USE BundleDocuments
    DEF DeployInv, TypeOK, LoopsInBounds, SeenSoFar, NoEarlyEffect,
        SuccessMeansVerified, optionVars, clusterVars, runVars, GoTo, Finish,
        Steps, Results, Effects, MaxAttempts
<1>1. CASE ApplyPolicy
  <2>1. i \in 1..Len(Policies) /\ Policies[i] \in Manifests
    BY <1>1 DEF ApplyPolicy
  <2>2. AppliedTypes
    BY <1>1, <2>1, ApplyTypes DEF ApplyPolicy
  <2>3. TypeOK'
    BY <1>1, <2>1, <2>2 DEF ApplyPolicy, AppliedTypes
  <2>4. LoopsInBounds'
    BY <1>1, <2>1 DEF ApplyPolicy
  <2>5. SeenSoFar' /\ SuccessMeansVerified'
    BY <1>1, <2>1 DEF ApplyPolicy
  <2>6. NoEarlyEffect'
    BY <1>1, <2>2 DEF ApplyPolicy, AppliedTypes
  <2> QED
    BY <2>3, <2>4, <2>5, <2>6
<1>2. CASE PolicyReady
  BY <1>2 DEF PolicyReady
<1>3. CASE PoliciesDone
  BY <1>3 DEF PoliciesDone
<1>4. CASE ApiCompatible
  BY <1>4 DEF ApiCompatible
<1>5. CASE ApplyOther
  <2>1. i \in 1..Len(Others) /\ Others[i] \in Manifests
    BY <1>5 DEF ApplyOther
  <2>2. AppliedTypes
    BY <1>5, <2>1, ApplyTypes DEF ApplyOther
  <2>3. TypeOK'
    <3>1. pc' \in Steps /\ i' \in 1..(Len(Policies) + Len(Others) + 1)
      BY <1>5, <2>1 DEF ApplyOther
    <3>2. attempt' = 1 /\ expired' = FALSE
      BY <1>5 DEF ApplyOther
    <3>3. attempt' \in 1..MaxAttempts
      BY <3>2 DEF MaxAttempts
    <3> QED
      BY <1>5, <2>2, <3>1, <3>2, <3>3 DEF ApplyOther, AppliedTypes
  <2>4. LoopsInBounds'
    BY <1>5, <2>1 DEF ApplyOther
  <2>5. SeenSoFar' /\ SuccessMeansVerified'
    BY <1>5 DEF ApplyOther
  <2>6. NoEarlyEffect'
    BY <1>5, <2>2 DEF ApplyOther, AppliedTypes
  <2> QED
    BY <2>3, <2>4, <2>5, <2>6
<1>6. CASE RetryPod
  BY <1>6 DEF RetryPod
<1>7. CASE DeferOther
  BY <1>7 DEF DeferOther
<1>8. CASE AwaitApi
  BY <1>8 DEF AwaitApi
<1>9. CASE OthersDone
  BY <1>9 DEF OthersDone
<1>10. CASE VerifyReady
  BY <1>10 DEF VerifyReady
<1>11. CASE Deployed
  <2>1. Manifests \subseteq seen
    BY <1>11 DEF Deployed
  <2> QED
    BY <1>11, <2>1 DEF Deployed, End
<1> QED
  BY <1>1, <1>2, <1>3, <1>4, <1>5, <1>6, <1>7, <1>8, <1>9, <1>10, <1>11

\* A phase that fails ends the command with what it had done.
LEMMA FailureStep ==
    ASSUME DeployInv, Failure \/ OtherFails
    PROVE  DeployInv'
<1> USE DEF DeployInv, TypeOK, LoopsInBounds, SeenSoFar, NoEarlyEffect,
        SuccessMeansVerified, optionVars, clusterVars, runVars, Finish, End,
        Steps, Results, Effects
<1>1. CASE InspectFails
  BY <1>1 DEF InspectFails
<1>2. CASE HelmFails
  BY <1>2 DEF HelmFails
<1>3. CASE RemediationFails
  BY <1>3 DEF RemediationFails
<1>4. CASE ConfigFails
  BY <1>4 DEF ConfigFails
<1>5. CASE PolicyFails
  BY <1>5 DEF PolicyFails
<1>6. CASE ApiFails
  BY <1>6 DEF ApiFails
<1>7. CASE RetryRejected
  BY <1>7 DEF RetryRejected
<1>8. CASE OtherFails
  <2>1. pc \in {"other", "otherRetry"} /\ End("apply")
    BY <1>8 DEF OtherFails
  <2> QED
    BY <2>1
<1>9. CASE VerifyFails
  BY <1>9 DEF VerifyFails
<1> QED
  BY <1>1, <1>2, <1>3, <1>4, <1>5, <1>6, <1>7, <1>8, <1>9 DEF Failure

\* The order of the phases and what each has established.
LEMMA DeployInvariant == Spec => []DeployInv
<1>1. DeployInv /\ [Next]_vars => DeployInv'
  BY EnvironmentStep, EarlyStep, BundleStep, FailureStep DEF Next, Command, Terminated
<1> QED
  BY <1>1, DeployInit, PTL DEF Spec

-----------------------------------------------------------------------------
(* The theorems.                                                           *)

\* Every variable of the command and of the cluster stays in its type.
THEOREM DeployTypeCorrect == Spec => []TypeOK
<1>1. DeployInv => TypeOK
  BY DEF DeployInv
<1> QED
  BY <1>1, DeployInvariant, PTL

\* No phase writes on a dry run, and no inspection or conflict gate refuses
\* after something was written.
THEOREM NothingPersisted == Spec => []DryRunPersistsNothing
<1>1. DeployInv => DryRunPersistsNothing
  BY DEF DeployInv, NoEarlyEffect, DryRunPersistsNothing
<1> QED
  BY <1>1, DeployInvariant, PTL

\* applyBundleWithInstaller returns nil for a real run only when every manifest
\* of the bundle was seen ready after it was applied.
THEOREM SuccessIsVerified == Spec => []SuccessMeansVerified
<1>1. DeployInv => SuccessMeansVerified
  BY DEF DeployInv
<1> QED
  BY <1>1, DeployInvariant, PTL

\* The history of effects misses nothing: a step of a dry run leaves the
\* release, the strays and the manifests of the cluster as they are.
THEOREM DryRunLeavesCluster ==
    Spec => [][dryRun => UNCHANGED <<release, strays, drift, objects>>]_vars
<1>1. DeployInv /\ [Next]_vars
        => [dryRun => UNCHANGED <<release, strays, drift, objects>>]_vars
  <2> SUFFICES ASSUME DeployInv, Next, dryRun
               PROVE  UNCHANGED <<release, strays, drift, objects>>
    OBVIOUS
  <2> USE DEF clusterVars, End
  <2>1. CASE (\E m \in Manifests : Reconciles(m)) \/ ApiInstalled \/ Cancel \/ ApiDeadline \/ Terminated
    BY <2>1 DEF Reconciles, ApiInstalled, Cancel, ApiDeadline, Terminated, vars
  <2>2. CASE Failure
    BY <2>2 DEF Failure, InspectFails, HelmFails, RemediationFails, ConfigFails,
                PolicyFails, ApiFails, RetryRejected, VerifyFails
  <2>3. CASE Inspect \/ HelmRefused \/ HelmInstall \/ Preflight
             \/ (\E s \in Strays : RemoveStray(s)) \/ Remediated \/ Configure
    BY <2>3 DEF Inspect, HelmRefused, HelmInstall, Preflight, RemoveStray, Remediated, Configure
  <2>4. CASE ApplyPolicy \/ PolicyReady \/ PoliciesDone \/ ApiCompatible
             \/ ApplyOther \/ RetryPod \/ OtherFails \/ DeferOther \/ AwaitApi
             \/ OthersDone \/ VerifyReady \/ Deployed
    BY <2>4 DEF ApplyPolicy, PolicyReady, PoliciesDone, ApiCompatible, ApplyOther,
                RetryPod, OtherFails, DeferOther, AwaitApi, OthersDone, VerifyReady,
                Deployed, ApplyManifest
  <2> QED
    BY <2>1, <2>2, <2>3, <2>4 DEF Next, Command
<1> QED
  BY <1>1, DeployInvariant, PTL DEF Spec

\* Nothing of the bundle is created before this run has seen every earlier
\* policy ready.
THEOREM PoliciesGate == Spec => PoliciesGateRest
<1> DEFINE Gate ==
      \A m \in objects' \ objects, k \in 1..Len(Policies) :
         (m \in ToSet(Others) \/ \E j \in (k + 1)..Len(Policies) : m = Policies[j])
            => Policies[k] \in seen
<1>1. DeployInv /\ [Next]_vars => [Gate]_vars
  <2> SUFFICES ASSUME DeployInv, Next PROVE Gate
    OBVIOUS
  <2> USE DEF clusterVars, End
  <2>1. CASE (\E m \in Manifests : Reconciles(m)) \/ ApiInstalled \/ Cancel \/ ApiDeadline \/ Terminated
    BY <2>1 DEF Reconciles, ApiInstalled, Cancel, ApiDeadline, Terminated, vars
  <2>2. CASE Failure
    BY <2>2 DEF Failure, InspectFails, HelmFails, RemediationFails, ConfigFails,
                PolicyFails, ApiFails, RetryRejected, VerifyFails
  <2>3. CASE Inspect \/ HelmRefused \/ HelmInstall \/ Preflight
             \/ (\E s \in Strays : RemoveStray(s)) \/ Remediated \/ Configure
    BY <2>3 DEF Inspect, HelmRefused, HelmInstall, Preflight, RemoveStray, Remediated, Configure
  <2>4. CASE ApplyPolicy
    <3>1. /\ i \in 1..Len(Policies) /\ \A m \in objects' \ objects : m = Policies[i] /\ ~dryRun
          /\ pc = "policy"
      BY <2>4, BundleDocuments DEF ApplyPolicy, ApplyManifest, DeployInv, TypeOK
    <3>2. ~dryRun => \A k \in 1..Len(Policies) : k < i => Policies[k] \in seen
      BY <3>1 DEF DeployInv, SeenSoFar
    <3>3. ASSUME NEW m \in objects' \ objects, NEW k \in 1..Len(Policies),
                 m \in ToSet(Others) \/ \E j \in (k + 1)..Len(Policies) : m = Policies[j]
          PROVE  Policies[k] \in seen
      <4>1. m = Policies[i] /\ ~dryRun
        BY <3>1
      <4>2. PICK j \in (k + 1)..Len(Policies) : m = Policies[j]
        BY <3>1, <3>3, <4>1, BundleDistinct
      <4>3. j \in 1..Len(Policies) /\ k < j
        BY BundleDocuments
      <4>4. i = j
        BY <3>1, <4>1, <4>2, <4>3, BundleDistinct
      <4> QED
        BY <3>2, <4>1, <4>3, <4>4
    <3> QED
      BY <3>3
  <2>5. CASE ApplyOther
    <3>1. pc \in {"other", "otherRetry"} /\ \A m \in objects' \ objects : ~dryRun
      BY <2>5 DEF ApplyOther, ApplyManifest
    <3> QED
      BY <3>1 DEF DeployInv, SeenSoFar
  <2>6. CASE PolicyReady \/ PoliciesDone \/ ApiCompatible
             \/ RetryPod \/ OtherFails \/ DeferOther \/ AwaitApi
             \/ OthersDone \/ VerifyReady \/ Deployed
    BY <2>6 DEF PolicyReady, PoliciesDone, ApiCompatible, RetryPod, OtherFails,
                DeferOther, AwaitApi, OthersDone, VerifyReady, Deployed
  <2> QED
    BY <2>1, <2>2, <2>3, <2>4, <2>5, <2>6 DEF Next, Command
<1> QED
  BY <1>1, DeployInvariant, PTL DEF Spec, PoliciesGateRest

-----------------------------------------------------------------------------
(* The specification of generate, for every inventory, set of inputs,      *)
(* cluster and number of runs.                                             *)

\* A run before its first write to the output directory.
Unsaved == {"check", "plan", "render", "bundle", "clean"}

\* Everything on disk is of a run that began, and of an earlier one until the
\* current run writes it itself.
RunsInOrder ==
    /\ run \in Nat /\ (phase # "idle" => run > 0)
    /\ \A f \in DOMAIN disk : disk[f].conf.run \in 1..run
    /\ sidecar # <<>> => sidecar[1].run \in 1..run
    /\ phase \in Unsaved => \A f \in DOMAIN disk : disk[f].conf.run < run
    /\ phase \in Unsaved \cup {"save"} => sidecar = <<>> \/ sidecar[1].run < run
    /\ phase = "save" => \A f \in DOMAIN disk : disk[f].conf = Conf

\* The manifests and the sidecar of one run are of one configuration.
OneConfPerRun ==
    sidecar # <<>> =>
        \A f \in DOMAIN disk : disk[f].conf.run = sidecar[1].run => disk[f].conf = sidecar[1]

\* The pools among some documents keep off the configured ranges.
KeepOff(docs, cluster) ==
    \A d \in docs : d.kind = "IPPool" =>
        \A r \in configuredCIDRs(cluster) : ~Overlaps(d.subnet[1], r)

\* What was assembled or written passed the check of generate.
PoolsChecked ==
    /\ phase \in {"clean", "save", "deploy"} => KeepOff(Docs(results), Conf.cluster)
    /\ \A f \in DOMAIN disk : KeepOff(disk[f].docs, disk[f].conf.cluster)

\* The inductive invariant of generate.
GenerateInv == RunsInOrder /\ OneConfPerRun /\ PoolsChecked /\ FilesOfOneRun

\* A pool an accepted set of documents holds, as the check sees it.
LEMMA PoolsOfDocs ==
    ASSUME NEW files, NEW d \in Docs(files), d.kind = "IPPool"
    PROVE  d.subnet[1] \in ipPoolCIDRs(Pools(files))
<1>1. [kind |-> "IPPool", subnet |-> d.subnet[1]] \in Pools(files)
  BY DEF Pools
<1> QED
  BY <1>1 DEF ipPoolCIDRs

\* The check of generate keeps pools off the configured ranges.
LEMMA ConfiguredChecked ==
    ASSUME NEW files, NEW cluster, CheckConfiguredIPPoolCIDRs(Pools(files), cluster)
    PROVE  KeepOff(Docs(files), cluster)
  BY PoolsOfDocs DEF KeepOff, CheckConfiguredIPPoolCIDRs, checkCIDROverlaps

\* The check of deploy does so with the configuration it loaded.
LEMMA LiveChecked ==
    ASSUME NEW files, NEW cluster, NEW apis, NEW nodes,
           checkLiveIPPoolCIDRs(Pools(files), cluster, apis, nodes)
    PROVE  KeepOff(Docs(files), cluster)
  BY PoolsOfDocs DEF KeepOff, checkLiveIPPoolCIDRs, checkCIDROverlaps

\* One address, as a range, meets a range exactly when it lies in it.
LEMMA OneAddress ==
    ASSUME NEW ip \in Nat, NEW s,
           ~Overlaps(s, [net |-> ip, mask |-> AddrBits])
    PROVE  ~(Network(s) <= ip /\ ip <= Broadcast(s))
<1> DEFINE one == [net |-> ip, mask |-> AddrBits]
<1>1. BlockSize(one.mask) = 1
  BY AddrBitsAssumption DEF BlockSize
<1>2. Network(one) = ip
  BY <1>1 DEF Network
<1>3. Broadcast(one) = ip
  BY <1>1, <1>2 DEF Broadcast
<1> QED
  BY <1>2, <1>3 DEF Overlaps

\* ... and keeps every node's own address out of the pools.
LEMMA NodesChecked ==
    ASSUME NEW files, NEW cluster, NEW apis, NEW nodes \in NodeReads,
           checkLiveIPPoolCIDRs(Pools(files), cluster, apis, nodes),
           NEW d \in Docs(files), d.kind = "IPPool",
           NEW n \in Nodes, NEW ip \in n.internal
    PROVE  ~(Network(d.subnet[1]) <= ip /\ ip <= Broadcast(d.subnet[1]))
<1> DEFINE s == d.subnet[1]
           ranges == nodeCIDRs(nodes.value, cluster.pods # {})
           one == [net |-> ip, mask |-> AddrBits]
<1>1. s \in ipPoolCIDRs(Pools(files))
  BY PoolsOfDocs
<1>2. /\ nodes.ok
      /\ \A r \in ranges : ~Overlaps(s, r)
  BY <1>1 DEF checkLiveIPPoolCIDRs, checkCIDROverlaps
<1>3. nodes.value = Nodes
  BY <1>2 DEF NodeReads, Done, Refused
<1>4. one \in ranges
  BY <1>3 DEF nodeCIDRs
<1> QED
  BY <1>2, <1>4, OneAddress, NodesAssumption

\* A document whose scope was resolved and checked selects exactly the workers
\* of its sources.
LEMMA ScopeExact ==
    ASSUME NEW doc, NEW groups, hasTargetScope(doc),
           inspectDesiredTargetScope(doc, groups, Nodes)
    PROVE  InScope(doc, groups)
<1> DEFINE mine == {g \in ToSet(groups) : g.id \in doc.sources}
           intended == UNION {g.workers : g \in mine}
           scope == resolveTargetScope(doc, groups)
<1> SUFFICES ASSUME intended # {}
             PROVE  /\ SelectedNodes(doc, Nodes) = intended
                    /\ \A g \in ToSet(groups) \ mine :
                          g.workers \cap SelectedNodes(doc, Nodes) = {}
  BY DEF InScope
<1>1. doc.sources # {}
  OBVIOUS
<1>2. scope.ok /\ checkTargetScope(doc, scope.value, Nodes)
  BY DEF inspectDesiredTargetScope
<1>3. /\ scope.value = intended
      /\ \A j, k \in DOMAIN groups : j # k => groups[j].workers \cap groups[k].workers = {}
  BY <1>1, <1>2 DEF resolveTargetScope, Refused, Done
<1>4. SelectedNodes(doc, Nodes) = intended
  BY <1>2, <1>3 DEF checkTargetScope
<1>5. ASSUME NEW g \in ToSet(groups) \ mine, NEW w \in g.workers, w \in intended
      PROVE  FALSE
  <2>1. PICK h \in mine : w \in h.workers
    BY <1>5
  <2>2. PICK j \in DOMAIN groups : g = groups[j]
    BY DEF ToSet
  <2>3. PICK k \in DOMAIN groups : h = groups[k]
    BY DEF ToSet
  <2> QED
    BY <1>3, <1>5, <2>1, <2>2, <2>3
<1> QED
  BY <1>4, <1>5

LEMMA GenerateInitially == GenerateInit => GenerateInv
  BY DEF GenerateInit, GenerateInv, RunsInOrder, OneConfPerRun, PoolsChecked, FilesOfOneRun,
         Unsaved

\* A step that writes nothing and stays in the run, goes back to idle or moves
\* on before the bundle is assembled.
LEMMA NothingWritten ==
    ASSUME GenerateInv, UNCHANGED <<run, disk, sidecar>>,
           \/ phase' = "idle"
           \/ phase \in Unsaved /\ phase' \in {"check", "plan", "render", "bundle"}
    PROVE  GenerateInv'
  BY DEF GenerateInv, RunsInOrder, OneConfPerRun, PoolsChecked, FilesOfOneRun, Unsaved

LEMMA FailKeeps ==
    ASSUME GenerateInv, Fail
    PROVE  GenerateInv'
  BY NothingWritten DEF Fail, Gone

LEMMA RenderingKeeps ==
    ASSUME GenerateInv,
           CheckInput \/ Plan \/ RenderTemplate \/ RenderWorkload
    PROVE  GenerateInv'
<1>1. CASE Fail
  BY <1>1, FailKeeps
<1>2. CASE ~Fail
  <2>1. /\ UNCHANGED <<run, disk, sidecar>>
        /\ phase \in Unsaved /\ phase' \in {"check", "plan", "render", "bundle"}
    BY <1>2 DEF CheckInput, Plan, RenderTemplate, RenderWorkload, Unsaved
  <2> QED
    BY <2>1, NothingWritten
<1> QED
  BY <1>1, <1>2

LEMMA BeginKeeps ==
    ASSUME GenerateInv, Begin
    PROVE  GenerateInv'
<1>1. /\ run' = run + 1 /\ phase' = "check" /\ UNCHANGED <<disk, sidecar>>
  BY DEF Begin
<1> QED
  BY <1>1 DEF GenerateInv, RunsInOrder, OneConfPerRun, PoolsChecked, FilesOfOneRun, Unsaved

LEMMA AssembleKeeps ==
    ASSUME GenerateInv, Assemble
    PROVE  GenerateInv'
<1>1. CASE Fail
  BY <1>1, FailKeeps
<1>2. CASE ~Fail
  <2>1. /\ phase = "bundle" /\ phase' = "clean"
        /\ CheckConfiguredIPPoolCIDRs(Pools(results), cfg[1].cluster)
        /\ UNCHANGED <<run, cfg, disk, sidecar, results>>
    BY <1>2 DEF Assemble, rendering
  <2>2. KeepOff(Docs(results), Conf.cluster)
    BY <2>1, ConfiguredChecked DEF Conf
  <2>3. PoolsChecked'
    BY <2>1, <2>2 DEF GenerateInv, PoolsChecked, Conf
  <2> QED
    BY <2>1, <2>3 DEF GenerateInv, RunsInOrder, OneConfPerRun, FilesOfOneRun, Unsaved
<1> QED
  BY <1>1, <1>2

\* A step that only takes files away and ends the run or stays in its phase.
LEMMA FilesRemoved ==
    ASSUME GenerateInv, NEW kept \in SUBSET DOMAIN disk,
           disk' = [g \in kept |-> disk[g]], UNCHANGED <<run, sidecar>>,
           \/ phase' = "idle"
           \/ phase = "clean" /\ phase' = "clean" /\ UNCHANGED <<cfg, results>>
    PROVE  GenerateInv'
<1>1. DOMAIN disk' \subseteq DOMAIN disk /\ \A g \in DOMAIN disk' : disk'[g] = disk[g]
  OBVIOUS
<1>2. RunsInOrder'
  BY <1>1 DEF GenerateInv, RunsInOrder, Unsaved
<1>3. OneConfPerRun' /\ FilesOfOneRun'
  BY <1>1 DEF GenerateInv, OneConfPerRun, FilesOfOneRun
<1>4. PoolsChecked'
  BY <1>1 DEF GenerateInv, PoolsChecked, Conf
<1> QED
  BY <1>2, <1>3, <1>4 DEF GenerateInv

LEMMA CleanDirectoryKeeps ==
    ASSUME GenerateInv, CleanDirectory
    PROVE  GenerateInv'
<1>1. CASE Fail
  BY <1>1, FailKeeps
<1>2. CASE /\ \E stuck \in DOMAIN disk : disk' = [g \in {stuck} |-> disk[g]]
           /\ Gone /\ UNCHANGED <<run, sidecar>>
  <2>1. PICK stuck \in DOMAIN disk : disk' = [g \in {stuck} |-> disk[g]]
    BY <1>2
  <2>2. {stuck} \in SUBSET DOMAIN disk /\ phase' = "idle" /\ UNCHANGED <<run, sidecar>>
    BY <1>2 DEF Gone
  <2> QED
    BY <2>1, <2>2, FilesRemoved
<1>3. CASE /\ DOMAIN disk # {} /\ phase = "clean"
           /\ disk' = [g \in DOMAIN disk \ {CHOOSE g \in DOMAIN disk : TRUE} |-> disk[g]]
           /\ UNCHANGED <<run, cfg, phase, sidecar>> /\ UNCHANGED rendering
  <2> DEFINE remaining == DOMAIN disk \ {CHOOSE g \in DOMAIN disk : TRUE}
  <2>1. remaining \in SUBSET DOMAIN disk /\ disk' = [g \in remaining |-> disk[g]]
    BY <1>3
  <2>2. phase = "clean" /\ phase' = "clean" /\ UNCHANGED <<run, sidecar, cfg, results>>
    BY <1>3 DEF rendering
  <2> QED
    BY <2>1, <2>2, FilesRemoved
<1>4. CASE /\ DOMAIN disk = {} /\ phase = "clean" /\ phase' = "save"
           /\ UNCHANGED <<run, cfg, disk, sidecar>> /\ UNCHANGED rendering
  <2>1. UNCHANGED results
    BY <1>4 DEF rendering
  <2>2. PoolsChecked'
    BY <1>4, <2>1 DEF GenerateInv, PoolsChecked, Conf
  <2> QED
    BY <1>4, <2>2 DEF GenerateInv, RunsInOrder, OneConfPerRun, FilesOfOneRun, Unsaved
<1> QED
  BY <1>1, <1>2, <1>3, <1>4 DEF CleanDirectory

\* A file written by the current run, whole or in part.
LEMMA FileWritten ==
    ASSUME GenerateInv, phase = "save", Unwritten # {},
           NEW docs \in SUBSET results[Writing], disk' = Written(docs),
           UNCHANGED <<run, sidecar>>,
           \/ phase' = "idle"
           \/ phase' = "save" /\ UNCHANGED <<cfg, results>>
    PROVE  GenerateInv'
<1>1. Writing \in DOMAIN results
  BY DEF Unwritten, Writing
<1>2. /\ DOMAIN disk' = DOMAIN disk \cup {Writing}
      /\ \A g \in DOMAIN disk' :
           disk'[g] = IF g = Writing THEN [docs |-> docs, conf |-> Conf] ELSE disk[g]
  BY DEF Written
<1>3. Conf.run = run
  BY DEF Conf
<1>4. \A g \in DOMAIN disk' : disk'[g].conf = Conf
  BY <1>2 DEF GenerateInv, RunsInOrder
<1>5. phase' = "save" => Conf' = Conf
  BY DEF Conf
<1>6. RunsInOrder'
  BY <1>3, <1>4, <1>5 DEF GenerateInv, RunsInOrder, Unsaved
<1>7. OneConfPerRun'
  BY <1>3, <1>4 DEF GenerateInv, RunsInOrder, OneConfPerRun
<1>8. KeepOff(Docs(results), Conf.cluster)
  BY DEF GenerateInv, PoolsChecked
<1>9. KeepOff(docs, Conf.cluster)
  BY <1>1, <1>8 DEF KeepOff, Docs
<1>10. \A g \in DOMAIN disk' : KeepOff(disk'[g].docs, disk'[g].conf.cluster)
  BY <1>2, <1>9 DEF GenerateInv, PoolsChecked
<1>11. PoolsChecked'
  BY <1>5, <1>8, <1>10 DEF PoolsChecked
<1>12. FilesOfOneRun'
  BY <1>4 DEF FilesOfOneRun
<1> QED
  BY <1>6, <1>7, <1>11, <1>12 DEF GenerateInv

LEMMA SaveFileKeeps ==
    ASSUME GenerateInv, SaveFile
    PROVE  GenerateInv'
<1>1. CASE Fail
  BY <1>1, FailKeeps
<1>2. CASE ~Fail
  <2>1. /\ phase = "save" /\ phase' = "save" /\ Unwritten # {}
        /\ disk' = Written(results[Writing]) /\ UNCHANGED <<run, cfg, sidecar, results>>
    BY <1>2 DEF SaveFile, rendering
  <2>2. results[Writing] \in SUBSET results[Writing]
    OBVIOUS
  <2> QED
    BY <2>1, <2>2, FileWritten
<1> QED
  BY <1>1, <1>2

LEMMA CutFileKeeps ==
    ASSUME GenerateInv, CutFile
    PROVE  GenerateInv'
<1>1. PICK docs \in SUBSET results[Writing] : disk' = Written(docs)
  BY DEF CutFile
<1>2. phase = "save" /\ phase' = "idle" /\ Unwritten # {} /\ UNCHANGED <<run, sidecar>>
  BY DEF CutFile, Gone
<1> QED
  BY <1>1, <1>2, FileWritten

LEMMA WriteEffectiveConfigKeeps ==
    ASSUME GenerateInv, WriteEffectiveConfig
    PROVE  GenerateInv'
<1>1. CASE Fail
  BY <1>1, FailKeeps
<1>2. CASE ~Fail
  <2>1. /\ phase = "save" /\ sidecar' = <<Conf>> /\ UNCHANGED <<run, disk>>
        /\ \/ phase' = "idle"
           \/ phase' = "deploy" /\ UNCHANGED <<cfg, results>>
    BY <1>2 DEF WriteEffectiveConfig, Gone, rendering
  <2>2. Conf.run = run /\ (phase' = "deploy" => Conf' = Conf)
    BY <2>1 DEF Conf
  <2>3. RunsInOrder' /\ OneConfPerRun'
    BY <2>1, <2>2 DEF GenerateInv, RunsInOrder, OneConfPerRun, Unsaved
  <2>4. PoolsChecked'
    BY <2>1, <2>2 DEF GenerateInv, PoolsChecked
  <2> QED
    BY <2>1, <2>3, <2>4 DEF GenerateInv, FilesOfOneRun
<1> QED
  BY <1>1, <1>2

LEMMA DeploymentKeeps ==
    ASSUME GenerateInv, DeployGenerated \/ DeploySaved \/ Kill
    PROVE  GenerateInv'
<1>1. CASE Fail
  BY <1>1, FailKeeps
<1>2. CASE ~Fail
  <2>1. UNCHANGED <<run, disk, sidecar>> /\ phase' = "idle"
    BY <1>2 DEF DeployGenerated, DeploySaved, Kill, Gone
  <2> QED
    BY <2>1, NothingWritten
<1> QED
  BY <1>1, <1>2

LEMMA GenerateStep ==
    ASSUME GenerateInv, [GenerateNext]_generateVars
    PROVE  GenerateInv'
<1>1. CASE UNCHANGED generateVars
  BY <1>1 DEF generateVars, GenerateInv, RunsInOrder, OneConfPerRun, PoolsChecked,
              FilesOfOneRun, Conf
<1> QED
  BY <1>1, BeginKeeps, RenderingKeeps, AssembleKeeps, CleanDirectoryKeeps, SaveFileKeeps,
     CutFileKeeps, WriteEffectiveConfigKeeps, DeploymentKeeps DEF GenerateNext

(* The output directory never mixes the manifests of two runs, for every   *)
(* number of runs killed anywhere (saveDeploymentBundle).                  *)
THEOREM OutputOfOneRun == GenerateSpec => []FilesOfOneRun
<1>1. GenerateInv => FilesOfOneRun
  BY DEF GenerateInv
<1> QED
  BY <1>1, GenerateInitially, GenerateStep, PTL DEF GenerateSpec

\* What both deployments have in common: a document of accepted files, deployed
\* with a configuration that is its own when the runs agree.
LEMMA AcceptedInScope ==
    ASSUME NEW files, NEW by, NEW apis, NEW nodes,
           DeployAccepts(files, by, apis, nodes),
           NEW doc \in Docs(files), hasTargetScope(doc)
    PROVE  InScope(doc, by.groups)
<1>1. inspectDesiredTargetScope(doc, by.groups, Nodes)
  BY DEF DeployAccepts, checkBundleTargetScopes
<1> QED
  BY <1>1, ScopeExact

\* A step either leaves what is applied alone or is one of the deployments.
LEMMA OnlyDeploymentsApply ==
    ASSUME [GenerateNext]_generateVars
    PROVE  \/ UNCHANGED applied
           \/ \E apis \in ServiceApis, nodes \in NodeReads :
                /\ phase = "deploy" /\ DeployAccepts(results, Conf, apis, nodes)
                /\ applied' = {[doc |-> d, conf |-> Conf, by |-> Conf] :
                                  d \in Docs(results)}
           \/ \E apis \in ServiceApis, nodes \in NodeReads :
                /\ DeployAccepts([f \in DOMAIN disk |-> disk[f].docs],
                                     LoadUserConfig, apis, nodes)
                /\ applied' = UNION {{[doc |-> d, conf |-> disk[f].conf,
                                       by |-> LoadUserConfig] : d \in disk[f].docs}
                                        : f \in DOMAIN disk}
<1>1. CASE DeployGenerated
  BY <1>1 DEF DeployGenerated, Fail
<1>2. CASE DeploySaved
  BY <1>2 DEF DeploySaved
<1>3. CASE ~DeployGenerated /\ ~DeploySaved
  BY <1>3 DEF GenerateNext, generateVars, Begin, CheckInput, Plan, RenderTemplate,
              RenderWorkload, Assemble, CleanDirectory, SaveFile, CutFile,
              WriteEffectiveConfig, Kill, Fail
<1> QED
  BY <1>1, <1>2, <1>3

\* A configuration on disk with the run of a file is that file's.
LEMMA SameRunSameConf ==
    ASSUME GenerateInv, NEW f \in DOMAIN disk, LoadUserConfig.run = disk[f].conf.run
    PROVE  LoadUserConfig = disk[f].conf
  BY DEF GenerateInv, RunsInOrder, OneConfPerRun, LoadUserConfig, NoConf

LEMMA ScopeStep ==
    ASSUME GenerateInv, AppliedInScope, [GenerateNext]_generateVars
    PROVE  AppliedInScope'
<1>1. CASE UNCHANGED applied
  BY <1>1 DEF AppliedInScope
<1>2. ASSUME NEW apis \in ServiceApis, NEW nodes \in NodeReads,
             DeployAccepts(results, Conf, apis, nodes),
             applied' = {[doc |-> d, conf |-> Conf, by |-> Conf] :
                            d \in Docs(results)}
      PROVE  AppliedInScope'
  <2> SUFFICES ASSUME NEW a \in applied', hasTargetScope(a.doc)
               PROVE  InScope(a.doc, a.conf.groups)
    BY DEF AppliedInScope
  <2>1. a.doc \in Docs(results) /\ a.conf = Conf
    BY <1>2
  <2> QED
    BY <1>2, <2>1, AcceptedInScope
<1>3. ASSUME NEW apis \in ServiceApis, NEW nodes \in NodeReads,
             DeployAccepts([f \in DOMAIN disk |-> disk[f].docs],
                               LoadUserConfig, apis, nodes),
             applied' = UNION {{[doc |-> d, conf |-> disk[f].conf,
                                 by |-> LoadUserConfig] : d \in disk[f].docs}
                                  : f \in DOMAIN disk}
      PROVE  AppliedInScope'
  <2> SUFFICES ASSUME NEW a \in applied', hasTargetScope(a.doc), a.by.run = a.conf.run
               PROVE  InScope(a.doc, a.conf.groups)
    BY DEF AppliedInScope
  <2>1. PICK f \in DOMAIN disk : \E d \in disk[f].docs :
           a = [doc |-> d, conf |-> disk[f].conf, by |-> LoadUserConfig]
    BY <1>3
  <2>2. /\ a.doc \in disk[f].docs /\ a.conf = disk[f].conf
        /\ a.conf.run = LoadUserConfig.run
    BY <2>1
  <2>3. a.doc \in Docs([g \in DOMAIN disk |-> disk[g].docs])
    BY <2>2 DEF Docs
  <2>4. a.conf = LoadUserConfig
    BY <2>2, SameRunSameConf
  <2> QED
    BY <1>3, <2>3, <2>4, AcceptedInScope
<1> QED
  BY <1>1, <1>2, <1>3, OnlyDeploymentsApply

(* What is deployed with the configuration of its own run selects exactly  *)
(* the workers it was rendered for, from memory or from a directory left   *)
(* by runs that died anywhere, for every inventory, set of inputs and      *)
(* cluster (checkBundleTargetScopes, resolveTargetScope).                  *)
THEOREM DeployedInScope == GenerateSpec => []AppliedInScope
<1>1. GenerateInit => AppliedInScope
  BY DEF GenerateInit, AppliedInScope
<1> QED
  BY <1>1, GenerateInitially, GenerateStep, ScopeStep, PTL DEF GenerateSpec

LEMMA ClearStep ==
    ASSUME GenerateInv, DeployedPoolsClear, [GenerateNext]_generateVars
    PROVE  DeployedPoolsClear'
<1> DEFINE Clear(s) == \A n \in Nodes : \A ip \in n.internal :
                          ~(Network(s) <= ip /\ ip <= Broadcast(s))
           Off(s, cluster) == \A r \in configuredCIDRs(cluster) : ~Overlaps(s, r)
<1>1. CASE UNCHANGED applied
  BY <1>1 DEF DeployedPoolsClear
<1>2. ASSUME NEW apis \in ServiceApis, NEW nodes \in NodeReads, phase = "deploy",
             DeployAccepts(results, Conf, apis, nodes),
             applied' = {[doc |-> d, conf |-> Conf, by |-> Conf] :
                            d \in Docs(results)}
      PROVE  DeployedPoolsClear'
  <2>1. \A a \in applied' : a.doc.kind = "IPPool" =>
           /\ Clear(a.doc.subnet[1])
           /\ Off(a.doc.subnet[1], a.conf.cluster) /\ Off(a.doc.subnet[1], a.by.cluster)
    <3> SUFFICES ASSUME NEW a \in applied', a.doc.kind = "IPPool"
                 PROVE  /\ Clear(a.doc.subnet[1])
                        /\ Off(a.doc.subnet[1], a.conf.cluster)
                        /\ Off(a.doc.subnet[1], a.by.cluster)
      OBVIOUS
    <3>1. a.doc \in Docs(results) /\ a.conf = Conf /\ a.by = Conf
      BY <1>2
    <3>2. checkLiveIPPoolCIDRs(Pools(results), Conf.cluster, apis, nodes)
      BY <1>2 DEF DeployAccepts
    <3>3. Clear(a.doc.subnet[1])
      BY <3>1, <3>2, NodesChecked
    <3>4. Off(a.doc.subnet[1], Conf.cluster)
      BY <3>1, <3>2, LiveChecked DEF KeepOff
    <3> QED
      BY <3>1, <3>3, <3>4
  <2> QED
    BY <2>1 DEF DeployedPoolsClear
<1>3. ASSUME NEW apis \in ServiceApis, NEW nodes \in NodeReads,
             DeployAccepts([f \in DOMAIN disk |-> disk[f].docs],
                               LoadUserConfig, apis, nodes),
             applied' = UNION {{[doc |-> d, conf |-> disk[f].conf,
                                 by |-> LoadUserConfig] : d \in disk[f].docs}
                                  : f \in DOMAIN disk}
      PROVE  DeployedPoolsClear'
  <2> DEFINE files == [f \in DOMAIN disk |-> disk[f].docs]
  <2>1. \A a \in applied' : a.doc.kind = "IPPool" =>
           /\ Clear(a.doc.subnet[1])
           /\ Off(a.doc.subnet[1], a.conf.cluster) /\ Off(a.doc.subnet[1], a.by.cluster)
    <3> SUFFICES ASSUME NEW a \in applied', a.doc.kind = "IPPool"
                 PROVE  /\ Clear(a.doc.subnet[1])
                        /\ Off(a.doc.subnet[1], a.conf.cluster)
                        /\ Off(a.doc.subnet[1], a.by.cluster)
      OBVIOUS
    <3>1. PICK f \in DOMAIN disk : \E d \in disk[f].docs :
             a = [doc |-> d, conf |-> disk[f].conf, by |-> LoadUserConfig]
      BY <1>3
    <3>2. a.doc \in disk[f].docs /\ a.conf = disk[f].conf /\ a.by = LoadUserConfig
      BY <3>1
    <3>3. a.doc \in Docs(files)
      BY <3>2 DEF Docs
    <3>4. checkLiveIPPoolCIDRs(Pools(files), LoadUserConfig.cluster, apis, nodes)
      BY <1>3 DEF DeployAccepts
    <3> HIDE DEF files
    <3>5. Clear(a.doc.subnet[1])
      BY <3>3, <3>4, NodesChecked
    <3>6. Off(a.doc.subnet[1], a.by.cluster)
      BY <3>2, <3>3, <3>4, LiveChecked DEF KeepOff
    <3>7. Off(a.doc.subnet[1], a.conf.cluster)
      BY <3>2 DEF GenerateInv, PoolsChecked, KeepOff
    <3> QED
      BY <3>5, <3>6, <3>7
  <2> QED
    BY <2>1 DEF DeployedPoolsClear
<1> QED
  BY <1>1, <1>2, <1>3, OnlyDeploymentsApply

(* No deployed pool holds an address of a node or meets a range configured *)
(* when it was rendered or when it is deployed, whichever run's effective  *)
(* configuration lies beside it (CheckConfiguredIPPoolCIDRs,               *)
(* checkLiveIPPoolCIDRs).                                                  *)
THEOREM DeployedPoolsKeepClear == GenerateSpec => []DeployedPoolsClear
<1>1. GenerateInit => DeployedPoolsClear
  BY DEF GenerateInit, DeployedPoolsClear
<1>2. GenerateInv /\ DeployedPoolsClear /\ [GenerateNext]_generateVars => DeployedPoolsClear'
  BY ClearStep
<1> QED
  BY <1>1, <1>2, GenerateInitially, GenerateStep, PTL DEF GenerateSpec

-----------------------------------------------------------------------------
(* The addresses of the pools that generate cuts (Ipam).                   *)

\* A set of numbers has a least one.
LEMMA LeastNumber ==
    ASSUME NEW T, T \subseteq Nat, T # {}
    PROVE  \E x \in T : \A y \in T : x <= y
<1> DEFINE R == {ss \in Nat \X Nat : ss[1] < ss[2]}
<1>1. IsWellFoundedOn(R, Nat)
  BY NatLessThanWellFounded DEF OpToRel
<1> HIDE DEF R
<1>2. PICK x \in T : \A y \in T : ~(<<y, x>> \in R)
  BY <1>1, WFMin
<1>3. \A y \in T : ~(y < x)
  BY <1>2 DEF R
<1> QED
  BY <1>3

\* The powers of two an address width needs.
Pow2(n) == 2^n
Doubles(n) == Pow2(n) \in Nat /\ Pow2(n) > 0 /\ Pow2(n + 1) = 2 * Pow2(n)

LEMMA Doubling == \A n \in 0..31 : Doubles(n)
<1>1. /\ Doubles(0) /\ Doubles(1) /\ Doubles(2) /\ Doubles(3) /\ Doubles(4) /\ Doubles(5)
      /\ Doubles(6) /\ Doubles(7) /\ Doubles(8) /\ Doubles(9) /\ Doubles(10) /\ Doubles(11)
      /\ Doubles(12) /\ Doubles(13) /\ Doubles(14) /\ Doubles(15)
  BY DEF Doubles, Pow2
<1>2. /\ Doubles(16) /\ Doubles(17) /\ Doubles(18) /\ Doubles(19) /\ Doubles(20) /\ Doubles(21)
      /\ Doubles(22) /\ Doubles(23) /\ Doubles(24) /\ Doubles(25) /\ Doubles(26) /\ Doubles(27)
      /\ Doubles(28) /\ Doubles(29) /\ Doubles(30) /\ Doubles(31)
  BY DEF Doubles, Pow2
<1> QED
  BY <1>1, <1>2

\* Division of integers.
LEMMA DivMod ==
    ASSUME NEW a \in Int, NEW b \in Int, b >= 1
    PROVE  /\ a \div b \in Int /\ a % b \in Int /\ 0 <= a % b /\ a % b < b
           /\ a = b * (a \div b) + (a % b)
  OBVIOUS

LEMMA DivUnique ==
    ASSUME NEW a \in Int, NEW b \in Int, b >= 1, NEW k \in Int, a = b * k
    PROVE  a % b = 0
  OBVIOUS

LEMMA SmallModulo ==
    ASSUME NEW a \in Nat, NEW b \in Nat, a < b
    PROVE  a % b = a
  OBVIOUS

LEMMA Mono ==
    ASSUME NEW x \in Int, NEW y \in Int, NEW o \in Int, o >= 0, x <= y
    PROVE  x * o <= y * o
  OBVIOUS

LEMMA PowersPositive == \A k \in 0..32 : Pow2(k) \in Nat /\ Pow2(k) > 0
<1>1. Pow2(32) \in Nat /\ Pow2(32) > 0
  BY DEF Pow2
<1> QED
  BY <1>1, Doubling DEF Doubles

\* A power of two divides the larger ones.
LEMMA PowersDivide ==
    ASSUME NEW n \in 0..32, NEW m \in 0..32, n <= m
    PROVE  \E c \in Nat : Pow2(m) = Pow2(n) * c
<1> DEFINE bad == {k \in Nat : n <= k /\ k <= 32 /\ ~\E c \in Nat : Pow2(k) = Pow2(n) * c}
<1>1. bad = {}
  <2> SUFFICES ASSUME bad # {} PROVE FALSE
    OBVIOUS
  <2>1. PICK k \in bad : \A y \in bad : k <= y
    <3>1. bad \subseteq Nat
      OBVIOUS
    <3> HIDE DEF bad
    <3> QED
      BY <3>1, LeastNumber
  <2>2. k # n
    <3>1. Pow2(n) = Pow2(n) * 1
      BY PowersPositive
    <3> QED
      BY <3>1
  <2>3. k - 1 \in 0..31 /\ n <= k - 1 /\ k - 1 \notin bad
    BY <2>1, <2>2
  <2>4. PICK c \in Nat : Pow2(k - 1) = Pow2(n) * c
    BY <2>3
  <2>5. Pow2(k) = 2 * Pow2(k - 1)
    <3>1. Doubles(k - 1) /\ (k - 1) + 1 = k
      BY <2>3, Doubling
    <3> QED
      BY <3>1 DEF Doubles
  <2>6. Pow2(n) \in Nat
    BY PowersPositive
  <2>7. Pow2(k) = Pow2(n) * (2 * c)
    BY <2>4, <2>5, <2>6
  <2> QED
    BY <2>7
<1> QED
  BY <1>1

\* An offset of so many blocks stays below a bound that is divided by it.
LEMMA WithinQuotient ==
    ASSUME NEW x \in Int, NEW o \in Int, NEW M \in Int, o >= 1, x <= M \div o
    PROVE  x * o <= M
<1>1. M \div o \in Int /\ o * (M \div o) <= M
  BY DivMod
<1>2. x * o <= (M \div o) * o
  BY <1>1, Mono
<1> QED
  BY <1>1, <1>2

\* A multiple below a multiple leaves room for one more.
LEMMA NextMultiple ==
    ASSUME NEW b \in Nat, b > 0, NEW k \in Int, NEW l \in Int, b * k < b * l
    PROVE  b * k + b <= b * l
<1>1. k < l
  <2> SUFFICES ASSUME l <= k PROVE FALSE
    OBVIOUS
  <2>1. l * b <= k * b
    BY Mono
  <2> QED
    BY <2>1
<1>2. (k + 1) * b <= l * b
  BY <1>1, Mono
<1> QED
  BY <1>2

(* The blocks GenerateSubnetsWithGateway hands out, for every address      *)
(* width, start, mask, stride and count it accepts: each is a block of the *)
(* address space with its gateway strictly inside it, and no two meet.     *)
THEOREM SubnetsApart ==
    ASSUME NEW start \in Nat, NEW mask \in Int, NEW offset \in Int,
           NEW count \in Int, NEW gateway \in Int,
           GenerateSubnetsWithGateway(start, mask, offset, count, gateway).ok
    PROVE  LET all == GenerateSubnetsWithGateway(start, mask, offset, count, gateway).value
           IN  /\ DOMAIN all = 1..count
               /\ \A j \in 1..count :
                    /\ 0 <= Network(all[j]) /\ Broadcast(all[j]) < 2^AddrBits
                    /\ Network(all[j]) < all[j].gateway
                    /\ all[j].gateway < Broadcast(all[j])
               /\ \A j, k \in 1..count : j # k => ~Overlaps(all[j], all[k])
<1> DEFINE all == GenerateSubnetsWithGateway(start, mask, offset, count, gateway).value
           B == BlockSize(mask)
           P == Pow2(AddrBits)
           M == (P - 1 - start) \div B
           hop(j) == (j - 1) * offset
           raw(j) == start + hop(j) * B
<1>1. P = 2^AddrBits /\ B = Pow2(AddrBits - mask)
  BY DEF Pow2, BlockSize
<1>2. /\ count >= 1 /\ mask \in 1..(AddrBits - 2) /\ offset >= 1
      /\ gateway >= 1 /\ gateway < B - 1 /\ start % B = 0
      /\ count - 1 <= M \div offset
  <2>1. /\ ~(count < 1) /\ ~(mask < 1) /\ ~(mask > AddrBits - 2) /\ ~(offset < 1)
        /\ validateStartingGateway(gateway, mask) /\ start % B = 0
        /\ ~(count - 1 > M \div offset)
    BY DEF GenerateSubnetsWithGateway, Refused, Pow2
  <2>2. gateway >= 1 /\ gateway < B - 1
    BY <2>1 DEF validateStartingGateway
  <2>3. mask \in 1..(AddrBits - 2)
    BY <2>1, AddrBitsAssumption
  <2>4. AddrBits \in 0..32 /\ AddrBits - mask \in 0..32
    BY <2>3, AddrBitsAssumption
  <2>5. B \in Nat /\ B > 0 /\ P \in Nat
    BY <1>1, <2>4, PowersPositive
  <2>6. M \in Int
    BY <2>5, DivMod
  <2>7. M \div offset \in Int
    <3> HIDE DEF M
    <3> QED
      BY <2>1, <2>6, DivMod
  <2> HIDE DEF M, B
  <2> QED
    BY <2>1, <2>2, <2>3, <2>7
<1>0. all = [j \in 1..count |->
                  [net |-> raw(j) % P, mask |-> mask,
                   gateway |-> ((raw(j) % P) + gateway) % P, exclusions |-> <<>>]]
  BY DEF GenerateSubnetsWithGateway, Refused, Done, Pow2
<1> HIDE DEF all, P, B
<1>13. AddrBits \in 0..32 /\ AddrBits - mask \in 0..32 /\ AddrBits - mask <= AddrBits
  BY <1>2, AddrBitsAssumption
<1>3. B \in Nat /\ B > 0 /\ P \in Nat /\ P > 0
  BY <1>1, <1>13, PowersPositive DEF P
<1>4. PICK c \in Nat : P = B * c
  BY <1>1, <1>13, PowersDivide DEF P
<1>5. start = B * (start \div B) /\ start \div B \in Int
  <2>1. B \in Int /\ B >= 1 /\ start \in Int
    BY <1>3
  <2>2. start \div B \in Int /\ start % B = 0 /\ start = B * (start \div B) + (start % B)
    BY <1>2, <2>1, DivMod
  <2> QED
    BY <2>1, <2>2
<1>6. M \in Int /\ M * B <= P - 1 - start
  <2>1. P - 1 - start \in Int
    BY <1>3
  <2> QED
    BY <1>3, <2>1, DivMod
<1>7. ASSUME NEW j \in 1..count
      PROVE  /\ hop(j) \in Nat /\ raw(j) \in Nat /\ raw(j) < P
             /\ raw(j) = B * (start \div B + hop(j)) /\ raw(j) + B <= P
  <2>1. j - 1 <= M \div offset /\ j - 1 \in Nat
    BY <1>2, <1>6
  <2>2. hop(j) <= M /\ hop(j) \in Nat
    <3> HIDE DEF M
    <3>0. j - 1 \in Int /\ offset >= 1 /\ M \in Int /\ j - 1 <= M \div offset
      BY <1>2, <1>6, <2>1
    <3>1. (j - 1) * offset <= M
      BY ONLY <3>0, offset \in Int, WithinQuotient
    <3>2. (j - 1) * offset \in Nat
      BY <1>2, <2>1
    <3> QED
      BY <3>1, <3>2
  <2> HIDE DEF hop, M
  <2>3. hop(j) * B <= M * B
    BY <1>3, <1>6, <2>2, Mono
  <2>4. hop(j) * B \in Nat
    BY <1>3, <2>2
  <2>5. raw(j) \in Nat /\ raw(j) < P
    BY <1>3, <1>6, <2>3, <2>4
  <2>6. raw(j) = B * (start \div B + hop(j))
    BY <1>3, <1>5, <2>2
  <2>7. raw(j) + B <= P
    BY <1>3, <1>4, <1>5, <2>2, <2>5, <2>6, NextMultiple
  <2> QED
    BY <2>2, <2>5, <2>6, <2>7
<1> HIDE DEF raw, hop, M
<1>8. ASSUME NEW j \in 1..count
      PROVE  /\ all[j].mask = mask /\ all[j].net = raw(j) /\ all[j].gateway = raw(j) + gateway
             /\ Network(all[j]) = raw(j) /\ Broadcast(all[j]) = raw(j) + B - 1
  <2>1. /\ raw(j) \in Nat /\ raw(j) + B <= P /\ start \div B + hop(j) \in Int
        /\ raw(j) = B * (start \div B + hop(j))
    BY <1>5, <1>7
  <2>2. raw(j) % P = raw(j) /\ (raw(j) + gateway) % P = raw(j) + gateway
    <3>1. raw(j) < P /\ raw(j) + gateway \in Nat /\ raw(j) + gateway < P
      BY <1>2, <1>3, <2>1
    <3> QED
      BY <1>3, <2>1, <3>1, SmallModulo
  <2>3. raw(j) % B = 0
    <3> DEFINE k == start \div B + hop(j)
    <3>1. raw(j) \in Int /\ B \in Int /\ B >= 1 /\ k \in Int /\ raw(j) = B * k
      BY <1>3, <2>1
    <3> HIDE DEF k
    <3> QED
      BY ONLY <3>1, DivUnique
  <2>4. all[j].mask = mask /\ all[j].net = raw(j) /\ all[j].gateway = raw(j) + gateway
    BY <1>0, <2>2
  <2>5. Network(all[j]) = raw(j)
    BY <2>1, <2>3, <2>4 DEF Network, B
  <2>6. Broadcast(all[j]) = raw(j) + B - 1
    BY <2>4, <2>5 DEF Broadcast, B
  <2> QED
    BY <2>4, <2>5, <2>6
<1>9. ASSUME NEW j \in 1..count, NEW k \in 1..count, j < k
      PROVE  raw(j) + B <= raw(k)
  <2>1. hop(j) < hop(k)
    <3>1. (j - 1) * offset + offset <= (k - 1) * offset
      <4>1. j * offset <= (k - 1) * offset
        BY <1>2, <1>9, Mono
      <4>2. (j - 1) * offset + offset = j * offset
        BY <1>2
      <4> QED
        BY <4>1, <4>2
    <3> QED
      BY <1>2, <3>1 DEF hop
  <2> DEFINE x == start \div B + hop(j)
             y == start \div B + hop(k)
  <2>2. x \in Int /\ y \in Int /\ x + 1 <= y
    BY <1>5, <1>7, <2>1
  <2>3. raw(j) = B * x /\ raw(k) = B * y
    BY <1>7
  <2> HIDE DEF x, y
  <2>4. (x + 1) * B <= y * B
    BY <1>3, <2>2, Mono
  <2> QED
    BY <1>3, <2>2, <2>3, <2>4
<1>10. \A j, k \in 1..count : j # k => ~Overlaps(all[j], all[k])
  <2> SUFFICES ASSUME NEW j \in 1..count, NEW k \in 1..count, j # k
               PROVE  ~Overlaps(all[j], all[k])
    OBVIOUS
  <2>1. raw(j) \in Nat /\ raw(k) \in Nat
    BY <1>7
  <2>2. raw(j) + B <= raw(k) \/ raw(k) + B <= raw(j)
    BY <1>9
  <2> QED
    BY <1>3, <1>8, <2>1, <2>2 DEF Overlaps
<1>11. \A j \in 1..count :
          /\ 0 <= Network(all[j]) /\ Broadcast(all[j]) < 2^AddrBits
          /\ Network(all[j]) < all[j].gateway /\ all[j].gateway < Broadcast(all[j])
  <2> SUFFICES ASSUME NEW j \in 1..count
               PROVE  /\ 0 <= Network(all[j]) /\ Broadcast(all[j]) < P
                      /\ Network(all[j]) < all[j].gateway
                      /\ all[j].gateway < Broadcast(all[j])
    BY <1>1
  <2>1. raw(j) \in Nat /\ raw(j) + B <= P
    BY <1>7
  <2>2. /\ all[j].gateway = raw(j) + gateway /\ Network(all[j]) = raw(j)
        /\ Broadcast(all[j]) = raw(j) + B - 1
    BY <1>8
  <2> QED
    BY <1>2, <1>3, <2>1, <2>2
<1>12. DOMAIN all = 1..count
  BY <1>0
<1> QED
  BY <1>10, <1>11, <1>12 DEF all

(* The ranges reserved at the ends of a block lie inside it and leave an   *)
(* address between them, for every block and every pair of sizes that      *)
(* reservedExclusions accepts.                                             *)
THEOREM ReservedInside ==
    ASSUME NEW s, NEW first \in Nat, NEW last \in Nat,
           Network(s) \in Nat, BlockSize(s.mask) \in Nat,
           reservedExclusions(s, first, last).ok, BlockSize(s.mask) > 0
    PROVE  LET ex == reservedExclusions(s, first, last).value
               free == Network(s) + first
           IN  /\ free <= Broadcast(s)
               /\ \A k \in DOMAIN ex :
                    /\ Network(s) <= ex[k].lo /\ ex[k].hi <= Broadcast(s)
                    /\ ~(ex[k].lo <= free /\ free <= ex[k].hi)
<1> DEFINE ex == reservedExclusions(s, first, last).value
           N == Network(s)
           B == BlockSize(s.mask)
           lo == [lo |-> N, hi |-> N + first - 1]
           hi == [lo |-> Broadcast(s) - last + 1, hi |-> Broadcast(s)]
<1>1. first + last < B \/ (first = 0 /\ last = 0)
  BY DEF reservedExclusions, Refused
<1>2. Broadcast(s) = N + B - 1
  BY DEF Broadcast
<1>3. CASE first = 0 /\ last = 0
  <2>1. ex = <<>>
    BY <1>3 DEF reservedExclusions, Done
  <2> QED
    BY <1>2, <1>3, <2>1
<1>4. CASE first > 0 /\ last = 0
  <2>1. ex = <<lo>> \o <<>>
    BY <1>1, <1>4 DEF reservedExclusions, Done
  <2>2. ex = <<lo>>
    BY <2>1
  <2> QED
    BY <1>1, <1>2, <1>4, <2>2
<1>5. CASE first = 0 /\ last > 0
  <2>1. ex = <<>> \o <<hi>>
    BY <1>1, <1>5 DEF reservedExclusions, Done
  <2>2. ex = <<hi>>
    BY <2>1
  <2> QED
    BY <1>1, <1>2, <1>5, <2>2
<1>6. CASE first > 0 /\ last > 0
  <2>1. ex = <<lo>> \o <<hi>>
    BY <1>1, <1>6 DEF reservedExclusions, Done
  <2>2. DOMAIN ex = 1..2 /\ ex[1] = lo /\ ex[2] = hi
    BY <2>1
  <2> QED
    BY <1>1, <1>2, <1>6, <2>2
<1> QED
  BY <1>3, <1>4, <1>5, <1>6

-----------------------------------------------------------------------------
(* Numbers.                                                                *)

\* A set with 0, and with n + 1 whenever it has n, has every number.
LEMMA CountingUp ==
    ASSUME NEW T, 0 \in T, \A n \in Nat : n \in T => n + 1 \in T
    PROVE  Nat \subseteq T
<1> DEFINE bad == Nat \ T
<1> SUFFICES ASSUME bad # {} PROVE FALSE
  OBVIOUS
<1>1. PICK x \in bad : \A y \in bad : x <= y
  <2>1. bad \subseteq Nat
    OBVIOUS
  <2> HIDE DEF bad
  <2> QED
    BY <2>1, LeastNumber
<1>2. x - 1 \in Nat /\ x - 1 < x /\ (x - 1) + 1 = x
  OBVIOUS
<1>3. x - 1 \notin bad
  BY <1>1, <1>2
<1> QED
  BY <1>2, <1>3

\* A bounded set of numbers has a greatest one.
LEMMA GreatestNumber ==
    ASSUME NEW N \in Nat, NEW T, T \subseteq 1..N, T # {}
    PROVE  Max(T) \in T
<1> DEFINE U == {y \in Nat : N - y \in T}
<1>1. U \subseteq Nat /\ U # {}
  <2>1. PICK x \in T : TRUE
    OBVIOUS
  <2>2. N - x \in U
    OBVIOUS
  <2> QED
    BY <2>2
<1>2. PICK u \in U : \A y \in U : u <= y
  <2> HIDE DEF U
  <2> QED
    BY <1>1, LeastNumber
<1>3. N - u \in T /\ \A y \in T : N - u >= y
  <2> SUFFICES ASSUME NEW y \in T PROVE N - u >= y
    BY <1>2
  <2>1. N - y \in U
    OBVIOUS
  <2>2. u <= N - y
    BY <1>2, <2>1
  <2> QED
    BY <2>2
<1> QED
  BY <1>3 DEF Max

-----------------------------------------------------------------------------
(* Lists by position (Lists).                                              *)

\* The numbers of a finite set below one of them.
Below(set, x) == {y \in set : y < x}
Ranked(set) ==
    \A k \in 1..Cardinality(set) : \E x \in set : Cardinality(Below(set, x)) = k - 1

\* Every rank of a finite set of positions is that of a member.
LEMMA EveryRank ==
    ASSUME NEW N \in Nat
    PROVE  \A set \in SUBSET (1..N) : IsFiniteSet(set) /\ Cardinality(set) \in Nat /\ Ranked(set)
<1> DEFINE T == {n \in Nat : \A set \in SUBSET (1..n) : Ranked(set)}
<1>0. ASSUME NEW n \in Nat, NEW set \in SUBSET (1..n)
      PROVE  IsFiniteSet(set) /\ Cardinality(set) \in Nat
  <2>1. IsFiniteSet(1..n)
    BY FS_Interval
  <2>2. IsFiniteSet(set)
    BY <2>1, FS_Subset
  <2> QED
    BY <2>2, FS_CardinalityType
<1>1. 0 \in T
  <2>1. ASSUME NEW set \in SUBSET (1..0) PROVE Ranked(set)
    <3>1. Cardinality(set) = 0
      <4>1. set = {}
        OBVIOUS
      <4> QED
        BY <4>1, FS_EmptySet
    <3> QED
      BY <3>1 DEF Ranked
  <2> QED
    BY <2>1
<1>2. ASSUME NEW n \in Nat, n \in T PROVE n + 1 \in T
  <2> SUFFICES ASSUME NEW set \in SUBSET (1..(n + 1)) PROVE Ranked(set)
    OBVIOUS
  <2>1. CASE n + 1 \notin set
    <3>1. set \in SUBSET (1..n)
      BY <2>1
    <3> QED
      BY <1>2, <3>1
  <2>2. CASE n + 1 \in set
    <3> DEFINE low == set \ {n + 1}
    <3>1. low \in SUBSET (1..n)
      OBVIOUS
    <3>2. IsFiniteSet(low) /\ Cardinality(low) \in Nat /\ Ranked(low)
      BY <1>0, <1>2, <3>1
    <3>3. Cardinality(set) = Cardinality(low) + 1
      <4>1. n + 1 \notin low /\ low \cup {n + 1} = set
        BY <2>2
      <4> HIDE DEF low
      <4> QED
        BY <3>2, <4>1, FS_AddElement
    <3>4. ASSUME NEW k \in 1..Cardinality(set)
          PROVE  \E x \in set : Cardinality(Below(set, x)) = k - 1
      <4>1. CASE k <= Cardinality(low)
        <5>0. k \in 1..Cardinality(low)
          BY <3>2, <3>3, <4>1
        <5>1. PICK x \in low : Cardinality(Below(low, x)) = k - 1
          BY <3>2, <5>0 DEF Ranked
        <5>2. Below(low, x) = Below(set, x)
          BY <3>1 DEF Below
        <5> QED
          BY <5>1, <5>2
      <4>2. CASE k = Cardinality(set)
        <5>0. \A y \in set : y \in Nat /\ (y < n + 1 <=> y # n + 1)
          OBVIOUS
        <5>1. Below(set, n + 1) = low
          BY <5>0 DEF Below
        <5>2. Cardinality(low) = k - 1
          BY <3>2, <3>3, <4>2
        <5> QED
          BY <2>2, <5>1, <5>2
      <4> QED
        BY <3>2, <3>3, <4>1, <4>2
    <3> QED
      BY <3>4 DEF Ranked
  <2> QED
    BY <2>1, <2>2
<1>3. N \in T
  <2> HIDE DEF T
  <2> QED
    BY <1>1, <1>2, CountingUp
<1> QED
  BY <1>0, <1>3

\* The sorted list of a set of positions lists that set's members.
LEMMA SortedLists ==
    ASSUME NEW N \in Nat, NEW set \in SUBSET (1..N)
    PROVE  /\ Cardinality(set) \in Nat
           /\ DOMAIN Sorted(set) = 1..Cardinality(set)
           /\ \A k \in 1..Cardinality(set) : Sorted(set)[k] \in set
           /\ set # {} => 1 \in 1..Cardinality(set)
<1>1. IsFiniteSet(set) /\ Cardinality(set) \in Nat /\ Ranked(set)
  BY EveryRank
<1>2. Sorted(set) = [k \in 1..Cardinality(set) |->
                        CHOOSE x \in set : Cardinality(Below(set, x)) = k - 1]
  BY DEF Sorted, Below
<1>3. ASSUME NEW k \in 1..Cardinality(set) PROVE Sorted(set)[k] \in set
  <2>1. \E x \in set : Cardinality(Below(set, x)) = k - 1
    BY <1>1 DEF Ranked
  <2> QED
    BY <1>2, <2>1
<1>4. set # {} => Cardinality(set) # 0
  BY <1>1, FS_EmptySet
<1> QED
  BY <1>1, <1>2, <1>3, <1>4

-----------------------------------------------------------------------------
(* The pools of one run of generate, from the inventory's groups to the    *)
(* documents of the bundle.                                                *)

\* The places plans take in one run of subnets, and those of one plan.
Places(c, given, k) == UNION {{<<j, n>> : n \in 1..SubnetCount(c, given[j])} : j \in 1..(k - 1)}
PlacesOf(c, given, k) == {<<k, n>> : n \in 1..SubnetCount(c, given[k])}

\* Plans that need a number of subnets each.
Countable(c, given, N) == \A k \in 1..N : SubnetCount(c, given[k]) \in Nat

\* A plan takes as many places as it needs subnets.
LEMMA PlacesOfPlan ==
    ASSUME NEW c, NEW given, NEW N \in Nat, Countable(c, given, N), NEW k \in 1..N
    PROVE  /\ IsFiniteSet(PlacesOf(c, given, k))
           /\ Cardinality(PlacesOf(c, given, k)) = SubnetCount(c, given[k])
<1> DEFINE n == SubnetCount(c, given[k])
           f == [x \in 1..n |-> <<k, x>>]
           T == PlacesOf(c, given, k)
<1>1. n \in Nat
  BY DEF Countable
<1>2. IsFiniteSet(1..n) /\ Cardinality(1..n) = n
  <2> HIDE DEF n
  <2> QED
    BY <1>1, FS_Interval
<1>3. f \in Surjection(1..n, T) /\ f \in Injection(1..n, T)
  <2>1. T = {<<k, x>> : x \in 1..n}
    BY DEF PlacesOf
  <2>2. f \in [1..n -> T]
    BY <2>1
  <2>3. \A t \in T : \E x \in 1..n : f[x] = t
    BY <2>1
  <2>4. \A x, y \in 1..n : f[x] = f[y] => x = y
    OBVIOUS
  <2> HIDE DEF n, f, T
  <2> QED
    BY <2>2, <2>3, <2>4 DEF Surjection, Injection, IsInjective
<1> HIDE DEF n, f, T
<1>4. IsFiniteSet(T) /\ Cardinality(T) = Cardinality(1..n)
  BY <1>2, <1>3, FS_Surjection
<1> QED
  BY <1>2, <1>4 DEF T, n

\* There are finitely many places before a plan, as many as SubnetsBefore says.
LEMMA PlacesGrow ==
    ASSUME NEW c, NEW given, NEW N \in Nat, Countable(c, given, N)
    PROVE  \A k \in 1..(N + 1) :
              /\ IsFiniteSet(Places(c, given, k))
              /\ SubnetsBefore(c, given, k) = Cardinality(Places(c, given, k))
              /\ SubnetsBefore(c, given, k) \in Nat
<1> DEFINE T == {k \in Nat : k <= N => IsFiniteSet(Places(c, given, k + 1))}
<1>1. 0 \in T
  <2>1. Places(c, given, 0 + 1) = {}
    BY DEF Places
  <2> QED
    BY <2>1, FS_EmptySet
<1>2. ASSUME NEW k \in Nat, k \in T PROVE k + 1 \in T
  <2> SUFFICES ASSUME k + 1 <= N PROVE IsFiniteSet(Places(c, given, (k + 1) + 1))
    OBVIOUS
  <2>1. IsFiniteSet(Places(c, given, k + 1))
    BY <1>2
  <2>2. k + 1 \in 1..N
    OBVIOUS
  <2>3. IsFiniteSet(PlacesOf(c, given, k + 1))
    BY <2>2, PlacesOfPlan
  <2>4. Places(c, given, (k + 1) + 1) = Places(c, given, k + 1) \cup PlacesOf(c, given, k + 1)
    <3>1. 1..(((k + 1) + 1) - 1) = 1..((k + 1) - 1) \cup {k + 1}
      OBVIOUS
    <3> QED
      BY <3>1 DEF Places, PlacesOf
  <2> DEFINE A == Places(c, given, k + 1)
             B == PlacesOf(c, given, k + 1)
  <2>5. IsFiniteSet(A \cup B)
    <3>1. IsFiniteSet(A) /\ IsFiniteSet(B)
      BY <2>1, <2>3
    <3> HIDE DEF A, B
    <3> QED
      BY <3>1, FS_Union
  <2> QED
    BY <2>4, <2>5
<1>3. Nat \subseteq T
  <2> HIDE DEF T
  <2> QED
    BY <1>1, <1>2, CountingUp
<1>4. ASSUME NEW k \in 1..(N + 1) PROVE IsFiniteSet(Places(c, given, k))
  <2>1. k - 1 \in T /\ k - 1 <= N /\ (k - 1) + 1 = k
    BY <1>3
  <2> QED
    BY <2>1
<1>5. ASSUME NEW k \in 1..(N + 1)
      PROVE  SubnetsBefore(c, given, k) = Cardinality(Places(c, given, k))
  BY DEF SubnetsBefore, Places
<1> QED
  BY <1>4, <1>5, FS_CardinalityType

\* A plan's subnets come after those of the plans before it.
LEMMA PlacesInOrder ==
    ASSUME NEW c, NEW given, NEW N \in Nat, Countable(c, given, N),
           NEW k \in 1..N, NEW m \in 1..(N + 1), k < m
    PROVE  SubnetsBefore(c, given, k) + SubnetCount(c, given[k]) <= SubnetsBefore(c, given, m)
<1> DEFINE A == Places(c, given, k)
           B == PlacesOf(c, given, k)
           C == Places(c, given, m)
<1>0. k \in 1..(N + 1)
  OBVIOUS
<1>1. /\ IsFiniteSet(A) /\ SubnetsBefore(c, given, k) = Cardinality(A) /\ Cardinality(A) \in Nat
      /\ IsFiniteSet(C) /\ SubnetsBefore(c, given, m) = Cardinality(C) /\ Cardinality(C) \in Nat
  BY <1>0, PlacesGrow
<1>2. IsFiniteSet(B) /\ Cardinality(B) = SubnetCount(c, given[k]) /\ Cardinality(B) \in Nat
  BY PlacesOfPlan DEF Countable
<1>3. A \cup B \in SUBSET C
  BY DEF Places, PlacesOf
<1>4. A \cap B = {}
  BY DEF Places, PlacesOf
<1> HIDE DEF A, B, C
<1>5. /\ Cardinality(A \cup B) = Cardinality(A) + Cardinality(B) - Cardinality(A \cap B)
  BY <1>1, <1>2, FS_Union
<1>6. Cardinality(A \cap B) = 0
  BY <1>4, FS_EmptySet
<1>7. Cardinality(A \cup B) <= Cardinality(C)
  BY <1>1, <1>3, FS_Subset
<1> QED
  BY <1>1, <1>2, <1>5, <1>6, <1>7

\* A list of PFs.
PFList(pfs) == pfs \in Seq(ToSet(pfs))

\* A list of PFs has a number of rails, and a plan needs a number of subnets.
LEMMA RailsCounted ==
    ASSUME NEW g, PFList(g.pfs)
    PROVE  Rails(g) \in Nat
<1> DEFINE P == {n \in DOMAIN g.pfs : g.pfs[n].ew}
<1>1. Len(g.pfs) \in Nat /\ DOMAIN g.pfs = 1..Len(g.pfs)
  BY DEF PFList
<1>2. P \in SUBSET (1..Len(g.pfs))
  BY <1>1
<1>3. FilterEastWestPFs(g.pfs) = Pick(g.pfs, Sorted(P))
  BY DEF FilterEastWestPFs
<1> HIDE DEF P
<1>4. Cardinality(P) \in Nat /\ DOMAIN Sorted(P) = 1..Cardinality(P)
  BY <1>1, <1>2, SortedLists
<1>5. FilterEastWestPFs(g.pfs) = [k \in 1..Cardinality(P) |-> g.pfs[Sorted(P)[k]]]
  BY <1>3, <1>4 DEF Pick
<1>6. Len(FilterEastWestPFs(g.pfs)) = Cardinality(P)
  BY <1>4, <1>5
<1> QED
  BY <1>4, <1>6 DEF Rails

LEMMA SubnetsCounted ==
    ASSUME NEW c, NEW p, PFList(p.merged.pfs)
    PROVE  SubnetCount(c, p) \in Nat
<1>1. Rails(p.merged) \in Nat
  BY RailsCounted
<1> QED
  BY <1>1 DEF SubnetCount

\* Groups picked by position are groups of the list.
LEMMA PickedGroups ==
    ASSUME NEW groups, Listed(groups), NEW P \in SUBSET DOMAIN groups
    PROVE  LET q == Pick(groups, Sorted(P)) IN
           /\ Listed(q)
           /\ \A k \in DOMAIN q : PFList(q[k].pfs)
           /\ P # {} => 1 \in DOMAIN q
<1> DEFINE q == Pick(groups, Sorted(P))
           n == Cardinality(P)
<1>1. Len(groups) \in Nat /\ DOMAIN groups = 1..Len(groups)
  BY DEF Listed
<1>2. /\ n \in Nat /\ DOMAIN Sorted(P) = 1..n
      /\ \A k \in 1..n : Sorted(P)[k] \in P
      /\ P # {} => 1 \in 1..n
  BY <1>1, SortedLists
<1> HIDE DEF n
<1>3. q = [k \in 1..n |-> groups[Sorted(P)[k]]]
  BY <1>2 DEF Pick
<1>4. ASSUME NEW k \in 1..n PROVE q[k] \in ToSet(groups) /\ q[k] \in ToSet(q)
  <2>1. q[k] = groups[Sorted(P)[k]] /\ Sorted(P)[k] \in DOMAIN groups /\ k \in DOMAIN q
    BY <1>2, <1>3
  <2> HIDE DEF q
  <2> QED
    BY <2>1 DEF ToSet
<1>5. DOMAIN q = 1..n
  BY <1>3
<1> HIDE DEF q
<1>6. q \in Seq(ToSet(q))
  <2>1. q = [k \in 1..n |-> q[k]]
    BY <1>3, <1>5
  <2>2. q \in [1..n -> ToSet(q)]
    BY <1>4, <2>1
  <2> QED
    BY <1>2, <2>2
<1>7. \A g \in ToSet(q) : \E k \in 1..n : g = q[k]
  BY <1>5 DEF ToSet
<1>8. \A g \in ToSet(q) : PFList(g.pfs)
  BY <1>4, <1>7 DEF Listed, PFList
<1>9. Listed(q)
  BY <1>6, <1>8 DEF Listed, PFList
<1>10. \A k \in DOMAIN q : PFList(q[k].pfs)
  BY <1>4, <1>5, <1>8
<1> QED
  BY <1>2, <1>5, <1>9, <1>10 DEF q

\* ... and so are those the filter leaves.
LEMMA FilteredGroups ==
    ASSUME NEW groups, NEW ids, NEW gpuType, Listed(groups),
           applyGroupFilter(groups, ids, gpuType).ok
    PROVE  Listed(applyGroupFilter(groups, ids, gpuType).value)
<1> DEFINE A == {n \in DOMAIN groups : groups[n].id \in ids}
           B == {n \in DOMAIN groups : groups[n].gpu = gpuType}
<1>1. Listed(Pick(groups, Sorted(A))) /\ Listed(Pick(groups, Sorted(B)))
  <2>1. A \in SUBSET DOMAIN groups /\ B \in SUBSET DOMAIN groups
    OBVIOUS
  <2> HIDE DEF A, B
  <2> QED
    BY <2>1, PickedGroups
<1>2. applyGroupFilter(groups, ids, gpuType).value
        \in {groups, Pick(groups, Sorted(A)), Pick(groups, Sorted(B))}
  BY DEF applyGroupFilter, Refused, Done
<1> QED
  BY <1>1, <1>2

\* Plans, each with the PFs of the group it renders.
PlanList(made) ==
    \E N \in Nat :
        /\ DOMAIN made = 1..N
        /\ \A k \in 1..N : /\ "merged" \in DOMAIN made[k]
                           /\ {"id", "pfs"} \subseteq DOMAIN made[k].merged
                           /\ PFList(made[k].merged.pfs)

\* planRender makes such plans: every bucket has a source.
LEMMA PlansListed ==
    ASSUME NEW original, NEW groups, Listed(groups)
    PROVE  PlanList(planRender(original, groups))
<1> DEFINE F == {n \in DOMAIN groups :
                     \A j \in 1..(n - 1) : keyFor(groups, j) # keyFor(groups, n)}
           N == Cardinality(F)
           order == bucketizeOrdered(groups)
           made == planRender(original, groups)
           of(k) == {n \in DOMAIN groups : keyFor(groups, n) = order[k]}
<1>1. Len(groups) \in Nat /\ DOMAIN groups = 1..Len(groups)
  BY DEF Listed
<1>2. F \in SUBSET (1..Len(groups))
  BY <1>1
<1>3. order = [k \in DOMAIN Sorted(F) |-> keyFor(groups, Sorted(F)[k])]
  BY DEF bucketizeOrdered
<1> HIDE DEF F
<1>4. /\ N \in Nat /\ DOMAIN Sorted(F) = 1..N
      /\ \A k \in 1..N : Sorted(F)[k] \in F
  BY <1>1, <1>2, SortedLists
<1> HIDE DEF N, order
<1>5. DOMAIN order = 1..N /\ DOMAIN made = 1..N
  BY <1>3, <1>4 DEF planRender, order
<1>6. ASSUME NEW k \in 1..N
      PROVE  LET src == bucketize(groups, order[k]) IN
             /\ 1 \in DOMAIN src /\ PFList(src[1].pfs)
             /\ made[k].merged = buildBucketMerged(src)
             /\ "merged" \in DOMAIN made[k]
  <2>1. Sorted(F)[k] \in DOMAIN groups /\ order[k] = keyFor(groups, Sorted(F)[k])
    BY <1>1, <1>2, <1>3, <1>4
  <2>2. of(k) # {} /\ of(k) \in SUBSET DOMAIN groups
    BY <2>1
  <2>3. bucketize(groups, order[k]) = Pick(groups, Sorted(of(k)))
    BY DEF bucketize
  <2> HIDE DEF of
  <2>4. 1 \in DOMAIN bucketize(groups, order[k]) /\ PFList(bucketize(groups, order[k])[1].pfs)
    BY <2>2, <2>3, PickedGroups
  <2>5. /\ made[k].merged = buildBucketMerged(bucketize(groups, order[k]))
        /\ "merged" \in DOMAIN made[k]
    BY <1>5 DEF planRender, order
  <2> QED
    BY <2>4, <2>5
<1> HIDE DEF made
<1>7. ASSUME NEW k \in 1..N
      PROVE  /\ "merged" \in DOMAIN made[k]
             /\ {"id", "pfs"} \subseteq DOMAIN made[k].merged
             /\ PFList(made[k].merged.pfs)
  <2> DEFINE src == bucketize(groups, order[k])
  <2>1. {"id", "pfs"} \subseteq DOMAIN buildBucketMerged(src)
    <3> HIDE DEF src
    <3> QED
      BY DEF buildBucketMerged, AsRendered, buildMergedGroup
  <2>2. buildBucketMerged(src).pfs = src[1].pfs
    <3> HIDE DEF src
    <3> QED
      BY DEF buildBucketMerged, AsRendered, buildMergedGroup
  <2> QED
    BY <1>6, <2>1, <2>2
<1> QED
  BY <1>4, <1>5, <1>7 DEF PlanList, made

\* OpenShift's renaming changes only identifiers.
LEMMA RenamedPlans ==
    ASSUME NEW made, PlanList(made)
    PROVE  PlanList(disambiguateOCPSameGPUBuckets(made))
<1> DEFINE new == disambiguateOCPSameGPUBuckets(made)
<1>1. PICK N \in Nat :
        /\ DOMAIN made = 1..N
        /\ \A k \in 1..N : /\ "merged" \in DOMAIN made[k]
                           /\ {"id", "pfs"} \subseteq DOMAIN made[k].merged
                           /\ PFList(made[k].merged.pfs)
  BY DEF PlanList
<1>2. /\ DOMAIN new = 1..N
      /\ \A k \in 1..N : new[k] = made[k] \/ \E id : new[k] = [made[k] EXCEPT !.merged.id = id]
  BY <1>1 DEF disambiguateOCPSameGPUBuckets
<1> HIDE DEF new
<1>3. ASSUME NEW k \in 1..N
      PROVE  /\ "merged" \in DOMAIN new[k]
             /\ {"id", "pfs"} \subseteq DOMAIN new[k].merged
             /\ PFList(new[k].merged.pfs)
  <2>1. CASE new[k] = made[k]
    BY <1>1, <2>1
  <2>2. ASSUME NEW id, new[k] = [made[k] EXCEPT !.merged.id = id]
        PROVE  /\ "merged" \in DOMAIN new[k]
               /\ {"id", "pfs"} \subseteq DOMAIN new[k].merged
               /\ PFList(new[k].merged.pfs)
    <3>1. new[k].merged = [made[k].merged EXCEPT !.id = id] /\ "merged" \in DOMAIN new[k]
      BY <1>1, <2>2
    <3>2. new[k].merged.pfs = made[k].merged.pfs /\ DOMAIN new[k].merged = DOMAIN made[k].merged
      BY <1>1, <3>1
    <3> QED
      BY <1>1, <3>1, <3>2
  <2> QED
    BY <1>2, <2>1, <2>2
<1> QED
  BY <1>2, <1>3 DEF PlanList, new

\* The reserved ranges are ranges of numbers.
LEMMA ReservedRanges ==
    ASSUME NEW s, NEW first \in Nat, NEW last \in Nat,
           Network(s) \in Nat, BlockSize(s.mask) \in Nat
    PROVE  reservedExclusions(s, first, last).value \in Seq([lo : Int, hi : Int])
<1> DEFINE ends == [lo : Int, hi : Int]
           low == [lo |-> Network(s), hi |-> Network(s) + first - 1]
           high == [lo |-> Broadcast(s) - last + 1, hi |-> Broadcast(s)]
<1>1. Broadcast(s) \in Int
  BY DEF Broadcast
<1>2. low \in ends /\ high \in ends
  BY <1>1
<1> HIDE DEF low, high, ends
<1>3. <<>> \in Seq(ends) /\ <<low>> \in Seq(ends) /\ <<high>> \in Seq(ends)
  BY <1>2
<1>4. reservedExclusions(s, first, last).value
        \in {<<>>, (IF first > 0 THEN <<low>> ELSE <<>>) \o (IF last > 0 THEN <<high>> ELSE <<>>)}
  BY DEF reservedExclusions, Refused, Done, low, high
<1>5. (IF first > 0 THEN <<low>> ELSE <<>>) \o (IF last > 0 THEN <<high>> ELSE <<>>) \in Seq(ends)
  BY <1>3
<1> QED
  BY <1>3, <1>4, <1>5 DEF ends

\* The gateway is a host of the block; the held ranges leave an address of it.
Sound(s) ==
    LET block == Network(s)..Broadcast(s)
        held == UNION {s.exclusions[k].lo..s.exclusions[k].hi : k \in DOMAIN s.exclusions}
    IN  /\ s.gateway \in block \ {Network(s), Broadcast(s)}
        /\ held \subseteq block /\ held # block

\* Every subnet of one run of them is sound, and no two meet.
LEMMA OneRunOfSubnets ==
    ASSUME NEW start \in Nat, NEW mask \in Int, NEW offset \in Int,
           NEW count \in Int, NEW gateway \in Int, NEW first \in Nat, NEW last \in Nat,
           GenerateSubnetsWithGateway(start, mask, offset, count, gateway).ok,
           ApplyReservedExclusions(
               GenerateSubnetsWithGateway(start, mask, offset, count, gateway).value,
               first, last).ok
    PROVE  LET final == ApplyReservedExclusions(
                   GenerateSubnetsWithGateway(start, mask, offset, count, gateway).value,
                   first, last).value
           IN  /\ \A x \in 1..count : Sound(final[x])
               /\ \A x, y \in 1..count : x # y => ~Overlaps(final[x], final[y])
<1> DEFINE all == GenerateSubnetsWithGateway(start, mask, offset, count, gateway).value
           final == ApplyReservedExclusions(all, first, last).value
           ex(x) == reservedExclusions(all[x], first, last)
<1>1. /\ DOMAIN all = 1..count
      /\ \A x \in 1..count :
           /\ 0 <= Network(all[x]) /\ Broadcast(all[x]) < 2^AddrBits
           /\ Network(all[x]) < all[x].gateway /\ all[x].gateway < Broadcast(all[x])
      /\ \A x, y \in 1..count : x # y => ~Overlaps(all[x], all[y])
  BY SubnetsApart
<1>2. \A x \in 1..count : \E net, gw : 
         /\ all[x] = [net |-> net, mask |-> mask, gateway |-> gw, exclusions |-> <<>>]
         /\ net \in Int /\ gw \in Int
  <2>1. mask \in 1..(AddrBits - 2) /\ AddrBits \in Nat
    BY AddrBitsAssumption DEF GenerateSubnetsWithGateway, Refused
  <2>2. BlockSize(mask) \in Nat
    <3>1. AddrBits - mask \in 0..32
      BY <2>1, AddrBitsAssumption
    <3> QED
      BY <3>1, PowersPositive DEF BlockSize, Pow2
  <2>3. 2^AddrBits \in Nat /\ 2^AddrBits >= 1
    <3>1. AddrBits \in 0..32
      BY AddrBitsAssumption
    <3>2. Pow2(AddrBits) \in Nat /\ Pow2(AddrBits) > 0
      BY <3>1, PowersPositive
    <3>3. Pow2(AddrBits) >= 1
      BY <3>2
    <3> QED
      BY <3>2, <3>3 DEF Pow2
  <2> DEFINE P == 2^AddrBits
             raw(x) == start + (x - 1) * offset * BlockSize(mask)
  <2>4. all = [x \in 1..count |->
                [net |-> raw(x) % P, mask |-> mask, gateway |-> ((raw(x) % P) + gateway) % P,
                 exclusions |-> <<>>]]
    BY DEF GenerateSubnetsWithGateway, Refused, Done
  <2>5. \A x \in 1..count : raw(x) \in Int
    BY <2>2
  <2> HIDE DEF P, raw, all
  <2>6. P \in Int /\ P >= 1
    BY <2>3 DEF P
  <2> SUFFICES ASSUME NEW x \in 1..count
               PROVE  \E net, gw :
                        /\ all[x] = [net |-> net, mask |-> mask, gateway |-> gw, exclusions |-> <<>>]
                        /\ net \in Int /\ gw \in Int
    OBVIOUS
  <2> DEFINE net == raw(x) % P
  <2>7. net \in Int
    BY <2>5, <2>6, DivMod
  <2>8. (net + gateway) % P \in Int
    <3>1. net + gateway \in Int
      <4> HIDE DEF net
      <4> QED
        BY <2>7
    <3> HIDE DEF net
    <3> QED
      BY <2>6, <3>1, DivMod
  <2> QED
    BY <2>4, <2>7, <2>8
<1>3. BlockSize(mask) \in Nat /\ BlockSize(mask) > 0
  <2>1. mask \in 1..(AddrBits - 2) /\ AddrBits \in Nat
    BY AddrBitsAssumption DEF GenerateSubnetsWithGateway, Refused
  <2>2. AddrBits - mask \in 0..32
    BY <2>1, AddrBitsAssumption
  <2> QED
    BY <2>2, PowersPositive DEF BlockSize, Pow2
<1>4. ASSUME NEW x \in 1..count
      PROVE  /\ all[x].mask = mask /\ all[x].exclusions = <<>> /\ all[x].gateway \in Int
             /\ Network(all[x]) \in Nat /\ Broadcast(all[x]) \in Int
             /\ DOMAIN all[x] = {"net", "mask", "gateway", "exclusions"}
  <2>1. PICK net, gw :
         /\ all[x] = [net |-> net, mask |-> mask, gateway |-> gw, exclusions |-> <<>>]
         /\ net \in Int /\ gw \in Int
    BY <1>2
  <2> HIDE DEF all
  <2>2. /\ all[x].mask = mask /\ all[x].exclusions = <<>> /\ all[x].gateway \in Int
        /\ all[x].net \in Int
        /\ DOMAIN all[x] = {"net", "mask", "gateway", "exclusions"}
    BY <2>1
  <2>3. all[x].net % BlockSize(mask) \in Int
    BY <1>3, <2>2, DivMod
  <2>4. Network(all[x]) \in Int
    BY <2>2, <2>3 DEF Network
  <2>5. Network(all[x]) \in Nat
    BY <1>1, <2>4
  <2>6. Broadcast(all[x]) \in Int
    BY <1>3, <2>2, <2>5 DEF Broadcast
  <2> QED
    BY <2>2, <2>5, <2>6
<1> HIDE DEF all
<1>5. /\ final = [x \in 1..count |-> [all[x] EXCEPT !.exclusions = ex(x).value \o @]]
      /\ \A x \in 1..count : ex(x).ok
  BY <1>1 DEF ApplyReservedExclusions, Refused, Done, all
<1>6. ASSUME NEW x \in 1..count
      PROVE  /\ final[x].net = all[x].net /\ final[x].mask = all[x].mask
             /\ final[x].gateway = all[x].gateway
             /\ final[x].exclusions = ex(x).value
             /\ Network(final[x]) = Network(all[x]) /\ Broadcast(final[x]) = Broadcast(all[x])
  <2>1. ex(x).value \in Seq([lo : Int, hi : Int])
    BY <1>3, <1>4, ReservedRanges
  <2>2. ex(x).value \o <<>> = ex(x).value
    BY <2>1
  <2> HIDE DEF ex
  <2>3. final[x] = [all[x] EXCEPT !.exclusions = ex(x).value]
    <3>1. final[x] = [all[x] EXCEPT !.exclusions = ex(x).value \o all[x].exclusions]
      BY <1>5
    <3> QED
      BY <1>4, <2>2, <3>1
  <2>4. /\ final[x].net = all[x].net /\ final[x].mask = all[x].mask
        /\ final[x].gateway = all[x].gateway
        /\ final[x].exclusions = ex(x).value
    BY <1>4, <2>3
  <2>5. Network(final[x]) = Network(all[x])
    BY <2>4 DEF Network
  <2>6. Broadcast(final[x]) = Broadcast(all[x])
    BY <2>4, <2>5 DEF Broadcast
  <2> QED
    BY <2>4, <2>5, <2>6
<1> HIDE DEF final
<1>7. ASSUME NEW x \in 1..count, NEW y \in 1..count, x # y
      PROVE  ~Overlaps(final[x], final[y])
  BY <1>1, <1>6, <1>7 DEF Overlaps
<1>8. ASSUME NEW x \in 1..count PROVE Sound(final[x])
  <2> DEFINE s == final[x]
             free == Network(s) + first
             held == UNION {s.exclusions[k].lo..s.exclusions[k].hi : k \in DOMAIN s.exclusions}
  <2>1. /\ Network(s) \in Nat /\ Broadcast(s) \in Int /\ s.gateway \in Int
        /\ Network(s) < s.gateway /\ s.gateway < Broadcast(s)
    BY <1>1, <1>4, <1>6
  <2>2. s.exclusions \in Seq([lo : Int, hi : Int])
    BY <1>3, <1>4, <1>6, ReservedRanges
  <2>3. /\ Network(all[x]) + first <= Broadcast(all[x])
        /\ \A k \in DOMAIN ex(x).value :
             /\ Network(all[x]) <= ex(x).value[k].lo /\ ex(x).value[k].hi <= Broadcast(all[x])
             /\ ~(ex(x).value[k].lo <= Network(all[x]) + first
                    /\ Network(all[x]) + first <= ex(x).value[k].hi)
    BY <1>3, <1>4, <1>5, ReservedInside
  <2>4. /\ free <= Broadcast(s)
        /\ \A k \in DOMAIN s.exclusions :
             /\ Network(s) <= s.exclusions[k].lo /\ s.exclusions[k].hi <= Broadcast(s)
             /\ ~(s.exclusions[k].lo <= free /\ free <= s.exclusions[k].hi)
    BY <1>6, <2>3
  <2> HIDE DEF s
  <2>5. \A k \in DOMAIN s.exclusions : s.exclusions[k].lo \in Int /\ s.exclusions[k].hi \in Int
    <3> DEFINE ranges == s.exclusions
               R == [lo : Int, hi : Int]
    <3>1. ranges \in Seq(R)
      BY <2>2
    <3> HIDE DEF ranges, R
    <3>2. \A k \in DOMAIN ranges : ranges[k] \in R
      BY <3>1
    <3> QED
      BY <3>2 DEF ranges, R
  <2>6. held \subseteq Network(s)..Broadcast(s)
    BY <2>1, <2>4, <2>5
  <2>7. free \in Network(s)..Broadcast(s) /\ free \notin held
    BY <2>1, <2>4, <2>5
  <2>8. s.gateway \in (Network(s)..Broadcast(s)) \ {Network(s), Broadcast(s)}
    BY <2>1
  <2>9. Sound(s)
    BY <2>6, <2>7, <2>8 DEF Sound
  <2> QED
    BY <2>9 DEF s
<1> QED
  BY <1>7, <1>8 DEF final, all

\* The numbers of a section that was accepted.
NumbersOf(nv) ==
    /\ nv.start \in Int /\ nv.mask \in Int /\ nv.offset \in Int /\ nv.gateway \in Int
    /\ nv.first \in Nat /\ nv.last \in Nat

\* What is cut for the plans: every subnet is sound, and no two meet.
Apart(made, cut) ==
    /\ \A k \in DOMAIN made : \A n \in DOMAIN cut[k] : Sound(cut[k][n])
    /\ \A k, l \in DOMAIN made : \A n \in DOMAIN cut[k], m \in DOMAIN cut[l] :
          k # l \/ n # m => ~Overlaps(cut[k][n], cut[l][m])

\* preallocatePlanSubnets cuts so, whatever the plans need.
LEMMA SubnetsCut ==
    ASSUME NEW c, NEW made, NumbersOf(c.nv), PlanList(made), c.nv.subnets = <<>>,
           preallocatePlanSubnets(c, made).ok
    PROVE  Apart(made, preallocatePlanSubnets(c, made).value)
<1> DEFINE cut == preallocatePlanSubnets(c, made).value
           nv == c.nv
           before(k) == SubnetsBefore(c, made, k)
           need(k) == SubnetCount(c, made[k])
           count == before(Len(made) + 1)
           all == GenerateSubnetsWithGateway(nv.start, nv.mask, nv.offset, count, nv.gateway)
           final == ApplyReservedExclusions(all.value, nv.first, nv.last)
           none == made = <<>> \/ nv.start < 0 \/ nv.mask = 0 \/ nv.offset = 0
<1>1. PICK N \in Nat : DOMAIN made = 1..N /\ \A k \in 1..N : PFList(made[k].merged.pfs)
  BY DEF PlanList
<1>2. CASE none
  <2>1. cut = [k \in DOMAIN made |-> <<>>]
    BY <1>2 DEF preallocatePlanSubnets, Done
  <2>2. \A k \in DOMAIN made : DOMAIN cut[k] = {}
    BY <2>1
  <2> HIDE DEF cut
  <2>3. Apart(made, cut)
    BY <2>2 DEF Apart
  <2> QED
    BY <2>3 DEF cut
<1>3. CASE ~none
  <2>1. /\ all.ok /\ final.ok
        /\ cut = [k \in DOMAIN made |-> [n \in 1..need(k) |-> final.value[before(k) + n]]]
    BY <1>3 DEF preallocatePlanSubnets, Refused, Done
  <2>2. nv.start \in Nat
    BY <1>3 DEF NumbersOf
  <2>3. Countable(c, made, N)
    BY <1>1, SubnetsCounted DEF Countable
  <2>4. \A k \in 1..N : need(k) \in Nat
    BY <2>3 DEF Countable
  <2>5. Len(made) = N
    BY <1>1
  <2>6. \A k \in 1..(N + 1) : before(k) \in Nat
    BY <2>3, PlacesGrow
  <2>7. count \in Nat /\ count = before(N + 1)
    BY <2>5, <2>6
  <2>8. \A k \in 1..N, m \in 1..(N + 1) : k < m => before(k) + need(k) <= before(m)
    BY <2>3, PlacesInOrder
  <2> HIDE DEF need, before, count
  <2>9. /\ \A x \in 1..count : Sound(final.value[x])
        /\ \A x, y \in 1..count : x # y => ~Overlaps(final.value[x], final.value[y])
    <3>1. count \in Int
      BY <2>7
    <3> QED
      BY <2>1, <2>2, <3>1, OneRunOfSubnets DEF NumbersOf
  <2> HIDE DEF final
  <2>10. ASSUME NEW k \in 1..N, NEW n \in 1..need(k)
         PROVE  before(k) + n \in 1..count
    <3>1. before(k) \in Nat /\ before(k) + need(k) <= before(N + 1) /\ need(k) \in Nat
      BY <2>4, <2>6, <2>8
    <3> QED
      BY <2>7, <3>1
  <2>12. ASSUME NEW k \in 1..N
         PROVE  DOMAIN cut[k] = 1..need(k)
                  /\ \A n \in 1..need(k) : cut[k][n] = final.value[before(k) + n]
    BY <1>1, <2>1
  <2> HIDE DEF cut
  <2>13. ASSUME NEW k \in 1..N, NEW n \in 1..need(k) PROVE Sound(cut[k][n])
    BY <2>9, <2>10, <2>12
  <2>14. ASSUME NEW k \in 1..N, NEW l \in 1..N, NEW n \in 1..need(k), NEW m \in 1..need(l),
                k # l \/ n # m
         PROVE  before(k) + n # before(l) + m
    <3>1. /\ before(k) \in Nat /\ before(l) \in Nat /\ need(k) \in Nat /\ need(l) \in Nat
          /\ k < l => before(k) + need(k) <= before(l)
          /\ l < k => before(l) + need(l) <= before(k)
      BY <2>4, <2>6, <2>8
    <3> QED
      BY <2>14, <3>1
  <2>15. ASSUME NEW k \in 1..N, NEW l \in 1..N, NEW n \in 1..need(k), NEW m \in 1..need(l),
                k # l \/ n # m
         PROVE  ~Overlaps(cut[k][n], cut[l][m])
    <3>1. before(k) + n # before(l) + m /\ before(k) + n \in 1..count /\ before(l) + m \in 1..count
      BY <2>10, <2>14, <2>15
    <3> QED
      BY <2>9, <2>12, <3>1
  <2>16. Apart(made, cut)
    BY <1>1, <2>12, <2>13, <2>15 DEF Apart
  <2> QED
    BY <2>16 DEF cut
<1> QED
  BY <1>2, <1>3

\* The pool of a rank of a plan.
PoolAt(c, made, cut, k, n) ==
    [Blank EXCEPT
        !.kind = "IPPool", !.id = made[k].merged.id, !.ns = <<c.namespaces[1]>>,
        !.selector = AggregateSelector(c, made[k]),
        !.sources = annotateTargetSources("IPPool", made[k].sources),
        !.rail = IF c.multirail THEN FilterEastWestPFs(made[k].merged.pfs)[n].rail ELSE -1,
        !.subnet = <<cut[k][n]>>]

\* Every pool among some documents is that of a place that was cut.
PoolsFrom(c, made, cut, docs) ==
    \A d \in docs : d.kind = "IPPool" =>
        \E k \in DOMAIN made : \E n \in DOMAIN cut[k] : d = PoolAt(c, made, cut, k, n)

\* A template renders documents of its own Kind.
LEMMA KindOfDocuments ==
    ASSUME NEW c, NEW kind, NEW group, NEW selector, NEW sources, NEW nets, NEW suffix, NEW ns,
           NEW d \in ProcessTemplate(c, kind, group, selector, sources, nets, suffix, ns)
    PROVE  d.kind = kind
  BY DEF ProcessTemplate, Blank

\* The pools of one rendering.
PoolDocs(c, group, selector, sources, nets, ns) ==
    {[Blank EXCEPT
        !.kind = "IPPool", !.id = group.id, !.ns = <<ns>>, !.selector = selector,
        !.sources = annotateTargetSources("IPPool", sources),
        !.rail = IF c.multirail THEN FilterEastWestPFs(group.pfs)[n].rail ELSE -1,
        !.subnet = <<nets[n]>>] : n \in Ranks(c, group)}

LEMMA PoolsOfTemplate ==
    ASSUME NEW c, NEW group, NEW selector, NEW sources, NEW nets, NEW suffix, NEW ns
    PROVE  ProcessTemplate(c, "IPPool", group, selector, sources, nets, suffix, ns)
             = PoolDocs(c, group, selector, sources, nets, ns)
  BY DEF ProcessTemplate, Blank, PoolDocs

\* The pools' template is rendered once for every plan.
LEMMA RenderingsOfPools ==
    ASSUME NEW c, NEW made, NEW N \in Nat, DOMAIN made = 1..N
    PROVE  LET list == Renderings(c, "IPPool", made) IN
           /\ DOMAIN list = 1..N
           /\ \A x \in 1..N :
                /\ list[x].group = made[x].merged
                /\ list[x].selector = AggregateSelector(c, made[x])
                /\ list[x].sources = made[x].sources
                /\ list[x].plan = x
                /\ list[x].ns = c.namespaces[1]
<1> DEFINE at == Grid(1, N)
           ns == <<c.namespaces[1]>>
<1>1. RenderScope(c, "IPPool") = "Aggregate"
  BY DEF RenderScope, ScopeForKind
<1>2. networkNamespacesForKind(c, "IPPool") = ns
  BY DEF networkNamespacesForKind
<1>3. Len(ns) = 1 /\ Len(made) = N /\ ns[1] = c.namespaces[1]
  OBVIOUS
<1>4. DOMAIN at = 1..N /\ \A x \in 1..N : at[x][1] = 1 /\ at[x][2] = x
  <2>1. \A x \in 1..N : (x - 1) \div N = 0 /\ (x - 1) % N = x - 1
    OBVIOUS
  <2> QED
    BY <2>1 DEF Grid
<1> HIDE DEF at, ns
<1>5. Renderings(c, "IPPool", made)
        = [x \in DOMAIN at |->
             [group |-> made[at[x][2]].merged,
              selector |-> AggregateSelector(c, made[at[x][2]]),
              sources |-> made[at[x][2]].sources, plan |-> at[x][2],
              suffix |-> nsSuffix(ns, ns[at[x][1]]), ns |-> ns[at[x][1]]]]
  BY <1>1, <1>2, <1>3 DEF Renderings, at
<1> QED
  BY <1>3, <1>4, <1>5

\* What a template renders adds no pool but those of the places that were cut.
LEMMA DocumentsOfScope ==
    ASSUME NEW c, NEW kind, NEW made, NEW cut, PlanList(made), DOMAIN cut = DOMAIN made,
           renderForScope(c, kind, made, cut).ok
    PROVE  PoolsFrom(c, made, cut, Docs(renderForScope(c, kind, made, cut).value))
<1> DEFINE files == renderForScope(c, kind, made, cut).value
           list == Renderings(c, kind, made)
           name(r) == <<kind, r.group.id, r.suffix>>
           docs(r) == ProcessTemplate(c, kind, r.group, r.selector, r.sources,
                          subnetsAt(cut, r.plan), r.suffix, r.ns)
           filled == {x \in DOMAIN list : docs(list[x]) # {}}
           final(f) == Max({x \in filled : name(list[x]) = f})
<1>1. \/ files = <<>>
      \/ files = [f \in {name(list[x]) : x \in filled} |-> docs(list[final(f)])]
  BY DEF renderForScope, Refused, Done
<1> SUFFICES ASSUME NEW d \in Docs(files), d.kind = "IPPool"
             PROVE  \E k \in DOMAIN made : \E n \in DOMAIN cut[k] : d = PoolAt(c, made, cut, k, n)
  BY DEF PoolsFrom
<1>2. PICK f \in DOMAIN files : d \in files[f]
  BY DEF Docs
<1>3. /\ f \in {name(list[x]) : x \in filled} /\ d \in docs(list[final(f)])
  <2> HIDE DEF list, name, docs, filled, final, files
  <2>1. files # <<>>
    BY <1>2
  <2> QED
    BY <1>1, <1>2, <2>1
<1>4. kind = "IPPool"
  <2> HIDE DEF list, final
  <2> QED
    BY <1>3, KindOfDocuments
<1>5. PICK N \in Nat : DOMAIN made = 1..N
  BY DEF PlanList
<1>6. /\ DOMAIN list = 1..N
      /\ \A x \in 1..N :
           /\ list[x].group = made[x].merged
           /\ list[x].selector = AggregateSelector(c, made[x])
           /\ list[x].sources = made[x].sources
           /\ list[x].plan = x
           /\ list[x].ns = c.namespaces[1]
  BY <1>4, <1>5, RenderingsOfPools
<1>7. \A x \in 1..N : Ranks(c, list[x].group) \subseteq DOMAIN subnetsAt(cut, list[x].plan)
  BY <1>4, <1>6 DEF renderForScope, Refused
<1> DEFINE k == final(f)
<1>8. k \in 1..N
  <2> DEFINE T == {x \in filled : name(list[x]) = f}
  <2>1. T \subseteq 1..N /\ T # {}
    BY <1>3, <1>6
  <2> HIDE DEF T
  <2>2. Max(T) \in T
    BY <2>1, GreatestNumber
  <2> QED
    BY <2>1, <2>2 DEF T
<1> HIDE DEF list, files, filled, k
<1>9. d \in docs(list[k])
  BY <1>3 DEF k
<1>10. PICK n \in Ranks(c, list[k].group) :
         d = [Blank EXCEPT
                !.kind = "IPPool", !.id = list[k].group.id, !.ns = <<list[k].ns>>,
                !.selector = list[k].selector,
                !.sources = annotateTargetSources("IPPool", list[k].sources),
                !.rail = IF c.multirail THEN FilterEastWestPFs(list[k].group.pfs)[n].rail ELSE -1,
                !.subnet = <<subnetsAt(cut, list[k].plan)[n]>>]
  <2> DEFINE r == list[k]
             nets == subnetsAt(cut, r.plan)
  <2>1. d \in ProcessTemplate(c, "IPPool", r.group, r.selector, r.sources, nets, r.suffix, r.ns)
    BY <1>4, <1>9
  <2> HIDE DEF r, nets
  <2>2. d \in PoolDocs(c, r.group, r.selector, r.sources, nets, r.ns)
    BY <2>1, PoolsOfTemplate
  <2> QED
    BY <2>2 DEF PoolDocs, r, nets
<1>11. subnetsAt(cut, list[k].plan) = cut[k]
  BY <1>5, <1>6, <1>8 DEF subnetsAt
<1>12. n \in DOMAIN cut[k]
  BY <1>7, <1>8, <1>10, <1>11
<1>13. d = PoolAt(c, made, cut, k, n)
  BY <1>6, <1>8, <1>10, <1>11 DEF PoolAt
<1> QED
  BY <1>5, <1>8, <1>12, <1>13

\* The user's workload adds none.
LEMMA DocumentsOfWorkload ==
    ASSUME NEW c, NEW made, WorkloadFiles(c, made).ok,
           NEW d \in Docs(WorkloadFiles(c, made).value)
    PROVE  d.kind # "IPPool"
<1> DEFINE files == WorkloadFiles(c, made).value
<1>1. PICK f \in DOMAIN files : d \in files[f]
  BY DEF Docs
<1>2. \E group, nss, ns : d = patchWorkloadManifest(c, group, nss, ns)
  <2> DEFINE groups == IF c.ocp THEN [k \in DOMAIN made |-> made[k].merged]
                       ELSE [k \in DOMAIN c.groups |-> AsRendered(c.groups[k])]
             nss == IF c.ocp THEN c.namespaces ELSE <<c.namespaces[1]>>
             at == Grid(Len(nss), Len(groups))
             list == [x \in DOMAIN at |->
                        [file |-> <<"Workload", groups[at[x][2]].id, nsSuffix(nss, nss[at[x][1]])>>,
                         doc |-> patchWorkloadManifest(c, groups[at[x][2]], nss, nss[at[x][1]])]]
  <2>1. files = [g \in {list[x].file : x \in DOMAIN list} |->
                   {list[x].doc : x \in {y \in DOMAIN list : list[y].file = g}}]
    BY DEF WorkloadFiles, Refused, Done
  <2>2. \A x \in DOMAIN list :
          list[x].doc = patchWorkloadManifest(c, groups[at[x][2]], nss, nss[at[x][1]])
    OBVIOUS
  <2> HIDE DEF files, list, at, groups, nss
  <2>3. PICK x \in DOMAIN list : d = list[x].doc
    BY <1>1, <2>1
  <2> QED
    BY <2>2, <2>3
<1> QED
  BY <1>2 DEF patchWorkloadManifest, Blank

\* Files that replace others add no document of their own.
LEMMA DocumentsTogether ==
    ASSUME NEW new, NEW old
    PROVE  Docs(WithFiles(new, old)) \subseteq Docs(new) \cup Docs(old)
  BY DEF Docs, WithFiles

\* The phases after the plan was made.
Planned == {"render", "bundle", "clean", "save", "deploy"}

\* What is rendered comes from one plan and one run of subnets.
PoolsInv ==
    /\ phase = "check" => cfg[1] \in Inputs /\ results = <<>>
    /\ phase = "plan" => NumbersOf(cfg[1].nv) /\ Listed(filtered) /\ results = <<>>
    /\ phase \in Planned =>
         /\ PlanList(plans) /\ DOMAIN subnets = DOMAIN plans
         /\ cfg[1].nv.subnets = <<>> => Apart(plans, subnets)
         /\ PoolsFrom(cfg[1], plans, subnets, Docs(results))

\* An accepted configuration has the numbers the arithmetic needs.
LEMMA AcceptedNumbers ==
    ASSUME NEW c \in Inputs, Acceptable(c), NEW kept
    PROVE  NumbersOf(WithDefaults(c, kept).nv)
<1> DEFINE nv == c.nv
           new == ApplyNvIpamDefaults(nv, {})
<1>1. /\ nv \in [start : Int, mask : Int, offset : Int, gateway : Int, block : Int,
                 first : Int, last : Int, subnets : {nv.subnets}]
      /\ {"nv", "naming"} \subseteq DOMAIN c
  BY InputsAssumption
<1>2. nv.first >= 0 /\ nv.last >= 0
  BY DEF Acceptable, validateNvIpam
<1>3. WithDefaults(c, kept).nv = new
  BY <1>1 DEF WithDefaults
<1> HIDE DEF nv
<1>4. /\ new.start = nv.start /\ new.mask = nv.mask /\ new.offset = nv.offset
      /\ new.first = nv.first /\ new.last = nv.last /\ new.gateway \in Int
  BY <1>1 DEF ApplyNvIpamDefaults, DefaultNvIpamStartingGateway
<1>5. /\ nv.start \in Int /\ nv.mask \in Int /\ nv.offset \in Int
      /\ nv.first \in Int /\ nv.last \in Int
  BY <1>1
<1> HIDE DEF new
<1>6. NumbersOf(new)
  BY <1>2, <1>4, <1>5 DEF NumbersOf
<1> QED
  BY <1>3, <1>6

LEMMA CheckInputPools ==
    ASSUME PoolsInv, CheckInput
    PROVE  PoolsInv'
<1>1. CASE Fail
  BY <1>1 DEF Fail, Gone, PoolsInv, Planned
<1>2. CASE ~Fail
  <2> DEFINE c == cfg[1]
             kept == applyGroupFilter(c.groups, c.ids, c.gpuType)
  <2>1. /\ c \in Inputs /\ Acceptable(c) /\ phase' = "plan" /\ results' = <<>>
        /\ filtered' = kept.value /\ cfg' = <<WithDefaults(c, kept.value)>>
    BY <1>2 DEF CheckInput, PoolsInv
  <2>2. NumbersOf(cfg'[1].nv)
    BY <2>1, AcceptedNumbers
  <2>3. Listed(c.groups) /\ kept.ok
    BY <2>1, InputsAssumption DEF Acceptable
  <2>4. Listed(filtered')
    BY <2>1, <2>3, FilteredGroups
  <2> QED
    BY <2>1, <2>2, <2>4 DEF PoolsInv, Planned
<1> QED
  BY <1>1, <1>2

LEMMA NoDocuments == Docs(<<>>) = {}
  BY DEF Docs

LEMMA PlanPools ==
    ASSUME PoolsInv, Plan
    PROVE  PoolsInv'
<1>1. CASE Fail
  BY <1>1 DEF Fail, Gone, PoolsInv, Planned
<1>2. CASE ~Fail
  <2> DEFINE c == cfg[1]
             made == planRender(c.groups, filtered)
             given == IF c.ocp THEN disambiguateOCPSameGPUBuckets(made) ELSE made
             cut == preallocatePlanSubnets(c, given)
  <2>1. /\ phase = "plan" /\ cut.ok /\ plans' = given /\ subnets' = cut.value
        /\ phase' = "render" /\ cfg' = cfg /\ results' = results
    BY <1>2 DEF Plan
  <2>2. NumbersOf(c.nv) /\ Listed(filtered) /\ results = <<>>
    BY <2>1 DEF PoolsInv
  <2>3. PlanList(given)
    BY <2>2, PlansListed, RenamedPlans
  <2>4. DOMAIN cut.value = DOMAIN given
    <3> HIDE DEF given
    <3> QED
      BY <2>1 DEF preallocatePlanSubnets, Refused, Done
  <2>5. c.nv.subnets = <<>> => Apart(given, cut.value)
    BY <2>1, <2>2, <2>3, SubnetsCut
  <2>6. PoolsFrom(c, given, cut.value, Docs(results))
    BY <2>2, NoDocuments DEF PoolsFrom
  <2> HIDE DEF given, cut
  <2> QED
    BY <2>1, <2>3, <2>4, <2>5, <2>6 DEF PoolsInv, Planned
<1> QED
  BY <1>1, <1>2

LEMMA MoreDocuments ==
    ASSUME NEW c, NEW made, NEW cut, NEW new, NEW old,
           PoolsFrom(c, made, cut, Docs(new)), PoolsFrom(c, made, cut, Docs(old))
    PROVE  PoolsFrom(c, made, cut, Docs(WithFiles(new, old)))
  BY DocumentsTogether DEF PoolsFrom

LEMMA RenderPools ==
    ASSUME PoolsInv, RenderTemplate \/ RenderWorkload
    PROVE  PoolsInv'
<1>1. CASE Fail
  BY <1>1 DEF Fail, Gone, PoolsInv, Planned
<1>2. CASE ~Fail
  <2>1. /\ phase = "render" /\ phase' \in {"render", "bundle"}
        /\ UNCHANGED <<cfg, plans, subnets>>
    BY <1>2 DEF RenderTemplate, RenderWorkload
  <2>2. /\ PlanList(plans) /\ DOMAIN subnets = DOMAIN plans
        /\ cfg[1].nv.subnets = <<>> => Apart(plans, subnets)
        /\ PoolsFrom(cfg[1], plans, subnets, Docs(results))
    BY <2>1 DEF PoolsInv, Planned
  <2>3. PICK files : /\ results' = WithFiles(files, results)
                     /\ PoolsFrom(cfg[1], plans, subnets, Docs(files))
    <3>1. CASE RenderTemplate
      <4> DEFINE made == renderForScope(cfg[1], Head(todo), plans, subnets)
      <4>1. made.ok /\ results' = WithFiles(made.value, results)
        BY <1>2, <3>1 DEF RenderTemplate
      <4> QED
        BY <2>2, <4>1, DocumentsOfScope
    <3>2. CASE RenderWorkload
      <4> DEFINE made == IF cfg[1].workload THEN WorkloadFiles(cfg[1], plans) ELSE Done(<<>>)
      <4>1. made.ok /\ results' = WithFiles(made.value, results)
        BY <1>2, <3>2 DEF RenderWorkload
      <4>2. \A d \in Docs(made.value) : d.kind # "IPPool"
        <5>1. CASE cfg[1].workload
          BY <4>1, <5>1, DocumentsOfWorkload
        <5>2. CASE ~cfg[1].workload
          BY <5>2, NoDocuments DEF Done
        <5> QED
          BY <5>1, <5>2
      <4>3. PoolsFrom(cfg[1], plans, subnets, Docs(made.value))
        BY <4>2 DEF PoolsFrom
      <4> QED
        BY <4>1, <4>3
    <3> QED
      BY <3>1, <3>2
  <2>4. PoolsFrom(cfg[1], plans, subnets, Docs(results'))
    BY <2>2, <2>3, MoreDocuments
  <2> QED
    BY <2>1, <2>2, <2>4 DEF PoolsInv, Planned
<1> QED
  BY <1>1, <1>2

LEMMA PoolsStep == PoolsInv /\ [GenerateNext]_generateVars => PoolsInv'
<1> SUFFICES ASSUME PoolsInv, [GenerateNext]_generateVars PROVE PoolsInv'
  OBVIOUS
<1>1. CASE Begin
  BY <1>1 DEF Begin, PoolsInv, Planned
<1>2. CASE CheckInput
  BY <1>2, CheckInputPools
<1>3. CASE Plan
  BY <1>3, PlanPools
<1>4. CASE RenderTemplate \/ RenderWorkload
  BY <1>4, RenderPools
<1>5. ASSUME phase' = "idle" PROVE PoolsInv'
  BY <1>5 DEF PoolsInv, Planned
<1>6. ASSUME phase \in Planned, phase' \in Planned,
             UNCHANGED <<cfg, plans, subnets, results>>
      PROVE  PoolsInv'
  BY <1>6 DEF PoolsInv, Planned
<1>7. CASE Assemble \/ CleanDirectory \/ SaveFile \/ CutFile \/ WriteEffectiveConfig
  <2>1. \/ phase' = "idle"
        \/ /\ phase \in Planned /\ phase' \in Planned
           /\ UNCHANGED <<cfg, plans, subnets, results>>
    BY <1>7 DEF Assemble, CleanDirectory, SaveFile, CutFile, WriteEffectiveConfig, Fail, Gone,
                rendering, Planned
  <2> QED
    BY <1>5, <1>6, <2>1
<1>8. CASE DeployGenerated \/ Kill
  BY <1>5, <1>8 DEF DeployGenerated, Kill, Fail, Gone
<1>9. CASE DeploySaved
  BY <1>5, <1>9 DEF DeploySaved
<1>10. CASE UNCHANGED generateVars
  BY <1>10 DEF generateVars, PoolsInv
<1> QED
  BY <1>1, <1>2, <1>3, <1>4, <1>7, <1>8, <1>9, <1>10 DEF GenerateNext

\* Two pools differ in their place, and the subnets of two places do not meet.
LEMMA PoolsApart == PoolsInv => PoolsDisjoint
<1> SUFFICES ASSUME PoolsInv, phase \in {"clean", "save", "deploy"}, cfg[1].nv.subnets = <<>>
             PROVE  LET pools == {d \in Docs(results) : d.kind = "IPPool"} IN
                    /\ \A p, q \in pools : p # q => ~Overlaps(p.subnet[1], q.subnet[1])
                    /\ \A p \in pools : Sound(p.subnet[1])
  BY DEF PoolsDisjoint, Sound
<1> DEFINE pools == {d \in Docs(results) : d.kind = "IPPool"}
<1>1. Apart(plans, subnets) /\ PoolsFrom(cfg[1], plans, subnets, Docs(results))
  BY DEF PoolsInv, Planned
<1>2. ASSUME NEW p \in pools
      PROVE  \E k \in DOMAIN plans : \E n \in DOMAIN subnets[k] :
                p = PoolAt(cfg[1], plans, subnets, k, n) /\ p.subnet[1] = subnets[k][n]
  <2>1. \E k \in DOMAIN plans : \E n \in DOMAIN subnets[k] : p = PoolAt(cfg[1], plans, subnets, k, n)
    BY <1>1 DEF PoolsFrom
  <2>2. \A k, n : PoolAt(cfg[1], plans, subnets, k, n).subnet[1] = subnets[k][n]
    BY DEF PoolAt, Blank
  <2> QED
    BY <2>1, <2>2
<1>3. ASSUME NEW p \in pools PROVE Sound(p.subnet[1])
  BY <1>1, <1>2 DEF Apart
<1>4. ASSUME NEW p \in pools, NEW q \in pools, p # q
      PROVE  ~Overlaps(p.subnet[1], q.subnet[1])
  <2>1. PICK k \in DOMAIN plans : \E n \in DOMAIN subnets[k] :
                p = PoolAt(cfg[1], plans, subnets, k, n) /\ p.subnet[1] = subnets[k][n]
    BY <1>2
  <2>2. PICK n \in DOMAIN subnets[k] :
                p = PoolAt(cfg[1], plans, subnets, k, n) /\ p.subnet[1] = subnets[k][n]
    BY <2>1
  <2>3. PICK l \in DOMAIN plans : \E m \in DOMAIN subnets[l] :
                q = PoolAt(cfg[1], plans, subnets, l, m) /\ q.subnet[1] = subnets[l][m]
    BY <1>2
  <2>4. PICK m \in DOMAIN subnets[l] :
                q = PoolAt(cfg[1], plans, subnets, l, m) /\ q.subnet[1] = subnets[l][m]
    BY <2>3
  <2>5. k # l \/ n # m
    BY <1>4, <2>2, <2>4
  <2> QED
    BY <1>1, <2>2, <2>4, <2>5 DEF Apart
<1> QED
  BY <1>3, <1>4

(* The pools of one run of generate hand out disjoint addresses, each with *)
(* its gateway among its own hosts and its reserved ranges inside it with  *)
(* an address to spare, for every inventory, filter, address plan and      *)
(* profile that generate accepts (PoolsDisjoint of Generate).              *)
THEOREM PoolsNeverOverlap == GenerateSpec => []PoolsDisjoint
<1>1. GenerateInit => PoolsInv
  BY DEF GenerateInit, PoolsInv, Planned
<1> QED
  BY <1>1, PoolsStep, PoolsApart, PTL DEF GenerateSpec

-----------------------------------------------------------------------------
(* The addresses of a Spectrum-X topology (SpectrumX, Addressing).         *)

\* The first octet of an IPv4 address: the site's, or the one of the tier.
FirstOctet(s) ==
    IF s.firstOctet = 0 THEN SpectrumXDefaultHostFirstOctet(s.tier) ELSE s.firstOctet

\* The address a coordinate is given, in each of the layouts.
LEMMA HostLeafShape ==
    ASSUME NEW s, NEW p \in Int, NEW r \in Int, NEW d \in Int, NEW u \in Int, NEW x \in Int,
           allocateHostLeaf(s, p, r, d, u, x) # <<>>
    PROVE  LET a == allocateHostLeaf(s, p, r, d, u, x)
               aware == planeAwareAddressing(s)
           IN  /\ isIPv6(s) => a = <<253, 2, 0, p, r, d, u, x>>
               /\ ~isIPv6(s) => r \in 0..7 /\ x \in 0..127
               /\ ~isIPv6(s) /\ s.tier = 2 /\ aware =>
                    /\ p \in 0..3 /\ u \in 0..63
                    /\ a = <<FirstOctet(s), 16 + 4 * p + r \div 4, 64 * (r % 4) + u, 2 * x>>
               /\ ~isIPv6(s) /\ s.tier = 2 /\ ~aware =>
                    /\ u \in 0..63
                    /\ a = <<FirstOctet(s), 16 + 2 * r, u, 2 * x>>
               /\ ~isIPv6(s) /\ s.tier # 2 /\ aware =>
                    /\ p \in 0..3 /\ d \in 0..31 /\ u \in 0..63
                    /\ a = <<FirstOctet(s), 64 * p + 8 * r + d \div 4, 64 * (d % 4) + u, 2 * x>>
               /\ ~isIPv6(s) /\ s.tier # 2 /\ ~aware =>
                    /\ d \in 0..31 /\ u \in 0..255
                    /\ a = <<FirstOctet(s), 32 * r + d, u, 2 * x>>
<1> DEFINE a == allocateHostLeaf(s, p, r, d, u, x)
           m == ipv4HostLeafMiddleOctets(s, p, r, d, u)
           aware == planeAwareAddressing(s)
<1>1. CASE isIPv6(s)
  BY <1>1 DEF allocateHostLeaf, allocateIPv6HostLeaf
<1>2. CASE ~isIPv6(s)
  <2>1. /\ r \in 0..7 /\ x \in 0..127 /\ m # <<>>
        /\ a = <<FirstOctet(s), m[1], m[2], 2 * x>>
    BY <1>2 DEF allocateHostLeaf, allocateIPv4HostLeaf, Fits, FirstOctet
  <2>2. CASE s.tier = 2 /\ aware
    <3>1. p \in 0..3 /\ u \in 0..63 /\ m = <<16 + 4 * p + r \div 4, 64 * (r % 4) + u>>
      BY <2>1, <2>2 DEF ipv4HostLeafMiddleOctets, Fits
    <3> HIDE DEF m
    <3> QED
      BY <1>2, <2>1, <2>2, <3>1
  <2>3. CASE s.tier = 2 /\ ~aware
    <3>1. u \in 0..63 /\ m = <<16 + 2 * r, u>>
      BY <2>1, <2>3 DEF ipv4HostLeafMiddleOctets, Fits
    <3> HIDE DEF m
    <3> QED
      BY <1>2, <2>1, <2>3, <3>1
  <2>4. CASE s.tier # 2 /\ aware
    <3>1. /\ p \in 0..3 /\ d \in 0..31 /\ u \in 0..63
          /\ m = <<64 * p + 8 * r + d \div 4, 64 * (d % 4) + u>>
      BY <2>1, <2>4 DEF ipv4HostLeafMiddleOctets, Fits
    <3> HIDE DEF m
    <3> QED
      BY <1>2, <2>1, <2>4, <3>1
  <2>5. CASE s.tier # 2 /\ ~aware
    <3>1. d \in 0..31 /\ u \in 0..255 /\ m = <<32 * r + d, u>>
      BY <2>1, <2>5 DEF ipv4HostLeafMiddleOctets, Fits
    <3> HIDE DEF m
    <3> QED
      BY <1>2, <2>1, <2>5, <3>1
  <2> QED
    BY <2>2, <2>3, <2>4, <2>5
<1> QED
  BY <1>1, <1>2

\* Fields that share an octet are read back from it.
LEMMA RailAndPlane ==
    ASSUME NEW p \in 0..3, NEW r \in 0..7, NEW o \in 0..3, NEW q \in 0..7,
           NEW u \in 0..63, NEW v \in 0..63,
           16 + 4 * p + r \div 4 = 16 + 4 * o + q \div 4,
           64 * (r % 4) + u = 64 * (q % 4) + v
    PROVE  p = o /\ r = q /\ u = v
  OBVIOUS

LEMMA RailAndPod ==
    ASSUME NEW r \in 0..7, NEW d \in 0..31, NEW q \in 0..7, NEW e \in 0..31,
           32 * r + d = 32 * q + e
    PROVE  r = q /\ d = e
  OBVIOUS

LEMMA DivideByFour ==
    ASSUME NEW d \in 0..31
    PROVE  d \div 4 \in 0..7 /\ d % 4 \in 0..3 /\ d = 4 * (d \div 4) + (d % 4)
  OBVIOUS

LEMMA ThreeDigits ==
    ASSUME NEW p \in 0..3, NEW r \in 0..7, NEW d \in 0..7,
           NEW o \in 0..3, NEW q \in 0..7, NEW e \in 0..7,
           64 * p + 8 * r + d = 64 * o + 8 * q + e
    PROVE  p = o /\ r = q /\ d = e
<1>1. d = e
  OBVIOUS
<1> QED
  BY <1>1

LEMMA TwoDigits ==
    ASSUME NEW d \in 0..3, NEW u \in 0..63, NEW e \in 0..3, NEW v \in 0..63,
           64 * d + u = 64 * e + v
    PROVE  d = e /\ u = v
  OBVIOUS


\* Networks are compared byte by byte.
LEMMA SupernetEqual ==
    ASSUME NEW a, NEW b, NEW n, DOMAIN a = DOMAIN b
    PROVE  supernet(a, n) = supernet(b, n)
             <=> \A k \in DOMAIN a : supernet(a, n)[k] = supernet(b, n)[k]
  BY DEF supernet

LEMMA SupernetOctets ==
    ASSUME NEW a, DOMAIN a = 1..4
    PROVE  /\ \A n \in {11, 13, 15, 18} : /\ supernet(a, n)[1] = a[1]
                                        /\ supernet(a, n)[4] = 0
           /\ \A n \in {11, 13, 15} : supernet(a, n)[3] = 0
           /\ supernet(a, 11)[2] = (a[2] \div 32) * 32
           /\ supernet(a, 13)[2] = (a[2] \div 8) * 8
           /\ supernet(a, 15)[2] = (a[2] \div 2) * 2
           /\ supernet(a, 18)[2] = a[2]
           /\ supernet(a, 18)[3] = (a[3] \div 64) * 64
<1>1. /\ \A n \in {11, 13, 15, 18} : /\ supernet(a, n)[1] = a[1]
                                   /\ supernet(a, n)[4] = 0
      /\ \A n \in {11, 13, 15} : supernet(a, n)[3] = 0
      /\ supernet(a, 18)[2] = a[2]
  BY DEF supernet
<1>2. /\ supernet(a, 11)[2] = (a[2] \div 2^5) * 2^5
      /\ supernet(a, 13)[2] = (a[2] \div 2^3) * 2^3
      /\ supernet(a, 15)[2] = (a[2] \div 2^1) * 2^1
      /\ supernet(a, 18)[3] = (a[3] \div 2^6) * 2^6
  BY DEF supernet
<1>3. 2^5 = 32 /\ 2^3 = 8 /\ 2^1 = 2 /\ 2^6 = 64
  OBVIOUS
<1> QED
  BY <1>1, <1>2, <1>3

LEMMA SupernetBytes ==
    ASSUME NEW a, NEW b, DOMAIN a = 1..8, DOMAIN b = 1..8
    PROVE  supernet(a, 40) = supernet(b, 40) <=> \A k \in 1..5 : a[k] = b[k]
<1>1. \A k \in 1..8 : supernet(a, 40)[k] = IF k <= 5 THEN a[k] ELSE 0
  BY DEF supernet
<1>2. \A k \in 1..8 : supernet(b, 40)[k] = IF k <= 5 THEN b[k] ELSE 0
  BY DEF supernet
<1> QED
  BY <1>1, <1>2, SupernetEqual

\* What an address tells of its link.
SameCoordinates(s, p, r, d, u, x, o, q, e, v, y) ==
    /\ r = q /\ u = v /\ x = y
    /\ isIPv6(s) \/ planeAwareAddressing(s) => p = o
    /\ isIPv6(s) \/ s.tier # 2 => d = e

LEMMA SameCoordinatesLemma ==
    ASSUME NEW s,
           NEW p \in Int, NEW r \in Int, NEW d \in Int, NEW u \in Int, NEW x \in Int,
           NEW o \in Int, NEW q \in Int, NEW e \in Int, NEW v \in Int, NEW y \in Int,
           allocateHostLeaf(s, p, r, d, u, x) # <<>>,
           allocateHostLeaf(s, p, r, d, u, x) = allocateHostLeaf(s, o, q, e, v, y)
    PROVE  SameCoordinates(s, p, r, d, u, x, o, q, e, v, y)
<1> SUFFICES /\ r = q /\ u = v /\ x = y
             /\ isIPv6(s) \/ planeAwareAddressing(s) => p = o
             /\ isIPv6(s) \/ s.tier # 2 => d = e
  BY DEF SameCoordinates
<1> DEFINE a == allocateHostLeaf(s, p, r, d, u, x)
           b == allocateHostLeaf(s, o, q, e, v, y)
           aware == planeAwareAddressing(s)
           f == FirstOctet(s)
<1>0. a = b /\ b # <<>>
  OBVIOUS
<1> HIDE DEF f
<1>1. CASE isIPv6(s)
  <2>1. <<253, 2, 0, p, r, d, u, x>> = <<253, 2, 0, o, q, e, v, y>>
    BY <1>0, <1>1, HostLeafShape
  <2>2. p = o /\ r = q /\ d = e /\ u = v /\ x = y
    BY ONLY <2>1
  <2> QED
    BY <2>2
<1>2. CASE ~isIPv6(s) /\ s.tier = 2 /\ aware
  <2>1. /\ p \in 0..3 /\ r \in 0..7 /\ u \in 0..63 /\ x \in 0..127
        /\ a = <<f, 16 + 4 * p + r \div 4, 64 * (r % 4) + u, 2 * x>>
    BY <1>2, HostLeafShape DEF f
  <2>2. /\ o \in 0..3 /\ q \in 0..7 /\ v \in 0..63 /\ y \in 0..127
        /\ b = <<f, 16 + 4 * o + q \div 4, 64 * (q % 4) + v, 2 * y>>
    BY <1>0, <1>2, HostLeafShape DEF f
  <2>3. <<f, 16 + 4 * p + r \div 4, 64 * (r % 4) + u, 2 * x>>
          = <<f, 16 + 4 * o + q \div 4, 64 * (q % 4) + v, 2 * y>>
    BY <1>0, <2>1, <2>2
  <2>4. /\ 16 + 4 * p + r \div 4 = 16 + 4 * o + q \div 4
        /\ 64 * (r % 4) + u = 64 * (q % 4) + v /\ 2 * x = 2 * y
    BY ONLY <2>3
  <2>5. p = o /\ r = q /\ u = v
    BY <2>1, <2>2, <2>4, RailAndPlane
  <2> QED
    BY <1>2, <2>4, <2>5
<1>3. CASE ~isIPv6(s) /\ s.tier = 2 /\ ~aware
  <2>1. a = <<f, 16 + 2 * r, u, 2 * x>>
    BY <1>3, HostLeafShape DEF f
  <2>2. b = <<f, 16 + 2 * q, v, 2 * y>>
    BY <1>0, <1>3, HostLeafShape DEF f
  <2>3. <<f, 16 + 2 * r, u, 2 * x>> = <<f, 16 + 2 * q, v, 2 * y>>
    BY <1>0, <2>1, <2>2
  <2>4. 16 + 2 * r = 16 + 2 * q /\ u = v /\ 2 * x = 2 * y
    BY ONLY <2>3
  <2> QED
    BY <1>3, <2>4
<1>4. CASE ~isIPv6(s) /\ s.tier # 2 /\ aware
  <2>1. /\ p \in 0..3 /\ r \in 0..7 /\ d \in 0..31 /\ u \in 0..63
        /\ a = <<f, 64 * p + 8 * r + d \div 4, 64 * (d % 4) + u, 2 * x>>
    BY <1>4, HostLeafShape DEF f
  <2>2. /\ o \in 0..3 /\ q \in 0..7 /\ e \in 0..31 /\ v \in 0..63
        /\ b = <<f, 64 * o + 8 * q + e \div 4, 64 * (e % 4) + v, 2 * y>>
    BY <1>0, <1>4, HostLeafShape DEF f
  <2>3. <<f, 64 * p + 8 * r + d \div 4, 64 * (d % 4) + u, 2 * x>>
          = <<f, 64 * o + 8 * q + e \div 4, 64 * (e % 4) + v, 2 * y>>
    BY <1>0, <2>1, <2>2
  <2>4. /\ 64 * p + 8 * r + d \div 4 = 64 * o + 8 * q + e \div 4
        /\ 64 * (d % 4) + u = 64 * (e % 4) + v /\ 2 * x = 2 * y
    BY ONLY <2>3
  <2>5. /\ d \div 4 \in 0..7 /\ d % 4 \in 0..3 /\ d = 4 * (d \div 4) + (d % 4)
        /\ e \div 4 \in 0..7 /\ e % 4 \in 0..3 /\ e = 4 * (e \div 4) + (e % 4)
    BY <2>1, <2>2, DivideByFour
  <2>6. p \in 0..3 /\ r \in 0..7 /\ o \in 0..3 /\ q \in 0..7 /\ u \in 0..63 /\ v \in 0..63
    BY <2>1, <2>2
  <2>7. p = o /\ r = q /\ d \div 4 = e \div 4
    BY ONLY <2>4, <2>5, <2>6, ThreeDigits
  <2>8. d % 4 = e % 4 /\ u = v
    BY ONLY <2>4, <2>5, <2>6, TwoDigits
  <2> QED
    BY <1>4, <2>4, <2>5, <2>7, <2>8
<1>5. CASE ~isIPv6(s) /\ s.tier # 2 /\ ~aware
  <2>1. r \in 0..7 /\ d \in 0..31 /\ a = <<f, 32 * r + d, u, 2 * x>>
    BY <1>5, HostLeafShape DEF f
  <2>2. q \in 0..7 /\ e \in 0..31 /\ b = <<f, 32 * q + e, v, 2 * y>>
    BY <1>0, <1>5, HostLeafShape DEF f
  <2>3. <<f, 32 * r + d, u, 2 * x>> = <<f, 32 * q + e, v, 2 * y>>
    BY <1>0, <2>1, <2>2
  <2>4. 32 * r + d = 32 * q + e /\ u = v /\ 2 * x = 2 * y
    BY ONLY <2>3
  <2>5. r = q /\ d = e
    BY <2>1, <2>2, <2>4, RailAndPod
  <2> QED
    BY <1>5, <2>4, <2>5
<1> QED
  BY <1>1, <1>2, <1>3, <1>4, <1>5

(* Two links are given the same address only at the same coordinates: the  *)
(* bounds of allocateHostLeaf keep fields that share an octet apart in     *)
(* every layout (IPv4 or IPv6, two or three tiers, one plane or several),  *)
(* for all coordinates.  An IPv4 address of two tiers does not hold the    *)
(* pod, and one that is not plane-aware does not hold the plane.           *)
THEOREM HostAddressesDistinct ==
    ASSUME NEW s,
           NEW p \in Int, NEW r \in Int, NEW d \in Int, NEW u \in Int, NEW x \in Int,
           NEW o \in Int, NEW q \in Int, NEW e \in Int, NEW v \in Int, NEW y \in Int,
           allocateHostLeaf(s, p, r, d, u, x) # <<>>,
           allocateHostLeaf(s, p, r, d, u, x) = allocateHostLeaf(s, o, q, e, v, y)
    PROVE  /\ r = q /\ u = v /\ x = y
           /\ isIPv6(s) \/ planeAwareAddressing(s) => p = o
           /\ isIPv6(s) \/ s.tier # 2 => d = e
<1>1. SameCoordinates(s, p, r, d, u, x, o, q, e, v, y)
  BY SameCoordinatesLemma
<1> QED
  BY <1>1 DEF SameCoordinates

\* The same for the addresses of VR: two NICs of four planes on a rail.
LEMMA VRLeafShape ==
    ASSUME NEW s, NEW p \in Int, NEW r \in Int, NEW d \in Int, NEW u \in Int, NEW x \in Int,
           allocateVRHostLeaf(s, p, r, d, u, x) # <<>>
    PROVE  LET a == allocateVRHostLeaf(s, p, r, d, u, x)
               f == IF s.firstOctet = 0 THEN 240 ELSE s.firstOctet
           IN  /\ p \in 0..7 /\ r \in 0..3 /\ d = 0 /\ u \in 0..127 /\ x \in 0..251
               /\ isIPv6(s) => a = <<253, 2, 0, s.siteID, 16 * (p \div 4) + r, d, u, x>>
               /\ ~isIPv6(s) => a = <<f, 128 * (p \div 4) + 32 * r + d,
                                          2 * u + x \div 128, 2 * (x % 128)>>
<1>1. /\ Fits(p, 7) /\ Fits(r, 3) /\ d = 0
      /\ Fits(u, 127) /\ Fits(x, 251)
  BY DEF allocateVRHostLeaf
<1>2. p \in 0..7 /\ r \in 0..3 /\ d = 0 /\ u \in 0..127 /\ x \in 0..251
  BY <1>1 DEF Fits
<1> QED
  BY <1>2 DEF allocateVRHostLeaf

VRSameCoordinates(s, p, r, d, u, x, o, q, e, v, y) ==
    p \div 4 = o \div 4 /\ r = q /\ u = v /\ x = y /\ d = e

LEMMA VRSameCoordinatesLemma ==
    ASSUME NEW s,
           NEW p \in Int, NEW r \in Int, NEW d \in Int, NEW u \in Int, NEW x \in Int,
           NEW o \in Int, NEW q \in Int, NEW e \in Int, NEW v \in Int, NEW y \in Int,
           allocateVRHostLeaf(s, p, r, d, u, x) # <<>>,
           allocateVRHostLeaf(s, p, r, d, u, x) = allocateVRHostLeaf(s, o, q, e, v, y)
    PROVE  VRSameCoordinates(s, p, r, d, u, x, o, q, e, v, y)
<1> SUFFICES p \div 4 = o \div 4 /\ r = q /\ u = v /\ x = y /\ d = e
  BY DEF VRSameCoordinates
<1> DEFINE a == allocateVRHostLeaf(s, p, r, d, u, x)
           b == allocateVRHostLeaf(s, o, q, e, v, y)
           f == IF s.firstOctet = 0 THEN 240 ELSE s.firstOctet
<1>1. p \in 0..7 /\ r \in 0..3 /\ d = 0 /\ u \in 0..127 /\ x \in 0..251
  BY VRLeafShape
<1>2. b # <<>> /\ o \in 0..7 /\ q \in 0..3 /\ e = 0 /\ v \in 0..127 /\ y \in 0..251
  BY VRLeafShape
<1>3. CASE isIPv6(s)
  <2>1. a = <<253, 2, 0, s.siteID, 16 * (p \div 4) + r, d, u, x>>
    BY <1>2, <1>3, VRLeafShape
  <2>2. b = <<253, 2, 0, s.siteID, 16 * (o \div 4) + q, e, v, y>>
    BY <1>2, <1>3, VRLeafShape
  <2>3. <<253, 2, 0, s.siteID, 16 * (p \div 4) + r, d, u, x>>
          = <<253, 2, 0, s.siteID, 16 * (o \div 4) + q, e, v, y>>
    BY <2>1, <2>2
  <2>4. 16 * (p \div 4) + r = 16 * (o \div 4) + q /\ u = v /\ x = y
    BY ONLY <2>3
  <2> QED
    BY <1>1, <1>2, <2>4
<1>4. CASE ~isIPv6(s)
  <2>1. a = <<f, 128 * (p \div 4) + 32 * r + d, 2 * u + x \div 128, 2 * (x % 128)>>
    BY <1>2, <1>4, VRLeafShape
  <2>2. b = <<f, 128 * (o \div 4) + 32 * q + e, 2 * v + y \div 128, 2 * (y % 128)>>
    BY <1>2, <1>4, VRLeafShape
  <2>3. <<f, 128 * (p \div 4) + 32 * r + d, 2 * u + x \div 128, 2 * (x % 128)>>
          = <<f, 128 * (o \div 4) + 32 * q + e, 2 * v + y \div 128, 2 * (y % 128)>>
    BY <2>1, <2>2
  <2> HIDE DEF f
  <2>4. /\ 128 * (p \div 4) + 32 * r + d = 128 * (o \div 4) + 32 * q + e
        /\ 2 * u + x \div 128 = 2 * v + y \div 128
        /\ 2 * (x % 128) = 2 * (y % 128)
    BY ONLY <2>3
  <2>5. /\ x \div 128 \in 0..1 /\ x % 128 \in 0..127 /\ x = 128 * (x \div 128) + (x % 128)
        /\ y \div 128 \in 0..1 /\ y % 128 \in 0..127 /\ y = 128 * (y \div 128) + (y % 128)
    BY <1>1, <1>2
  <2>6. u = v /\ x = y
    BY <1>1, <1>2, <2>4, <2>5
  <2>7. p \div 4 = o \div 4 /\ r = q
    BY <1>1, <1>2, <2>4
  <2> QED
    BY <1>1, <1>2, <2>6, <2>7
<1> QED
  BY <1>3, <1>4

(* The same for VR, where the plane is held as the NIC it belongs to       *)
(* (allocateVRHostLeaf).                                                   *)
THEOREM VRAddressesDistinct ==
    ASSUME NEW s,
           NEW p \in Int, NEW r \in Int, NEW d \in Int, NEW u \in Int, NEW x \in Int,
           NEW o \in Int, NEW q \in Int, NEW e \in Int, NEW v \in Int, NEW y \in Int,
           allocateVRHostLeaf(s, p, r, d, u, x) # <<>>,
           allocateVRHostLeaf(s, p, r, d, u, x) = allocateVRHostLeaf(s, o, q, e, v, y)
    PROVE  p \div 4 = o \div 4 /\ r = q /\ u = v /\ x = y /\ d = e
<1>1. VRSameCoordinates(s, p, r, d, u, x, o, q, e, v, y)
  BY VRSameCoordinatesLemma
<1> QED
  BY <1>1 DEF VRSameCoordinates

\* The leading bits of an octet are the fields they hold.
LEMMA FieldsOfOctets ==
    /\ \A r \in 0..3, u \in 0..63 : (64 * r + u) \div 64 = r
    /\ \A r \in 0..7 : (16 + 2 * r) \div 2 = 8 + r
    /\ \A r \in 0..7, d \in 0..31 : (32 * r + d) \div 32 = r
  OBVIOUS

LEMMA PlaneAndRail ==
    ASSUME NEW p \in 0..3, NEW r \in 0..7, NEW d \in 0..31
    PROVE  (64 * p + 8 * r + d \div 4) \div 8 = 8 * p + r
<1>1. d \div 4 \in 0..7
  BY DivideByFour
<1> QED
  BY <1>1

LEMMA PlaneThenRail ==
    ASSUME NEW p \in 0..3, NEW r \in 0..7, NEW o \in 0..3, NEW q \in 0..7
    PROVE  (8 * p + r) * 8 = (8 * o + q) * 8 <=> p = o /\ r = q
  OBVIOUS

LEMMA SplitRail ==
    ASSUME NEW p \in 0..3, NEW r \in 0..7, NEW o \in 0..3, NEW q \in 0..7
    PROVE  16 + 4 * p + r \div 4 = 16 + 4 * o + q \div 4 /\ (r % 4) * 64 = (q % 4) * 64
             <=> p = o /\ r = q
  OBVIOUS

LEMMA RailDigits ==
    ASSUME NEW r \in 0..7
    PROVE  r \div 4 \in 0..1 /\ r % 4 \in 0..3 /\ r = 4 * (r \div 4) + (r % 4)
  OBVIOUS

\* Two IPv4 networks of one site are equal when their cut octets are.
LEMMA SupernetIPv4 ==
    ASSUME NEW a, NEW b, DOMAIN a = 1..4, DOMAIN b = 1..4, a[1] = b[1]
    PROVE  /\ supernet(a, 11) = supernet(b, 11) <=> (a[2] \div 32) * 32 = (b[2] \div 32) * 32
           /\ supernet(a, 13) = supernet(b, 13) <=> (a[2] \div 8) * 8 = (b[2] \div 8) * 8
           /\ supernet(a, 15) = supernet(b, 15) <=> (a[2] \div 2) * 2 = (b[2] \div 2) * 2
           /\ supernet(a, 18) = supernet(b, 18)
                <=> a[2] = b[2] /\ (a[3] \div 64) * 64 = (b[3] \div 64) * 64
<1>1. \A n : supernet(a, n) = supernet(b, n)
              <=> \A k \in 1..4 : supernet(a, n)[k] = supernet(b, n)[k]
  BY SupernetEqual
<1>2. \A n : supernet(a, n) = supernet(b, n)
              <=> /\ supernet(a, n)[1] = supernet(b, n)[1]
                  /\ supernet(a, n)[2] = supernet(b, n)[2]
                  /\ supernet(a, n)[3] = supernet(b, n)[3]
                  /\ supernet(a, n)[4] = supernet(b, n)[4]
  BY <1>1
<1> QED
  BY <1>2, SupernetOctets

\* What its network tells.
PrefixTells(s, p, r, d, u, x, o, q, e, v, y) ==
    supernet(allocateHostLeaf(s, p, r, d, u, x), PoolBits(s, FALSE))
      = supernet(allocateHostLeaf(s, o, q, e, v, y), PoolBits(s, FALSE))
    <=> r = q /\ (isIPv6(s) \/ planeAwareAddressing(s) => p = o)

LEMMA PrefixTellsLemma ==
    ASSUME NEW s, s.tier \in {2, 3},
           NEW p \in Int, NEW r \in Int, NEW d \in Int, NEW u \in Int, NEW x \in Int,
           NEW o \in Int, NEW q \in Int, NEW e \in Int, NEW v \in Int, NEW y \in Int,
           allocateHostLeaf(s, p, r, d, u, x) # <<>>,
           allocateHostLeaf(s, o, q, e, v, y) # <<>>
    PROVE  PrefixTells(s, p, r, d, u, x, o, q, e, v, y)
<1> SUFFICES supernet(allocateHostLeaf(s, p, r, d, u, x), PoolBits(s, FALSE))
               = supernet(allocateHostLeaf(s, o, q, e, v, y), PoolBits(s, FALSE))
             <=> r = q /\ (isIPv6(s) \/ planeAwareAddressing(s) => p = o)
  BY DEF PrefixTells
<1> DEFINE a == allocateHostLeaf(s, p, r, d, u, x)
           b == allocateHostLeaf(s, o, q, e, v, y)
           aware == planeAwareAddressing(s)
           f == FirstOctet(s)
           Same(n) == supernet(a, n) = supernet(b, n)
<1> HIDE DEF f
<1>1. CASE isIPv6(s)
  <2>1. a = <<253, 2, 0, p, r, d, u, x>> /\ b = <<253, 2, 0, o, q, e, v, y>>
    BY <1>1, HostLeafShape
  <2> HIDE DEF a, b
  <2>2. /\ DOMAIN a = 1..8 /\ a[1] = 253 /\ a[2] = 2 /\ a[3] = 0 /\ a[4] = p /\ a[5] = r
        /\ DOMAIN b = 1..8 /\ b[1] = 253 /\ b[2] = 2 /\ b[3] = 0 /\ b[4] = o /\ b[5] = q
    BY <2>1
  <2>3. Same(40) <=> \A k \in 1..5 : a[k] = b[k]
    BY <2>2, SupernetBytes
  <2>4. Same(40) <=> p = o /\ r = q
    BY <2>2, <2>3
  <2> QED
    BY <1>1, <2>4 DEF a, b, PoolBits, railPrefixLength
<1>2. CASE ~isIPv6(s) /\ s.tier = 2 /\ aware
  <2>1. /\ p \in 0..3 /\ r \in 0..7 /\ u \in 0..63
        /\ a = <<f, 16 + 4 * p + r \div 4, 64 * (r % 4) + u, 2 * x>>
    BY <1>2, HostLeafShape DEF f
  <2>2. /\ o \in 0..3 /\ q \in 0..7 /\ v \in 0..63
        /\ b = <<f, 16 + 4 * o + q \div 4, 64 * (q % 4) + v, 2 * y>>
    BY <1>2, HostLeafShape DEF f
  <2> HIDE DEF a, b
  <2>0. DOMAIN a = 1..4 /\ DOMAIN b = 1..4 /\ a[1] = b[1]
    BY <2>1, <2>2
  <2>3. /\ a[2] = 16 + 4 * p + r \div 4 /\ a[3] = 64 * (r % 4) + u
        /\ b[2] = 16 + 4 * o + q \div 4 /\ b[3] = 64 * (q % 4) + v
    BY <2>1, <2>2
  <2>4. Same(18) <=> a[2] = b[2] /\ (a[3] \div 64) * 64 = (b[3] \div 64) * 64
    BY ONLY <2>0, SupernetIPv4
  <2>5. /\ r \div 4 \in 0..1 /\ r % 4 \in 0..3 /\ r = 4 * (r \div 4) + (r % 4)
        /\ q \div 4 \in 0..1 /\ q % 4 \in 0..3 /\ q = 4 * (q \div 4) + (q % 4)
    BY <2>1, <2>2, RailDigits
  <2>6. a[3] \div 64 = r % 4 /\ b[3] \div 64 = q % 4
    BY <2>1, <2>2, <2>3, <2>5, FieldsOfOctets
  <2>7. a[2] = b[2] /\ (a[3] \div 64) * 64 = (b[3] \div 64) * 64 <=> p = o /\ r = q
    <3>1. a[2] = b[2] /\ (a[3] \div 64) * 64 = (b[3] \div 64) * 64
            <=> 16 + 4 * p + r \div 4 = 16 + 4 * o + q \div 4 /\ (r % 4) * 64 = (q % 4) * 64
      BY <2>3, <2>6
    <3>2. p \in 0..3 /\ r \in 0..7 /\ o \in 0..3 /\ q \in 0..7
      BY <2>1, <2>2
    <3> QED
      BY ONLY <3>1, <3>2, SplitRail
  <2> QED
    BY <1>2, <2>4, <2>7 DEF a, b, PoolBits, railPrefixLength
<1>3. CASE ~isIPv6(s) /\ s.tier = 2 /\ ~aware
  <2>1. r \in 0..7 /\ a = <<f, 16 + 2 * r, u, 2 * x>>
    BY <1>3, HostLeafShape DEF f
  <2>2. q \in 0..7 /\ b = <<f, 16 + 2 * q, v, 2 * y>>
    BY <1>3, HostLeafShape DEF f
  <2> HIDE DEF a, b
  <2>3. /\ DOMAIN a = 1..4 /\ DOMAIN b = 1..4 /\ a[1] = b[1]
        /\ a[2] = 16 + 2 * r /\ b[2] = 16 + 2 * q
    BY <2>1, <2>2
  <2>4. Same(15) <=> (a[2] \div 2) * 2 = (b[2] \div 2) * 2
    BY <2>3, SupernetIPv4
  <2>5. a[2] \div 2 = 8 + r /\ b[2] \div 2 = 8 + q
    BY <2>1, <2>2, <2>3, FieldsOfOctets
  <2>6. Same(15) <=> r = q
    BY <2>4, <2>5
  <2> QED
    BY <1>3, <2>6 DEF a, b, PoolBits, railPrefixLength
<1>4. CASE ~isIPv6(s) /\ s.tier = 3 /\ aware
  <2>1. /\ p \in 0..3 /\ r \in 0..7 /\ d \in 0..31
        /\ a = <<f, 64 * p + 8 * r + d \div 4, 64 * (d % 4) + u, 2 * x>>
    BY <1>4, HostLeafShape DEF f
  <2>2. /\ o \in 0..3 /\ q \in 0..7 /\ e \in 0..31
        /\ b = <<f, 64 * o + 8 * q + e \div 4, 64 * (e % 4) + v, 2 * y>>
    BY <1>4, HostLeafShape DEF f
  <2> HIDE DEF a, b
  <2>3. /\ DOMAIN a = 1..4 /\ DOMAIN b = 1..4 /\ a[1] = b[1]
        /\ a[2] = 64 * p + 8 * r + d \div 4 /\ b[2] = 64 * o + 8 * q + e \div 4
    BY <2>1, <2>2
  <2>4. Same(13) <=> (a[2] \div 8) * 8 = (b[2] \div 8) * 8
    BY <2>3, SupernetIPv4
  <2>6. a[2] \div 8 = 8 * p + r /\ b[2] \div 8 = 8 * o + q
    BY <2>1, <2>2, <2>3, PlaneAndRail
  <2>7. Same(13) <=> p = o /\ r = q
    <3>1. p \in 0..3 /\ r \in 0..7 /\ o \in 0..3 /\ q \in 0..7
      BY <2>1, <2>2
    <3>2. Same(13) <=> (8 * p + r) * 8 = (8 * o + q) * 8
      BY <2>4, <2>6
    <3> QED
      BY ONLY <3>1, <3>2, PlaneThenRail
  <2> QED
    BY <1>4, <2>7 DEF a, b, PoolBits, railPrefixLength
<1>5. CASE ~isIPv6(s) /\ s.tier = 3 /\ ~aware
  <2>1. r \in 0..7 /\ d \in 0..31 /\ a = <<f, 32 * r + d, u, 2 * x>>
    BY <1>5, HostLeafShape DEF f
  <2>2. q \in 0..7 /\ e \in 0..31 /\ b = <<f, 32 * q + e, v, 2 * y>>
    BY <1>5, HostLeafShape DEF f
  <2> HIDE DEF a, b
  <2>3. /\ DOMAIN a = 1..4 /\ DOMAIN b = 1..4 /\ a[1] = b[1]
        /\ a[2] = 32 * r + d /\ b[2] = 32 * q + e
    BY <2>1, <2>2
  <2>4. Same(11) <=> (a[2] \div 32) * 32 = (b[2] \div 32) * 32
    BY <2>3, SupernetIPv4
  <2>5. a[2] \div 32 = r /\ b[2] \div 32 = q
    BY <2>1, <2>2, <2>3, FieldsOfOctets
  <2>6. Same(11) <=> r = q
    BY <2>1, <2>2, <2>4, <2>5
  <2> QED
    BY <1>5, <2>6 DEF a, b, PoolBits, railPrefixLength
<1> QED
  BY <1>1, <1>2, <1>3, <1>4, <1>5

(* The network of PoolBits bits of an allocated address is the network of  *)
(* another one exactly when they belong to the same pool, that is the same *)
(* rail and, where the address is plane-aware, the same plane: taking a    *)
(* pool's CIDR from its first allocation (BuildCIDRPools, poolCIDR)        *)
(* contains all of its allocations and none of another pool's.             *)
THEOREM PoolPrefixTellsPool ==
    ASSUME NEW s, s.tier \in {2, 3},
           NEW p \in Int, NEW r \in Int, NEW d \in Int, NEW u \in Int, NEW x \in Int,
           NEW o \in Int, NEW q \in Int, NEW e \in Int, NEW v \in Int, NEW y \in Int,
           allocateHostLeaf(s, p, r, d, u, x) # <<>>,
           allocateHostLeaf(s, o, q, e, v, y) # <<>>
    PROVE  supernet(allocateHostLeaf(s, p, r, d, u, x), PoolBits(s, FALSE))
             = supernet(allocateHostLeaf(s, o, q, e, v, y), PoolBits(s, FALSE))
           <=> r = q /\ (isIPv6(s) \/ planeAwareAddressing(s) => p = o)
<1>1. PrefixTells(s, p, r, d, u, x, o, q, e, v, y)
  BY PrefixTellsLemma
<1> QED
  BY <1>1 DEF PrefixTells

LEMMA NicAndRail ==
    ASSUME NEW c \in 0..1, NEW r \in 0..3, NEW k \in 0..1, NEW q \in 0..3
    PROVE  /\ 16 * c + r = 16 * k + q <=> c = k /\ r = q
           /\ (128 * c + 32 * r) \div 32 = 4 * c + r
           /\ (4 * c + r) * 32 = (4 * k + q) * 32 <=> c = k /\ r = q
  OBVIOUS

VRPrefixTells(s, p, r, d, u, x, o, q, e, v, y) ==
    supernet(allocateVRHostLeaf(s, p, r, d, u, x), PoolBits(s, TRUE))
      = supernet(allocateVRHostLeaf(s, o, q, e, v, y), PoolBits(s, TRUE))
    <=> r = q /\ p \div 4 = o \div 4

LEMMA VRPrefixTellsLemma ==
    ASSUME NEW s,
           NEW p \in Int, NEW r \in Int, NEW d \in Int, NEW u \in Int, NEW x \in Int,
           NEW o \in Int, NEW q \in Int, NEW e \in Int, NEW v \in Int, NEW y \in Int,
           allocateVRHostLeaf(s, p, r, d, u, x) # <<>>,
           allocateVRHostLeaf(s, o, q, e, v, y) # <<>>
    PROVE  VRPrefixTells(s, p, r, d, u, x, o, q, e, v, y)
<1> SUFFICES supernet(allocateVRHostLeaf(s, p, r, d, u, x), PoolBits(s, TRUE))
               = supernet(allocateVRHostLeaf(s, o, q, e, v, y), PoolBits(s, TRUE))
             <=> r = q /\ p \div 4 = o \div 4
  BY DEF VRPrefixTells
<1> DEFINE a == allocateVRHostLeaf(s, p, r, d, u, x)
           b == allocateVRHostLeaf(s, o, q, e, v, y)
           f == IF s.firstOctet = 0 THEN 240 ELSE s.firstOctet
           c == p \div 4
           k == o \div 4
           Same(n) == supernet(a, n) = supernet(b, n)
<1>1. p \in 0..7 /\ r \in 0..3 /\ d = 0 /\ o \in 0..7 /\ q \in 0..3 /\ e = 0
  BY VRLeafShape
<1>2. c \in 0..1 /\ k \in 0..1
  BY <1>1
<1>3. CASE isIPv6(s)
  <2>1. /\ a = <<253, 2, 0, s.siteID, 16 * c + r, d, u, x>>
        /\ b = <<253, 2, 0, s.siteID, 16 * k + q, e, v, y>>
    BY <1>3, VRLeafShape
  <2> HIDE DEF a, b, c, k
  <2>2. /\ DOMAIN a = 1..8 /\ DOMAIN b = 1..8
        /\ a[1] = b[1] /\ a[2] = b[2] /\ a[3] = b[3] /\ a[4] = b[4]
        /\ a[5] = 16 * c + r /\ b[5] = 16 * k + q
    BY <2>1
  <2>3. Same(40) <=> \A m \in 1..5 : a[m] = b[m]
    BY <2>2, SupernetBytes
  <2>4. Same(40) <=> 16 * c + r = 16 * k + q
    BY <2>2, <2>3
  <2>5. Same(40) <=> c = k /\ r = q
    BY <1>1, <1>2, <2>4, NicAndRail
  <2> QED
    BY <1>3, <2>5 DEF a, b, c, k, PoolBits
<1>4. CASE ~isIPv6(s)
  <2>1. /\ a = <<f, 128 * c + 32 * r + d, 2 * u + x \div 128, 2 * (x % 128)>>
        /\ b = <<f, 128 * k + 32 * q + e, 2 * v + y \div 128, 2 * (y % 128)>>
    BY <1>4, VRLeafShape
  <2> HIDE DEF a, b, c, k, f
  <2>2. DOMAIN a = 1..4 /\ DOMAIN b = 1..4 /\ a[1] = b[1]
    BY <2>1
  <2>3. a[2] = 128 * c + 32 * r /\ b[2] = 128 * k + 32 * q
    BY <1>1, <1>2, <2>1
  <2>4. Same(11) <=> (a[2] \div 32) * 32 = (b[2] \div 32) * 32
    BY ONLY <2>2, SupernetIPv4
  <2>5. a[2] \div 32 = 4 * c + r /\ b[2] \div 32 = 4 * k + q
    BY <1>1, <1>2, <2>3, NicAndRail
  <2>6. Same(11) <=> c = k /\ r = q
    BY <1>1, <1>2, <2>4, <2>5, NicAndRail
  <2> QED
    BY <1>4, <2>6 DEF a, b, c, k, PoolBits
<1> QED
  BY <1>3, <1>4

(* The same for VR: the pools are those of a rail and a NIC.               *)
THEOREM VRPoolPrefixTellsPool ==
    ASSUME NEW s,
           NEW p \in Int, NEW r \in Int, NEW d \in Int, NEW u \in Int, NEW x \in Int,
           NEW o \in Int, NEW q \in Int, NEW e \in Int, NEW v \in Int, NEW y \in Int,
           allocateVRHostLeaf(s, p, r, d, u, x) # <<>>,
           allocateVRHostLeaf(s, o, q, e, v, y) # <<>>
    PROVE  supernet(allocateVRHostLeaf(s, p, r, d, u, x), PoolBits(s, TRUE))
             = supernet(allocateVRHostLeaf(s, o, q, e, v, y), PoolBits(s, TRUE))
           <=> r = q /\ p \div 4 = o \div 4
<1>1. VRPrefixTells(s, p, r, d, u, x, o, q, e, v, y)
  BY VRPrefixTellsLemma
<1> QED
  BY <1>1 DEF VRPrefixTells

-----------------------------------------------------------------------------
(* The numbers hosts are given (hostIndex).                                *)

LEMMA SameCardinality == ASSUME NEW S PROVE Cardinality(S) = Cardinality(S)
  BY DEF Cardinality, Cardinality

LEMMA LeastPosition ==
    ASSUME NEW T, T \subseteq Nat, T # {}
    PROVE  Min(T) \in T /\ \A y \in T : Min(T) <= y
  BY LeastNumber DEF Min

\* The host at a position, its key, its name, and the first position of it.
HostAt(topo, m) == topo[m].host[1]
KeyAt(topo, m)  == hostIndexKey(HostAt(topo, m))
NodeAt(topo, m) == HostAt(topo, m).node
SameHost(topo, at, m) ==
    {j \in at : KeyAt(topo, j) = KeyAt(topo, m) /\ NodeAt(topo, j) = NodeAt(topo, m)}
FirstLink(topo, at, m) == Min(SameHost(topo, at, m))

LEMMA FirstPosition ==
    ASSUME NEW topo, NEW at, at \subseteq Nat, NEW m \in at
    PROVE  LET f == FirstLink(topo, at, m)
           IN /\ f \in at /\ KeyAt(topo, f) = KeyAt(topo, m) /\ NodeAt(topo, f) = NodeAt(topo, m)
              /\ \A j \in SameHost(topo, at, m) : f <= j
<1> DEFINE T == SameHost(topo, at, m)
<1>1. T \subseteq Nat /\ m \in T
  BY DEF SameHost
<1>2. Min(T) \in T /\ \A y \in T : Min(T) <= y
  <2> HIDE DEF T
  <2> QED
    BY <1>1, LeastPosition
<1> QED
  BY <1>2 DEF FirstLink, SameHost

\* The hosts of a key before a position.
Before(topo, at, key, m) ==
    {NodeAt(topo, j) : j \in {w \in at : w < m /\ KeyAt(topo, w) = key}}

LEMMA IndexUnfolds ==
    ASSUME NEW topo, NEW at, NEW vr, NEW m
    PROVE  LET h == HostAt(topo, FirstLink(topo, at, m))
           IN hostIndex(topo, at, vr, m)
                = IF vr /\ h.index # <<>> THEN h.index[1]
                  ELSE IF h.ordinal # <<>> THEN h.ordinal[1]
                  ELSE Cardinality(Before(topo, at, KeyAt(topo, m), FirstLink(topo, at, m)))
<1>1. \A S : Cardinality(S) = Cardinality(S)
  BY SameCardinality
<1> QED
  BY <1>1 DEF hostIndex, countHostIndex, FirstLink, SameHost, HostAt, KeyAt, NodeAt, Before

\* There are finitely many.
LEMMA BeforeFinite ==
    ASSUME NEW topo, NEW N \in Nat, NEW at, at \subseteq 1..N, NEW key, NEW m
    PROVE  IsFiniteSet(Before(topo, at, key, m)) /\ Cardinality(Before(topo, at, key, m)) \in Nat
<1> DEFINE S == {w \in at : w < m /\ KeyAt(topo, w) = key}
           T == Before(topo, at, key, m)
           f == [w \in S |-> NodeAt(topo, w)]
<1>1. IsFiniteSet(S)
  <2>1. IsFiniteSet(1..N)
    BY FS_Interval
  <2>2. S \in SUBSET (1..N)
    OBVIOUS
  <2> HIDE DEF S
  <2> QED
    BY <2>1, <2>2, FS_Subset
<1>2. f \in Surjection(S, T)
  BY DEF Surjection, Before
<1> HIDE DEF S, T, f
<1>3. IsFiniteSet(T)
  BY <1>1, <1>2, FS_Surjection
<1> QED
  BY <1>3, FS_CardinalityType DEF T

\* A host that comes first later has a greater number.
LEMMA LaterIsGreater ==
    ASSUME NEW topo, NEW N \in Nat, NEW at, at \subseteq 1..N, NEW key,
           NEW f \in at, NEW g \in at, f < g, KeyAt(topo, f) = key,
           \A j \in at : KeyAt(topo, j) = key /\ NodeAt(topo, j) = NodeAt(topo, f) => f <= j
    PROVE  Cardinality(Before(topo, at, key, f)) < Cardinality(Before(topo, at, key, g))
<1> DEFINE A == Before(topo, at, key, f)
           B == Before(topo, at, key, g)
           n == NodeAt(topo, f)
<1>1. f \in Nat /\ g \in Nat /\ at \subseteq Nat
  OBVIOUS
<1>2. n \notin A
  BY <1>1 DEF Before
<1>3. A \subseteq B /\ n \in B
  BY <1>1 DEF Before
<1>4. IsFiniteSet(A) /\ IsFiniteSet(B) /\ Cardinality(A) \in Nat /\ Cardinality(B) \in Nat
  BY BeforeFinite
<1> HIDE DEF A, B, n
<1>5. Cardinality(A \cup {n}) = Cardinality(A) + 1
  BY <1>2, <1>4, FS_AddElement
<1>6. Cardinality(A \cup {n}) <= Cardinality(B)
  <2>1. A \cup {n} \in SUBSET B
    BY <1>3
  <2> QED
    BY <1>4, <2>1, FS_Subset
<1> QED
  BY <1>4, <1>5, <1>6 DEF A, B

\* Hosts that are counted have different numbers within their key.
LEMMA CountedApart ==
    ASSUME NEW topo, NEW N \in Nat, NEW at, at \subseteq 1..N,
           \A j \in at : HostAt(topo, j).ordinal = <<>>,
           NEW m \in at, NEW n \in at, KeyAt(topo, m) = KeyAt(topo, n),
           hostIndex(topo, at, FALSE, m) = hostIndex(topo, at, FALSE, n)
    PROVE  NodeAt(topo, m) = NodeAt(topo, n)
<1> DEFINE key == KeyAt(topo, m)
           f == FirstLink(topo, at, m)
           g == FirstLink(topo, at, n)
<1>0. at \subseteq Nat
  OBVIOUS
<1>1. /\ f \in at /\ KeyAt(topo, f) = key /\ NodeAt(topo, f) = NodeAt(topo, m)
      /\ \A j \in SameHost(topo, at, m) : f <= j
  BY <1>0, FirstPosition
<1>2. /\ g \in at /\ KeyAt(topo, g) = key /\ NodeAt(topo, g) = NodeAt(topo, n)
      /\ \A j \in SameHost(topo, at, n) : g <= j
  BY <1>0, FirstPosition
<1>3. Cardinality(Before(topo, at, key, f)) = Cardinality(Before(topo, at, key, g))
  <2>1. hostIndex(topo, at, FALSE, m) = Cardinality(Before(topo, at, key, f))
    BY <1>1, IndexUnfolds
  <2>2. hostIndex(topo, at, FALSE, n) = Cardinality(Before(topo, at, key, g))
    BY <1>2, IndexUnfolds
  <2> QED
    BY <2>1, <2>2
<1>4. /\ \A j \in at : KeyAt(topo, j) = key /\ NodeAt(topo, j) = NodeAt(topo, f) => f <= j
      /\ \A j \in at : KeyAt(topo, j) = key /\ NodeAt(topo, j) = NodeAt(topo, g) => g <= j
  BY <1>1, <1>2 DEF SameHost
<1> DEFINE c == Cardinality(Before(topo, at, key, f))
           d == Cardinality(Before(topo, at, key, g))
<1>9. c \in Nat /\ d \in Nat
  BY BeforeFinite
<1> HIDE DEF f, g, key
<1>5. CASE f < g
  <2>1. c < d
    BY <1>1, <1>2, <1>4, <1>5, LaterIsGreater
  <2> QED
    BY <1>3, <1>9, <2>1
<1>6. CASE g < f
  <2>1. d < c
    BY <1>1, <1>2, <1>4, <1>6, LaterIsGreater
  <2> QED
    BY <1>3, <1>9, <2>1
<1>7. CASE f = g
  BY <1>1, <1>2, <1>7
<1>8. f \in Nat /\ g \in Nat
  BY <1>0, <1>1, <1>2
<1> QED
  BY <1>5, <1>6, <1>7, <1>8

-----------------------------------------------------------------------------
(* What the decoders leave (loadTopology, normalizeAIRTopology).           *)

Decoded(topo) ==
    /\ topo \in Seq({topo[k] : k \in DOMAIN topo})
    /\ \A k \in DOMAIN topo : topo[k].host # <<>> =>
         LET h == HostAt(topo, k)
         IN /\ Number(h.plane) /\ Number(h.pod) /\ Number(h.su)
            /\ Number(h.rail) /\ Number(h.index) /\ Number(h.ordinal)
    /\ \A k \in DOMAIN topo : topo[k].leaf # <<>> => Number(topo[k].leaf[1].plane)

\* Hosts with an ordinal have one each, those of one pod and SU different ones.
Placed(topo) ==
    LET hosts == {k \in DOMAIN topo : topo[k].host # <<>>}
    IN \/ \A k \in hosts : HostAt(topo, k).ordinal = <<>>
       \/ /\ \A k \in hosts : HostAt(topo, k).ordinal # <<>>
          /\ \A j, k \in hosts : /\ KeyAt(topo, j) = KeyAt(topo, k)
                                 /\ HostAt(topo, j).ordinal = HostAt(topo, k).ordinal
               => NodeAt(topo, j) = NodeAt(topo, k)

LEMMA ValueIsNumber ==
    ASSUME NEW opt, Number(opt)
    PROVE  /\ Value(opt) \in Int
           /\ opt # <<>> => opt = <<Value(opt)>> /\ Value(opt) = opt[1]
  BY DEF Number, Value

LEMMA OrdinalIsNumber ==
    ASSUME NEW name, NEW prefix, Numbers(name)
    PROVE  /\ Number(optionalAIRNameOrdinal(name, prefix))
           /\ Required(name, prefix) \in Int
<1> DEFINE found == {t \in name : t.prefix = prefix}
           o == optionalAIRNameOrdinal(name, prefix)
<1>1. CASE found = {}
  <2>1. o = <<>>
    BY <1>1 DEF optionalAIRNameOrdinal
  <2> QED
    BY <2>1 DEF Number, Required
<1>2. CASE found # {}
  <2> DEFINE token == CHOOSE t \in found : TRUE
  <2>1. token \in name
    BY <1>2
  <2>2. o = <<-1>> \/ o = <<token.n - 1>>
    BY <1>2 DEF optionalAIRNameOrdinal, parseOneBasedOrdinal
  <2> HIDE DEF token, found, o
  <2>3. token.n - 1 \in Int
    BY <2>1 DEF Numbers
  <2>4. o = <<o[1]>> /\ o[1] \in Int /\ o # <<>>
    BY <2>2, <2>3
  <2> QED
    BY <2>4 DEF o, Number, Required
<1> QED
  BY <1>1, <1>2

\* An AIR link that is accepted.
LEMMA AIRLinkShape ==
    ASSUME NEW h, NEW l, NEW tier, normalizeAIRHostLink(h, l, tier) # <<>>,
           Numbers(h.node), Numbers(l.node), h.rail \in Int
    PROVE  LET n == normalizeAIRHostLink(h, l, tier)[1]
           IN /\ n.ends = 2 /\ n.host # <<>> /\ n.leaf # <<>>
              /\ n.host[1].node = h.node /\ n.host[1].plane = <<>> /\ n.host[1].index = <<>>
              /\ Number(n.host[1].pod) /\ Number(n.host[1].su)
              /\ Number(n.host[1].rail)
              /\ Number(n.host[1].ordinal) /\ n.host[1].ordinal # <<>>
              /\ Number(n.leaf[1].plane)
              /\ n.pos = <<Value(n.host[1].pod), n.host[1].su[1], n.host[1].ordinal[1]>>
<1> DEFINE su == Required(h.node, "su")
           idx == Required(h.node, "h")
           pod == optionalAIRNameOrdinal(h.node, "pod")
           plane == Required(l.node, "p")
           rail == parseOneBasedOrdinal(h.rail)
           n == normalizeAIRHostLink(h, l, tier)[1]
<1>1. su \in Int /\ idx \in Int /\ plane \in Int /\ Number(pod)
  BY OrdinalIsNumber
<1>2. rail \in Int
  BY DEF parseOneBasedOrdinal
<1>3. n = [ends |-> 2,
           host |-> <<[node |-> h.node, plane |-> <<>>, pod |-> pod, su |-> <<su>>,
                       rail |-> <<rail>>, index |-> <<>>, ordinal |-> <<idx>>]>>,
           leaf |-> <<[port |-> l.port, plane |-> <<plane>>]>>,
           pos  |-> <<Value(pod), su, idx>>]
  BY DEF normalizeAIRHostLink
<1> HIDE DEF n, su, idx, pod, plane, rail
<1>4. /\ n.ends = 2 /\ n.host # <<>> /\ n.leaf # <<>>
      /\ n.host[1].node = h.node /\ n.host[1].plane = <<>> /\ n.host[1].index = <<>>
      /\ n.host[1].pod = pod /\ n.host[1].su = <<su>> /\ n.host[1].rail = <<rail>>
      /\ n.host[1].ordinal = <<idx>> /\ n.leaf[1].plane = <<plane>>
      /\ n.pos = <<Value(pod), su, idx>>
  BY <1>3
<1>5. Number(<<su>>) /\ Number(<<rail>>) /\ Number(<<idx>>) /\ Number(<<plane>>)
  BY <1>1, <1>2 DEF Number
<1> QED
  BY <1>1, <1>4, <1>5 DEF n

LEMMA AIRDecoded ==
    ASSUME NEW air, air \in Seq({air[k] : k \in DOMAIN air}), NEW tier,
           \A k \in DOMAIN air : AIRLink(air[k])
    PROVE  LET topo == normalizeAIRTopology(air, tier) IN Decoded(topo) /\ Placed(topo)
<1> DEFINE topo == normalizeAIRTopology(air, tier)
           at == {k \in DOMAIN air : air[k].ends # 0 /\ (air[k].ends = 2 => air[k].host # <<>>)}
           Normal(k) == normalizeAIRHostLink(air[k].host[1], air[k].leaf[1], tier)
           none == [ends |-> 0, host |-> <<>>, leaf |-> <<>>]
<1>1. CASE topo = <<>>
  BY <1>1 DEF Decoded, Placed
<1>2. CASE topo # <<>>
  <2>1. /\ \A k \in at : air[k].ends = 2 /\ air[k].leaf # <<>> /\ Normal(k) # <<>>
        /\ \A j, k \in at : Normal(j)[1].pos = Normal(k)[1].pos
             => air[j].host[1].node = air[k].host[1].node
        /\ topo = [k \in DOMAIN air |-> IF k \in at THEN Normal(k)[1] ELSE none]
    BY <1>2 DEF normalizeAIRTopology
  <2>2. ASSUME NEW k \in at
        PROVE  /\ Normal(k)[1].host # <<>>
               /\ Normal(k)[1].host[1].node = air[k].host[1].node
               /\ Normal(k)[1].host[1].plane = <<>> /\ Normal(k)[1].host[1].index = <<>>
               /\ Number(Normal(k)[1].host[1].pod) /\ Number(Normal(k)[1].host[1].su)
               /\ Number(Normal(k)[1].host[1].rail)
               /\ Number(Normal(k)[1].host[1].ordinal)
               /\ Normal(k)[1].host[1].ordinal # <<>>
               /\ Number(Normal(k)[1].leaf[1].plane)
               /\ Normal(k)[1].pos = <<Value(Normal(k)[1].host[1].pod),
                                       Normal(k)[1].host[1].su[1],
                                       Normal(k)[1].host[1].ordinal[1]>>
    <3> DEFINE h == air[k].host[1]
               l == air[k].leaf[1]
    <3>1. Numbers(h.node) /\ Numbers(l.node) /\ h.rail \in Int
      BY <2>1 DEF AIRLink
    <3>2. normalizeAIRHostLink(h, l, tier) # <<>>
      BY <2>1
    <3> HIDE DEF h, l
    <3>3. LET n == normalizeAIRHostLink(h, l, tier)[1]
           IN /\ n.ends = 2 /\ n.host # <<>> /\ n.leaf # <<>>
              /\ n.host[1].node = h.node /\ n.host[1].plane = <<>> /\ n.host[1].index = <<>>
              /\ Number(n.host[1].pod) /\ Number(n.host[1].su)
              /\ Number(n.host[1].rail)
              /\ Number(n.host[1].ordinal) /\ n.host[1].ordinal # <<>>
              /\ Number(n.leaf[1].plane)
              /\ n.pos = <<Value(n.host[1].pod), n.host[1].su[1], n.host[1].ordinal[1]>>
      BY ONLY <3>1, <3>2, AIRLinkShape
    <3> QED
      BY <3>3 DEF h, l
  <2> HIDE DEF Normal, topo, at
  <2>3. DOMAIN topo = DOMAIN air /\ \A k \in DOMAIN topo : topo[k] = IF k \in at THEN Normal(k)[1] ELSE none
    BY <2>1
  <2>4. \A k \in DOMAIN topo : topo[k].host # <<>> => k \in at /\ topo[k] = Normal(k)[1]
    BY <2>3
  <2>5. topo \in Seq({topo[k] : k \in DOMAIN topo})
    <3>1. Len(air) \in Nat /\ DOMAIN air = 1..Len(air)
      OBVIOUS
    <3>2. topo = [k \in 1..Len(air) |-> topo[k]]
      BY <2>1, <2>3, <3>1
    <3> QED
      BY <2>3, <3>1, <3>2
  <2>6. \A k \in DOMAIN topo : topo[k].leaf # <<>> => Number(topo[k].leaf[1].plane)
    BY <2>2, <2>3
  <2>7. Number(<<>>)
    BY DEF Number
  <2>8. Decoded(topo)
    BY <2>2, <2>4, <2>5, <2>6, <2>7 DEF Decoded, HostAt
  <2>9. ASSUME NEW j \in DOMAIN topo, NEW k \in DOMAIN topo, topo[j].host # <<>>, topo[k].host # <<>>,
               KeyAt(topo, j) = KeyAt(topo, k),
               HostAt(topo, j).ordinal = HostAt(topo, k).ordinal
        PROVE  NodeAt(topo, j) = NodeAt(topo, k)
    <3>1. j \in at /\ topo[j] = Normal(j)[1] /\ k \in at /\ topo[k] = Normal(k)[1]
      BY <2>4, <2>9
    <3>2. /\ topo[j].host[1].pod = topo[k].host[1].pod /\ topo[j].host[1].su = topo[k].host[1].su
          /\ topo[j].host[1].ordinal = topo[k].host[1].ordinal
      BY <2>9 DEF KeyAt, HostAt, hostIndexKey
    <3>3. Normal(j)[1].pos = Normal(k)[1].pos
      BY <2>2, <3>1, <3>2
    <3> QED
      BY <2>1, <2>2, <3>1, <3>3 DEF NodeAt, HostAt
  <2>10. Placed(topo)
    BY <2>2, <2>4, <2>9 DEF Placed, HostAt
  <2> QED
    BY <2>8, <2>10 DEF topo
<1> QED
  BY <1>1, <1>2

LEMMA ReferenceDecoded ==
    ASSUME NEW topo, topo \in Seq({topo[k] : k \in DOMAIN topo}),
           \A k \in DOMAIN topo : ReferenceLink(topo[k])
    PROVE  Decoded(topo) /\ Placed(topo)
<1>1. Number(<<>>)
  BY DEF Number
<1>2. Decoded(topo)
  BY <1>1 DEF Decoded, ReferenceLink, HostAt
<1>3. Placed(topo)
  BY DEF Placed, ReferenceLink, HostAt
<1> QED
  BY <1>2, <1>3

\* Within its key a number tells the host.
LEMMA NumbersApart ==
    ASSUME NEW topo, Decoded(topo), Placed(topo), NEW allowed,
           NEW m \in HostLinks(topo, FALSE, allowed),
           NEW n \in HostLinks(topo, FALSE, allowed),
           KeyAt(topo, m) = KeyAt(topo, n),
           LET at == HostLinks(topo, FALSE, allowed)
           IN hostIndex(topo, at, FALSE, m) = hostIndex(topo, at, FALSE, n)
    PROVE  NodeAt(topo, m) = NodeAt(topo, n)
<1> DEFINE at == HostLinks(topo, FALSE, allowed)
<1>1. /\ Len(topo) \in Nat /\ at \subseteq 1..Len(topo)
      /\ \A k \in at : k \in DOMAIN topo /\ topo[k].host # <<>>
  <2>1. Len(topo) \in Nat /\ DOMAIN topo = 1..Len(topo)
    BY DEF Decoded
  <2>2. \A k \in at : k \in DOMAIN topo /\ topo[k].host # <<>>
    BY DEF HostLinks
  <2> QED
    BY <2>1, <2>2
<1>2. m \in at /\ n \in at /\ hostIndex(topo, at, FALSE, m) = hostIndex(topo, at, FALSE, n)
  OBVIOUS
<1> HIDE DEF at
<1>3. CASE \A k \in at : HostAt(topo, k).ordinal = <<>>
  BY <1>1, <1>2, <1>3, CountedApart
<1>4. CASE /\ \A k \in at : HostAt(topo, k).ordinal # <<>>
           /\ \A j, k \in at : /\ KeyAt(topo, j) = KeyAt(topo, k)
                               /\ HostAt(topo, j).ordinal = HostAt(topo, k).ordinal
                => NodeAt(topo, j) = NodeAt(topo, k)
  <2> DEFINE f == FirstLink(topo, at, m)
             g == FirstLink(topo, at, n)
  <2>0. at \subseteq Nat
    BY <1>1
  <2>1. f \in at /\ KeyAt(topo, f) = KeyAt(topo, m) /\ NodeAt(topo, f) = NodeAt(topo, m)
    BY <1>2, <2>0, FirstPosition
  <2>2. g \in at /\ KeyAt(topo, g) = KeyAt(topo, n) /\ NodeAt(topo, g) = NodeAt(topo, n)
    BY <1>2, <2>0, FirstPosition
  <2>3. /\ hostIndex(topo, at, FALSE, m) = HostAt(topo, f).ordinal[1]
        /\ hostIndex(topo, at, FALSE, n) = HostAt(topo, g).ordinal[1]
    BY <1>4, <2>1, <2>2, IndexUnfolds
  <2> HIDE DEF f, g
  <2>4. /\ HostAt(topo, f).ordinal = <<HostAt(topo, f).ordinal[1]>>
        /\ HostAt(topo, g).ordinal = <<HostAt(topo, g).ordinal[1]>>
    BY <1>1, <1>4, <2>1, <2>2 DEF Decoded, Number
  <2>5. HostAt(topo, f).ordinal = HostAt(topo, g).ordinal
    BY <1>2, <2>3, <2>4
  <2> QED
    BY <1>4, <2>1, <2>2, <2>5
<1> QED
  BY <1>1, <1>3, <1>4 DEF Placed


-----------------------------------------------------------------------------
(* Links and pools (hostLinks, allocationsByPool, BuildCIDRPools).         *)

\* The plane an address is made from, and a link with its address.
AddressPlane(l, s, vr) == IF vr \/ s.mode = "swplb" THEN l.plane ELSE 0

Allotted(l, s, vr) ==
    /\ l.plane \in Int /\ l.rail \in Int /\ l.pod \in Int /\ l.su \in Int /\ l.index \in Int
    /\ l.ip # <<>>
    /\ l.ip = IF vr THEN allocateVRHostLeaf(s, AddressPlane(l, s, vr), l.rail, l.pod, l.su, l.index)
              ELSE allocateHostLeaf(s, AddressPlane(l, s, vr), l.rail, l.pod, l.su, l.index)

LEMMA IndexIsNumber ==
    ASSUME NEW topo, Decoded(topo), NEW vr \in BOOLEAN, NEW allowed,
           NEW m \in HostLinks(topo, vr, allowed)
    PROVE  hostIndex(topo, HostLinks(topo, vr, allowed), vr, m) \in Int
<1> DEFINE at == HostLinks(topo, vr, allowed)
           f == FirstLink(topo, at, m)
           h == HostAt(topo, f)
<1>1. /\ Len(topo) \in Nat /\ at \subseteq 1..Len(topo)
      /\ \A k \in at : k \in DOMAIN topo /\ topo[k].host # <<>>
  <2>1. Len(topo) \in Nat /\ DOMAIN topo = 1..Len(topo)
    BY DEF Decoded
  <2>2. \A k \in at : k \in DOMAIN topo /\ topo[k].host # <<>>
    BY DEF HostLinks
  <2> QED
    BY <2>1, <2>2
<1>2. m \in at
  OBVIOUS
<1>3. hostIndex(topo, at, vr, m)
        = IF vr /\ h.index # <<>> THEN h.index[1]
          ELSE IF h.ordinal # <<>> THEN h.ordinal[1]
          ELSE Cardinality(Before(topo, at, KeyAt(topo, m), f))
  BY IndexUnfolds
<1> HIDE DEF at
<1>4. f \in at
  <2>1. at \subseteq Nat
    BY <1>1
  <2> QED
    BY <1>2, <2>1, FirstPosition
<1>5. Number(h.index) /\ Number(h.ordinal)
  BY <1>1, <1>4 DEF Decoded
<1>6. Cardinality(Before(topo, at, KeyAt(topo, m), f)) \in Nat
  BY <1>1, BeforeFinite
<1> HIDE DEF f, h
<1> QED
  BY <1>3, <1>5, <1>6 DEF at, Number

LEMMA LinkFacts ==
    ASSUME NEW topo, Decoded(topo), NEW s, NEW vr \in BOOLEAN, NEW allowed,
           NEW m \in DOMAIN hostLinks(topo, s, vr, allowed)
    PROVE  LET l == hostLinks(topo, s, vr, allowed)[m]
               h == HostAt(topo, m)
           IN /\ m \in HostLinks(topo, vr, allowed)
              /\ l.node = NodeAt(topo, m) /\ l.pod = Value(h.pod) /\ l.su = Value(h.su)
              /\ l.index = hostIndex(topo, HostLinks(topo, vr, allowed), vr, m)
              /\ Allotted(l, s, vr)
<1> DEFINE at == HostLinks(topo, vr, allowed)
           links == hostLinks(topo, s, vr, allowed)
           h == HostAt(topo, m)
           leaf == topo[m].leaf[1]
           index == hostIndex(topo, at, vr, m)
           plane == IF vr \/ s.mode = "swplb" THEN Value(leaf.plane) ELSE 0
           made == [node |-> h.node, plane |-> Value(leaf.plane), pod |-> Value(h.pod),
                    su |-> Value(h.su), rail |-> Value(h.rail), index |-> index,
                    ip |-> IF vr THEN allocateVRHostLeaf(s, plane, Value(h.rail),
                                        Value(h.pod), Value(h.su), index)
                           ELSE allocateHostLeaf(s, plane, Value(h.rail),
                                        Value(h.pod), Value(h.su), index)]
<1>0. links # <<>>
  OBVIOUS
<1>1. /\ \A k \in DOMAIN topo : ~Malformed(topo[k])
      /\ \A k \in at : ~LinkRefused(topo, at, s, vr, k)
      /\ links = [k \in at |-> hostLink(topo, at, s, vr, k)]
  BY <1>0 DEF hostLinks
<1>2. m \in at /\ links[m] = hostLink(topo, at, s, vr, m)
  BY <1>1
<1>3. hostLink(topo, at, s, vr, m) = made
  BY DEF hostLink, HostAt
<1>4. m \in DOMAIN topo /\ topo[m].ends = 2 /\ topo[m].host # <<>>
  BY <1>2 DEF HostLinks
<1>5. topo[m].leaf # <<>>
  BY <1>1, <1>4 DEF Malformed
<1>6. hostLink(topo, at, s, vr, m).ip # <<>>
  BY <1>1, <1>2 DEF LinkRefused
<1>7. index \in Int
  BY <1>2, IndexIsNumber
<1>8. /\ Value(leaf.plane) \in Int /\ Value(h.pod) \in Int /\ Value(h.su) \in Int
      /\ Value(h.rail) \in Int
  BY <1>4, <1>5, ValueIsNumber DEF Decoded
<1> HIDE DEF at, links, h, leaf, index
<1>9. made.ip # <<>>
  BY <1>3, <1>6
<1>10. Allotted(made, s, vr)
  BY <1>7, <1>8, <1>9 DEF Allotted, AddressPlane
<1>11. links[m] = made
  BY <1>2, <1>3
<1> QED
  BY <1>2, <1>10, <1>11 DEF at, links, h, index, NodeAt

\* The networks of two links agree exactly when their pools do.
LEMMA NetworkTellsKey ==
    ASSUME NEW s, s.tier \in {2, 3}, NEW vr \in BOOLEAN, NEW l, NEW k,
           Allotted(l, s, vr), Allotted(k, s, vr)
    PROVE  supernet(l.ip, PoolBits(s, vr)) = supernet(k.ip, PoolBits(s, vr))
             <=> poolKeyForLink(l, s, vr) = poolKeyForLink(k, s, vr)
<1> DEFINE p == AddressPlane(l, s, vr)
           o == AddressPlane(k, s, vr)
<1>1. p \in Int /\ o \in Int
  BY DEF Allotted, AddressPlane
<1>2. CASE vr = TRUE
  <2>1. /\ l.ip = allocateVRHostLeaf(s, p, l.rail, l.pod, l.su, l.index)
        /\ k.ip = allocateVRHostLeaf(s, o, k.rail, k.pod, k.su, k.index)
        /\ l.ip # <<>> /\ k.ip # <<>>
    BY <1>2 DEF Allotted
  <2>2. /\ l.rail \in Int /\ l.pod \in Int /\ l.su \in Int /\ l.index \in Int
        /\ k.rail \in Int /\ k.pod \in Int /\ k.su \in Int /\ k.index \in Int
    BY DEF Allotted
  <2> HIDE DEF p, o
  <2>3. supernet(l.ip, PoolBits(s, TRUE)) = supernet(k.ip, PoolBits(s, TRUE))
          <=> l.rail = k.rail /\ p \div 4 = o \div 4
    <3>1. /\ p \in Int /\ l.rail \in Int /\ l.pod \in Int /\ l.su \in Int /\ l.index \in Int
          /\ o \in Int /\ k.rail \in Int /\ k.pod \in Int /\ k.su \in Int /\ k.index \in Int
      BY <1>1, <2>2
    <3>2. /\ allocateVRHostLeaf(s, p, l.rail, l.pod, l.su, l.index) # <<>>
          /\ allocateVRHostLeaf(s, o, k.rail, k.pod, k.su, k.index) # <<>>
      BY <2>1
    <3>4. VRPrefixTells(s, p, l.rail, l.pod, l.su, l.index, o, k.rail, k.pod, k.su, k.index)
      BY ONLY <3>1, <3>2, VRPrefixTellsLemma
    <3> QED
      BY <2>1, <3>4 DEF VRPrefixTells
  <2>4. p = l.plane /\ o = k.plane
    BY <1>2 DEF p, o, AddressPlane
  <2> QED
    BY <1>2, <2>3, <2>4 DEF poolKeyForLink
<1>3. CASE vr = FALSE
  <2>1. /\ l.ip = allocateHostLeaf(s, p, l.rail, l.pod, l.su, l.index)
        /\ k.ip = allocateHostLeaf(s, o, k.rail, k.pod, k.su, k.index)
        /\ l.ip # <<>> /\ k.ip # <<>>
    BY <1>3 DEF Allotted
  <2>2. /\ l.rail \in Int /\ l.pod \in Int /\ l.su \in Int /\ l.index \in Int
        /\ k.rail \in Int /\ k.pod \in Int /\ k.su \in Int /\ k.index \in Int
    BY DEF Allotted
  <2> HIDE DEF p, o
  <2>3. supernet(l.ip, PoolBits(s, FALSE)) = supernet(k.ip, PoolBits(s, FALSE))
          <=> l.rail = k.rail /\ (isIPv6(s) \/ planeAwareAddressing(s) => p = o)
    <3>1. /\ p \in Int /\ l.rail \in Int /\ l.pod \in Int /\ l.su \in Int /\ l.index \in Int
          /\ o \in Int /\ k.rail \in Int /\ k.pod \in Int /\ k.su \in Int /\ k.index \in Int
      BY <1>1, <2>2
    <3>2. /\ allocateHostLeaf(s, p, l.rail, l.pod, l.su, l.index) # <<>>
          /\ allocateHostLeaf(s, o, k.rail, k.pod, k.su, k.index) # <<>>
      BY <2>1
    <3>3. s.tier \in {2, 3}
      OBVIOUS
    <3>4. PrefixTells(s, p, l.rail, l.pod, l.su, l.index, o, k.rail, k.pod, k.su, k.index)
      BY ONLY <3>1, <3>2, <3>3, PrefixTellsLemma
    <3> QED
      BY <2>1, <3>4 DEF PrefixTells
  <2>4. (isIPv6(s) \/ planeAwareAddressing(s) => p = o) <=> p = o
    BY <1>3 DEF p, o, AddressPlane, planeAwareAddressing
  <2>5. poolKeyForLink(l, s, FALSE) = poolKeyForLink(k, s, FALSE)
          <=> l.rail = k.rail /\ p = o
    BY <1>3 DEF p, o, AddressPlane, poolKeyForLink
  <2> QED
    BY <1>3, <2>3, <2>4, <2>5
<1> QED
  BY <1>2, <1>3

LEMMA AllocationFacts ==
    ASSUME NEW links, DOMAIN links \subseteq Nat, NEW allowed, NEW s, NEW vr,
           NEW key \in DOMAIN allocationsByPool(links, allowed, s, vr)
    PROVE  LET allocs == allocationsByPool(links, allowed, s, vr)[key]
           IN /\ Min(DOMAIN allocs) \in DOMAIN allocs
              /\ \A j \in DOMAIN allocs :
                    /\ j \in OwnLinks(links, allowed)
                    /\ poolKeyForLink(links[j], s, vr) = key
                    /\ allocs[j].node = links[j].node /\ allocs[j].prefix = links[j].ip
<1> DEFINE own == OwnLinks(links, allowed)
           Key(m) == poolKeyForLink(links[m], s, vr)
           keyed == {j \in own : Key(j) = key}
           firsts == {j \in own : /\ Key(j) = key
                                  /\ \A e \in own : e < j /\ Key(e) = key
                                        => links[e].node # links[j].node}
           allocs == allocationsByPool(links, allowed, s, vr)[key]
<1>1. /\ \E m \in own : Key(m) = key
      /\ allocs = [m \in firsts |-> [node |-> links[m].node, prefix |-> links[m].ip]]
  BY DEF allocationsByPool
<1>2. own \subseteq Nat
  BY DEF OwnLinks
<1> HIDE DEF own, Key, allocs
<1>3. firsts # {}
  <2>1. keyed \subseteq Nat /\ keyed # {}
    BY <1>1, <1>2
  <2>2. PICK x \in keyed : \A y \in keyed : x <= y
    BY <2>1, LeastNumber
  <2>3. \A e \in own : ~(e < x /\ Key(e) = key)
    BY <1>2, <2>1, <2>2
  <2> QED
    BY <2>2, <2>3
<1>4. firsts \subseteq Nat
  BY <1>2
<1>5. Min(firsts) \in firsts
  <2> HIDE DEF firsts
  <2> QED
    BY <1>3, <1>4, LeastPosition
<1>6. DOMAIN allocs = firsts
  BY <1>1
<1>7. \A j \in firsts : /\ j \in own /\ Key(j) = key
                        /\ allocs[j].node = links[j].node /\ allocs[j].prefix = links[j].ip
  BY <1>1
<1> HIDE DEF firsts
<1> QED
  BY <1>5, <1>6, <1>7 DEF allocs, own, Key

\* What a pool is made of.
PoolOf(p, links, allowed, s, vr) ==
    LET own == OwnLinks(links, allowed)
    IN /\ p.bits = PoolBits(s, vr)
       /\ \E m \in own : /\ poolKeyForLink(links[m], s, vr) = p.key
                         /\ p.cidr = supernet(links[m].ip, PoolBits(s, vr))
       /\ \A a \in p.allocations : \E m \in own :
             /\ poolKeyForLink(links[m], s, vr) = p.key
             /\ a.node = links[m].node /\ a.prefix = links[m].ip
       /\ allowed # {} => {a.node : a \in p.allocations} = allowed

LEMMA PoolFacts ==
    ASSUME NEW s, NEW vr, NEW topo, NEW allowed,
           DOMAIN hostLinks(topo, s, vr, allowed) \subseteq Nat,
           NEW p \in BuildCIDRPools(s, vr, topo, allowed).pools
    PROVE  LET links == hostLinks(topo, s, vr, allowed)
           IN /\ PoolOf(p, links, allowed, s, vr)
              /\ vr => validateVRTopology(links, allowed)
              /\ \A q \in BuildCIDRPools(s, vr, topo, allowed).pools : p.key = q.key => p = q
<1> DEFINE links == hostLinks(topo, s, vr, allowed)
           allocs == allocationsByPool(links, allowed, s, vr)
           keys == DOMAIN allocs
           own == OwnLinks(links, allowed)
           bits == PoolBits(s, vr)
           Pool(k) == [key |-> k,
                       cidr |-> supernet(allocs[k][Min(DOMAIN allocs[k])].prefix, bits),
                       bits |-> bits, routes |-> poolRoutes(s, vr),
                       allocations |-> {allocs[k][w] : w \in DOMAIN allocs[k]}]
           pools == BuildCIDRPools(s, vr, topo, allowed).pools
<1>1. /\ pools = {Pool(k) : k \in keys}
      /\ \A k \in keys : missingNodes(allowed, allocs[k]) = {}
      /\ vr => validateVRTopology(links, allowed)
  BY DEF BuildCIDRPools, Refuse
<1>2. p \in pools
  OBVIOUS
<1>3. DOMAIN links \subseteq Nat
  OBVIOUS
<1> HIDE DEF pools, links, allocs
<1>4. PICK k \in keys : p = Pool(k)
  BY <1>1, <1>2
<1> DEFINE A == allocs[k]
<1>5. /\ Min(DOMAIN A) \in DOMAIN A
      /\ \A j \in DOMAIN A : /\ j \in own /\ poolKeyForLink(links[j], s, vr) = k
                             /\ A[j].node = links[j].node /\ A[j].prefix = links[j].ip
  BY <1>3, <1>4, AllocationFacts DEF allocs
<1> HIDE DEF A, own, bits
<1>6. /\ p.key = k /\ p.cidr = supernet(A[Min(DOMAIN A)].prefix, bits) /\ p.bits = bits
      /\ p.allocations = {A[w] : w \in DOMAIN A}
  BY <1>4 DEF A
<1>7. \E m \in own : /\ poolKeyForLink(links[m], s, vr) = p.key
                     /\ p.cidr = supernet(links[m].ip, bits)
  BY <1>5, <1>6
<1>8. \A a \in p.allocations : \E m \in own :
         /\ poolKeyForLink(links[m], s, vr) = p.key
         /\ a.node = links[m].node /\ a.prefix = links[m].ip
  BY <1>5, <1>6
<1>9. ASSUME allowed # {} PROVE {a.node : a \in p.allocations} = allowed
  <2>1. \A m \in own : links[m].node \in allowed
    BY <1>9 DEF own, OwnLinks
  <2>2. allowed \subseteq {A[w].node : w \in DOMAIN A}
    BY <1>1, <1>4 DEF missingNodes, A
  <2> QED
    BY <1>6, <1>8, <2>1, <2>2
<1>10. PoolOf(p, links, allowed, s, vr)
  BY <1>6, <1>7, <1>8, <1>9 DEF PoolOf, own, bits
<1>11. \A q \in pools : p.key = q.key => p = q
  <2> SUFFICES ASSUME NEW q \in pools, p.key = q.key PROVE p = q
    OBVIOUS
  <2>1. PICK c \in keys : q = Pool(c)
    BY <1>1
  <2>2. c = k
    BY <1>6, <2>1
  <2> QED
    BY <1>4, <2>1, <2>2
<1> QED
  BY <1>1, <1>10, <1>11 DEF pools, links

LEMMA LinksAreNumbered ==
    ASSUME NEW topo, Decoded(topo), NEW s, NEW vr, NEW allowed
    PROVE  DOMAIN hostLinks(topo, s, vr, allowed) \subseteq Nat
<1>1. DOMAIN topo \subseteq Nat
  BY DEF Decoded
<1>2. HostLinks(topo, vr, allowed) \subseteq DOMAIN topo
  BY DEF HostLinks
<1> QED
  BY <1>1, <1>2 DEF hostLinks

\* Each prefix is of its own pool only.
LEMMA PrefixInItsPool ==
    ASSUME NEW s, s.tier \in {2, 3}, NEW vr \in BOOLEAN, NEW topo, Decoded(topo), NEW allowed,
           NEW p \in BuildCIDRPools(s, vr, topo, allowed).pools,
           NEW q \in BuildCIDRPools(s, vr, topo, allowed).pools,
           NEW a \in p.allocations
    PROVE  (supernet(a.prefix, q.bits) = q.cidr) = (p = q)
<1> DEFINE links == hostLinks(topo, s, vr, allowed)
           own == OwnLinks(links, allowed)
           bits == PoolBits(s, vr)
           Key(m) == poolKeyForLink(links[m], s, vr)
<1>1. /\ PoolOf(p, links, allowed, s, vr) /\ PoolOf(q, links, allowed, s, vr)
      /\ p.key = q.key => p = q
  BY LinksAreNumbered, PoolFacts
<1>2. PICK m \in own : Key(m) = p.key /\ a.prefix = links[m].ip
  BY <1>1 DEF PoolOf
<1>3. PICK n \in own : Key(n) = q.key /\ q.cidr = supernet(links[n].ip, bits)
  BY <1>1 DEF PoolOf
<1>4. Allotted(links[m], s, vr) /\ Allotted(links[n], s, vr)
  <2>1. m \in DOMAIN links /\ n \in DOMAIN links
    BY DEF OwnLinks
  <2> QED
    BY <2>1, LinkFacts
<1>5. q.bits = bits
  BY <1>1 DEF PoolOf
<1> HIDE DEF links, own
<1>6. supernet(links[m].ip, bits) = supernet(links[n].ip, bits) <=> Key(m) = Key(n)
  BY <1>4, NetworkTellsKey
<1> QED
  BY <1>1, <1>2, <1>3, <1>5, <1>6

\* What WellFormed asks of a topology.
Uniform(topo, tier) ==
    LET hosts == {m \in DOMAIN topo : topo[m].host # <<>>}
    IN \A w, j \in hosts :
         LET g == topo[w].host[1]
             h == topo[j].host[1]
         IN /\ g.plane = <<>>
            /\ (g.su = <<>>) = (h.su = <<>>) /\ (g.pod = <<>>) = (h.pod = <<>>)
            /\ tier = 2 => Value(g.pod) = Value(h.pod)

SameEnd(l, k, s, vr) ==
    l.node = k.node /\ poolKeyForLink(l, s, vr) = poolKeyForLink(k, s, vr)

\* The hosts of two links with the same address, also of different groups.
LEMMA SameAddressSameHost ==
    ASSUME NEW s, NEW topo, Decoded(topo), Placed(topo), Uniform(topo, s.tier),
           NEW A, NEW B, NEW m \in DOMAIN hostLinks(topo, s, FALSE, A),
           NEW n \in DOMAIN hostLinks(topo, s, FALSE, B),
           hostLinks(topo, s, FALSE, A)[m].ip = hostLinks(topo, s, FALSE, B)[n].ip
    PROVE  SameEnd(hostLinks(topo, s, FALSE, A)[m], hostLinks(topo, s, FALSE, B)[n],
                   s, FALSE)
<1> DEFINE at == HostLinks(topo, FALSE, A)
           l == hostLinks(topo, s, FALSE, A)[m]
           k == hostLinks(topo, s, FALSE, B)[n]
           p == AddressPlane(l, s, FALSE)
           o == AddressPlane(k, s, FALSE)
           g == HostAt(topo, m)
           h == HostAt(topo, n)
<1>1. HostLinks(topo, FALSE, B) = at
  BY DEF HostLinks
<1>2. /\ m \in at /\ l.node = NodeAt(topo, m) /\ l.pod = Value(g.pod) /\ l.su = Value(g.su)
      /\ l.index = hostIndex(topo, at, FALSE, m) /\ Allotted(l, s, FALSE)
  <2>1. LET j == hostLinks(topo, s, FALSE, A)[m]
            w == HostAt(topo, m)
        IN /\ m \in HostLinks(topo, FALSE, A)
           /\ j.node = NodeAt(topo, m) /\ j.pod = Value(w.pod) /\ j.su = Value(w.su)
           /\ j.index = hostIndex(topo, HostLinks(topo, FALSE, A), FALSE, m)
           /\ Allotted(j, s, FALSE)
    BY LinkFacts
  <2> QED
    BY <2>1
<1>3. /\ n \in at /\ k.node = NodeAt(topo, n) /\ k.pod = Value(h.pod) /\ k.su = Value(h.su)
      /\ k.index = hostIndex(topo, at, FALSE, n) /\ Allotted(k, s, FALSE)
  <2>1. LET j == hostLinks(topo, s, FALSE, B)[n]
            w == HostAt(topo, n)
        IN /\ n \in HostLinks(topo, FALSE, B)
           /\ j.node = NodeAt(topo, n) /\ j.pod = Value(w.pod) /\ j.su = Value(w.su)
           /\ j.index = hostIndex(topo, HostLinks(topo, FALSE, B), FALSE, n)
           /\ Allotted(j, s, FALSE)
    BY LinkFacts
  <2> QED
    BY <1>1, <2>1
<1>4. m \in DOMAIN topo /\ topo[m].host # <<>> /\ n \in DOMAIN topo /\ topo[n].host # <<>>
  BY <1>2, <1>3 DEF HostLinks
<1>5. l.ip = k.ip
  OBVIOUS
<1> HIDE DEF l, k, g, h, at
<1>6. SameCoordinates(s, p, l.rail, l.pod, l.su, l.index, o, k.rail, k.pod, k.su, k.index)
  <2>1. p \in Int /\ o \in Int
    BY <1>2, <1>3 DEF Allotted, AddressPlane
  <2>2. /\ l.ip = allocateHostLeaf(s, p, l.rail, l.pod, l.su, l.index)
        /\ k.ip = allocateHostLeaf(s, o, k.rail, k.pod, k.su, k.index)
        /\ l.ip # <<>>
    BY <1>2, <1>3 DEF Allotted
  <2>3. /\ l.rail \in Int /\ l.pod \in Int /\ l.su \in Int /\ l.index \in Int
        /\ k.rail \in Int /\ k.pod \in Int /\ k.su \in Int /\ k.index \in Int
    BY <1>2, <1>3 DEF Allotted
  <2> HIDE DEF p, o
  <2> QED
    BY <1>5, <2>1, <2>2, <2>3, SameCoordinatesLemma
<1>7. poolKeyForLink(l, s, FALSE) = poolKeyForLink(k, s, FALSE)
  <2>1. l.rail = k.rail /\ p = o
    BY <1>6 DEF SameCoordinates, AddressPlane, planeAwareAddressing
  <2> QED
    BY <2>1 DEF poolKeyForLink, AddressPlane
<1>8. KeyAt(topo, m) = KeyAt(topo, n)
  <2>1. /\ g.plane = <<>> /\ h.plane = <<>>
        /\ (g.su = <<>>) = (h.su = <<>>) /\ (g.pod = <<>>) = (h.pod = <<>>)
        /\ s.tier = 2 => Value(g.pod) = Value(h.pod)
    BY <1>4 DEF Uniform, g, h, HostAt
  <2>2. Value(g.su) = Value(h.su) /\ Value(g.pod) = Value(h.pod)
    BY <1>2, <1>3, <1>6, <2>1 DEF SameCoordinates
  <2>3. Number(g.su) /\ Number(h.su) /\ Number(g.pod) /\ Number(h.pod)
    BY <1>4 DEF Decoded, g, h
  <2>4. g.su = h.su /\ g.pod = h.pod
    BY <2>1, <2>2, <2>3, ValueIsNumber
  <2> QED
    BY <2>1, <2>4 DEF KeyAt, g, h, hostIndexKey
<1>9. hostIndex(topo, at, FALSE, m) = hostIndex(topo, at, FALSE, n)
  BY <1>2, <1>3, <1>6 DEF SameCoordinates
<1>10. NodeAt(topo, m) = NodeAt(topo, n)
  BY <1>2, <1>3, <1>8, <1>9, NumbersApart DEF at
<1> QED
  BY <1>2, <1>3, <1>7, <1>10 DEF l, k, SameEnd

\* The same within a VR group, whose topology is validated.
LEMMA VRSameAddressSameHost ==
    ASSUME NEW s, NEW topo, Decoded(topo), NEW A,
           validateVRTopology(hostLinks(topo, s, TRUE, A), A),
           NEW m \in OwnLinks(hostLinks(topo, s, TRUE, A), A),
           NEW n \in OwnLinks(hostLinks(topo, s, TRUE, A), A),
           hostLinks(topo, s, TRUE, A)[m].ip = hostLinks(topo, s, TRUE, A)[n].ip
    PROVE  SameEnd(hostLinks(topo, s, TRUE, A)[m], hostLinks(topo, s, TRUE, A)[n],
                   s, TRUE)
<1> DEFINE links == hostLinks(topo, s, TRUE, A)
           own == OwnLinks(links, A)
           l == links[m]
           k == links[n]
           p == AddressPlane(l, s, TRUE)
           o == AddressPlane(k, s, TRUE)
<1>1. m \in DOMAIN links /\ n \in DOMAIN links
  BY DEF OwnLinks
<1>2. Allotted(l, s, TRUE) /\ Allotted(k, s, TRUE)
  BY <1>1, LinkFacts
<1>3. l.ip = k.ip
  OBVIOUS
<1>4. l.node = k.node <=> Coordinate(l) = Coordinate(k)
  BY DEF validateVRTopology
<1> HIDE DEF l, k, links, own
<1>5. VRSameCoordinates(s, p, l.rail, l.pod, l.su, l.index, o, k.rail, k.pod, k.su, k.index)
  <2>1. p \in Int /\ o \in Int
    BY <1>2 DEF Allotted, AddressPlane
  <2>2. /\ l.ip = allocateVRHostLeaf(s, p, l.rail, l.pod, l.su, l.index)
        /\ k.ip = allocateVRHostLeaf(s, o, k.rail, k.pod, k.su, k.index)
        /\ l.ip # <<>>
    BY <1>2 DEF Allotted
  <2>3. /\ l.rail \in Int /\ l.pod \in Int /\ l.su \in Int /\ l.index \in Int
        /\ k.rail \in Int /\ k.pod \in Int /\ k.su \in Int /\ k.index \in Int
    BY <1>2 DEF Allotted
  <2> HIDE DEF p, o
  <2> QED
    BY <1>3, <2>1, <2>2, <2>3, VRSameCoordinatesLemma
<1>6. Coordinate(l) = Coordinate(k)
  BY <1>5 DEF VRSameCoordinates, Coordinate
<1>7. poolKeyForLink(l, s, TRUE) = poolKeyForLink(k, s, TRUE)
  BY <1>5 DEF VRSameCoordinates, poolKeyForLink, AddressPlane
<1> QED
  BY <1>4, <1>6, <1>7 DEF l, k, links, SameEnd

\* The same worker in the same pool.
SameTarget(p, q, a, b) == p.key = q.key /\ a.node = b.node

\* Two allocations with one prefix, of two groups none of which is VR ...
LEMMA SamePrefix ==
    ASSUME NEW s, NEW topo, Decoded(topo), Placed(topo), Uniform(topo, s.tier), NEW A, NEW B,
           NEW p \in BuildCIDRPools(s, FALSE, topo, A).pools,
           NEW q \in BuildCIDRPools(s, FALSE, topo, B).pools,
           NEW a \in p.allocations, NEW b \in q.allocations, a.prefix = b.prefix
    PROVE  SameTarget(p, q, a, b)
<1> DEFINE L == hostLinks(topo, s, FALSE, A)
           K == hostLinks(topo, s, FALSE, B)
<1>1. PoolOf(p, L, A, s, FALSE) /\ PoolOf(q, K, B, s, FALSE)
  BY LinksAreNumbered, PoolFacts
<1>2. PICK m \in OwnLinks(L, A) : /\ poolKeyForLink(L[m], s, FALSE) = p.key
                                      /\ a.node = L[m].node /\ a.prefix = L[m].ip
  BY <1>1 DEF PoolOf
<1>3. PICK n \in OwnLinks(K, B) : /\ poolKeyForLink(K[n], s, FALSE) = q.key
                                      /\ b.node = K[n].node /\ b.prefix = K[n].ip
  BY <1>1 DEF PoolOf
<1>4. m \in DOMAIN L /\ n \in DOMAIN K
  BY DEF OwnLinks
<1>5. L[m].ip = K[n].ip
  BY <1>2, <1>3
<1>6. SameEnd(L[m], K[n], s, FALSE)
  BY <1>4, <1>5, SameAddressSameHost
<1> QED
  BY <1>2, <1>3, <1>6 DEF SameEnd, SameTarget

\* ... and of one group.
LEMMA VRSamePrefix ==
    ASSUME NEW s, NEW topo, Decoded(topo), NEW A,
           NEW p \in BuildCIDRPools(s, TRUE, topo, A).pools,
           NEW q \in BuildCIDRPools(s, TRUE, topo, A).pools,
           NEW a \in p.allocations, NEW b \in q.allocations, a.prefix = b.prefix
    PROVE  SameTarget(p, q, a, b)
<1> DEFINE L == hostLinks(topo, s, TRUE, A)
<1>1. /\ PoolOf(p, L, A, s, TRUE) /\ PoolOf(q, L, A, s, TRUE)
      /\ validateVRTopology(L, A)
  BY LinksAreNumbered, PoolFacts
<1>2. PICK m \in OwnLinks(L, A) : /\ poolKeyForLink(L[m], s, TRUE) = p.key
                                      /\ a.node = L[m].node /\ a.prefix = L[m].ip
  BY <1>1 DEF PoolOf
<1>3. PICK n \in OwnLinks(L, A) : /\ poolKeyForLink(L[n], s, TRUE) = q.key
                                      /\ b.node = L[n].node /\ b.prefix = L[n].ip
  BY <1>1 DEF PoolOf
<1>5. L[m].ip = L[n].ip
  BY <1>2, <1>3
<1>6. SameEnd(L[m], L[n], s, TRUE)
  BY <1>1, <1>5, VRSameAddressSameHost
<1> QED
  BY <1>2, <1>3, <1>6 DEF SameEnd, SameTarget

-----------------------------------------------------------------------------
(* The generation (SpectrumX).                                             *)

Group(c) == Merged(chosen.plans[c])

\* The file is a list of links the decoders accept.
FileDecodes ==
    /\ chosen \in Settings /\ left \subseteq chosen.blocks
    /\ file \in Seq({file[k] : k \in DOMAIN file})
    /\ \A k \in DOMAIN file : IF chosen.air THEN AIRLink(file[k]) ELSE ReferenceLink(file[k])

\* What is built are the pools of the groups so far, of the whole file.
BuiltFromFile ==
    /\ built \in Seq({built[k] : k \in DOMAIN built})
    /\ Len(built) <= Len(chosen.plans)
    /\ \A c \in DOMAIN built :
          built[c] = BuildCIDRPools(chosen.s, Platform(Group(c)), Topology, Group(c).workers)

GroupsInOrder ==
    /\ step = "file" => built = <<>>
    /\ step = "build" => Len(built) < Len(chosen.plans)
    /\ step \in {"build", "done"} /\ chosen.dospcx => Len(chosen.plans) <= 1

SpectrumInv == FileDecodes /\ BuiltFromFile /\ GroupsInOrder

\* The set of the elements of a list does not matter to its type.
Joins(j, f, b) ==
    /\ j \in Seq({j[k] : k \in DOMAIN j})
    /\ \A k \in DOMAIN j : (\E c \in DOMAIN f : j[k] = f[c]) \/ (\E c \in DOMAIN b : j[k] = b[c])

LEMMA ListsJoin ==
    ASSUME NEW f, f \in Seq({f[k] : k \in DOMAIN f}), NEW b, b \in Seq({b[k] : k \in DOMAIN b})
    PROVE  Joins(f \o b, f, b)
<1> DEFINE S == {f[k] : k \in DOMAIN f} \cup {b[k] : k \in DOMAIN b}
           j == f \o b
<1>1. f \in Seq(S) /\ b \in Seq(S)
  <2>1. Len(f) \in Nat /\ DOMAIN f = 1..Len(f) /\ f = [k \in 1..Len(f) |-> f[k]]
    OBVIOUS
  <2>2. Len(b) \in Nat /\ DOMAIN b = 1..Len(b) /\ b = [k \in 1..Len(b) |-> b[k]]
    OBVIOUS
  <2> QED
    BY <2>1, <2>2
<1>2. j \in Seq(S) /\ DOMAIN j = 1..Len(j) /\ Len(j) \in Nat
  <2> HIDE DEF S
  <2> QED
    BY <1>1
<1>3. \A k \in DOMAIN j : j[k] \in S
  BY <1>2
<1>4. j \in Seq({j[k] : k \in DOMAIN j})
  <2> HIDE DEF j
  <2>1. j = [k \in 1..Len(j) |-> j[k]]
    BY <1>2
  <2> QED
    BY <1>2, <2>1
<1> QED
  BY <1>3, <1>4 DEF Joins

LEMMA ListGrows ==
    ASSUME NEW f, f \in Seq({f[k] : k \in DOMAIN f}), NEW x
    PROVE  /\ Len(Append(f, x)) = Len(f) + 1
           /\ Append(f, x) \in Seq({Append(f, x)[k] : k \in DOMAIN Append(f, x)})
           /\ DOMAIN f = 1..Len(f) /\ DOMAIN Append(f, x) = 1..(Len(f) + 1)
           /\ \A c \in DOMAIN Append(f, x) : Append(f, x)[c] = IF c \in DOMAIN f THEN f[c] ELSE x
<1> DEFINE S == {f[k] : k \in DOMAIN f} \cup {x}
           j == Append(f, x)
<1>1. f \in Seq(S)
  <2>1. Len(f) \in Nat /\ DOMAIN f = 1..Len(f) /\ f = [k \in 1..Len(f) |-> f[k]]
    OBVIOUS
  <2> QED
    BY <2>1
<1>2. x \in S
  OBVIOUS
<1> HIDE DEF S
<1>3. /\ Len(j) = Len(f) + 1 /\ DOMAIN f = 1..Len(f) /\ DOMAIN j = 1..(Len(f) + 1) /\ Len(f) \in Nat
      /\ \A c \in DOMAIN j : j[c] = IF c \in DOMAIN f THEN f[c] ELSE x
  BY <1>1, <1>2
<1>4. j \in Seq(S)
  BY <1>1, <1>2
<1> HIDE DEF j
<1>5. j = [k \in 1..Len(j) |-> j[k]] /\ Len(j) \in Nat
  BY <1>4
<1>6. j \in Seq({j[k] : k \in DOMAIN j})
  BY <1>3, <1>5
<1> QED
  BY <1>3, <1>6 DEF j

LEMMA SpectrumInitially ==
    ASSUME SpectrumInit
    PROVE  SpectrumInv
<1>1. chosen \in Settings /\ file = <<>> /\ left = chosen.blocks /\ step = "file" /\ built = <<>>
  BY DEF SpectrumInit
<1>2. Len(chosen.plans) \in Nat
  BY <1>1 DEF Valid
<1>3. FileDecodes
  BY <1>1 DEF FileDecodes
<1>4. BuiltFromFile
  BY <1>1, <1>2 DEF BuiltFromFile
<1> QED
  BY <1>1, <1>3, <1>4 DEF SpectrumInv, GroupsInOrder

LEMMA WriteLinksKeeps ==
    ASSUME SpectrumInv, WriteLinks
    PROVE  SpectrumInv'
<1>1. step = "file" /\ UNCHANGED <<chosen, step, built>> /\ built = <<>>
  BY DEF WriteLinks, SpectrumInv, GroupsInOrder
<1>2. PICK b \in left : file' = file \o b /\ left' = left \ {b}
  BY DEF WriteLinks
<1>3. /\ b \in Seq({b[k] : k \in DOMAIN b})
      /\ \A k \in DOMAIN b : IF chosen.air THEN AIRLink(b[k]) ELSE ReferenceLink(b[k])
  BY <1>2, SettingsAssumption DEF SpectrumInv, FileDecodes, Valid
<1>4. /\ file' \in Seq({file'[k] : k \in DOMAIN file'})
      /\ \A k \in DOMAIN file' : \/ \E c \in DOMAIN file : file'[k] = file[c]
                                 \/ \E c \in DOMAIN b : file'[k] = b[c]
  <2>1. file \in Seq({file[k] : k \in DOMAIN file})
    BY DEF SpectrumInv, FileDecodes
  <2>2. Joins(file \o b, file, b)
    BY <1>3, <2>1, ListsJoin
  <2> QED
    BY <1>2, <2>2 DEF Joins
<1>5. FileDecodes'
  BY <1>1, <1>2, <1>3, <1>4 DEF SpectrumInv, FileDecodes
<1>6. BuiltFromFile'
  BY <1>1 DEF SpectrumInv, BuiltFromFile
<1>7. GroupsInOrder'
  BY <1>1 DEF SpectrumInv, GroupsInOrder
<1> QED
  BY <1>5, <1>6, <1>7 DEF SpectrumInv

LEMMA GenerateKeeps ==
    ASSUME SpectrumInv, Generate
    PROVE  SpectrumInv'
<1>1. step = "file" /\ UNCHANGED <<chosen, file, left, built>> /\ built = <<>>
  BY DEF Generate, SpectrumInv, GroupsInOrder
<1>2. FileDecodes'
  BY <1>1 DEF SpectrumInv, FileDecodes
<1>3. BuiltFromFile'
  BY <1>1 DEF SpectrumInv, BuiltFromFile
<1>4. Len(chosen.plans) \in Nat \ {0}
  BY SettingsAssumption DEF SpectrumInv, FileDecodes, Valid
<1>5. step' \in {"build", "refused"}
  BY DEF Generate
<1>6. step' = "build" /\ chosen.dospcx => Len(chosen.plans) <= 1
  BY DEF Generate, validateSpectrumXPlaneBuckets, OneParent
<1>7. GroupsInOrder'
  BY <1>1, <1>4, <1>5, <1>6 DEF GroupsInOrder
<1> QED
  BY <1>2, <1>3, <1>7 DEF SpectrumInv

LEMMA BuildKeeps ==
    ASSUME SpectrumInv, Build
    PROVE  SpectrumInv'
<1> DEFINE g == Group(Len(built) + 1)
           made == BuildCIDRPools(chosen.s, Platform(g), Topology, g.workers)
           N == Len(chosen.plans)
<1>1. /\ step = "build" /\ UNCHANGED <<chosen, file, left>>
      /\ built' = Append(built, made)
      /\ step' = IF ~made.ok THEN "refused"
                  ELSE IF Len(built') = N THEN "done" ELSE "build"
  BY DEF Build, Group
<1>2. N \in Nat /\ Len(built) \in Nat /\ Len(built) < N
  BY <1>1 DEF SpectrumInv, FileDecodes, BuiltFromFile, GroupsInOrder, Valid
<1>3. FileDecodes'
  BY <1>1 DEF SpectrumInv, FileDecodes
<1>4. Topology' = Topology /\ \A c : Group(c)' = Group(c)
  BY <1>1 DEF Topology, Group
<1> HIDE DEF g, made, N
<1>5. /\ Len(built') = Len(built) + 1
      /\ built' \in Seq({built'[k] : k \in DOMAIN built'})
      /\ DOMAIN built = 1..Len(built) /\ DOMAIN built' = 1..(Len(built) + 1)
      /\ \A c \in DOMAIN built' : built'[c] = IF c \in DOMAIN built THEN built[c] ELSE made
  <2>1. built \in Seq({built[k] : k \in DOMAIN built})
    BY DEF SpectrumInv, BuiltFromFile
  <2>2. /\ Len(Append(built, made)) = Len(built) + 1
        /\ Append(built, made) \in Seq({Append(built, made)[k] : k \in DOMAIN Append(built, made)})
        /\ DOMAIN built = 1..Len(built) /\ DOMAIN Append(built, made) = 1..(Len(built) + 1)
        /\ \A c \in DOMAIN Append(built, made) :
              Append(built, made)[c] = IF c \in DOMAIN built THEN built[c] ELSE made
    BY <2>1, ListGrows
  <2> QED
    BY ONLY <1>1, <2>2
<1>6. BuiltFromFile'
  <2>1. ASSUME NEW c \in DOMAIN built'
        PROVE  built'[c] = BuildCIDRPools(chosen.s, Platform(Group(c)), Topology,
                                              Group(c).workers)
    <3>1. CASE c \in DOMAIN built
      BY <1>5, <3>1 DEF SpectrumInv, BuiltFromFile
    <3>2. CASE c \notin DOMAIN built
      <4>1. c = Len(built) + 1
        BY <1>2, <1>5, <3>2
      <4> QED
        BY <1>5, <3>2, <4>1 DEF made, g
    <3> QED
      BY <3>1, <3>2
  <2>2. Len(built') <= N
    BY <1>2, <1>5
  <2> QED
    BY <1>1, <1>4, <1>5, <2>1, <2>2 DEF BuiltFromFile, N, Platform
<1>7. GroupsInOrder'
  <2>1. step' # "file" /\ (step' = "build" => Len(built') < N)
    BY <1>1, <1>2, <1>5
  <2>2. chosen.dospcx => N <= 1
    BY <1>1 DEF SpectrumInv, GroupsInOrder, N
  <2> QED
    BY <1>1, <2>1, <2>2 DEF GroupsInOrder, N
<1> QED
  BY <1>3, <1>6, <1>7 DEF SpectrumInv

LEMMA SpectrumStep ==
    ASSUME SpectrumInv, [SpectrumNext]_spectrumVars
    PROVE  SpectrumInv'
<1>1. CASE WriteLinks
  BY <1>1, WriteLinksKeeps
<1>2. CASE Generate
  BY <1>2, GenerateKeeps
<1>3. CASE Build
  BY <1>3, BuildKeeps
<1>4. CASE UNCHANGED spectrumVars
  <2>1. UNCHANGED <<chosen, file, left, step, built>>
    BY <1>4 DEF spectrumVars
  <2>2. Topology' = Topology /\ \A c : Group(c)' = Group(c)
    BY <2>1 DEF Topology, Group
  <2>3. BuiltFromFile'
    BY <2>1, <2>2 DEF SpectrumInv, BuiltFromFile, Platform
  <2> QED
    BY <2>1, <2>3 DEF SpectrumInv, FileDecodes, GroupsInOrder
<1> QED
  BY <1>1, <1>2, <1>3, <1>4 DEF SpectrumNext

\* The links of the file are decoded.
LEMMA TopologyDecoded ==
    ASSUME SpectrumInv
    PROVE  Decoded(Topology) /\ Placed(Topology)
<1> DEFINE data == [reference |-> ~chosen.air, air |-> chosen.air, links |-> file]
<1>1. CASE chosen.air
  <2>1. Topology = normalizeAIRTopology(file, chosen.s.tier)
    BY <1>1 DEF Topology, loadTopology, detectTopologyFormat
  <2> QED
    BY <1>1, <2>1, AIRDecoded DEF SpectrumInv, FileDecodes
<1>2. CASE ~chosen.air
  <2>1. Topology = file
    BY <1>2 DEF Topology, loadTopology, detectTopologyFormat
  <2> QED
    BY <1>2, <2>1, ReferenceDecoded DEF SpectrumInv, FileDecodes
<1> QED
  BY <1>1, <1>2

(* For every topology file and all groups, each static prefix lies in the  *)
(* CIDR of its own pool and in no other pool of the group, and the workers *)
(* a group names, nobody else, have one in each of its pools.              *)
THEOREM PoolsHoldTheirOwn == SpectrumSpec => []PoolHoldsItsOwn
<1>1. SpectrumInv => PoolHoldsItsOwn
  <2> SUFFICES ASSUME SpectrumInv, NEW c \in DOMAIN built, NEW p \in built[c].pools
               PROVE  /\ \A a \in p.allocations : \A q \in built[c].pools :
                            (supernet(a.prefix, q.bits) = q.cidr) = (p = q)
                      /\ Group(c).workers # {} => {a.node : a \in p.allocations} = Group(c).workers
    BY DEF PoolHoldsItsOwn, GroupPools, Group
  <2> DEFINE s == chosen.s
             vr == Platform(Group(c))
             topo == Topology
             A == Group(c).workers
  <2>1. built[c] = BuildCIDRPools(s, vr, topo, A)
    BY DEF SpectrumInv, BuiltFromFile
  <2>2. s.tier \in {2, 3} /\ vr \in BOOLEAN /\ Decoded(topo)
    BY TopologyDecoded, SettingsAssumption DEF SpectrumInv, FileDecodes, Valid, Platform
  <2> HIDE DEF s, vr, topo, A
  <2>3. \A a \in p.allocations : \A q \in built[c].pools :
            (supernet(a.prefix, q.bits) = q.cidr) = (p = q)
    BY <2>1, <2>2, PrefixInItsPool
  <2>4. PoolOf(p, hostLinks(topo, s, vr, A), A, s, vr)
    BY <2>1, <2>2, LinksAreNumbered, PoolFacts
  <2> QED
    BY <2>3, <2>4 DEF PoolOf, A
<1> QED
  BY <1>1, SpectrumInitially, SpectrumStep, PTL DEF SpectrumSpec

(* For every topology file and all groups that the code keeps apart, two   *)
(* static allocations with the same prefix are the same worker's in the    *)
(* same pool, whatever the order of the links.                             *)
THEOREM AddressesNeverShared == SpectrumSpec => []AddressesUnique
<1>1. SpectrumInv => AddressesUnique
  <2> SUFFICES ASSUME SpectrumInv, step = "done", WellFormed,
                      NEW c \in DOMAIN built, NEW d \in DOMAIN built, KeptApart(c, d),
                      NEW p \in built[c].pools, NEW q \in built[d].pools,
                      NEW a \in p.allocations, NEW b \in q.allocations, a.prefix = b.prefix
               PROVE  SameTarget(p, q, a, b)
    BY DEF AddressesUnique, GroupPools, SameTarget
  <2> DEFINE s == chosen.s
             topo == Topology
             vr == Platform(Group(c))
             A == Group(c).workers
             B == Group(d).workers
  <2>1. /\ built[c] = BuildCIDRPools(s, Platform(Group(c)), topo, A)
        /\ built[d] = BuildCIDRPools(s, Platform(Group(d)), topo, B)
    BY DEF SpectrumInv, BuiltFromFile
  <2>2. Decoded(topo) /\ Placed(topo)
    BY TopologyDecoded
  <2>3. Uniform(topo, s.tier)
    BY DEF WellFormed, Uniform
  <2>4. c = d \/ (~Platform(Group(c)) /\ ~Platform(Group(d)))
    <3>1. CASE chosen.dospcx
      <4>1. Len(built) \in Nat /\ Len(built) <= 1 /\ DOMAIN built = 1..Len(built)
        <5>1. /\ Len(built) \in Nat /\ Len(built) <= Len(chosen.plans)
              /\ DOMAIN built = 1..Len(built)
          BY DEF SpectrumInv, BuiltFromFile
        <5>2. Len(chosen.plans) <= 1 /\ Len(chosen.plans) \in Nat
          BY <3>1 DEF SpectrumInv, GroupsInOrder, FileDecodes, Valid
        <5> QED
          BY <5>1, <5>2
      <4> QED
        BY <4>1
    <3> QED
      BY <3>1 DEF KeptApart, Group
  <2>5. Platform(Group(c)) \in BOOLEAN /\ Platform(Group(d)) \in BOOLEAN
    BY DEF Platform
  <2> HIDE DEF s, topo, A, B
  <2>6. CASE Platform(Group(c)) = FALSE /\ Platform(Group(d)) = FALSE
    <3>1. built[c] = BuildCIDRPools(s, FALSE, topo, A) /\ built[d] = BuildCIDRPools(s, FALSE, topo, B)
      BY <2>1, <2>6
    <3> QED
      <4>1. /\ p \in BuildCIDRPools(s, FALSE, topo, A).pools
            /\ q \in BuildCIDRPools(s, FALSE, topo, B).pools
        BY <3>1
      <4>2. a \in p.allocations /\ b \in q.allocations /\ a.prefix = b.prefix
        OBVIOUS
      <4> QED
        BY <2>2, <2>3, <4>1, <4>2, SamePrefix
  <2>7. CASE c = d /\ Platform(Group(c)) = TRUE
    <3>1. built[c] = BuildCIDRPools(s, TRUE, topo, A) /\ built[d] = built[c]
      BY <2>1, <2>7
    <3> QED
      <4>1. /\ p \in BuildCIDRPools(s, TRUE, topo, A).pools
            /\ q \in BuildCIDRPools(s, TRUE, topo, A).pools
        BY <3>1
      <4>2. a \in p.allocations /\ b \in q.allocations /\ a.prefix = b.prefix
        OBVIOUS
      <4> QED
        BY <2>2, <4>1, <4>2, VRSamePrefix
  <2> QED
    BY <2>4, <2>5, <2>6, <2>7
<1> QED
  BY <1>1, SpectrumInitially, SpectrumStep, PTL DEF SpectrumSpec

\* Eight of the planes 0..7 are all of them.
LEMMA AllEightPlanes ==
    ASSUME NEW T, T \subseteq 0..7, Cardinality(T) = 8
    PROVE  T = 0..7
<1>1. IsFiniteSet(0..7) /\ Cardinality(0..7) = 8
  <2>1. \A a, b \in Int :
           IsFiniteSet(a..b) /\ Cardinality(a..b) = IF a > b THEN 0 ELSE b - a + 1
    BY FS_Interval
  <2>2. 0 \in Int /\ 7 \in Int
    OBVIOUS
  <2>3. IsFiniteSet(0..7) /\ Cardinality(0..7) = IF 0 > 7 THEN 0 ELSE 7 - 0 + 1
    BY <2>1, <2>2, Zenon
  <2> QED
    BY <2>3
<1>2. Cardinality(T) = 8
  BY SameCardinality
<1>3. T \in SUBSET (0..7)
  OBVIOUS
<1> QED
  BY <1>1, <1>2, <1>3, FS_Subset

HasPool(pools, rail, nic) == \E p \in pools : p.key = [rail |-> rail, nic |-> nic, plane |-> 0]

LEMMA VRGroupCovered ==
    ASSUME NEW s, NEW topo, Decoded(topo), NEW allowed,
           BuildCIDRPools(s, TRUE, topo, allowed).ok,
           NEW rail \in 0..3, NEW nic \in 0..1
    PROVE  HasPool(BuildCIDRPools(s, TRUE, topo, allowed).pools, rail, nic)
<1> DEFINE links == hostLinks(topo, s, TRUE, allowed)
           own == OwnLinks(links, allowed)
           allocs == allocationsByPool(links, allowed, s, TRUE)
           Key(m) == poolKeyForLink(links[m], s, TRUE)
           pools == BuildCIDRPools(s, TRUE, topo, allowed).pools
           bits == PoolBits(s, TRUE)
           Pool(k) == [key |-> k,
                       cidr |-> supernet(allocs[k][Min(DOMAIN allocs[k])].prefix, bits),
                       bits |-> bits, routes |-> poolRoutes(s, TRUE),
                       allocations |-> {allocs[k][w] : w \in DOMAIN allocs[k]}]
<1>1. /\ DOMAIN allocs # {} /\ validateVRTopology(links, allowed)
      /\ \A k \in DOMAIN allocs : \E p \in pools : p.key = k
  <2>1. /\ DOMAIN allocs # {} /\ validateVRTopology(links, allowed)
        /\ pools = {Pool(k) : k \in DOMAIN allocs}
    BY DEF BuildCIDRPools, Refuse
  <2>2. \A k \in DOMAIN allocs : Pool(k) \in pools /\ Pool(k).key = k
    BY <2>1
  <2> QED
    BY <2>1, <2>2
<1>2. DOMAIN allocs = {Key(m) : m \in own}
  BY DEF allocationsByPool
<1>3. PICK m \in own : TRUE
  BY <1>1, <1>2
<1> DEFINE at == {k \in own : links[k].node = links[m].node /\ links[k].rail = rail}
           planes == {links[k].plane : k \in at}
<1>4. Cardinality(planes) = 8
  BY <1>1, <1>3 DEF validateVRTopology
<1>5. \A k \in own : links[k].plane \in 0..7
  <2> SUFFICES ASSUME NEW k \in own PROVE links[k].plane \in 0..7
    OBVIOUS
  <2> DEFINE l == links[k]
  <2>1. k \in DOMAIN links
    BY DEF OwnLinks
  <2>2. Allotted(l, s, TRUE)
    BY <2>1, LinkFacts
  <2> HIDE DEF l
  <2>3. /\ l.plane \in Int /\ l.rail \in Int /\ l.pod \in Int /\ l.su \in Int /\ l.index \in Int
        /\ allocateVRHostLeaf(s, l.plane, l.rail, l.pod, l.su, l.index) # <<>>
    BY <2>2 DEF Allotted, AddressPlane
  <2>4. l.plane \in 0..7
    BY <2>3 DEF allocateVRHostLeaf, Fits
  <2> QED
    BY <2>4 DEF l
<1> HIDE DEF links, own, allocs, pools
<1>6. planes = 0..7
  <2>1. planes \subseteq 0..7
    BY <1>5
  <2> HIDE DEF planes
  <2> QED
    BY <1>4, <2>1, AllEightPlanes
<1>7. PICK k \in at : links[k].plane = 4 * nic
  <2>1. 4 * nic \in 0..7
    OBVIOUS
  <2> QED
    BY <1>6, <2>1
<1>8. Key(k) = [rail |-> rail, nic |-> nic, plane |-> 0]
  <2>1. (4 * nic) \div 4 = nic
    OBVIOUS
  <2> QED
    BY <1>7, <2>1 DEF poolKeyForLink
<1>9. Key(k) \in DOMAIN allocs
  BY <1>2, <1>7
<1> QED
  BY <1>1, <1>8, <1>9 DEF pools, HasPool

\* Both NICs of each of the four rails of a VR group that is accepted.
EveryNICPooled ==
    \A c \in DOMAIN built : built[c].ok /\ Platform(Group(c)) =>
        \A rail \in 0..3, nic \in 0..1 : HasPool(built[c].pools, rail, nic)

(* A VR group whose topology is accepted has a pool for both NICs of each  *)
(* of its four rails, for every topology file and order of its links       *)
(* (validateVRTopology, BuildCIDRPools): an endpoint of any of them finds  *)
(* the pool its network names.                                             *)
THEOREM VRPoolsComplete == SpectrumSpec => []EveryNICPooled
<1>1. SpectrumInv => EveryNICPooled
  <2> SUFFICES ASSUME SpectrumInv, NEW c \in DOMAIN built, built[c].ok, Platform(Group(c)),
                      NEW rail \in 0..3, NEW nic \in 0..1
               PROVE  HasPool(built[c].pools, rail, nic)
    BY DEF EveryNICPooled
  <2> DEFINE s == chosen.s
             topo == Topology
             A == Group(c).workers
  <2>1. Platform(Group(c)) = TRUE
    BY DEF Platform
  <2>2. built[c] = BuildCIDRPools(s, TRUE, topo, A)
    BY <2>1 DEF SpectrumInv, BuiltFromFile
  <2>3. Decoded(topo)
    BY TopologyDecoded
  <2> HIDE DEF s, topo, A
  <2> QED
    BY <2>2, <2>3, VRGroupCovered
<1> QED
  BY <1>1, SpectrumInitially, SpectrumStep, PTL DEF SpectrumSpec

-----------------------------------------------------------------------------
(* The endpoints of a VR group (spectrumXEndpoints, spectrumXClaims).      *)

\* How a list of lists is joined.
JoinsUp(f, seqs, N) ==
    \A k \in 1..N : f[k] = IF k = 1 THEN seqs[k] ELSE f[k - 1] \o seqs[k]

LEMMA Flattened ==
    ASSUME NEW S, NEW N \in Nat \ {0}, NEW seqs \in [1..N -> Seq(S)]
    PROVE  \E f \in [1..N -> Seq(S)] : JoinsUp(f, seqs, N) /\ FlattenSeq(seqs) = f[N]
<1> DEFINE Flat(f, n) == f = [k \in 1..n |-> IF k = 1 THEN seqs[k] ELSE f[k - 1] \o seqs[k]]
           Has(n) == \E f \in [1..n -> Seq(S)] : Flat(f, n)
           T == {n \in Nat : n <= N => Has(n)}
<1>1. 0 \in T
  <2>1. [k \in 1..0 |-> <<>>] \in [1..0 -> Seq(S)] /\ Flat([k \in 1..0 |-> <<>>], 0)
    OBVIOUS
  <2> QED
    BY <2>1
<1>2. ASSUME NEW n \in Nat, n \in T PROVE n + 1 \in T
  <2> SUFFICES ASSUME n + 1 <= N PROVE Has(n + 1)
    <3> HIDE DEF Has
    <3> QED
      OBVIOUS
  <2>0. Has(n)
    <3> HIDE DEF Has
    <3> QED
      BY <1>2
  <2>1. PICK f \in [1..n -> Seq(S)] : Flat(f, n)
    <3> HIDE DEF Flat
    <3> QED
      BY <2>0
  <2> DEFINE new == IF n = 0 THEN seqs[n + 1] ELSE f[n] \o seqs[n + 1]
             g == [k \in 1..(n + 1) |-> IF k <= n THEN f[k] ELSE new]
  <2>2. new \in Seq(S)
    <3>1. seqs[n + 1] \in Seq(S) /\ (n # 0 => f[n] \in Seq(S))
      OBVIOUS
    <3> QED
      BY <3>1
  <2>3. g \in [1..(n + 1) -> Seq(S)]
    <3> HIDE DEF new
    <3> QED
      BY <2>2
  <2>4. \A k \in 1..(n + 1) : g[k] = IF k = 1 THEN seqs[k] ELSE g[k - 1] \o seqs[k]
    <3>1. \A k \in 1..n : f[k] = IF k = 1 THEN seqs[k] ELSE f[k - 1] \o seqs[k]
      BY <2>1
    <3>2. ASSUME NEW k \in 1..(n + 1), k <= n
          PROVE  g[k] = IF k = 1 THEN seqs[k] ELSE g[k - 1] \o seqs[k]
      <4>1. g[k] = f[k] /\ (k # 1 => g[k - 1] = f[k - 1])
        BY <3>2
      <4>2. k \in 1..n
        BY <3>2
      <4> HIDE DEF g, new
      <4> QED
        BY <3>1, <4>1, <4>2
    <3>3. g[n + 1] = IF n + 1 = 1 THEN seqs[n + 1] ELSE g[(n + 1) - 1] \o seqs[n + 1]
      <4>1. g[n + 1] = new /\ (n # 0 => g[(n + 1) - 1] = f[n])
        OBVIOUS
      <4> QED
        BY <4>1
    <3>4. \A k \in 1..(n + 1) : k <= n \/ k = n + 1
      OBVIOUS
    <3> HIDE DEF g, new
    <3> QED
      BY <3>2, <3>3, <3>4
  <2>5. Flat(g, n + 1)
    <3> HIDE DEF g
    <3> QED
      BY <2>3, <2>4
  <2> QED
    BY <2>3, <2>5
<1>3. N \in T
  <2> HIDE DEF T
  <2> QED
    BY <1>1, <1>2, CountingUp
<1>4. PICK f \in [1..N -> Seq(S)] : Flat(f, N)
  <2>1. Has(N)
    <3> HIDE DEF Has
    <3> QED
      BY <1>3
  <2> HIDE DEF Flat
  <2> QED
    BY <2>1
<1>5. Len(seqs) = N
  OBVIOUS
<1> DEFINE g == CHOOSE h : Flat(h, N)
<1>6. Flat(g, N)
  BY <1>4
<1>7. FlattenSeq(seqs) = g[N]
  BY <1>5 DEF FlattenSeq
<1> HIDE DEF g
<1>8. DOMAIN g = 1..N /\ JoinsUp(g, seqs, N)
  BY <1>6 DEF JoinsUp
<1> DEFINE R == {k \in Nat : k \in 1..N => g[k] \in Seq(S)}
<1>9. 0 \in R
  OBVIOUS
<1>10. ASSUME NEW k \in Nat, k \in R PROVE k + 1 \in R
  <2>1. ASSUME k + 1 <= N PROVE g[k + 1] \in Seq(S)
    <3>1. seqs[k + 1] \in Seq(S) /\ (k # 0 => g[k] \in Seq(S))
      BY <1>10, <2>1
    <3>2. g[k + 1] = IF k = 0 THEN seqs[k + 1] ELSE g[k] \o seqs[k + 1]
      <4>1. k + 1 \in 1..N /\ (k + 1) - 1 = k /\ (k + 1 = 1 <=> k = 0)
        BY <2>1
      <4> QED
        BY <1>8, <4>1 DEF JoinsUp
    <3> QED
      BY <3>1, <3>2
  <2> QED
    BY <2>1
<1>11. Nat \subseteq R
  <2> HIDE DEF R
  <2> QED
    BY <1>9, <1>10, CountingUp
<1>12. \A k \in 1..N : g[k] \in Seq(S)
  BY <1>11
<1>13. g \in [1..N -> Seq(S)]
  <2>1. g = [k \in 1..N |-> g[k]]
    BY <1>6
  <2> QED
    BY <1>12, <2>1
<1> QED
  BY <1>7, <1>8, <1>13

Holding(list, e) == \E x \in DOMAIN list : list[x] = e

\* What one of the lists holds, the joined list holds.
LEMMA FlattenedHolds ==
    ASSUME NEW S, NEW N \in Nat \ {0}, NEW seqs \in [1..N -> Seq(S)],
           NEW c \in 1..N, NEW j \in DOMAIN seqs[c]
    PROVE  /\ FlattenSeq(seqs) \in Seq(S)
           /\ Holding(FlattenSeq(seqs), seqs[c][j])
<1>1. PICK f \in [1..N -> Seq(S)] : JoinsUp(f, seqs, N) /\ FlattenSeq(seqs) = f[N]
  BY Flattened
<1> DEFINE e == seqs[c][j]
           In(n) == \E x \in DOMAIN f[n] : f[n][x] = e
           T == {n \in Nat : c + n <= N => In(c + n)}
<1>2. 0 \in T
  <2>1. seqs[c] \in Seq(S) /\ (c # 1 => f[c - 1] \in Seq(S))
    OBVIOUS
  <2>2. f[c] = IF c = 1 THEN seqs[c] ELSE f[c - 1] \o seqs[c]
    BY <1>1 DEF JoinsUp
  <2>3. In(c)
    <3>1. CASE c = 1
      BY <2>2, <3>1
    <3>2. CASE c # 1
      <4> DEFINE a == f[c - 1]
                 b == seqs[c]
      <4>1. a \in Seq(S) /\ b \in Seq(S) /\ f[c] = a \o b /\ j \in 1..Len(b) /\ e = b[j]
        <5>1. a \in Seq(S) /\ b \in Seq(S) /\ f[c] = a \o b /\ j \in DOMAIN b /\ e = b[j]
          BY <2>1, <2>2, <3>2
        <5> HIDE DEF a, b
        <5>2. DOMAIN b = 1..Len(b)
          BY <5>1
        <5> QED
          BY <5>1, <5>2
      <4> HIDE DEF a, b
      <4>2. Len(a) + j \in DOMAIN (a \o b) /\ (a \o b)[Len(a) + j] = b[j]
        BY <4>1
      <4> QED
        BY <4>1, <4>2
    <3> QED
      BY <3>1, <3>2
  <2> HIDE DEF In
  <2> QED
    BY <2>3
<1>3. ASSUME NEW n \in Nat, n \in T PROVE n + 1 \in T
  <2> SUFFICES ASSUME c + (n + 1) <= N PROVE In(c + (n + 1))
    <3> HIDE DEF In
    <3> QED
      OBVIOUS
  <2> DEFINE m == c + n
  <2>1. In(m) /\ m \in 1..N /\ m + 1 \in 1..N /\ c + (n + 1) = m + 1 /\ m + 1 # 1
    <3> HIDE DEF In
    <3> QED
      BY <1>3
  <2> HIDE DEF m
  <2> DEFINE a == f[m]
             b == seqs[m + 1]
  <2>2. a \in Seq(S) /\ b \in Seq(S) /\ f[m + 1] = a \o b
    <3>1. (m + 1) - 1 = m
      BY <2>1
    <3> QED
      BY <1>1, <2>1, <3>1 DEF JoinsUp
  <2>3. PICK x \in DOMAIN a : a[x] = e
    BY <2>1
  <2> HIDE DEF a, b, e
  <2>4. x \in DOMAIN (a \o b) /\ (a \o b)[x] = a[x]
    BY <2>2, <2>3
  <2> QED
    BY <2>1, <2>2, <2>3, <2>4
<1>4. Nat \subseteq T
  <2> HIDE DEF T
  <2> QED
    BY <1>2, <1>3, CountingUp
<1>5. In(N)
  <2>1. N - c \in T /\ c + (N - c) = N
    <3>1. N - c \in Nat /\ c + (N - c) = N
      OBVIOUS
    <3> HIDE DEF T
    <3> QED
      BY <1>4, <3>1
  <2> HIDE DEF In
  <2> QED
    BY <2>1
<1> QED
  BY <1>1, <1>5 DEF Holding

\* A plan's merged group has the PFs and the platform of a source.
LEMMA MergedIsSource ==
    ASSUME NEW r \in Settings, NEW c \in 1..Len(r.plans)
    PROVE  LET g == Merged(r.plans[c])
               all == Sources(r.plans)
           IN  \E x \in DOMAIN all : all[x].pfs = g.pfs /\ all[x].platform = g.platform
<1> DEFINE made == r.plans
           N == Len(made)
           all == Sources(made)
           own == [k \in DOMAIN made |-> made[k].sources]
           S == UNION {ToSet(made[k].sources) : k \in 1..N}
           src == made[c].sources
           g == Merged(made[c])
<1>1. /\ made \in Seq(ToSet(made))
      /\ \A p \in ToSet(made) :
           /\ p.sources \in Seq(ToSet(p.sources)) /\ p.sources # <<>>
           /\ \A q \in ToSet(p.sources) : {"pfs", "platform"} \subseteq DOMAIN q
  BY SettingsAssumption DEF Valid
<1>2. N \in Nat \ {0} /\ DOMAIN made = 1..N
  BY <1>1
<1>3. ASSUME NEW k \in 1..N
      PROVE  /\ made[k].sources \in Seq(ToSet(made[k].sources)) /\ made[k].sources # <<>>
             /\ \A q \in ToSet(made[k].sources) : {"pfs", "platform"} \subseteq DOMAIN q
  <2>1. made[k] \in ToSet(made)
    BY <1>2 DEF ToSet
  <2> QED
    BY <1>1, <2>1
<1>4. all = FlattenSeq(own)
  BY DEF Sources
<1>5. ASSUME NEW k \in 1..N PROVE own[k] = made[k].sources /\ own[k] \in Seq(S)
  <2>1. own[k] = made[k].sources
    BY <1>2
  <2>2. ToSet(made[k].sources) \subseteq S
    OBVIOUS
  <2> HIDE DEF S, own
  <2> QED
    BY <1>3, <2>1, <2>2
<1>6. own \in [1..N -> Seq(S)]
  <2>1. own = [k \in 1..N |-> own[k]]
    BY <1>2
  <2> HIDE DEF own, S
  <2> QED
    BY <1>5, <2>1
<1>7. 1 \in DOMAIN src
  <2>1. src \in Seq(ToSet(src)) /\ src # <<>>
    BY <1>3
  <2> HIDE DEF src
  <2> QED
    BY <2>1
<1>8. Holding(all, src[1])
  <2>1. own[c] = src /\ 1 \in DOMAIN own[c]
    BY <1>5, <1>7
  <2> HIDE DEF own, S, all, src, made, N
  <2>2. Holding(FlattenSeq(own), own[c][1])
    BY <1>2, <1>6, <2>1, FlattenedHolds DEF N, made
  <2> QED
    BY <1>4, <2>1, <2>2
<1>9. {"pfs", "platform"} \subseteq DOMAIN src[1]
  <2>1. src[1] \in ToSet(src)
    BY <1>7 DEF ToSet
  <2> QED
    BY <1>3, <2>1
<1>10. g.pfs = src[1].pfs /\ g.platform = src[1].platform
  BY <1>9 DEF Merged
<1> HIDE DEF all, src, g
<1>11. \E x \in DOMAIN all : all[x].pfs = g.pfs /\ all[x].platform = g.platform
  BY <1>8, <1>10 DEF Holding
<1> QED
  BY <1>11 DEF all, g

\* A VR group that passes has four rails of two NICs, and one network a NIC.
LEMMA VRLayout ==
    ASSUME NEW g, NEW s, Platform(g), validateSpectrumXGroup(g, s)
    PROVE  s.mode = "hwplb" /\ railCount(g.pfs, s.planes) = 4
<1> DEFINE ew == FilterEastWestPFs(g.pfs)
           rails == groupPFsByRail(ew)
           layout == [k \in DOMAIN rails |-> Len(masterPFsByNIC(rails[k]))]
<1>1. spectrumXRailLayout(g, s.planes) = <<2, 2, 2, 2>> /\ s.mode = "hwplb"
  BY DEF Platform, validateSpectrumXGroup
<1>2. allHaveRail(ew) /\ layout = <<2, 2, 2, 2>>
  <2>1. <<2, 2, 2, 2>> # <<>>
    OBVIOUS
  <2>2. spectrumXRailLayout(g, s.planes) = layout \/ spectrumXRailLayout(g, s.planes) = <<>>
    BY DEF spectrumXRailLayout
  <2>3. spectrumXRailLayout(g, s.planes) # <<>> => allHaveRail(ew)
    BY DEF spectrumXRailLayout
  <2> QED
    BY <1>1, <2>1, <2>2, <2>3
<1>3. DOMAIN rails = 1..4
  <2>1. DOMAIN layout = DOMAIN rails
    OBVIOUS
  <2>2. DOMAIN <<2, 2, 2, 2>> = 1..4
    OBVIOUS
  <2> HIDE DEF layout, rails
  <2> QED
    BY <1>2, <2>1, <2>2
<1>4. Len(rails) = 4
  <2> HIDE DEF rails
  <2> QED
    BY <1>3
<1>5. railCount(g.pfs, s.planes) = Len(rails)
  BY <1>2 DEF railCount
<1> QED
  BY <1>1, <1>4, <1>5

\* The two endpoints of a rail.
EndpointOf(e, rail, nic) ==
    /\ e.pool = [rail |-> rail, nic |-> nic, plane |-> 0]
    /\ e.claim = <<rail>>
    /\ \A x \in e.names : \E p : x = <<nic, p, rail>>

RailPair(pair, rail) ==
    Len(pair) = 2 /\ EndpointOf(pair[1], rail, 0) /\ EndpointOf(pair[2], rail, 1)

LEMMA RailHasTwo ==
    ASSUME NEW g, NEW s, Platform(g), s.mode = "hwplb", NEW rail \in 0..3
    PROVE  LET pair == RailEndpoints(s, g, rail)
           IN  pair \in Seq(ToSet(pair)) /\ RailPair(pair, rail)
<1> DEFINE pair == RailEndpoints(s, g, rail)
<1>1. Platform(g) = TRUE /\ s.mode # "swplb"
  BY DEF Platform
<1>2. DOMAIN pair = 1..2
  BY <1>1 DEF RailEndpoints
<1>3. EndpointOf(pair[1], rail, 0)
  <2>1. pair[1].pool = [rail |-> rail, nic |-> 0, plane |-> 0]
    BY <1>1 DEF RailEndpoints
  <2>2. pair[1].claim = <<rail>>
    BY <1>1 DEF RailEndpoints
  <2>3. pair[1].names = EndpointNames(s, g, rail, 0)
    BY <1>1 DEF RailEndpoints
  <2>4. \A x \in EndpointNames(s, g, rail, 0) : \E p : x = <<0, p, rail>>
    BY <1>1 DEF EndpointNames
  <2> HIDE DEF pair
  <2> QED
    BY <2>1, <2>2, <2>3, <2>4 DEF EndpointOf
<1>4. EndpointOf(pair[2], rail, 1)
  <2>1. pair[2].pool = [rail |-> rail, nic |-> 1, plane |-> 0]
    BY <1>1 DEF RailEndpoints
  <2>2. pair[2].claim = <<rail>>
    BY <1>1 DEF RailEndpoints
  <2>3. pair[2].names = EndpointNames(s, g, rail, 1)
    BY <1>1 DEF RailEndpoints
  <2>4. \A x \in EndpointNames(s, g, rail, 1) : \E p : x = <<1, p, rail>>
    BY <1>1 DEF EndpointNames
  <2> HIDE DEF pair
  <2> QED
    BY <2>1, <2>2, <2>3, <2>4 DEF EndpointOf
<1>5. pair = [k \in 1..2 |-> pair[k]]
  BY <1>1 DEF RailEndpoints
<1> HIDE DEF pair
<1>6. Len(pair) = 2
  BY <1>2, <1>5
<1>7. pair \in Seq(ToSet(pair))
  BY <1>2, <1>5 DEF ToSet
<1> QED
  BY <1>3, <1>4, <1>6, <1>7 DEF RailPair, pair

\* A list of n pairs.
Paired(list, pairs, n) ==
    /\ Len(list) = 2 * n
    /\ \A k \in 1..n : list[2 * k - 1] = pairs[k][1] /\ list[2 * k] = pairs[k][2]

LEMMA LengthOfJoin ==
    ASSUME NEW S, NEW a \in Seq(S), NEW b \in Seq(S)
    PROVE  Len(a \o b) = Len(a) + Len(b)
OBVIOUS

LEMMA OneMorePair ==
    ASSUME NEW S, NEW a \in Seq(S), NEW b \in Seq(S), NEW pairs, NEW n \in Nat,
           Paired(a, pairs, n), Len(b) = 2,
           pairs[n + 1][1] = b[1], pairs[n + 1][2] = b[2]
    PROVE  Paired(a \o b, pairs, n + 1)
<1>0. Len(a) = 2 * n
  BY DEF Paired
<1>1. Len(a) = 2 * n /\ Len(a \o b) = 2 * n + 2
  <2>1. Len(a \o b) = Len(a) + Len(b)
    BY LengthOfJoin
  <2> QED
    BY <1>0, <2>1
<1>2. \A x \in 1..(2 * n) : (a \o b)[x] = a[x]
  BY <1>1
<1>3. (a \o b)[2 * n + 1] = b[1] /\ (a \o b)[2 * n + 2] = b[2]
  BY <1>1
<1>4. ASSUME NEW k \in 1..(n + 1)
      PROVE  (a \o b)[2 * k - 1] = pairs[k][1] /\ (a \o b)[2 * k] = pairs[k][2]
  <2>1. CASE k = n + 1
    <3>1. 2 * k - 1 = 2 * n + 1 /\ 2 * k = 2 * n + 2
      BY <2>1
    <3> QED
      BY <1>3, <2>1, <3>1
  <2>2. CASE k # n + 1
    <3>1. k \in 1..n /\ 2 * k - 1 \in 1..(2 * n) /\ 2 * k \in 1..(2 * n)
      BY <2>2
    <3> QED
      BY <1>2, <3>1 DEF Paired
  <2> QED
    BY <2>1, <2>2
<1>5. 2 * (n + 1) = 2 * n + 2
  OBVIOUS
<1> QED
  BY <1>1, <1>4, <1>5 DEF Paired

LEMMA FourPairs ==
    ASSUME NEW S, NEW pairs \in [1..4 -> Seq(S)], \A k \in 1..4 : Len(pairs[k]) = 2
    PROVE  FlattenSeq(pairs) \in Seq(S) /\ Paired(FlattenSeq(pairs), pairs, 4)
<1>1. PICK f \in [1..4 -> Seq(S)] : JoinsUp(f, pairs, 4) /\ FlattenSeq(pairs) = f[4]
  <2>1. 4 \in Nat \ {0}
    OBVIOUS
  <2> QED
    BY <2>1, Flattened
<1>2. f[1] = pairs[1] /\ f[2] = f[1] \o pairs[2] /\ f[3] = f[2] \o pairs[3] /\ f[4] = f[3] \o pairs[4]
  <2>1. \A k \in 1..4 : f[k] = IF k = 1 THEN pairs[k] ELSE f[k - 1] \o pairs[k]
    BY <1>1 DEF JoinsUp
  <2>2. f[1] = pairs[1]
    BY <2>1
  <2>3. f[2] = f[2 - 1] \o pairs[2]
    <3>1. 2 \in 1..4 /\ 2 # 1
      OBVIOUS
    <3> HIDE DEF JoinsUp
    <3> QED
      BY <2>1, <3>1, Zenon
  <2>4. f[3] = f[3 - 1] \o pairs[3]
    BY <2>1
  <2>5. f[4] = f[4 - 1] \o pairs[4]
    BY <2>1
  <2>6. 2 - 1 = 1 /\ 3 - 1 = 2 /\ 4 - 1 = 3
    OBVIOUS
  <2> QED
    BY <2>2, <2>3, <2>4, <2>5, <2>6
<1>3. Paired(f[1], pairs, 1)
  BY <1>2 DEF Paired
<1>4. Paired(f[2], pairs, 2)
  <2>1. f[1] \in Seq(S) /\ pairs[2] \in Seq(S) /\ 1 + 1 = 2 /\ Len(pairs[2]) = 2
    OBVIOUS
  <2> QED
    BY <1>2, <1>3, <2>1, OneMorePair
<1>5. Paired(f[3], pairs, 3)
  <2>1. f[2] \in Seq(S) /\ pairs[3] \in Seq(S) /\ 2 + 1 = 3 /\ Len(pairs[3]) = 2
    OBVIOUS
  <2> QED
    BY <1>2, <1>4, <2>1, OneMorePair
<1>6. Paired(f[4], pairs, 4)
  <2>1. f[3] \in Seq(S) /\ pairs[4] \in Seq(S) /\ 3 + 1 = 4 /\ Len(pairs[4]) = 2
    OBVIOUS
  <2> QED
    BY <1>2, <1>5, <2>1, OneMorePair
<1> QED
  BY <1>1, <1>6

\* The eight endpoints of a VR group: of NIC 0 and NIC 1 of each rail in turn.
VREndpoints(ends) ==
    /\ DOMAIN ends = 1..8
    /\ \A k \in 1..4 : EndpointOf(ends[2 * k - 1], k - 1, 0) /\ EndpointOf(ends[2 * k], k - 1, 1)

LEMMA VRHasEight ==
    ASSUME NEW g, NEW s, Platform(g), s.mode = "hwplb", railCount(g.pfs, s.planes) = 4
    PROVE  VREndpoints(spectrumXEndpoints(s, g))
<1> DEFINE pairs == [r \in 1..4 |-> RailEndpoints(s, g, r - 1)]
           S == UNION {ToSet(pairs[k]) : k \in 1..4}
           ends == FlattenSeq(pairs)
<1>1. spectrumXEndpoints(s, g) = ends
  BY DEF spectrumXEndpoints
<1>2. ASSUME NEW k \in 1..4 PROVE pairs[k] \in Seq(S) /\ RailPair(pairs[k], k - 1)
  <2>1. k - 1 \in 0..3 /\ pairs[k] = RailEndpoints(s, g, k - 1)
    OBVIOUS
  <2>2. ToSet(pairs[k]) \subseteq S
    OBVIOUS
  <2> HIDE DEF pairs, S
  <2>3. pairs[k] \in Seq(ToSet(pairs[k])) /\ RailPair(pairs[k], k - 1)
    BY <2>1, RailHasTwo
  <2> QED
    BY <2>2, <2>3
<1>3. pairs \in [1..4 -> Seq(S)]
  <2>1. pairs = [k \in 1..4 |-> pairs[k]]
    OBVIOUS
  <2> HIDE DEF pairs, S
  <2> QED
    BY <1>2, <2>1
<1> HIDE DEF pairs, S
<1>4. ends \in Seq(S) /\ Paired(ends, pairs, 4)
  BY <1>2, <1>3, FourPairs DEF RailPair
<1> HIDE DEF ends
<1>5. DOMAIN ends = 1..8
  BY <1>4 DEF Paired
<1>6. ASSUME NEW k \in 1..4
      PROVE  EndpointOf(ends[2 * k - 1], k - 1, 0) /\ EndpointOf(ends[2 * k], k - 1, 1)
  <2>1. ends[2 * k - 1] = pairs[k][1] /\ ends[2 * k] = pairs[k][2]
    BY <1>4 DEF Paired
  <2> QED
    BY <1>2, <2>1 DEF RailPair
<1> QED
  BY <1>1, <1>5, <1>6 DEF VREndpoints

\* One claim a rail.
LEMMA FourClaims ==
    ASSUME NEW ends, VREndpoints(ends)
    PROVE  Len(spectrumXClaims(ends)) = 4
<1> DEFINE F == {k \in DOMAIN ends : \A j \in 1..(k - 1) : ends[j].claim # ends[k].claim}
           claims == spectrumXClaims(ends)
<1>1. DOMAIN ends = 1..8
  BY DEF VREndpoints
<1>2. /\ ends[1].claim = <<0>> /\ ends[2].claim = <<0>>
      /\ ends[3].claim = <<1>> /\ ends[4].claim = <<1>>
      /\ ends[5].claim = <<2>> /\ ends[6].claim = <<2>>
      /\ ends[7].claim = <<3>> /\ ends[8].claim = <<3>>
  <2>1. \A k \in 1..4 : ends[2 * k - 1].claim = <<k - 1>> /\ ends[2 * k].claim = <<k - 1>>
    BY DEF VREndpoints, EndpointOf
  <2> QED
    BY <2>1
<1>3. F = {1, 3, 5, 7}
  <2>1. {1, 3, 5, 7} \subseteq F
    <3>1. 1 \in F
      BY <1>1
    <3>2. 3 \in F
      <4>1. \A j \in 1..(3 - 1) : j = 1 \/ j = 2
        OBVIOUS
      <4> QED
        BY <1>1, <1>2, <4>1
    <3>3. 5 \in F
      <4>1. \A j \in 1..(5 - 1) : j = 1 \/ j = 2 \/ j = 3 \/ j = 4
        OBVIOUS
      <4> QED
        BY <1>1, <1>2, <4>1
    <3>4. 7 \in F
      <4>1. \A j \in 1..(7 - 1) : j = 1 \/ j = 2 \/ j = 3 \/ j = 4 \/ j = 5 \/ j = 6
        OBVIOUS
      <4> QED
        BY <1>1, <1>2, <4>1
    <3> HIDE DEF F
    <3> QED
      BY <3>1, <3>2, <3>3, <3>4
  <2>2. 2 \notin F /\ 4 \notin F /\ 6 \notin F /\ 8 \notin F
    <3>1. 1 \in 1..(2 - 1) /\ 3 \in 1..(4 - 1) /\ 5 \in 1..(6 - 1) /\ 7 \in 1..(8 - 1)
      OBVIOUS
    <3> QED
      BY <1>2, <3>1
  <2>3. \A k \in F : k \in 1..8
    BY <1>1
  <2> HIDE DEF F
  <2> QED
    BY <2>1, <2>2, <2>3
<1>4. Cardinality({1, 3, 5, 7}) = 4
  <2>1. IsFiniteSet({}) /\ Cardinality({}) = 0
    BY FS_EmptySet
  <2>2. IsFiniteSet({} \cup {1}) /\ Cardinality({} \cup {1}) = 1
    BY <2>1, FS_AddElement
  <2>3. IsFiniteSet(({} \cup {1}) \cup {3}) /\ Cardinality(({} \cup {1}) \cup {3}) = 2
    BY <2>2, FS_AddElement
  <2>4. /\ IsFiniteSet((({} \cup {1}) \cup {3}) \cup {5})
        /\ Cardinality((({} \cup {1}) \cup {3}) \cup {5}) = 3
    BY <2>3, FS_AddElement
  <2>5. Cardinality(((({} \cup {1}) \cup {3}) \cup {5}) \cup {7}) = 4
    BY <2>4, FS_AddElement
  <2>6. ((({} \cup {1}) \cup {3}) \cup {5}) \cup {7} = {1, 3, 5, 7}
    OBVIOUS
  <2> QED
    BY <2>5, <2>6
<1>5. DOMAIN Sorted(F) = 1..4
  <2>1. DOMAIN Sorted(F) = 1..Cardinality(F)
    BY DEF Sorted
  <2> QED
    BY <1>3, <1>4, <2>1
<1>6. DOMAIN claims = DOMAIN Sorted(F)
  BY DEF spectrumXClaims
<1>7. claims = [k \in DOMAIN claims |-> claims[k]]
  BY DEF spectrumXClaims
<1> HIDE DEF F, claims
<1> QED
  BY <1>5, <1>6, <1>7 DEF claims

\* Every endpoint finds its pool, and no interface is named twice.
LEMMA EightServed ==
    ASSUME NEW ends, VREndpoints(ends), NEW pools,
           \A rail \in 0..3, nic \in 0..1 : HasPool(pools, rail, nic)
    PROVE  /\ \A k \in DOMAIN ends : \E p \in pools : p.key = ends[k].pool
           /\ \A k, m \in DOMAIN ends : k # m => ends[k].names \cap ends[m].names = {}
<1>1. DOMAIN ends = 1..8
  BY DEF VREndpoints
<1> DEFINE Rail(k) == (k - 1) \div 2
           Nic(k) == (k - 1) % 2
<1>2. \A k \in 1..8 : Rail(k) \in 0..3 /\ Nic(k) \in 0..1 /\ k = 2 * Rail(k) + Nic(k) + 1
  OBVIOUS
<1>3. ASSUME NEW k \in 1..8 PROVE EndpointOf(ends[k], Rail(k), Nic(k))
  <2> DEFINE r == Rail(k)
             n == Nic(k)
  <2>1. r \in 0..3 /\ n \in 0..1 /\ k = 2 * r + n + 1
    BY <1>2
  <2> HIDE DEF r, n
  <2>2. r + 1 \in 1..4 /\ (r + 1) - 1 = r
    BY <2>1
  <2>3. EndpointOf(ends[2 * (r + 1) - 1], r, 0) /\ EndpointOf(ends[2 * (r + 1)], r, 1)
    BY <2>2 DEF VREndpoints
  <2>4. EndpointOf(ends[k], r, n)
    <3>1. CASE n = 0
      <4>1. k = 2 * (r + 1) - 1
        BY <2>1, <3>1
      <4> QED
        BY <2>3, <3>1, <4>1
    <3>2. CASE n = 1
      <4>1. k = 2 * (r + 1)
        BY <2>1, <3>2
      <4> QED
        BY <2>3, <3>2, <4>1
    <3> QED
      BY <2>1, <3>1, <3>2
  <2> QED
    BY <2>4 DEF r, n
<1> HIDE DEF Rail, Nic
<1>4. ASSUME NEW k \in 1..8 PROVE \E p \in pools : p.key = ends[k].pool
  BY <1>2, <1>3 DEF EndpointOf, HasPool
<1>5. ASSUME NEW k \in 1..8, NEW m \in 1..8, k # m PROVE ends[k].names \cap ends[m].names = {}
  <2> SUFFICES ASSUME NEW x \in ends[k].names, x \in ends[m].names PROVE FALSE
    OBVIOUS
  <2>1. PICK p : x = <<Nic(k), p, Rail(k)>>
    BY <1>3 DEF EndpointOf
  <2>2. PICK q : x = <<Nic(m), q, Rail(m)>>
    BY <1>3 DEF EndpointOf
  <2>3. Nic(k) = Nic(m) /\ Rail(k) = Rail(m)
    BY <2>1, <2>2
  <2> QED
    BY <1>2, <1>5, <2>3
<1> QED
  BY <1>1, <1>4, <1>5

\* What is built has passed the checks.
LayoutsChecked ==
    step \in {"build", "done"} => validateSpectrumXGeneration(chosen, Sources(chosen.plans))

LEMMA LayoutsStep == LayoutsChecked /\ [SpectrumNext]_spectrumVars => LayoutsChecked'
<1> SUFFICES ASSUME LayoutsChecked, [SpectrumNext]_spectrumVars PROVE LayoutsChecked'
  OBVIOUS
<1>1. CASE WriteLinks
  BY <1>1 DEF WriteLinks, LayoutsChecked
<1>2. CASE Generate
  BY <1>2 DEF Generate, LayoutsChecked
<1>3. CASE Build
  BY <1>3 DEF Build, LayoutsChecked
<1>4. CASE UNCHANGED spectrumVars
  BY <1>4 DEF spectrumVars, LayoutsChecked
<1> QED
  BY <1>1, <1>2, <1>3, <1>4 DEF SpectrumNext

\* A generation that goes on has accepted every group so far.
AllAccepted == step \in {"build", "done"} => \A c \in DOMAIN built : built[c].ok

LEMMA AcceptedStep ==
    ASSUME SpectrumInv, AllAccepted, [SpectrumNext]_spectrumVars
    PROVE  AllAccepted'
<1>1. CASE WriteLinks
  BY <1>1 DEF WriteLinks, AllAccepted
<1>2. CASE Generate
  <2>1. built = <<>> /\ built' = built
    BY <1>2 DEF Generate, SpectrumInv, GroupsInOrder
  <2> QED
    BY <2>1 DEF AllAccepted
<1>3. CASE Build
  <2> DEFINE res == BuildCIDRPools(chosen.s, Platform(Group(Len(built) + 1)), Topology,
                                   Group(Len(built) + 1).workers)
  <2>1. step = "build" /\ built' = Append(built, res) /\ (step' # "refused" => res.ok)
    BY <1>3 DEF Build, Group
  <2>2. \A c \in DOMAIN built : built[c].ok
    BY <2>1 DEF AllAccepted
  <2>3. built \in Seq({built[k] : k \in DOMAIN built})
    BY DEF SpectrumInv, BuiltFromFile
  <2> HIDE DEF res
  <2>4. \A c \in DOMAIN built' : built'[c] = IF c \in DOMAIN built THEN built[c] ELSE res
    BY <2>1, <2>3, ListGrows
  <2> QED
    BY <2>1, <2>2, <2>4 DEF AllAccepted
<1>4. CASE UNCHANGED spectrumVars
  BY <1>4 DEF spectrumVars, AllAccepted
<1> QED
  BY <1>1, <1>2, <1>3, <1>4 DEF SpectrumNext

LEMMA EndpointsServed ==
    ASSUME SpectrumInv, EveryNICPooled, LayoutsChecked, AllAccepted
    PROVE  EndpointsHavePools
<1> SUFFICES ASSUME step = "done", NEW c \in DOMAIN built, chosen.dospcx, Platform(Group(c))
             PROVE  LET ends == spectrumXEndpoints(chosen.s, Group(c))
                    IN /\ \A k \in DOMAIN ends : \E p \in built[c].pools : p.key = ends[k].pool
                       /\ \A k, m \in DOMAIN ends : k # m => ends[k].names \cap ends[m].names = {}
                       /\ Len(spectrumXClaims(ends)) = railCount(Group(c).pfs, chosen.s.planes)
  BY DEF EndpointsHavePools, Group, GroupPools
<1> DEFINE g == Group(c)
           s == chosen.s
           all == Sources(chosen.plans)
           ends == spectrumXEndpoints(s, g)
<1>1. chosen \in Settings /\ c \in 1..Len(chosen.plans)
  BY SettingsAssumption DEF SpectrumInv, FileDecodes, BuiltFromFile, Valid
<1>2. PICK x \in DOMAIN all : all[x].pfs = g.pfs /\ all[x].platform = g.platform
  BY <1>1, MergedIsSource DEF Group
<1>3. validateSpectrumXGroup(all[x], s)
  BY <1>2 DEF LayoutsChecked, validateSpectrumXGeneration
<1>4. Platform(all[x])
  BY <1>2 DEF Platform
<1>5. s.mode = "hwplb" /\ railCount(g.pfs, s.planes) = 4
  BY <1>2, <1>3, <1>4, VRLayout
<1>6. \A rail \in 0..3, nic \in 0..1 : HasPool(built[c].pools, rail, nic)
  BY DEF EveryNICPooled, AllAccepted
<1> HIDE DEF g, s, all
<1>7. VREndpoints(ends)
  <2>1. Platform(g)
    BY DEF g
  <2> QED
    BY <1>5, <2>1, VRHasEight
<1> HIDE DEF ends
<1>8. /\ \A k \in DOMAIN ends : \E p \in built[c].pools : p.key = ends[k].pool
      /\ \A k, m \in DOMAIN ends : k # m => ends[k].names \cap ends[m].names = {}
  BY <1>6, <1>7, EightServed
<1>9. Len(spectrumXClaims(ends)) = railCount(g.pfs, s.planes)
  BY <1>5, <1>7, FourClaims
<1> QED
  BY <1>8, <1>9 DEF ends, g, s

(* On VR every endpoint that RA2.4 and RA3.1 render finds the pool its      *)
(* network names, no two of them name an interface twice, and there is one  *)
(* claim per rail (spectrumXEndpoints, spectrumXClaims): for every topology *)
(* file, order of its links and configuration that the checks let through.  *)
THEOREM EndpointsFindPools == SpectrumSpec => []EndpointsHavePools
<1> DEFINE Inv == SpectrumInv /\ LayoutsChecked /\ AllAccepted
<1>1. SpectrumInit => Inv
  <2> SUFFICES ASSUME SpectrumInit PROVE Inv
    OBVIOUS
  <2>1. step = "file"
    BY DEF SpectrumInit
  <2> QED
    BY <2>1, SpectrumInitially DEF LayoutsChecked, AllAccepted
<1>2. Inv /\ [SpectrumNext]_spectrumVars => Inv'
  BY SpectrumStep, LayoutsStep, AcceptedStep
<1>3. Inv /\ EveryNICPooled => EndpointsHavePools
  BY EndpointsServed
<1> HIDE DEF Inv
<1> QED
  BY <1>1, <1>2, <1>3, VRPoolsComplete, PTL DEF SpectrumSpec

=============================================================================

------------------------------- MODULE Deploy -------------------------------
(***************************************************************************)
(* The phases of l8k deploy: applyBundleWithInstaller of                   *)
(* pkg/networkoperatorplugin/deploy.go and the helpers it calls, from the  *)
(* read-only inspections to the verification of the last manifest.         *)
(*                                                                         *)
(* The wait for one manifest is taken from Reconcile in the form its       *)
(* theorems justify: it ends well only when the controller has reported    *)
(* the applied spec ready.  The Helm phase and the stray remediation are   *)
(* single steps per release and per object.                                *)
(***************************************************************************)
EXTENDS Naturals, Sequences, FiniteSets, SequencesExt

CONSTANTS
    Policies,   \* NicClusterPolicy, if any, then the NicNodePolicies, in order
    HasNcp,     \* the bundle has a NicClusterPolicy
    Others,     \* the remaining manifests, in order
    IPPools,    \* those of Others whose API NicClusterPolicy's controller installs
    Pods,       \* those of Others that are Pods: their apply is retried
    Strays,     \* resources that are not in the bundle and may exist
    Faults      \* which of FaultKinds may happen

FaultKinds == {"inspect", "helm", "preflight", "remove", "config", "api",
               "apply", "reconcile", "cancel"}

Manifests == ToSet(Policies) \cup ToSet(Others)
MaxAttempts == 3

\* Bundle documents in order; the renderer names every object once.
ASSUME BundleAssumption ==
    /\ Policies \in Seq(Manifests) /\ Others \in Seq(Manifests)
    /\ IsInjective(Policies)
    /\ HasNcp \in BOOLEAN /\ (HasNcp => Len(Policies) > 0)
    /\ IPPools \subseteq ToSet(Others) /\ Pods \subseteq ToSet(Others)
    /\ ToSet(Policies) \cap ToSet(Others) = {}
    /\ Strays \cap Manifests = {}
    /\ Faults \subseteq FaultKinds

VARIABLES
    \* --- options ---
    dryRun, overwrite, ocp,
    helm,       \* "managed"; "external" (SkipHelmChart); "noValues"
    \* --- the cluster ---
    release,    \* the network-operator Helm release
    strays,     \* strays that exist
    drift,      \* live NicClusterPolicy component versions differ
    objects,    \* manifests present with the applied spec
    ready,      \* those of them whose controller reports them ready
    served,     \* the IPPool API is installed
    \* --- the command ---
    pc, i, cancelled,
    attempt,    \* attempts made for the current manifest
    expired,    \* the five-minute window of retryDependentAPI is over
    deletions,  \* strays remediation still has to delete
    deferred,   \* dry-run: manifests whose API is not there yet
    result,
    \* --- history, read by properties only ---
    effects,    \* what this run changed in the cluster
    seen        \* manifests this run saw ready after applying them

optionVars  == <<dryRun, overwrite, ocp, helm>>
clusterVars == <<release, strays, drift, objects, ready, served>>
vars == <<optionVars, clusterVars, pc, i, cancelled, attempt, expired,
          deletions, deferred, result, effects, seen>>

Steps   == {"inspect", "helm", "preflight", "remediate", "config", "policy",
            "policyWait", "api", "other", "otherRetry", "verify", "done"}
Results == {"none", "success", "inspection", "conflict", "helm", "preflight",
            "remediation", "config", "policy", "api", "apply", "deferred",
            "verify"}
Effects == {"helm", "removal", "config", "apply"}

TypeOK ==
    /\ dryRun \in BOOLEAN /\ overwrite \in BOOLEAN /\ ocp \in BOOLEAN
    /\ helm \in {"managed", "external", "noValues"}
    /\ release \in {"absent", "same", "different", "pending"}
    /\ strays \subseteq Strays /\ drift \in BOOLEAN
    /\ objects \subseteq Manifests /\ ready \subseteq objects
    /\ served \in BOOLEAN
    /\ pc \in Steps /\ i \in 1..(Len(Policies) + Len(Others) + 1)
    /\ cancelled \in BOOLEAN /\ attempt \in 1..MaxAttempts
    /\ expired \in BOOLEAN
    /\ deletions \subseteq Strays /\ deferred \subseteq ToSet(Others)
    /\ result \in Results
    /\ effects \subseteq Effects /\ seen \subseteq Manifests

\* A first deployment or a repeated one.  OpenShift takes its operators from
\* OLM; a bundle with Helm values is refused there during the inspections.
Init ==
    /\ dryRun \in BOOLEAN /\ overwrite \in BOOLEAN /\ ocp \in BOOLEAN
    /\ helm \in {"managed", "external", "noValues"}
    /\ release \in {"absent", "same", "different", "pending"}
    /\ strays \in SUBSET Strays /\ drift \in BOOLEAN
    /\ objects \in {{}, Manifests} /\ ready \in {{}, objects}
    /\ served = (objects # {})
    /\ drift => objects # {}
    /\ pc = "inspect" /\ i = 1 /\ cancelled = FALSE
    /\ attempt = 1 /\ expired = FALSE
    /\ deletions = {} /\ deferred = {} /\ result = "none"
    /\ effects = {} /\ seen = {}

May(f) == f \in Faults

-----------------------------------------------------------------------------
(* The cluster.                                                            *)

\* Controllers report an applied manifest ready, or no longer ready.
Reconciles(m) ==
    /\ m \in objects
    /\ ready' = IF m \in ready THEN ready \ {m} ELSE ready \cup {m}
    /\ UNCHANGED <<optionVars, release, strays, drift, objects, served, pc, i,
                   cancelled, attempt, expired, deletions, deferred, result,
                   effects, seen>>

\* The controller of NicClusterPolicy installs NV-IPAM and its API.
ApiInstalled ==
    /\ ~served /\ HasNcp /\ Policies[1] \in objects
    /\ served' = TRUE
    /\ UNCHANGED <<optionVars, release, strays, drift, objects, ready, pc, i,
                   cancelled, attempt, expired, deletions, deferred, result,
                   effects, seen>>

\* The deploy-wide deadline passes, or the caller cancels the context.
Cancel ==
    /\ May("cancel") /\ ~cancelled /\ pc # "done"
    /\ cancelled' = TRUE
    /\ UNCHANGED <<optionVars, clusterVars, pc, i, attempt, expired, deletions,
                   deferred, result, effects, seen>>

-----------------------------------------------------------------------------
(* The command.                                                            *)

runVars == <<cancelled, expired, deletions, deferred, effects, seen>>

Finish(r) == pc' = "done" /\ result' = r

End(r) ==
    /\ Finish(r)
    /\ UNCHANGED <<optionVars, clusterVars, i, attempt, runVars>>

GoTo(next) ==
    /\ pc' = next /\ i' = 1 /\ attempt' = 1
    /\ UNCHANGED result

\* Artifact validation, IPPool address collisions, target scopes, the OCP
\* operators, secondary-network ownership and, when overwriting, that of the
\* policies remediation would delete: reads only, any of them may refuse.
InspectionRefused == May("inspect") \/ cancelled \/ (ocp /\ helm = "managed")

InspectFails ==
    /\ pc = "inspect" /\ InspectionRefused
    /\ End("inspection")

Inspect ==
    /\ pc = "inspect" /\ ~(ocp /\ helm = "managed")
    /\ helm' = IF ocp THEN "external" ELSE helm
    /\ GoTo("helm")
    /\ UNCHANGED <<dryRun, overwrite, ocp, clusterVars, runVars>>

\* Phase 0.  An absent release is installed; a different one is replaced only
\* on request; a pending one blocks.  A dry run stores nothing.
HelmConflict ==
    \/ release = "pending"
    \/ release = "different" /\ ~overwrite

HelmRefused ==
    /\ pc = "helm" /\ helm = "managed" /\ HelmConflict
    /\ Finish("conflict")
    /\ UNCHANGED <<optionVars, clusterVars, i, attempt, cancelled, expired,
                   deletions, deferred, effects, seen>>

\* A failed or interrupted Helm operation leaves what it had done behind.
HelmFails ==
    /\ pc = "helm" /\ helm = "managed" /\ (May("helm") \/ cancelled)
    /\ \/ UNCHANGED <<release, effects>>
       \/ /\ ~HelmConflict /\ release # "same"
          /\ ~dryRun /\ release' \in {"same", "pending"}
          /\ effects' = effects \cup {"helm"}
    /\ Finish("helm")
    /\ UNCHANGED <<optionVars, strays, drift, objects, ready, served, i,
                   attempt, cancelled, expired, deletions, deferred, seen>>

HelmInstall ==
    /\ pc = "helm" /\ (helm = "managed" => ~HelmConflict)
    /\ IF helm = "managed" /\ ~dryRun /\ release # "same"
       THEN release' = "same" /\ effects' = effects \cup {"helm"}
       ELSE UNCHANGED <<release, effects>>
    /\ GoTo("preflight")
    /\ UNCHANGED <<optionVars, strays, drift, objects, ready, served,
                   cancelled, expired, deletions, deferred, seen>>

\* Phase 0.5.  The chart version is compared whenever Helm is not external;
\* OpenShift ignores strays.
VersionDrift ==
    (IF helm # "external" /\ release = "different" THEN {"helm"} ELSE {})
      \cup (IF drift THEN {"components"} ELSE {})
ConflictingStrays == IF ocp THEN {} ELSE strays
WithStrays(d, s) == d \cup (IF s = {} THEN {} ELSE {"strays"})

\* A check whose read fails is skipped, and so is a kind that cannot be listed:
\* preflight may find less than there is.
Readable(S) == IF May("preflight") \/ cancelled THEN SUBSET S ELSE {S}

PreflightFound(found, s) ==
    \/ /\ found # {} /\ ~overwrite
       /\ Finish("preflight") /\ UNCHANGED <<i, attempt, deletions>>
    \/ found # {} /\ overwrite /\ deletions' = s /\ GoTo("remediate")
    \/ found = {} /\ GoTo("config") /\ UNCHANGED deletions

Preflight ==
    /\ pc = "preflight"
    /\ \E d \in Readable(VersionDrift), s \in Readable(ConflictingStrays) :
          PreflightFound(WithStrays(d, s), s)
    /\ UNCHANGED <<optionVars, clusterVars, cancelled, expired, deferred,
                   effects, seen>>

\* Remediate: every policy is inspected before the first deletion, then the
\* strays of the resolved set are deleted one by one.
RemediationFails ==
    /\ pc = "remediate" /\ deletions # {} /\ (May("remove") \/ cancelled)
    /\ End("remediation")

\* Mutant: remediation ignores the dry run.
RemoveStrayForReal(s) ==
    /\ pc = "remediate" /\ s \in deletions /\ ~cancelled
    /\ deletions' = deletions \ {s}
    /\ strays' = strays \ {s} /\ effects' = effects \cup {"removal"}
    /\ UNCHANGED <<optionVars, release, drift, objects, ready, served, pc, i,
                   cancelled, attempt, expired, deferred, result, seen>>

RemoveStray(s) ==
    /\ pc = "remediate" /\ s \in deletions /\ ~cancelled
    /\ deletions' = deletions \ {s}
    /\ IF dryRun
       THEN UNCHANGED <<strays, effects>>
       ELSE strays' = strays \ {s} /\ effects' = effects \cup {"removal"}
    /\ UNCHANGED <<optionVars, release, drift, objects, ready, served, pc, i,
                   cancelled, attempt, expired, deferred, result, seen>>

Remediated ==
    /\ pc = "remediate" /\ deletions = {}
    /\ GoTo("config")
    /\ UNCHANGED <<optionVars, clusterVars, runVars>>

\* applyOCPOperatorConfiguration, on OpenShift only.
ConfigFails ==
    /\ pc = "config" /\ ocp /\ (May("config") \/ cancelled)
    /\ End("config")

Configure ==
    /\ pc = "config"
    /\ effects' = IF ocp /\ ~dryRun THEN effects \cup {"config"} ELSE effects
    /\ GoTo("policy")
    /\ UNCHANGED <<optionVars, clusterVars, cancelled, expired, deletions,
                   deferred, seen>>

\* A successful apply of m.  A dry run persists nothing.  A manifest that was
\* absent, or whose component versions drifted, has to be reported ready anew.
IsNcp(m) == HasNcp /\ m = Policies[1]
Unchanged(m) == m \in objects /\ ~(IsNcp(m) /\ drift)

ApplyManifest(m) ==
    IF dryRun
    THEN UNCHANGED <<objects, ready, drift, effects>>
    ELSE /\ objects' = objects \cup {m}
         /\ ready' = IF Unchanged(m) THEN ready ELSE ready \ {m}
         /\ drift' = (drift /\ ~IsNcp(m))
         /\ effects' = effects \cup {"apply"}

\* Phases 1 and 2: each policy is applied and waited for before the next.
ApplyPolicy ==
    /\ pc = "policy" /\ i <= Len(Policies) /\ ~cancelled
    /\ ApplyManifest(Policies[i])
    /\ IF dryRun
       THEN i' = i + 1 /\ UNCHANGED pc
       ELSE pc' = "policyWait" /\ UNCHANGED i
    /\ UNCHANGED <<optionVars, release, strays, served, cancelled, attempt,
                   expired, deletions, deferred, result, seen>>

\* Mutant: a policy is applied but not waited for.
PolicyReadyUnwaited ==
    /\ pc = "policyWait"
    /\ seen' = seen \cup ({Policies[i]} \cap ready)
    /\ pc' = "policy" /\ i' = i + 1
    /\ UNCHANGED <<optionVars, clusterVars, cancelled, attempt, expired,
                   deletions, deferred, result, effects>>

PolicyReady ==
    /\ pc = "policyWait" /\ Policies[i] \in ready
    /\ seen' = seen \cup ({Policies[i]} \cap ready)
    /\ pc' = "policy" /\ i' = i + 1
    /\ UNCHANGED <<optionVars, clusterVars, cancelled, attempt, expired,
                   deletions, deferred, result, effects>>

PolicyFails ==
    /\ \/ pc = "policy" /\ i <= Len(Policies) /\ (May("apply") \/ cancelled)
       \/ pc = "policyWait" /\ (May("reconcile") \/ cancelled)
    /\ End("policy")

PoliciesDone ==
    /\ pc = "policy" /\ i > Len(Policies)
    /\ GoTo("api")
    /\ UNCHANGED <<optionVars, clusterVars, runVars>>

\* validateSpectrumXDeploymentAPI, also for a dry run.
ApiFails ==
    /\ pc = "api" /\ (May("api") \/ cancelled)
    /\ End("api")

ApiCompatible ==
    /\ pc = "api"
    /\ GoTo("other")
    /\ UNCHANGED <<optionVars, clusterVars, runVars>>

\* Phase 3: every other manifest is applied, none is waited for.
Unserved(m) == m \in IPPools /\ ~served
Dependent(m) == ocp /\ Unserved(m) /\ HasNcp

ApplyOther ==
    /\ pc \in {"other", "otherRetry"} /\ i <= Len(Others) /\ ~cancelled
    /\ ~Unserved(Others[i])
    /\ ApplyManifest(Others[i])
    /\ pc' = "other" /\ i' = i + 1 /\ attempt' = 1 /\ expired' = FALSE
    /\ UNCHANGED <<optionVars, release, strays, served, cancelled, deletions,
                   deferred, result, seen>>

\* A Pod is tried three times; every other kind once.
RetryPod ==
    /\ pc = "other" /\ i <= Len(Others) /\ Others[i] \in Pods
    /\ May("apply") /\ ~cancelled /\ attempt < MaxAttempts
    /\ attempt' = attempt + 1
    /\ UNCHANGED <<optionVars, clusterVars, pc, i, runVars, result>>

OtherFails ==
    /\ \/ /\ pc = "other" /\ i <= Len(Others)
          /\ \/ cancelled
             \/ May("apply") /\ (Others[i] \in Pods => attempt = MaxAttempts)
             \/ Unserved(Others[i]) /\ ~Dependent(Others[i])
       \/ pc = "otherRetry" /\ (expired \/ cancelled)
    /\ End("apply")

\* An apply that is rejected for another reason ends the retries at once.
RetryRejected ==
    /\ pc = "otherRetry" /\ May("apply")
    /\ End("apply")

\* On OpenShift an IPPool waits for the API that NicClusterPolicy brings: a
\* dry run defers it, a real run retries for five minutes.
DeferOther ==
    /\ pc = "other" /\ i <= Len(Others) /\ Dependent(Others[i]) /\ dryRun
    /\ deferred' = deferred \cup {Others[i]}
    /\ i' = i + 1 /\ attempt' = 1
    /\ UNCHANGED <<optionVars, clusterVars, pc, cancelled, expired, deletions,
                   result, effects, seen>>

AwaitApi ==
    /\ pc = "other" /\ i <= Len(Others) /\ Dependent(Others[i]) /\ ~dryRun
    /\ ~cancelled
    /\ pc' = "otherRetry" /\ expired' = FALSE
    /\ UNCHANGED <<optionVars, clusterVars, i, attempt, cancelled, deletions,
                   deferred, result, effects, seen>>

ApiDeadline ==
    /\ pc = "otherRetry" /\ ~expired
    /\ expired' = TRUE
    /\ UNCHANGED <<optionVars, clusterVars, pc, i, cancelled, attempt,
                   deletions, deferred, result, effects, seen>>

OthersDone ==
    /\ pc = "other" /\ i > Len(Others)
    /\ \/ ~dryRun /\ GoTo("verify")
       \/ /\ dryRun /\ UNCHANGED <<i, attempt>>
          /\ Finish(IF deferred = {} THEN "success" ELSE "deferred")
    /\ UNCHANGED <<optionVars, clusterVars, runVars>>

\* Mutant: verification takes an applied manifest for a ready one.
VerifyReadySkipped ==
    /\ pc = "verify" /\ i <= Len(Others)
    /\ seen' = seen \cup ({Others[i]} \cap ready)
    /\ i' = i + 1
    /\ UNCHANGED <<optionVars, clusterVars, pc, cancelled, attempt, expired,
                   deletions, deferred, result, effects>>

\* Phase 4: wait for each of them, in order.
VerifyReady ==
    /\ pc = "verify" /\ i <= Len(Others) /\ Others[i] \in ready
    /\ seen' = seen \cup ({Others[i]} \cap ready)
    /\ i' = i + 1
    /\ UNCHANGED <<optionVars, clusterVars, pc, cancelled, attempt, expired,
                   deletions, deferred, result, effects>>

VerifyFails ==
    /\ pc = "verify" /\ i <= Len(Others) /\ (May("reconcile") \/ cancelled)
    /\ End("verify")

Deployed ==
    /\ pc = "verify" /\ i > Len(Others)
    /\ End("success")

Terminated == pc = "done" /\ UNCHANGED vars

Command ==
    \/ Inspect \/ HelmRefused \/ HelmInstall \/ Preflight
    \/ (\E s \in Strays : RemoveStray(s)) \/ Remediated \/ Configure
    \/ ApplyPolicy \/ PolicyReady \/ PoliciesDone \/ ApiCompatible
    \/ ApplyOther \/ RetryPod \/ OtherFails \/ DeferOther \/ AwaitApi
    \/ OthersDone \/ VerifyReady \/ Deployed

Failure ==
    \/ InspectFails \/ HelmFails \/ RemediationFails \/ ConfigFails
    \/ PolicyFails \/ ApiFails \/ RetryRejected \/ VerifyFails

Next ==
    \/ \E m \in Manifests : Reconciles(m)
    \/ ApiInstalled \/ Cancel \/ ApiDeadline
    \/ Command \/ Failure \/ Terminated

Spec == Init /\ [][Next]_vars

\* The command keeps running and its timers fire.  A call need not fail because
\* it may, but it does once the context is done.
Fairness ==
    /\ WF_vars(Command)
    /\ WF_vars(cancelled /\ Failure)
    /\ WF_vars(ApiDeadline)

FairSpec == Spec /\ Fairness

-----------------------------------------------------------------------------
(* Properties.                                                             *)

\* A dry run persists nothing, whichever phase it ends in, and neither does a
\* deployment that an inspection or Helm's conflict gate refuses ("before Helm,
\* stray remediation or manifest writes").
DryRunPersistsNothing ==
    dryRun \/ result \in {"inspection", "conflict"} => effects = {}

\* "NCP is upstream of every per-node component and gates the rest of the
\* deploy", and each NicNodePolicy is waited for "before moving on": nothing is
\* created before this run has seen every earlier policy ready.
PoliciesGateRest ==
    [][\A m \in objects' \ objects, k \in 1..Len(Policies) :
         (m \in ToSet(Others) \/ \E j \in (k + 1)..Len(Policies) : m = Policies[j])
            => Policies[k] \in seen]_vars

\* A successful deployment has seen every manifest of the bundle ready after
\* applying it, including the ones that waited for their API.
SuccessMeansVerified ==
    result = "success" /\ ~dryRun => seen = Manifests

=============================================================================

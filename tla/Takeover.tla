------------------------------ MODULE Takeover ------------------------------
(***************************************************************************)
(* How l8k deploy takes over a cluster that other clients also write:      *)
(* the network-operator Helm release (helm.go), NicClusterPolicies that    *)
(* are not in the bundle (preflight/runner.go) and the Multus and CNI      *)
(* plugin installers (secondarynetwork/).  Each API read and write of the  *)
(* command is a step of its own; other Helm clients, users editing         *)
(* policies, the operator and the platform act between them.  One run is   *)
(* modelled, which may be killed anywhere: it starts from whatever earlier *)
(* runs and other clients left, a pending release included.  Two runs at   *)
(* the same time are not modelled.                                         *)
(*                                                                         *)
(* Only the NicClusterPolicy strays are modelled, the other kinds are in   *)
(* Deploy.  On OpenShift the Helm phase and the stray checks do not exist. *)
(***************************************************************************)
EXTENDS Naturals, FiniteSets

CONSTANTS
    Charts,     \* a chart version together with user-supplied values
    Names,      \* names of NicClusterPolicies
    Policy,     \* the one a bundle may hold
    Components, \* "multus" and "cniPlugins"
    Runs,       \* the options and bundles l8k may be run with, of Options
    MaxWrites   \* other clients write only while fewer writes were made

VARIABLES
    release,    \* [status, chart, rev] of the last Helm revision
    policies,   \* name -> [uid, rv, mine, theirs]; uid 0: no such policy
    installers, \* component -> owners of its installers
    writes,     \* writes so far; numbers uids, resource versions, revisions
    pc, opts,
    live,       \* uid of Policy as CheckPolicy read it, 0 if it was absent
    rev,        \* the Helm revision this run is waiting for, or 0
    uninspected,\* strays Remediate still has to inspect
    evidence,   \* stray -> [uid, rv] it was inspected at
    result,
    \* --- history, read by properties only ---
    effects,    \* what this run changed
    stood,      \* Facts that have held since the current phase began
    stoodRun    \* Facts that have held since the run began

vars == <<release, policies, installers, writes, pc, opts, live, rev,
          uninspected, evidence, result, effects, stood, stoodRun>>

NoChart  == "none"
Platform == "platform"
Owner(n, uid) == <<n, uid>>
PlatformOwner == Owner(Platform, 0)
Statuses == {"absent", "deployed", "failed", "pending", "uninstalling"}
Steps    == {"done", "ownership", "inspect", "removals", "helmRead",
             "install", "upgrade", "helmWait", "preflight", "remediate",
             "delete", "policyRead", "policyInspect", "apply", "wait"}
Results  == {"none", "success", "ownership", "stuck", "conflict", "helm",
             "preflight", "remediation", "stopped"}

\* chart NoChart: Helm is not managed; bundled: there is a NicClusterPolicy,
\* which renders the sections of these components.
Options == [chart : Charts \cup {NoChart}, overwrite : BOOLEAN,
            dryRun : BOOLEAN, bundled : BOOLEAN, renders : SUBSET Components]

ASSUME PolicyAssumption == Policy \in Names /\ Platform \notin Names
ASSUME RunAssumption ==
    Runs \subseteq {o \in Options : ~o.bundled => o.renders = {}}
ASSUME BoundAssumption == MaxWrites \in Nat

Absent == [uid |-> 0, rv |-> 0, mine |-> {}, theirs |-> {}]
NoEvidence == [uid |-> 0, rv |-> 0]

Exists(n)   == policies[n].uid # 0
Sections(n) == policies[n].mine \cup policies[n].theirs
Strays      == Names \ (IF opts.bundled THEN {Policy} ELSE {})
Fresh       == writes + 1

TypeOK ==
    /\ release \in [status : Statuses, chart : Charts \cup {NoChart}, rev : Nat]
    /\ policies \in [Names -> [uid : Nat, rv : Nat, mine : SUBSET Components,
                               theirs : SUBSET Components]]
    /\ installers \in [Components -> SUBSET ((Names \cup {Platform}) \X Nat)]
    /\ writes \in Nat
    /\ pc \in Steps /\ opts \in Options
    /\ live \in Nat /\ rev \in Nat
    /\ uninspected \subseteq Names
    /\ evidence \in [Names -> [uid : Nat, rv : Nat]]
    /\ result \in Results
    /\ effects \subseteq {"helm", "removal", "apply"}
    /\ stood \subseteq (Names \cup {Platform}) \X Components
    /\ stoodRun \subseteq (Names \cup {Platform}) \X Components

\* <<n, c>>: policy n manages c; <<Platform, c>>: somebody else installs c.
Facts ==
    {f \in (Names \cup {Platform}) \X Components :
        IF f[1] = Platform THEN PlatformOwner \in installers[f[2]]
                           ELSE f[2] \in Sections(f[1])}

\* Earlier runs may have left a release and policies.
Init ==
    /\ release \in {[status |-> "absent", chart |-> NoChart, rev |-> 0]}
         \cup [status : {"deployed"}, chart : Charts, rev : {0}]
    /\ policies \in [Names -> {Absent} \cup
                     [uid : {1}, rv : {1}, mine : SUBSET Components,
                      theirs : {{}}]]
    /\ installers \in [Components -> {{}, {PlatformOwner}}]
    /\ writes = 1
    /\ pc = "ownership" /\ live = 0 /\ rev = 0
    /\ opts \in Runs
    /\ uninspected = {} /\ evidence = [n \in Names |-> NoEvidence]
    /\ result = "none" /\ effects = {}
    /\ stood = Facts /\ stoodRun = Facts

-----------------------------------------------------------------------------
clusterVars == <<release, policies, installers, writes>>
runVars     == <<opts, live, rev, uninspected, evidence>>

\* The facts that still hold since the phase, and since the run, began.
History ==
    LET phase == pc' # pc /\ pc' \in {"preflight", "policyRead"}
    IN  /\ stood' = IF phase THEN Facts' ELSE stood \cap Facts'
        /\ stoodRun' = stoodRun \cap Facts'

\* A step of the command that only reads.
Goto(step) ==
    /\ pc' = step
    /\ UNCHANGED <<clusterVars, runVars, result, effects>>
    /\ History

\* The command returns; what it had read goes with it.
Exit(r) ==
    /\ pc' = "done" /\ result' = r
    /\ live' = 0 /\ rev' = 0 /\ uninspected' = {}
    /\ evidence' = [n \in Names |-> NoEvidence]
    /\ UNCHANGED opts

Finish(r) == Exit(r) /\ UNCHANGED <<clusterVars, effects>> /\ History

-----------------------------------------------------------------------------
(* secondarynetwork.CheckPolicy: read the live policy, then the installers. *)

\* A section the live policy manages and the bundle does not is never removed.
KeepsManaged ==
    ~opts.bundled \/ ~Exists(Policy) \/ Sections(Policy) \subseteq opts.renders

\* The observation Inspect derives from the recognized DaemonSets of c.
NotDetected(c) == installers[c] = {}
External(c)    == installers[c] = {PlatformOwner}

\* What a bundle that manages c, or leaves it to the platform, requires.
MayManage(c) ==
    \/ NotDetected(c)
    \/ /\ Exists(Policy) /\ live = policies[Policy].uid
       /\ installers[c] = {Owner(Policy, live)}
MayRelyOnPlatform(c) == NotDetected(c) \/ External(c)

\* Mutant: the check before the apply trusts the one before Helm.
OwnershipAgreedOnce ==
    \/ ~opts.bundled \/ pc = "policyInspect"
    \/ \A c \in Components : IF c \in opts.renders THEN MayManage(c)
                            ELSE MayRelyOnPlatform(c)

OwnershipAgrees ==
    ~opts.bundled
        \/ \A c \in Components : IF c \in opts.renders THEN MayManage(c)
                                 ELSE MayRelyOnPlatform(c)

\* checkHealth may find the platform's installer unready or misplaced.
Unhealthy == opts.bundled /\ \E c \in Components \ opts.renders : External(c)

CheckPolicyRead ==
    /\ pc \in {"ownership", "policyRead"}
    /\ IF KeepsManaged
       THEN /\ live' = IF opts.bundled THEN policies[Policy].uid ELSE 0
            /\ pc' = IF pc = "ownership" THEN "inspect" ELSE "policyInspect"
            /\ UNCHANGED <<clusterVars, opts, rev, uninspected, evidence,
                           result, effects>>
            /\ History
       ELSE Finish("ownership")

\* Mutant: removals are left to Remediate.
AfterFirstCheckHelm == "helmRead"

AfterFirstCheck == IF opts.overwrite THEN "removals" ELSE "helmRead"

CheckInstallers ==
    \/ pc = "inspect" /\ OwnershipAgrees /\ Goto(AfterFirstCheck)
    \/ pc = "policyInspect" /\ OwnershipAgrees /\ Goto("apply")
    \/ /\ pc \in {"inspect", "policyInspect"}
       /\ ~OwnershipAgrees \/ Unhealthy
       /\ Finish("ownership")

\* The installers cannot be listed: a bundle that manages none goes on with a
\* warning, any other one ends in Stop.
InstallersUnread ==
    /\ opts.bundled /\ opts.renders = {}
    /\ \/ pc = "inspect" /\ Goto(AfterFirstCheck)
       \/ pc = "policyInspect" /\ Goto("apply")

\* preflight.CheckSecondaryNetworkRemovals, before anything is changed.
CheckRemovals ==
    /\ pc = "removals"
    /\ IF \A n \in Strays : Sections(n) = {}
       THEN Goto("helmRead")
       ELSE Finish("ownership")

-----------------------------------------------------------------------------
(* The Helm phase: installOrUpgradeWithLoader.                              *)

\* Mutant: a release that differs is upgraded without being asked.
HelmReadConverges ==
    /\ pc = "helmRead"
    /\ \/ opts.chart = NoChart /\ Goto("preflight")
       \/ opts.chart # NoChart /\ release.status = "pending" /\ Finish("stuck")
       \/ opts.chart # NoChart /\ release.status = "absent" /\ Goto("install")
       \/ /\ opts.chart # NoChart /\ release.status \notin {"pending", "absent"}
          /\ IF release.chart = opts.chart THEN Goto("preflight")
             ELSE Goto("upgrade")

\* At "install" and "upgrade" the chart is still to be loaded: loadChart reads
\* Secrets and downloads, and its failure is Stop.
HelmRead ==
    /\ pc = "helmRead"
    /\ \/ opts.chart = NoChart /\ Goto("preflight")
       \/ opts.chart # NoChart /\ release.status = "pending" /\ Finish("stuck")
       \/ opts.chart # NoChart /\ release.status = "absent" /\ Goto("install")
       \/ /\ opts.chart # NoChart /\ release.status \notin {"pending", "absent"}
          /\ \/ release.chart = opts.chart /\ Goto("preflight")
             \/ /\ release.chart # opts.chart
                /\ IF opts.overwrite THEN Goto("upgrade")
                   ELSE Finish("conflict")

\* Helm refuses to install over a name in use, and to upgrade a release that
\* is pending, absent, or being uninstalled; its dry run writes nothing.
HelmAccepts ==
    \/ pc = "install" /\ release.status = "absent"
    \/ pc = "upgrade" /\ release.status \in {"deployed", "failed"}

\* runInstall or runUpgrade records a pending revision.
HelmBegin ==
    /\ pc \in {"install", "upgrade"} /\ ~opts.dryRun /\ HelmAccepts
    /\ release' = [status |-> "pending", chart |-> opts.chart, rev |-> Fresh]
    /\ writes' = Fresh /\ rev' = Fresh
    /\ pc' = "helmWait" /\ effects' = effects \cup {"helm"}
    /\ UNCHANGED <<policies, installers, opts, live, uninspected,
                   evidence, result>>
    /\ History

HelmRefuses ==
    /\ pc \in {"install", "upgrade"} /\ ~HelmAccepts
    /\ ~(pc = "install" /\ opts.dryRun)
    /\ Finish("helm")

HelmDryRun ==
    /\ pc \in {"install", "upgrade"} /\ opts.dryRun
    /\ pc = "upgrade" => HelmAccepts
    /\ Goto("preflight")

HelmOutcome(ready) == IF ready THEN "deployed" ELSE "failed"

\* Wait ends: the workloads are ready, or the timeout or a cancel came first.
HelmEnd(ready) ==
    /\ pc = "helmWait" /\ release.rev = rev
    /\ release' = [release EXCEPT !.status = HelmOutcome(ready)]
    /\ IF ready THEN pc' = "preflight" /\ UNCHANGED <<runVars, result>>
       ELSE Exit("helm")
    /\ UNCHANGED <<policies, installers, writes, effects>>
    /\ History

\* Another client replaced the revision meanwhile: its record cannot be updated.
HelmLost == pc = "helmWait" /\ release.rev # rev /\ Finish("helm")

-----------------------------------------------------------------------------
(* The preflight phase and Remediate.                                       *)

HelmDrift == /\ opts.chart # NoChart /\ release.status # "absent"
             /\ release.chart # opts.chart

\* A failing List skips its kind, so the strays found may be none.
Preflight(listed) ==
    /\ pc = "preflight"
    /\ listed \in {{n \in Strays : Exists(n)}, {}}
    /\ IF ~opts.overwrite
       THEN IF HelmDrift \/ listed # {} THEN Finish("preflight")
            ELSE Goto("policyRead")
       ELSE /\ uninspected' = listed
            /\ evidence' = [n \in Names |-> NoEvidence]
            /\ pc' = "remediate"
            /\ UNCHANGED <<clusterVars, opts, live, rev, result, effects>>
            /\ History

\* NicClusterPolicy component versions may differ too, or the chart version
\* of a release this run does not manage.
PreflightDrift ==
    /\ pc = "preflight" /\ ~opts.overwrite
    /\ Exists(Policy) \/ (opts.chart = NoChart /\ release.status # "absent")
    /\ Finish("preflight")

\* Every stray is inspected before any is deleted.
InspectStray(n) ==
    /\ pc = "remediate" /\ n \in uninspected
    /\ IF Sections(n) # {}
       THEN Finish("remediation")
       ELSE /\ uninspected' = uninspected \ {n}
            /\ evidence' = [evidence EXCEPT ![n] =
                               [uid |-> policies[n].uid, rv |-> policies[n].rv]]
            /\ UNCHANGED <<clusterVars, pc, opts, live, rev, result,
                           effects>>
            /\ History

StraysInspected ==
    pc = "remediate" /\ uninspected = {} /\ Goto("delete")

\* The strays still to delete: one that had vanished is skipped.
Deletions == {n \in Names : evidence[n].uid # 0}

\* Mutant: a stray is deleted by name.
PreconditionsNone(n) == TRUE

\* Delete with the UID and resource version the inspection saw.
Preconditions(n) ==
    policies[n].uid = evidence[n].uid /\ policies[n].rv = evidence[n].rv

DeleteStray(n) ==
    /\ pc = "delete" /\ n \in Deletions
    /\ IF ~opts.dryRun /\ Exists(n) /\ ~Preconditions(n)
       THEN Finish("remediation")
       ELSE /\ evidence' = [evidence EXCEPT ![n] = NoEvidence]
            /\ IF opts.dryRun \/ ~Exists(n)
               THEN UNCHANGED <<policies, writes, effects>>
               ELSE /\ policies' = [policies EXCEPT ![n] = Absent]
                    /\ writes' = Fresh /\ effects' = effects \cup {"removal"}
            /\ UNCHANGED <<release, installers, pc, opts, live, rev,
                           uninspected, result>>
            /\ History

StraysDeleted == pc = "delete" /\ Deletions = {} /\ Goto("policyRead")

-----------------------------------------------------------------------------
(* Phase 1: server-side apply of the policy, as field owner l8k.            *)

\* The sections l8k owned and no longer renders go; forcing a conflict takes
\* a section over from its former owner.
ApplyPolicy ==
    /\ pc = "apply" /\ opts.bundled /\ ~opts.dryRun
    /\ \E theirs \in {policies[Policy].theirs,
                      policies[Policy].theirs \ opts.renders} :
         policies' = [policies EXCEPT ![Policy] =
            [uid |-> IF Exists(Policy) THEN policies[Policy].uid ELSE Fresh,
             rv |-> Fresh, mine |-> opts.renders, theirs |-> theirs]]
    /\ writes' = Fresh /\ effects' = effects \cup {"apply"}
    /\ pc' = "wait"
    /\ UNCHANGED <<release, installers, runVars, result>>
    /\ History

ApplyNothing ==
    pc = "apply" /\ (~opts.bundled \/ opts.dryRun) /\ Finish("success")

\* pollUntilTerminal: a vanished policy is checked again and applied again.
Wait ==
    /\ pc = "wait"
    /\ IF Exists(Policy) THEN Finish("success") ELSE Goto("policyRead")

\* A read or write fails, the context ends or the process is killed.  In
\* Helm's wait the first two are HelmEnd(FALSE); a kill leaves it pending.
Stop == pc # "done" /\ Finish("stopped")

Command ==
    \/ CheckPolicyRead \/ CheckInstallers \/ InstallersUnread \/ CheckRemovals
    \/ HelmRead \/ HelmBegin \/ HelmRefuses \/ HelmDryRun
    \/ \E ready \in BOOLEAN : HelmEnd(ready)
    \/ HelmLost
    \/ \E listed \in SUBSET Names : Preflight(listed)
    \/ PreflightDrift
    \/ \E n \in Names : InspectStray(n) \/ DeleteStray(n)
    \/ StraysInspected \/ StraysDeleted
    \/ ApplyPolicy \/ ApplyNothing \/ Wait \/ Stop

-----------------------------------------------------------------------------
(* The rest of the cluster, while the command runs.                         *)

Otherwise(unchanged) ==
    /\ pc # "done"
    /\ UNCHANGED <<pc, runVars, result, effects, unchanged>>
    /\ History

\* Another Helm client: an operation begins or ends, a rollback, an uninstall.
OtherHelm ==
    /\ writes < MaxWrites /\ writes' = Fresh
    /\ \/ release' \in [status : Statuses \ {"absent"}, chart : Charts,
                         rev : {Fresh}]
       \/ release' = [status |-> "absent", chart |-> NoChart, rev |-> Fresh]
    /\ Otherwise(<<policies, installers>>)

\* A user creates, edits or deletes a policy, under another field owner.
OtherPolicy(n) ==
    /\ writes < MaxWrites /\ writes' = Fresh
    /\ \/ \E m \in SUBSET policies[n].mine, t \in SUBSET Components :
            policies' = [policies EXCEPT ![n] =
               [uid |-> IF Exists(n) THEN policies[n].uid ELSE Fresh,
                rv |-> Fresh, mine |-> m, theirs |-> t]]
       \/ Exists(n) /\ policies' = [policies EXCEPT ![n] = Absent]
    /\ Otherwise(<<release, installers>>)

\* The operator follows the policies, the platform installs what it likes.
OperatorInstalls(n, c) ==
    /\ Exists(n) /\ c \in Sections(n)
    /\ Owner(n, policies[n].uid) \notin installers[c]
    /\ installers' = [installers EXCEPT ![c] =
                         @ \cup {Owner(n, policies[n].uid)}]
    /\ Otherwise(<<release, policies, writes>>)

OperatorRemoves(c, owner) ==
    /\ owner \in installers[c] /\ owner # PlatformOwner
    /\ policies[owner[1]].uid = owner[2] => c \notin Sections(owner[1])
    /\ installers' = [installers EXCEPT ![c] = @ \ {owner}]
    /\ Otherwise(<<release, policies, writes>>)

PlatformInstaller(c) ==
    /\ installers' = [installers EXCEPT ![c] =
          IF PlatformOwner \in @ THEN @ \ {PlatformOwner}
          ELSE @ \cup {PlatformOwner}]
    /\ Otherwise(<<release, policies, writes>>)

Others ==
    \/ OtherHelm
    \/ \E n \in Names : OtherPolicy(n)
    \/ \E n \in Names, c \in Components : OperatorInstalls(n, c)
    \/ \E c \in Components : PlatformInstaller(c)
    \/ \E c \in Components : \E owner \in installers[c] :
           OperatorRemoves(c, owner)

Next == Command \/ Others
Spec == Init /\ [][Next]_vars

-----------------------------------------------------------------------------
(* Properties.                                                              *)

\* Every step of the command, and no step of another client, changes these.
CommandStep == <<pc, runVars>>' # <<pc, runVars>>

\* The chart or values of an existing release change by a step of l8k only if
\* the user asked for --overwrite-existing without --dry-run, and never while
\* an operation is pending on it, whoever left it pending and whatever the
\* release was when installOrUpgradeWithLoader read it.
ReplacedOnRequest ==
    [][CommandStep /\ release.status # "absent"
                   /\ release'.chart # release.chart
         => /\ opts.overwrite /\ ~opts.dryRun
            /\ release.status # "pending"]_vars

\* No step of l8k takes a managed Multus or CNI section away: neither the
\* deletion of a stray policy that was replaced or edited after Remediate
\* inspected it, nor a server-side apply that renders fewer sections than an
\* earlier run did.
NetworkingKept ==
    [][CommandStep => \A n \in Names : Sections(n) \subseteq Sections(n)']_vars

\* An installer of somebody else that has stood since phase 1 began is never
\* joined by a managed one: applyAndWait repeats the ownership check that ran
\* before Helm, and the re-apply of a vanished policy repeats it once more.
OneInstaller ==
    [][pc = "apply" /\ pc' = "wait"
         => \A c \in opts.renders : <<Platform, c>> \notin stood]_vars

\* The ownership conflicts that have been there since the run began: a stray
\* policy that would be deleted manages a section, the policy manages one the
\* bundle leaves to the platform, or the platform installs what it manages.
StrayBlocks ==
    opts.overwrite /\ \E n \in Strays, c \in Components : <<n, c>> \in stoodRun
PolicyBlocks ==
    opts.bundled /\ \E c \in Components \ opts.renders :
                       <<Policy, c>> \in stoodRun
PlatformBlocks == \E c \in opts.renders : <<Platform, c>> \in stoodRun

\* A run with such a conflict changes nothing at all, not even the Helm
\* release: deploy.go inspects ownership "before Helm or overwrite
\* remediation".
BlockedRunTouchesNothing ==
    StrayBlocks \/ PolicyBlocks \/ PlatformBlocks => effects = {}

=============================================================================

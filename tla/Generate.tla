------------------------------ MODULE Generate ------------------------------
(***************************************************************************)
(* `l8k generate', run after run over the same output directory, and the   *)
(* deployment of what it wrote (pkg/app/generate.go, pkg/app/launcher.go,  *)
(* GenerateProfileDeploymentFiles, pkg/bundle, config.WriteEffectiveConfig,*)
(* pkg/target/host/deploy.go).                                             *)
(*                                                                         *)
(* A run checks its input, plans, renders one template after the other,    *)
(* checks the bundle, removes the files of the directory and writes its    *)
(* own one by one, and the effective configuration last.  A removal or a   *)
(* write may fail, also half way through a file, and the process may be    *)
(* killed anywhere; a later `l8k deploy' reads what is on disk.            *)
(***************************************************************************)
EXTENDS Render

CONSTANTS
    Inputs,      \* the configurations and flags a run may be given
    Nodes,       \* the cluster's nodes, with their labels, pod ranges and addresses
    ServiceApis, \* what the versions of the ServiceCIDR API may answer
    MaxRuns      \* bound: runs of generate

\* A configuration lists its groups and their PFs, and its numbers are numbers.
Listed(groups) ==
    /\ groups \in Seq(ToSet(groups))
    /\ \A g \in ToSet(groups) : g.pfs \in Seq(ToSet(g.pfs))

ASSUME InputsAssumption ==
    \A c \in Inputs :
        /\ {"nv", "naming"} \subseteq DOMAIN c
        /\ c.nv \in [start : Int, mask : Int, offset : Int, gateway : Int, block : Int,
                     first : Int, last : Int, subnets : {c.nv.subnets}]
        /\ Listed(c.groups)

ASSUME NodesAssumption == \A n \in Nodes : n.internal \subseteq Nat

VARIABLES
    run,         \* number of the current run
    cfg,         \* its configuration, <<>> before the first
    phase,       \* "idle", or where the run is
    filtered,    \* the groups the filter left
    plans,       \* the render plan
    subnets,     \* the addresses of every plan
    todo,        \* templates still to render
    results,     \* file name -> documents
    disk,        \* file name -> [docs, conf] in the output directory
    sidecar,     \* the effective configuration on disk, <<>> or <<conf>>
    outcome,     \* "none", "ok" or "failed", of the last run
    applied      \* [doc, conf, by] deployed: conf is the configuration the document was
                 \* rendered from, by the one it was deployed with

generateVars == <<run, cfg, phase, filtered, plans, subnets, todo, results, disk, sidecar,
                  outcome, applied>>

rendering == <<filtered, plans, subnets, todo, results>>

Docs(files) == UNION {files[f] : f \in DOMAIN files}

GenerateInit ==
    /\ run = 0 /\ cfg = <<>> /\ phase = "idle"
    /\ filtered = <<>> /\ plans = <<>> /\ subnets = <<>> /\ todo = <<>> /\ results = <<>>
    /\ disk = <<>> /\ sidecar = <<>> /\ outcome = "none" /\ applied = {}

\* RunContext and executeGeneration start with nothing of an earlier run.
Begin ==
    /\ phase = "idle" /\ run < MaxRuns
    /\ \E in \in Inputs : cfg' = <<in>>
    /\ run' = run + 1 /\ phase' = "check" /\ outcome' = "none"
    /\ filtered' = <<>> /\ plans' = <<>> /\ subnets' = <<>> /\ todo' = <<>> /\ results' = <<>>
    /\ UNCHANGED <<disk, sidecar, applied>>

\* The process ends and its memory with it.
Gone ==
    /\ phase' = "idle" /\ cfg' = <<>>
    /\ filtered' = <<>> /\ plans' = <<>> /\ subnets' = <<>> /\ todo' = <<>> /\ results' = <<>>

Fail == Gone /\ outcome' = "failed" /\ UNCHANGED <<run, disk, sidecar, applied>>

\* Everything that is refused before anything is rendered.
Acceptable(c) ==
    LET kept == applyGroupFilter(c.groups, c.ids, c.gpuType) IN
    /\ ValidateClusterConfigIdentifiers(c.groups)
    /\ kept.ok
    /\ validateNvIpam(c.nv) /\ ValidateNvIpamStartingGateway(c.nv, {})
    /\ c.namespaces # <<>> /\ c.nv.block > 0
    /\ c.tuning => validateNicConfigurationScope(kept.value)
    /\ c.ocp => \A g \in ToSet(kept.value) : g.workers # {} /\ g.label # <<>>

\* A single source keeps its names: no naming template.
NamingKept(c, groups) ==
    c.naming /\ ~(Len(groups) = 1 /\ ~requiresRdmaSharedInterfaceNames(c, groups[1]))

\* The configuration the run goes on with.
WithDefaults(c, kept) ==
    [c EXCEPT !.nv = ApplyNvIpamDefaults(@, {}), !.naming = NamingKept(c, kept)]

CheckInput ==
    /\ phase = "check"
    /\ \/ ~Acceptable(cfg[1]) /\ Fail
       \/ /\ Acceptable(cfg[1])
          /\ LET kept == applyGroupFilter(cfg[1].groups, cfg[1].ids, cfg[1].gpuType).value IN
             /\ filtered' = kept
             /\ cfg' = <<WithDefaults(cfg[1], kept)>>
          /\ phase' = "plan"
          /\ UNCHANGED <<run, plans, subnets, todo, results, disk, sidecar, outcome, applied>>

\* The profile's templates; the user's workload replaces the example one.
Templates(c) ==
    SelectSeq(<<"values", "NicClusterPolicy", "IPPool", "NicInterfaceNameTemplate",
                "SriovNetworkPoolConfig", "SriovNetworkNodePolicy", "Network",
                "SecurityContextConstraints", "DaemonSet">>,
              LAMBDA k : /\ k = "DaemonSet" => ~c.workload
                         /\ k = "SecurityContextConstraints" => c.ocp)

Plan ==
    /\ phase = "plan"
    /\ LET made == planRender(cfg[1].groups, filtered)
           ready == IF cfg[1].ocp THEN disambiguateOCPSameGPUBuckets(made) ELSE made
           given == preallocatePlanSubnets(cfg[1], ready)
       IN  \/ ~given.ok /\ Fail
           \/ /\ given.ok
              /\ plans' = ready /\ subnets' = given.value /\ todo' = Templates(cfg[1])
              /\ phase' = "render"
              /\ UNCHANGED <<run, cfg, filtered, results, disk, sidecar, outcome, applied>>

\* Files rendered now replace those of the same name.
WithFiles(new, old) ==
    [f \in DOMAIN new \cup DOMAIN old |-> IF f \in DOMAIN new THEN new[f] ELSE old[f]]

RenderTemplate ==
    /\ phase = "render" /\ todo # <<>>
    /\ LET files == renderForScope(cfg[1], Head(todo), plans, subnets) IN
       \/ ~files.ok /\ Fail
       \/ /\ files.ok
          /\ results' = WithFiles(files.value, results) /\ todo' = Tail(todo)
          /\ UNCHANGED <<run, cfg, phase, filtered, plans, subnets, disk, sidecar, outcome, applied>>

RenderWorkload ==
    /\ phase = "render" /\ todo = <<>>
    /\ LET files == IF cfg[1].workload THEN WorkloadFiles(cfg[1], plans) ELSE Done(<<>>) IN
       \/ ~files.ok /\ Fail
       \/ /\ files.ok
          /\ results' = WithFiles(files.value, results) /\ phase' = "bundle"
          /\ UNCHANGED <<run, cfg, filtered, plans, subnets, todo, disk, sidecar, outcome, applied>>

\* The identity of an object within a bundle.
Ref(doc) == <<doc.kind, doc.id, doc.rail, doc.ns>>

\* A bundle declares no object twice.
FromFiles(files) ==
    \A f, g \in DOMAIN files : \A d \in files[f], e \in files[g] :
        Ref(d) = Ref(e) => f = g /\ d = e

Pools(files) == {[kind |-> "IPPool", subnet |-> d.subnet[1]] :
                    d \in {e \in Docs(files) : e.kind = "IPPool"}}

Assemble ==
    /\ phase = "bundle"
    /\ LET good == FromFiles(results)
                     /\ CheckConfiguredIPPoolCIDRs(Pools(results), cfg[1].cluster)
       IN  \/ ~good /\ Fail
           \/ /\ good
              /\ phase' = "clean"
              /\ UNCHANGED <<run, cfg, disk, sidecar, outcome, applied>> /\ UNCHANGED rendering

\* Mutant: files of an earlier run that this one does not write stay.
KeepDirectory ==
    /\ phase = "clean" /\ phase' = "save"
    /\ UNCHANGED <<run, cfg, disk, sidecar, outcome, applied>> /\ UNCHANGED rendering

\* RemoveAll takes the files of the manifests' own directory one by one, in one
\* order, and goes on past one that it cannot remove before it fails; MkdirAll
\* may fail too.
CleanDirectory ==
    /\ phase = "clean"
    /\ \/ Fail
       \/ /\ \E stuck \in DOMAIN disk : disk' = [g \in {stuck} |-> disk[g]]
          /\ Gone /\ outcome' = "failed" /\ UNCHANGED <<run, sidecar, applied>>
       \/ /\ DOMAIN disk # {}
          /\ LET f == CHOOSE g \in DOMAIN disk : TRUE IN
             disk' = [g \in DOMAIN disk \ {f} |-> disk[g]]
          /\ UNCHANGED <<run, cfg, phase, sidecar, outcome, applied>> /\ UNCHANGED rendering
       \/ /\ DOMAIN disk = {} /\ phase' = "save"
          /\ UNCHANGED <<run, cfg, disk, sidecar, outcome, applied>> /\ UNCHANGED rendering

\* What a deployment needs of a run's configuration.
Conf == [run |-> run, groups |-> cfg[1].groups, cluster |-> cfg[1].cluster]

\* The files are written one by one, in one order (by name in the code).
Unwritten == {f \in DOMAIN results : ~(f \in DOMAIN disk /\ disk[f].conf.run = run)}

\* The file the loop is at, and the directory with some documents in it.
Writing == CHOOSE f \in Unwritten : TRUE
Written(docs) ==
    [g \in DOMAIN disk \cup {Writing} |->
        IF g = Writing THEN [docs |-> docs, conf |-> Conf] ELSE disk[g]]

SaveFile ==
    /\ phase = "save" /\ Unwritten # {}
    /\ \/ Fail
       \/ /\ disk' = Written(results[Writing])
          /\ UNCHANGED <<run, cfg, phase, sidecar, outcome, applied>> /\ UNCHANGED rendering

\* WriteFile truncates before it writes: an error or a kill in between leaves the
\* documents before the cut (a document cut in two is refused when it is loaded).
CutFile ==
    /\ phase = "save" /\ Unwritten # {}
    /\ \E docs \in SUBSET results[Writing] : disk' = Written(docs)
    /\ Gone /\ outcome' = "failed" /\ UNCHANGED <<run, sidecar, applied>>

\* The effective configuration is renamed into place after the manifests.
WriteEffectiveConfig ==
    /\ phase = "save" /\ Unwritten = {}
    /\ \/ Fail
       \/ /\ sidecar' = <<Conf>>
          /\ \/ /\ cfg[1].deploy /\ phase' = "deploy"
                /\ UNCHANGED <<cfg, outcome>> /\ UNCHANGED rendering
             \/ ~cfg[1].deploy /\ Gone /\ outcome' = "ok"
          /\ UNCHANGED <<run, disk, applied>>

\* checkBundleTargetScopes, before anything is applied.
checkBundleTargetScopes(docs, groups) ==
    \A d \in docs : inspectDesiredTargetScope(d, groups, Nodes)

\* No configuration beside the manifests.
NoConf == [run |-> 0, groups |-> <<>>, cluster |-> [pods |-> {}, services |-> {}]]

\* The cluster's nodes are listed, or the list fails.
NodeReads == {Done(Nodes), Refused}

\* The first checks of applyBundleWithInstaller: addresses, then targets.
DeployAccepts(files, conf, apis, nodes) ==
    /\ checkLiveIPPoolCIDRs(Pools(files), conf.cluster, apis, nodes)
    /\ nodes.ok /\ checkBundleTargetScopes(Docs(files), conf.groups)

\* The deploy phase of the same run takes the bundle from memory.
DeployGenerated ==
    /\ phase = "deploy"
    /\ \E apis \in ServiceApis, nodes \in NodeReads :
         \/ ~DeployAccepts(results, Conf, apis, nodes) /\ Fail
         \/ /\ DeployAccepts(results, Conf, apis, nodes)
            /\ applied' = {[doc |-> d, conf |-> Conf, by |-> Conf] : d \in Docs(results)}
            /\ Gone /\ outcome' = "ok" /\ UNCHANGED <<run, disk, sidecar>>

\* The configuration found beside the manifests, of whichever run.
LoadUserConfig == IF sidecar = <<>> THEN NoConf ELSE sidecar[1]

\* `l8k deploy' in a process of its own: manifests and sidecar from disk.
DeploySaved ==
    /\ phase = "idle" /\ disk # <<>>
    /\ \E apis \in ServiceApis, nodes \in NodeReads :
         DeployAccepts([f \in DOMAIN disk |-> disk[f].docs], LoadUserConfig, apis, nodes)
    /\ applied' = UNION {{[doc |-> d, conf |-> disk[f].conf, by |-> LoadUserConfig]
                            : d \in disk[f].docs} : f \in DOMAIN disk}
    /\ UNCHANGED <<run, cfg, phase, disk, sidecar, outcome>> /\ UNCHANGED rendering

\* The process dies; what it wrote stays.
Kill == phase # "idle" /\ Fail

GenerateNext ==
    \/ Begin \/ CheckInput \/ Plan \/ RenderTemplate \/ RenderWorkload \/ Assemble
    \/ CleanDirectory \/ SaveFile \/ CutFile \/ WriteEffectiveConfig
    \/ DeployGenerated \/ DeploySaved \/ Kill

GenerateSpec == GenerateInit /\ [][GenerateNext]_generateVars

-----------------------------------------------------------------------------

(* Whatever was interrupted, the directory never mixes files of two runs:  *)
(* a deployment reads one run's manifests, or part of them                 *)
(* (saveDeploymentBundle empties the directory before the first write).    *)
FilesOfOneRun == \A f, g \in DOMAIN disk : disk[f].conf.run = disk[g].conf.run

\* The selector is exactly the workers of the sources the document names, and
\* none of another group; nothing is claimed when the sources list no workers.
InScope(doc, groups) ==
    LET mine     == {g \in ToSet(groups) : g.id \in doc.sources}
        intended == UNION {g.workers : g \in mine}
    IN  intended # {} =>
          /\ SelectedNodes(doc, Nodes) = intended
          /\ \A g \in ToSet(groups) \ mine : g.workers \cap SelectedNodes(doc, Nodes) = {}

(* A policy or pool that reaches the cluster, from memory or from a        *)
(* directory a later run left half emptied, deployed with the effective    *)
(* configuration of its own run, selects exactly the workers of the groups *)
(* it was rendered for, however these were filtered, merged and selected   *)
(* by GPU or machine label (annotateTargetSources at render time,          *)
(* checkBundleTargetScopes at deploy time).  A directory left half written *)
(* has no configuration of its own run yet: nothing is claimed of it.      *)
AppliedInScope ==
    \A a \in applied :
        hasTargetScope(a.doc) /\ a.by.run = a.conf.run => InScope(a.doc, a.conf.groups)

(* The pools of one run hand out disjoint addresses, each with its gateway *)
(* among its own hosts and its reserved ranges inside it with an address   *)
(* to spare, whatever the buckets and rails the addresses are cut for      *)
(* (preallocatePlanSubnets, GenerateSubnetsWithGateway,                    *)
(* ApplyReservedExclusions).                                               *)
PoolsDisjoint ==
    phase \in {"clean", "save", "deploy"} /\ cfg[1].nv.subnets = <<>> =>
      LET pools == {d \in Docs(results) : d.kind = "IPPool"} IN
      /\ \A p, q \in pools : p # q => ~Overlaps(p.subnet[1], q.subnet[1])
      /\ \A p \in pools :
           LET s == p.subnet[1]
               block == Network(s)..Broadcast(s)
               held == UNION {s.exclusions[k].lo..s.exclusions[k].hi :
                                  k \in DOMAIN s.exclusions}
           IN  /\ s.gateway \in block \ {Network(s), Broadcast(s)}
               /\ held \subseteq block /\ held # block

(* No pool that is deployed, be it with the effective configuration of     *)
(* another run beside it, holds an address of a node or meets a range that *)
(* was configured when it was rendered or is configured when it is         *)
(* deployed (CheckConfiguredIPPoolCIDRs before the files are written,      *)
(* checkLiveIPPoolCIDRs before they are applied).                          *)
DeployedPoolsClear ==
    \A a \in applied : a.doc.kind = "IPPool" =>
        LET s == a.doc.subnet[1] IN
        /\ \A n \in Nodes : \A ip \in n.internal : ~(Network(s) <= ip /\ ip <= Broadcast(s))
        /\ \A r \in configuredCIDRs(a.conf.cluster) \cup configuredCIDRs(a.by.cluster) :
              ~Overlaps(s, r)

=============================================================================

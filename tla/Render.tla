------------------------------- MODULE Render -------------------------------
(***************************************************************************)
(* What `l8k generate' renders: the groups of the inventory are filtered,  *)
(* put into buckets of one GPU type and one number of rails, and each      *)
(* template of the profile is rendered at the scope of its Kind            *)
(* (pkg/networkoperatorplugin: render_plan.go, templates.go, scopes.go,    *)
(* workload.go, target_scope.go).                                          *)
(*                                                                         *)
(* A group is [id, machine, gpu, label, pfs, workers, netplan]; a PF is    *)
(* [nic, fn, rail, ew, gpu, named].  An identifier is a tuple of parts     *)
(* (<<>> is the empty one, labels too), a missing type is "" and a missing *)
(* number -1.                                                              *)
(* A rendered document is a record of its kind, name, namespace, the nodes *)
(* its selector names and the devices, addresses or networks it lists.     *)
(***************************************************************************)
EXTENDS Ipam, Lists

CONSTANT Sanitized(_)     \* SanitizeIdentifier of a GPU type: not injective

First(s) == IF s = <<>> THEN <<>> ELSE <<s[1]>>

-----------------------------------------------------------------------------
(* PFs, NICs and rails.                                                    *)

FilterEastWestPFs(pfs) == Pick(pfs, Sorted({i \in DOMAIN pfs : pfs[i].ew}))
Rails(g) == Len(FilterEastWestPFs(g.pfs))
Pci(pf) == <<pf.nic, pf.fn>>
PciLess(p, q) == p.nic < q.nic \/ (p.nic = q.nic /\ p.fn < q.fn)

GPUResourceCountForPFs(pfs) ==
    LET known == {p.gpu : p \in {q \in ToSet(FilterEastWestPFs(pfs)) : q.gpu >= 0}} IN
    IF known = {} THEN 1 ELSE Max(known) + 1

gpuResourceCountForGroups(groups) ==
    Max({GPUResourceCountForPFs(groups[i].pfs) : i \in DOMAIN groups} \cup {1})

allHaveRail(pfs) == pfs # <<>> /\ \A i \in DOMAIN pfs : pfs[i].rail >= 0

\* The rails in ascending order, each with its PFs in input order.
groupPFsByRail(pfs) ==
    LET rails == {pfs[i].rail : i \in DOMAIN pfs}
        order == SetToSortSeq(rails, LAMBDA a, b : a < b)
    IN  [k \in DOMAIN order |-> SelectSeq(pfs, LAMBDA p : p.rail = order[k])]

\* The lowest function of every NIC, NICs in first-seen order.
masterPFsByNIC(pfs) ==
    LET firsts == Sorted({i \in DOMAIN pfs : \A j \in 1..(i - 1) : pfs[j].nic # pfs[i].nic})
    IN  [k \in DOMAIN firsts |->
            LET nic == pfs[firsts[k]].nic IN
            <<nic, Min({p.fn : p \in {q \in ToSet(pfs) : q.nic = nic}})>>]

railPciGroups(pfs, planes) ==
    LET ew == FilterEastWestPFs(pfs)
        n == IF planes < 1 THEN 1 ELSE planes
        rails == groupPFsByRail(ew)
    IN  IF allHaveRail(ew)
        THEN [k \in DOMAIN rails |-> masterPFsByNIC(rails[k])]
        ELSE [k \in 1..((Len(ew) + n - 1) \div n) |->
                LET part == SubSeq(ew, (k - 1) * n + 1, Min({k * n, Len(ew)})) IN
                [j \in DOMAIN part |-> Pci(part[j])]]

railCount(pfs, planes) ==
    LET ew == FilterEastWestPFs(pfs) IN
    IF allHaveRail(ew) THEN Len(groupPFsByRail(ew))
    ELSE Len(ew) \div Max({planes, 1})

\* The PF of a plane of a rail, or the rail's first, or none.
spectrumXPFForRailPlane(pfs, rail, plane, planes) ==
    LET ew == FilterEastWestPFs(pfs)
        n == Max({planes, 1})
        ofRail == SortSeq(SelectSeq(ew, LAMBDA p : p.rail = rail), PciLess)
        at == rail * n + plane + 1
    IN  IF allHaveRail(ew)
        THEN IF plane + 1 \in DOMAIN ofRail THEN <<ofRail[plane + 1]>> ELSE First(ofRail)
        ELSE IF at <= Len(ew) THEN <<ew[at]>>
        ELSE IF rail * n + 1 <= Len(ew) THEN <<ew[rail * n + 1]>> ELSE <<>>

\* Whole-NIC tuning needs every port of a selected NIC in scope.
validateNicConfigurationScope(groups) ==
    \A i \in DOMAIN groups : \A p, q \in ToSet(groups[i].pfs) :
        p.nic = q.nic => p.ew = q.ew

\* One NIC, one rail; a PF's naming rail, its place once the PFs are sorted by
\* rail (in inventory order when one has none), is its inventory rail.
validateInterfaceNamingLayout(g) ==
    LET ew == FilterEastWestPFs(g.pfs) IN
    /\ \A i, j \in DOMAIN ew : ew[i].nic = ew[j].nic => i = j
    /\ IF allHaveRail(ew) THEN {p.rail : p \in ToSet(ew)} = 0..(Len(ew) - 1)
       ELSE \A i \in DOMAIN ew : ew[i].rail \in {-1, i - 1}

requiresRdmaSharedInterfaceNames(cfg, g) ==
    /\ cfg.deployment = "rdma_shared"
    /\ \E p \in ToSet(g.pfs) : p.ew /\ ~p.named

-----------------------------------------------------------------------------
(* Filter and render plan.                                                 *)

ValidateClusterConfigIdentifiers(groups) ==
    \A i, j \in DOMAIN groups : groups[i].id = groups[j].id => i = j

\* --groups names identifiers, all of which must exist; --gpu-type a type.
applyGroupFilter(groups, ids, gpuType) ==
    LET byId == Pick(groups, Sorted({i \in DOMAIN groups : groups[i].id \in ids}))
        byGpu == Pick(groups, Sorted({i \in DOMAIN groups : groups[i].gpu = gpuType}))
        known == {groups[i].id : i \in DOMAIN groups}
    IN  IF ids = {} /\ gpuType = "" THEN Done(groups)
        ELSE IF ids # {} /\ gpuType # "" THEN Refused
        ELSE IF ids # {} THEN IF ids \subseteq known THEN Done(byId) ELSE Refused
        ELSE IF byGpu = <<>> THEN Refused ELSE Done(byGpu)

\* A group without a GPU type is a bucket of its own.
keyFor(groups, i) ==
    [gpu |-> IF groups[i].gpu = "" THEN <<"empty", i>> ELSE <<groups[i].gpu>>,
     rails |-> Rails(groups[i])]

\* The groups of a bucket, in input order.
bucketize(groups, key) ==
    Pick(groups, Sorted({i \in DOMAIN groups : keyFor(groups, i) = key}))

\* The keys in order of first occurrence.
bucketizeOrdered(groups) ==
    LET firsts == Sorted({i \in DOMAIN groups :
                     \A j \in 1..(i - 1) : keyFor(groups, j) # keyFor(groups, i)})
    IN  [k \in DOMAIN firsts |-> keyFor(groups, firsts[k])]

Count(s, id) == Len(SelectSeq(s, LAMBDA g : g.id = id))
sourceIdentitySetEqual(a, b) ==
    /\ Len(a) = Len(b)
    /\ \A g \in ToSet(a) \cup ToSet(b) : Count(a, g.id) = Count(b, g.id)

\* A PCI address at two rails of the groups to merge.
hasRailPciConflict(sources) ==
    \E i, j \in DOMAIN sources :
        \E p \in ToSet(FilterEastWestPFs(sources[i].pfs)),
           q \in ToSet(FilterEastWestPFs(sources[j].pfs)) :
            Pci(p) = Pci(q) /\ p.rail >= 0 /\ q.rail >= 0 /\ p.rail # q.rail

GeneratedGroupIdentifier(machine, gpu) ==
    IF machine = "" \/ gpu = "" THEN <<>> ELSE <<machine, gpu>>

\* The machine label of a source: the recorded one, or the one discovery makes.
SourceMachineLabel(g) ==
    IF g.label # <<>> THEN g.label ELSE GeneratedGroupIdentifier(g.machine, g.gpu)

\* A node selector names the label it reads and the values it accepts.
Everywhere == [key |-> "any", values |-> {}]
SourceSelector(g) ==
    IF g.label = <<>> THEN Everywhere ELSE [key |-> "machine", values |-> {g.label}]

\* One group for the bucket: the first's PFs, everyone's workers, addresses and
\* modules, and the GPU label in place of the machine labels.
buildMergedGroup(sources) ==
    [id |-> <<Sanitized(sources[1].gpu)>>, gpu |-> sources[1].gpu,
     machine |-> sources[1].machine, pfs |-> sources[1].pfs,
     workers |-> UNION {sources[i].workers : i \in DOMAIN sources},
     selector |-> [key |-> "gpu", values |-> {<<sources[1].gpu>>}],
     railPci |-> [r \in 1..Rails(sources[1]) |->
                    {Pci(FilterEastWestPFs(sources[i].pfs)[r]) : i \in DOMAIN sources}]]

\* A source rendered by itself.
AsRendered(g) ==
    [id |-> g.id, gpu |-> g.gpu, machine |-> g.machine, pfs |-> g.pfs,
     workers |-> g.workers, selector |-> SourceSelector(g),
     railPci |-> [r \in 1..Rails(g) |-> {Pci(FilterEastWestPFs(g.pfs)[r])}]]

buildBucketMerged(sources) ==
    IF Len(sources) = 1 THEN AsRendered(sources[1]) ELSE buildMergedGroup(sources)

planRender(original, filtered) ==
    LET order == bucketizeOrdered(filtered) IN
    [k \in DOMAIN order |->
        LET sources == bucketize(filtered, order[k])
            modeB == ~sourceIdentitySetEqual(sources, bucketize(original, order[k]))
            labels == {SourceMachineLabel(g) : g \in ToSet(sources)} \ {<<>>}
        IN  [merged |-> buildBucketMerged(sources), sources |-> sources, modeB |-> modeB,
             labels |-> IF modeB THEN labels ELSE {},
             conflict |-> Len(sources) > 1 /\ hasRailPciConflict(sources)]]

\* OpenShift: buckets whose identifier is shared get the rail count, and a
\* number when that is taken too.
disambiguateOCPSameGPUBuckets(plans) ==
    LET shared(p) == Cardinality({k \in DOMAIN plans : plans[k].merged.id = p.merged.id}) > 1
        taken == {p.merged.id : p \in {q \in ToSet(plans) : ~shared(q)}}
        base(p) == Append(p.merged.id, Rails(p.merged))
        free(p, used) ==
            IF base(p) \notin used THEN base(p)
            ELSE Append(base(p), Min({n \in 2..(Len(plans) + 1) : Append(base(p), n) \notin used}))
        used[k \in 0..Len(plans)] ==
            IF k = 0 THEN taken
            ELSE IF ~shared(plans[k]) THEN used[k - 1]
            ELSE used[k - 1] \cup {free(plans[k], used[k - 1])}
    IN  [k \in DOMAIN plans |->
            IF ~shared(plans[k]) THEN plans[k]
            ELSE [plans[k] EXCEPT !.merged.id = free(plans[k], used[k - 1])]]

\* The subnets a plan needs, and how many the plans before it take.
SubnetCount(cfg, plan) ==
    IF cfg.multirail /\ Rails(plan.merged) > 0 THEN Rails(plan.merged) ELSE 1
SubnetsBefore(cfg, plans, k) ==
    Cardinality(UNION {{<<j, i>> : i \in 1..SubnetCount(cfg, plans[j])} : j \in 1..(k - 1)})

\* One run of addresses over all plans, cut at each plan's count.
preallocatePlanSubnets(cfg, plans) ==
    LET before(k) == SubnetsBefore(cfg, plans, k)
        all == GenerateSubnetsWithGateway(cfg.nv.start, cfg.nv.mask, cfg.nv.offset,
                   before(Len(plans) + 1), cfg.nv.gateway)
        final == ApplyReservedExclusions(all.value, cfg.nv.first, cfg.nv.last)
    IN  IF \/ plans = <<>> \/ cfg.nv.subnets # <<>>
           \/ cfg.nv.start < 0 \/ cfg.nv.mask = 0 \/ cfg.nv.offset = 0
        THEN Done([k \in DOMAIN plans |-> cfg.nv.subnets])
        ELSE IF ~all.ok \/ ~final.ok THEN Refused
        ELSE Done([k \in DOMAIN plans |->
                [i \in 1..SubnetCount(cfg, plans[k]) |-> final.value[before(k) + i]]])

-----------------------------------------------------------------------------
(* Templates.                                                              *)

ScopeForKind(kind) ==
    CASE kind \in {"NicClusterPolicy"} -> "ClusterWide"
      [] kind \in {"SecurityContextConstraints"} -> "PerNetworkNamespace"
      [] kind \in {"IPPool", "DaemonSet"} -> "Aggregate"
      [] kind \in {"Network"} -> "Bucketed"
      [] kind \in {"NicNodePolicy", "SriovNetworkNodePolicy", "SriovNetworkPoolConfig"}
            -> "SimpleSelect"
      [] kind \in {"NicInterfaceNameTemplate", "NicConfigurationTemplate"} -> "PerSource"
      [] OTHER -> "Unknown"

\* The scope of a Kind in a run: OpenShift pools are rendered per bucket.
RenderScope(cfg, kind) ==
    IF cfg.ocp /\ kind = "SriovNetworkPoolConfig" THEN "Bucketed" ELSE ScopeForKind(kind)

\* Network CRs and example DaemonSets are copied into every namespace.
networkNamespacesForKind(cfg, kind) ==
    IF kind \in {"Network", "DaemonSet"} THEN cfg.namespaces ELSE <<cfg.namespaces[1]>>

\* The copies carry their namespace in file and object names.
nsSuffix(namespaces, ns) == IF Len(namespaces) > 1 THEN <<ns>> ELSE <<>>

\* The names a pod asks for: one network per rail, or one for the group.
NetworkNames(cfg, pfs, id, suffix) ==
    IF cfg.multirail
    THEN {<<"rail", p.rail, id, suffix>> : p \in {q \in ToSet(FilterEastWestPFs(pfs)) : q.rail >= 0}}
    ELSE {<<"net", -1, id, suffix>>}

\* OpenShift selects the workers by name.
HostnameSelector(workers) == [key |-> "hostname", values |-> {<<w>> : w \in workers}]

\* The selector of an aggregate: machine labels under mode B, the workers on
\* OpenShift, the group's own otherwise.
AggregateSelector(cfg, plan) ==
    IF cfg.ocp /\ plan.merged.workers # {} THEN HostnameSelector(plan.merged.workers)
    ELSE IF plan.labels # {} THEN [key |-> "machine", values |-> plan.labels]
    ELSE plan.merged.selector

Blank == [kind |-> "", id |-> <<>>, ns |-> <<>>, rail |-> -1, selector |-> Everywhere,
          sources |-> {}, devices |-> {}, byName |-> FALSE, networks |-> {}, subnet |-> <<>>,
          gpus |-> 0]

\* Hardware resources name the sources they were rendered from.
annotateTargetSources(kind, sources) ==
    IF kind \in {"SriovNetworkNodePolicy", "IPPool"} THEN {g.id : g \in ToSet(sources)} ELSE {}

\* An unnamed source can be referred to only when it is the sole one.
SourcesNameable(cfg, kind, sources) ==
    kind \in {"SriovNetworkNodePolicy", "IPPool"} =>
        /\ sources # <<>>
        /\ \A g \in ToSet(sources) : g.id = <<>> => Len(sources) = 1 /\ Len(cfg.groups) = 1

\* A pool for every east-west PF where the profile is multirail.
Ranks(cfg, group) == IF cfg.multirail THEN DOMAIN FilterEastWestPFs(group.pfs) ELSE {1}

\* The documents of one template for one group: rendered per east-west PF where
\* the profile is multirail.  selector, sources and subnets come with the scope.
ProcessTemplate(cfg, kind, group, selector, sources, subnets, suffix, ns) ==
    LET doc == [Blank EXCEPT !.kind = kind, !.id = group.id, !.ns = <<ns>>,
                    !.selector = selector, !.sources = annotateTargetSources(kind, sources)]
        ew == FilterEastWestPFs(group.pfs)
        perRail == cfg.multirail
        ranks == Ranks(cfg, group)
    IN  CASE kind = "IPPool" ->
                {[doc EXCEPT !.rail = IF perRail THEN ew[i].rail ELSE -1,
                             !.subnet = <<subnets[i]>>] : i \in ranks}
          [] kind = "SriovNetworkNodePolicy" ->
                {[doc EXCEPT !.rail = IF perRail THEN ew[i].rail ELSE -1,
                             !.byName = cfg.naming,
                             !.devices = IF perRail THEN group.railPci[i]
                                         ELSE UNION ToSet(group.railPci)] : i \in ranks}
          [] kind = "Network" ->
                {[doc EXCEPT !.networks = NetworkNames(cfg, group.pfs, group.id, suffix)]}
          [] kind = "DaemonSet" ->
                {[doc EXCEPT !.networks = NetworkNames(cfg, group.pfs, group.id, suffix),
                             !.gpus = gpuResourceCountForGroups(sources)]}
          [] kind \in {"NicInterfaceNameTemplate"} /\ ~cfg.naming -> {}
          [] OTHER -> {doc}

\* Everything a template is rendered for, in the order the code renders it.
Renderings(cfg, kind, plans) ==
    LET scope == RenderScope(cfg, kind)
        whole == [id |-> <<>>, pfs |-> <<>>, railPci |-> <<>>]
        item(group, selector, sources, k, suffix, ns) ==
            [group |-> group, selector |-> selector, sources |-> sources, plan |-> k,
             suffix |-> suffix, ns |-> ns]
        nss == IF scope = "PerNetworkNamespace" THEN cfg.namespaces
               ELSE networkNamespacesForKind(cfg, kind)
        current == cfg.namespaces[1]
        perSource(k) == [j \in DOMAIN plans[k].sources |->
            LET g == plans[k].sources[j] IN
            item(AsRendered(g), SourceSelector(g), <<g>>, k, <<>>, current)]
    IN  CASE scope = "PerNetworkNamespace" ->
                [n \in DOMAIN nss |->
                    item(whole, Everywhere, <<>>, 1, nsSuffix(nss, nss[n]), nss[n])]
          [] scope \in {"ClusterWide", "Unknown"} ->
                <<item(whole, Everywhere, <<>>, 1, <<>>, current)>>
          [] scope \in {"Aggregate", "Bucketed"} ->
                LET at == Grid(Len(nss), Len(plans)) IN
                [x \in DOMAIN at |->
                    LET ns == nss[at[x][1]]
                        plan == plans[at[x][2]]
                    IN  item(plan.merged,
                             IF scope = "Aggregate" THEN AggregateSelector(cfg, plan)
                             ELSE Everywhere,
                             plan.sources, at[x][2], nsSuffix(nss, ns), ns)]
          [] scope = "SimpleSelect" ->
                FlattenSeq([k \in DOMAIN plans |->
                    IF plans[k].modeB THEN perSource(k)
                    ELSE <<item(plans[k].merged, plans[k].merged.selector,
                                plans[k].sources, k, <<>>, current)>>])
          [] OTHER -> FlattenSeq([k \in DOMAIN plans |-> perSource(k)])

\* The subnets a rendering is given.
subnetsAt(subnets, k) == IF k \in DOMAIN subnets THEN subnets[k] ELSE <<>>

\* A template's files: a later rendering of the same file name wins, except
\* that OpenShift refuses it for a per-source Kind.  A pool without a subnet is an
\* error of the template.
renderForScope(cfg, kind, plans, subnets) ==
    LET todo == Renderings(cfg, kind, plans)
        file(r) == <<kind, r.group.id, r.suffix>>
        docs(r) == ProcessTemplate(cfg, kind, r.group, r.selector, r.sources,
                       subnetsAt(subnets, r.plan), r.suffix, r.ns)
        filled == {i \in DOMAIN todo : docs(todo[i]) # {}}
        twice == \E i, j \in DOMAIN todo : i # j /\ file(todo[i]) = file(todo[j])
        named == kind = "NicInterfaceNameTemplate" /\ cfg.naming
    IN  IF kind = "values" /\ (cfg.ocp \/ cfg.skipHelm) THEN Done(<<>>)
        ELSE IF \/ \E i \in DOMAIN todo : ~SourcesNameable(cfg, kind, todo[i].sources)
                \/ cfg.ocp /\ ScopeForKind(kind) = "PerSource" /\ twice
                \/ kind = "IPPool" /\ \E i \in DOMAIN todo :
                      ~(Ranks(cfg, todo[i].group) \subseteq DOMAIN subnetsAt(subnets, todo[i].plan))
                \/ named /\ \E g \in UNION {ToSet(plans[k].sources) : k \in DOMAIN plans} :
                              g.netplan \/ ~validateInterfaceNamingLayout(g)
        THEN Refused
        ELSE Done([f \in {file(todo[i]) : i \in filled} |->
                     docs(todo[Max({i \in filled : file(todo[i]) = f})])])

-----------------------------------------------------------------------------
(* The user's own workload.                                                *)

buildNetworkAnnotation(cfg, group, namespaces, ns) ==
    NetworkNames(cfg, group.pfs, group.id,
                 IF cfg.ocp THEN nsSuffix(namespaces, ns) ELSE <<>>)

buildNetworkResources(cfg, group) ==
    IF cfg.multirail
    THEN {p.rail : p \in {q \in ToSet(FilterEastWestPFs(group.pfs)) : q.rail >= 0}}
    ELSE {-1}

\* OpenShift pins the workload to the workers, Kubernetes to the group's label.
WorkloadSelector(cfg, group) ==
    IF cfg.ocp /\ group.workers # {} THEN HostnameSelector(group.workers) ELSE group.selector

patchWorkloadManifest(cfg, group, namespaces, ns) ==
    [Blank EXCEPT !.kind = "Workload", !.id = group.id, !.ns = <<ns>>,
        !.selector = WorkloadSelector(cfg, group),
        !.networks = buildNetworkAnnotation(cfg, group, namespaces, ns),
        !.gpus = Cardinality(buildNetworkResources(cfg, group))]

\* OpenShift patches it for every bucket and namespace, Kubernetes for every
\* group of the configuration in the current namespace.
WorkloadFiles(cfg, plans) ==
    LET groups == IF cfg.ocp THEN [k \in DOMAIN plans |-> plans[k].merged]
                  ELSE [i \in DOMAIN cfg.groups |-> AsRendered(cfg.groups[i])]
        nss == IF cfg.ocp THEN cfg.namespaces ELSE <<cfg.namespaces[1]>>
        at == Grid(Len(nss), Len(groups))
        todo == [x \in DOMAIN at |->
                   LET ns == nss[at[x][1]]
                       group == groups[at[x][2]]
                   IN  [file |-> <<"Workload", group.id, nsSuffix(nss, ns)>>,
                        doc |-> patchWorkloadManifest(cfg, group, nss, ns)]]
    IN  IF \E i, j \in DOMAIN todo : i # j /\ todo[i].file = todo[j].file THEN Refused
        ELSE Done([f \in {todo[i].file : i \in DOMAIN todo} |->
                     {todo[i].doc : i \in {k \in DOMAIN todo : todo[k].file = f}}])

-----------------------------------------------------------------------------
(* The scope a rendered resource was meant for, and the nodes it selects.  *)

hasTargetScope(doc) == doc.kind \in {"SriovNetworkNodePolicy", "IPPool"}

\* The workers of the sources the annotation names; {} when the inventory
\* lists none, in which case the selector cannot be verified.
resolveTargetScope(doc, groups) ==
    LET ids == IF doc.sources # {} THEN doc.sources ELSE {g.id : g \in ToSet(groups)}
        of == {g \in ToSet(groups) : g.id \in ids}
        empty == {g \in of : g.workers = {}}
    IN  IF doc.sources = {} /\ Len(groups) # 1
        THEN IF \E g \in ToSet(groups) : g.workers # {} THEN Refused ELSE Done({})
        ELSE IF \/ ~ValidateClusterConfigIdentifiers(groups)
                \/ \E i, j \in DOMAIN groups : i # j /\ groups[i].workers \cap groups[j].workers # {}
                \/ <<>> \in ids /\ ~(Cardinality(ids) = 1 /\ Len(groups) = 1)
                \/ \E id \in ids : \A g \in of : g.id # id
                \/ empty # {} /\ empty # of
        THEN Refused
        ELSE Done(UNION {g.workers : g \in of})

resourceSelectsNode(selector, node) ==
    CASE selector.key = "any" -> TRUE
      [] selector.key = "machine" -> node.machine \in selector.values
      [] selector.key = "gpu" -> <<node.gpu>> \in selector.values
      [] selector.key = "hostname" -> <<node.name>> \in selector.values

SelectedNodes(doc, nodes) == {n.name : n \in {m \in nodes : resourceSelectsNode(doc.selector, m)}}

\* Mutant: a selector may select more than the intended workers.
ScopeCoversOnly(doc, scope, nodes) ==
    \/ scope = {}
    \/ doc.selector # Everywhere /\ scope \subseteq SelectedNodes(doc, nodes)

checkTargetScope(doc, scope, nodes) ==
    \/ scope = {}
    \/ doc.selector # Everywhere /\ SelectedNodes(doc, nodes) = scope

inspectDesiredTargetScope(doc, groups, nodes) ==
    hasTargetScope(doc) =>
        LET scope == resolveTargetScope(doc, groups) IN
        scope.ok /\ checkTargetScope(doc, scope.value, nodes)
=============================================================================

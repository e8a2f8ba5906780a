------------------------------ MODULE MCValidate ------------------------------
(* One policy, one SR-IOV network, an OpenShift operator configuration and a  *)
(* test DaemonSet; worlds with one thing wrong each.                          *)
EXTENDS Validate

Doc(role, kind, id) == [role |-> role, kind |-> kind, id |-> id, appsV1 |-> TRUE,
    namespace |-> "ns",
    containers |-> <<[name |-> "test-container", doca |-> TRUE, netshoot |-> FALSE],
                     [name |-> "netshoot", doca |-> FALSE, netshoot |-> TRUE]>>]

Policy  == Doc("deployment", "NicClusterPolicy", "ncp")
Network == Doc("deployment", "SriovNetwork", "net")
OpCfg   == Doc("deployment", "OperatorConfig", "opcfg")
Test    == Doc("validation", "DaemonSet", "ds")

Pf(pci, dev) == [pci |-> pci, dev |-> dev, ew |-> TRUE, rail |-> 0]
Preset == [name |-> "a", dir |-> TRUE, topo |-> "ok", machine |-> "m", gpu |-> "g",
           pfs |-> <<Pf(1, 7)>>]
Other  == [Preset EXCEPT !.pfs = <<Pf(1, 7), Pf(2, 7)>>]
Group(pfs, stored) == [machine |-> "m", gpu |-> "g", pfs |-> pfs, stored |-> stored]

V(conn, checks, gpu) == [connectivity |-> conn, checks |-> checks, gpuDirect |-> gpu]

Config == [ocp |-> FALSE, skipHelm |-> FALSE, release |-> TRUE, fabric |-> TRUE,
           routing |-> "source", v |-> V("", <<"icmp", "rping">>, "false"),
           topology |-> <<>>, groups |-> <<Group(<<Pf(1, 7)>>, {})>>]

Topology == <<[workers |-> <<"w1">>, pfs |-> <<[ew |-> TRUE, rail |-> 0, gpu |-> TRUE]>>],
              [workers |-> <<"w2">>, pfs |-> <<[ew |-> TRUE, rail |-> 0, gpu |-> TRUE]>>]>>

Base == [catalogOK |-> TRUE, kubeOK |-> TRUE, dirs |-> {"sub", "dir"}, bundleOK |-> TRUE,
         docs |-> <<Policy, Network, Test>>, explicit |-> "", existing |-> {"cwd"},
         loadErr |-> FALSE, cfg |-> <<Config>>, skipHelm |-> FALSE, reqOcp |-> FALSE,
         overridesOK |-> TRUE, flag |-> "", junit |-> TRUE, report |-> "", wait |-> TRUE,
         clientOK |-> TRUE, values |-> "v",
         root |-> TRUE, presetsDir |-> TRUE, onDisk |-> <<"disk">>,
         trees |-> [root |-> <<Preset>>, disk |-> <<Other>>, embedded |-> <<>>]]

With(c) == [Base EXCEPT !.cfg = <<c>>]

MCInputs ==
    {Base,
     [Base EXCEPT !.flag = "false", !.junit = FALSE],
     [Base EXCEPT !.docs = <<Test>>, !.wait = FALSE],
     [With([Config EXCEPT !.groups = <<Group(<<Pf(1, 8)>>, {})>>]) EXCEPT !.flag = "false"],
     [With([Config EXCEPT !.ocp = TRUE, !.v.checks = <<"gateway">>]) EXCEPT
         !.docs = <<OpCfg, Network, Test>>, !.reqOcp = TRUE],
     [With([Config EXCEPT !.v = V("true", <<"ib_write_bw">>, "true"), !.topology = Topology])
         EXCEPT !.existing = {"effective"}, !.wait = FALSE],
     [With([Config EXCEPT !.v = V("true", <<"ib_write_bw">>, "true")]) EXCEPT !.wait = FALSE],
     [Base EXCEPT !.loadErr = TRUE, !.flag = "false"],
     [Base EXCEPT !.loadErr = TRUE],
     [Base EXCEPT !.existing = {"installed"}],
     [Base EXCEPT !.cfg = <<>>, !.reqOcp = TRUE],
     [Base EXCEPT !.cfg = <<>>, !.existing = {}, !.flag = "false", !.skipHelm = TRUE],
     [Base EXCEPT !.catalogOK = FALSE, !.dirs = {}],
     [Base EXCEPT !.docs = <<Policy>>],
     [Base EXCEPT !.clientOK = FALSE, !.report = "-"],
     [With([Config EXCEPT !.fabric = FALSE]) EXCEPT !.report = "file"],
     [Base EXCEPT !.root = FALSE, !.flag = "false"],
     [Base EXCEPT !.presetsDir = FALSE, !.flag = "false"],
     [Base EXCEPT !.overridesOK = FALSE]}

Live(owner, state, nad) ==
    [i \in {"ncp", "net", "opcfg"} |->
       [owner |-> owner, get |-> "ok", merge |-> "same", scope |-> "ok",
        state |-> IF i = "net" THEN state ELSE Success, nad |-> nad]]

Secret(name, rev, app) == [helm |-> TRUE, ours |-> TRUE, name |-> name, rev |-> rev, app |-> app]

Sound == [secrets |-> {Secret("network-operator", 9, "old"), Secret("network-operator", 10, "app"),
                       Secret("my-network-operator", 11, "old")},
          ncps |-> <<<<[kind |-> "component", version |-> "c"], [kind |-> "doca", version |-> "d"],
                       [kind |-> "component", version |-> ""]>>>>,
          nnps |-> <<<<[kind |-> "doca", version |-> "d"]>>>>,
          values |-> "v", strays |-> FALSE, live |-> Live("managed", Success, "ok")]

MCExpected == [component |-> "c", doca |-> "d", app |-> "app"]

MCWorlds ==
    {Sound,
     [Sound EXCEPT !.live = Live("managed", Progress, "ok")],
     [Sound EXCEPT !.live = Live("unverified", Progress, "absent")],
     [Sound EXCEPT !.live = Live("unreadable", Success, "ok")],
     [Sound EXCEPT !.live = Live("progressing", Success, "wrong")],
     [Sound EXCEPT !.live = Live("managed", Missing, "absent")],
     [Sound EXCEPT !.live["net"].scope = "bad"],
     [Sound EXCEPT !.live["opcfg"].merge = "differs"],
     [Sound EXCEPT !.secrets = {Secret("network-operator", 9, "app"),
                                Secret("network-operator", 10, "old")}],
     [Sound EXCEPT !.secrets = {Secret("my-network-operator", 1, "app"),
                                Secret("old-network-operator", 2, "app")}],
     [Sound EXCEPT !.secrets = {Secret("my-network-operator", 1, "corrupt")}],
     [Sound EXCEPT !.nnps = <<<<[kind |-> "doca", version |-> "c"]>>>>],
     [Sound EXCEPT !.ncps = <<>>, !.values = "other"],
     [Sound EXCEPT !.strays = TRUE],
     [Sound EXCEPT !.strays = TRUE, !.live = Live("managed", Progress, "ok")]}

-----------------------------------------------------------------------------
(* Preset functions against what their callers rely on, for every preset and  *)
(* every group of up to two PFs over three addresses.                         *)

PfLists == UNION {[1..n -> {[pci |-> a, dev |-> d, ew |-> e, rail |-> a] :
                              a \in 1..3, d \in {7, 8}, e \in {TRUE}}] : n \in 0..2}
Distinct(pfs) == \A i, j \in DOMAIN pfs : i # j => pfs[i].pci # pfs[j].pci

\* "ApplyPreset enforces the invariant itself": a group without a topology
\* deviation gets the preset's rails, and one that gets them differs in device
\* IDs at most.
ASSUME EnrichmentFollowsValidation ==
    \A preset, pfs \in {l \in PfLists : Distinct(l)} :
        LET d == ValidatePreset(preset, pfs)
            a == ApplyPreset(preset, pfs)
        IN  /\ ~HasTopologyDeviation(d) => a.applied
            /\ a.applied => \A x \in d : x.field = "deviceID"
            /\ ~a.applied => a.pfs = pfs

\* The report marks an actual row exactly when a deviation names its address,
\* and an expected row exactly when a deviation names that one.
ASSUME MarkersShowDeviations ==
    \A preset, pfs \in {l \in PfLists : Distinct(l)} :
        LET res == MatchGroupWithCatalog(Group(pfs, {}), <<[Preset EXCEPT !.pfs = preset]>>)
            m == applyPlatformTopologyMarkers(Group(pfs, {}), res)
            named(f, at) == [field |-> f, at |-> at] \in res.deviations
        IN  /\ m.actual = {a \in 1..3 : named("pciAddress", -a) \/ named("deviceID", a)}
            /\ m.expected = {a \in 1..3 : named("pciAddress", a) \/ named("deviceID", a)}
            /\ m.count = named("pfCount", 0)

\* A directory that loads by name is the one that matches its machine and GPU,
\* unless an earlier directory claims them too.
ASSUME DirectoriesLoadAsTheyMatch ==
    \A x, y \in {[Preset EXCEPT !.name = n, !.topo = t, !.gpu = g] :
                    n \in {"a", "b"}, t \in {"ok", "absent", "broken"}, g \in {"", "g"}} :
        LET tree == <<[x EXCEPT !.name = "a"], [y EXCEPT !.name = "b"]>>
            hit  == LoadPreset(tree, "m", "g")
        IN  /\ hit # <<>> => LoadPresetByDir(tree, hit[1].name) = "found"
            /\ hit = <<>> => \A n \in {"a", "b"} : LoadPresetByDir(tree, n) # "found"

=============================================================================

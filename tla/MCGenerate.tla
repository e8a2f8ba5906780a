----------------------------- MODULE MCGenerate -----------------------------
(* Instances of Generate: five kinds of group over four workers.           *)
EXTENDS Generate

PF(nic, fn, rail, ew) ==
    [nic |-> nic, fn |-> fn, rail |-> rail, ew |-> ew, gpu |-> rail, named |-> TRUE]
Group(name, gpu, pfs, workers) ==
    [id |-> <<name>>, machine |-> name, gpu |-> gpu, label |-> <<name, gpu>>, pfs |-> pfs,
     workers |-> workers, netplan |-> FALSE]

TwoRails == <<PF(1, 0, 0, TRUE), PF(2, 0, 1, TRUE), PF(9, 0, -1, FALSE)>>
Swapped == <<PF(2, 0, 0, TRUE), PF(1, 0, 1, TRUE)>>
Backward == <<PF(2, 0, 1, TRUE), PF(1, 0, 0, TRUE)>>
OneRail == <<PF(3, 0, 0, TRUE)>>
DualPort == <<PF(1, 0, 0, TRUE), PF(1, 1, 1, TRUE)>>

GroupA == Group("a", "h100", TwoRails, {"n1"})
GroupB == Group("b", "h100", TwoRails, {"n2"})
WideB == [GroupB EXCEPT !.workers = {"n2", "n4"}]
BareA == [GroupA EXCEPT !.workers = {}]
BareB == [GroupB EXCEPT !.workers = {}]
GroupD == Group("d", "h100", OneRail, {"n4"})
NoGpu == [Group("c", "", OneRail, {"n3"}) EXCEPT !.label = <<"c">>]
MixedB == [GroupB EXCEPT !.pfs = Swapped]
DualB == [GroupB EXCEPT !.pfs = DualPort]
ManagedB == [GroupB EXCEPT !.netplan = TRUE]
ClosePorts == [GroupA EXCEPT !.pfs = <<PF(1, 0, 0, TRUE), PF(1, 1, -1, FALSE)>>]
H200 == Group("e", "NVIDIA-H100", TwoRails, {"n3"})
H200b == Group("f", "NVIDIA-H100", TwoRails, {"n4"})
Unlabelled == [GroupB EXCEPT !.label = <<>>]

MCSanitized(gpu) == IF gpu = "NVIDIA-H100" THEN "h100" ELSE gpu

Node(name, machine, gpu, pods, internal) ==
    [name |-> name, machine |-> machine, gpu |-> gpu, pods |-> pods, internal |-> internal]
Cidr(net, mask) == [net |-> net, mask |-> mask]

MCNodes ==
    {Node("n1", <<"a", "h100">>, "h100", {Cidr(0, 4)}, {8}),
     Node("n2", <<"b", "h100">>, "h100", {Cidr(4, 4)}, {9}),
     Node("n3", <<"c">>, "other", {}, {}),
     Node("n4", <<"d", "h100">>, "h100", {}, {63})}

Api(state, ranges) == [state |-> state, ranges |-> ranges]
MCServiceApis ==
    {<<Api("served", {Cidr(12, 4)}), Api("absent", {})>>,
     <<Api("absent", {}), Api("served", {Cidr(16, 3)})>>,
     <<Api("served", {}), Api("served", {Cidr(12, 4)})>>,
     <<Api("denied", {}), Api("absent", {})>>,
     <<Api("absent", {}), Api("absent", {})>>}

NoCluster == [pods |-> {}, services |-> {}]
Nv(start, mask, offset, gateway, first, last) ==
    [start |-> start, mask |-> mask, offset |-> offset, gateway |-> gateway, block |-> 2,
     first |-> first, last |-> last, subnets |-> <<>>]
Plain ==
    [groups |-> <<GroupA, GroupB>>, ids |-> {}, gpuType |-> "", ocp |-> FALSE,
     namespaces |-> <<"ns1">>, multirail |-> TRUE, naming |-> FALSE, tuning |-> FALSE,
     deployment |-> "sriov", workload |-> FALSE, skipHelm |-> FALSE, deploy |-> TRUE,
     nv |-> Nv(16, 3, 1, 0, 1, 1), cluster |-> NoCluster]

Manual == [net |-> 40, mask |-> 3, gateway |-> 41, exclusions |-> <<[lo |-> 42, hi |-> 43]>>]

MCInputs ==
    {Plain,
     [Plain EXCEPT !.ids = {<<"a">>}], [Plain EXCEPT !.ids = {<<"zz">>}],
     [Plain EXCEPT !.ids = {<<"a">>}, !.gpuType = "h100"],
     [Plain EXCEPT !.gpuType = "h200"],
     [Plain EXCEPT !.groups = <<GroupA, GroupB, GroupD>>],
     [Plain EXCEPT !.groups = <<GroupA, WideB>>],
     [Plain EXCEPT !.groups = <<BareA, BareB>>], [Plain EXCEPT !.groups = <<GroupA, BareB>>],
     [Plain EXCEPT !.groups = <<GroupA, GroupB, GroupD>>, !.gpuType = "h100", !.multirail = FALSE],
     [Plain EXCEPT !.groups = <<GroupA, GroupB, GroupD>>, !.ids = {<<"a">>, <<"b">>}],
     [Plain EXCEPT !.groups = <<GroupA, NoGpu>>, !.ids = {<<"c">>}],
     [Plain EXCEPT !.groups = <<GroupA, NoGpu>>, !.workload = TRUE],
     [Plain EXCEPT !.groups = <<GroupA, GroupA>>],
     [Plain EXCEPT !.groups = <<GroupA, MixedB>>, !.naming = TRUE],
     [Plain EXCEPT !.groups = <<GroupA, DualB>>, !.naming = TRUE],
     [Plain EXCEPT !.groups = <<[GroupA EXCEPT !.pfs = Backward], NoGpu>>, !.naming = TRUE],
     [Plain EXCEPT !.groups = <<GroupA, ManagedB>>, !.naming = TRUE],
     [Plain EXCEPT !.groups = <<ClosePorts>>, !.tuning = TRUE],
     [Plain EXCEPT !.groups = <<GroupA, Unlabelled>>, !.ids = {<<"b">>}, !.ocp = TRUE],
     [Plain EXCEPT !.groups = <<GroupA, Unlabelled>>, !.ids = {<<"b">>}],
     [Plain EXCEPT !.groups = <<GroupA, GroupB, GroupD>>, !.ocp = TRUE, !.namespaces = <<"ns1", "ns2">>,
                   !.workload = TRUE, !.deploy = FALSE],
     [Plain EXCEPT !.groups = <<GroupA, GroupB, H200, H200b>>, !.ocp = TRUE],
     [Plain EXCEPT !.groups = <<GroupA, GroupD>>, !.ocp = TRUE, !.naming = TRUE],
     [Plain EXCEPT !.namespaces = <<"ns1", "ns2">>, !.skipHelm = TRUE],
     [Plain EXCEPT !.namespaces = <<>>],
     [Plain EXCEPT !.nv = Nv(16, 3, 6, 1, 0, 0)], [Plain EXCEPT !.nv = Nv(17, 3, 1, 1, 0, 0)],
     [Plain EXCEPT !.nv = Nv(16, 3, 1, 7, 0, 0)], [Plain EXCEPT !.nv = Nv(16, 3, 1, 1, 6, 2)],
     [Plain EXCEPT !.nv = Nv(32, 3, 3, 2, 0, 2), !.cluster.pods = {Cidr(8, 3)}],
     [Plain EXCEPT !.nv = Nv(48, 3, 1, 1, 0, 0), !.ids = {<<"a">>}],
     [Plain EXCEPT !.ids = {<<"a">>}, !.nv = Nv(0, 3, 3, 1, 0, 0), !.cluster.services = {Cidr(60, 4)}],
     [Plain EXCEPT !.cluster.services = {Cidr(24, 4)}],
     [Plain EXCEPT !.nv.start = -1], [Plain EXCEPT !.nv.subnets = <<Manual>>],
     [Plain EXCEPT !.nv.subnets = <<Manual, [Manual EXCEPT !.net = 48, !.gateway = 49, !.exclusions = <<>>]>>]}

=============================================================================

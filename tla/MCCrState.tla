------------------------------ MODULE MCCrState ------------------------------
(* Instances of CrState: two devices on two nodes.                         *)
EXTENDS CrState, TLC

Id(node, type, pci) ==
    [node |-> node, type |-> type, pcis |-> {pci}, serial |-> "s", part |-> "p"]
MCDeviceOf == ("d1" :> Id("n1", "cx7", "01")) @@ ("d2" :> Id("n2", "cx7", "02"))

T(sel, body) ==
    [nodeSelector |-> sel, type |-> "cx7", pcis |-> {}, serials |-> {}, parts |-> {},
     payload |-> [reset |-> FALSE, body |-> <<body>>], matched |-> {}]
MCTemplates == {T({"gpu"}, "a"), T({}, "b")}
MCLabelSets == {{}, {"gpu"}}
MCLabellings ==
    [k \in Kind |-> {("n1" :> {"gpu"}) @@ ("n2" :> ls) : ls \in IF k = "sriov" THEN MCLabelSets ELSE {{}}}]

P(names, roots, vendor, device) ==
    [nodeSelector |-> {"gpu"}, pfNames |-> names, rootDevices |-> roots, vendor |-> vendor,
     device |-> device, numVfs |-> 2]
MCPolicies ==
    {P({"p1", "p2"}, {}, "", ""), P({}, {"01", "02"}, "", ""), P({}, {}, "mlx", "1021")}
MCInterfaces ==
    {[name |-> "p1", pci |-> "01", vendor |-> "mlx", device |-> "1021", vfs |-> 0],
     [name |-> "p2", pci |-> "02", vendor |-> "mlx", device |-> "1023", vfs |-> 0]}
MCSpecs == {{"ofedDriver", "tolerations"}, {"ofedDriver", "nvIpam"}, {"multus"}, {"global"}}
MCReports ==
    {<<>>} \cup
    {<<[name |-> "state-OFED", state |-> a], [name |-> "state-multus-cni", state |-> m]>> :
        a \in {"ready", "notReady", "ignore"}, m \in {"ready", "error", "odd"}} \cup
    {<<[name |-> "state-multus-cni", state |-> m], [name |-> "state-OFED", state |-> "ready"],
       [name |-> "state-nv-ipam-cni", state |-> c]>> :
        m \in {"notReady", "ignore"}, c \in {"ready", "notReady", "ignore", "error"}} \cup
    {<<[name |-> "state-OFED", state |-> "ready"], [name |-> c, state |-> "error"]>> :
        c \in {"state-OFED", "", "state-multus-cni"}}
=============================================================================

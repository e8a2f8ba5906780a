----------------------------- MODULE MCSpectrumX -----------------------------
(* Instances of SpectrumX: two or three hosts, in any order of their links. *)
EXTENDS SpectrumX

NoRename(x) == x

\* A node's name is the set of its tokens.
Tok(prefix, n) == [prefix |-> prefix, n |-> n, at |-> 1]
NodeA == {Tok("a", 1)}
NodeB == {Tok("b", 1)}
NodeC == {Tok("c", 1)}
NodeZ == {Tok("z", 1)}

Host(node, pod, su, rail, idx) ==
    <<[node |-> node, plane |-> <<>>, pod |-> pod, su |-> su, rail |-> rail, index |-> idx,
       ordinal |-> <<>>]>>
Leaf(port, plane) == <<[port |-> port, plane |-> plane]>>
Link(host, leaf) == [ends |-> 2, host |-> host, leaf |-> leaf]

PF(nic, rail) == [nic |-> nic, fn |-> 0, rail |-> rail, ew |-> TRUE, gpu |-> rail, named |-> TRUE]
Group(id, platform, pfs, workers) ==
    [id |-> id, gpu |-> "g", platform |-> platform, pfs |-> pfs, workers |-> workers,
     swPlane |-> <<>>, device |-> {"1023"}]
Base(tier, mode, ip) ==
    [tier |-> tier, mode |-> mode, ip |-> ip, planes |-> IF mode = "none" THEN 1 ELSE 2,
     firstOctet |-> 0, siteID |-> 0]
Plan(modeB, sources) == [modeB |-> modeB, sources |-> sources]

\* Both rails of a host on one plane.
Cable(node, pod, su, rails, plane) ==
    [k \in DOMAIN rails |->
        Link(Host(node, pod, su, <<rails[k]>>, <<>>), Leaf(<<node, rails[k], plane>>, <<plane>>))]
Cables(places, rails, planes) ==
    {Cable(p.node, p.pod, p.su, rails, plane) : p \in places, plane \in planes}
Place(node, pod, su) == [node |-> node, pod |-> pod, su |-> su]

TwoPFs == <<PF(1, 0), PF(2, 1)>>
Ga == Group("ga", "gb200", TwoPFs, {NodeA, NodeC})
Gb == Group("gb", "gb200", TwoPFs, {NodeB})
Run(s, places, rails) ==
    [s |-> s, plans |-> <<Plan(TRUE, <<Ga>>), Plan(FALSE, <<Gb>>)>>, cluster |-> <<Ga, Gb>>,
     dospcx |-> FALSE, ovs |-> FALSE, profileOk |-> TRUE, air |-> FALSE,
     blocks |-> Cables(places, rails, IF s.mode = "none" THEN {0} ELSE {0, 1})]

Near == {Place(NodeA, <<0>>, <<0>>), Place(NodeB, <<0>>, <<0>>), Place(NodeC, <<0>>, <<1>>)}
Edge == {Place(NodeA, <<0>>, <<0>>), Place(NodeB, <<0>>, <<63>>), Place(NodeC, <<0>>, <<64>>)}
Pods == {Place(NodeA, <<3>>, <<0>>), Place(NodeB, <<4>>, <<0>>), Place(NodeC, <<31>>, <<63>>)}
Bare == {Place(NodeA, <<>>, <<>>), Place(NodeB, <<>>, <<>>), Place(NodeC, <<>>, <<>>)}

Modes == {"none", "swplb", "hwplb"}
Reference ==
    {Run(Base(t, m, ip), Near, <<0, 1>>) : t \in {2, 3}, m \in Modes, ip \in {"ipv4", "ipv6"}} \cup
    {Run(Base(2, m, "ipv4"), Edge, <<3, 4>>) : m \in Modes} \cup
    {Run(Base(3, m, "ipv4"), Pods, <<6, 7>>) : m \in Modes} \cup
    {Run(Base(2, "hwplb", "ipv4"), Bare, <<0, 8>>), Run(Base(3, "none", "ipv4"), Bare, <<0>>)}

Odd ==
    {[Run(Base(2, "none", "ipv4"), Near, <<0>>) EXCEPT !.blocks = @ \cup {<<l>>}] : l \in
        {[ends |-> 0, host |-> <<>>, leaf |-> <<>>], [ends |-> 1, host |-> <<>>, leaf |-> <<>>],
         Link(<<>>, Leaf(<<NodeZ, 0, 0>>, <<0>>)), Link(Host(NodeA, <<0>>, <<0>>, <<0>>, <<>>), <<>>),
         Link(Host(NodeA, <<0>>, <<0>>, <<>>, <<>>), Leaf(<<NodeZ, 0, 0>>, <<0>>)),
         Link(Host(NodeZ, <<0>>, <<0>>, <<0>>, <<>>), Leaf(<<NodeZ, 0, 0>>, <<0>>))}} \cup
    {[Run(Base(2, "none", "ipv4"), Near, <<0>>) EXCEPT !.s.siteID = 1],
     [Run(Base(2, "none", "ipv4"), Near, <<0>>) EXCEPT !.ovs = TRUE],
     [Run(Base(2, "none", "ipv4"), Near, <<0>>) EXCEPT
        !.plans = <<Plan(TRUE, <<[Ga EXCEPT !.swPlane = (0 :> 1)]>>)>>],
     [Run(Base(2, "hwplb", "ipv4"), Near, <<0, 1>>) EXCEPT !.plans = <<Plan(TRUE, <<Ga, Gb>>)>>]}

-----------------------------------------------------------------------------
(* VR: a block is all links of a host.                                     *)

Bundle(node, idx, planes) ==
    [k \in 1..(4 * Cardinality(planes)) |->
        LET rail == (k - 1) % 4
            plane == (k - 1) \div 4
        IN Link(Host(node, <<0>>, <<1>>, <<rail>>, <<idx>>), Leaf(<<node, rail, plane>>, <<plane>>))]
VrPFs == [n \in 1..8 |-> PF(n, (n - 1) \div 2)]
Gv(id, workers) == Group(id, "vr", VrPFs, workers)
VrRun(ip, sources, modeB, blocks) ==
    [s |-> [Base(2, "hwplb", ip) EXCEPT !.planes = 8], plans |-> <<Plan(modeB, sources)>>,
     cluster |-> sources, dospcx |-> TRUE, ovs |-> TRUE, profileOk |-> TRUE, air |-> FALSE,
     blocks |-> blocks]
All == 0..7
Ab == <<Gv("ga", {NodeA}), Gv("gb", {NodeB})>>
Vr ==
    {VrRun(ip, Ab, FALSE, {Bundle(NodeA, i, All), Bundle(NodeB, j, All)}) :
        ip \in {"ipv4", "ipv6"}, i \in {127}, j \in {127, 128, 252}} \cup
    {VrRun("ipv6", Ab, TRUE, {Bundle(NodeA, 1, All), Bundle(NodeB, 1, All)}),
     VrRun("ipv4", <<Ab[1]>>, FALSE, {Bundle(NodeA, 1, All), Bundle(NodeB, 1, All)}),
     VrRun("ipv4", <<Ab[1]>>, FALSE, {Bundle(NodeA, 1, 0..3), Bundle(NodeA, 2, 0..1)}),
     [VrRun("ipv6", <<Ab[1]>>, TRUE, {Bundle(NodeA, 1, All)}) EXCEPT !.s.siteID = 16],
     [VrRun("ipv6", <<Ab[1]>>, TRUE, {Bundle(NodeA, 1, All)}) EXCEPT !.profileOk = FALSE],
     VrRun("ipv4", <<Ab[1], [Ab[2] EXCEPT !.pfs = Tail(VrPFs)]>>, FALSE, {Bundle(NodeA, 1, All)}),
     [VrRun("ipv4", <<Ab[1]>>, TRUE, {Bundle(NodeA, 1, All)}) EXCEPT !.s.mode = "swplb"],
     [VrRun("ipv4", Ab, FALSE, {Bundle(NodeA, 1, All)}) EXCEPT !.cluster = Append(@, Gv("gc", {NodeC}))],
     [VrRun("ipv4", <<[Ab[1] EXCEPT !.swPlane = (0 :> 0)], Ab[2]>>, FALSE,
            {Bundle(NodeA, 1, All), Bundle(NodeB, 2, All)}) EXCEPT !.ovs = FALSE],
     VrRun("ipv4", <<Group("gr", "rtx", TwoPFs, {NodeA})>>, FALSE, {Bundle(NodeA, 1, All)}),
     [VrRun("ipv4", <<Group("gr", "rtx", TwoPFs, {NodeA})>>, FALSE,
            Cables({Place(NodeA, <<0>>, <<0>>)}, <<0, 1>>, {0})) EXCEPT !.s = Base(2, "none", "ipv4")]}

-----------------------------------------------------------------------------
(* AIR: numbers are in the names.                                          *)

AirHost(pods, su, h) == pods \cup {Tok("su", su), Tok("h", h)}
AirLink(node, rail, plane, leaf) ==
    [ends |-> 2,
     host |-> <<[node |-> node, rail |-> rail, plane |-> plane, pci |-> rail, pcis |-> {1, 2}]>>,
     leaf |-> <<[node |-> leaf, port |-> <<node, rail, plane>>]>>]
AirLeaf(pods, p, su, r) == pods \cup {Tok("p", p), Tok("su", su), Tok("r", r)}
AirCable(pods, su, h, r, p) ==
    <<AirLink(AirHost(pods, su, h), r, p, AirLeaf(pods, p, su, r))>>
AirRun(s, nodes, blocks) ==
    [s |-> s, plans |-> <<Plan(TRUE, <<Group("ga", "gb200", TwoPFs, nodes)>>)>>, cluster |-> <<>>,
     dospcx |-> FALSE, ovs |-> FALSE, profileOk |-> TRUE, air |-> TRUE, blocks |-> blocks]
Pod1 == {Tok("pod", 1)}
H(h) == AirHost(Pod1, 1, h)
Air ==
    {AirRun(Base(t, m, ip), {H(1), H(2)},
            {AirCable(Pod1, 1, h, r, 1) : h \in {1, 2}, r \in {1, 2}}) :
        t \in {2, 3}, m \in {"swplb", "hwplb"}, ip \in {"ipv4", "ipv6"}} \cup
    {AirRun(Base(2, "none", "ipv4"), {H(1)}, {AirCable(Pod1, 1, 1, 1, 1), bad}) : bad \in
        {AirCable({}, 1, 1, 1, 1), AirCable(Pod1, 1, 0, 1, 1), AirCable(Pod1, 1, 2, 3, 1),
         AirCable(Pod1 \cup {Tok("pod", 2)}, 1, 2, 1, 1),
         AirCable(Pod1 \cup {[Tok("pod", 1) EXCEPT !.at = 2]}, 1, 2, 1, 1),
         <<[ends |-> 1, host |-> <<>>, leaf |-> <<>>]>>,
         <<AirLink(H(2), 1, 1, AirLeaf(Pod1, 2, 1, 1))>>,
         <<AirLink(H(1) \cup {Tok("x", 1)}, 1, 1, AirLeaf(Pod1, 1, 1, 1))>>,
         <<[AirLink(H(2), 1, 1, {}) EXCEPT !.leaf = <<>>]>>,
         <<[ends |-> 0, host |-> <<>>, leaf |-> <<>>]>>}}

MCSettings == Reference \cup Odd \cup Vr \cup Air
=============================================================================

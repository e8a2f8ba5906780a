------------------------------ MODULE SpectrumX ------------------------------
(* A Spectrum-X generation: the topology file, in any order of its links, is  *)
(* the input of one BuildCIDRPools call per plan, on the plan's merged group; *)
(* the same plans pass the layout checks of RA2.4/RA3.1 (doSPCX) and yield    *)
(* the endpoints whose networks draw from the pools.                          *)
(*                                                                            *)
(* A group is [id, gpu, platform, pfs, workers, swPlane, device]: PFs as in   *)
(* Render, swPlane is [rail -> plane], device the set of its PFs' device ids. *)
EXTENDS Addressing, Render

CONSTANTS
    Settings    \* what can be generated: [s, plans, cluster, dospcx, ovs, profileOk, blocks, air]

VARIABLES
    chosen,     \* the settings of this generation
    file,       \* the links written so far
    left,       \* the blocks of links still to write
    step,       \* "file", "check", "build", "done", "refused"
    built       \* what BuildCIDRPools returned for each plan so far

spectrumVars == <<chosen, file, left, step, built>>

-----------------------------------------------------------------------------
(* Checks of RA2.4 and RA3.1.                                                 *)

spectrumXSwPlane(g, rail) == IF rail \in DOMAIN g.swPlane THEN g.swPlane[rail] ELSE 0

\* The number of NICs on each rail, rails dense from zero, one rail to a NIC and
\* the same number everywhere; <<>> refuses.
spectrumXRailLayout(g, planes) ==
    LET ew     == FilterEastWestPFs(g.pfs)
        rails  == groupPFsByRail(ew)
        layout == [k \in DOMAIN rails |-> Len(masterPFsByNIC(rails[k]))]
    IN IF /\ allHaveRail(ew)
          /\ \A i, j \in DOMAIN ew : ew[i].nic = ew[j].nic => ew[i].rail = ew[j].rail
          /\ \A k \in DOMAIN rails : rails[k][1].rail = k - 1 /\ layout[k] = layout[1]
          /\ planes >= 1 /\ planes % layout[1] = 0
         THEN layout ELSE <<>>

validateSpectrumXSwPlanes(g, mode) ==
    LET rails == {p.rail : p \in ToSet(FilterEastWestPFs(g.pfs))}
    IN /\ -1 \notin rails /\ rails = 0..(Cardinality(rails) - 1)
       /\ \A r \in DOMAIN g.swPlane :
            r \in rails /\ g.swPlane[r] >= 0 /\ (mode # "hwplb" => g.swPlane[r] = 0)

validateSpectrumXGroup(g, s) ==
    LET layout == spectrumXRailLayout(g, s.planes)
    IN /\ g.platform # "" /\ layout # <<>>
       /\ g.platform = "vr" =>
            /\ layout = <<2, 2, 2, 2>> /\ s.mode = "hwplb" /\ s.planes = 8
            /\ \A r \in DOMAIN g.swPlane : g.swPlane[r] = 0
       /\ g.platform = "rtx" => g.device = {"1023"} /\ s.mode = "none" /\ s.planes = 1

validateSpectrumXGeneration(r, groups) ==
    /\ r.ovs => r.dospcx
    /\ \A i \in DOMAIN groups :
         /\ groups[i].swPlane # <<>> =>
              r.dospcx /\ validateSpectrumXSwPlanes(groups[i], r.s.mode)
         /\ r.dospcx => validateSpectrumXGroup(groups[i], r.s)
    /\ r.dospcx => r.profileOk

Sources(plans) == FlattenSeq([i \in DOMAIN plans |-> plans[i].sources])

\* A plan's merged group, as far as pools and endpoints read it: its first source
\* with the workers of all of them.
Merged(plan) ==
    [plan.sources[1] EXCEPT !.workers =
        UNION {plan.sources[k].workers : k \in DOMAIN plan.sources}]

\* At most one SpectrumXRailPoolConfig: one per plan, or one per source in Mode B.
OneParent(plans) ==
    /\ Len(plans) <= 1
    /\ \A i \in DOMAIN plans : plans[i].modeB => Len(plans[i].sources) <= 1

\* What the decoders of the two formats let through: numbers, and a host index of
\* its own only from an AIR name.
Number(opt) == opt = <<>> \/ (opt = <<opt[1]>> /\ opt[1] \in Int)
Numbers(name) == \A t \in name : t.n \in Int

ReferenceLink(link) ==
    /\ link.host # <<>> =>
         LET h == link.host[1]
         IN /\ \A opt \in {h.plane, h.pod, h.su, h.rail, h.index} : Number(opt)
            /\ h.ordinal = <<>>
    /\ link.leaf # <<>> => Number(link.leaf[1].plane)

AIRLink(link) ==
    /\ link.host # <<>> =>
         Numbers(link.host[1].node) /\ {link.host[1].rail, link.host[1].plane} \subseteq Int
    /\ link.leaf # <<>> => Numbers(link.leaf[1].node)

\* There is something to render, in two or three tiers, plans list their sources,
\* and a topology file is a list of links of one format.
Valid(r) ==
    /\ r.s.tier \in {2, 3}
    /\ r.plans \in Seq(ToSet(r.plans)) /\ r.plans # <<>>
    /\ \A p \in ToSet(r.plans) :
         /\ p.sources \in Seq(ToSet(p.sources)) /\ p.sources # <<>>
         /\ \A g \in ToSet(p.sources) : {"pfs", "platform"} \subseteq DOMAIN g
    /\ \A b \in r.blocks :
         /\ b \in Seq({b[k] : k \in DOMAIN b})
         /\ \A k \in DOMAIN b : IF r.air THEN AIRLink(b[k]) ELSE ReferenceLink(b[k])

ASSUME SettingsAssumption == \A r \in Settings : Valid(r)

\* Rail names are shared, so there is one parent; a merged one must cover its
\* whole GPU type and its sources must agree.
validateSpectrumXPlaneBuckets(r) ==
    r.dospcx =>
        /\ OneParent(r.plans)
        /\ \A i \in DOMAIN r.plans :
             LET src == r.plans[i].sources
                 ids == {src[k].id : k \in DOMAIN src}
             IN /\ ~r.plans[i].modeB /\ Len(src) > 1 =>
                     \A k \in DOMAIN r.cluster :
                         r.cluster[k].gpu = src[1].gpu => r.cluster[k].id \in ids
                /\ \A k \in DOMAIN src :
                     /\ spectrumXRailLayout(src[k], r.s.planes) # <<>>
                     /\ spectrumXRailLayout(src[k], r.s.planes)
                          = spectrumXRailLayout(src[1], r.s.planes)
                     /\ \A rail \in DOMAIN src[1].swPlane \cup DOMAIN src[k].swPlane :
                          spectrumXSwPlane(src[1], rail) = spectrumXSwPlane(src[k], rail)

-----------------------------------------------------------------------------
(* Endpoints.                                                                 *)

Platform(g) == g.platform = "vr"

\* The interfaces of an endpoint of a rail, named by NIC, plane and rail.
EndpointNames(s, g, rail, i) ==
    LET vr   == Platform(g)
        span == IF s.mode = "swplb" THEN i..i
                ELSE IF vr THEN (4 * i)..(4 * i + 3) ELSE 0..(s.planes - 1)
    IN {<<IF vr THEN i ELSE rail, p, rail>> : p \in span}

\* The endpoints of a rail: one per plane (swplb), one per NIC (VR), else one.
RailEndpoints(s, g, rail) ==
    LET vr    == Platform(g)
        count == IF s.mode = "swplb" THEN s.planes ELSE IF vr THEN 2 ELSE 1
    IN [i \in 1..count |->
          [pool |-> [rail |-> rail, nic |-> IF vr /\ s.mode # "swplb" THEN i - 1 ELSE 0,
                     plane |-> IF s.mode = "swplb" THEN i - 1 ELSE 0],
           claim |-> IF s.mode = "swplb" THEN <<rail, i - 1>> ELSE <<rail>>,
           names |-> EndpointNames(s, g, rail, i - 1),
           swPlane |-> IF vr /\ s.mode # "swplb" THEN 2 * spectrumXSwPlane(g, rail) + i - 1
                       ELSE spectrumXSwPlane(g, rail),
           pf |-> IF s.mode # "swplb" /\ vr
                    THEN SelectSeq(g.pfs, LAMBDA p :
                           Pci(p) = railPciGroups(g.pfs, s.planes)[rail + 1][i])
                  ELSE spectrumXPFForRailPlane(g.pfs, rail,
                           IF s.mode = "swplb" THEN i - 1 ELSE 0, s.planes)]]

spectrumXEndpoints(s, g) ==
    FlattenSeq([r \in 1..railCount(g.pfs, s.planes) |-> RailEndpoints(s, g, r - 1)])

\* Endpoints of one claim share its GPU; the claims in order of appearance.
spectrumXClaims(endpoints) ==
    LET firsts == Sorted({i \in DOMAIN endpoints :
                     \A j \in 1..(i - 1) : endpoints[j].claim # endpoints[i].claim})
    IN [k \in DOMAIN firsts |->
          [name |-> endpoints[firsts[k]].claim, gpu |-> endpoints[firsts[k]].pf,
           endpoints |-> SelectSeq(endpoints, LAMBDA e : e.claim = endpoints[firsts[k]].claim)]]

-----------------------------------------------------------------------------

SpectrumInit ==
    /\ chosen \in Settings
    /\ file = <<>> /\ left = chosen.blocks
    /\ step = "file" /\ built = <<>>

\* The author of the file lists its links in any order, and may leave some out.
WriteLinks ==
    /\ step = "file"
    /\ \E b \in left : file' = file \o b /\ left' = left \ {b}
    /\ UNCHANGED <<chosen, step, built>>

Generate ==
    /\ step = "file"
    /\ step' = IF /\ validateSpectrumXGeneration(chosen, Sources(chosen.plans))
                  /\ validateSpectrumXPlaneBuckets(chosen)
               THEN "build" ELSE "refused"
    /\ UNCHANGED <<chosen, file, left, built>>

Topology ==
    loadTopology([reference |-> ~chosen.air, air |-> chosen.air, links |-> file], chosen.s.tier)

\* CIDRPool is rendered for one plan after the other, in Mode B too; the first
\* refusal ends the generation.
Build ==
    /\ step = "build"
    /\ LET g      == Merged(chosen.plans[Len(built) + 1])
           result == BuildCIDRPools(chosen.s, Platform(g), Topology, g.workers)
       IN /\ built' = Append(built, result)
          /\ step' = IF ~result.ok THEN "refused"
                     ELSE IF Len(built') = Len(chosen.plans) THEN "done" ELSE "build"
    /\ UNCHANGED <<chosen, file, left>>

SpectrumNext == WriteLinks \/ Generate \/ Build

SpectrumSpec == SpectrumInit /\ [][SpectrumNext]_spectrumVars

-----------------------------------------------------------------------------
(* Properties.                                                                *)

GroupPools(i) == built[i].pools

\* What the documented topologies have in common: no plane on a host endpoint,
\* the same attributes on every host, and pods only in three tiers.
WellFormed ==
    LET hosts == {m \in DOMAIN Topology : Topology[m].host # <<>>}
    IN \A i, j \in hosts :
         LET g == Topology[i].host[1]
             h == Topology[j].host[1]
         IN /\ g.plane = <<>>
            /\ (g.su = <<>>) = (h.su = <<>>) /\ (g.pod = <<>>) = (h.pod = <<>>)
            /\ chosen.s.tier = 2 => Value(g.pod) = Value(h.pod)

\* Groups whose addresses the code keeps apart: on VR a call reads its own
\* group's hosts only, and before RA2.4 nothing keeps another group away.
KeptApart(i, j) ==
    \/ i = j \/ chosen.dospcx
    \/ ~Platform(Merged(chosen.plans[i])) /\ ~Platform(Merged(chosen.plans[j]))

\* No address is given out twice (BuildCIDRPools, once per plan):
\* over all groups of a generation two static allocations with the same prefix
\* are the same worker's in the same pool, in whatever order the topology file
\* lists its links and although each call numbers the hosts anew.
AddressesUnique ==
    step = "done" /\ WellFormed =>
        \A i, j \in DOMAIN built : KeptApart(i, j) =>
            \A p \in GroupPools(i), q \in GroupPools(j) :
                \A a \in p.allocations, b \in q.allocations :
                    a.prefix = b.prefix => p.key = q.key /\ a.node = b.node

\* A pool and its allocations agree (poolCIDR takes the network of the first
\* allocation only): every static prefix lies in the CIDR of its own pool and in
\* no other pool of the group, and the workers a group names have one each in it,
\* and nobody else.
PoolHoldsItsOwn ==
    step = "done" =>
        \A i \in DOMAIN built : \A p \in GroupPools(i) :
            /\ \A a \in p.allocations : \A q \in GroupPools(i) :
                 (supernet(a.prefix, q.bits) = q.cidr) = (p = q)
            /\ LET workers == Merged(chosen.plans[i]).workers
               IN workers # {} => {a.node : a \in p.allocations} = workers

\* On VR every endpoint that RA2.4 and RA3.1 render (spectrumXEndpoints) finds the
\* pool its network names: no topology, however incomplete or ordered, silently
\* leaves out one NIC of a rail.
EndpointsHavePools ==
    step = "done" =>
        \A i \in DOMAIN built :
            LET g == Merged(chosen.plans[i])
                ends == spectrumXEndpoints(chosen.s, g)
            IN chosen.dospcx /\ Platform(g) =>
                 /\ \A k \in DOMAIN ends : \E p \in GroupPools(i) : p.key = ends[k].pool
                 /\ \A k, m \in DOMAIN ends : k # m => ends[k].names \cap ends[m].names = {}
                 /\ Len(spectrumXClaims(ends)) = railCount(g.pfs, chosen.s.planes)
=============================================================================

-------------------------------- MODULE Ipam --------------------------------
(***************************************************************************)
(* The arithmetic behind the rendered NV-IPAM IPPools (pkg/config) and the *)
(* check that keeps them away from the cluster's own addresses             *)
(* (pkg/networkoperatorplugin/ipam_collision.go).                          *)
(*                                                                         *)
(* An address is a number below 2^AddrBits (32 in the code).  A CIDR is    *)
(* the record of its network address and its mask; a subnet adds the       *)
(* gateway and the excluded ranges.  A step that fails returns Refused.    *)
(***************************************************************************)
EXTENDS Integers, Sequences, FiniteSets

CONSTANT AddrBits

ASSUME AddrBitsAssumption == AddrBits \in 3..32

Refused == [ok |-> FALSE, value |-> <<>>]
Done(v) == [ok |-> TRUE, value |-> v]

DefaultNvIpamStartingGateway == 1
DefaultNvIpamPerNodeBlockSize == 10

BlockSize(mask) == 2^(AddrBits - mask)
Network(cidr) == cidr.net - (cidr.net % BlockSize(cidr.mask))
Broadcast(cidr) == Network(cidr) + BlockSize(cidr.mask) - 1
Overlaps(a, b) == Network(a) <= Broadcast(b) /\ Network(b) <= Broadcast(a)

-----------------------------------------------------------------------------
(* Defaults and load-time checks of the nvIpam section.                    *)

ApplyNvIpamDefaults(nv, present) ==
    [nv EXCEPT
        !.gateway = IF @ = 0 /\ "startingGateway" \notin present
                    THEN DefaultNvIpamStartingGateway ELSE @,
        !.block = IF @ = 0 /\ "perNodeBlockSize" \notin present
                  THEN DefaultNvIpamPerNodeBlockSize ELSE @]

\* The gateway is a host of the block: neither the network nor the broadcast.
validateStartingGateway(gateway, mask) ==
    gateway >= 1 /\ gateway < BlockSize(mask) - 1

ValidateNvIpamStartingGateway(nv, present) ==
    /\ nv.gateway >= 0
    /\ ~(nv.gateway = 0 /\ "startingGateway" \in present)
    /\ (nv.subnets = <<>> /\ nv.start >= 0 /\ nv.mask \in 1..(AddrBits - 2) /\ nv.gateway > 0)
          => validateStartingGateway(nv.gateway, nv.mask)

\* The first and last addresses of the block, unless they leave none over.
reservedExclusions(cidr, first, last) ==
    IF first <= 0 /\ last <= 0 THEN Done(<<>>)
    ELSE IF first + last >= BlockSize(cidr.mask) THEN Refused
    ELSE Done(
         (IF first > 0
          THEN <<[lo |-> Network(cidr), hi |-> Network(cidr) + first - 1]>> ELSE <<>>)
         \o (IF last > 0
             THEN <<[lo |-> Broadcast(cidr) - last + 1, hi |-> Broadcast(cidr)]>> ELSE <<>>))

ApplyReservedExclusions(subnets, first, last) ==
    IF \E i \in DOMAIN subnets : ~reservedExclusions(subnets[i], first, last).ok
    THEN Refused
    ELSE Done([i \in DOMAIN subnets |->
                 [subnets[i] EXCEPT !.exclusions =
                     reservedExclusions(subnets[i], first, last).value \o @]])

validateNvIpam(nv) ==
    /\ nv.block >= 0 /\ nv.first >= 0 /\ nv.last >= 0
    /\ (nv.subnets = <<>> /\ nv.start >= 0 /\ nv.mask > 0)
          => reservedExclusions([net |-> nv.start, mask |-> nv.mask], nv.first, nv.last).ok
    /\ \A i \in DOMAIN nv.subnets :
          LET s == nv.subnets[i] IN
          /\ reservedExclusions(s, nv.first, nv.last).ok
          /\ \A k \in DOMAIN s.exclusions :
                LET ex == s.exclusions[k] IN
                ex.lo <= ex.hi /\ ex.lo >= Network(s) /\ ex.hi <= Broadcast(s)

\* Mutant: the stride forgets the block size.
SubnetsByAddress(start, mask, offset, count, gateway) ==
    Done([i \in 1..count |->
            [net |-> start + (i - 1) * offset, mask |-> mask,
             gateway |-> start + (i - 1) * offset + gateway, exclusions |-> <<>>]])

\* count blocks, offset blocks apart, none past the end of the address space.
GenerateSubnetsWithGateway(start, mask, offset, count, gateway) ==
    IF \/ count < 1 \/ mask < 1 \/ mask > AddrBits - 2 \/ offset < 1
       \/ ~validateStartingGateway(gateway, mask)
       \/ start % BlockSize(mask) # 0
       \/ count - 1 > ((2^AddrBits - 1 - start) \div BlockSize(mask)) \div offset
    THEN Refused
    ELSE Done([i \in 1..count |->
            LET net == (start + (i - 1) * offset * BlockSize(mask)) % 2^AddrBits IN
            [net |-> net, mask |-> mask, gateway |-> (net + gateway) % 2^AddrBits,
             exclusions |-> <<>>]])

-----------------------------------------------------------------------------
(* Collision with the ranges the cluster already uses.                     *)

\* Pools are the CIDRs of the bundle's IPPool documents.
ipPoolCIDRs(documents) == {d.subnet : d \in {x \in documents : x.kind = "IPPool"}}

configuredCIDRs(cluster) == cluster.pods \cup cluster.services

checkCIDROverlaps(pools, ranges) == \A p \in pools, r \in ranges : ~Overlaps(p, r)

\* The check of generate: the configured ranges only, no live read.
CheckConfiguredIPPoolCIDRs(documents, cluster) ==
    checkCIDROverlaps(ipPoolCIDRs(documents), configuredCIDRs(cluster))

\* One version of the ServiceCIDR API: "absent", "denied" or the set it lists.
serviceCIDRs(apis) ==
    LET served == SelectSeq(apis, LAMBDA a : a.state # "absent") IN
    IF served = <<>> THEN Done({})
    ELSE IF Head(served).state = "denied" \/ Head(served).ranges = {} THEN Refused
    ELSE Done(Head(served).ranges)

\* Mutant: a node's own addresses are not looked at.
PodRangesOnly(nodes, podsConfigured) ==
    UNION {IF podsConfigured THEN {} ELSE n.pods : n \in nodes}

\* A node contributes its pod ranges, unless they are configured, and its own
\* addresses.
nodeCIDRs(nodes, podsConfigured) ==
    UNION {(IF podsConfigured THEN {} ELSE n.pods)
             \cup {[net |-> ip, mask |-> AddrBits] : ip \in n.internal} : n \in nodes}

\* The check of deploy: fresh observations, or it refuses.
checkLiveIPPoolCIDRs(documents, cluster, apis, nodes) ==
    LET pools == ipPoolCIDRs(documents)
        services == IF cluster.services # {} THEN Done({}) ELSE serviceCIDRs(apis)
    IN  \/ pools = {}
        \/ /\ checkCIDROverlaps(pools, configuredCIDRs(cluster))
           /\ services.ok
           /\ nodes.ok /\ nodes.value # {}
           /\ checkCIDROverlaps(pools, configuredCIDRs(cluster) \cup services.value
                                         \cup nodeCIDRs(nodes.value, cluster.pods # {}))
=============================================================================

------------------------------ MODULE Addressing ------------------------------
(* Spectrum-X addresses: the links of a topology file, in file order, become  *)
(* one address pool per rail (and plane, or NIC) with a static prefix for     *)
(* each worker (pkg/networkoperatorplugin/spectrumx).                         *)
(*                                                                            *)
(* An optional value is <<>> or <<v>>.  A link is [ends, host, leaf]: ends is *)
(* the number of connected endpoints; host is <<[node, plane, pod, su, rail,  *)
(* index, ordinal]>> with optional fields (ordinal is the index an AIR name   *)
(* gives), leaf is <<[port, plane]>>.  An address is its sequence of bytes,   *)
(* for IPv6 the eight of its network.                                         *)
EXTENDS Integers, Sequences, FiniteSets, SequencesExt, FiniteSetsExt

Value(opt) == IF opt = <<>> THEN 0 ELSE opt[1]
Fits(v, max) == v >= 0 /\ v <= max

isIPv6(s) == s.ip = "ipv6"
planeAwareAddressing(s) == s.mode \in {"swplb", "hwplb"}

-----------------------------------------------------------------------------
(* Addresses.                                                                 *)

\* Mutant: the SU field is not bounded where it shares an octet with the rail.
MiddleOctetsUnbounded(s, plane, rail, pod, su) ==
    IF s.tier = 2
      THEN IF planeAwareAddressing(s)
             THEN <<16 + 4 * plane + rail \div 4, 64 * (rail % 4) + su>>
             ELSE <<16 + 2 * rail, su>>
    ELSE IF planeAwareAddressing(s)
           THEN <<64 * plane + 8 * rail + pod \div 4, 64 * (pod % 4) + su>>
           ELSE <<32 * rail + pod, su>>

\* The second and third octet; <<>> when a value exceeds its field.
ipv4HostLeafMiddleOctets(s, plane, rail, pod, su) ==
    LET aware == planeAwareAddressing(s)
    IN IF s.tier = 2
         THEN IF ~Fits(su, 63) \/ (aware /\ ~Fits(plane, 3)) THEN <<>>
              ELSE IF aware THEN <<16 + 4 * plane + rail \div 4, 64 * (rail % 4) + su>>
              ELSE <<16 + 2 * rail, su>>
       ELSE IF ~Fits(pod, 31) \/ ~Fits(su, IF aware THEN 63 ELSE 255)
               \/ (aware /\ ~Fits(plane, 3)) THEN <<>>
       ELSE IF aware THEN <<64 * plane + 8 * rail + pod \div 4, 64 * (pod % 4) + su>>
       ELSE <<32 * rail + pod, su>>

SpectrumXDefaultHostFirstOctet(tier) == IF tier = 3 THEN 10 ELSE 172

allocateIPv4HostLeaf(s, plane, rail, pod, su, index) ==
    LET first  == IF s.firstOctet = 0 THEN SpectrumXDefaultHostFirstOctet(s.tier) ELSE s.firstOctet
        middle == ipv4HostLeafMiddleOctets(s, plane, rail, pod, su)
    IN IF Fits(rail, 7) /\ Fits(index, 127) /\ first \in 1..255 /\ middle # <<>>
         THEN <<first, middle[1], middle[2], 2 * index>> ELSE <<>>

allocateIPv6HostLeaf(s, plane, rail, pod, su, index) ==
    IF /\ \A v \in {plane, rail, pod, su, index} : Fits(v, 255)
       /\ s.tier = 2 => pod = 0
      THEN <<253, 2, 0, plane, rail, pod, su, index>> ELSE <<>>

allocateHostLeaf(s, plane, rail, pod, su, index) ==
    IF isIPv6(s) THEN allocateIPv6HostLeaf(s, plane, rail, pod, su, index)
    ELSE allocateIPv4HostLeaf(s, plane, rail, pod, su, index)

\* Two NICs of four planes on each rail; the site is in the first octet, or in
\* the fourth byte of an IPv6 address.
allocateVRHostLeaf(s, plane, rail, pod, su, index) ==
    LET nic   == plane \div 4
        first == IF s.firstOctet = 0 THEN 240 ELSE s.firstOctet
    IN IF \/ s.mode # "hwplb" \/ s.planes # 8
          \/ ~Fits(plane, 7) \/ ~Fits(rail, 3) \/ pod # 0 \/ ~Fits(su, 127) \/ ~Fits(index, 251)
         THEN <<>>
       ELSE IF isIPv6(s)
         THEN IF Fits(s.siteID, 15)
                THEN <<253, 2, 0, s.siteID, 16 * nic + rail, pod, su, index>> ELSE <<>>
       ELSE IF first \in 240..255
         THEN <<first, 128 * nic + 32 * rail + pod, 2 * su + index \div 128, 2 * (index % 128)>>
       ELSE <<>>

\* The network of the first n bits.
supernet(a, n) ==
    [i \in DOMAIN a |->
        LET keep == n - 8 * (i - 1)
        IN IF keep >= 8 THEN a[i]
           ELSE IF keep <= 0 THEN 0
           ELSE (a[i] \div 2 ^ (8 - keep)) * 2 ^ (8 - keep)]

railPrefixLength(s) ==
    IF isIPv6(s) THEN 40
    ELSE IF s.tier = 3 THEN IF planeAwareAddressing(s) THEN 13 ELSE 11
    ELSE IF planeAwareAddressing(s) THEN 18 ELSE 15

planePrefixLength(s) ==
    IF s.tier = 3 THEN IF planeAwareAddressing(s) THEN 10 ELSE 8
    ELSE IF planeAwareAddressing(s) THEN 14 ELSE 12

PoolBits(s, vr) == IF vr THEN IF isIPv6(s) THEN 40 ELSE 11 ELSE railPrefixLength(s)

\* The destinations a pool routes, as the number of leading bits they share
\* with its CIDR.
poolRoutes(s, vr) ==
    IF vr THEN IF isIPv6(s) THEN {28} ELSE {11, 8}
    ELSE IF isIPv6(s) THEN {IF s.planes > 1 THEN 24 ELSE 32}
    ELSE {railPrefixLength(s), planePrefixLength(s)}

-----------------------------------------------------------------------------
(* The links of the file.                                                     *)

\* A host is numbered within its plane, pod and SU, a missing one being a value
\* of its own.
hostIndexKey(h) == <<h.plane, h.pod, h.su>>

\* Links that end the reading: not two endpoints, a host without a leaf.
\* Disconnected links and links between switches are passed over.
Malformed(link) ==
    \/ link.ends \notin {0, 2}
    \/ link.ends = 2 /\ link.host # <<>> /\ link.leaf = <<>>

\* Mutant: every group reads the links of its own hosts only.
OwnHostLinks(topology, vr, allowed) ==
    {m \in DOMAIN topology : /\ topology[m].ends = 2 /\ topology[m].host # <<>>
                             /\ allowed # {} => topology[m].host[1].node \in allowed}

\* The positions of the host links; except on VR those of other groups' hosts too.
HostLinks(topology, vr, allowed) ==
    {m \in DOMAIN topology : /\ topology[m].ends = 2 /\ topology[m].host # <<>>
                             /\ vr /\ allowed # {} => topology[m].host[1].node \in allowed}

\* How many hosts of a key are known before position m.
countHostIndex(topology, at, key, m) ==
    Cardinality({topology[j].host[1].node : j \in
        {i \in at : i < m /\ hostIndexKey(topology[i].host[1]) = key}})

\* The index of the host at position m, given at its first link: the VR one, the
\* ordinal of an AIR name, else how many hosts came before.
hostIndex(topology, at, vr, m) ==
    LET key   == hostIndexKey(topology[m].host[1])
        first == Min({j \in at : /\ hostIndexKey(topology[j].host[1]) = key
                                 /\ topology[j].host[1].node = topology[m].host[1].node})
        h     == topology[first].host[1]
    IN IF vr /\ h.index # <<>> THEN h.index[1]
       ELSE IF h.ordinal # <<>> THEN h.ordinal[1]
       ELSE countHostIndex(topology, at, key, first)

\* What is made of the link at position m.
hostLink(topology, at, s, vr, m) ==
    LET h     == topology[m].host[1]
        l     == topology[m].leaf[1]
        index == hostIndex(topology, at, vr, m)
        plane == IF vr \/ s.mode = "swplb" THEN Value(l.plane) ELSE 0
    IN [node |-> h.node, plane |-> Value(l.plane), pod |-> Value(h.pod), su |-> Value(h.su),
        rail |-> Value(h.rail), index |-> index,
        ip   |-> IF vr THEN allocateVRHostLeaf(s, plane, Value(h.rail), Value(h.pod), Value(h.su), index)
                 ELSE allocateHostLeaf(s, plane, Value(h.rail), Value(h.pod), Value(h.su), index)]

\* What keeps a host link out: a field the allocation needs, a switch port that
\* is used twice, a VR host without an index of its own or with two.
LinkRefused(topology, at, s, vr, m) ==
    LET h == topology[m].host[1]
        l == topology[m].leaf[1]
    IN \/ h.rail = <<>> \/ l.plane = <<>> \/ (s.tier = 3 /\ h.pod = <<>>)
       \/ vr /\ \/ \E j \in at : j < m /\ topology[j].leaf[1].port = l.port
                \/ h.index = <<>> /\ h.ordinal = <<>>
                \/ h.index \notin {<<>>, <<hostIndex(topology, at, vr, m)>>}
       \/ hostLink(topology, at, s, vr, m).ip = <<>>

\* The host links by position; none if one of them is refused.
hostLinks(topology, s, vr, allowed) ==
    LET at == HostLinks(topology, vr, allowed)
    IN IF \/ \E m \in DOMAIN topology : Malformed(topology[m])
          \/ \E m \in at : LinkRefused(topology, at, s, vr, m)
         THEN <<>> ELSE [m \in at |-> hostLink(topology, at, s, vr, m)]

\* The links of a group's workers; of all hosts if it names none.
OwnLinks(links, allowed) ==
    {m \in DOMAIN links : allowed = {} \/ links[m].node \in allowed}

Coordinate(l) == <<l.pod, l.su, l.index>>

\* Mutant: a rail may lack some of its planes.
VRCoordinatesOnly(links, allowed) ==
    \A i, j \in OwnLinks(links, allowed) :
        links[i].node = links[j].node <=> Coordinate(links[i]) = Coordinate(links[j])

\* Each worker has one position, no two share one, and each has every plane of
\* each of the four rails exactly once.
validateVRTopology(links, allowed) ==
    LET own == OwnLinks(links, allowed)
    IN /\ \A i, j \in own :
            /\ links[i].node = links[j].node <=> Coordinate(links[i]) = Coordinate(links[j])
            /\ i # j => <<links[i].node, links[i].rail, links[i].plane>>
                          # <<links[j].node, links[j].rail, links[j].plane>>
       /\ \A i \in own : \A rail \in 0..3 :
            Cardinality({links[j].plane : j \in {k \in own :
                links[k].node = links[i].node /\ links[k].rail = rail}}) = 8

-----------------------------------------------------------------------------
(* Pools.                                                                     *)

poolKeyForLink(l, s, vr) ==
    [rail |-> l.rail, nic |-> IF vr THEN l.plane \div 4 ELSE 0,
     plane |-> IF ~vr /\ s.mode = "swplb" THEN l.plane ELSE 0]

\* The first link of a worker in a pool decides its prefix.
allocationsByPool(links, allowed, s, vr) ==
    LET own == OwnLinks(links, allowed)
        Key(m) == poolKeyForLink(links[m], s, vr)
    IN [key \in {Key(m) : m \in own} |->
          [m \in {j \in own : /\ Key(j) = key
                              /\ \A e \in own : e < j /\ Key(e) = key
                                    => links[e].node # links[j].node} |->
              [node |-> links[m].node, prefix |-> links[m].ip]]]

missingNodes(allowed, allocations) ==
    allowed \ {allocations[i].node : i \in DOMAIN allocations}

Refuse == [ok |-> FALSE, pools |-> {}]

\* A file without host links, without one of the workers, or with a pool that a
\* worker has no allocation in is refused.
BuildCIDRPools(s, vr, topology, allowed) ==
    LET links  == hostLinks(topology, s, vr, allowed)
        allocs == allocationsByPool(links, allowed, s, vr)
        keys   == DOMAIN allocs
    IN IF \/ s.siteID # 0 /\ ~(vr /\ isIPv6(s))
          \/ links = <<>>
          \/ vr /\ ~validateVRTopology(links, allowed)
          \/ keys = {}
          \/ \E k \in keys : missingNodes(allowed, allocs[k]) # {}
         THEN Refuse
       ELSE [ok |-> TRUE,
             pools |-> {[key |-> k, cidr |-> supernet(allocs[k][Min(DOMAIN allocs[k])].prefix,
                                                      PoolBits(s, vr)),
                         bits |-> PoolBits(s, vr), routes |-> poolRoutes(s, vr),
                         allocations |-> {allocs[k][i] : i \in DOMAIN allocs[k]}] : k \in keys}]

-----------------------------------------------------------------------------
(* NVIDIA AIR topologies: the coordinates are in the names.  A name is the    *)
(* set of its tokens [prefix, n, at], at telling two equal ones apart; a link *)
(* is [ends, host, leaf] with host <<[node, rail, plane, pci, pcis]>> of      *)
(* one-based numbers.  ends is 0 on a disconnected link, 2 on one between two *)
(* nodes of the file and 1 on one with another number of ends or an unknown   *)
(* node.                                                                      *)

parseOneBasedOrdinal(n) == n - 1

\* <<>> when the token is missing, <<-1>> when it is doubled or below one.
optionalAIRNameOrdinal(name, prefix) ==
    LET found == {t \in name : t.prefix = prefix}
    IN IF found = {} THEN <<>>
       ELSE IF Cardinality(found) > 1 THEN <<-1>>
       ELSE <<parseOneBasedOrdinal((CHOOSE t \in found : TRUE).n)>>

Required(name, prefix) ==
    LET o == optionalAIRNameOrdinal(name, prefix) IN IF o = <<>> THEN -1 ELSE o[1]

\* Names, interface and PCI entry must tell the same story; <<>> refuses the file.
normalizeAIRHostLink(h, l, tier) ==
    LET rail == parseOneBasedOrdinal(h.rail)
        su   == Required(h.node, "su")
        idx  == Required(h.node, "h")
        hpod == optionalAIRNameOrdinal(h.node, "pod")
        lpod == optionalAIRNameOrdinal(l.node, "pod")
        pos  == <<Value(hpod), su, idx>>
    IN IF \/ h.pci \notin h.pcis \/ parseOneBasedOrdinal(h.pci) # rail \/ rail < 0
          \/ su < 0 \/ idx < 0 \/ Required(l.node, "su") # su
          \/ parseOneBasedOrdinal(h.plane) < 0
          \/ Required(l.node, "p") # parseOneBasedOrdinal(h.plane)
          \/ Required(l.node, "r") # rail
          \/ -1 \in {Value(hpod), Value(lpod)} \/ hpod # lpod \/ (tier = 3 /\ hpod = <<>>)
         THEN <<>>
       ELSE <<[ends |-> 2,
               host |-> <<[node |-> h.node, plane |-> <<>>, pod |-> hpod, su |-> <<su>>,
                           rail |-> <<rail>>, index |-> <<>>, ordinal |-> <<idx>>]>>,
               leaf |-> <<[port |-> l.port, plane |-> <<Required(l.node, "p")>>]>>,
               pos  |-> pos]>>

\* Disconnected links and links without a host are passed over (here they stay,
\* as disconnected ones), a host must meet a leaf (link.leaf is <<>> when the
\* other end is none), and no two hosts have the same position.
normalizeAIRTopology(air, tier) ==
    LET at == {k \in DOMAIN air : air[k].ends # 0 /\ (air[k].ends = 2 => air[k].host # <<>>)}
        Normal(k) == normalizeAIRHostLink(air[k].host[1], air[k].leaf[1], tier)
    IN IF \/ \E k \in at : air[k].ends # 2 \/ air[k].leaf = <<>> \/ Normal(k) = <<>>
          \/ \E j, k \in at : /\ Normal(j)[1].pos = Normal(k)[1].pos
                              /\ air[j].host[1].node # air[k].host[1].node
         THEN <<>>
       ELSE [k \in DOMAIN air |-> IF k \in at THEN Normal(k)[1]
                                  ELSE [ends |-> 0, host |-> <<>>, leaf |-> <<>>]]

\* The two formats are told apart by their shape, never guessed.
detectTopologyFormat(data) ==
    IF data.reference /\ data.air THEN "ambiguous"
    ELSE IF data.reference THEN "reference" ELSE IF data.air THEN "air" ELSE "unknown"

\* The links of a file; an unreadable or empty one has none.
loadTopology(data, tier) ==
    CASE detectTopologyFormat(data) = "reference" -> data.links
      [] detectTopologyFormat(data) = "air"       -> normalizeAIRTopology(data.links, tier)
      [] OTHER -> <<>>

=============================================================================

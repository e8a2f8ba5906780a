-------------------------------- MODULE Matrix --------------------------------
(* The pure half of connectivity validation: which endpoints a pod offers,    *)
(* which tests a set of pods is planned into, how long they may take, what a  *)
(* route or an observation says about a test.  A pod is                       *)
(*   [name, rails, iface, ambiguous, rdma, gpu]: its number in the order of   *)
(* names, its rails in sorted order, and the rails with an interface, more    *)
(* than one attachment, an RDMA device and an unambiguous GPU.  Rails are     *)
(* numbered; a rail's number also stands for its interface.  A test is        *)
(*   [src, dst, srcRail, dstRail, exp, gpu].                                  *)
EXTENDS Lists

NoChecks == <<"nil">>
Nothing  == "nothing"

\* What is known of a test's route: the rail it leaves by, or that it was not
\* looked up, has no device, could not be read, or that the container has no ip.
Via(rail)   == <<"via", rail>>
NoRoute     == <<"none">>
NoDevice    == <<"device">>
RouteFailed == <<"failed">>
RouteSkip   == <<"skip">>

-----------------------------------------------------------------------------
(* Endpoints.                                                                 *)

\* The families, in the order they are run in.
Stages == <<"gateway", "rping", "ib_write_bw", "gpudirect", "icmp">>

\* nil selects the default families; an explicit list is deduplicated.
normalizeChecks(checks) ==
    IF checks = NoChecks
      THEN {"gateway", "icmp", "rping", "ib_write_bw"} ELSE ToSet(checks) \ {""}

\* An address is [v4, global, id].  The first global IPv4 address, else the
\* first global IPv6 address.
pickNetworkIP(ips) ==
    LET usable == SelectSeq(ips, LAMBDA a : a.global)
        v4     == SelectSeq(usable, LAMBDA a : a.v4)
    IN IF v4 # <<>> THEN v4[1].id ELSE IF usable # <<>> THEN usable[1].id ELSE Nothing

\* The positions of the attachments other than the cluster's own.
SecondaryNetworks(all) == {i \in DOMAIN all : ~all[i].default}

\* A network status entry is [default, rail, iface, ips].  The first attachment
\* of a rail wins; a second one makes the rail's gateway ambiguous.
buildTestPod(nets) ==
    LET usable == SecondaryNetworks(nets)
                    \cap {i \in DOMAIN nets : pickNetworkIP(nets[i].ips) # Nothing}
        At(r)  == {i \in usable : nets[i].rail = r}
        rails  == {nets[i].rail : i \in usable}
        first  == [r \in rails |-> nets[Min(At(r))]]
    IN [rails     |-> Sorted(rails),
        iface     |-> {r \in rails : first[r].iface},
        ambiguous |-> {r \in rails : Cardinality(At(r)) > 1}]

\* The device under the interface; else the only device of the pod; else the
\* one whose position is the rail's number.
DiscoverRDMADevices(iface, direct, devs) ==
    LET found(r) == IF r \in DOMAIN direct THEN direct[r]
                    ELSE IF Len(devs) = 1 THEN devs[1]
                    ELSE IF r + 1 \in DOMAIN devs THEN devs[r + 1] ELSE Nothing
    IN [r \in {x \in iface : found(x) # Nothing} |-> found(r)]

\* A group is [workers, pfs].  The only group that lists the node, or the only
\* group there is; <<>> or <<group>>.
groupForNode(node, groups) ==
    LET listed == SelectSeq(groups, LAMBDA g : node \in g.workers)
    IN IF Len(listed) = 1 THEN listed
       ELSE IF listed = <<>> /\ Len(groups) = 1 THEN groups ELSE <<>>

\* A PF is [ew, rail, gpu] and the list is in PCI order; rail and plane are -1
\* when the PF or the network name carries none.
pfForNetworkRail(pfs, rail, plane) ==
    LET cand == SelectSeq(pfs, LAMBDA p : p.ew /\ (rail >= 0 => p.rail = rail))
        railsOf == {cand[i].rail : i \in DOMAIN cand} \ {-1}
    IN IF cand = <<>> \/ (rail < 0 /\ Cardinality(railsOf) > 1) THEN Nothing
       ELSE IF plane >= 0
         THEN IF plane < Len(cand) THEN cand[plane + 1].gpu
              ELSE IF Len(cand) = 1 THEN cand[1].gpu ELSE Nothing
       ELSE IF \A i \in DOMAIN cand : cand[i].gpu = cand[1].gpu THEN cand[1].gpu
       ELSE Nothing

\* rails maps a rail to the [rail, plane] its name spells.  A GPU is Nothing when
\* its discovered name has no index.
PopulateGPUTopology(node, rails, groups) ==
    LET group    == groupForNode(node, groups)
        found(r) == IF group = <<>> THEN Nothing
                    ELSE pfForNetworkRail(group[1].pfs, rails[r].rail, rails[r].plane)
    IN [r \in {x \in DOMAIN rails : found(x) # Nothing} |-> found(r)]

\* A running pod is [name, node, nets, spelled, direct, devs]; the RDMA devices
\* are looked up if a family needs them.
matrixPod(p, groups, discoverRDMA) ==
    LET tp == buildTestPod(p.nets)
    IN [name |-> p.name, rails |-> tp.rails, iface |-> tp.iface, ambiguous |-> tp.ambiguous,
        rdma |-> IF discoverRDMA
                 THEN DOMAIN DiscoverRDMADevices(tp.iface, p.direct, p.devs) ELSE {},
        gpu  |-> DOMAIN PopulateGPUTopology(p.node,
                            [r \in ToSet(tp.rails) |-> p.spelled[r]], groups)]

-----------------------------------------------------------------------------
(* The plan.                                                                  *)

crossRailExpectation(mode, routing) ==
    IF mode # "strict" THEN "observe"
    ELSE IF routing = "source" THEN "required" ELSE "forbidden"

\* Pairs of two different rails; in quick mode for the first pod pair only.
crossRailPairs(src, dst, mode, i, j) ==
    {p \in ToSet(src.rails) \X ToSet(dst.rails) :
        /\ Len(src.rails) >= 2 /\ Len(dst.rails) >= 2
        /\ mode \in {"full", "strict"} \/ <<i, j>> = <<1, 2>>
        /\ p[1] # p[2]}

withGPUEndpoints(test, src, dst) ==
    [test EXCEPT !.gpu = test.srcRail \in src.gpu /\ test.dstRail \in dst.gpu]

\* One row per pod and rail, in the order of names.
planGatewayTests(pods) ==
    FlattenSeq([i \in DOMAIN pods |->
       [r \in DOMAIN pods[i].rails |->
          [src |-> pods[i].name, dst |-> 0, srcRail |-> pods[i].rails[r],
           dstRail |-> -1, exp |-> "required", gpu |-> FALSE]]])

\* Can the rail's endpoint take part, also in the RDMA checks if those are planned?
Offers(pod, rail, rdma) == rail \in pod.iface /\ (rdma => rail \in pod.rdma)

\* The tests from one pod to another, for those rail pairs whose ends take part.
PairTests(src, dst, pairs, exp, rdma) ==
    FlattenSeq([a \in DOMAIN src.rails |-> FlattenSeq([b \in DOMAIN dst.rails |->
        IF /\ <<src.rails[a], dst.rails[b]>> \in pairs
           /\ Offers(src, src.rails[a], rdma) /\ Offers(dst, dst.rails[b], rdma)
          THEN <<withGPUEndpoints([src |-> src.name, dst |-> dst.name,
                    srcRail |-> src.rails[a], dstRail |-> dst.rails[b],
                    exp |-> exp, gpu |-> FALSE], src, dst)>>
          ELSE <<>>])])

\* The tests of every ordered pair of pods.
OverPairs(pods, pairs, exp, rdma) ==
    FlattenSeq([i \in DOMAIN pods |-> FlattenSeq([j \in DOMAIN pods |->
        IF i = j THEN <<>>
        ELSE PairTests(pods[i], pods[j], pairs[i][j], exp, rdma)])])

\* A plan lists the tests of each check, those of the RDMA checks once: same-rail
\* tests first, then the cross-rail ones.  pods is sorted by name.
PlanWithOptions(pods, mode, routing) ==
    LET same  == [i \in DOMAIN pods |-> [j \in DOMAIN pods |->
                    {<<r, r>> : r \in ToSet(pods[i].rails)}]]
        cross == [i \in DOMAIN pods |-> [j \in DOMAIN pods |->
                    crossRailPairs(pods[i], pods[j], mode, i, j)]]
        Tests(rdma) == OverPairs(pods, same, "required", rdma)
                         \o OverPairs(pods, cross, crossRailExpectation(mode, routing), rdma)
    IN [gateway |-> planGatewayTests(pods), icmp |-> Tests(FALSE), rdma |-> Tests(TRUE),
        skip    |-> Len(pods) < 2]

testsForCheck(plan, check) ==
    IF check = "gateway" THEN plan.gateway
    ELSE IF check = "icmp" THEN plan.icmp ELSE plan.rdma

\* Tests of one ordered pod pair form a batch, in order of first appearance; a
\* batch is the set of its tests' positions.
groupRPingTests(tests) ==
    LET With(k) == {j \in DOMAIN tests : /\ tests[j].src = tests[k].src
                                         /\ tests[j].dst = tests[k].dst}
        first == Sorted({k \in DOMAIN tests : \A j \in With(k) : k <= j})
    IN [n \in DOMAIN first |-> With(first[n])]

-----------------------------------------------------------------------------
(* Deadlines, in seconds.                                                     *)

routeCheckTimeout        == 10
gatewayConfigTimeout     == 10
icmpCommandTimeout       == 5
rdmaServerLogTimeout     == 5
rdmaServerCleanupTimeout == 3
automaticSafetyMinimum   == 30
rdmaServerSettleDelay    == 2

commandTimeout(check) == IF check = "icmp" THEN icmpCommandTimeout
                         ELSE IF check = "rping" THEN 30 ELSE 45

commandTimeoutFor(test, default) ==
    IF test.exp \in {"forbidden", "observe"} THEN 5 ELSE default

\* A batch settles at the pace of an observe-only test unless one is required.
rdmaBatchSettleDelayFor(tests) == rdmaServerSettleDelay

rdmaBatchTimeoutFor(check, tests, batch) ==
    LET Each(k) == IF k \in batch
                   THEN commandTimeoutFor(tests[k], commandTimeout(check))
                          + rdmaBatchSettleDelayFor(<<tests[k]>>)
                   ELSE 0
    IN (IF check = "rping" THEN 15 ELSE 20) + rdmaServerLogTimeout
         + SumTo([k \in DOMAIN tests |-> Each(k)], Len(tests))

requiredRouteBudget(tests) ==
    SumOf(tests, LAMBDA t : IF t.exp = "required" THEN routeCheckTimeout ELSE 0)

allRouteBudget(tests) == Len(tests) * routeCheckTimeout

\* Mutant: the listeners' clean-up after each batch is not budgeted.
BudgetForgetsCleanup(check, tests) ==
    IF check = "gateway"
      THEN Len(tests) * (gatewayConfigTimeout + 2 * routeCheckTimeout + icmpCommandTimeout)
    ELSE IF check = "icmp"
      THEN allRouteBudget(tests)
           + SumOf(tests, LAMBDA t : commandTimeoutFor(t, icmpCommandTimeout))
    ELSE requiredRouteBudget(tests)
           + SumOf(groupRPingTests(tests), LAMBDA b : rdmaBatchTimeoutFor(check, tests, b))

\* What the tests of one family may take.
CheckBudget(check, tests) ==
    IF check = "gateway"
      THEN Len(tests) * (gatewayConfigTimeout + 2 * routeCheckTimeout + icmpCommandTimeout)
    ELSE IF check = "icmp"
      THEN allRouteBudget(tests)
           + SumOf(tests, LAMBDA t : commandTimeoutFor(t, icmpCommandTimeout))
    ELSE requiredRouteBudget(tests)
           + SumOf(groupRPingTests(tests),
                   LAMBDA b : rdmaBatchTimeoutFor(check, tests, b) + rdmaServerCleanupTimeout)

\* What the tests of a plan may take: budget.Tests.
automaticTimeoutBudget(plan, checks) ==
    SumOf(Stages, LAMBDA c : IF c \in normalizeChecks(checks)
                             THEN CheckBudget(c, testsForCheck(plan, c)) ELSE 0)

\* The deadline of the tests: what they may take, and a safety margin.
executionTimeout(plan, checks) ==
    LET t == automaticTimeoutBudget(plan, checks)
    IN t + (IF t \div 10 < automaticSafetyMinimum THEN automaticSafetyMinimum ELSE t \div 10)

-----------------------------------------------------------------------------
(* Verdicts.                                                                  *)

\* A lookup that failed or named no device is an error, another rail than the
\* expected one a mismatch; a container without ip is given the benefit.
routeValidationError(route, expected) ==
    IF route \in {NoRoute, RouteSkip, Via(expected)} THEN "no"
    ELSE IF route \in {NoDevice, RouteFailed} THEN "failed" ELSE "mismatch"

\* What a result says, given what was observed.
finalizeExpectedResult(exp, observed) ==
    IF exp = "observe" THEN TRUE
    ELSE IF exp = "forbidden" THEN ~observed ELSE observed

\* bw and min in Gbps; 0 is no minimum.
bandwidthVerdict(bw, min) == bw > 0 /\ ~(min > 0 /\ bw < min)

ibWriteBwRunnable(test, route, gpuDirect) ==
    routeValidationError(route, test.srcRail) = "no" /\ (gpuDirect => test.gpu)
=============================================================================

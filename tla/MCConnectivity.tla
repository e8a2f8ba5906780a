---------------------------- MODULE MCConnectivity ----------------------------
(* Two pods with two rails, RDMA devices on three of the four endpoints, and  *)
(* a third without a usable address.                                          *)
EXTENDS Connectivity

MCDaemonSets == <<"ds">>
MCSupport    == <<"namespace", "nad", "scc">>

Ip(id, v4, global) == [id |-> id, v4 |-> v4, global |-> global]
Attach(rail, ips) == [default |-> FALSE, rail |-> rail, iface |-> TRUE, ips |-> ips]
PodNet == [Attach(0, <<Ip("pod", TRUE, TRUE)>>) EXCEPT !.default = TRUE]
Pf(rail, gpu) == [ew |-> TRUE, rail |-> rail, gpu |-> gpu]
Spelled(rail, plane) == [rail |-> rail, plane |-> plane]

\* Pod 1 has a device under its first interface only and no GPU on its second
\* rail; pod 2 has one device per rail, two planes' worth of GPUs on rail 1 and
\* rail 1 attached twice.
MCPodsOf == [d \in {"ds"} |->
    <<[name |-> 1, node |-> "w1", direct |-> (0 :> "mlx5_0"), devs |-> <<>>,
       nets |-> <<PodNet, Attach(1, <<Ip("fd::1", FALSE, TRUE), Ip("10.1.1", TRUE, TRUE)>>),
                  Attach(0, <<Ip("fe80::1", FALSE, FALSE), Ip("10.0.1", TRUE, TRUE)>>)>>,
       spelled |-> (0 :> Spelled(0, 1) @@ 1 :> Spelled(1, -1))],
      [name |-> 2, node |-> "w2", direct |-> <<>>, devs |-> <<"mlx5_0", "mlx5_1">>,
       nets |-> <<PodNet, Attach(0, <<Ip("10.0.2", TRUE, TRUE)>>),
                  Attach(1, <<Ip("fd::2", FALSE, TRUE)>>), Attach(1, <<Ip("fd::3", FALSE, TRUE)>>)>>,
       spelled |-> (0 :> Spelled(0, -1) @@ 1 :> Spelled(1, 2))],
      [name |-> 3, node |-> "w2", direct |-> <<>>, devs |-> <<>>,
       nets |-> <<PodNet, Attach(0, <<Ip("fe80::3", FALSE, FALSE)>>)>>, spelled |-> <<>>]>>]

MCGroups == <<[workers |-> {"w1"}, pfs |-> <<Pf(0, "gpu0"), Pf(0, "gpu1")>>],
              [workers |-> {"w2"}, pfs |-> <<Pf(0, "gpu0"), Pf(0, "gpu0"), Pf(1, "gpu0"), Pf(1, "gpu1")>>]>>

Base == [ocp |-> FALSE, keep |-> FALSE, mode |-> "strict", routing |-> "destination",
         checks |-> NoChecks, min |-> 0, helper |-> TRUE, capacity |-> TRUE,
         slow |-> FALSE]

MCOptions ==
    {Base,
     [Base EXCEPT !.ocp = TRUE, !.checks = <<"rping">>],
     [Base EXCEPT !.ocp = TRUE, !.checks = <<"gateway">>, !.keep = TRUE],
     [Base EXCEPT !.mode = "quick", !.checks = <<"gpudirect">>, !.slow = TRUE],
     [Base EXCEPT !.routing = "source", !.checks = <<"rping", "rping", "ib_write_bw">>,
                  !.slow = TRUE, !.min = 10],
     [Base EXCEPT !.slow = TRUE, !.mode = "full"],
     [Base EXCEPT !.checks = <<>>],
     [Base EXCEPT !.helper = FALSE],
     [Base EXCEPT !.ocp = TRUE, !.capacity = FALSE]}

Net(leaky, bw, routing, ready, g0, g1) ==
    [leaky |-> leaky, bw |-> bw, routing |-> routing,
     status |-> [desired |-> 2, updated |-> 2, ready |-> ready],
     gateway |-> [r \in {0, 1} |-> IF r = 0 THEN g0 ELSE g1]]

MCNetworks ==
    {Net(TRUE, 20, "source", 2, "up", "none"), Net(FALSE, 20, "destination", 2, "down", "up"),
     Net(TRUE, 5, "noip", 2, "up", "up"), Net(FALSE, 20, "none", 2, "up", "up"),
     Net(FALSE, 20, "source", 1, "up", "up")}

=============================================================================

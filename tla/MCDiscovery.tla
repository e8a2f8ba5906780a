----------------------------- MODULE MCDiscovery -----------------------------
(* Two nodes; the NicDevices of the second may belong to another operator.  *)
EXTENDS Discovery

\* A node with an east-west and a north-south NIC, and one with another GPU
\* that has the first NIC only: so does the former while only that NIC is
\* reported.  With the north-south NIC alone it makes no group.
MCHardware == {{"a", "s"}, {"a"}}
MCEastWest == {{"a", "s"}, {"a"}}
MCProduct  == [h \in Hardware \cup {{}} |->
                [machine |-> "m", gpu |-> IF h = {"a"} THEN "g2" ELSE "g1"]]
MCStatic   == [n \in Nodes |-> {<<"pool", <<"a">>>>}]
MCLayouts  == {[n1 |-> {"a", "s"}, n2 |-> {"a", "s"}]}
MCTouched  == {<<"gpu", <<"g1">>>>, <<"machine", <<"m", "g1">>>>}
MCRuns     == {[keep |-> FALSE, workers |-> {}], [keep |-> TRUE, workers |-> {"n1"}]}
=============================================================================

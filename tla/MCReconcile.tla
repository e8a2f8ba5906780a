---------------------------- MODULE MCReconcile ----------------------------
(***************************************************************************)
(* Reconcile on the kinds the code tells apart: a NicClusterPolicy, an     *)
(* IPPool or SR-IOV policy, and a NicInterfaceNameTemplate.  A gated kind  *)
(* that is not the cluster policy takes a subset of the policy's steps.    *)
(***************************************************************************)
EXTENDS Reconcile

Policy   == [gated |-> TRUE, scoped |-> FALSE, owned |-> TRUE, retried |-> FALSE]
Pool     == [gated |-> FALSE, scoped |-> TRUE, owned |-> FALSE, retried |-> FALSE]
Template == [gated |-> FALSE, scoped |-> FALSE, owned |-> FALSE, retried |-> TRUE]

AllKinds   == {Policy, Pool, Template}
PolicyOnly == {Policy}
=============================================================================

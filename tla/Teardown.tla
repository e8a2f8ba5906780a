------------------------------ MODULE Teardown ------------------------------
(***************************************************************************)
(* What l8k clean promises, seen from outside: the operator is removed     *)
(* only when no custom resource of its deletion boundary is left, since    *)
(* only a running operator can process their finalizers, and once cleanup  *)
(* reports success nothing grows back.                                     *)
(***************************************************************************)
CONSTANT Refs       \* the custom resources inside the deletion boundary

VARIABLES
    crs,            \* the ones that exist
    operator,       \* the operator's controllers are running
    outcome         \* "running", "failed" or "success"

vars == <<crs, operator, outcome>>

Init ==
    /\ crs \subseteq Refs
    /\ operator \in BOOLEAN /\ (operator \/ crs = {})
    /\ outcome = "running"

\* While the operator runs, resources come and go in any way.
Churn ==
    /\ operator /\ outcome # "success"
    /\ crs' \subseteq Refs
    /\ UNCHANGED <<operator, outcome>>

Uninstall ==
    /\ crs = {} /\ outcome = "running"
    /\ operator' = FALSE /\ outcome' \in {"success", "failed"}
    /\ UNCHANGED crs

KeepOperator ==
    /\ crs = {} /\ outcome = "running" /\ outcome' = "success"
    /\ UNCHANGED <<crs, operator>>

Fail == outcome = "running" /\ outcome' = "failed" /\ UNCHANGED <<crs, operator>>

Retry == outcome = "failed" /\ outcome' = "running" /\ UNCHANGED <<crs, operator>>

Next == Churn \/ Uninstall \/ KeepOperator \/ Fail \/ Retry

Spec == Init /\ [][Next]_vars
=============================================================================

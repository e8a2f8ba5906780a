------------------------------ MODULE MCDeploy ------------------------------
(***************************************************************************)
(* Deploy on a bundle with a NicClusterPolicy, one NicNodePolicy, an       *)
(* IPPool and a Pod, and one stray resource.                               *)
(***************************************************************************)
EXTENDS Deploy

CONSTANTS ncp, nnp, pool, pod, stray

MCPolicies == <<ncp, nnp>>
MCOthers   == <<pool, pod>>
=============================================================================

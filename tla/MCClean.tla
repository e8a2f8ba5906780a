------------------------------ MODULE MCClean ------------------------------
(***************************************************************************)
(* Clean on four kinds: two namespaced ones, one of which controllers      *)
(* create, and two cluster-scoped ones, the last the root policy.          *)
(***************************************************************************)
EXTENDS Clean, TLC

CONSTANTS device, pool, network, policy

MCNamespaced    == {device, pool}
MCClusterScoped == {network, policy}
MCRank == device :> 1 @@ pool :> 2 @@ network :> 3 @@ policy :> 4

\* A pool's finalizer waits for the policy to enter deletion, the policy's for
\* the network: each dependency points at a ref that is signalled later.
MCNeeds == device :> {} @@ pool :> {policy} @@ network :> {} @@ policy :> {network}
=============================================================================

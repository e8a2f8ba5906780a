----------------------------- MODULE MCTakeover -----------------------------
(* One component stands for both: Multus and the CNI plugins are checked    *)
(* alike and independently.  Two policy names, so that a bundle without a   *)
(* NicClusterPolicy has two strays.  A dry run, and a run that leaves Helm  *)
(* alone, differ from the others only with --overwrite-existing.            *)
EXTENDS Takeover

MCRuns ==
    {o \in Options :
        /\ ~o.bundled => o.renders = {}
        /\ o.chart # "c2"
        /\ o.dryRun \/ o.chart = NoChart => o.overwrite
        /\ ~(o.dryRun /\ o.chart = NoChart)}
=============================================================================

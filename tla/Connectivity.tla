----------------------------- MODULE Connectivity -----------------------------
(* One run of the connectivity matrix (RunMatrixBundle): create the test      *)
(* workloads, wait for their pods, plan, probe family by family, clean up.    *)
(* Every API call and every exec into a pod is a step.                        *)
EXTENDS Matrix

CONSTANTS
    Options,      \* option records: checks, routing mode, platform, limits
    Groups,       \* the discovered groups, for the GPU of a rail
    DaemonSets,   \* the bundle's test DaemonSets, in order
    SupportObjs,  \* OpenShift: what isolation and support create, in order
    Foreign,      \* sets of those objects that may exist before the run
    PodsOf,       \* the pods of a DaemonSet, in the order of names
    Networks,     \* [leaky, bw, routing, status, gateway]: the cluster
    MaxFaults     \* bound on calls that fail, are lost, or interference

ASSUME ConnectivityAssumption ==
    /\ MaxFaults \in Nat
    /\ DaemonSets \in Seq(ToSet(DaemonSets))
    /\ SupportObjs \in Seq(ToSet(SupportObjs))
    /\ \A d \in ToSet(DaemonSets) :
          /\ PodsOf[d] \in Seq(ToSet(PodsOf[d]))
          /\ \A p \in ToSet(PodsOf[d]) : p.nets \in Seq(ToSet(p.nets))

VARIABLES
    cfg, net, foreign,
    pc, next,           \* position in the run, index of the object or test
    cluster,            \* test objects that exist
    created, support,   \* createdDaemonSets, createdSupport
    pods,               \* the pods the matrix is built from
    plan,               \* the tests of each check
    stage, tests,       \* the family that is probed and its tests
    routes,             \* what is known of the route of each
    batches, cache,
    listeners,          \* [pod, prog, of]: the server processes in the pods
    expired,            \* the context of the run is done
    clock,              \* seconds spent executing tests
    sum, outcome,
    last,               \* the latest results of this stage
    stalled,            \* history: an exec of the ICMP check took what was left
    lost, undeleted,    \* history: what creates and deletes put out of reach
    fresh,              \* history: the routes looked up in this stage
    faults

vars == <<cfg, net, foreign, pc, next, cluster, created, support, pods, plan,
          stage, tests, routes, batches, cache, listeners, expired, clock, sum, outcome, last,
          stalled, lost, undeleted, fresh, faults>>

setup   == <<cluster, created, support, lost>>
probes  == <<stage, tests, routes, batches, cache, listeners, clock, sum, last, fresh>>
ending  == <<undeleted, outcome>>
context == <<cfg, net, foreign, expired, stalled>>

Checks  == normalizeChecks(cfg.checks)
Objects == IF cfg.ocp THEN SupportObjs \o DaemonSets ELSE DaemonSets
Prog(c) == IF c = "rping" THEN "rping" ELSE "ib_write_bw"
Check   == Stages[stage]
AllPods == UNION {ToSet(PodsOf[d]) : d \in ToSet(DaemonSets)}
Names   == {p.name : p \in AllPods}

Fault    == /\ faults < MaxFaults
            /\ faults' = faults + 1
NoFault  == UNCHANGED faults
Spend(s) == clock' = IF cfg.slow THEN clock + s ELSE clock

-----------------------------------------------------------------------------

Init ==
    /\ cfg \in Options
    /\ net \in Networks
    /\ foreign \in Foreign
    /\ pc = "start" /\ next = 1
    /\ cluster = foreign
    /\ created = <<>> /\ support = <<>>
    /\ pods = <<>> /\ plan = <<>>
    /\ stage = 0 /\ tests = <<>> /\ routes = <<>> /\ batches = <<>> /\ cache = <<>>
    /\ listeners \in {{}, {[pod |-> p, prog |-> "rping", of |-> <<0, 0>>] : p \in Names}}
    /\ expired = FALSE /\ stalled = FALSE
    /\ clock = 0
    /\ sum = [passed |-> 0, failed |-> 0, skipped |-> 0]
    /\ outcome = "none"
    /\ last = {}
    /\ lost = {} /\ undeleted = {} /\ fresh = {}
    /\ faults = 0

-----------------------------------------------------------------------------
(* Setting up.                                                                *)

\* Returns before anything is created: no clean-up is registered yet.
Start ==
    /\ pc = "start"
    /\ LET early == \/ Checks = {}
                    \/ Objects = <<>>
           bad   == ~cfg.helper \/ (cfg.ocp /\ ~cfg.capacity)
       IN /\ pc' = IF early \/ bad THEN "done" ELSE "create"
          /\ outcome' = IF early THEN "skipped" ELSE IF bad THEN "error" ELSE outcome
    /\ NoFault
    /\ UNCHANGED <<next, pods, plan, undeleted, setup, probes, context>>

\* Mutant: only DaemonSets are remembered.
RecordDaemonSets(o) == /\ created' = IF o \in ToSet(DaemonSets) THEN Append(created, o)
                                     ELSE created
                       /\ UNCHANGED support

\* A created object is remembered for the clean-up only if the call said so.
Record(o) == IF o \in ToSet(DaemonSets)
               THEN created' = Append(created, o) /\ UNCHANGED support
               ELSE support' = Append(support, o) /\ UNCHANGED created

\* The next object.  On OpenShift it must not exist and is created; otherwise a
\* DaemonSet is applied over whatever is there.  A failed call ends the run; its
\* effect may have happened nevertheless.
Create ==
    /\ pc = "create" /\ next <= Len(Objects)
    /\ LET o == Objects[next]
       IN \/ /\ ~expired /\ (cfg.ocp => o \notin cluster)
             /\ cluster' = cluster \union {o}
             /\ Record(o)
             /\ next' = next + 1
             /\ NoFault /\ UNCHANGED <<pc, outcome, lost>>
          \/ /\ IF expired \/ (cfg.ocp /\ o \in cluster) THEN NoFault ELSE Fault
             /\ \/ UNCHANGED <<cluster, lost>>
                \/ /\ ~expired /\ (cfg.ocp => o \notin cluster)
                   /\ cluster' = cluster \union {o} /\ lost' = lost \union {o}
             /\ pc' = "cleanup" /\ next' = 1 /\ outcome' = "error"
             /\ UNCHANGED <<created, support>>
    /\ UNCHANGED <<pods, plan, undeleted, probes, context>>

AllCreated ==
    /\ pc = "create" /\ next > Len(Objects)
    /\ pc' = "rollout" /\ next' = 1
    /\ NoFault
    /\ UNCHANGED <<pods, plan, setup, probes, ending, context>>

\* A status is [desired, updated, ready].
IsRolledOut(s) == s.desired > 0 /\ s.updated = s.desired /\ s.ready = s.desired

\* Mutant: the wait has no deadline of its own.
WaitWithoutDeadline ==
    /\ pc = "rollout" /\ next <= Len(DaemonSets)
    /\ LET d == DaemonSets[next]
       IN \/ /\ ~expired /\ IsRolledOut(net.status)
             /\ \E ready \in SUBSET DOMAIN PodsOf[d] :
                  /\ pods' = pods \o Keep(PodsOf[d], ready)
                  /\ IF ready = DOMAIN PodsOf[d] THEN NoFault ELSE Fault
             /\ next' = next + 1
             /\ UNCHANGED <<pc, outcome>>
          \/ /\ expired /\ NoFault
             /\ pc' = "cleanup" /\ next' = 1 /\ outcome' = "error"
             /\ UNCHANGED pods
    /\ UNCHANGED <<plan, undeleted, setup, probes, context>>

\* WaitForRollout and, once rolled out, ListPods: a pod that is not Running and
\* Ready at that moment is left out.  A read that fails, the poll deadline and
\* the end of the context end the run.
WaitForRollout ==
    /\ pc = "rollout" /\ next <= Len(DaemonSets)
    /\ LET d == DaemonSets[next]
       IN \/ /\ ~expired /\ IsRolledOut(net.status)
             /\ \E ready \in SUBSET DOMAIN PodsOf[d] :
                  /\ pods' = pods \o Keep(PodsOf[d], ready)
                  /\ IF ready = DOMAIN PodsOf[d] THEN NoFault ELSE Fault
             /\ next' = next + 1
             /\ UNCHANGED <<pc, outcome>>
          \/ /\ IF expired \/ ~IsRolledOut(net.status) THEN NoFault ELSE Fault
             /\ pc' = "cleanup" /\ next' = 1 /\ outcome' = "error"
             /\ UNCHANGED pods
    /\ UNCHANGED <<plan, undeleted, setup, probes, context>>

HasRDMA == Checks \cap {"rping", "ib_write_bw", "gpudirect"} # {}

\* Parse the annotations, probe the RDMA devices, look up the GPUs: a pod with
\* a broken annotation or no rail is left out, one whose probe fails has no
\* devices.
BuildMatrixPods ==
    /\ pc = "rollout" /\ next > Len(DaemonSets)
    /\ \E built \in {[i \in DOMAIN pods |-> matrixPod(pods[i], Groups, HasRDMA)]} :
       \E usable \in {Keep(built, {i \in DOMAIN pods : built[i].rails # <<>>})} :
          \/ pods' = usable /\ NoFault
          \/ /\ usable # <<>> /\ Fault
             /\ \/ pods' = Tail(usable)
                \/ pods' = [usable EXCEPT ![1].rdma = {}]
    /\ pc' = "plan" /\ next' = 1
    /\ UNCHANGED <<plan, setup, probes, ending, context>>

\* Too few pods skip the matrix unless gateway rows remain; OpenShift fails
\* unless gateway was all that was asked for.
MakePlan ==
    /\ pc = "plan"
    /\ plan' = PlanWithOptions(pods, cfg.mode, cfg.routing)
    /\ LET has == "gateway" \in Checks
           out == plan'.skip /\ (~has \/ plan'.gateway = <<>>)
       IN /\ pc' = IF out THEN "cleanup" ELSE "stage"
          /\ outcome' = IF ~out THEN outcome
                        ELSE IF cfg.ocp /\ Checks # {"gateway"} THEN "error"
                        ELSE "skipped"
    /\ next' = 1
    /\ NoFault
    /\ UNCHANGED <<pods, undeleted, setup, probes, context>>

-----------------------------------------------------------------------------
(* Probing.                                                                   *)

\* The next stage in the fixed order; unselected and empty ones are passed over.
BeginStage ==
    /\ pc = "stage"
    /\ LET later == {k \in (stage + 1) .. Len(Stages) :
                       /\ Stages[k] \in Checks
                       /\ testsForCheck(plan, Stages[k]) # <<>>}
       IN IF later = {}
            THEN /\ pc' = "cleanup" /\ outcome' = "ok"
                 /\ UNCHANGED <<stage, tests, routes, last, fresh>>
            ELSE LET k == Min(later)
                 IN /\ stage' = k
                    /\ tests' = testsForCheck(plan, Stages[k])
                    /\ pc' = IF Stages[k] = "gateway" THEN "single" ELSE "routes"
                    /\ routes' = [n \in DOMAIN tests' |-> NoRoute]
                    /\ last' = {} /\ fresh' = {}
                    /\ UNCHANGED outcome
    /\ next' = 1
    /\ NoFault
    /\ UNCHANGED <<pods, plan, undeleted, batches, cache, listeners, clock, sum, setup,
                   context>>

\* Whether a packet of the test leaves by its own rail, another, or none.
ActualRoute(t) == IF net.routing = "source" THEN Via(t.srcRail)
                  ELSE IF net.routing = "none" THEN NoDevice
                  ELSE IF net.routing = "noip" THEN RouteSkip ELSE Via(t.dstRail)

NeedsRoute(t)  == t.exp = "required" \/ Check = "icmp"
RouteKey(t)    == <<t.src, t.srcRail, t.dst, t.dstRail>>
Put(f, k, v)   == [x \in DOMAIN f \union {k} |-> IF x = k THEN v ELSE f[x]]

\* Mutant: a failed lookup is cached like any other.
CheckRouteCachesFailure ==
    /\ pc = "routes" /\ next <= Len(tests)
    /\ LET t == tests[next]
       IN IF ~NeedsRoute(t) THEN NoFault /\ UNCHANGED <<routes, cache, clock, fresh>>
          ELSE IF RouteKey(t) \in DOMAIN cache
            THEN /\ routes' = [routes EXCEPT ![next] = cache[RouteKey(t)]]
                 /\ NoFault /\ UNCHANGED <<cache, clock, fresh>>
          ELSE \E failed \in (IF expired THEN {TRUE} ELSE BOOLEAN) :
                 LET r == IF failed THEN RouteFailed ELSE ActualRoute(t)
                 IN /\ routes' = [routes EXCEPT ![next] = r]
                    /\ cache' = Put(cache, RouteKey(t), r)
                    /\ fresh' = fresh \union {RouteKey(t)}
                    /\ Spend(routeCheckTimeout)
                    /\ IF failed /\ ~expired THEN Fault ELSE NoFault
    /\ next' = next + 1
    /\ UNCHANGED <<pc, pods, plan, stage, tests, batches, listeners, sum, last, setup,
                   ending, context>>

\* One test of checkSourceRoutes.  Only results that would be the same again
\* are cached; fresh remembers whose lookup was made in this stage.
CheckRoute ==
    /\ pc = "routes" /\ next <= Len(tests)
    /\ LET t == tests[next]
       IN IF ~NeedsRoute(t) THEN NoFault /\ UNCHANGED <<routes, cache, clock, fresh>>
          ELSE IF RouteKey(t) \in DOMAIN cache
            THEN /\ routes' = [routes EXCEPT ![next] = cache[RouteKey(t)]]
                 /\ NoFault /\ UNCHANGED <<cache, clock, fresh>>
          ELSE \E failed \in (IF expired THEN {TRUE} ELSE BOOLEAN) :
                 LET r == IF failed THEN RouteFailed ELSE ActualRoute(t)
                 IN /\ routes' = [routes EXCEPT ![next] = r]
                    /\ cache' = IF failed THEN cache ELSE Put(cache, RouteKey(t), r)
                    /\ fresh' = fresh \union {RouteKey(t)}
                    /\ Spend(routeCheckTimeout)
                    /\ IF failed /\ ~expired THEN Fault ELSE NoFault
    /\ next' = next + 1
    /\ UNCHANGED <<pc, pods, plan, stage, tests, batches, listeners, sum, last, setup,
                   ending, context>>

RoutesChecked ==
    /\ pc = "routes" /\ next > Len(tests)
    /\ pc' = IF Check = "icmp" THEN "single" ELSE "server"
    /\ batches' = IF Check = "icmp" THEN <<>> ELSE groupRPingTests(tests)
    /\ next' = 1
    /\ NoFault
    /\ UNCHANGED <<pods, plan, stage, tests, routes, cache, listeners, clock, sum, last,
                   fresh, setup, ending, context>>

\* A result: the route it was judged by, what the code says (ok, skip) and what
\* happened (traffic).
Result(t, route, ok, skip, traffic) ==
    [test |-> t, route |-> route, ok |-> ok, skip |-> skip, traffic |-> traffic]

\* SkipReason first, then OK.
Report(results) ==
    /\ last' = results
    /\ sum' = [passed  |-> sum.passed + Cardinality({r \in results : ~r.skip /\ r.ok}),
               failed  |-> sum.failed + Cardinality({r \in results : ~r.skip /\ ~r.ok}),
               skipped |-> sum.skipped + Cardinality({r \in results : r.skip})]

\* Does traffic of a test get through?  Same rail always, cross rail if leaky.
Flows(t) == t.srcRail = t.dstRail \/ net.leaky

\* The route of a gateway row is looked up by the row itself: the gateway is on
\* the source rail's network, and a container without ip names no device.
GatewayRoute(t) == IF net.routing \in {"none", "noip"} THEN NoDevice ELSE Via(t.srcRail)

\* Configuration lookup, route query and source route, one echo request.  A rail
\* attached twice or without an interface fails, one without a gateway is
\* skipped (the query needs ip); every call that fails fails the row.
RunGateway ==
    /\ pc = "single" /\ Check = "gateway" /\ next <= Len(tests)
    /\ LET t == tests[next]
           p == CHOOSE q \in ToSet(pods) : q.name = t.src
           g == net.gateway[t.srcRail]
           clear == t.srcRail \in p.iface \ p.ambiguous
           up == /\ clear /\ g = "up"
                 /\ routeValidationError(GatewayRoute(t), t.srcRail) = "no"
           skip == clear /\ g = "none" /\ net.routing # "noip"
       IN \/ /\ ~expired /\ NoFault
             /\ Report({Result(t, GatewayRoute(t), up, skip, up)})
          \/ /\ IF expired THEN NoFault ELSE Fault
             /\ Report({Result(t, routes[next], FALSE, FALSE, FALSE)})
    /\ Spend(gatewayConfigTimeout + 2 * routeCheckTimeout + icmpCommandTimeout)
    /\ next' = next + 1
    /\ UNCHANGED <<pc, pods, plan, stage, tests, routes, batches, cache, listeners, fresh,
                   setup, ending, context>>

\* A mismatch counts as "no traffic"; a failed lookup fails whatever is expected.
RunICMP ==
    /\ pc = "single" /\ Check = "icmp" /\ next <= Len(tests)
    /\ LET t == tests[next]
           route == routes[next]
           err == routeValidationError(route, t.srcRail)
           Judge(seen) == Report({Result(t, route, finalizeExpectedResult(t.exp, seen),
                                         FALSE, seen)})
       IN IF err = "failed"
            THEN Report({Result(t, route, FALSE, FALSE, FALSE)}) /\ NoFault /\ Spend(0)
          ELSE IF err = "mismatch" THEN Judge(FALSE) /\ NoFault /\ Spend(0)
          ELSE /\ Spend(commandTimeoutFor(t, icmpCommandTimeout))
               /\ \/ ~expired /\ Judge(Flows(t)) /\ NoFault
                  \/ /\ IF expired THEN NoFault ELSE Fault
                     /\ Judge(FALSE)
    /\ next' = next + 1
    /\ UNCHANGED <<pc, pods, plan, stage, tests, routes, batches, cache, listeners, fresh,
                   setup, ending, context>>

\* The exec of an echo request has no deadline but that of all tests: only the
\* timeout command in the pod ends the ping.  If the exec hangs, the row fails
\* when that deadline passes.
ICMPStalls ==
    /\ pc = "single" /\ Check = "icmp" /\ next <= Len(tests)
    /\ ~expired /\ Fault
    /\ LET t == tests[next]
       IN /\ routeValidationError(routes[next], t.srcRail) = "no"
          /\ Report({Result(t, routes[next], finalizeExpectedResult(t.exp, FALSE), FALSE, FALSE)})
    /\ clock' = executionTimeout(plan, cfg.checks)
    /\ expired' = TRUE /\ stalled' = TRUE
    /\ next' = next + 1
    /\ UNCHANGED <<pc, pods, plan, cfg, net, foreign, stage, tests, routes, batches, cache,
                   listeners, fresh, setup, ending>>

SinglesDone ==
    /\ pc = "single" /\ next > Len(tests)
    /\ pc' = "stage" /\ next' = 1
    /\ NoFault
    /\ UNCHANGED <<pods, plan, probes, setup, ending, context>>

Batch        == Head(batches)
FirstOfBatch == tests[CHOOSE k \in Batch : TRUE]
ServerPod    == FirstOfBatch.dst
ThisBatch    == [pod |-> ServerPod, prog |-> Prog(Check), of |-> <<stage, FirstOfBatch.src>>]
Runnable(k)  == ibWriteBwRunnable(tests[k], routes[k], Check = "gpudirect")
FailedBatch  == {Result(tests[k], routes[k], FALSE, FALSE, FALSE) : k \in Batch}
Servers      == {l \in listeners : l.pod = ServerPod /\ l.prog = Prog(Check)}

\* Mutant: the server command does not kill what listens already.
StartServersKeepsOld ==
    /\ pc = "server" /\ batches # <<>>
    /\ IF ~\E k \in Batch : Runnable(k)
         THEN /\ Report(FailedBatch)
              /\ batches' = Tail(batches) /\ pc' = pc
              /\ NoFault /\ UNCHANGED <<listeners, clock>>
       ELSE LET started == listeners \union {ThisBatch}
            IN \/ /\ ~expired /\ NoFault
                  /\ listeners' = started /\ pc' = "client"
                  /\ UNCHANGED <<batches, last, sum, clock>>
               \/ /\ IF expired THEN NoFault ELSE Fault
                  /\ listeners' \in (IF expired THEN {listeners} ELSE {listeners, started})
                  /\ Report(FailedBatch)
                  /\ Spend(rdmaBatchTimeoutFor(Check, tests, Batch))
                  /\ batches' = Tail(batches) /\ pc' = pc
    /\ UNCHANGED <<next, pods, plan, stage, tests, routes, cache, fresh, setup, ending,
                   context>>

\* The server exec of the next batch: kill what is left of the program in the
\* pod, start one listener per runnable test.  Nothing runnable: no exec.  If
\* the call fails the listeners may run, and no kill is registered for them.
StartServers ==
    /\ pc = "server" /\ batches # <<>>
    /\ IF ~\E k \in Batch : Runnable(k)
         THEN /\ Report(FailedBatch)
              /\ batches' = Tail(batches) /\ pc' = pc
              /\ NoFault /\ UNCHANGED <<listeners, clock>>
       ELSE LET started == (listeners \ Servers) \union {ThisBatch}
            IN \/ /\ ~expired /\ NoFault
                  /\ listeners' = started /\ pc' = "client"
                  /\ UNCHANGED <<batches, last, sum, clock>>
               \/ /\ IF expired THEN NoFault ELSE Fault
                  /\ listeners' \in (IF expired THEN {listeners} ELSE {listeners, started})
                  /\ Report(FailedBatch)
                  /\ Spend(rdmaBatchTimeoutFor(Check, tests, Batch))
                  /\ batches' = Tail(batches) /\ pc' = pc
    /\ UNCHANGED <<next, pods, plan, stage, tests, routes, cache, fresh, setup, ending,
                   context>>

\* What a cell of the client's output says: nothing, or whether the program ran
\* to success (rping) or measured enough (ib_write_bw).
Observed(t) == IF Check = "rping" THEN Flows(t)
               ELSE bandwidthVerdict(IF Flows(t) THEN net.bw ELSE 0, cfg.min)

\* Mutant: a cell is judged whether or not its test could run.
CellResultIgnoresErr(k, parsed) ==
    LET t == tests[k] IN
    Result(t, routes[k], finalizeExpectedResult(t.exp, parsed /\ Observed(t)), FALSE,
           parsed /\ Flows(t))

CellResult(k, parsed) ==
    LET t == tests[k] IN
    IF ~Runnable(k) THEN Result(t, routes[k], FALSE, FALSE, FALSE)
    ELSE Result(t, routes[k], finalizeExpectedResult(t.exp, parsed /\ Observed(t)), FALSE,
                parsed /\ Flows(t))

\* The client exec.  The output of the first cells may be missing when the exec
\* breaks off; the settle wait may see the context end first, which fails all.
RunClient ==
    /\ pc = "client"
    /\ \/ /\ ~expired /\ NoFault
          /\ Report({CellResult(k, TRUE) : k \in Batch})
       \/ /\ ~expired /\ Fault
          /\ \E n \in Batch : Report({CellResult(k, k < n) : k \in Batch})
       \/ /\ expired /\ NoFault
          /\ \/ Report(FailedBatch)
             \/ Report({CellResult(k, FALSE) : k \in Batch})
    /\ Spend(rdmaBatchTimeoutFor(Check, tests, Batch))
    /\ pc' = "kill"
    /\ UNCHANGED <<next, pods, plan, stage, tests, routes, batches, cache, listeners, fresh,
                   setup, ending, context>>

\* The deferred kill has a context of its own and is best effort.
KillServers ==
    /\ pc = "kill"
    /\ \/ listeners' = listeners \ Servers /\ NoFault
       \/ UNCHANGED listeners /\ Fault
    /\ Spend(rdmaServerCleanupTimeout)
    /\ batches' = Tail(batches)
    /\ pc' = "server"
    /\ UNCHANGED <<next, pods, plan, stage, tests, routes, cache, sum, last, fresh, setup,
                   ending, context>>

BatchesDone ==
    /\ pc = "server" /\ batches = <<>>
    /\ pc' = "stage" /\ next' = 1
    /\ NoFault
    /\ UNCHANGED <<pods, plan, probes, setup, ending, context>>

-----------------------------------------------------------------------------
(* Cleaning up.                                                               *)

\* DaemonSets in order, then support objects in reverse.
Deletions == created \o Reverse(support)

\* One deletion of the deferred clean-up, in a context of its own.  A failure
\* is a warning and the next object is deleted.
Cleanup ==
    /\ pc = "cleanup" /\ ~cfg.keep /\ next <= Len(Deletions)
    /\ LET o == Deletions[next]
       IN \/ /\ cluster' = cluster \ {o}
             /\ NoFault /\ UNCHANGED undeleted
          \/ /\ Fault
             /\ undeleted' = undeleted \union {o}
             /\ UNCHANGED cluster
    /\ next' = next + 1
    /\ UNCHANGED <<pc, pods, plan, outcome, created, support, lost, probes, context>>

CleanupDone ==
    /\ pc = "cleanup"
    /\ cfg.keep \/ next > Len(Deletions)
    /\ pc' = "done"
    /\ NoFault
    /\ UNCHANGED <<next, pods, plan, setup, probes, ending, context>>

-----------------------------------------------------------------------------
(* The context ends: a timeout set by the user, the setup timeout, or the     *)
(* caller.                                                                    *)
Expire ==
    /\ pc \notin {"start", "cleanup", "done"}
    /\ ~expired /\ Fault
    /\ expired' = TRUE
    /\ UNCHANGED <<pc, next, pods, plan, cfg, net, foreign, stalled, setup, probes, ending>>

Run == \/ Start \/ Create \/ AllCreated \/ WaitForRollout \/ BuildMatrixPods
       \/ MakePlan \/ BeginStage \/ CheckRoute \/ RoutesChecked \/ RunGateway
       \/ RunICMP \/ ICMPStalls \/ SinglesDone \/ StartServers \/ RunClient \/ KillServers
       \/ BatchesDone \/ Cleanup \/ CleanupDone

Next == Run \/ Expire

\* The process runs on: every call returns, if only by its timeout.
Spec == Init /\ [][Next]_vars /\ WF_vars(Run)

-----------------------------------------------------------------------------

\* Whatever way the run ends, what it leaves behind is what it found, what the
\* user asked to keep, and what a call that failed (a lost create, a failed
\* delete) put out of its reach: cleanup is registered before the first create.
NothingLeft ==
    pc = "done" /\ ~cfg.keep => cluster \subseteq foreign \union lost \union undeleted

\* A required test passes only if its traffic got through, and, where the route
\* was looked up, through the source rail it is named after.  Batching, partial
\* output, cached routes and an expired context must never turn into a pass.
PassMeansMeasured ==
    \A r \in last : r.ok /\ r.test.exp = "required"
       => /\ r.traffic
          /\ r.route \in {NoRoute, RouteSkip, Via(r.test.srcRail)}

\* No test fails because an earlier stage had a transient lookup failure: a
\* failed route of a test was looked up in the stage of that test
\* (checkSourceRoutes caches only results that would be the same again).
FailureNotInherited ==
    \A r \in last : r.route = RouteFailed => RouteKey(r.test) \in fresh

\* However slow every command is, the tests finish within the part of the
\* automatic budget planned for them; the safety margin stays unspent.  Only an
\* exec of the ICMP check that hangs takes more, and since that check is the
\* last one, no other loses its results to it.
WithinBudget ==
    plan # <<>>
       => \/ clock <= automaticTimeoutBudget(plan, cfg.checks)
          \/ stalled /\ stage = Len(Stages)

\* While a client runs, what listens on the server pod under its program's name
\* belongs to its own batch: not to an earlier batch or run whose kill failed.
ListenersCurrent ==
    pc = "client" => Servers = {ThisBatch}

\* The run ends, whatever fails.
RunEnds == <>(pc = "done")

=============================================================================

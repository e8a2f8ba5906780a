------------------------- MODULE ConnectivityProofs -------------------------
(***************************************************************************)
(* Theorems about Connectivity: what a run of the connectivity matrix      *)
(* leaves in the cluster, which processes a client may talk to, and what a *)
(* passing row stands for, for any bundle, plan, network and any number of *)
(* failing calls.                                                          *)
(***************************************************************************)
EXTENDS Connectivity, SequenceTheorems, FiniteSetTheorems, WellFoundedInduction, TLAPS

TestObjects == ToSet(DaemonSets) \union ToSet(SupportObjs)
Recorded    == ToSet(created) \union ToSet(support)
Excused     == foreign \union lost \union undeleted

\* The objects that the deferred clean-up has yet to delete.
Pending == {Deletions[k] : k \in next .. Len(Deletions)}

\* What exists is excused or will be deleted: recorded while the run goes on,
\* still ahead of the clean-up once that has begun.
CleanupInv ==
    /\ created \in Seq(TestObjects) /\ support \in Seq(TestObjects)
    /\ next \in Nat \ {0}
    /\ pc = "start" => cluster = foreign
    /\ pc \notin {"start", "cleanup", "done"} => cluster \subseteq Excused \union Recorded
    /\ pc = "cleanup" => cluster \subseteq Excused \union Pending
    /\ NothingLeft

\* On OpenShift what existed before the run is neither recorded nor gone.
ForeignInv ==
    cfg.ocp => foreign \subseteq cluster /\ foreign \cap Recorded = {}

-----------------------------------------------------------------------------
(* The list of deletions.                                                  *)

\* The next object of the bundle is one of its test objects.
LEMMA ObjectsTyped == Objects \in Seq(TestObjects)
<1>1. DaemonSets \in Seq(TestObjects) /\ SupportObjs \in Seq(TestObjects)
  BY ConnectivityAssumption DEF TestObjects
<1> QED
  BY <1>1 DEF Objects

\* The elements of a sequence and of its reverse.
LEMMA ReverseElements ==
    ASSUME NEW S, NEW s \in Seq(S)
    PROVE  /\ Reverse(s) \in Seq(S) /\ Len(Reverse(s)) = Len(s)
           /\ \A o \in ToSet(s) : \E k \in 1..Len(s) : Reverse(s)[k] = o
           /\ \A k \in 1..Len(s) : Reverse(s)[k] \in ToSet(s)
<1>1. Reverse(s) = [k \in 1..Len(s) |-> s[(Len(s) - k) + 1]]
  BY DEF Reverse
<1>2. Len(s) \in Nat /\ DOMAIN s = 1..Len(s) /\ \A k \in 1..Len(s) : s[k] \in S
  OBVIOUS
<1>3. \A k \in 1..Len(s) : (Len(s) - k) + 1 \in 1..Len(s)
  BY <1>2
<1>4. Reverse(s) \in [1..Len(s) -> S]
  BY <1>1, <1>2, <1>3
<1>5. Reverse(s) \in Seq(S) /\ Len(Reverse(s)) = Len(s)
  BY <1>2, <1>4
<1>6. ASSUME NEW o \in ToSet(s) PROVE \E k \in 1..Len(s) : Reverse(s)[k] = o
  <2>1. PICK j \in 1..Len(s) : s[j] = o
    BY <1>2 DEF ToSet
  <2>2. (Len(s) - j) + 1 \in 1..Len(s) /\ (Len(s) - ((Len(s) - j) + 1)) + 1 = j
    BY <1>2
  <2> QED
    BY <1>1, <2>1, <2>2
<1>7. \A k \in 1..Len(s) : Reverse(s)[k] \in ToSet(s)
  BY <1>1, <1>2, <1>3 DEF ToSet
<1> QED
  BY <1>5, <1>6, <1>7

\* Everything recorded, and nothing else, is on the list of deletions.
LEMMA DeletionsElements ==
    ASSUME created \in Seq(TestObjects), support \in Seq(TestObjects)
    PROVE  /\ Len(Deletions) \in Nat
           /\ \A o \in Recorded : \E k \in 1..Len(Deletions) : Deletions[k] = o
           /\ \A k \in 1..Len(Deletions) : Deletions[k] \in Recorded
<1> DEFINE r == Reverse(support)
<1>1. /\ r \in Seq(TestObjects) /\ Len(r) = Len(support)
      /\ \A o \in ToSet(support) : \E k \in 1..Len(support) : r[k] = o
      /\ \A k \in 1..Len(support) : r[k] \in ToSet(support)
  BY ReverseElements
<1>2. Deletions = created \o r
  BY DEF Deletions
<1> HIDE DEF r
<1>3. /\ Len(created) \in Nat /\ DOMAIN created = 1..Len(created)
      /\ Len(support) \in Nat
  OBVIOUS
<1>4. /\ Len(Deletions) = Len(created) + Len(r)
      /\ \A k \in 1..(Len(created) + Len(r)) :
            Deletions[k] = IF k <= Len(created) THEN created[k] ELSE r[k - Len(created)]
  BY <1>1, <1>2, ConcatProperties
<1>5. ASSUME NEW o \in ToSet(created) PROVE \E k \in 1..Len(Deletions) : Deletions[k] = o
  <2>1. PICK j \in 1..Len(created) : created[j] = o
    BY <1>3 DEF ToSet
  <2> QED
    BY <1>1, <1>3, <1>4, <2>1
<1>6. ASSUME NEW o \in ToSet(support) PROVE \E k \in 1..Len(Deletions) : Deletions[k] = o
  <2>1. PICK j \in 1..Len(support) : r[j] = o
    BY <1>1
  <2>2. /\ Len(created) + j \in 1..Len(Deletions) /\ ~(Len(created) + j <= Len(created))
        /\ (Len(created) + j) - Len(created) = j
    BY <1>1, <1>3, <1>4
  <2> QED
    BY <1>1, <1>4, <2>1, <2>2
<1>7. ASSUME NEW k \in 1..Len(Deletions) PROVE Deletions[k] \in Recorded
  <2>1. CASE k <= Len(created)
    BY <1>1, <1>3, <1>4, <2>1 DEF ToSet, Recorded
  <2>2. CASE ~(k <= Len(created))
    <3>1. k - Len(created) \in 1..Len(support)
      BY <1>1, <1>3, <1>4, <2>2
    <3> QED
      BY <1>1, <1>4, <2>2, <3>1 DEF Recorded
  <2> QED
    BY <2>1, <2>2
<1> QED
  BY <1>1, <1>3, <1>4, <1>5, <1>6, <1>7 DEF Recorded

\* Appending to a list adds that element to its elements.
LEMMA AppendElements ==
    ASSUME NEW S, NEW s \in Seq(S), NEW o \in S
    PROVE  /\ Append(s, o) \in Seq(S)
           /\ ToSet(Append(s, o)) = ToSet(s) \union {o}
<1>1. /\ Append(s, o) \in Seq(S) /\ Len(s) \in Nat
      /\ Len(Append(s, o)) = Len(s) + 1
      /\ DOMAIN s = 1..Len(s) /\ DOMAIN Append(s, o) = 1..(Len(s) + 1)
      /\ \A k \in 1..Len(s) : Append(s, o)[k] = s[k]
      /\ Append(s, o)[Len(s) + 1] = o
  OBVIOUS
<1>2. ToSet(Append(s, o)) \subseteq ToSet(s) \union {o}
  BY <1>1 DEF ToSet
<1>3. ToSet(s) \subseteq ToSet(Append(s, o))
  BY <1>1 DEF ToSet
<1>4. o \in ToSet(Append(s, o))
  BY <1>1 DEF ToSet
<1> QED
  BY <1>1, <1>2, <1>3, <1>4

-----------------------------------------------------------------------------
(* What stays in the cluster.                                              *)

\* The steps that leave the set-up alone and go on.
Untouched ==
    /\ UNCHANGED <<cfg, foreign, cluster, created, support, lost, undeleted>>
    /\ pc \notin {"start", "cleanup", "done"}
    /\ pc' \notin {"start", "cleanup", "done"}
    /\ next' \in Nat \ {0}

\* The steps that leave the set-up alone and hand over to the clean-up.
ToCleanup ==
    /\ UNCHANGED <<cfg, foreign, cluster, created, support, lost, undeleted>>
    /\ pc \notin {"start", "cleanup", "done"}
    /\ pc' = "cleanup" /\ next' = 1

\* Every other step than the creation and the deletion of an object, and the
\* first and last step of the run, is one of the two.
LEMMA OtherSteps ==
    ASSUME CleanupInv,
           \/ AllCreated \/ WaitForRollout \/ BuildMatrixPods \/ MakePlan
           \/ BeginStage \/ CheckRoute \/ RoutesChecked \/ RunGateway \/ RunICMP
           \/ ICMPStalls \/ SinglesDone \/ StartServers \/ RunClient \/ KillServers
           \/ BatchesDone \/ Expire
    PROVE  Untouched \/ ToCleanup
<1> USE DEF CleanupInv, Untouched, ToCleanup, setup, ending, context, probes
<1>1. CASE AllCreated
  BY <1>1 DEF AllCreated
<1>2. CASE WaitForRollout
  <2>1. pc = "rollout" /\ UNCHANGED <<undeleted, setup, context>>
    BY <1>2 DEF WaitForRollout
  <2>2. \/ pc' = pc /\ next' = next + 1
        \/ pc' = "cleanup" /\ next' = 1
    BY <1>2 DEF WaitForRollout
  <2> QED
    BY <2>1, <2>2
<1>3. CASE BuildMatrixPods
  BY <1>3 DEF BuildMatrixPods
<1>4. CASE MakePlan
  BY <1>4 DEF MakePlan
<1>5. CASE BeginStage
  BY <1>5 DEF BeginStage
<1>6. CASE CheckRoute
  BY <1>6 DEF CheckRoute
<1>7. CASE RoutesChecked
  BY <1>7 DEF RoutesChecked
<1>8. CASE RunGateway
  BY <1>8 DEF RunGateway
<1>9. CASE RunICMP \/ ICMPStalls
  BY <1>9 DEF RunICMP, ICMPStalls
<1>10. CASE SinglesDone
  BY <1>10 DEF SinglesDone
<1>11. CASE StartServers
  BY <1>11 DEF StartServers
<1>12. CASE RunClient
  BY <1>12 DEF RunClient
<1>13. CASE KillServers
  BY <1>13 DEF KillServers
<1>14. CASE BatchesDone
  BY <1>14 DEF BatchesDone
<1>15. CASE Expire
  BY <1>15 DEF Expire
<1> QED
  BY <1>1, <1>2, <1>3, <1>4, <1>5, <1>6, <1>7, <1>8, <1>9, <1>10, <1>11,
     <1>12, <1>13, <1>14, <1>15

\* Every step that matters to what exists in the cluster.
LEMMA StepKinds ==
    ASSUME CleanupInv, [Next]_vars
    PROVE  \/ Untouched \/ ToCleanup \/ Start \/ Create \/ Cleanup \/ CleanupDone
           \/ UNCHANGED vars
BY OtherSteps DEF Next, Run

\* What creating an object does to the records.
LEMMA CreateRecords ==
    ASSUME CleanupInv, Create
    PROVE  \E o \in TestObjects :
             /\ UNCHANGED <<cfg, foreign, undeleted>> /\ pc = "create"
             /\ \/ /\ pc' = "create" /\ next' = next + 1 /\ UNCHANGED lost
                   /\ cluster' = cluster \union {o} /\ (cfg.ocp => o \notin cluster)
                   /\ created' \in Seq(TestObjects) /\ support' \in Seq(TestObjects)
                   /\ ToSet(created') \union ToSet(support') = Recorded \union {o}
                \/ /\ pc' = "cleanup" /\ next' = 1
                   /\ UNCHANGED <<created, support>>
                   /\ cluster \subseteq cluster' /\ lost \subseteq lost'
                   /\ cluster' \subseteq cluster \union lost'
<1> DEFINE o == Objects[next]
<1>1. o \in TestObjects
  BY ObjectsTyped DEF Create, CleanupInv
<1>2. created \in Seq(TestObjects) /\ support \in Seq(TestObjects)
  BY DEF CleanupInv
<1>3. ASSUME Record(o)
      PROVE  /\ created' \in Seq(TestObjects) /\ support' \in Seq(TestObjects)
             /\ ToSet(created') \union ToSet(support') = Recorded \union {o}
  <2> HIDE DEF o
  <2>1. /\ Append(created, o) \in Seq(TestObjects)
        /\ ToSet(Append(created, o)) = ToSet(created) \union {o}
        /\ Append(support, o) \in Seq(TestObjects)
        /\ ToSet(Append(support, o)) = ToSet(support) \union {o}
    BY <1>1, <1>2, AppendElements
  <2>2. CASE o \in ToSet(DaemonSets)
    <3>1. created' = Append(created, o) /\ support' = support
      BY <1>3, <2>2 DEF Record
    <3> QED
      BY <1>2, <2>1, <3>1 DEF Recorded
  <2>3. CASE o \notin ToSet(DaemonSets)
    <3>1. support' = Append(support, o) /\ created' = created
      BY <1>3, <2>3 DEF Record
    <3> QED
      BY <1>2, <2>1, <3>1 DEF Recorded
  <2> QED
    BY <2>2, <2>3
<1>4. UNCHANGED <<cfg, foreign, undeleted>> /\ pc = "create"
  BY DEF Create, context
<1>5. \/ /\ pc' = "create" /\ next' = next + 1 /\ UNCHANGED lost
         /\ cluster' = cluster \union {o} /\ (cfg.ocp => o \notin cluster) /\ Record(o)
      \/ /\ pc' = "cleanup" /\ next' = 1
         /\ UNCHANGED <<created, support>>
         /\ cluster \subseteq cluster' /\ lost \subseteq lost'
         /\ cluster' \subseteq cluster \union lost'
  BY DEF Create
<1> HIDE DEF o
<1> QED
  BY <1>1, <1>3, <1>4, <1>5

\* The invariant of the clean-up holds of every state of a run.
LEMMA CleanupInvariant == Spec => []CleanupInv
<1>1. Init => CleanupInv
  BY DEF Init, CleanupInv, NothingLeft
<1>2. CleanupInv /\ [Next]_vars => CleanupInv'
  <2> SUFFICES ASSUME CleanupInv, [Next]_vars PROVE CleanupInv'
    OBVIOUS
  <2>1. /\ created \in Seq(TestObjects) /\ support \in Seq(TestObjects)
        /\ next \in Nat \ {0}
    BY DEF CleanupInv
  <2>2. CASE Untouched
    BY <2>2 DEF CleanupInv, Untouched, NothingLeft, Excused, Recorded
  <2>3. CASE ToCleanup
    <3>1. Recorded \subseteq {Deletions[k] : k \in 1..Len(Deletions)}
      BY <2>1, DeletionsElements
    <3>2. cluster' \subseteq Excused' \union Pending'
      BY <2>3, <3>1 DEF CleanupInv, ToCleanup, Excused, Pending, Deletions
    <3> QED
      BY <2>3, <3>2 DEF CleanupInv, ToCleanup, NothingLeft
  <2>4. CASE Start
    BY <2>4 DEF Start, CleanupInv, NothingLeft, Excused, Recorded, setup, context
  <2>5. CASE Create
    <3>1. PICK o \in TestObjects :
             /\ UNCHANGED <<cfg, foreign, undeleted>> /\ pc = "create"
             /\ \/ /\ pc' = "create" /\ next' = next + 1 /\ UNCHANGED lost
                   /\ cluster' = cluster \union {o} /\ (cfg.ocp => o \notin cluster)
                   /\ created' \in Seq(TestObjects) /\ support' \in Seq(TestObjects)
                   /\ ToSet(created') \union ToSet(support') = Recorded \union {o}
                \/ /\ pc' = "cleanup" /\ next' = 1
                   /\ UNCHANGED <<created, support>>
                   /\ cluster \subseteq cluster' /\ lost \subseteq lost'
                   /\ cluster' \subseteq cluster \union lost'
      BY <2>5, CreateRecords
    <3>2. CASE pc' = "create"
      <4>1. Recorded' = Recorded \union {o} /\ cluster' = cluster \union {o}
        BY <3>1, <3>2 DEF Recorded
      <4>2. Excused' = Excused /\ cluster \subseteq Excused \union Recorded
        BY <3>1, <3>2 DEF Excused, CleanupInv
      <4> QED
        BY <2>1, <3>1, <3>2, <4>1, <4>2 DEF CleanupInv, NothingLeft
    <3>3. CASE pc' = "cleanup"
      <4>1. Recorded \subseteq {Deletions[k] : k \in 1..Len(Deletions)}
        BY <2>1, DeletionsElements
      <4>2. cluster' \subseteq Excused' \union Recorded
        BY <3>1, <3>3 DEF CleanupInv, Excused
      <4>3. Pending' = {Deletions[k] : k \in 1..Len(Deletions)}
        BY <3>1, <3>3 DEF Pending, Deletions
      <4> QED
        BY <2>1, <3>1, <3>3, <4>1, <4>2, <4>3 DEF CleanupInv, NothingLeft
    <3> QED
      BY <3>1, <3>2, <3>3
  <2>6. CASE Cleanup
    <3>1. /\ UNCHANGED <<pc, cfg, foreign, lost, created, support>>
          /\ next' = next + 1 /\ pc = "cleanup" /\ next <= Len(Deletions)
          /\ \/ cluster' = cluster \ {Deletions[next]} /\ UNCHANGED undeleted
             \/ undeleted' = undeleted \union {Deletions[next]} /\ UNCHANGED cluster
      BY <2>6 DEF Cleanup, context
    <3>2. Len(Deletions) \in Nat
      BY <2>1, DeletionsElements
    <3>3. \A k \in next..Len(Deletions) : k # next => k \in (next + 1)..Len(Deletions)
      BY <2>1, <3>2
    <3>4. Pending \subseteq {Deletions[next]} \union Pending'
      BY <3>1, <3>3 DEF Pending, Deletions
    <3>5. cluster \subseteq Excused \union Pending
      BY <3>1 DEF CleanupInv
    <3>6. cluster' \subseteq Excused' \union Pending'
      BY <3>1, <3>4, <3>5 DEF Excused
    <3> QED
      BY <2>1, <3>1, <3>6 DEF CleanupInv, NothingLeft
  <2>7. CASE CleanupDone
    <3>1. /\ pc = "cleanup" /\ pc' = "done" /\ (cfg.keep \/ next > Len(Deletions))
          /\ UNCHANGED <<next, cfg, foreign, cluster, created, support, lost, undeleted>>
      BY <2>7 DEF CleanupDone, setup, ending, context
    <3>2. ~cfg.keep => Pending = {}
      <4>1. Len(Deletions) \in Nat
        BY <2>1, DeletionsElements
      <4> QED
        BY <2>1, <3>1, <4>1 DEF Pending
    <3> QED
      BY <2>1, <3>1, <3>2 DEF CleanupInv, NothingLeft, Excused
  <2>8. CASE UNCHANGED vars
    BY <2>8 DEF vars, CleanupInv, NothingLeft, Excused, Recorded, Pending, Deletions
  <2> QED
    BY <2>2, <2>3, <2>4, <2>5, <2>6, <2>7, <2>8, StepKinds
<1> QED
  BY <1>1, <1>2, PTL DEF Spec

\* However the run ends, what it leaves behind is what it found, what it was
\* asked to keep and what a failed call put out of its reach.
THEOREM RunLeavesNothing == Spec => []NothingLeft
<1>1. CleanupInv => NothingLeft
  BY DEF CleanupInv
<1> QED
  BY <1>1, CleanupInvariant, PTL

\* On OpenShift an object that existed before the run is never deleted: a name
\* that is taken refuses the run instead of being adopted and cleaned up.
THEOREM ForeignObjectsKept == Spec => [](cfg.ocp => foreign \subseteq cluster)
<1>1. Init => ForeignInv
  <2>1. ToSet(<<>>) = {}
    BY DEF ToSet
  <2> QED
    BY <2>1 DEF Init, ForeignInv, Recorded
<1>2. CleanupInv /\ ForeignInv /\ [Next]_vars => ForeignInv'
  <2> SUFFICES ASSUME CleanupInv, ForeignInv, [Next]_vars PROVE ForeignInv'
    OBVIOUS
  <2> USE DEF ForeignInv
  <2>1. CASE Untouched \/ ToCleanup
    BY <2>1 DEF Untouched, ToCleanup, Recorded
  <2>2. CASE Start \/ CleanupDone
    BY <2>2 DEF Start, CleanupDone, Recorded, setup, context
  <2>3. CASE Create
    BY <2>3, CreateRecords DEF Recorded
  <2>4. CASE Cleanup
    <3>1. /\ UNCHANGED <<cfg, foreign, created, support>>
          /\ cluster \ {Deletions[next]} \subseteq cluster' /\ next <= Len(Deletions)
      BY <2>4 DEF Cleanup, context
    <3>2. Deletions[next] \in Recorded
      BY <3>1, DeletionsElements DEF CleanupInv
    <3> QED
      BY <3>1, <3>2 DEF Recorded
  <2>5. CASE UNCHANGED vars
    BY <2>5 DEF vars, Recorded
  <2> QED
    BY <2>1, <2>2, <2>3, <2>4, <2>5, StepKinds
<1>3. ForeignInv => (cfg.ocp => foreign \subseteq cluster)
  BY DEF ForeignInv
<1> QED
  BY <1>1, <1>2, <1>3, CleanupInvariant, PTL DEF Spec

-----------------------------------------------------------------------------
(* What a client talks to.                                                 *)

\* The listeners of a client are those its own batch started, whatever earlier
\* batches, stages or runs left behind in the pod.
THEOREM ClientsMeetTheirServers == Spec => []ListenersCurrent
<1>1. Init => ListenersCurrent
  BY DEF Init, ListenersCurrent
<1>2. ListenersCurrent /\ [Next]_vars => ListenersCurrent'
  <2> SUFFICES ASSUME ListenersCurrent, [Next]_vars, pc' = "client"
               PROVE  Servers' = {ThisBatch'}
    BY DEF ListenersCurrent
  <2>1. CASE StartServers
    <3>1. /\ listeners' = (listeners \ Servers) \union {ThisBatch}
          /\ UNCHANGED <<batches, stage, tests>>
      BY <2>1 DEF StartServers
    <3>2. ThisBatch' = ThisBatch /\ ServerPod' = ServerPod /\ Prog(Check)' = Prog(Check)
      BY <3>1 DEF ThisBatch, ServerPod, FirstOfBatch, Batch, Check, Prog
    <3>3. ThisBatch.pod = ServerPod /\ ThisBatch.prog = Prog(Check)
      BY DEF ThisBatch
    <3> QED
      BY <3>1, <3>2, <3>3 DEF Servers
  <2>2. CASE UNCHANGED <<pc, listeners, batches, stage, tests>>
    BY <2>2 DEF ListenersCurrent, Servers, ThisBatch, ServerPod, FirstOfBatch, Batch,
                Check, Prog
  <2>3. CASE Expire \/ UNCHANGED vars
    <3>1. UNCHANGED <<pc, listeners, batches, stage, tests>>
      BY <2>3 DEF Expire, vars, probes
    <3> QED
      BY <2>2, <3>1
  <2>4. CASE Start \/ Create \/ AllCreated \/ WaitForRollout \/ BuildMatrixPods
    <3>1. pc' # "client"
      BY <2>4 DEF Start, Create, AllCreated, WaitForRollout, BuildMatrixPods
    <3> QED
      BY <3>1
  <2>5. CASE MakePlan \/ BeginStage \/ CheckRoute \/ RoutesChecked \/ RunGateway
             \/ RunICMP \/ ICMPStalls \/ SinglesDone
    <3>1. pc' # "client"
      BY <2>5 DEF MakePlan, BeginStage, CheckRoute, RoutesChecked, RunGateway, RunICMP,
                  ICMPStalls, SinglesDone
    <3> QED
      BY <3>1
  <2>6. CASE RunClient \/ KillServers \/ BatchesDone \/ Cleanup \/ CleanupDone
    <3>1. pc' # "client"
      BY <2>6 DEF RunClient, KillServers, BatchesDone, Cleanup, CleanupDone
    <3> QED
      BY <3>1
  <2> QED
    BY <2>1, <2>3, <2>4, <2>5, <2>6 DEF Next, Run
<1> QED
  BY <1>1, <1>2, PTL DEF Spec

-----------------------------------------------------------------------------
(* What a pass stands for.                                                 *)

\* The property of one row.
Measured(r) ==
    r.ok /\ r.test.exp = "required"
       => r.traffic /\ r.route \in {NoRoute, RouteSkip, Via(r.test.srcRail)}

\* A row that is not ok shows nothing.
LEMMA FailedRow ==
    ASSUME NEW t, NEW route, NEW skip, NEW traffic
    PROVE  Measured(Result(t, route, FALSE, skip, traffic))
BY DEF Measured, Result

\* A row whose route is validated and that is ok only with traffic.
LEMMA JudgedRow ==
    ASSUME NEW t, NEW route, NEW ok, NEW skip, NEW traffic,
           routeValidationError(route, t.srcRail) = "no",
           t.exp = "required" /\ ok => traffic
    PROVE  Measured(Result(t, route, ok, skip, traffic))
<1>1. route \in {NoRoute, RouteSkip, Via(t.srcRail)}
  BY DEF routeValidationError
<1> QED
  BY <1>1 DEF Measured, Result

\* A required row that is judged by what was observed.
LEMMA RequiredRow ==
    ASSUME NEW t, NEW observed, t.exp = "required", finalizeExpectedResult(t.exp, observed)
    PROVE  observed
BY DEF finalizeExpectedResult

\* A cell of a batch, parsed or not.
LEMMA CellMeasured ==
    ASSUME NEW k, NEW parsed
    PROVE  Measured(CellResult(k, parsed))
<1> DEFINE t == tests[k]
           ok == finalizeExpectedResult(t.exp, parsed /\ Observed(t))
<1>1. CASE ~Runnable(k)
  BY <1>1, FailedRow DEF CellResult
<1>2. CASE Runnable(k)
  <2>1. routeValidationError(routes[k], t.srcRail) = "no"
    BY <1>2 DEF Runnable, ibWriteBwRunnable
  <2>2. ASSUME t.exp = "required", ok PROVE parsed /\ Flows(t)
    <3>1. parsed /\ Observed(t)
      BY <2>2, RequiredRow
    <3>2. CASE Check = "rping"
      BY <3>1, <3>2 DEF Observed
    <3>3. CASE Check # "rping"
      <4>1. (IF Flows(t) THEN net.bw ELSE 0) > 0
        BY <3>1, <3>3 DEF Observed, bandwidthVerdict
      <4> QED
        BY <3>1, <4>1
    <3> QED
      BY <3>2, <3>3
  <2>3. CellResult(k, parsed) = Result(t, routes[k], ok, FALSE, parsed /\ Flows(t))
    BY <1>2 DEF CellResult
  <2> HIDE DEF t, ok
  <2> QED
    BY <2>1, <2>2, <2>3, JudgedRow
<1> QED
  BY <1>1, <1>2

\* A row of the gateway check.
LEMMA GatewayMeasured ==
    ASSUME PassMeansMeasured, RunGateway
    PROVE  PassMeansMeasured'
<1> DEFINE t == tests[next]
           p == CHOOSE q \in ToSet(pods) : q.name = t.src
           g == net.gateway[t.srcRail]
           clear == t.srcRail \in p.iface \ p.ambiguous
           valid == routeValidationError(GatewayRoute(t), t.srcRail) = "no"
           up == clear /\ g = "up" /\ valid
           skip == clear /\ g = "none" /\ net.routing # "noip"
<1>1. \/ last' = {Result(t, GatewayRoute(t), up, skip, up)}
      \/ last' = {Result(t, routes[next], FALSE, FALSE, FALSE)}
  BY DEF RunGateway, Report
<1>2. Measured(Result(t, routes[next], FALSE, FALSE, FALSE))
  BY FailedRow
<1>3. Measured(Result(t, GatewayRoute(t), up, skip, up))
  <2>1. CASE valid
    BY <2>1, JudgedRow
  <2>2. CASE ~valid
    BY <2>2 DEF Measured, Result
  <2> QED
    BY <2>1, <2>2
<1> HIDE DEF t, up, skip
<1> QED
  BY <1>1, <1>2, <1>3 DEF PassMeansMeasured, Measured

\* A row of the ICMP check.
LEMMA IcmpMeasured ==
    ASSUME PassMeansMeasured, RunICMP \/ ICMPStalls
    PROVE  PassMeansMeasured'
<1> DEFINE t == tests[next]
           err == routeValidationError(routes[next], t.srcRail)
           Row(seen) == Result(t, routes[next], finalizeExpectedResult(t.exp, seen), FALSE, seen)
<1>1. \/ last' = {Result(t, routes[next], FALSE, FALSE, FALSE)}
      \/ err = "mismatch" /\ last' = {Row(FALSE)}
      \/ err \notin {"failed", "mismatch"} /\ (last' = {Row(Flows(t))} \/ last' = {Row(FALSE)})
  BY DEF RunICMP, ICMPStalls, Report
<1>2. Measured(Result(t, routes[next], FALSE, FALSE, FALSE))
  BY FailedRow
<1>3. Measured(Row(FALSE))
  <2>1. ~(t.exp = "required" /\ finalizeExpectedResult(t.exp, FALSE))
    BY DEF finalizeExpectedResult
  <2> QED
    BY <2>1 DEF Measured, Result
<1>4. ASSUME err \notin {"failed", "mismatch"} PROVE Measured(Row(Flows(t)))
  <2>1. err = "no"
    BY <1>4 DEF routeValidationError
  <2>2. t.exp = "required" /\ finalizeExpectedResult(t.exp, Flows(t)) => Flows(t)
    BY RequiredRow
  <2> HIDE DEF t
  <2> QED
    BY <2>1, <2>2, JudgedRow
<1> HIDE DEF t, err, Row
<1> QED
  BY <1>1, <1>2, <1>3, <1>4 DEF PassMeansMeasured, Measured

\* The rows that a client reports.
LEMMA ClientRows ==
    ASSUME RunClient
    PROVE  \A r \in last' : \/ r \in FailedBatch
                            \/ \E k \in Batch, parsed \in BOOLEAN : r = CellResult(k, parsed)
<1>1. \/ last' = {CellResult(k, TRUE) : k \in Batch}
      \/ \E n \in Batch : last' = {CellResult(k, k < n) : k \in Batch}
      \/ last' = FailedBatch
      \/ last' = {CellResult(k, FALSE) : k \in Batch}
  BY DEF RunClient, Report
<1>2. CASE \E n \in Batch : last' = {CellResult(k, k < n) : k \in Batch}
  <2>1. PICK n \in Batch : last' = {CellResult(k, k < n) : k \in Batch}
    BY <1>2
  <2>2. \A k \in Batch : (k < n) \in BOOLEAN
    OBVIOUS
  <2> QED
    BY <2>1, <2>2
<1> QED
  BY <1>1, <1>2

\* The rows of a batch, whether its servers started and whatever its client did.
LEMMA BatchMeasured ==
    ASSUME PassMeansMeasured, StartServers \/ RunClient
    PROVE  PassMeansMeasured'
<1>1. \A r \in FailedBatch : Measured(r)
  BY FailedRow DEF FailedBatch
<1>2. \A r \in last : Measured(r)
  BY DEF PassMeansMeasured, Measured
<1>3. CASE StartServers
  <2>1. last' = FailedBatch \/ last' = last
    BY <1>3 DEF StartServers, Report
  <2> QED
    BY <1>1, <1>2, <2>1 DEF PassMeansMeasured, Measured
<1>4. CASE RunClient
  <2>1. \A k \in Batch, parsed \in BOOLEAN : Measured(CellResult(k, parsed))
    BY CellMeasured
  <2>2. \A r \in last' : Measured(r)
    BY <1>1, <1>4, <2>1, ClientRows
  <2> QED
    BY <2>2 DEF PassMeansMeasured, Measured
<1> QED
  BY <1>3, <1>4

\* A required row passes only when its traffic got through and its route, where
\* one was looked up, leaves by the rail it is named after: whichever calls
\* fail, however the output is cut, whatever routes are cached.
THEOREM PassesAreMeasured == Spec => []PassMeansMeasured
<1>1. Init => PassMeansMeasured
  BY DEF Init, PassMeansMeasured
<1>2. PassMeansMeasured /\ [Next]_vars => PassMeansMeasured'
  <2> SUFFICES ASSUME PassMeansMeasured, [Next]_vars PROVE PassMeansMeasured'
    OBVIOUS
  <2>1. CASE last' = last
    BY <2>1 DEF PassMeansMeasured
  <2>2. CASE Start \/ Create \/ AllCreated \/ WaitForRollout \/ BuildMatrixPods
    <3>1. last' = last
      BY <2>2 DEF Start, Create, AllCreated, WaitForRollout, BuildMatrixPods, probes
    <3> QED
      BY <2>1, <3>1
  <2>3. CASE MakePlan \/ BeginStage \/ CheckRoute \/ RoutesChecked \/ SinglesDone
    <3>1. last' = last \/ last' = {}
      BY <2>3 DEF MakePlan, BeginStage, CheckRoute, RoutesChecked, SinglesDone, probes
    <3> QED
      BY <2>1, <3>1 DEF PassMeansMeasured
  <2>4. CASE KillServers \/ BatchesDone \/ Cleanup \/ CleanupDone \/ Expire \/ UNCHANGED vars
    <3>1. last' = last
      BY <2>4 DEF KillServers, BatchesDone, Cleanup, CleanupDone, Expire, probes, vars
    <3> QED
      BY <2>1, <3>1
  <2> QED
    BY <2>2, <2>3, <2>4, GatewayMeasured, IcmpMeasured, BatchMeasured DEF Next, Run
<1> QED
  BY <1>1, <1>2, PTL DEF Spec

-----------------------------------------------------------------------------
(* Lists and sums.                                                         *)

\* A set of numbers has a least one.
LEMMA LeastNumber ==
    ASSUME NEW T, T \subseteq Nat, T # {}
    PROVE  \E x \in T : \A y \in T : x <= y
<1> DEFINE R == {ss \in Nat \X Nat : ss[1] < ss[2]}
<1>1. IsWellFoundedOn(R, Nat)
  BY NatLessThanWellFounded DEF OpToRel
<1> HIDE DEF R
<1>2. PICK x \in T : \A y \in T : ~(<<y, x>> \in R)
  BY <1>1, WFMin
<1>3. \A y \in T : ~(y < x)
  BY <1>2 DEF R
<1> QED
  BY <1>3

\* A set with 0, and with n + 1 whenever it has n, has every number.
LEMMA CountingUp ==
    ASSUME NEW T, 0 \in T, \A n \in Nat : n \in T => n + 1 \in T
    PROVE  Nat \subseteq T
<1> DEFINE bad == Nat \ T
<1> SUFFICES ASSUME bad # {} PROVE FALSE
  OBVIOUS
<1>1. PICK x \in bad : \A y \in bad : x <= y
  <2>1. bad \subseteq Nat
    OBVIOUS
  <2> HIDE DEF bad
  <2> QED
    BY <2>1, LeastNumber
<1>2. x - 1 \in Nat /\ x - 1 < x /\ (x - 1) + 1 = x
  OBVIOUS
<1>3. x - 1 \notin bad
  BY <1>1, <1>2
<1> QED
  BY <1>2, <1>3

\* The function behind SumTo exists, is numeric, and is the one SumTo uses.
LEMMA Sums ==
    ASSUME NEW N \in Nat, NEW cost, \A k \in 1..N : cost[k] \in Nat
    PROVE  /\ SumTo(cost, 0) = 0
           /\ \A n \in 0..N : SumTo(cost, n) \in Nat
           /\ \A n \in 1..N : SumTo(cost, n) = SumTo(cost, n - 1) + cost[n]
<1> DEFINE Total(f, n) == f = [k \in 0..n |-> IF k = 0 THEN 0 ELSE f[k - 1] + cost[k]]
           Has(n) == \E f \in [0..n -> Nat] : Total(f, n)
           T == {n \in Nat : n <= N => Has(n)}
<1>1. 0 \in T
  <2>1. [k \in 0..0 |-> 0] \in [0..0 -> Nat] /\ Total([k \in 0..0 |-> 0], 0)
    OBVIOUS
  <2> QED
    BY <2>1
<1>2. ASSUME NEW n \in Nat, n \in T PROVE n + 1 \in T
  <2> SUFFICES ASSUME n + 1 <= N PROVE Has(n + 1)
    <3> HIDE DEF Has
    <3> QED
      OBVIOUS
  <2>0. Has(n)
    <3> HIDE DEF Has
    <3> QED
      BY <1>2
  <2>1. PICK f \in [0..n -> Nat] : Total(f, n)
    <3> HIDE DEF Total
    <3> QED
      BY <2>0
  <2> DEFINE g == [k \in 0..(n + 1) |-> IF k <= n THEN f[k] ELSE f[n] + cost[n + 1]]
  <2>2. cost[n + 1] \in Nat
    OBVIOUS
  <2>3. g \in [0..(n + 1) -> Nat]
    BY <2>2
  <2>4. \A k \in 0..(n + 1) : g[k] = IF k = 0 THEN 0 ELSE g[k - 1] + cost[k]
    <3>1. \A k \in 0..n : f[k] = IF k = 0 THEN 0 ELSE f[k - 1] + cost[k]
      BY <2>1
    <3> QED
      BY <3>1
  <2>5. Total(g, n + 1)
    <3> HIDE DEF g
    <3> QED
      BY <2>3, <2>4
  <2> QED
    BY <2>3, <2>5
<1>3. N \in T
  <2> HIDE DEF T
  <2> QED
    BY <1>1, <1>2, CountingUp
<1>4. PICK f \in [0..N -> Nat] : Total(f, N)
  BY <1>3
<1>5. \A k \in 0..N : f[k] = IF k = 0 THEN 0 ELSE f[k - 1] + cost[k]
  BY <1>4
<1>6. ASSUME NEW n \in 0..N PROVE SumTo(cost, n) = f[n]
  <2> DEFINE g == CHOOSE h : Total(h, n)
             S == {k \in Nat : k <= n => g[k] = f[k]}
  <2>1. Total([k \in 0..n |-> f[k]], n)
    BY <1>5
  <2>2. Total(g, n)
    BY <2>1
  <2>3. \A k \in 0..n : g[k] = IF k = 0 THEN 0 ELSE g[k - 1] + cost[k]
    <3> HIDE DEF g
    <3> QED
      BY <2>2
  <2>4. 0 \in S
    <3> HIDE DEF g
    <3> QED
      BY <1>5, <2>3
  <2>5. ASSUME NEW k \in Nat, k \in S PROVE k + 1 \in S
    <3> HIDE DEF g
    <3>1. ASSUME k + 1 <= n PROVE g[k + 1] = f[k + 1]
      <4>1. k + 1 \in 0..n /\ k + 1 \in 0..N /\ k + 1 # 0 /\ (k + 1) - 1 = k
        BY <3>1
      <4>2. g[k + 1] = g[k] + cost[k + 1] /\ f[k + 1] = f[k] + cost[k + 1]
        BY <1>5, <2>3, <4>1
      <4> QED
        BY <2>5, <3>1, <4>2
    <3> QED
      BY <3>1
  <2>6. n \in S
    <3>1. n \in Nat
      OBVIOUS
    <3> HIDE DEF S
    <3> QED
      BY <2>4, <2>5, <3>1, CountingUp
  <2>7. SumTo(cost, n) = g[n]
    BY DEF SumTo
  <2> QED
    BY <2>6, <2>7
<1> HIDE DEF Total
<1> QED
  BY <1>5, <1>6

\* Sums of numbers grow.
LEMMA SumsGrow ==
    ASSUME NEW N \in Nat, NEW cost, \A k \in 1..N : cost[k] \in Nat,
           NEW m \in 0..N, NEW n \in 0..N, m <= n
    PROVE  SumTo(cost, m) <= SumTo(cost, n)
<1> DEFINE S == {k \in Nat : m <= k /\ k <= N => SumTo(cost, m) <= SumTo(cost, k)}
<1>1. /\ \A k \in 0..N : SumTo(cost, k) \in Nat
      /\ \A k \in 1..N : SumTo(cost, k) = SumTo(cost, k - 1) + cost[k]
  BY Sums
<1>2. 0 \in S
  BY <1>1
<1>3. ASSUME NEW k \in Nat, k \in S PROVE k + 1 \in S
  <2> SUFFICES ASSUME m <= k + 1, k + 1 <= N
               PROVE  SumTo(cost, m) <= SumTo(cost, k + 1)
    OBVIOUS
  <2>1. CASE m = k + 1
    BY <1>1, <2>1
  <2>2. CASE m <= k
    <3>1. SumTo(cost, m) <= SumTo(cost, k)
      BY <1>3, <2>2
    <3>2. k + 1 \in 1..N /\ (k + 1) - 1 = k /\ k \in 0..N
      OBVIOUS
    <3>3. /\ SumTo(cost, k + 1) = SumTo(cost, k) + cost[k + 1]
          /\ SumTo(cost, m) \in Nat /\ SumTo(cost, k) \in Nat /\ cost[k + 1] \in Nat
      BY <1>1, <3>2
    <3> QED
      BY <3>1, <3>3
  <2> QED
    BY <2>1, <2>2
<1>4. n \in S
  <2> HIDE DEF S
  <2> QED
    BY <1>2, <1>3, CountingUp
<1> QED
  BY <1>4

\* Lists of a set, joined, are a list of that set.
LEMMA Joined ==
    ASSUME NEW S, NEW N \in Nat, NEW seqs \in [1..N -> Seq(S)]
    PROVE  FlattenSeq(seqs) \in Seq(S)
<1> DEFINE Flat(f, n) == f = [k \in 1..n |-> IF k = 1 THEN seqs[k] ELSE f[k - 1] \o seqs[k]]
           Has(n) == \E f \in [1..n -> Seq(S)] : Flat(f, n)
           T == {n \in Nat : n <= N => Has(n)}
<1>1. 0 \in T
  <2>1. [k \in 1..0 |-> <<>>] \in [1..0 -> Seq(S)] /\ Flat([k \in 1..0 |-> <<>>], 0)
    OBVIOUS
  <2> QED
    BY <2>1
<1>2. ASSUME NEW n \in Nat, n \in T PROVE n + 1 \in T
  <2> SUFFICES ASSUME n + 1 <= N PROVE Has(n + 1)
    <3> HIDE DEF Has
    <3> QED
      OBVIOUS
  <2>0. Has(n)
    <3> HIDE DEF Has
    <3> QED
      BY <1>2
  <2>1. PICK f \in [1..n -> Seq(S)] : Flat(f, n)
    <3> HIDE DEF Flat
    <3> QED
      BY <2>0
  <2> DEFINE new == IF n = 0 THEN seqs[n + 1] ELSE f[n] \o seqs[n + 1]
             g == [k \in 1..(n + 1) |-> IF k <= n THEN f[k] ELSE new]
  <2>2. new \in Seq(S)
    <3>1. seqs[n + 1] \in Seq(S) /\ (n # 0 => f[n] \in Seq(S))
      OBVIOUS
    <3> QED
      BY <3>1, ConcatProperties
  <2>3. g \in [1..(n + 1) -> Seq(S)]
    <3> HIDE DEF new
    <3> QED
      BY <2>2
  <2>4. \A k \in 1..(n + 1) : g[k] = IF k = 1 THEN seqs[k] ELSE g[k - 1] \o seqs[k]
    <3>1. \A k \in 1..n : f[k] = IF k = 1 THEN seqs[k] ELSE f[k - 1] \o seqs[k]
      BY <2>1
    <3>2. ASSUME NEW k \in 1..(n + 1), k <= n
          PROVE  g[k] = IF k = 1 THEN seqs[k] ELSE g[k - 1] \o seqs[k]
      <4>1. g[k] = f[k] /\ (k # 1 => g[k - 1] = f[k - 1])
        BY <3>2
      <4>2. k \in 1..n
        BY <3>2
      <4> HIDE DEF g, new
      <4> QED
        BY <3>1, <4>1, <4>2
    <3>3. g[n + 1] = IF n + 1 = 1 THEN seqs[n + 1] ELSE g[(n + 1) - 1] \o seqs[n + 1]
      <4>1. g[n + 1] = new /\ (n # 0 => g[(n + 1) - 1] = f[n])
        OBVIOUS
      <4> QED
        BY <4>1
    <3>4. \A k \in 1..(n + 1) : k <= n \/ k = n + 1
      OBVIOUS
    <3> HIDE DEF g, new
    <3> QED
      BY <3>2, <3>3, <3>4
  <2>5. Flat(g, n + 1)
    <3> HIDE DEF g
    <3> QED
      BY <2>3, <2>4
  <2> QED
    BY <2>3, <2>5
<1>3. N \in T
  <2> HIDE DEF T
  <2> QED
    BY <1>1, <1>2, CountingUp
<1>4. PICK f \in [1..N -> Seq(S)] : Flat(f, N)
  <2>1. Has(N)
    <3> HIDE DEF Has
    <3> QED
      BY <1>3
  <2> HIDE DEF Flat
  <2> QED
    BY <2>1
<1>5. Len(seqs) = N
  OBVIOUS
<1>6. CASE N = 0
  BY <1>5, <1>6 DEF FlattenSeq
<1>7. CASE N # 0
  <2> DEFINE g == CHOOSE h : Flat(h, N)
             R == {k \in Nat : k \in 1..N => g[k] \in Seq(S)}
  <2>1. Flat(g, N)
    BY <1>4
  <2>2. \A k \in 1..N : g[k] = IF k = 1 THEN seqs[k] ELSE g[k - 1] \o seqs[k]
    <3> HIDE DEF g
    <3> QED
      BY <2>1
  <2>3. 0 \in R
    OBVIOUS
  <2>4. ASSUME NEW k \in Nat, k \in R PROVE k + 1 \in R
    <3> HIDE DEF g
    <3>1. ASSUME k + 1 <= N PROVE g[k + 1] \in Seq(S)
      <4>1. seqs[k + 1] \in Seq(S) /\ (k # 0 => g[k] \in Seq(S))
        BY <2>4, <3>1
      <4>2. g[k + 1] = IF k = 0 THEN seqs[k + 1] ELSE g[k] \o seqs[k + 1]
        BY <2>2, <3>1
      <4> QED
        BY <4>1, <4>2, ConcatProperties
    <3> QED
      BY <3>1
  <2>5. N \in R
    <3> HIDE DEF R
    <3> QED
      BY <2>3, <2>4, CountingUp
  <2>6. FlattenSeq(seqs) = g[N]
    BY <1>5, <1>7 DEF FlattenSeq
  <2> HIDE DEF g
  <2> QED
    BY <1>7, <2>5, <2>6
<1> QED
  BY <1>6, <1>7

\* Some elements of a list are a list of the same set.
LEMMA Kept ==
    ASSUME NEW S, NEW list \in Seq(S), NEW at
    PROVE  Keep(list, at) \in Seq(S)
<1> DEFINE parts == [k \in DOMAIN list |-> IF k \in at THEN <<list[k]>> ELSE <<>>]
<1>1. Len(list) \in Nat /\ DOMAIN list = 1..Len(list)
  OBVIOUS
<1>2. parts \in [1..Len(list) -> Seq(S)]
  <2>1. \A k \in 1..Len(list) : list[k] \in S
    OBVIOUS
  <2> QED
    BY <1>1, <2>1
<1> HIDE DEF parts
<1>3. FlattenSeq(parts) \in Seq(S)
  BY <1>1, <1>2, Joined
<1> QED
  BY <1>3 DEF Keep, parts

\* A list: a function on an initial segment of the positive numbers.
List(x) == Len(x) \in Nat /\ x = [k \in 1..Len(x) |-> x[k]]

\* A function on such a segment is a list of that length.
LEMMA Listing ==
    ASSUME NEW n \in Nat, NEW x, x = [k \in 1..n |-> x[k]]
    PROVE  List(x) /\ Len(x) = n /\ DOMAIN x = 1..n
<1> DEFINE S == {x[k] : k \in 1..n}
<1>1. x \in [1..n -> S]
  OBVIOUS
<1>2. x \in Seq(S)
  BY <1>1
<1>3. Len(x) = n /\ DOMAIN x = 1..n
  BY <1>1, <1>2
<1> QED
  BY <1>3 DEF List

\* A sequence over a set is a list.
LEMMA ListOfSet ==
    ASSUME NEW S, NEW x \in Seq(S)
    PROVE  List(x)
<1>1. Len(x) \in Nat /\ x \in [1..Len(x) -> S]
  OBVIOUS
<1> QED
  BY <1>1 DEF List

\* So is the empty one.
LEMMA EmptyList == List(<<>>)
<1>1. <<>> \in Seq({})
  OBVIOUS
<1> QED
  BY <1>1, ListOfSet

\* The positions of a list.
LEMMA ListDomain ==
    ASSUME NEW x, List(x)
    PROVE  Len(x) \in Nat /\ DOMAIN x = 1..Len(x)
BY DEF List

\* Lists, joined, are a list.
LEMMA JoinedList ==
    ASSUME NEW N \in Nat, NEW seqs, seqs = [k \in 1..N |-> seqs[k]],
           \A k \in 1..N : List(seqs[k])
    PROVE  List(FlattenSeq(seqs))
<1> DEFINE S == UNION {{seqs[k][j] : j \in 1..Len(seqs[k])} : k \in 1..N}
<1>1. ASSUME NEW k \in 1..N PROVE seqs[k] \in Seq(S)
  <2>1. Len(seqs[k]) \in Nat /\ seqs[k] = [j \in 1..Len(seqs[k]) |-> seqs[k][j]]
    BY DEF List
  <2>2. \A j \in 1..Len(seqs[k]) : seqs[k][j] \in S
    OBVIOUS
  <2> HIDE DEF S
  <2> QED
    BY <2>1, <2>2
<1> HIDE DEF S
<1>2. seqs \in [1..N -> Seq(S)]
  BY <1>1
<1>3. FlattenSeq(seqs) \in Seq(S)
  BY <1>2, Joined
<1> QED
  BY <1>3, ListOfSet

\* So are two lists, one after the other.
LEMMA ListsJoined ==
    ASSUME NEW a, NEW b, List(a), List(b)
    PROVE  List(a \o b)
<1> DEFINE S == {a[k] : k \in 1..Len(a)} \union {b[k] : k \in 1..Len(b)}
<1>1. a \in Seq(S) /\ b \in Seq(S)
  BY DEF List
<1> HIDE DEF S
<1>2. a \o b \in Seq(S)
  BY <1>1, ConcatProperties
<1> QED
  BY <1>2, ListOfSet

\* A finite set is sorted into a list.
LEMMA SortedList ==
    ASSUME NEW set, IsFiniteSet(set)
    PROVE  List(Sorted(set))
<1>1. Cardinality(set) \in Nat
  BY FS_CardinalityType
<1>2. Sorted(set) = [k \in 1..Cardinality(set) |-> Sorted(set)[k]]
  BY DEF Sorted
<1> QED
  BY <1>1, <1>2, Listing

\* The rails of a pod are listed.
LEMMA RailsListed ==
    ASSUME NEW p, p.nets \in Seq(ToSet(p.nets)), NEW groups, NEW discoverRDMA
    PROVE  List(matrixPod(p, groups, discoverRDMA).rails)
<1> DEFINE nets == p.nets
           usable == SecondaryNetworks(nets)
                       \cap {i \in DOMAIN nets : pickNetworkIP(nets[i].ips) # Nothing}
           rails == {nets[i].rail : i \in usable}
           f == [i \in usable |-> nets[i].rail]
<1>1. matrixPod(p, groups, discoverRDMA).rails = Sorted(rails)
  BY DEF matrixPod, buildTestPod
<1>2. IsFiniteSet(usable)
  <2>1. DOMAIN nets = 1..Len(nets) /\ Len(nets) \in Nat
    OBVIOUS
  <2>2. IsFiniteSet(1..Len(nets))
    BY <2>1, FS_Interval
  <2>3. usable \subseteq 1..Len(nets)
    BY <2>1
  <2> HIDE DEF usable
  <2> QED
    BY <2>2, <2>3, FS_Subset
<1>3. f \in Surjection(usable, rails)
  <2> HIDE DEF usable
  <2> QED
    BY DEF Surjection
<1>4. IsFiniteSet(rails)
  <2> HIDE DEF usable, rails, f
  <2> QED
    BY <1>2, <1>3, FS_Surjection
<1> HIDE DEF rails
<1> QED
  BY <1>1, <1>4, SortedList

\* The first element of a list and the rest.
LEMMA TailList ==
    ASSUME NEW b, List(b), b # <<>>
    PROVE  /\ List(Tail(b)) /\ Len(Tail(b)) = Len(b) - 1 /\ Len(b) >= 1
           /\ \A k \in 1..(Len(b) - 1) : Tail(b)[k] = b[k + 1]
           /\ Head(b) = b[1]
<1> DEFINE S == {b[k] : k \in 1..Len(b)}
<1>1. b \in Seq(S)
  BY DEF List
<1> HIDE DEF S
<1>2. Tail(b) \in Seq(S) /\ Len(Tail(b)) = Len(b) - 1 /\ Len(b) >= 1
  BY <1>1
<1>3. /\ \A k \in 1..(Len(b) - 1) : Tail(b)[k] = b[k + 1]
      /\ Head(b) = b[1]
  BY <1>1
<1>4. List(Tail(b))
  BY <1>2, ListOfSet
<1> QED
  BY <1>2, <1>3, <1>4

-----------------------------------------------------------------------------
(* What is planned.                                                        *)

\* What the planner is given: a list of pods with listed rails.
PodsListed(ps) == List(ps) /\ \A i \in DOMAIN ps : List(ps[i].rails)

\* The tests from one pod to another are listed.
LEMMA PairTestsListed ==
    ASSUME NEW s, NEW d, List(s.rails), List(d.rails), NEW pairs, NEW exp, NEW rdma
    PROVE  List(PairTests(s, d, pairs, exp, rdma))
<1> DEFINE Row(a, b) == <<withGPUEndpoints([src |-> s.name, dst |-> d.name,
                    srcRail |-> s.rails[a], dstRail |-> d.rails[b],
                    exp |-> exp, gpu |-> FALSE], s, d)>>
           Cond(a, b) == /\ <<s.rails[a], d.rails[b]>> \in pairs
                         /\ Offers(s, s.rails[a], rdma) /\ Offers(d, d.rails[b], rdma)
           Cell(a, b) == IF Cond(a, b) THEN Row(a, b) ELSE <<>>
           Line(a) == [b \in DOMAIN d.rails |-> Cell(a, b)]
           lines == [a \in DOMAIN s.rails |-> FlattenSeq(Line(a))]
<1>1. PairTests(s, d, pairs, exp, rdma) = FlattenSeq(lines)
  BY DEF PairTests
<1>2. ASSUME NEW a, NEW b PROVE List(Cell(a, b))
  <2>1. List(<<>>)
    BY EmptyList
  <2>2. List(Row(a, b))
    <3> DEFINE w == withGPUEndpoints([src |-> s.name, dst |-> d.name,
                    srcRail |-> s.rails[a], dstRail |-> d.rails[b],
                    exp |-> exp, gpu |-> FALSE], s, d)
    <3> HIDE DEF w
    <3>1. <<w>> \in Seq({w})
      OBVIOUS
    <3>2. List(<<w>>)
      BY <3>1, ListOfSet
    <3> QED
      BY <3>2 DEF w
  <2> HIDE DEF Row, Cond
  <2> QED
    BY <2>1, <2>2
<1> HIDE DEF Cell
<1>3. ASSUME NEW a PROVE List(FlattenSeq(Line(a)))
  <2>1. Len(d.rails) \in Nat /\ DOMAIN d.rails = 1..Len(d.rails)
    BY ListDomain
  <2>2. /\ Line(a) = [b \in 1..Len(d.rails) |-> Line(a)[b]]
        /\ \A b \in 1..Len(d.rails) : List(Line(a)[b])
    BY <1>2, <2>1
  <2> HIDE DEF Line
  <2> QED
    BY <2>1, <2>2, JoinedList
<1> HIDE DEF Line
<1>4. Len(s.rails) \in Nat /\ DOMAIN s.rails = 1..Len(s.rails)
  BY ListDomain
<1>5. /\ lines = [a \in 1..Len(s.rails) |-> lines[a]]
      /\ \A a \in 1..Len(s.rails) : List(lines[a])
  BY <1>3, <1>4
<1> HIDE DEF lines
<1> QED
  BY <1>1, <1>4, <1>5, JoinedList

\* So are those of every ordered pair of pods.
LEMMA OverPairsListed ==
    ASSUME NEW ps, PodsListed(ps), NEW pairs, NEW exp, NEW rdma
    PROVE  List(OverPairs(ps, pairs, exp, rdma))
<1> DEFINE Cell(i, j) == IF i = j THEN <<>> ELSE PairTests(ps[i], ps[j], pairs[i][j], exp, rdma)
           Line(i) == [j \in DOMAIN ps |-> Cell(i, j)]
           lines == [i \in DOMAIN ps |-> FlattenSeq(Line(i))]
<1>1. OverPairs(ps, pairs, exp, rdma) = FlattenSeq(lines)
  BY DEF OverPairs
<1>2. Len(ps) \in Nat /\ DOMAIN ps = 1..Len(ps)
  BY ListDomain DEF PodsListed
<1>3. ASSUME NEW i \in DOMAIN ps, NEW j \in DOMAIN ps PROVE List(Cell(i, j))
  <2>1. List(<<>>)
    BY EmptyList
  <2>2. List(PairTests(ps[i], ps[j], pairs[i][j], exp, rdma))
    BY PairTestsListed DEF PodsListed
  <2> QED
    BY <2>1, <2>2
<1> HIDE DEF Cell
<1>4. ASSUME NEW i \in DOMAIN ps PROVE List(FlattenSeq(Line(i)))
  <2>1. /\ Line(i) = [j \in 1..Len(ps) |-> Line(i)[j]]
        /\ \A j \in 1..Len(ps) : List(Line(i)[j])
    BY <1>2, <1>3
  <2> HIDE DEF Line
  <2> QED
    BY <1>2, <2>1, JoinedList
<1> HIDE DEF Line
<1>5. lines = [i \in 1..Len(ps) |-> lines[i]] /\ \A i \in 1..Len(ps) : List(lines[i])
  BY <1>2, <1>4
<1> HIDE DEF lines
<1> QED
  BY <1>1, <1>2, <1>5, JoinedList

\* So are the gateway rows.
LEMMA GatewayListed ==
    ASSUME NEW ps, PodsListed(ps)
    PROVE  List(planGatewayTests(ps))
<1> DEFINE Row(i, r) == [src |-> ps[i].name, dst |-> 0, srcRail |-> ps[i].rails[r],
                         dstRail |-> -1, exp |-> "required", gpu |-> FALSE]
           Line(i) == [r \in DOMAIN ps[i].rails |-> Row(i, r)]
           lines == [i \in DOMAIN ps |-> Line(i)]
<1>1. planGatewayTests(ps) = FlattenSeq(lines)
  BY DEF planGatewayTests
<1>2. Len(ps) \in Nat /\ DOMAIN ps = 1..Len(ps)
  BY ListDomain DEF PodsListed
<1> HIDE DEF Row
<1>3. ASSUME NEW i \in DOMAIN ps PROVE List(Line(i))
  <2>1. Len(ps[i].rails) \in Nat /\ DOMAIN ps[i].rails = 1..Len(ps[i].rails)
    BY ListDomain DEF PodsListed
  <2>2. Line(i) = [r \in 1..Len(ps[i].rails) |-> Line(i)[r]]
    BY <2>1
  <2> HIDE DEF Line
  <2> QED
    BY <2>1, <2>2, Listing
<1> HIDE DEF Line
<1>4. lines = [i \in 1..Len(ps) |-> lines[i]] /\ \A i \in 1..Len(ps) : List(lines[i])
  BY <1>2, <1>3
<1> HIDE DEF lines
<1> QED
  BY <1>1, <1>2, <1>4, JoinedList

\* A plan is a record of three lists of tests.
PlanListed(p) ==
    p # <<>> /\ List(p.gateway) /\ List(p.icmp) /\ List(p.rdma)

\* Whatever the pods, the plan for them is such a record.
LEMMA PlansListed ==
    ASSUME NEW ps, PodsListed(ps), NEW mode, NEW routing
    PROVE  PlanListed(PlanWithOptions(ps, mode, routing))
<1> DEFINE same  == [i \in DOMAIN ps |-> [j \in DOMAIN ps |->
                        {<<r, r>> : r \in ToSet(ps[i].rails)}]]
           cross == [i \in DOMAIN ps |-> [j \in DOMAIN ps |->
                        crossRailPairs(ps[i], ps[j], mode, i, j)]]
           e == crossRailExpectation(mode, routing)
           Tests(rdma) == OverPairs(ps, same, "required", rdma) \o OverPairs(ps, cross, e, rdma)
           g == planGatewayTests(ps)
           few == Len(ps) < 2
<1>1. PlanWithOptions(ps, mode, routing)
        = [gateway |-> g, icmp |-> Tests(FALSE), rdma |-> Tests(TRUE), skip |-> few]
  BY DEF PlanWithOptions
<1>2. List(g)
  BY GatewayListed
<1>3. ASSUME NEW rdma PROVE List(Tests(rdma))
  <2> HIDE DEF same, cross, e
  <2>1. List(OverPairs(ps, same, "required", rdma)) /\ List(OverPairs(ps, cross, e, rdma))
    BY OverPairsListed
  <2> QED
    BY <2>1, ListsJoined
<1>4. List(Tests(FALSE)) /\ List(Tests(TRUE))
  <2> HIDE DEF Tests
  <2> QED
    BY <1>3
<1> HIDE DEF Tests, g, few
<1>5. [gateway |-> g, icmp |-> Tests(FALSE), rdma |-> Tests(TRUE), skip |-> few] # <<>>
  <2>1. DOMAIN [gateway |-> g, icmp |-> Tests(FALSE), rdma |-> Tests(TRUE), skip |-> few]
          = {"gateway", "icmp", "rdma", "skip"}
    OBVIOUS
  <2>2. DOMAIN <<>> = {}
    OBVIOUS
  <2> QED
    BY <2>1, <2>2
<1> DEFINE p == [gateway |-> g, icmp |-> Tests(FALSE), rdma |-> Tests(TRUE), skip |-> few]
<1>6. p.gateway = g /\ p.icmp = Tests(FALSE) /\ p.rdma = Tests(TRUE) /\ p # <<>>
  BY <1>5
<1>7. PlanWithOptions(ps, mode, routing) = p
  BY <1>1
<1> HIDE DEF p
<1> QED
  BY <1>2, <1>4, <1>6, <1>7 DEF PlanListed

-----------------------------------------------------------------------------
(* Where a run stands.                                                     *)

\* The points of a run before the plan, of a batch, and of a family; the batches
\* planned for the running family, and how many of them are done.
Early   == {"start", "create", "rollout", "plan"}
Rdma    == {"server", "client", "kill"}
Probing == {"routes", "single"} \union Rdma
Planned == groupRPingTests(tests)
Done    == Len(Planned) - Len(batches)

\* The batches that are left are the last ones planned.
Standing ==
    /\ List(batches) /\ Len(batches) <= Len(Planned)
    /\ \A k \in 1..Len(batches) : batches[k] = Planned[Done + k]

\* How far the run is: what is listed, planned and probed at each point of it.
ProbeInv ==
    /\ pc \in Early \union Probing \union {"stage", "cleanup", "done"}
    /\ pc \in {"start", "create", "rollout"} => pods \in Seq(AllPods)
    /\ pc = "plan" => PodsListed(pods)
    /\ pc \in Early => plan = <<>> /\ stage = 0
    /\ pc \in Probing \union {"stage"} => PlanListed(plan)
    /\ stage \in 0..Len(Stages)
    /\ pc \in Probing => /\ stage # 0 /\ Check \in Checks
                         /\ tests = testsForCheck(plan, Check)
                         /\ DOMAIN routes = DOMAIN tests
    /\ pc \in {"routes", "single"} => next \in 1..(Len(tests) + 1)
    /\ pc = "routes" => Check # "gateway"
    /\ pc = "single" => Check \in {"gateway", "icmp"}
    /\ pc \in Rdma =>
         Check \notin {"gateway", "icmp"} /\ Standing
    /\ pc \in {"client", "kill"} => batches # <<>>

\* The pods listed so far are pods of the bundle.
LEMMA RolloutListed ==
    ASSUME ProbeInv, WaitForRollout, next \in Nat \ {0}
    PROVE  ProbeInv'
<1>1. /\ pc = "rollout" /\ UNCHANGED <<plan, stage>> /\ pods \in Seq(AllPods)
      /\ plan = <<>> /\ stage = 0 /\ next <= Len(DaemonSets)
  BY DEF WaitForRollout, ProbeInv, probes, Early
<1>2. \/ pc' = "rollout" /\ \E ready \in SUBSET DOMAIN PodsOf[DaemonSets[next]] :
                               pods' = pods \o Keep(PodsOf[DaemonSets[next]], ready)
      \/ pc' = "cleanup"
  BY DEF WaitForRollout
<1>3. CASE pc' = "cleanup"
  BY <1>1, <1>3 DEF ProbeInv, Early, Probing, Rdma, Stages
<1>4. CASE pc' = "rollout"
  <2> DEFINE d == DaemonSets[next]
  <2>1. d \in ToSet(DaemonSets)
    <3>1. next \in DOMAIN DaemonSets
      BY <1>1, ConnectivityAssumption
    <3> QED
      BY <3>1 DEF ToSet
  <2> HIDE DEF d
  <2>2. PodsOf[d] \in Seq(AllPods)
    <3>1. ToSet(PodsOf[d]) \subseteq AllPods
      BY <2>1 DEF AllPods
    <3> QED
      BY <2>1, <3>1, ConnectivityAssumption
  <2>3. PICK ready : pods' = pods \o Keep(PodsOf[d], ready)
    BY <1>2, <1>4 DEF d
  <2>4. Keep(PodsOf[d], ready) \in Seq(AllPods)
    BY <2>2, Kept
  <2>5. pods' \in Seq(AllPods)
    BY <1>1, <2>3, <2>4, ConcatProperties
  <2>6. AllPods' = AllPods
    BY DEF AllPods
  <2> QED
    BY <1>1, <1>4, <2>5, <2>6 DEF ProbeInv, Early, Probing, Rdma, Stages
<1> QED
  BY <1>2, <1>3, <1>4

\* The pods that the plan is made for have listed rails.
LEMMA BuiltListed ==
    ASSUME ProbeInv, BuildMatrixPods
    PROVE  ProbeInv'
<1> DEFINE built == [i \in DOMAIN pods |-> matrixPod(pods[i], Groups, HasRDMA)]
           usable == Keep(built, {i \in DOMAIN pods : built[i].rails # <<>>})
           B == {built[i] : i \in DOMAIN pods}
<1>1. /\ pc = "rollout" /\ pc' = "plan" /\ UNCHANGED <<plan, stage>>
      /\ pods \in Seq(AllPods) /\ plan = <<>> /\ stage = 0
  BY DEF BuildMatrixPods, ProbeInv, probes, Early
<1>2. \/ pods' = usable
      \/ usable # <<>> /\ pods' = Tail(usable)
      \/ usable # <<>> /\ pods' = [usable EXCEPT ![1].rdma = {}]
  BY DEF BuildMatrixPods
<1>3. \A i \in DOMAIN pods : pods[i] \in AllPods
  BY <1>1
<1>4. \A p \in AllPods : p.nets \in Seq(ToSet(p.nets))
  BY ConnectivityAssumption DEF AllPods
<1>5. \A b \in B : List(b.rails)
  BY <1>3, <1>4, RailsListed
<1>6. usable \in Seq(B)
  <2>1. built \in Seq(B)
    <3>1. DOMAIN pods = 1..Len(pods) /\ Len(pods) \in Nat
      BY <1>1
    <3>2. built \in [1..Len(pods) -> B]
      BY <3>1
    <3> HIDE DEF built, B
    <3> QED
      BY <3>1, <3>2
  <2> HIDE DEF built, B
  <2> QED
    BY <2>1, Kept
<1>7. \A b \in B : [b EXCEPT !.rdma = {}].rails = b.rails
  BY DEF matrixPod
<1> HIDE DEF usable, B, built
<1>8. PodsListed(pods)'
  <2>1. CASE pods' = usable
    <3>1. List(usable) /\ \A i \in DOMAIN usable : usable[i] \in B
      BY <1>6, ListOfSet
    <3> QED
      BY <1>5, <2>1, <3>1 DEF PodsListed, List
  <2>2. CASE usable # <<>> /\ pods' = Tail(usable)
    <3>1. pods' \in Seq(B)
      BY <1>6, <2>2
    <3>2. List(pods') /\ \A i \in DOMAIN pods' : pods'[i] \in B
      BY <3>1, ListOfSet
    <3> QED
      BY <1>5, <3>2 DEF PodsListed, List
  <2>3. CASE usable # <<>> /\ pods' = [usable EXCEPT ![1].rdma = {}]
    <3>1. /\ Len(usable) \in Nat /\ DOMAIN usable = 1..Len(usable) /\ 1 \in DOMAIN usable
          /\ \A i \in DOMAIN usable : usable[i] \in B
      BY <1>6, <2>3
    <3>2. DOMAIN pods' = 1..Len(usable)
      BY <2>3, <3>1
    <3>3. pods' = [k \in 1..Len(usable) |-> pods'[k]]
      BY <2>3, <3>1
    <3>4. List(pods') /\ Len(pods') = Len(usable)
      BY <3>1, <3>3, Listing
    <3>5. \A i \in DOMAIN pods' : pods'[i].rails = usable[i].rails
      <4>1. pods'[1] = [usable[1] EXCEPT !.rdma = {}]
        BY <2>3, <3>1
      <4>2. \A i \in DOMAIN usable : i # 1 => pods'[i] = usable[i]
        BY <2>3, <3>1
      <4> QED
        BY <1>7, <3>1, <3>2, <4>1, <4>2
    <3> QED
      BY <1>5, <3>1, <3>2, <3>4, <3>5 DEF PodsListed, List
  <2> QED
    BY <1>2, <2>1, <2>2, <2>3
<1> QED
  BY <1>1, <1>8 DEF ProbeInv, Early, Probing, Rdma, Stages

\* The other steps of the set-up.
LEMMA SetupListed ==
    ASSUME ProbeInv, Start \/ Create \/ AllCreated \/ MakePlan
    PROVE  ProbeInv'
<1>1. UNCHANGED stage /\ stage = 0 /\ pc \in Early /\ plan = <<>>
  BY DEF Start, Create, AllCreated, MakePlan, probes, ProbeInv, Early
<1>2. AllPods' = AllPods
  BY DEF AllPods
<1>3. CASE Start \/ Create \/ AllCreated
  <2>1. /\ pc' \in {"create", "rollout", "cleanup", "done"} /\ UNCHANGED <<pods, plan>>
        /\ pods \in Seq(AllPods)
    BY <1>3 DEF Start, Create, AllCreated, probes, ProbeInv, Early
  <2> QED
    BY <1>1, <1>2, <2>1 DEF ProbeInv, Early, Probing, Rdma, Stages
<1>4. CASE MakePlan
  <2>1. /\ pc' \in {"stage", "cleanup"} /\ pc = "plan" /\ PodsListed(pods)
        /\ plan' = PlanWithOptions(pods, cfg.mode, cfg.routing)
    BY <1>4 DEF MakePlan, ProbeInv
  <2>2. PlanListed(plan')
    BY <2>1, PlansListed
  <2> QED
    BY <1>1, <2>1, <2>2 DEF ProbeInv, Early, Probing, Rdma, Stages
<1> QED
  BY <1>3, <1>4

\* The tests of every family are listed.
LEMMA TestsListed ==
    ASSUME NEW p, PlanListed(p), NEW check
    PROVE  List(testsForCheck(p, check))
BY DEF PlanListed, testsForCheck

\* A batch is a set of positions, and batches are listed.
LEMMA BatchesListed ==
    ASSUME NEW ts, List(ts)
    PROVE  /\ List(groupRPingTests(ts))
           /\ \A k \in DOMAIN groupRPingTests(ts) : groupRPingTests(ts)[k] \subseteq DOMAIN ts
<1> DEFINE With(k) == {j \in DOMAIN ts : ts[j].src = ts[k].src /\ ts[j].dst = ts[k].dst}
           starts == {k \in DOMAIN ts : \A j \in With(k) : k <= j}
           first == Sorted(starts)
           groups == [n \in DOMAIN first |-> With(first[n])]
<1>1. groupRPingTests(ts) = groups
  BY DEF groupRPingTests
<1>2. Len(ts) \in Nat /\ DOMAIN ts = 1..Len(ts)
  BY ListDomain
<1>3. IsFiniteSet(starts)
  <2>1. IsFiniteSet(1..Len(ts))
    BY <1>2, FS_Interval
  <2>2. starts \subseteq 1..Len(ts)
    BY <1>2
  <2> HIDE DEF starts
  <2> QED
    BY <2>1, <2>2, FS_Subset
<1>4. List(first)
  <2> HIDE DEF starts
  <2> QED
    BY <1>3, SortedList
<1>5. \A n : With(n) \subseteq DOMAIN ts
  OBVIOUS
<1> HIDE DEF first, With
<1>6. Len(first) \in Nat /\ DOMAIN first = 1..Len(first)
  BY <1>4, ListDomain
<1>7. /\ groups = [n \in 1..Len(first) |-> groups[n]]
      /\ \A n \in DOMAIN groups : groups[n] \subseteq DOMAIN ts
  BY <1>5, <1>6
<1> HIDE DEF groups
<1>8. List(groups)
  BY <1>6, <1>7, Listing
<1> QED
  BY <1>1, <1>7, <1>8

\* The steps within a family keep its tests.
SameStage == UNCHANGED <<cfg, plan, stage, tests>>

\* Within a family its name, its tests and its batches stay what they are.
LEMMA SameStageKeeps ==
    ASSUME SameStage
    PROVE  /\ Check' = Check /\ Checks' = Checks /\ Planned' = Planned
           /\ testsForCheck(plan, Check)' = testsForCheck(plan, Check)
BY DEF SameStage, Check, Checks, Planned

\* The family that is probed next.
LEMMA StageListed ==
    ASSUME ProbeInv, BeginStage
    PROVE  /\ ProbeInv' /\ UNCHANGED <<cfg, plan, clock>> /\ pc = "stage"
           /\ \/ pc' = "cleanup" /\ stage' = stage
              \/ /\ pc' \in {"single", "routes"} /\ next' = 1
                 /\ stage' \in 1..Len(Stages) /\ stage' > stage
<1> DEFINE later == {k \in (stage + 1) .. Len(Stages) :
                       /\ Stages[k] \in Checks
                       /\ testsForCheck(plan, Stages[k]) # <<>>}
<1>1. /\ pc = "stage" /\ UNCHANGED <<cfg, plan, clock>> /\ next' = 1
      /\ PlanListed(plan) /\ stage \in 0..Len(Stages)
  BY DEF BeginStage, ProbeInv, context
<1>2. CASE later = {}
  <2>1. pc' = "cleanup" /\ UNCHANGED stage
    BY <1>2 DEF BeginStage
  <2> QED
    BY <1>1, <2>1 DEF ProbeInv, Early, Probing, Rdma
<1>3. CASE later # {}
  <2> DEFINE m == Min(later)
  <2>1. /\ stage' = m /\ tests' = testsForCheck(plan, Stages[m])
        /\ pc' = IF Stages[m] = "gateway" THEN "single" ELSE "routes"
        /\ routes' = [n \in DOMAIN tests' |-> NoRoute]
    BY <1>3 DEF BeginStage
  <2>2. m \in later
    <3>1. later \subseteq Nat
      BY <1>1
    <3> HIDE DEF later
    <3>2. \E x \in later : \A y \in later : x <= y
      BY <1>3, <3>1, LeastNumber
    <3> QED
      BY <3>2 DEF Min
  <2>3. Len(Stages) = 5
    BY DEF Stages
  <2> HIDE DEF m
  <2>4. m \in 1..Len(Stages) /\ m > stage /\ Stages[m] \in Checks
    BY <1>1, <2>2, <2>3
  <2> HIDE DEF later
  <2>5. Check' = Stages[m] /\ Checks' = Checks
    BY <1>1, <2>1 DEF Check, Checks
  <2>6. tests' = testsForCheck(plan, Check)' /\ List(tests')
    <3>1. List(testsForCheck(plan, Stages[m]))
      BY <1>1, TestsListed
    <3>2. testsForCheck(plan, Check)' = testsForCheck(plan, Stages[m])
      BY <1>1, <2>5 DEF testsForCheck
    <3> QED
      BY <2>1, <3>1, <3>2
  <2>7. next' \in 1..(Len(tests') + 1)
    BY <1>1, <2>6 DEF List
  <2>8. DOMAIN routes' = DOMAIN tests'
    BY <2>1
  <2> QED
    BY <1>1, <2>1, <2>3, <2>4, <2>5, <2>6, <2>7, <2>8 DEF ProbeInv, Early, Probing, Rdma
<1> QED
  BY <1>2, <1>3

\* The tests of a family, one after the other.
LEMMA SinglesListed ==
    ASSUME ProbeInv, CheckRoute \/ RunGateway \/ RunICMP \/ ICMPStalls
    PROVE  /\ ProbeInv' /\ SameStage /\ UNCHANGED pc /\ next' = next + 1
           /\ List(tests) /\ next \in 1..Len(tests)
<1>1. /\ pc \in {"routes", "single"} /\ UNCHANGED pc /\ SameStage
      /\ next' = next + 1 /\ next <= Len(tests)
  BY DEF CheckRoute, RunGateway, RunICMP, ICMPStalls, SameStage, context
<1>2. DOMAIN routes' = DOMAIN routes
  BY DEF CheckRoute, RunGateway, RunICMP, ICMPStalls
<1>3. List(tests)
  BY <1>1, TestsListed DEF ProbeInv, Probing
<1>4. /\ Check' = Check /\ Checks' = Checks
      /\ testsForCheck(plan, Check)' = testsForCheck(plan, Check)
  BY <1>1, SameStageKeeps
<1>5. next \in 1..Len(tests) /\ next' \in 1..(Len(tests) + 1)
  BY <1>1, <1>3 DEF ProbeInv, List
<1> QED
  BY <1>1, <1>2, <1>3, <1>4, <1>5 DEF ProbeInv, Early, Probing, Rdma, SameStage

\* The last step of a family.
LEMMA FamilyListed ==
    ASSUME ProbeInv, SinglesDone \/ BatchesDone
    PROVE  /\ ProbeInv' /\ SameStage /\ pc' = "stage" /\ UNCHANGED clock
           /\ pc \in Probing
BY DEF SinglesDone, BatchesDone, SameStage, context, probes, ProbeInv, Early, Probing, Rdma

\* From the routes of a family to its tests.
LEMMA RoutesListed ==
    ASSUME ProbeInv, RoutesChecked
    PROVE  /\ ProbeInv' /\ SameStage /\ UNCHANGED clock /\ pc = "routes" /\ List(tests)
           /\ next = Len(tests) + 1 /\ next' = 1
           /\ \/ pc' = "single" /\ Check = "icmp"
              \/ pc' = "server" /\ Check # "icmp" /\ batches' = Planned
<1>1. /\ pc = "routes" /\ SameStage /\ UNCHANGED <<clock, routes>> /\ next' = 1
      /\ next > Len(tests)
      /\ pc' = IF Check = "icmp" THEN "single" ELSE "server"
      /\ Check # "icmp" => batches' = Planned
  BY DEF RoutesChecked, SameStage, context, Planned
<1>2. List(tests)
  BY <1>1, TestsListed DEF ProbeInv, Probing
<1>3. /\ Check' = Check /\ Checks' = Checks /\ Planned' = Planned
      /\ testsForCheck(plan, Check)' = testsForCheck(plan, Check)
  BY <1>1, SameStageKeeps
<1>4. next = Len(tests) + 1 /\ next' \in 1..(Len(tests) + 1)
  BY <1>1, <1>2 DEF ProbeInv, List
<1>5. List(Planned)
  BY <1>2, BatchesListed DEF Planned
<1>6. ASSUME Check # "icmp"
      PROVE  /\ List(batches') /\ Len(batches') <= Len(Planned')
             /\ \A k \in 1..Len(batches') : batches'[k] = Planned'[Done' + k]
  <2>1. Done' = 0
    BY <1>1, <1>3, <1>5, <1>6 DEF Done, List
  <2> QED
    BY <1>1, <1>3, <1>5, <1>6, <2>1 DEF List
<1> QED
  BY <1>1, <1>2, <1>3, <1>4, <1>6 DEF ProbeInv, Early, Probing, Rdma, SameStage, Standing

\* The batch at hand is the first that is not done.
LEMMA BatchAt ==
    ASSUME Standing, List(Planned), batches # <<>>
    PROVE  /\ Batch = Planned[Done + 1] /\ Done \in Nat /\ Done + 1 \in DOMAIN Planned
<1>1. Len(batches) >= 1 /\ Batch = batches[1]
  BY TailList DEF Standing, Batch
<1>2. Len(batches) \in Nat /\ Len(Planned) \in Nat /\ DOMAIN Planned = 1..Len(Planned)
  BY ListDomain DEF Standing
<1>3. Done \in Nat /\ Done + 1 \in 1..Len(Planned)
  BY <1>1, <1>2 DEF Done, Standing
<1> QED
  BY <1>1, <1>2, <1>3 DEF Standing

\* A batch that is done leaves the rest of the batches.
LEMMA NextBatch ==
    ASSUME Standing, List(Planned), SameStage, batches # <<>>, batches' = Tail(batches)
    PROVE  Standing' /\ Done' = Done + 1
<1>1. Planned' = Planned
  BY SameStageKeeps
<1>2. /\ List(batches') /\ Len(batches') = Len(batches) - 1 /\ Len(batches) >= 1
      /\ \A k \in 1..(Len(batches) - 1) : batches'[k] = batches[k + 1]
  BY TailList DEF Standing
<1>3. Len(batches) \in Nat /\ Len(Planned) \in Nat
  BY ListDomain DEF Standing
<1>4. Done' = Done + 1 /\ Done \in Nat
  BY <1>1, <1>2, <1>3 DEF Done, Standing
<1>5. \A k \in 1..Len(batches') : batches'[k] = Planned'[Done' + k]
  <2> TAKE k \in 1..Len(batches')
  <2>1. k \in 1..(Len(batches) - 1) /\ k + 1 \in 1..Len(batches) /\ Done + (k + 1) = Done' + k
    BY <1>2, <1>3, <1>4
  <2> QED
    BY <1>1, <1>2, <2>1 DEF Standing
<1> QED
  BY <1>1, <1>2, <1>3, <1>4, <1>5 DEF Standing

\* The steps of a batch.
LEMMA BatchListed ==
    ASSUME ProbeInv, StartServers \/ RunClient \/ KillServers
    PROVE  /\ ProbeInv' /\ SameStage /\ pc \in Rdma /\ pc' \in Rdma /\ batches # <<>>
           /\ Standing /\ List(Planned) /\ List(tests)
           /\ \/ UNCHANGED batches
              \/ batches' = Tail(batches) /\ pc' = "server"
<1>1. /\ pc \in Rdma /\ pc' \in Rdma /\ SameStage /\ UNCHANGED routes
      /\ \/ UNCHANGED batches
         \/ batches' = Tail(batches) /\ pc' = "server"
  BY DEF StartServers, RunClient, KillServers, Rdma, SameStage, context
<1>2. batches # <<>>
  BY DEF StartServers, RunClient, KillServers, ProbeInv
<1>3. List(tests)
  BY <1>1, TestsListed DEF ProbeInv, Probing
<1>4. List(Planned)
  BY <1>3, BatchesListed DEF Planned
<1>5. /\ Check' = Check /\ Checks' = Checks /\ Planned' = Planned
      /\ testsForCheck(plan, Check)' = testsForCheck(plan, Check)
  BY <1>1, SameStageKeeps
<1>6. Standing
  BY <1>1 DEF ProbeInv, Standing
<1>7. Standing'
  <2>1. CASE UNCHANGED batches
    BY <1>5, <1>6, <2>1 DEF Standing, Done
  <2>2. CASE batches' = Tail(batches)
    BY <1>1, <1>2, <1>4, <1>6, <2>2, NextBatch
  <2> QED
    BY <1>1, <2>1, <2>2
<1> QED
  BY <1>1, <1>2, <1>3, <1>4, <1>5, <1>6, <1>7
     DEF ProbeInv, Early, Probing, Rdma, SameStage, Standing

\* The steps that leave the probing alone.
LEMMA AsideListed ==
    ASSUME ProbeInv, Cleanup \/ CleanupDone \/ Expire \/ UNCHANGED vars
    PROVE  ProbeInv'
<1>1. CASE Cleanup \/ CleanupDone
  BY <1>1 DEF Cleanup, CleanupDone, probes, ProbeInv, Early, Probing, Rdma
<1>2. CASE Expire \/ UNCHANGED vars
  <2>1. SameStage /\ UNCHANGED <<pc, pods, next, routes, batches>>
    BY <1>2 DEF Expire, vars, probes, SameStage
  <2>2. /\ Check' = Check /\ Checks' = Checks /\ Planned' = Planned
        /\ testsForCheck(plan, Check)' = testsForCheck(plan, Check)
        /\ AllPods' = AllPods
    BY <2>1, SameStageKeeps DEF AllPods
  <2>3. Done' = Done
    BY <2>1, <2>2 DEF Done
  <2>4. PodsListed(pods)' = PodsListed(pods)
    BY <2>1 DEF PodsListed
  <2> QED
    BY <2>1, <2>2, <2>3, <2>4 DEF ProbeInv, SameStage, Standing
<1> QED
  BY <1>1, <1>2

\* Every step keeps the invariant of the probing.
LEMMA ProbeStep ==
    ASSUME ProbeInv, next \in Nat \ {0}, [Next]_vars
    PROVE  ProbeInv'
BY RolloutListed, BuiltListed, SetupListed, StageListed, SinglesListed, FamilyListed,
   RoutesListed, BatchListed, AsideListed DEF Next, Run

\* So it holds of every state of a run.
LEMMA ProbeInvariant == Spec => []ProbeInv
<1>1. Init => ProbeInv
  BY DEF Init, ProbeInv, Early, Probing, Rdma, Stages
<1>2. CleanupInv => next \in Nat \ {0}
  BY DEF CleanupInv
<1>3. ProbeInv /\ next \in Nat \ {0} /\ [Next]_vars => ProbeInv'
  BY ProbeStep
<1> QED
  BY <1>1, <1>2, <1>3, CleanupInvariant, PTL DEF Spec

-----------------------------------------------------------------------------
(* Which failures a row shows.                                             *)

\* No cached route is a failure, and a failed route of a test was looked up in
\* the stage that is running.
RouteInv ==
    /\ \A k \in DOMAIN cache : cache[k] # RouteFailed
    /\ pc \in Probing =>
         \A k \in DOMAIN tests : routes[k] = RouteFailed => RouteKey(tests[k]) \in fresh
    /\ FailureNotInherited

\* The route values are told apart.
LEMMA RoutesDiffer ==
    /\ NoRoute # RouteFailed /\ NoDevice # RouteFailed /\ RouteSkip # RouteFailed
    /\ \A rail : Via(rail) # RouteFailed
BY DEF NoRoute, NoDevice, RouteSkip, RouteFailed, Via

\* What a lookup that is answered says is no failure.
LEMMA AnswersDiffer ==
    ASSUME NEW t
    PROVE  ActualRoute(t) # RouteFailed /\ GatewayRoute(t) # RouteFailed
BY RoutesDiffer DEF ActualRoute, GatewayRoute

\* A lookup.
LEMMA LookupInherits ==
    ASSUME ProbeInv, RouteInv, CheckRoute
    PROVE  RouteInv'
<1> DEFINE t == tests[next]
<1>1. /\ pc = "routes" /\ UNCHANGED <<pc, tests, last>> /\ List(tests) /\ next \in 1..Len(tests)
  BY SinglesListed DEF CheckRoute
<1>2. DOMAIN tests = 1..Len(tests) /\ DOMAIN routes = DOMAIN tests
  BY <1>1, ListDomain DEF ProbeInv, Probing
<1>3. \A k \in DOMAIN tests : routes[k] = RouteFailed => RouteKey(tests[k]) \in fresh
  BY <1>1 DEF RouteInv, Probing
<1>4. \A u : RouteKey(u)' = RouteKey(u)
  BY DEF RouteKey
<1>5. CASE UNCHANGED <<routes, cache, fresh>>
  BY <1>1, <1>5 DEF RouteInv, FailureNotInherited, RouteKey
<1>6. CASE /\ RouteKey(t) \in DOMAIN cache /\ UNCHANGED <<cache, fresh>>
           /\ routes' = [routes EXCEPT ![next] = cache[RouteKey(t)]]
  <2>1. cache[RouteKey(t)] # RouteFailed
    BY <1>6 DEF RouteInv
  <2>2. \A k \in DOMAIN tests : routes'[k] = RouteFailed => RouteKey(tests[k]) \in fresh
    BY <1>2, <1>3, <1>6, <2>1
  <2> QED
    BY <1>1, <1>6, <2>2 DEF RouteInv, FailureNotInherited, RouteKey
<1>7. CASE \E failed \in BOOLEAN :
             LET r == IF failed THEN RouteFailed ELSE ActualRoute(t)
             IN /\ routes' = [routes EXCEPT ![next] = r]
                /\ cache' = IF failed THEN cache ELSE Put(cache, RouteKey(t), r)
                /\ fresh' = fresh \union {RouteKey(t)}
  <2>1. PICK failed \in BOOLEAN :
             LET r == IF failed THEN RouteFailed ELSE ActualRoute(t)
             IN /\ routes' = [routes EXCEPT ![next] = r]
                /\ cache' = IF failed THEN cache ELSE Put(cache, RouteKey(t), r)
                /\ fresh' = fresh \union {RouteKey(t)}
    BY <1>7
  <2>2. \A k \in DOMAIN tests : routes'[k] = RouteFailed => RouteKey(tests[k]) \in fresh'
    BY <1>2, <1>3, <2>1
  <2>3. \A k \in DOMAIN cache' : cache'[k] # RouteFailed
    <3>1. CASE failed
      BY <2>1, <3>1 DEF RouteInv
    <3>2. CASE ~failed
      <4>1. cache' = Put(cache, RouteKey(t), ActualRoute(t))
        BY <2>1, <3>2
      <4> QED
        BY <4>1, AnswersDiffer DEF RouteInv, Put
    <3> QED
      BY <3>1, <3>2
  <2>4. FailureNotInherited'
    BY <1>1, <2>1 DEF RouteInv, FailureNotInherited, RouteKey
  <2> QED
    BY <1>1, <2>2, <2>3, <2>4 DEF RouteInv, RouteKey
<1> QED
  BY <1>5, <1>6, <1>7 DEF CheckRoute

\* A row shows the route of one of the tests, or that of a gateway.
LEMMA RowsInherit ==
    ASSUME ProbeInv, RouteInv, RunGateway \/ RunICMP \/ ICMPStalls
    PROVE  RouteInv'
<1>1. /\ UNCHANGED <<pc, tests, routes, cache, fresh>> /\ pc \in Probing
      /\ List(tests) /\ next \in 1..Len(tests)
  BY SinglesListed DEF RunGateway, RunICMP, ICMPStalls, Probing
<1>2. next \in DOMAIN tests
  BY <1>1, ListDomain
<1>3. \A r \in last' : /\ r.test = tests[next]
                       /\ r.route = routes[next] \/ r.route = GatewayRoute(tests[next])
  <2> DEFINE t == tests[next]
             p == CHOOSE q \in ToSet(pods) : q.name = t.src
             g == net.gateway[t.srcRail]
             clear == t.srcRail \in p.iface \ p.ambiguous
             up == /\ clear /\ g = "up"
                   /\ routeValidationError(GatewayRoute(t), t.srcRail) = "no"
             skip == clear /\ g = "none" /\ net.routing # "noip"
             Row(s) == Result(t, routes[next], finalizeExpectedResult(t.exp, s), FALSE, s)
  <2> DEFINE gate == Result(t, GatewayRoute(t), up, skip, up)
             fail == Result(t, routes[next], FALSE, FALSE, FALSE)
             none == Row(FALSE)
             seen == Row(Flows(t))
  <2>1. last' \in {{gate}, {fail}, {none}, {seen}}
    <3>1. CASE RunGateway
      BY <3>1 DEF RunGateway, Report
    <3>2. CASE RunICMP \/ ICMPStalls
      BY <3>2 DEF RunICMP, ICMPStalls, Report
    <3> QED
      BY <3>1, <3>2
  <2>2. /\ gate.test = t /\ gate.route = GatewayRoute(t)
        /\ fail.test = t /\ fail.route = routes[next]
        /\ none.test = t /\ none.route = routes[next]
        /\ seen.test = t /\ seen.route = routes[next]
    BY DEF Result
  <2> HIDE DEF t, gate, fail, none, seen
  <2>3. \A r \in last' : r.test = t /\ (r.route = routes[next] \/ r.route = GatewayRoute(t))
    BY <2>1, <2>2
  <2> QED
    BY <2>3 DEF t
<1>4. FailureNotInherited'
  BY <1>1, <1>2, <1>3, AnswersDiffer DEF RouteInv, FailureNotInherited, RouteKey
<1> QED
  BY <1>1, <1>4 DEF RouteInv, RouteKey

\* The rows of a batch.
LEMMA CellsInherit ==
    ASSUME ProbeInv, RouteInv, StartServers \/ RunClient \/ KillServers
    PROVE  RouteInv'
<1>1. /\ UNCHANGED <<tests, routes, cache, fresh>> /\ pc \in Rdma /\ pc' \in Rdma
      /\ List(tests) /\ List(Planned) /\ Standing /\ batches # <<>>
  BY BatchListed DEF StartServers, RunClient, KillServers
<1>2. Batch \subseteq DOMAIN tests
  <2>1. Batch = Planned[Done + 1] /\ Done + 1 \in DOMAIN Planned
    BY <1>1, BatchAt
  <2> QED
    BY <1>1, <2>1, BatchesListed DEF Planned
<1>3. \A r \in last' : r \in last \/ \E k \in Batch : r.test = tests[k] /\ r.route = routes[k]
  <2>1. \A k \in Batch : \A parsed \in BOOLEAN :
           CellResult(k, parsed).test = tests[k] /\ CellResult(k, parsed).route = routes[k]
    BY DEF CellResult, Result
  <2>2. \A r \in FailedBatch : \E k \in Batch : r.test = tests[k] /\ r.route = routes[k]
    BY DEF FailedBatch, Result
  <2>3. CASE StartServers \/ KillServers
    <3>1. last' = last \/ last' = FailedBatch
      BY <2>3 DEF StartServers, KillServers, Report
    <3> QED
      BY <2>2, <3>1
  <2>4. CASE RunClient
    BY <2>1, <2>2, <2>4, ClientRows
  <2> QED
    BY <2>3, <2>4
<1>4. \A k \in DOMAIN tests : routes[k] = RouteFailed => RouteKey(tests[k]) \in fresh
  BY <1>1 DEF RouteInv, Probing
<1>5. FailureNotInherited'
  BY <1>1, <1>2, <1>3, <1>4 DEF RouteInv, FailureNotInherited, RouteKey
<1> QED
  BY <1>1, <1>4, <1>5 DEF RouteInv, RouteKey, Probing

\* A family starts with no route looked up and no row reported.
LEMMA StageInherits ==
    ASSUME ProbeInv, RouteInv, BeginStage
    PROVE  RouteInv'
<1>1. \/ pc' = "cleanup" /\ UNCHANGED <<last, fresh, cache>>
      \/ /\ last' = {} /\ UNCHANGED cache
         /\ routes' = [n \in DOMAIN tests' |-> NoRoute]
  BY DEF BeginStage
<1>2. CASE pc' = "cleanup" /\ UNCHANGED <<last, fresh, cache>>
  BY <1>2 DEF RouteInv, FailureNotInherited, RouteKey, Probing, Rdma
<1>3. CASE /\ last' = {} /\ UNCHANGED cache
           /\ routes' = [n \in DOMAIN tests' |-> NoRoute]
  BY <1>3, RoutesDiffer DEF RouteInv, FailureNotInherited
<1> QED
  BY <1>1, <1>2, <1>3

\* The other steps look up and report nothing.
LEMMA OthersInherit ==
    ASSUME ProbeInv, RouteInv, UNCHANGED <<cache, fresh, last>>,
           pc' \notin Probing \/ (pc \in Probing /\ UNCHANGED <<routes, tests>>)
    PROVE  RouteInv'
BY DEF RouteInv, FailureNotInherited, RouteKey

\* Every step keeps the invariant of the routes.
LEMMA RouteStep ==
    ASSUME ProbeInv, RouteInv, [Next]_vars
    PROVE  RouteInv'
<1>1. CASE Start \/ Create \/ AllCreated \/ WaitForRollout \/ BuildMatrixPods \/ MakePlan
  <2>1. UNCHANGED <<cache, fresh, last>> /\ pc' \notin Probing
    BY <1>1 DEF Start, Create, AllCreated, WaitForRollout, BuildMatrixPods, MakePlan, probes,
                Probing, Rdma
  <2> QED
    BY <2>1, OthersInherit
<1>2. CASE SinglesDone \/ BatchesDone \/ Cleanup \/ CleanupDone
  <2>1. UNCHANGED <<cache, fresh, last>> /\ pc' \notin Probing
    BY <1>2 DEF SinglesDone, BatchesDone, Cleanup, CleanupDone, probes, Probing, Rdma
  <2> QED
    BY <2>1, OthersInherit
<1>3. CASE RoutesChecked \/ Expire \/ UNCHANGED vars
  <2>1. UNCHANGED <<cache, fresh, last, routes, tests>> /\ (pc' = pc \/ pc \in Probing)
    BY <1>3 DEF RoutesChecked, Expire, vars, probes, Probing
  <2> QED
    BY <2>1, OthersInherit
<1> QED
  BY <1>1, <1>2, <1>3, LookupInherits, RowsInherit, CellsInherit, StageInherits DEF Next, Run

\* A row fails for a route that could not be read only if the lookup was made for
\* its own family: a transient failure of an earlier family is looked up again
\* (checkSourceRoutes), whichever calls fail and whatever is cached.
THEOREM FailuresAreFresh == Spec => []FailureNotInherited
<1>1. Init => RouteInv
  BY DEF Init, RouteInv, FailureNotInherited, Probing, Rdma
<1>2. ProbeInv /\ RouteInv /\ [Next]_vars => RouteInv'
  BY RouteStep
<1>3. RouteInv => FailureNotInherited
  BY DEF RouteInv
<1> QED
  BY <1>1, <1>2, <1>3, ProbeInvariant, PTL DEF Spec

-----------------------------------------------------------------------------
(* How long the tests take.                                                *)

\* What the families, the routes, the echo requests and the batches may cost.
WorthOf(p, checks) ==
    [k \in DOMAIN Stages |->
        IF Stages[k] \in normalizeChecks(checks)
        THEN CheckBudget(Stages[k], testsForCheck(p, Stages[k])) ELSE 0]
Worth == WorthOf(plan, cfg.checks)
RouteCost(ts) == [k \in DOMAIN ts |-> IF ts[k].exp = "required" THEN routeCheckTimeout ELSE 0]
PingCost(ts)  == [k \in DOMAIN ts |-> commandTimeoutFor(ts[k], icmpCommandTimeout)]
BatchCost(check, ts) ==
    [k \in DOMAIN groupRPingTests(ts) |->
        rdmaBatchTimeoutFor(check, ts, groupRPingTests(ts)[k]) + rdmaServerCleanupTimeout]

\* What the running family may have spent by now.
Spent ==
    IF pc = "routes"
      THEN IF Check = "icmp" THEN 10 * (next - 1) ELSE SumTo(RouteCost(tests), next - 1)
    ELSE IF pc = "single"
      THEN IF Check = "gateway" THEN 35 * (next - 1)
           ELSE 10 * Len(tests) + SumTo(PingCost(tests), next - 1)
    ELSE SumTo(RouteCost(tests), Len(tests)) + SumTo(BatchCost(Check, tests), Done)
           + (IF pc = "kill" THEN rdmaBatchTimeoutFor(Check, tests, Batch) ELSE 0)

\* The clock is within what the families before and the running one may take.
BudgetInv ==
    /\ clock \in Nat
    /\ pc \in Early => clock = 0
    /\ pc = "stage" => clock <= SumTo(Worth, stage)
    /\ pc \in Probing => clock <= SumTo(Worth, stage - 1) + Spent
    /\ pc \in {"cleanup", "done"} => plan = <<>> \/ clock <= SumTo(Worth, Len(Stages))

\* What sums of numbers do.
SumsUp(cost, N) ==
    /\ N \in Nat /\ SumTo(cost, 0) = 0
    /\ \A n \in 1..N : cost[n] \in Nat
    /\ \A n \in 0..N : SumTo(cost, n) \in Nat
    /\ \A n \in 1..N : SumTo(cost, n) = SumTo(cost, n - 1) + cost[n]
    /\ \A m, n \in 0..N : m <= n => SumTo(cost, m) <= SumTo(cost, n)

\* Sums of numbers do.
LEMMA Summing ==
    ASSUME NEW N \in Nat, NEW cost, \A k \in 1..N : cost[k] \in Nat
    PROVE  SumsUp(cost, N)
<1>1. /\ SumTo(cost, 0) = 0
      /\ \A n \in 0..N : SumTo(cost, n) \in Nat
      /\ \A n \in 1..N : SumTo(cost, n) = SumTo(cost, n - 1) + cost[n]
  BY Sums
<1>2. ASSUME NEW m \in 0..N, NEW n \in 0..N, m <= n
      PROVE  SumTo(cost, m) <= SumTo(cost, n)
  BY <1>2, SumsGrow
<1> QED
  BY <1>1, <1>2 DEF SumsUp

\* A sum of numbers is a number.
LEMMA SumTotal ==
    ASSUME NEW N, NEW cost, SumsUp(cost, N)
    PROVE  N \in Nat /\ SumTo(cost, N) \in Nat
BY DEF SumsUp

\* A command's deadline is a number of seconds.
LEMMA CommandTimes ==
    ASSUME NEW t, NEW check
    PROVE  /\ commandTimeoutFor(t, commandTimeout(check)) \in Nat
           /\ commandTimeoutFor(t, icmpCommandTimeout) \in Nat
           /\ rdmaBatchSettleDelayFor(<<t>>) \in Nat
BY DEF commandTimeoutFor, commandTimeout, icmpCommandTimeout, rdmaBatchSettleDelayFor,
       rdmaServerSettleDelay

\* So are the sums of them.
LEMMA BatchTimes ==
    ASSUME NEW check, NEW ts, List(ts), NEW b
    PROVE  rdmaBatchTimeoutFor(check, ts, b) \in Nat
<1> DEFINE Each(k) == IF k \in b
                      THEN commandTimeoutFor(ts[k], commandTimeout(check))
                             + rdmaBatchSettleDelayFor(<<ts[k]>>)
                      ELSE 0
           cost == [k \in DOMAIN ts |-> Each(k)]
           start == IF check = "rping" THEN 15 ELSE 20
<1>1. rdmaBatchTimeoutFor(check, ts, b) = start + rdmaServerLogTimeout + SumTo(cost, Len(ts))
  BY DEF rdmaBatchTimeoutFor
<1>2. Len(ts) \in Nat /\ DOMAIN ts = 1..Len(ts)
  BY ListDomain
<1>3. ASSUME NEW k PROVE Each(k) \in Nat
  BY CommandTimes
<1> HIDE DEF Each
<1>4. \A k \in 1..Len(ts) : cost[k] \in Nat
  BY <1>2, <1>3
<1> HIDE DEF cost
<1>5. SumTo(cost, Len(ts)) \in Nat
  BY <1>2, <1>4, Sums
<1>6. start \in Nat /\ rdmaServerLogTimeout \in Nat
  BY DEF rdmaServerLogTimeout
<1> HIDE DEF start
<1> QED
  BY <1>1, <1>5, <1>6

\* The costs of a family are numbers, so its sums add up.
LEMMA SpendingSums ==
    ASSUME NEW ts, List(ts), NEW check
    PROVE  /\ SumsUp(RouteCost(ts), Len(ts)) /\ SumsUp(PingCost(ts), Len(ts))
           /\ SumsUp(BatchCost(check, ts), Len(groupRPingTests(ts)))
<1>1. /\ Len(ts) \in Nat /\ DOMAIN ts = 1..Len(ts)
      /\ Len(groupRPingTests(ts)) \in Nat
      /\ DOMAIN groupRPingTests(ts) = 1..Len(groupRPingTests(ts))
  BY ListDomain, BatchesListed
<1>2. \A k \in 1..Len(ts) : RouteCost(ts)[k] \in Nat
  BY <1>1 DEF RouteCost, routeCheckTimeout
<1>3. \A k \in 1..Len(ts) : PingCost(ts)[k] \in Nat
  BY <1>1, CommandTimes DEF PingCost
<1>4. \A k \in 1..Len(groupRPingTests(ts)) : BatchCost(check, ts)[k] \in Nat
  <2> TAKE k \in 1..Len(groupRPingTests(ts))
  <2>1. rdmaBatchTimeoutFor(check, ts, groupRPingTests(ts)[k]) \in Nat
    BY BatchTimes
  <2> QED
    BY <1>1, <2>1 DEF BatchCost, rdmaServerCleanupTimeout
<1>5. SumsUp(RouteCost(ts), Len(ts))
  BY <1>1, <1>2, Summing
<1>6. SumsUp(PingCost(ts), Len(ts))
  BY <1>1, <1>3, Summing
<1>7. SumsUp(BatchCost(check, ts), Len(groupRPingTests(ts)))
  BY <1>1, <1>4, Summing
<1> QED
  BY <1>5, <1>6, <1>7

\* The budget of a family, in the terms of the invariant.
LEMMA FamilyBudget ==
    ASSUME NEW ts, List(ts), NEW check
    PROVE  /\ CheckBudget(check, ts) \in Nat
           /\ check = "gateway" => CheckBudget(check, ts) = 35 * Len(ts)
           /\ check = "icmp" => CheckBudget(check, ts)
                                  = 10 * Len(ts) + SumTo(PingCost(ts), Len(ts))
           /\ check \notin {"gateway", "icmp"} => CheckBudget(check, ts)
                = SumTo(RouteCost(ts), Len(ts))
                    + SumTo(BatchCost(check, ts), Len(groupRPingTests(ts)))
<1>1. /\ Len(ts) \in Nat /\ Len(groupRPingTests(ts)) \in Nat
      /\ SumTo(RouteCost(ts), Len(ts)) \in Nat /\ SumTo(PingCost(ts), Len(ts)) \in Nat
      /\ SumTo(BatchCost(check, ts), Len(groupRPingTests(ts))) \in Nat
  BY SpendingSums, SumTotal
<1>2. CASE check = "gateway"
  <2>1. CheckBudget(check, ts) = Len(ts) * (10 + 2 * 10 + 5)
    BY <1>2 DEF CheckBudget, gatewayConfigTimeout, routeCheckTimeout, icmpCommandTimeout
  <2> QED
    BY <1>1, <1>2, <2>1
<1>3. CASE check = "icmp"
  <2>1. CheckBudget(check, ts) = Len(ts) * 10 + SumTo(PingCost(ts), Len(ts))
    BY <1>3 DEF CheckBudget, allRouteBudget, routeCheckTimeout, SumOf, PingCost
  <2> QED
    BY <1>1, <1>3, <2>1
<1>4. CASE check \notin {"gateway", "icmp"}
  <2>1. requiredRouteBudget(ts) = SumTo(RouteCost(ts), Len(ts))
    BY DEF requiredRouteBudget, SumOf, RouteCost
  <2>2. CheckBudget(check, ts) = requiredRouteBudget(ts)
          + SumTo(BatchCost(check, ts), Len(groupRPingTests(ts)))
    BY <1>4 DEF CheckBudget, SumOf, BatchCost
  <2> QED
    BY <1>1, <1>4, <2>1, <2>2
<1> QED
  BY <1>2, <1>3, <1>4

\* The budget of a plan is the sum of its families'.
LEMMA PlanBudget ==
    ASSUME NEW p, PlanListed(p), NEW checks
    PROVE  /\ \A k \in 1..Len(Stages) : WorthOf(p, checks)[k] \in Nat
           /\ automaticTimeoutBudget(p, checks) = SumTo(WorthOf(p, checks), Len(Stages))
           /\ Len(Stages) = 5
<1>1. Len(Stages) = 5 /\ DOMAIN Stages = 1..5
  BY DEF Stages
<1>2. \A k \in 1..5 : CheckBudget(Stages[k], testsForCheck(p, Stages[k])) \in Nat
  BY TestsListed, FamilyBudget
<1>3. \A k \in 1..5 : WorthOf(p, checks)[k] \in Nat
  BY <1>1, <1>2 DEF WorthOf
<1>4. automaticTimeoutBudget(p, checks) = SumTo(WorthOf(p, checks), Len(Stages))
  BY DEF automaticTimeoutBudget, SumOf, WorthOf
<1> QED
  BY <1>1, <1>3, <1>4

\* The sums over the families.
LEMMA WorthSums ==
    ASSUME PlanListed(plan)
    PROVE  /\ SumsUp(Worth, 5) /\ Len(Stages) = 5
           /\ automaticTimeoutBudget(plan, cfg.checks) = SumTo(Worth, 5)
<1>1. /\ \A k \in 1..5 : Worth[k] \in Nat
      /\ automaticTimeoutBudget(plan, cfg.checks) = SumTo(Worth, 5)
      /\ Len(Stages) = 5
  BY PlanBudget DEF Worth
<1> HIDE DEF Worth
<1>2. SumsUp(Worth, 5)
  BY <1>1, Summing
<1> QED
  BY <1>1, <1>2

\* Where the running family stands: its tests, its budget and what it may have
\* spent, which is within its budget.
LEMMA SpentBounded ==
    ASSUME ProbeInv, pc \in Probing
    PROVE  /\ List(tests) /\ PlanListed(plan) /\ stage \in 1..5
           /\ Worth[stage] = CheckBudget(Check, tests)
           /\ Spent \in Nat /\ Spent <= Worth[stage]
<1>1. /\ PlanListed(plan) /\ stage \in 1..5 /\ Check \in Checks
      /\ tests = testsForCheck(plan, Check)
  BY DEF ProbeInv, Stages
<1>2. List(tests)
  BY <1>1, TestsListed
<1>3. Worth[stage] = CheckBudget(Check, tests)
  <2>1. DOMAIN Stages = 1..5
    BY DEF Stages
  <2> QED
    BY <1>1, <2>1 DEF Worth, WorthOf, Check, Checks
<1>4. /\ SumsUp(RouteCost(tests), Len(tests)) /\ SumsUp(PingCost(tests), Len(tests))
      /\ SumsUp(BatchCost(Check, tests), Len(Planned))
  BY <1>2, SpendingSums DEF Planned
<1>5. /\ Check = "gateway" => CheckBudget(Check, tests) = 35 * Len(tests)
      /\ Check = "icmp" => CheckBudget(Check, tests)
                             = 10 * Len(tests) + SumTo(PingCost(tests), Len(tests))
      /\ Check \notin {"gateway", "icmp"} => CheckBudget(Check, tests)
           = SumTo(RouteCost(tests), Len(tests)) + SumTo(BatchCost(Check, tests), Len(Planned))
  BY <1>2, FamilyBudget DEF Planned
<1>6. Len(tests) \in Nat /\ Len(Planned) \in Nat
      /\ SumTo(RouteCost(tests), Len(tests)) \in Nat
      /\ SumTo(PingCost(tests), Len(tests)) \in Nat
      /\ SumTo(BatchCost(Check, tests), Len(Planned)) \in Nat
  BY <1>4, SumTotal
<1>7. CASE pc = "routes"
  <2>1. next - 1 \in 0..Len(tests) /\ Check # "gateway"
    BY <1>6, <1>7 DEF ProbeInv
  <2>2. /\ SumTo(RouteCost(tests), next - 1) \in Nat
        /\ SumTo(RouteCost(tests), next - 1) <= SumTo(RouteCost(tests), Len(tests))
    BY <1>4, <1>6, <2>1 DEF SumsUp
  <2>3. Spent = IF Check = "icmp" THEN 10 * (next - 1) ELSE SumTo(RouteCost(tests), next - 1)
    BY <1>7 DEF Spent
  <2> QED
    BY <1>1, <1>2, <1>3, <1>5, <1>6, <2>1, <2>2, <2>3
<1>8. CASE pc = "single"
  <2>1. next - 1 \in 0..Len(tests) /\ Check \in {"gateway", "icmp"}
    BY <1>6, <1>8 DEF ProbeInv
  <2>2. /\ SumTo(PingCost(tests), next - 1) \in Nat
        /\ SumTo(PingCost(tests), next - 1) <= SumTo(PingCost(tests), Len(tests))
    BY <1>4, <1>6, <2>1 DEF SumsUp
  <2>3. Spent = IF Check = "gateway" THEN 35 * (next - 1)
                ELSE 10 * Len(tests) + SumTo(PingCost(tests), next - 1)
    BY <1>8 DEF Spent
  <2> QED
    BY <1>1, <1>2, <1>3, <1>5, <1>6, <2>1, <2>2, <2>3
<1>9. CASE pc \in Rdma
  <2>1. Standing /\ Check \notin {"gateway", "icmp"} /\ (pc = "kill" => batches # <<>>)
    BY <1>9 DEF ProbeInv, Standing
  <2>2. List(Planned)
    BY <1>2, BatchesListed DEF Planned
  <2>3. Done \in 0..Len(Planned)
    BY <1>6, <2>1 DEF Standing, Done, List
  <2>4. /\ SumTo(BatchCost(Check, tests), Done) \in Nat
        /\ SumTo(BatchCost(Check, tests), Done) <= SumTo(BatchCost(Check, tests), Len(Planned))
    BY <1>4, <1>6, <2>3 DEF SumsUp
  <2>5. CASE pc # "kill"
    <3>1. Spent = SumTo(RouteCost(tests), Len(tests)) + SumTo(BatchCost(Check, tests), Done) + 0
      BY <1>9, <2>5 DEF Spent, Rdma
    <3> QED
      BY <1>1, <1>2, <1>3, <1>5, <1>6, <2>1, <2>4, <3>1
  <2>6. CASE pc = "kill"
    <3>1. /\ Batch = Planned[Done + 1] /\ Done + 1 \in DOMAIN Planned /\ Done \in Nat
      BY <2>1, <2>2, <2>6, BatchAt
    <3>2. Done + 1 \in 1..Len(Planned) /\ (Done + 1) - 1 = Done
      BY <2>2, <3>1, ListDomain
    <3>3. BatchCost(Check, tests)[Done + 1] = rdmaBatchTimeoutFor(Check, tests, Batch) + 3
      BY <3>1 DEF BatchCost, Planned, rdmaServerCleanupTimeout
    <3>4. /\ SumTo(BatchCost(Check, tests), Done + 1)
               = SumTo(BatchCost(Check, tests), Done) + BatchCost(Check, tests)[Done + 1]
          /\ SumTo(BatchCost(Check, tests), Done + 1)
               <= SumTo(BatchCost(Check, tests), Len(Planned))
      BY <1>4, <1>6, <3>2 DEF SumsUp
    <3>5. rdmaBatchTimeoutFor(Check, tests, Batch) \in Nat
      BY <1>2, BatchTimes
    <3>6. Spent = SumTo(RouteCost(tests), Len(tests)) + SumTo(BatchCost(Check, tests), Done)
                    + rdmaBatchTimeoutFor(Check, tests, Batch)
      BY <2>6 DEF Spent
    <3> QED
      BY <1>1, <1>2, <1>3, <1>5, <1>6, <2>1, <2>4, <3>3, <3>4, <3>5, <3>6
  <2> QED
    BY <2>5, <2>6
<1> QED
  BY <1>7, <1>8, <1>9 DEF Probing

\* Commands take their full time or none.
LEMMA Spending ==
    ASSUME NEW s \in Nat, clock \in Nat, Spend(s)
    PROVE  clock' \in Nat /\ clock' <= clock + s
BY DEF Spend

\* A step within a family costs no more than it adds to what may be spent.
LEMMA WithinFamily ==
    ASSUME ProbeInv, BudgetInv, pc \in Probing, pc' \in Probing, SameStage, ProbeInv',
           NEW s \in Nat, clock' \in Nat, clock' <= clock + s, Spent' \in Nat, Spent + s <= Spent'
    PROVE  BudgetInv'
<1>1. stage \in 1..5 /\ PlanListed(plan) /\ Spent \in Nat
  BY SpentBounded
<1>2. Worth' = Worth /\ stage' = stage
  BY DEF SameStage, Worth, WorthOf
<1>3. SumTo(Worth, stage - 1) \in Nat
  BY <1>1, WorthSums DEF SumsUp
<1>4. clock <= SumTo(Worth, stage - 1) + Spent /\ clock \in Nat
  BY DEF BudgetInv
<1>5. SumTo(Worth, stage - 1)' = SumTo(Worth, stage - 1)
  BY <1>2
<1>6. clock' <= SumTo(Worth, stage - 1) + Spent'
  BY <1>1, <1>3, <1>4
<1> QED
  BY <1>2, <1>5, <1>6 DEF BudgetInv, Probing, Rdma, Early

\* A lookup.
LEMMA LookupBudget ==
    ASSUME ProbeInv, BudgetInv, CheckRoute
    PROVE  BudgetInv'
<1>1. /\ ProbeInv' /\ SameStage /\ pc' = "routes" /\ pc = "routes" /\ next' = next + 1
      /\ List(tests) /\ next \in 1..Len(tests)
  BY SinglesListed DEF CheckRoute
<1>2. Check' = Check /\ tests' = tests
  BY <1>1, SameStageKeeps DEF SameStage
<1>3. clock \in Nat
  BY DEF BudgetInv
<1>4. clock' \in Nat /\ clock' <= clock + (IF NeedsRoute(tests[next]) THEN 10 ELSE 0)
  <2>1. \/ clock' = clock
        \/ NeedsRoute(tests[next]) /\ Spend(10)
    BY DEF CheckRoute, routeCheckTimeout
  <2> QED
    BY <1>3, <2>1, Spending
<1>5. Spent' \in Nat /\ Spent + (IF NeedsRoute(tests[next]) THEN 10 ELSE 0) <= Spent'
  <2>1. CASE Check = "icmp"
    <3>1. Spent = 10 * (next - 1) /\ Spent' = 10 * (next' - 1)
      BY <1>1, <1>2, <2>1 DEF Spent
    <3> QED
      BY <1>1, <3>1 DEF List
  <2>2. CASE Check # "icmp"
    <3>1. /\ Spent = SumTo(RouteCost(tests), next - 1)
          /\ Spent' = SumTo(RouteCost(tests), (next + 1) - 1)
      BY <1>1, <1>2, <2>2 DEF Spent
    <3>2. SumsUp(RouteCost(tests), Len(tests))
      BY <1>1, SpendingSums
    <3>3. (next + 1) - 1 = next /\ next - 1 \in 0..Len(tests) /\ Len(tests) \in Nat
      BY <1>1 DEF List
    <3>4. /\ SumTo(RouteCost(tests), next)
               = SumTo(RouteCost(tests), next - 1) + RouteCost(tests)[next]
          /\ SumTo(RouteCost(tests), next - 1) \in Nat
      BY <1>1, <3>2, <3>3 DEF SumsUp
    <3>5. RouteCost(tests)[next] = IF NeedsRoute(tests[next]) THEN 10 ELSE 0
      <4>1. next \in DOMAIN tests
        BY <1>1, ListDomain
      <4> QED
        BY <2>2, <4>1 DEF RouteCost, NeedsRoute, routeCheckTimeout
    <3> QED
      BY <3>1, <3>3, <3>4, <3>5
  <2> QED
    BY <2>1, <2>2
<1> QED
  BY <1>1, <1>4, <1>5, WithinFamily DEF Probing

\* A row of the gateway or of the ICMP check.
LEMMA RowBudget ==
    ASSUME ProbeInv, BudgetInv, RunGateway \/ RunICMP
    PROVE  BudgetInv'
<1> DEFINE s == IF Check = "gateway" THEN 35 ELSE commandTimeoutFor(tests[next], icmpCommandTimeout)
<1>1. /\ ProbeInv' /\ SameStage /\ pc' = "single" /\ pc = "single" /\ next' = next + 1
      /\ List(tests) /\ next \in 1..Len(tests) /\ Check \in {"gateway", "icmp"}
  BY SinglesListed DEF RunGateway, RunICMP
<1>2. Check' = Check /\ tests' = tests
  BY <1>1, SameStageKeeps DEF SameStage
<1>3. clock \in Nat /\ s \in Nat
  BY CommandTimes DEF BudgetInv
<1>4. clock' \in Nat /\ clock' <= clock + s
  <2>1. Spend(s) \/ Spend(0)
    BY DEF RunGateway, RunICMP, gatewayConfigTimeout, routeCheckTimeout, icmpCommandTimeout
  <2> HIDE DEF s
  <2> QED
    BY <1>3, <2>1, Spending
<1>5. Spent' \in Nat /\ Spent + s <= Spent'
  <2>1. CASE Check = "gateway"
    <3>1. Spent = 35 * (next - 1) /\ Spent' = 35 * (next' - 1)
      BY <1>1, <1>2, <2>1 DEF Spent
    <3> QED
      BY <1>1, <2>1, <3>1 DEF List
  <2>2. CASE Check = "icmp"
    <3>1. /\ Spent = 10 * Len(tests) + SumTo(PingCost(tests), next - 1)
          /\ Spent' = 10 * Len(tests) + SumTo(PingCost(tests), (next + 1) - 1)
      BY <1>1, <1>2, <2>2 DEF Spent
    <3>2. SumsUp(PingCost(tests), Len(tests))
      BY <1>1, SpendingSums
    <3>3. (next + 1) - 1 = next /\ next - 1 \in 0..Len(tests) /\ Len(tests) \in Nat
      BY <1>1 DEF List
    <3>4. /\ SumTo(PingCost(tests), next)
               = SumTo(PingCost(tests), next - 1) + PingCost(tests)[next]
          /\ SumTo(PingCost(tests), next - 1) \in Nat
      BY <1>1, <3>2, <3>3 DEF SumsUp
    <3>5. PingCost(tests)[next] = s
      <4>1. next \in DOMAIN tests
        BY <1>1, ListDomain
      <4> QED
        BY <2>2, <4>1 DEF PingCost
    <3> HIDE DEF s
    <3> QED
      BY <1>3, <3>1, <3>3, <3>4, <3>5
  <2> QED
    BY <1>1, <2>1, <2>2
<1> HIDE DEF s
<1> QED
  BY <1>1, <1>3, <1>4, <1>5, WithinFamily DEF Probing

\* From the routes to the tests nothing is spent.
LEMMA RoutesBudget ==
    ASSUME ProbeInv, BudgetInv, RoutesChecked
    PROVE  BudgetInv'
<1>1. /\ ProbeInv' /\ SameStage /\ UNCHANGED clock /\ pc = "routes" /\ List(tests)
      /\ next = Len(tests) + 1 /\ next' = 1
      /\ \/ pc' = "single" /\ Check = "icmp"
         \/ pc' = "server" /\ Check # "icmp" /\ batches' = Planned
  BY RoutesListed
<1>2. Check' = Check /\ tests' = tests /\ Planned' = Planned
  BY <1>1, SameStageKeeps DEF SameStage
<1>3. /\ SumsUp(RouteCost(tests), Len(tests)) /\ SumsUp(PingCost(tests), Len(tests))
      /\ SumsUp(BatchCost(Check, tests), Len(Planned))
  BY <1>1, SpendingSums DEF Planned
<1>4. /\ Len(tests) \in Nat /\ next - 1 = Len(tests) /\ next' - 1 = 0
      /\ SumTo(RouteCost(tests), Len(tests)) \in Nat
      /\ SumTo(PingCost(tests), 0) = 0 /\ SumTo(BatchCost(Check, tests), 0) = 0
  BY <1>1, <1>3, SumTotal DEF SumsUp, List
<1>5. Spent' \in Nat /\ Spent + 0 <= Spent'
  <2>1. CASE pc' = "single" /\ Check = "icmp"
    <3>1. Spent = 10 * Len(tests) /\ Spent' = 10 * Len(tests) + SumTo(PingCost(tests), 0)
      BY <1>1, <1>2, <1>4, <2>1 DEF Spent
    <3> QED
      BY <1>4, <3>1
  <2>2. CASE pc' = "server" /\ Check # "icmp" /\ batches' = Planned
    <3>1. Done' = 0
      BY <1>2, <1>3, <2>2 DEF Done, SumsUp
    <3>2. /\ Spent = SumTo(RouteCost(tests), Len(tests))
          /\ Spent' = SumTo(RouteCost(tests), Len(tests)) + SumTo(BatchCost(Check, tests), 0) + 0
      BY <1>1, <1>2, <1>4, <2>2, <3>1 DEF Spent
    <3> QED
      BY <1>4, <3>2
  <2> QED
    BY <1>1, <2>1, <2>2
<1>6. clock' \in Nat /\ clock' <= clock + 0
  BY <1>1 DEF BudgetInv
<1> QED
  BY <1>1, <1>5, <1>6, WithinFamily DEF Probing, Rdma

\* The steps of a batch: its deadline and the clean-up are budgeted.
LEMMA BatchBudget ==
    ASSUME ProbeInv, BudgetInv, StartServers \/ RunClient \/ KillServers
    PROVE  BudgetInv'
<1> DEFINE T == rdmaBatchTimeoutFor(Check, tests, Batch)
           route == SumTo(RouteCost(tests), Len(tests))
           paid == SumTo(BatchCost(Check, tests), Done)
<1>1. /\ ProbeInv' /\ SameStage /\ pc \in Rdma /\ pc' \in Rdma /\ batches # <<>>
      /\ Standing /\ List(Planned) /\ List(tests)
  BY BatchListed
<1>2. Check' = Check /\ tests' = tests /\ Planned' = Planned
  BY <1>1, SameStageKeeps DEF SameStage
<1>3. Batch = Planned[Done + 1] /\ Done \in Nat /\ Done + 1 \in DOMAIN Planned
  BY <1>1, BatchAt
<1>4. Done + 1 \in 1..Len(Planned) /\ (Done + 1) - 1 = Done /\ Done \in 0..Len(Planned)
  BY <1>1, <1>3, ListDomain
<1>5. T \in Nat
  BY <1>1, BatchTimes
<1>6. SumTo(BatchCost(Check, tests), Done + 1) = paid + T + 3 /\ paid \in Nat
  <2>1. SumsUp(BatchCost(Check, tests), Len(Planned))
    BY <1>1, SpendingSums DEF Planned
  <2>2. BatchCost(Check, tests)[Done + 1] = T + 3
    BY <1>3 DEF BatchCost, Planned, rdmaServerCleanupTimeout
  <2>3. /\ SumTo(BatchCost(Check, tests), Done + 1) = paid + BatchCost(Check, tests)[Done + 1]
        /\ paid \in Nat
    BY <1>4, <2>1 DEF SumsUp
  <2> HIDE DEF paid, T
  <2> QED
    BY <1>5, <2>2, <2>3
<1>7. route \in Nat
  BY <1>1, SpendingSums, SumTotal
<1>8. Spent = route + paid + (IF pc = "kill" THEN T ELSE 0)
  BY <1>1 DEF Spent, Rdma
<1>9. clock \in Nat
  BY DEF BudgetInv
<1>10. /\ batches' = Tail(batches) => Done' = Done + 1
       /\ batches' = batches => Done' = Done /\ Batch' = Batch
  BY <1>1, <1>2, NextBatch DEF Done, Batch
<1>11. /\ batches' = Tail(batches) /\ pc' = "server"
            => Spent' = route + SumTo(BatchCost(Check, tests), Done + 1) + 0
       /\ batches' = batches /\ pc' = "client" => Spent' = route + paid + 0
       /\ batches' = batches /\ pc' = "kill" => Spent' = route + paid + T
  BY <1>2, <1>10 DEF Spent
<1> HIDE DEF route, paid, T
<1>12. CASE StartServers
  <2>1. /\ pc = "server"
        /\ \/ batches' = Tail(batches) /\ pc' = "server" /\ (UNCHANGED clock \/ Spend(T))
           \/ batches' = batches /\ pc' = "client" /\ UNCHANGED clock
    BY <1>12 DEF StartServers, T
  <2>2. CASE batches' = Tail(batches) /\ pc' = "server"
    <3>1. clock' \in Nat /\ clock' <= clock + T
      BY <1>5, <1>9, <2>1, <2>2, Spending
    <3>2. Spent' \in Nat /\ Spent + T <= Spent'
      BY <1>5, <1>6, <1>7, <1>8, <1>11, <2>1, <2>2
    <3> QED
      BY <1>1, <1>5, <3>1, <3>2, WithinFamily DEF Probing
  <2>3. CASE batches' = batches /\ pc' = "client" /\ UNCHANGED clock
    <3>1. Spent' \in Nat /\ Spent + 0 <= Spent' /\ clock' \in Nat /\ clock' <= clock + 0
      BY <1>6, <1>7, <1>8, <1>9, <1>11, <2>1, <2>3
    <3> QED
      BY <1>1, <3>1, WithinFamily DEF Probing
  <2> QED
    BY <2>1, <2>2, <2>3
<1>13. CASE RunClient
  <2>1. pc = "client" /\ batches' = batches /\ pc' = "kill" /\ Spend(T)
    BY <1>13 DEF RunClient, T
  <2>2. clock' \in Nat /\ clock' <= clock + T
    BY <1>5, <1>9, <2>1, Spending
  <2>3. Spent' \in Nat /\ Spent + T <= Spent'
    BY <1>5, <1>6, <1>7, <1>8, <1>11, <2>1
  <2> QED
    BY <1>1, <1>5, <2>2, <2>3, WithinFamily DEF Probing
<1>14. CASE KillServers
  <2>1. pc = "kill" /\ batches' = Tail(batches) /\ pc' = "server" /\ Spend(3)
    BY <1>14 DEF KillServers, rdmaServerCleanupTimeout
  <2>2. clock' \in Nat /\ clock' <= clock + 3
    BY <1>9, <2>1, Spending
  <2>3. Spent' \in Nat /\ Spent + 3 <= Spent'
    BY <1>5, <1>6, <1>7, <1>8, <1>11, <2>1
  <2> QED
    BY <1>1, <2>2, <2>3, WithinFamily DEF Probing
<1> QED
  BY <1>12, <1>13, <1>14

\* A family that ends has spent no more than its budget.
LEMMA FamilyEnds ==
    ASSUME ProbeInv, BudgetInv, SinglesDone \/ BatchesDone
    PROVE  BudgetInv'
<1>1. /\ SameStage /\ pc' = "stage" /\ UNCHANGED clock /\ pc \in Probing
  BY FamilyListed
<1>2. stage \in 1..5 /\ PlanListed(plan) /\ Spent \in Nat /\ Spent <= Worth[stage]
  BY <1>1, SpentBounded
<1>3. /\ SumTo(Worth, stage) = SumTo(Worth, stage - 1) + Worth[stage]
      /\ SumTo(Worth, stage - 1) \in Nat /\ Worth[stage] \in Nat
  BY <1>2, WorthSums DEF SumsUp
<1>4. clock \in Nat /\ clock <= SumTo(Worth, stage - 1) + Spent
  BY <1>1 DEF BudgetInv
<1>5. SumTo(Worth, stage)' = SumTo(Worth, stage)
  BY <1>1 DEF SameStage, Worth, WorthOf
<1>6. clock <= SumTo(Worth, stage)
  BY <1>2, <1>3, <1>4
<1> QED
  BY <1>1, <1>4, <1>5, <1>6 DEF BudgetInv, Early, Probing, Rdma

\* The next family starts with what the ones before it may have spent.
LEMMA StageBudget ==
    ASSUME ProbeInv, BudgetInv, BeginStage
    PROVE  BudgetInv'
<1>1. /\ ProbeInv' /\ UNCHANGED <<cfg, plan, clock>> /\ pc = "stage"
      /\ \/ pc' = "cleanup" /\ stage' = stage
         \/ /\ pc' \in {"single", "routes"} /\ next' = 1
            /\ stage' \in 1..Len(Stages) /\ stage' > stage
  BY StageListed
<1>2. PlanListed(plan) /\ stage \in 0..5 /\ Len(Stages) = 5
  BY <1>1 DEF ProbeInv, Stages
<1>3. SumsUp(Worth, 5)
  BY <1>2, WorthSums
<1>4. Worth' = Worth
  BY <1>1 DEF Worth, WorthOf
<1>5. clock \in Nat /\ clock <= SumTo(Worth, stage)
  BY <1>1 DEF BudgetInv
<1>6. CASE pc' = "cleanup"
  <2>1. /\ SumTo(Worth, stage) <= SumTo(Worth, 5)
        /\ SumTo(Worth, stage) \in Nat /\ SumTo(Worth, 5) \in Nat
    BY <1>2, <1>3 DEF SumsUp
  <2>2. clock <= SumTo(Worth, 5)
    BY <1>5, <2>1
  <2> QED
    BY <1>1, <1>2, <1>4, <1>5, <1>6, <2>2 DEF BudgetInv, Early, Probing, Rdma
<1>7. CASE /\ pc' \in {"single", "routes"} /\ next' = 1
           /\ stage' \in 1..Len(Stages) /\ stage' > stage
  <2>1. /\ SumTo(Worth, stage) <= SumTo(Worth, stage' - 1)
        /\ SumTo(Worth, stage) \in Nat /\ SumTo(Worth, stage' - 1) \in Nat
    <3>1. stage' - 1 \in 0..5 /\ stage <= stage' - 1
      <4>1. stage' \in 1..5 /\ stage' > stage /\ stage \in 0..5
        BY <1>2, <1>7
      <4>2. \A a \in 1..5, b \in 0..5 : a > b => a - 1 \in 0..5 /\ b <= a - 1
        OBVIOUS
      <4> QED
        BY <4>1, <4>2
    <3> QED
      BY <1>2, <1>3, <3>1 DEF SumsUp
  <2>2. Spent' = 0
    <3>1. List(tests')
      <4>1. PlanListed(plan) /\ tests' = testsForCheck(plan, Check')
        BY <1>1, <1>2, <1>7 DEF ProbeInv, Probing, testsForCheck
      <4> QED
        BY <4>1, TestsListed
    <3>2. /\ SumTo(RouteCost(tests'), 0) = 0 /\ SumTo(PingCost(tests'), 0) = 0
          /\ Len(tests') \in Nat
      BY <3>1, SpendingSums DEF SumsUp
    <3>3. pc' = "single" => Check' = "gateway"
      BY DEF BeginStage, Check
    <3>4. next' - 1 = 0
      BY <1>7
    <3> QED
      BY <1>7, <3>2, <3>3, <3>4 DEF Spent
  <2>3. clock' <= SumTo(Worth, stage' - 1) + Spent'
    BY <1>1, <1>5, <2>1, <2>2
  <2> QED
    BY <1>1, <1>4, <1>5, <1>7, <2>3 DEF BudgetInv, Early, Probing, Rdma
<1> QED
  BY <1>1, <1>6, <1>7

\* Nothing is spent before the plan and after the last family.
LEMMA AsideBudget ==
    ASSUME ProbeInv, BudgetInv,
           \/ Start \/ Create \/ AllCreated \/ WaitForRollout \/ BuildMatrixPods \/ MakePlan
           \/ Cleanup \/ CleanupDone \/ Expire \/ UNCHANGED vars
    PROVE  BudgetInv'
<1>1. CASE Start \/ Create \/ AllCreated \/ WaitForRollout \/ BuildMatrixPods
  <2>1. /\ pc \in Early /\ UNCHANGED <<clock, plan>>
        /\ pc' \in Early \union {"cleanup", "done"}
    BY <1>1 DEF Start, Create, AllCreated, WaitForRollout, BuildMatrixPods, probes, Early
  <2>2. plan = <<>> /\ clock = 0
    BY <2>1 DEF ProbeInv, BudgetInv
  <2> QED
    BY <2>1, <2>2 DEF BudgetInv, Early, Probing, Rdma
<1>2. CASE MakePlan
  <2>1. /\ pc = "plan" /\ UNCHANGED <<clock, stage, cfg>> /\ pc' \in {"stage", "cleanup"}
        /\ plan' = PlanWithOptions(pods, cfg.mode, cfg.routing)
    BY <1>2 DEF MakePlan, probes, context
  <2>2. clock = 0 /\ stage = 0 /\ PodsListed(pods)
    BY <2>1 DEF ProbeInv, BudgetInv, Early
  <2>3. PlanListed(plan')
    BY <2>1, <2>2, PlansListed
  <2>4. /\ \A k \in 1..5 : WorthOf(plan', cfg'.checks)[k] \in Nat
        /\ Len(Stages) = 5
    BY <2>3, PlanBudget
  <2>5. SumsUp(WorthOf(plan', cfg'.checks), 5)
    BY <2>4, Summing
  <2>6. Worth' = WorthOf(plan', cfg'.checks)
    BY DEF Worth, WorthOf
  <2>7. SumTo(Worth', 0) \in Nat /\ SumTo(Worth', 5) \in Nat
    BY <2>5, <2>6 DEF SumsUp
  <2> QED
    BY <2>1, <2>2, <2>4, <2>7 DEF BudgetInv, Early, Probing, Rdma
<1>3. CASE Cleanup \/ CleanupDone
  <2>1. /\ pc = "cleanup" /\ pc' \in {"cleanup", "done"} /\ UNCHANGED <<clock, cfg, plan>>
    BY <1>3 DEF Cleanup, CleanupDone, probes, context
  <2>2. Worth' = Worth
    BY <2>1 DEF Worth, WorthOf
  <2> QED
    BY <2>1, <2>2 DEF BudgetInv, Early, Probing, Rdma
<1>4. CASE Expire \/ UNCHANGED vars
  <2>1. UNCHANGED <<clock, cfg, plan, stage, tests, pc, next, batches>>
    BY <1>4 DEF Expire, vars, probes
  <2>2. Worth' = Worth /\ Spent' = Spent
    BY <2>1 DEF Worth, WorthOf, Spent, Check, Done, Planned, Batch, RouteCost, PingCost,
                BatchCost
  <2> QED
    BY <2>1, <2>2 DEF BudgetInv
<1> QED
  BY <1>1, <1>2, <1>3, <1>4

\* A hanging exec is one of the last family.
Stalled == stalled /\ stage = Len(Stages)

\* Every step keeps the invariant of the clock, or is an exec that hangs.
LEMMA BudgetStep ==
    ASSUME ProbeInv, BudgetInv, [Next]_vars
    PROVE  BudgetInv' \/ Stalled'
<1>1. CASE ICMPStalls
  <2>1. /\ stalled' /\ SameStage /\ Check = "icmp" /\ pc = "single"
    BY <1>1 DEF ICMPStalls, SameStage
  <2>2. stage \in 1..5 /\ Len(Stages) = 5
    BY <2>1 DEF ProbeInv, Probing, Stages
  <2>3. stage = 5
    BY <2>1, <2>2 DEF Check, Stages
  <2> QED
    BY <2>1, <2>2, <2>3 DEF Stalled, SameStage
<1> QED
  BY <1>1, LookupBudget, RowBudget, RoutesBudget, BatchBudget, FamilyEnds, StageBudget, AsideBudget
  DEF Next, Run

\* No family follows the last.
LEMMA StallStays ==
    ASSUME ProbeInv, Stalled, [Next]_vars
    PROVE  Stalled'
<1>1. CASE BeginStage
  <2>1. stalled' = stalled /\ (stage' = stage \/ (stage' \in 1..5 /\ stage' > stage))
    BY <1>1, StageListed DEF BeginStage, context, Stages
  <2> QED
    BY <2>1 DEF Stalled, Stages
<1>2. CASE CheckRoute \/ RunGateway \/ RunICMP \/ ICMPStalls \/ RoutesChecked
  BY <1>2 DEF CheckRoute, RunGateway, RunICMP, ICMPStalls, RoutesChecked, context, Stalled
<1>3. CASE StartServers \/ RunClient \/ KillServers
  BY <1>3 DEF StartServers, RunClient, KillServers, context, Stalled
<1>4. CASE SinglesDone \/ BatchesDone \/ Cleanup \/ CleanupDone \/ Expire \/ UNCHANGED vars
  BY <1>4 DEF SinglesDone, BatchesDone, Cleanup, CleanupDone, Expire, vars, probes, context, Stalled
<1>5. CASE Start \/ Create \/ AllCreated \/ WaitForRollout \/ BuildMatrixPods \/ MakePlan
  BY <1>5 DEF Start, Create, AllCreated, WaitForRollout, BuildMatrixPods, MakePlan, probes, context,
              Stalled
<1> QED
  BY <1>1, <1>2, <1>3, <1>4, <1>5 DEF Next, Run

\* The invariant of the clock is within the budget of the plan.
LEMMA BudgetHolds ==
    ASSUME ProbeInv, BudgetInv
    PROVE  WithinBudget
<1>1. automaticTimeoutBudget(plan, cfg.checks) = SumTo(Worth, 5)
  BY DEF automaticTimeoutBudget, SumOf, Worth, WorthOf, Stages
<1>2. CASE pc \in Early
  BY <1>2 DEF ProbeInv, WithinBudget
<1>3. CASE pc = "stage"
  <2>1. PlanListed(plan) /\ stage \in 0..5
    BY <1>3 DEF ProbeInv, Stages
  <2>2. /\ SumTo(Worth, stage) <= SumTo(Worth, 5)
        /\ SumTo(Worth, stage) \in Nat /\ SumTo(Worth, 5) \in Nat
    BY <2>1, WorthSums DEF SumsUp
  <2> QED
    BY <1>1, <1>3, <2>2 DEF BudgetInv, WithinBudget
<1>4. CASE pc \in Probing
  <2>1. stage \in 1..5 /\ PlanListed(plan) /\ Spent \in Nat /\ Spent <= Worth[stage]
    BY <1>4, SpentBounded
  <2>2. /\ SumTo(Worth, stage) = SumTo(Worth, stage - 1) + Worth[stage]
        /\ SumTo(Worth, stage - 1) \in Nat /\ Worth[stage] \in Nat
        /\ SumTo(Worth, stage) <= SumTo(Worth, 5) /\ SumTo(Worth, 5) \in Nat
    BY <2>1, WorthSums DEF SumsUp
  <2> QED
    BY <1>1, <1>4, <2>1, <2>2 DEF BudgetInv, WithinBudget
<1>5. CASE pc \in {"cleanup", "done"}
  BY <1>1, <1>5 DEF BudgetInv, WithinBudget, Stages
<1> QED
  BY <1>2, <1>3, <1>4, <1>5 DEF ProbeInv

\* However slow every command is and whichever fail, the tests of any plan finish
\* within the part of the automatic budget computed for them
\* (automaticTimeoutBudget) and the safety margin stays unspent, unless an exec
\* of the ICMP check hangs, which no other family comes after.
THEOREM TestsFitTheBudget == Spec => []WithinBudget
<1>1. Init => BudgetInv
  BY DEF Init, BudgetInv, Early, Probing, Rdma
<1>2. ProbeInv /\ (BudgetInv \/ Stalled) /\ [Next]_vars => (BudgetInv \/ Stalled)'
  BY BudgetStep, StallStays
<1>3. ProbeInv /\ (BudgetInv \/ Stalled) => WithinBudget
  <2>1. Stalled => WithinBudget
    BY DEF Stalled, WithinBudget
  <2> QED
    BY <2>1, BudgetHolds
<1> QED
  BY <1>1, <1>2, <1>3, ProbeInvariant, PTL DEF Spec
=============================================================================

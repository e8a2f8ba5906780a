---------------------------- MODULE CrStateProofs ----------------------------
(***************************************************************************)
(* Proofs about CrState, for every set of templates, devices, nodes,       *)
(* policies and reports and in whatever order the operators write between  *)
(* two reads of a validator's call.                                        *)
(***************************************************************************)
EXTENDS CrState, TLAPS

\* Where a call can be, by kind.
Course ==
    /\ pc \in {"idle", "devices", "nodes", "states", "done"}
    /\ pc = "devices" => TemplateKind
    /\ pc = "nodes" => TemplateKind \/ kind = "sriov"
    /\ pc = "states" => kind = "sriov"

\* Only a validator's own steps change the call.
LEMMA OperatorsQuiet ==
    ASSUME Operators \/ Changes \/ UNCHANGED vars
    PROVE  UNCHANGED <<kind, pc, read, result>>
BY DEF Operators, Changes, ReportMatched, PolicyStep, DeviceComes, WriteSpec, StartUpdate,
       EndUpdate, SriovStep, SriovReset, EditPolicy, EditTemplate, Relabel, DeviceGoes,
       WriteFirmware, Env, vars

\* A validator's step changes nothing else.
LEMMA ValidatorReads ==
    ASSUME Validator \/ ReadFails
    PROVE  Calling
BY DEF Validator, ReadFails, GetObject, ListDevices, ListNodes, GetNodeState, Poll

LEMMA CourseInvariant == Spec => []Course
<1>1. Init => Course
  BY DEF Init, Course
<1>2. Course /\ [Next]_vars => Course'
  <2> SUFFICES ASSUME Course, [Next]_vars PROVE Course'
    OBVIOUS
  <2>1. CASE Operators \/ Changes \/ UNCHANGED vars
    BY <2>1, OperatorsQuiet DEF Course, TemplateKind
  <2>2. CASE Validator \/ ReadFails
    <3>1. kind' = kind
      BY <2>2, ValidatorReads DEF Calling
    <3>2. CASE GetObject
      BY <3>1, <3>2 DEF GetObject, Return, Course, TemplateKind
    <3>3. CASE ListDevices \/ ListNodes \/ GetNodeState \/ Poll \/ ReadFails
      BY <3>1, <3>3 DEF ListDevices, ListNodes, GetNodeState, Poll, ReadFails, Return,
                        Course, TemplateKind
    <3> QED
      BY <2>2, <3>2, <3>3 DEF Validator
  <2> QED
    BY <2>1, <2>2 DEF Next
<1> QED
  BY <1>1, <1>2, PTL DEF Spec

-----------------------------------------------------------------------------
(* The OpenShift relaxation.                                               *)

\* A component the policy configures and a state of its own are the same thing.
LEMMA ComponentsHaveStates ==
    /\ DOMAIN ncpComponentStates \cap Stateless = {}
    /\ "multus" \notin DOMAIN ncpComponentStates \cup Stateless
BY DEF ncpComponentStates, Stateless

\* A policy that openShiftPolicyResult calls ready against its own aggregate.
LEMMA RelaxationIsEarned ==
    ASSUME NEW l, NEW desired, l.state \notin {"ready", "ignore"},
           StatusResult("openshift", l, desired).state = StateSuccess
    PROVE  LET states == {l.applied[i] : i \in DOMAIN l.applied}
               ours   == {ncpComponentStates[f] : f \in (l.spec \cup desired)
                                                         \cap DOMAIN ncpComponentStates}
           IN /\ \A c \in ours : \E e \in states : e.name = c /\ e.state = "ready"
              /\ \E e \in states : e.name \in External /\ e.state \in {"notReady", "error"}
              /\ "multus" \notin l.spec \cup desired
<1> DEFINE entries  == {l.applied[i] : i \in DOMAIN l.applied}
           required == RequiredOfBoth(l.spec, desired)
           external == {e \in entries : e.name \in External}
           blocked  == \/ \E e \in entries \ external : e.state \notin {"ready", "ignore"}
                       \/ \E n \in required : Reported(entries, n) # "ready"
<1>1. openShiftPolicyResult(l, desired) # <<>>
  BY DEF StatusResult, validateStatusString, statusStringState, Result, StateSuccess,
         StateError, StateInProgress
<1>2. openShiftPolicyResult(l, desired)[1] = StateSuccess
  BY <1>1 DEF StatusResult, validateStatusString, Result
<1>3. /\ Supported(desired) /\ Supported(l.spec)
      /\ \A e \in external : e.state \in {"ready", "ignore", "notReady", "error"}
      /\ \E e \in external : e.state \notin {"ready", "ignore"}
  BY <1>1 DEF openShiftPolicyResult
<1>4. ~blocked
  BY <1>1, <1>2 DEF openShiftPolicyResult, StateSuccess, StateError, StateInProgress
<1>5. \A n \in required : Reported(entries, n) = "ready"
  BY <1>4
<1>6. ASSUME NEW c, Reported(entries, c) = "ready"
      PROVE  \E e \in entries : e.name = c /\ e.state = "ready"
  BY <1>6 DEF Reported
<1>7. \A f \in (l.spec \cup desired) \cap DOMAIN ncpComponentStates :
          ncpComponentStates[f] \in required
  BY ComponentsHaveStates DEF RequiredOfBoth, openShiftRequiredStates
<1>8. "multus" \notin l.spec \cup desired
  BY <1>3, ComponentsHaveStates DEF Supported
<1> DEFINE ours == {ncpComponentStates[f] : f \in (l.spec \cup desired)
                                                   \cap DOMAIN ncpComponentStates}
<1>9. \A c \in ours : \E e \in entries : e.name = c /\ e.state = "ready"
  BY <1>5, <1>6, <1>7
<1>10. \E e \in entries : e.name \in External /\ e.state \in {"notReady", "error"}
  BY <1>3
<1> HIDE DEF entries, ours
<1> QED
  BY <1>8, <1>9, <1>10 DEF entries, ours

\* ManagedReady: the validator of an OpenShift policy relaxes the aggregate only
\* if every managed component, of the manifest or the live object, is ready.
THEOREM RelaxedPolicyIsReady == Spec => []ManagedReady
<1>1. Init => ManagedReady
  BY DEF Init, ManagedReady, Succeeded
<1>2. Course /\ ManagedReady /\ [Next]_vars => ManagedReady'
  <2> SUFFICES ASSUME Course, ManagedReady, [Next]_vars PROVE ManagedReady'
    OBVIOUS
  <2>1. CASE Operators \/ Changes \/ UNCHANGED vars
    BY <2>1, OperatorsQuiet DEF ManagedReady, Succeeded
  <2>2. CASE Validator \/ ReadFails
    <3>1. kind' = kind
      BY <2>2, ValidatorReads DEF Calling
    <3> SUFFICES ASSUME kind = "openshift", Succeeded', read'.live.state \notin {"ready", "ignore"}
                 PROVE  ManagedReady'
      BY <3>1 DEF ManagedReady
    <3>2. GetObject
      <4>1. ~(ListDevices \/ ListNodes \/ GetNodeState)
        BY DEF Course, TemplateKind, TemplateKinds, ListDevices, ListNodes, GetNodeState
      <4>2. ~Poll /\ ~ReadFails
        BY DEF Poll, ReadFails, Return, Failure, Succeeded, StateSuccess, StateError
      <4> QED
        BY <2>2, <4>1, <4>2 DEF Validator
    <3>3. PICK desired \in Specs :
            /\ read' = [Unread EXCEPT !.live = live, !.desired = desired]
            /\ result' = StatusResult(kind, live, desired)
      <4>1. ~Return(Result(StateNotDeployed))
        BY DEF Return, Result, Succeeded, StateSuccess, StateNotDeployed
      <4>2. ~TemplateKind /\ kind # "sriov" /\ kind # "existence"
        BY DEF TemplateKind, TemplateKinds
      <4> QED
        BY <3>2, <4>1, <4>2 DEF GetObject
    <3>4. read'.live = live /\ read'.desired = desired
      BY <3>3 DEF Unread
    <3>5. StatusResult("openshift", live, desired).state = StateSuccess
      BY <3>3 DEF Succeeded
    <3> QED
      BY <3>1, <3>4, <3>5, RelaxationIsEarned DEF ManagedReady
  <2> QED
    BY <2>1, <2>2 DEF Next
<1> QED
  BY <1>1, <1>2, CourseInvariant, PTL DEF Spec

-----------------------------------------------------------------------------
(* SR-IOV node policies.                                                   *)

\* What a call has read.
ReadTypes ==
    read = [template |-> read.template, devices |-> read.devices, nodes |-> read.nodes,
            policy |-> read.policy, states |-> read.states, found |-> read.found,
            ran |-> read.ran, live |-> read.live, desired |-> read.desired]

\* A node read as successful had its functions.
Earned(n) == read.states[n] = StateSuccess => InPlace(read.policy, read.found[n])

Seen ==
    /\ pc \in {"nodes", "states"} => read.policy \in PolicyRecord
    /\ pc = "nodes" => read.states = <<>> /\ read.found = <<>>
    /\ pc = "states" =>
         /\ read.nodes # {} /\ DOMAIN read.states \subseteq read.nodes
         /\ DOMAIN read.found = DOMAIN read.states
         /\ \A n \in DOMAIN read.states :
              Earned(n) /\ read.states[n] \in {StateError, StateInProgress, StateSuccess}

SriovInv ==
    kind = "sriov" => policy \in PolicyRecord /\ ReadTypes /\ Seen /\ VfsInPlace

\* A node state that NodeStateVerdict calls successful has the functions.
LEMMA VerdictIsEarned ==
    ASSUME NEW p \in PolicyRecord, NEW s, NodeStateVerdict(p, s) = StateSuccess
    PROVE  InPlace(p, s.ifaces)
<1> DEFINE ifaces == s.ifaces
           here   == {i \in ifaces : p.numVfs \in {0, i.vfs}}
<1>1. crossCheckPFs(p, ifaces) = StateSuccess
  BY DEF NodeStateVerdict, StateSuccess, StateError, StateInProgress
<1>2. \A i : checkNumVfs(i, p.numVfs) <=> p.numVfs \in {0, i.vfs}
  BY DEF checkNumVfs, PolicyRecord
<1>3. CASE p.pfNames # {}
  <2>1. /\ p.pfNames \ {i.name : i \in ifaces} = {}
        /\ \A i \in ifaces : i.name \in p.pfNames => checkNumVfs(i, p.numVfs)
    BY <1>1, <1>3 DEF crossCheckPFs, StateSuccess, StateError, StateInProgress
  <2> QED
    BY <1>2, <1>3, <2>1 DEF InPlace
<1>4. CASE p.pfNames = {} /\ p.rootDevices # {}
  <2>1. /\ p.rootDevices \ {i.pci : i \in ifaces} = {}
        /\ \A i \in ifaces : i.pci \in p.rootDevices => checkNumVfs(i, p.numVfs)
    BY <1>1, <1>4 DEF crossCheckPFs, StateSuccess, StateError, StateInProgress
  <2> QED
    BY <1>2, <1>4, <2>1 DEF InPlace
<1>5. CASE p.pfNames = {} /\ p.rootDevices = {}
  <2> DEFINE Meets(i) == p.vendor \in {"", i.vendor} /\ p.device \in {"", i.device}
  <2>1. /\ {i \in ifaces : Meets(i)} # {}
        /\ \A i \in ifaces : Meets(i) => checkNumVfs(i, p.numVfs)
    BY <1>1, <1>5 DEF crossCheckPFs, StateSuccess, StateError, StateInProgress
  <2> QED
    BY <1>2, <1>5, <2>1 DEF InPlace
<1> QED
  BY <1>3, <1>4, <1>5

\* VfsInPlace: a policy is called ready only when every node of its selector
\* had the functions it asks for when its state was read, in whatever order the
\* node states were read, the SR-IOV operator wrote them and nodes lost them.
THEOREM ReadyPolicyHasVfs == Spec => []VfsInPlace
<1>1. Init => SriovInv
  <2> SUFFICES ASSUME Init, kind = "sriov"
               PROVE  policy \in PolicyRecord /\ ReadTypes /\ Seen /\ VfsInPlace
    BY DEF SriovInv
  <2>1. policy \in PolicyRecord
    BY PoliciesAssumption DEF Init
  <2> QED
    BY <2>1 DEF Init, ReadTypes, Unread, Seen, VfsInPlace, Succeeded
<1>2. Course /\ SriovInv /\ [Next]_vars => SriovInv'
  <2> SUFFICES ASSUME Course, [Next]_vars, kind' = "sriov", kind' = kind,
                      policy \in PolicyRecord, ReadTypes, Seen, VfsInPlace
               PROVE  policy' \in PolicyRecord /\ ReadTypes' /\ Seen' /\ VfsInPlace'
    BY OperatorsQuiet, ValidatorReads DEF SriovInv, Next, Calling
  <2>1. CASE Operators \/ Changes \/ UNCHANGED vars
    <3>1. UNCHANGED <<pc, read, result>>
      BY <2>1, OperatorsQuiet
    <3>2. policy' \in PolicyRecord
      <4>1. CASE EditPolicy
        BY <4>1, PoliciesAssumption DEF EditPolicy
      <4>2. CASE UNCHANGED policy
        BY <4>2
      <4> QED
        BY <2>1, <4>1, <4>2 DEF Operators, Changes, ReportMatched, PolicyStep, DeviceComes,
           WriteSpec, StartUpdate, EndUpdate, SriovStep, EditTemplate, Relabel, DeviceGoes,
           WriteFirmware, SriovReset, policyVars, vars
    <3> QED
      BY <3>1, <3>2 DEF ReadTypes, Seen, Earned, VfsInPlace, Succeeded
  <2>2. CASE Validator \/ ReadFails
    <3>1. policy' \in PolicyRecord
      BY <2>2, ValidatorReads DEF Calling, policyVars
    <3>2. CASE ReadFails \/ Poll
      BY <3>1, <3>2 DEF ReadFails, Poll, Return, Failure, Result, ReadTypes, Unread, Seen,
                        VfsInPlace, Succeeded, StateSuccess, StateError, StateNotDeployed
    <3>3. CASE GetObject
      <4>1. CASE Return(Result(StateNotDeployed))
        BY <3>1, <4>1 DEF Return, Result, ReadTypes, Unread, Seen, VfsInPlace, Succeeded,
                          StateSuccess, StateNotDeployed
      <4>2. CASE pc' = "nodes" /\ read' = [Unread EXCEPT !.policy = policy]
        BY <3>1, <4>2 DEF ReadTypes, Unread, Seen, VfsInPlace, Succeeded
      <4> QED
        BY <3>3, <4>1, <4>2 DEF GetObject, StatusKinds, TemplateKind, TemplateKinds
    <3>4. ~ListDevices
      BY DEF Course, TemplateKind, TemplateKinds, ListDevices
    <3>5. CASE ListNodes
      <4> DEFINE nodes == listNodesMatchingSelector(labels, read.policy.nodeSelector)
      <4>1. /\ read' = [read EXCEPT !.nodes = nodes]
            /\ read.states = <<>> /\ read.found = <<>> /\ read.policy \in PolicyRecord
        BY <3>5 DEF ListNodes, Seen
      <4>2. \/ pc' = "done" /\ result'.state # StateSuccess
            \/ pc' = "states" /\ nodes # {}
        BY <3>5 DEF ListNodes, Result, StateError, StateSuccess
      <4> HIDE DEF nodes
      <4>3. /\ ReadTypes' /\ read'.nodes = nodes /\ read'.policy \in PolicyRecord
            /\ read'.states = <<>> /\ read'.found = <<>>
        BY <4>1 DEF ReadTypes
      <4>4. DOMAIN read'.states = {} /\ DOMAIN read'.found = {}
        BY <4>3
      <4> QED
        BY <3>1, <4>2, <4>3, <4>4 DEF Seen, VfsInPlace, Succeeded
    <3>6. CASE GetNodeState
      <4> DEFINE There(n) == n \in DOMAIN nodeStates
                 V(n) == IF There(n) THEN NodeStateVerdict(read.policy, nodeStates[n])
                         ELSE StateInProgress
                 States(n) == [m \in DOMAIN read.states \cup {n} |->
                                 IF m = n THEN V(n) ELSE read.states[m]]
                 Found(n) == [m \in DOMAIN read.states \cup {n} |->
                                IF m # n THEN read.found[m]
                                ELSE IF There(n) THEN nodeStates[n].ifaces ELSE {}]
      <4>1. PICK n \in read.nodes \ DOMAIN read.states :
              /\ read' = [read EXCEPT !.states = States(n), !.found = Found(n)]
              /\ IF DOMAIN States(n) = read.nodes
                   THEN /\ pc' = "done"
                        /\ result' = Result(Aggregate({States(n)[m] : m \in read.nodes}))
                   ELSE UNCHANGED <<pc, result>>
        BY <3>6 DEF GetNodeState
      <4> DEFINE states == States(n)
                 found == Found(n)
      <4>2. pc = "states" /\ read.policy \in PolicyRecord
        BY <3>6 DEF GetNodeState, Seen
      <4>3. /\ V(n) \in {StateError, StateInProgress, StateSuccess}
            /\ V(n) = StateSuccess => There(n) /\ InPlace(read.policy, nodeStates[n].ifaces)
        <5>1. NodeStateVerdict(read.policy, nodeStates[n])
                \in {StateError, StateInProgress, StateSuccess}
          BY DEF NodeStateVerdict, crossCheckPFs
        <5>2. StateInProgress # StateSuccess
          BY DEF StateInProgress, StateSuccess
        <5> QED
          BY <4>2, <5>1, <5>2, VerdictIsEarned
      <4> HIDE DEF V
      <4>4. /\ DOMAIN states \subseteq read.nodes /\ DOMAIN found = DOMAIN states
            /\ \A m \in DOMAIN states :
                 /\ states[m] \in {StateError, StateInProgress, StateSuccess}
                 /\ states[m] = StateSuccess => InPlace(read.policy, found[m])
        BY <4>1, <4>2, <4>3 DEF Seen, Earned
      <4>5. /\ read' = [read EXCEPT !.states = states, !.found = found]
            /\ IF DOMAIN states = read.nodes
                 THEN /\ pc' = "done"
                      /\ result' = Result(Aggregate({states[m] : m \in read.nodes}))
                 ELSE UNCHANGED <<pc, result>>
        BY <4>1
      <4> HIDE DEF states, found
      <4>6. /\ ReadTypes' /\ read'.states = states /\ read'.found = found
            /\ read'.nodes = read.nodes /\ read'.policy = read.policy /\ read.nodes # {}
        BY <4>2, <4>5 DEF ReadTypes, Seen
      <4>7. CASE DOMAIN states = read.nodes
        <5>1. pc' = "done" /\ result'.state = Aggregate({states[m] : m \in read.nodes})
          BY <4>5, <4>7 DEF Result
        <5>2. ASSUME result'.state = StateSuccess, NEW m \in read.nodes
              PROVE  m \in DOMAIN found /\ InPlace(read.policy, found[m])
          <6>1. states[m] = StateSuccess
            BY <4>4, <4>7, <5>1, <5>2 DEF Aggregate, StateError, StateInProgress, StateSuccess
          <6> QED
            BY <4>4, <4>7, <6>1
        <5> QED
          BY <3>1, <4>6, <5>1, <5>2 DEF Seen, VfsInPlace, Succeeded
      <4>8. CASE DOMAIN states # read.nodes
        <5>1. pc' = "states"
          BY <4>2, <4>5, <4>8
        <5>2. \A m \in DOMAIN states : Earned(m)'
          BY <4>4, <4>6 DEF Earned
        <5> QED
          BY <3>1, <4>2, <4>4, <4>6, <5>1, <5>2 DEF Seen, VfsInPlace, Succeeded
      <4> QED
        BY <4>7, <4>8
    <3> QED
      BY <2>2, <3>2, <3>3, <3>4, <3>5, <3>6 DEF Validator
  <2> QED
    BY <2>1, <2>2 DEF Next
<1>3. Course /\ SriovInv => VfsInPlace
  BY DEF SriovInv, VfsInPlace
<1> QED
  BY <1>1, <1>2, <1>3, CourseInvariant, PTL DEF Spec

-----------------------------------------------------------------------------
(* NIC templates.                                                          *)

Payloads == {t.payload : t \in Templates}
Section  == {<<>>} \cup {<<p>> : p \in Payloads}
Reasons  == {"", "Started", "InterfaceNameApplied", "UpdateSuccessful", "DeviceFwMatch",
             "InterfaceNameMismatch", "RuntimeConfigUpdateFailed", "FirmwareUpdateFailed"}
Cond     == [set : BOOLEAN, gen : Nat, reason : Reasons, status : {"", "True", "False"}]
Device   ==
    [node : {DeviceOf[m].node : m \in Names}, type : {DeviceOf[m].type : m \in Names},
     pcis : {DeviceOf[m].pcis : m \in Names}, serial : {DeviceOf[m].serial : m \in Names},
     part : {DeviceOf[m].part : m \in Names}, gen : Nat \ {0},
     spec : [TemplateKinds -> Section], conds : [TemplateKinds -> Cond]]
Work     == [TemplateKinds -> Section]

\* A condition about the present generation of a device tells what its hardware
\* runs, r, once the daemon has finished ...
Honest(d, r) ==
    /\ d \in Device
    /\ \A k \in TemplateKinds :
         /\ d.conds[k].gen <= d.gen
         /\ d.conds[k].reason \in {"", "Started", Finished(k).reason, Broken(k).reason}
         /\ d.conds[k].gen = d.gen /\ d.conds[k].reason = Finished(k).reason
              => r[k] = d.spec[k]

\* ... because it works on that generation's sections, j.
Current(d, j) ==
    \A k \in TemplateKinds :
        d.conds[k].gen = d.gen /\ j[k] # <<>> => j[k] = d.spec[k]

\* A new section is a new generation, which no condition is about.
LEMMA NewSection ==
    ASSUME NEW d, NEW r, NEW j, NEW k \in TemplateKinds, NEW x \in Section, Honest(d, r)
    PROVE  LET e == [d EXCEPT !.spec[k] = x, !.gen = @ + 1]
           IN Honest(e, r) /\ Current(e, j)
<1> DEFINE e == [d EXCEPT !.spec[k] = x, !.gen = @ + 1]
<1>1. d \in Device
  BY DEF Honest
<1>2. e \in Device /\ e.gen = d.gen + 1 /\ e.conds = d.conds
  <2> DEFINE f == [d EXCEPT !.spec[k] = x]
  <2>1. f \in Device
    BY <1>1 DEF Device
  <2>2. e = [f EXCEPT !.gen = @ + 1]
    BY <1>1 DEF Device
  <2>3. e.gen = d.gen + 1 /\ e.conds = d.conds
    BY <1>1 DEF Device
  <2> HIDE DEF f
  <2>4. [f EXCEPT !.gen = @ + 1] \in Device
    BY <2>1 DEF Device
  <2> QED
    BY <2>2, <2>3, <2>4
<1>3. \A l \in TemplateKinds : d.conds[l].gen \in Nat /\ d.conds[l].gen <= d.gen /\ d.gen \in Nat
  BY <1>1 DEF Honest, Device, Cond
<1> HIDE DEF e
<1>4. \A l \in TemplateKinds : e.conds[l].gen <= e.gen /\ e.conds[l].gen # e.gen
  BY <1>2, <1>3
<1>5. Honest(e, r) /\ Current(e, j)
  BY <1>2, <1>4 DEF Honest, Current
<1> QED
  BY <1>5 DEF e

\* The daemon starts on the present generation.
LEMMA Starting ==
    ASSUME NEW d, NEW r, NEW j \in Work, NEW k \in TemplateKinds, Honest(d, r), Current(d, j)
    PROVE  LET e == [d EXCEPT !.conds[k] = [set |-> TRUE, gen |-> d.gen,
                                            reason |-> "Started", status |-> "True"]]
           IN Honest(e, r) /\ Current(e, [j EXCEPT ![k] = d.spec[k]])
<1> DEFINE c == [set |-> TRUE, gen |-> d.gen, reason |-> "Started", status |-> "True"]
           e == [d EXCEPT !.conds[k] = c]
           i == [j EXCEPT ![k] = d.spec[k]]
<1>1. d \in Device /\ d.gen \in Nat
  BY DEF Honest, Device
<1>2. c \in Cond /\ c.gen = d.gen /\ c.reason = "Started"
  BY <1>1 DEF Cond, Reasons
<1> HIDE DEF c
<1>3. /\ e \in Device /\ e.gen = d.gen /\ e.spec = d.spec
      /\ e.conds = [d.conds EXCEPT ![k] = c]
  BY <1>1, <1>2 DEF Device
<1>4. /\ e.conds[k] = c
      /\ \A l \in TemplateKinds \ {k} : e.conds[l] = d.conds[l]
  BY <1>1, <1>3 DEF Device
<1>5. /\ i[k] = d.spec[k]
      /\ \A l \in TemplateKinds \ {k} : i[l] = j[l]
  BY DEF Work
<1> HIDE DEF e, i
<1>6. "Started" # Finished(k).reason
  BY DEF Finished
<1>7. Honest(e, r)
  <2>1. \A l \in TemplateKinds \ {k} :
          /\ e.conds[l].gen <= e.gen
          /\ e.conds[l].reason \in {"", "Started", Finished(l).reason, Broken(l).reason}
          /\ e.conds[l].gen = e.gen /\ e.conds[l].reason = Finished(l).reason
               => r[l] = e.spec[l]
    BY <1>3, <1>4 DEF Honest
  <2>2. /\ e.conds[k].gen <= e.gen
        /\ e.conds[k].reason = "Started"
    BY <1>1, <1>2, <1>3, <1>4
  <2> QED
    BY <1>3, <1>6, <2>1, <2>2 DEF Honest
<1>8. Current(e, i)
  BY <1>3, <1>4, <1>5 DEF Current
<1> QED
  BY <1>7, <1>8 DEF c, e, i

\* It ends, and the hardware runs what it worked on, or what it ran before.
LEMMA Ending ==
    ASSUME NEW d, NEW r \in Work, NEW j \in Work, NEW k \in TemplateKinds,
           NEW ok \in BOOLEAN, Honest(d, r), Current(d, j), j[k] # <<>>
    PROVE  LET end == IF ok THEN Finished(k) ELSE Broken(k)
               e == [d EXCEPT !.conds[k] = [set |-> TRUE, gen |-> @.gen,
                                            reason |-> end.reason, status |-> end.status]]
               q == IF ok THEN [r EXCEPT ![k] = j[k]] ELSE r
           IN Honest(e, q) /\ Current(e, [j EXCEPT ![k] = <<>>])
<1> DEFINE end == IF ok THEN Finished(k) ELSE Broken(k)
           c == [set |-> TRUE, gen |-> d.conds[k].gen,
                 reason |-> end.reason, status |-> end.status]
           e == [d EXCEPT !.conds[k] = c]
           q == IF ok THEN [r EXCEPT ![k] = j[k]] ELSE r
           i == [j EXCEPT ![k] = <<>>]
<1>1. d \in Device
  BY DEF Honest
<1>2. end.reason \in Reasons /\ end.status \in {"", "True", "False"}
  BY DEF Finished, Broken, Reasons
<1>3. end.reason \in {Finished(k).reason, Broken(k).reason}
  OBVIOUS
<1>4. Finished(k).reason # Broken(k).reason
  BY DEF Finished, Broken
<1>5. ok \/ end.reason # Finished(k).reason
  BY <1>4
<1> HIDE DEF end
<1>6. /\ e \in Device /\ e.gen = d.gen /\ e.spec = d.spec
      /\ e.conds[k].gen = d.conds[k].gen /\ e.conds[k].reason = end.reason
      /\ \A l \in TemplateKinds \ {k} : e.conds[l] = d.conds[l]
  <2>1. d.conds \in [TemplateKinds -> Cond] /\ d.conds[k].gen \in Nat
    BY <1>1 DEF Device, Cond
  <2>2. c \in Cond /\ c.gen = d.conds[k].gen /\ c.reason = end.reason
    BY <1>2, <2>1 DEF Cond
  <2> HIDE DEF c
  <2>3. /\ e \in Device /\ e.gen = d.gen /\ e.spec = d.spec
        /\ e.conds = [d.conds EXCEPT ![k] = c]
    BY <1>1, <2>2 DEF Device
  <2> QED
    BY <2>1, <2>2, <2>3
<1>7. /\ ok => q[k] = j[k]
      /\ \A l \in TemplateKinds \ {k} : q[l] = r[l]
  BY DEF Work
<1>8. /\ i[k] = <<>>
      /\ \A l \in TemplateKinds \ {k} : i[l] = j[l]
  BY DEF Work
<1> HIDE DEF e, q, i
<1>9. Honest(e, q)
  <2>1. ASSUME e.conds[k].gen = e.gen, e.conds[k].reason = Finished(k).reason
        PROVE  q[k] = e.spec[k]
    BY <1>5, <1>6, <1>7, <2>1 DEF Current
  <2>2. \A l \in TemplateKinds \ {k} :
          e.conds[l].gen = e.gen /\ e.conds[l].reason = Finished(l).reason => q[l] = e.spec[l]
    BY <1>6, <1>7 DEF Honest
  <2>3. \A l \in TemplateKinds :
          /\ e.conds[l].gen <= e.gen
          /\ e.conds[l].reason \in {"", "Started", Finished(l).reason, Broken(l).reason}
    BY <1>3, <1>6 DEF Honest
  <2> QED
    BY <1>6, <2>1, <2>2, <2>3 DEF Honest
<1>10. Current(e, i)
  BY <1>6, <1>8 DEF Current
<1> QED
  BY <1>9, <1>10 DEF end, c, e, q, i

\* A device that has just been published has no conditions.
LEMMA Publishing ==
    ASSUME NEW n \in Names, NEW r, NEW j
    PROVE  Honest(NewDevice(n), r) /\ Current(NewDevice(n), j)
<1>1. NoCond \in Cond /\ NoCond.gen = 0 /\ NoCond.reason = ""
  BY DEF NoCond, Cond, Reasons
<1>2. <<>> \in Section
  BY DEF Section
<1>3. [k \in TemplateKinds |-> <<>>] \in [TemplateKinds -> Section]
  BY <1>2
<1>4. [k \in TemplateKinds |-> NoCond] \in [TemplateKinds -> Cond]
  BY <1>1
<1>5. /\ NewDevice(n) \in Device /\ NewDevice(n).gen = 1
      /\ NewDevice(n).conds = [k \in TemplateKinds |-> NoCond]
  BY <1>3, <1>4 DEF NewDevice, Device
<1>6. \A k \in TemplateKinds : NewDevice(n).conds[k].gen = 0 /\ NewDevice(n).conds[k].reason = ""
  BY <1>1, <1>5
<1>7. ASSUME NEW k \in TemplateKinds
      PROVE  /\ NewDevice(n).conds[k].gen <= NewDevice(n).gen
             /\ NewDevice(n).conds[k].gen # NewDevice(n).gen
  <2>1. NewDevice(n).conds[k].gen = 0 /\ NewDevice(n).gen = 1
    BY <1>5, <1>6
  <2> QED
    BY <2>1
<1> QED
  BY <1>5, <1>6, <1>7 DEF Honest, Current

\* The devices, the daemons and the hardware, whatever the operators have done.
DevicesKnown ==
    /\ template.payload \in Payloads
    /\ devices = [n \in DOMAIN devices |-> devices[n]] /\ DOMAIN devices \subseteq Names
    /\ job \in [Names -> Work] /\ running \in [Names -> Work]
    /\ \A n \in DOMAIN devices : Honest(devices[n], running[n]) /\ Current(devices[n], job[n])

\* A step that concerns one device.
LEMMA OneDevice ==
    ASSUME DevicesKnown, NEW n \in Names,
           template'.payload \in Payloads,
           devices' = [m \in DOMAIN devices' |-> devices'[m]],
           DOMAIN devices' \subseteq DOMAIN devices \cup {n},
           job' \in [Names -> Work], running' \in [Names -> Work],
           \A m \in DOMAIN devices' \ {n} :
              devices'[m] = devices[m] /\ job'[m] = job[m] /\ running'[m] = running[m],
           n \in DOMAIN devices' =>
              Honest(devices'[n], running'[n]) /\ Current(devices'[n], job'[n])
    PROVE  DevicesKnown'
<1>1. \A m \in DOMAIN devices' : Honest(devices'[m], running'[m]) /\ Current(devices'[m], job'[m])
  <2> TAKE m \in DOMAIN devices'
  <2>1. CASE m = n
    BY <2>1
  <2>2. CASE m # n
    <3>1. m \in DOMAIN devices /\ devices'[m] = devices[m] /\ job'[m] = job[m] /\ running'[m] = running[m]
      BY <2>2
    <3>2. Honest(devices[m], running[m]) /\ Current(devices[m], job[m])
      BY <3>1 DEF DevicesKnown
    <3> QED
      BY <3>1, <3>2
  <2> QED
    BY <2>1, <2>2
<1> QED
  BY <1>1 DEF DevicesKnown

\* The operators keep the conditions honest: a condition of the present
\* generation that reports success is about what the hardware runs.
LEMMA ConditionsHonest == Spec => [](TemplateKind => DevicesKnown)
<1>1. Init => (TemplateKind => DevicesKnown)
  <2> SUFFICES ASSUME Init, TemplateKind PROVE DevicesKnown
    OBVIOUS
  <2>1. template \in Templates /\ DOMAIN devices = {}
    BY DEF Init
  <2>2. [k \in TemplateKinds |-> <<>>] \in Work
    BY DEF Work, Section
  <2>3. job \in [Names -> Work] /\ running \in [Names -> Work]
    BY <2>2 DEF Init
  <2>4. devices = [n \in DOMAIN devices |-> devices[n]]
    BY DEF Init
  <2> QED
    BY <2>1, <2>3, <2>4 DEF DevicesKnown, Payloads
<1>2. (TemplateKind => DevicesKnown) /\ [Next]_vars => (TemplateKind => DevicesKnown)'
  <2> SUFFICES ASSUME TemplateKind => DevicesKnown, [Next]_vars, TemplateKind'
               PROVE  DevicesKnown'
    OBVIOUS
  <2>1. kind' = kind
    BY OperatorsQuiet, ValidatorReads DEF Next, Calling
  <2>2. TemplateKind /\ DevicesKnown
    BY <2>1 DEF TemplateKind
  <2>3. CASE Validator \/ ReadFails \/ UNCHANGED vars
    <3>1. UNCHANGED operatorVars
      BY <2>3, ValidatorReads DEF Calling, vars
    <3> QED
      BY <2>2, <3>1 DEF operatorVars, DevicesKnown
  <2>4. CASE PolicyStep \/ Relabel \/ EditPolicy \/ \E n \in Nodes : SriovStep(n) \/ SriovReset(n)
    <3>1. UNCHANGED operatorVars
      BY <2>4 DEF PolicyStep, Relabel, EditPolicy, SriovStep, SriovReset
    <3> QED
      BY <2>2, <3>1 DEF operatorVars, DevicesKnown
  <2>5. CASE EditTemplate \/ ReportMatched
    <3>1. template'.payload \in Payloads
      <4>1. CASE EditTemplate
        <5>1. PICK t \in Templates : template' = [t EXCEPT !.matched = template.matched]
          BY <4>1 DEF EditTemplate
        <5>2. template'.payload = t.payload
          BY <5>1, TemplatesAssumption
        <5> QED
          BY <5>2 DEF Payloads
      <4>2. CASE ReportMatched
        <5>1. template'.payload = template.payload
          BY <4>2 DEF ReportMatched
        <5> QED
          BY <2>2, <5>1 DEF DevicesKnown
      <4> QED
        BY <2>5, <4>1, <4>2
    <3>2. UNCHANGED <<devices, job, running>>
      BY <2>5 DEF EditTemplate, ReportMatched
    <3> QED
      BY <2>2, <3>1, <3>2 DEF DevicesKnown
  <2>6. ASSUME NEW n \in Names, DeviceComes(n) PROVE DevicesKnown'
    <3>1. /\ devices' = [m \in DOMAIN devices \cup {n} |->
                           IF m = n THEN NewDevice(n) ELSE devices[m]]
          /\ n \notin DOMAIN devices /\ UNCHANGED <<template, job, running>>
      BY <2>6 DEF DeviceComes
    <3>2. /\ devices' = [m \in DOMAIN devices' |-> devices'[m]]
          /\ DOMAIN devices' = DOMAIN devices \cup {n}
          /\ devices'[n] = NewDevice(n)
          /\ \A m \in DOMAIN devices' \ {n} : devices'[m] = devices[m]
      BY <3>1
    <3>3. Honest(devices'[n], running'[n]) /\ Current(devices'[n], job'[n])
      BY <3>2, Publishing
    <3>4. template'.payload \in Payloads /\ job' \in [Names -> Work] /\ running' \in [Names -> Work]
      BY <2>2, <3>1 DEF DevicesKnown
    <3> QED
      BY <2>2, <3>1, <3>2, <3>3, <3>4, OneDevice
  <2>7. ASSUME NEW n \in Names, DeviceGoes(n) PROVE DevicesKnown'
    <3> DEFINE none == [k \in TemplateKinds |-> <<>>]
    <3>1. /\ devices' = [m \in DOMAIN devices \ {n} |-> devices[m]]
          /\ job' = [job EXCEPT ![n] = none] /\ UNCHANGED <<template, running>>
      BY <2>7 DEF DeviceGoes
    <3>2. none \in Work
      BY DEF Work, Section
    <3> HIDE DEF none
    <3>3. /\ devices' = [m \in DOMAIN devices' |-> devices'[m]]
          /\ DOMAIN devices' = DOMAIN devices \ {n}
          /\ \A m \in DOMAIN devices' \ {n} : devices'[m] = devices[m]
      BY <3>1
    <3>4. /\ template'.payload \in Payloads /\ job' \in [Names -> Work]
          /\ running' \in [Names -> Work]
          /\ \A m \in DOMAIN devices' \ {n} : job'[m] = job[m]
      BY <2>2, <3>1, <3>2, <3>3 DEF DevicesKnown
    <3> QED
      BY <2>2, <3>1, <3>3, <3>4, OneDevice
  <2>8. ASSUME NEW n \in DOMAIN devices, NEW k \in TemplateKinds, NEW x \in Section,
               devices' = [devices EXCEPT ![n].spec[k] = x, ![n].gen = @ + 1],
               UNCHANGED <<template, job, running>>
        PROVE  DevicesKnown'
    <3>1. /\ n \in Names /\ Honest(devices[n], running[n])
          /\ devices = [m \in DOMAIN devices |-> devices[m]]
      BY <2>2 DEF DevicesKnown
    <3> DEFINE e == [devices[n] EXCEPT !.spec[k] = x, !.gen = @ + 1]
    <3>2. devices' = [devices EXCEPT ![n] = e]
      BY <2>8, <3>1
    <3>3. Honest(e, running[n]) /\ Current(e, job[n])
      BY <3>1, NewSection
    <3> HIDE DEF e
    <3>4. /\ devices' = [m \in DOMAIN devices' |-> devices'[m]]
          /\ DOMAIN devices' = DOMAIN devices /\ devices'[n] = e
          /\ \A m \in DOMAIN devices' \ {n} : devices'[m] = devices[m]
      BY <3>1, <3>2
    <3>5. template'.payload \in Payloads /\ job' \in [Names -> Work] /\ running' \in [Names -> Work]
      BY <2>2, <2>8 DEF DevicesKnown
    <3> QED
      BY <2>2, <2>8, <3>1, <3>3, <3>4, <3>5, OneDevice
  <2>9. ASSUME NEW n \in Names, WriteSpec(n) PROVE DevicesKnown'
    <3>1. n \in DOMAIN devices /\ kind \in TemplateKinds
      BY <2>9 DEF WriteSpec, Selected, devicesMatchingCurrentSelectors, TemplateKind
    <3>2. <<template.payload>> \in Section
      BY <2>2 DEF DevicesKnown, Section
    <3> QED
      BY <2>8, <2>9, <3>1, <3>2 DEF WriteSpec
  <2>10. ASSUME NEW n \in Names, WriteFirmware(n) PROVE DevicesKnown'
    <3>1. PICK t \in Templates :
            devices' = [devices EXCEPT ![n].spec["firmware"] = <<t.payload>>, ![n].gen = @ + 1]
      BY <2>10 DEF WriteFirmware
    <3>2. <<t.payload>> \in Section /\ "firmware" \in TemplateKinds
      BY DEF Section, Payloads, TemplateKinds
    <3> QED
      BY <2>8, <2>10, <3>1, <3>2 DEF WriteFirmware
  <2>11. ASSUME NEW n \in Names, NEW k \in TemplateKinds, StartUpdate(n, k) PROVE DevicesKnown'
    <3>1. /\ n \in DOMAIN devices /\ Honest(devices[n], running[n]) /\ Current(devices[n], job[n])
          /\ devices = [m \in DOMAIN devices |-> devices[m]]
          /\ job \in [Names -> Work] /\ running \in [Names -> Work]
      BY <2>2, <2>11 DEF DevicesKnown, StartUpdate
    <3> DEFINE e == [devices[n] EXCEPT !.conds[k] = [set |-> TRUE, gen |-> devices[n].gen,
                                                     reason |-> "Started", status |-> "True"]]
               i == [job[n] EXCEPT ![k] = devices[n].spec[k]]
    <3>2. /\ devices' = [devices EXCEPT ![n] = e] /\ job' = [job EXCEPT ![n] = i]
          /\ UNCHANGED <<template, running>>
      BY <2>11, <3>1 DEF StartUpdate
    <3>3. Honest(e, running[n]) /\ Current(e, i)
      BY <3>1, Starting
    <3>4. i \in Work
      BY <3>1 DEF Work, Honest, Device
    <3> HIDE DEF e, i
    <3>5. /\ devices' = [m \in DOMAIN devices' |-> devices'[m]]
          /\ DOMAIN devices' = DOMAIN devices /\ devices'[n] = e
          /\ \A m \in DOMAIN devices' \ {n} : devices'[m] = devices[m]
      BY <3>1, <3>2
    <3>6. /\ job' \in [Names -> Work] /\ job'[n] = i
          /\ \A m \in Names \ {n} : job'[m] = job[m]
      BY <3>1, <3>2, <3>4
    <3>7. template'.payload \in Payloads /\ DOMAIN devices \subseteq Names
      BY <2>2, <3>2 DEF DevicesKnown
    <3> QED
      BY <2>2, <3>1, <3>2, <3>3, <3>5, <3>6, <3>7, OneDevice
  <2>12. ASSUME NEW n \in Names, NEW k \in TemplateKinds, EndUpdate(n, k) PROVE DevicesKnown'
    <3>1. /\ n \in DOMAIN devices /\ Honest(devices[n], running[n]) /\ Current(devices[n], job[n])
          /\ devices = [m \in DOMAIN devices |-> devices[m]] /\ job[n][k] # <<>>
          /\ job \in [Names -> Work] /\ running \in [Names -> Work]
      BY <2>2, <2>12 DEF DevicesKnown, EndUpdate
    <3>2. PICK ok \in BOOLEAN :
            LET end == IF ok THEN Finished(k) ELSE Broken(k)
            IN /\ devices' = [devices EXCEPT ![n].conds[k] =
                    [set |-> TRUE, gen |-> @.gen, reason |-> end.reason, status |-> end.status]]
               /\ running' = IF ok THEN [running EXCEPT ![n][k] = job[n][k]] ELSE running
      BY <2>12 DEF EndUpdate
    <3> DEFINE end == IF ok THEN Finished(k) ELSE Broken(k)
               e == [devices[n] EXCEPT !.conds[k] =
                       [set |-> TRUE, gen |-> @.gen, reason |-> end.reason, status |-> end.status]]
               q == IF ok THEN [running[n] EXCEPT ![k] = job[n][k]] ELSE running[n]
               i == [job[n] EXCEPT ![k] = <<>>]
    <3>3. Honest(e, q) /\ Current(e, i)
      <4>1. job[n] \in Work /\ running[n] \in Work
        BY <3>1
      <4> QED
        BY <3>1, <4>1, Ending
    <3>4. i \in Work /\ q \in Work
      <4>1. <<>> \in Section
        BY DEF Section
      <4>2. job[n] \in Work /\ running[n] \in Work
        BY <3>1
      <4> QED
        BY <4>1, <4>2 DEF Work
    <3>5. devices' = [devices EXCEPT ![n] = e]
      <4> HIDE DEF end
      <4>1. devices' = [devices EXCEPT ![n].conds[k] =
                    [set |-> TRUE, gen |-> @.gen, reason |-> end.reason, status |-> end.status]]
        BY <3>2 DEF end
      <4> QED
        BY <3>1, <4>1
    <3>6. running' = [running EXCEPT ![n] = q] /\ job' = [job EXCEPT ![n] = i]
      <4>1. running' = IF ok THEN [running EXCEPT ![n][k] = job[n][k]] ELSE running
        BY <3>2
      <4>2. job' = [job EXCEPT ![n][k] = <<>>]
        BY <2>12 DEF EndUpdate
      <4> QED
        BY <3>1, <4>1, <4>2
    <3> HIDE DEF end, e, q, i
    <3>7. /\ devices' = [m \in DOMAIN devices' |-> devices'[m]]
          /\ DOMAIN devices' = DOMAIN devices /\ devices'[n] = e
          /\ \A m \in DOMAIN devices' \ {n} : devices'[m] = devices[m]
      BY <3>1, <3>5
    <3>8. /\ job' \in [Names -> Work] /\ job'[n] = i /\ running' \in [Names -> Work] /\ running'[n] = q
          /\ \A m \in Names \ {n} : job'[m] = job[m] /\ running'[m] = running[m]
      BY <3>1, <3>4, <3>6
    <3>9. template'.payload \in Payloads /\ DOMAIN devices \subseteq Names
      BY <2>2, <2>12 DEF DevicesKnown, EndUpdate
    <3> QED
      BY <2>2, <3>3, <3>7, <3>8, <3>9, OneDevice
  <2> QED
    BY <2>3, <2>4, <2>5, <2>6, <2>7, <2>9, <2>10, <2>11, <2>12 DEF Next, Operators, Changes
<1> QED
  BY <1>1, <1>2, PTL DEF Spec

\* What the devices say for a kind, given that they are honest.
LEMMA ClassificationIsEarned ==
    ASSUME NEW d, NEW r, Honest(d, r), NEW k \in {"configuration", "firmware"},
           classifyDevice(d, k) = StateSuccess
    PROVE  /\ r[k] = d.spec[k]
           /\ k = "configuration" /\ d.spec["firmware"] # <<>> /\ d.conds["firmware"].set
                => r["firmware"] = d.spec["firmware"]
<1>1. /\ k \in TemplateKinds /\ "firmware" \in TemplateKinds
      /\ d.gen \in Nat \ {0}
  BY DEF TemplateKinds, Honest, Device
<1>2. \A l \in TemplateKinds : d.conds[l].gen \in Nat /\ d.conds[l].gen <= d.gen
  BY DEF Honest, Device, Cond
<1>3. \A l \in TemplateKinds :
        ~conditionGenerationPending(d, d.conds[l]) /\ d.conds[l].reason = Finished(l).reason
          => r[l] = d.spec[l]
  <2> SUFFICES ASSUME NEW l \in TemplateKinds, ~conditionGenerationPending(d, d.conds[l]),
                      d.conds[l].reason = Finished(l).reason
               PROVE  r[l] = d.spec[l]
    OBVIOUS
  <2> DEFINE g == d.gen
             h == d.conds[l].gen
  <2>1. g \in Nat \ {0} /\ h \in Nat /\ h <= g
    BY <1>1, <1>2
  <2>2. ~(g > 0 /\ h < g)
    BY DEF conditionGenerationPending
  <2> HIDE DEF g, h
  <2>3. h = g
    BY <2>1, <2>2
  <2>4. d.conds[l].gen = d.gen
    BY <2>3 DEF g, h
  <2> QED
    BY <2>4 DEF Honest
<1>4. \A x : FirmwareState(x) = StateSuccess => x = Finished("firmware").reason
  BY DEF FirmwareState, Finished, StateSuccess, StateError, StateInProgress
<1>5. d.conds["firmware"].reason # "DeviceFwSpecEmpty"
  BY <1>1 DEF Honest, Finished, Broken
<1>6. CASE k = "firmware"
  <2>1. classifyFirmware(d) = StateSuccess
    BY <1>6 DEF classifyDevice
  <2>2. /\ ~conditionGenerationPending(d, d.conds["firmware"])
        /\ FirmwareState(d.conds["firmware"].reason) = StateSuccess
    BY <2>1 DEF classifyFirmware, StateSuccess, StateInProgress
  <2> QED
    BY <1>1, <1>3, <1>4, <1>6, <2>2
<1>7. CASE k = "configuration"
  <2>1. classifyConfiguration(d) = StateSuccess
    BY <1>7 DEF classifyDevice
  <2>2. /\ ~conditionGenerationPending(d, d.conds["configuration"])
        /\ d.conds["configuration"].reason = "UpdateSuccessful"
    BY <2>1 DEF classifyConfiguration, StateSuccess, StateInProgress, StateError
  <2>3. Finished("configuration").reason = "UpdateSuccessful"
    BY DEF Finished
  <2>4. ASSUME d.spec["firmware"] # <<>>, d.conds["firmware"].set
        PROVE  /\ ~conditionGenerationPending(d, d.conds["firmware"])
               /\ FirmwareState(d.conds["firmware"].reason) = StateSuccess
    BY <1>5, <2>1, <2>4 DEF classifyConfiguration, deviceTargetedByTemplate, StateSuccess,
                            StateInProgress, StateError
  <2> QED
    BY <1>1, <1>3, <1>4, <1>7, <2>2, <2>3, <2>4
<1> QED
  BY <1>6, <1>7

\* A verdict of nicTemplateResult on a template that lists devices: the list is
\* the one its selectors give, and each device has earned it.
LEMMA VerdictOfDevices ==
    ASSUME NEW t, NEW devs, NEW nodes, NEW ran, NEW k \in {"configuration", "firmware"},
           t.matched # {},
           \A n \in DOMAIN devs : Honest(devs[n], ran[n]),
           nicTemplateResult(k, t, devs, nodes).state = StateSuccess
    PROVE  LET selected == devicesMatchingCurrentSelectors(t, devs, nodes)
           IN /\ selected # {}
              /\ \A n \in selected :
                   /\ n \in DOMAIN devs
                   /\ deviceSpecReflectsTemplate(devs[n], t, k)
                   /\ classifyDevice(devs[n], k) = StateSuccess
<1> DEFINE selected == devicesMatchingCurrentSelectors(t, devs, nodes)
           Verdict(n) == IF n \in DOMAIN devs /\ deviceSpecReflectsTemplate(devs[n], t, k)
                           THEN classifyDevice(devs[n], k) ELSE StateInProgress
           stale == t.matched \subseteq DOMAIN devs /\ t.matched # selected
<1>1. StateSuccess # StateInProgress /\ StateSuccess # StateError
  BY DEF StateSuccess, StateInProgress, StateError
<1>2. MatchedResult(k, t, devs, nodes).state = StateSuccess
  BY DEF nicTemplateResult, templateUsesMatchedDeviceStatus
<1>3. ~stale
  BY <1>1, <1>2 DEF MatchedResult, Result
<1> DEFINE states == {Verdict(n) : n \in t.matched}
<1>4. TemplateResult(k, states).state = StateSuccess
  BY <1>2, <1>3 DEF MatchedResult
<1>5. \A n : Verdict(n) \in {StateSuccess, StateError, StateInProgress}
  BY DEF classifyDevice, classifyInterfaceName, classifyConfiguration, classifyFirmware,
         FirmwareState
<1> HIDE DEF Verdict
<1>6. Aggregate(states) = StateSuccess
  <2> HIDE DEF states
  <2> QED
    BY <1>4 DEF TemplateResult, Result
<1>7. \A n \in t.matched : Verdict(n) = StateSuccess
  BY <1>1, <1>5, <1>6 DEF Aggregate
<1>8. \A n \in t.matched :
        /\ n \in DOMAIN devs /\ deviceSpecReflectsTemplate(devs[n], t, k)
        /\ classifyDevice(devs[n], k) = StateSuccess
  BY <1>1, <1>7 DEF Verdict
<1>9. t.matched = selected
  BY <1>3, <1>8
<1> HIDE DEF selected
<1> QED
  BY <1>8, <1>9 DEF selected

\* What a call has read of a template and its devices.
TemplateRead ==
    /\ ReadTypes
    /\ pc = "nodes" => \A n \in DOMAIN read.devices : Honest(read.devices[n], read.ran[n])
    /\ pc \in {"devices", "nodes"} => read.template.matched # {}

TemplateInv ==
    templateUsesMatchedDeviceStatus(kind) => TemplateRead /\ DevicesConfigured

\* DevicesConfigured: what nicTemplateValidator reports as reconciled runs on
\* every device the template selects.
THEOREM ConfiguredDevicesRun == Spec => []DevicesConfigured
<1>1. Init => TemplateInv
  BY DEF Init, TemplateInv, TemplateRead, ReadTypes, Unread, DevicesConfigured, Succeeded
<1>2. Course /\ (TemplateKind => DevicesKnown) /\ TemplateInv /\ [Next]_vars => TemplateInv'
  <2> SUFFICES ASSUME Course, TemplateKind => DevicesKnown, TemplateInv, [Next]_vars
               PROVE  TemplateInv'
    OBVIOUS
  <2>1. CASE Operators \/ Changes \/ UNCHANGED vars
    BY <2>1, OperatorsQuiet DEF TemplateInv, TemplateRead, ReadTypes, DevicesConfigured,
                                Succeeded, Carries
  <2>2. CASE Validator \/ ReadFails
    <3>1. kind' = kind
      BY <2>2, ValidatorReads DEF Calling
    <3> SUFFICES ASSUME kind \in {"configuration", "firmware"}
                 PROVE  TemplateRead' /\ DevicesConfigured'
      BY <3>1 DEF TemplateInv, templateUsesMatchedDeviceStatus
    <3>2. /\ TemplateKind /\ kind # "sriov" /\ kind \notin StatusKinds /\ kind # "existence"
          /\ templateUsesMatchedDeviceStatus(kind)
      BY DEF TemplateKind, TemplateKinds, StatusKinds, templateUsesMatchedDeviceStatus
    <3>3. TemplateRead /\ DevicesConfigured /\ DevicesKnown
      BY <3>2 DEF TemplateInv
    <3>4. CASE \/ Poll \/ ReadFails
      <4>1. pc' \in {"idle", "done"} /\ read' = Unread /\ ~Succeeded'
        BY <3>4 DEF Poll, ReadFails, Return, Failure, Result, Succeeded, StateSuccess,
                    StateError, StateNotDeployed
      <4> QED
        BY <4>1 DEF TemplateRead, ReadTypes, Unread, DevicesConfigured
    <3>5. CASE GetObject
      <4>1. CASE Return(Result(StateNotDeployed))
        <5>1. pc' = "done" /\ read' = Unread /\ ~Succeeded'
          BY <4>1 DEF Return, Result, Succeeded, StateSuccess, StateNotDeployed
        <5> QED
          BY <5>1 DEF TemplateRead, ReadTypes, Unread, DevicesConfigured
      <4>2. CASE /\ read' = [Unread EXCEPT !.template = template]
                 /\ IF templateUsesMatchedDeviceStatus(kind) /\ template.matched = {}
                      THEN pc' = "done" /\ result' = Result(StateInProgress)
                      ELSE pc' = "devices" /\ UNCHANGED result
        <5>1. ReadTypes' /\ read'.template = template
          BY <4>2 DEF ReadTypes, Unread
        <5>2. \/ pc' = "done" /\ ~Succeeded'
              \/ pc' = "devices" /\ template.matched # {} /\ ~Succeeded'
          BY <3>2, <4>2 DEF Succeeded, Result, StateSuccess, StateInProgress
        <5> QED
          BY <5>1, <5>2 DEF TemplateRead, DevicesConfigured
      <4> QED
        BY <3>2, <3>5, <4>1, <4>2 DEF GetObject
    <3>6. CASE ListDevices
      <4>1. /\ pc = "devices" /\ pc' = "nodes" /\ ~Succeeded'
            /\ read' = [read EXCEPT !.devices = devices, !.ran = running]
        BY <3>6 DEF ListDevices, Succeeded
      <4>2. /\ ReadTypes' /\ read'.template = read.template
            /\ read'.devices = devices /\ read'.ran = running
        BY <3>3, <4>1 DEF ReadTypes, TemplateRead
      <4>3. \A n \in DOMAIN devices : Honest(devices[n], running[n])
        BY <3>3 DEF DevicesKnown
      <4>4. read.template.matched # {}
        BY <3>3, <4>1 DEF TemplateRead
      <4> QED
        BY <4>1, <4>2, <4>3, <4>4 DEF TemplateRead, DevicesConfigured
    <3>7. CASE ListNodes
      <4> DEFINE nodes == listNodesMatchingSelector(labels, read.template.nodeSelector)
      <4>1. /\ pc = "nodes" /\ pc' = "done" /\ read' = [read EXCEPT !.nodes = nodes]
            /\ result' = nicTemplateResult(kind, read.template, read.devices, nodes)
        BY <3>2, <3>7 DEF ListNodes
      <4> HIDE DEF nodes
      <4>2. /\ ReadTypes' /\ read'.template = read.template /\ read'.devices = read.devices
            /\ read'.ran = read.ran /\ read'.nodes = nodes
        BY <3>3, <4>1 DEF ReadTypes, TemplateRead
      <4>3. /\ read.template.matched # {}
            /\ \A n \in DOMAIN read.devices : Honest(read.devices[n], read.ran[n])
        BY <3>3, <4>1 DEF TemplateRead
      <4>4. ASSUME Succeeded' PROVE DevicesConfigured'
        <5> DEFINE t == read.template
                   selected == devicesMatchingCurrentSelectors(t, read.devices, nodes)
        <5>1. nicTemplateResult(kind, t, read.devices, nodes).state = StateSuccess
          BY <4>1, <4>4 DEF Succeeded
        <5>2. /\ selected # {}
              /\ \A n \in selected :
                   /\ n \in DOMAIN read.devices
                   /\ deviceSpecReflectsTemplate(read.devices[n], t, kind)
                   /\ classifyDevice(read.devices[n], kind) = StateSuccess
          BY <4>3, <5>1, VerdictOfDevices
        <5> HIDE DEF selected
        <5>3. ASSUME NEW n \in selected
              PROVE  /\ Carries(read.ran[n][kind], t)
                     /\ kind = "configuration" /\ read.devices[n].spec["firmware"] # <<>>
                          /\ read.devices[n].conds["firmware"].set
                        => read.ran[n]["firmware"] = read.devices[n].spec["firmware"]
          <6>1. /\ Honest(read.devices[n], read.ran[n])
                /\ deviceSpecReflectsTemplate(read.devices[n], t, kind)
                /\ classifyDevice(read.devices[n], kind) = StateSuccess
            BY <4>3, <5>2
          <6>2. /\ read.ran[n][kind] = read.devices[n].spec[kind]
                /\ kind = "configuration" /\ read.devices[n].spec["firmware"] # <<>>
                     /\ read.devices[n].conds["firmware"].set
                   => read.ran[n]["firmware"] = read.devices[n].spec["firmware"]
            BY <6>1, ClassificationIsEarned
          <6>3. Carries(read.devices[n].spec[kind], t)
            BY <6>1 DEF deviceSpecReflectsTemplate, deviceTargetedByTemplate, Carries
          <6> QED
            BY <6>2, <6>3
        <5>4. /\ selected # {}
              /\ \A n \in selected :
                   /\ Carries(read.ran[n][kind], t)
                   /\ kind = "configuration" /\ read.devices[n].spec["firmware"] # <<>>
                        /\ read.devices[n].conds["firmware"].set
                      => read.ran[n]["firmware"] = read.devices[n].spec["firmware"]
          BY <5>2, <5>3
        <5> QED
          BY <3>1, <4>2, <5>4 DEF DevicesConfigured, Carries, selected
      <4> QED
        BY <4>1, <4>2, <4>4 DEF TemplateRead, DevicesConfigured
    <3>8. ~GetNodeState
      BY <3>2 DEF GetNodeState, Course
    <3> QED
      BY <2>2, <3>4, <3>5, <3>6, <3>7, <3>8 DEF Validator
  <2> QED
    BY <2>1, <2>2 DEF Next
<1>3. TemplateInv => DevicesConfigured
  BY DEF TemplateInv, DevicesConfigured
<1> QED
  BY <1>1, <1>2, <1>3, CourseInvariant, ConditionsHonest, PTL DEF Spec
=============================================================================

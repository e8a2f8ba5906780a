-------------------------------- MODULE CrState --------------------------------
(* The validators of package crstate at work.  A validator is called again    *)
(* and again by the deployment's wait or by the validate command; each call   *)
(* makes several reads (the object, the devices, the nodes, one node state    *)
(* per node) and the operators go on between them: a template is edited, its  *)
(* device list and the devices' sections are written at different times, a    *)
(* device daemon reports on the generation it started from, nodes change      *)
(* their labels, node states report success before their functions exist.     *)
EXTENDS Classify

CONSTANTS
    Kind,         \* the kinds of object under validation
    Templates,    \* what a template can be when it is applied: nothing is matched
    DeviceOf,     \* [name -> identity] of the NIC devices
    Nodes,
    LabelSets,    \* the labels a node can have
    Labellings,   \* [kind -> the labels the nodes may start with]
    Policies,     \* SriovNetworkNodePolicy specs
    Interfaces,   \* the functions a node can have
    Specs,        \* NicClusterPolicy specs, as sets of fields
    Reports,      \* the components' states it can report, as sequences
    MaxEdits      \* bound on edits, relabellings, removals and spec writes

Names == DOMAIN DeviceOf
PolicyRecord ==
    [nodeSelector : SUBSET STRING, pfNames : SUBSET STRING, rootDevices : SUBSET STRING,
     vendor : STRING, device : STRING, numVfs : Nat]

ASSUME TemplatesAssumption ==
    \A t \in Templates :
        /\ t = [nodeSelector |-> t.nodeSelector, type |-> t.type, pcis |-> t.pcis,
                serials |-> t.serials, parts |-> t.parts, payload |-> t.payload,
                matched |-> {}]
        /\ t.payload = [reset |-> t.payload.reset, body |-> t.payload.body]
ASSUME PoliciesAssumption == Policies \subseteq PolicyRecord

VARIABLES
    kind,
    template,    \* the live template
    devices,     \* the NicDevice objects that exist
    job,         \* [device -> [kind -> <<payload>> being applied]]
    running,     \* [device -> [kind -> <<payload>> the hardware runs]]
    labels,      \* [node -> its labels]
    policy,      \* the SR-IOV policy
    nodeStates,  \* [node -> [sync, ifaces]]
    live,        \* a status kind's object: [spec, state, reason, applied]
    edits,       \* bound
    pc,          \* where the validator is
    read,        \* what its call has read
    result       \* what the call returned

operatorVars == <<template, devices, job, running>>
policyVars   == <<policy, nodeStates>>
vars == <<kind, operatorVars, labels, policyVars, live, edits, pc, read, result>>

NoCond == [set |-> FALSE, gen |-> 0, reason |-> "", status |-> ""]
Unread == [template |-> <<>>, devices |-> <<>>, nodes |-> {}, policy |-> <<>>, states |-> <<>>,
           found |-> <<>>, ran |-> <<>>, live |-> <<>>, desired |-> {}]

NewDevice(n) ==
    [node |-> DeviceOf[n].node, type |-> DeviceOf[n].type, pcis |-> DeviceOf[n].pcis,
     serial |-> DeviceOf[n].serial, part |-> DeviceOf[n].part, gen |-> 1,
     spec  |-> [k \in TemplateKinds |-> <<>>], conds |-> [k \in TemplateKinds |-> NoCond]]

NewState == [sync |-> "", ifaces |-> {}]

TemplateKind == kind \in TemplateKinds

Init ==
    /\ kind \in Kind
    /\ template \in IF TemplateKind THEN Templates ELSE {CHOOSE t \in Templates : TRUE}
    /\ devices = [n \in {} |-> NewDevice(n)]
    /\ job = [n \in Names |-> [k \in TemplateKinds |-> <<>>]]
    /\ running = job
    /\ labels \in Labellings[kind]
    /\ policy \in IF kind = "sriov" THEN Policies ELSE {CHOOSE p \in Policies : TRUE}
    /\ nodeStates = [n \in {} |-> NewState]
    /\ live \in IF kind \in StatusKinds
                  THEN [spec : Specs, state : {""}, reason : {""}, applied : {<<>>}]
                  ELSE {<<>>}
    /\ edits = 0
    /\ pc = "idle" /\ read = Unread /\ result = Result(StateNotDeployed)

-----------------------------------------------------------------------------
(* The operators.  External: modelled from what the validators rely on.       *)

Env == UNCHANGED <<kind, pc, read, result>>

EditTemplate ==
    /\ TemplateKind /\ edits < MaxEdits
    /\ \E t \in Templates : /\ template' = [t EXCEPT !.matched = template.matched]
                            /\ template' # template
    /\ edits' = edits + 1
    /\ Env /\ UNCHANGED <<devices, job, running, labels, policyVars, live>>

Relabel ==
    /\ kind \in TemplateKinds \cup {"sriov"} /\ edits < MaxEdits
    /\ \E n \in Nodes, ls \in LabelSets : labels' = [labels EXCEPT ![n] = ls] /\ labels[n] # ls
    /\ edits' = edits + 1
    /\ Env /\ UNCHANGED <<operatorVars, policyVars, live>>

\* The daemon of a node publishes a device, or a device is gone.
DeviceComes(n) ==
    /\ TemplateKind /\ n \notin DOMAIN devices
    /\ devices' = [m \in DOMAIN devices \cup {n} |->
                     IF m = n THEN NewDevice(n) ELSE devices[m]]
    /\ Env /\ UNCHANGED <<template, job, running, labels, policyVars, live, edits>>

DeviceGoes(n) ==
    /\ TemplateKind /\ n \in DOMAIN devices /\ edits < MaxEdits
    /\ devices' = [m \in DOMAIN devices \ {n} |-> devices[m]]
    /\ job' = [job EXCEPT ![n] = [k \in TemplateKinds |-> <<>>]]
    /\ edits' = edits + 1
    /\ Env /\ UNCHANGED <<template, running, labels, policyVars, live>>

Selected ==
    devicesMatchingCurrentSelectors(template, devices,
        listNodesMatchingSelector(labels, template.nodeSelector))

\* The template controller reports the devices it selects...
ReportMatched ==
    /\ TemplateKind /\ template.matched # Selected
    /\ template' = [template EXCEPT !.matched = Selected]
    /\ Env /\ UNCHANGED <<devices, job, running, labels, policyVars, live, edits>>

\* ... and writes its section into each of them, which is a new generation.
WriteSpec(n) ==
    /\ TemplateKind /\ n \in Selected /\ devices[n].spec[kind] # <<template.payload>>
    /\ devices' = [devices EXCEPT ![n].spec[kind] = <<template.payload>>,
                                  ![n].gen = @ + 1]
    /\ Env /\ UNCHANGED <<template, job, running, labels, policyVars, live, edits>>

\* A firmware template writes the firmware section of a configured device.
WriteFirmware(n) ==
    /\ kind = "configuration" /\ n \in DOMAIN devices /\ edits < MaxEdits
    /\ \E t \in Templates :
         /\ devices[n].spec["firmware"] # <<t.payload>>
         /\ devices' = [devices EXCEPT ![n].spec["firmware"] = <<t.payload>>, ![n].gen = @ + 1]
    /\ edits' = edits + 1
    /\ Env /\ UNCHANGED <<template, job, running, labels, policyVars, live>>

\* The device daemon takes up a section, and says so with the generation it saw.
StartUpdate(n, k) ==
    /\ TemplateKind /\ n \in DOMAIN devices
    /\ job[n][k] = <<>> /\ devices[n].spec[k] # <<>>
    /\ devices[n].conds[k].gen < devices[n].gen
    /\ job' = [job EXCEPT ![n][k] = devices[n].spec[k]]
    /\ devices' = [devices EXCEPT ![n].conds[k] =
                     [set |-> TRUE, gen |-> devices[n].gen, reason |-> "Started", status |-> "True"]]
    /\ Env /\ UNCHANGED <<template, running, labels, policyVars, live, edits>>

Finished(k) ==
    IF k = "interfaceName" THEN [reason |-> "InterfaceNameApplied", status |-> "True"]
    ELSE IF k = "configuration" THEN [reason |-> "UpdateSuccessful", status |-> "False"]
    ELSE [reason |-> "DeviceFwMatch", status |-> "False"]
Broken(k) ==
    IF k = "interfaceName" THEN [reason |-> "InterfaceNameMismatch", status |-> "False"]
    ELSE IF k = "configuration" THEN [reason |-> "RuntimeConfigUpdateFailed", status |-> "False"]
    ELSE [reason |-> "FirmwareUpdateFailed", status |-> "False"]

EndUpdate(n, k) ==
    /\ n \in DOMAIN devices /\ job[n][k] # <<>>
    /\ job' = [job EXCEPT ![n][k] = <<>>]
    /\ \E ok \in BOOLEAN :
         LET end == IF ok THEN Finished(k) ELSE Broken(k)
         IN /\ devices' = [devices EXCEPT ![n].conds[k] =
                 [set |-> TRUE, gen |-> @.gen, reason |-> end.reason, status |-> end.status]]
            /\ running' = IF ok THEN [running EXCEPT ![n][k] = job[n][k]] ELSE running
    /\ Env /\ UNCHANGED <<template, labels, policyVars, live, edits>>

\* The SR-IOV operator: a node state appears, reports a synchronisation, names
\* a function, and writes its virtual functions, in no particular order.
SriovStep(n) ==
    /\ kind = "sriov"
    /\ IF n \notin DOMAIN nodeStates
         THEN nodeStates' = [m \in DOMAIN nodeStates \cup {n} |->
                               IF m = n THEN NewState ELSE nodeStates[m]]
         ELSE LET s == nodeStates[n]
              IN \/ \E x \in {"InProgress", "Succeeded", "Failed"} :
                      /\ s.sync # x
                      /\ nodeStates' = [nodeStates EXCEPT ![n].sync = x]
                 \/ \E i \in Interfaces :
                      /\ \A j \in s.ifaces : j.pci # i.pci
                      /\ nodeStates' = [nodeStates EXCEPT ![n].ifaces = @ \cup {i}]
                 \/ \E i \in s.ifaces :
                      /\ i.vfs # policy.numVfs
                      /\ nodeStates' = [nodeStates EXCEPT ![n].ifaces =
                           (@ \ {i}) \cup {[i EXCEPT !.vfs = policy.numVfs]}]
    /\ Env /\ UNCHANGED <<operatorVars, labels, policy, live, edits>>

\* A node restarts: its virtual functions are gone, a function is, or the state.
SriovReset(n) ==
    /\ kind = "sriov" /\ n \in DOMAIN nodeStates /\ edits < MaxEdits
    /\ \/ \E i \in nodeStates[n].ifaces :
            \/ nodeStates' = [nodeStates EXCEPT ![n].ifaces = @ \ {i}]
            \/ nodeStates' = [nodeStates EXCEPT ![n].ifaces = (@ \ {i}) \cup {[i EXCEPT !.vfs = 0]}]
       \/ nodeStates' = [m \in DOMAIN nodeStates \ {n} |-> nodeStates[m]]
    /\ edits' = edits + 1
    /\ Env /\ UNCHANGED <<operatorVars, labels, policy, live>>

EditPolicy ==
    /\ kind = "sriov" /\ edits < MaxEdits
    /\ \E p \in Policies : policy' = p /\ policy # p
    /\ edits' = edits + 1
    /\ Env /\ UNCHANGED <<operatorVars, labels, nodeStates, live>>

\* The Network Operator and the Spectrum-X operator: an applied spec arrives, and
\* later one status update writes the components' states with the aggregate.
\* The validators of these kinds read once, so nothing moves during a call.
PolicyStep ==
    /\ kind \in StatusKinds /\ pc = "idle"
    /\ \/ \E s \in Specs :
            /\ live.spec # s /\ edits < MaxEdits
            /\ live' = [live EXCEPT !.spec = s] /\ edits' = edits + 1
       \/ \E s \in IF kind = "railpool" THEN {"Succeeded", "Failed", "InProgress"}
                   ELSE {"ready", "notReady", "error"},
             r \in {"", "conflict"}, applied \in Reports :
            /\ live' = [live EXCEPT !.state = s, !.reason = r, !.applied = applied]
            /\ UNCHANGED edits
    /\ Env /\ UNCHANGED <<operatorVars, labels, policyVars>>

-----------------------------------------------------------------------------
(* One call of the validator.                                                 *)

Calling == UNCHANGED <<kind, operatorVars, labels, policyVars, live, edits>>

Return(r) == pc' = "done" /\ result' = r /\ read' = Unread

\* A read that fails for another reason than NotFound ends the call.
ReadFails ==
    /\ pc \notin {"done"}
    /\ Return(Failure) /\ Calling

\* The object itself.  It may not be there; a kind without a validator is done
\* when it is, and a status kind is judged by what it says.
GetObject ==
    /\ pc = "idle"
    /\ \/ Return(Result(StateNotDeployed))
       \/ /\ kind = "existence" /\ Return(Result(StateSuccess))
       \/ /\ kind \in StatusKinds
          /\ \E desired \in Specs :
               /\ read' = [Unread EXCEPT !.live = live, !.desired = desired]
               /\ result' = StatusResult(kind, live, desired)
          /\ pc' = "done"
       \/ /\ kind = "sriov"
          /\ pc' = "nodes" /\ read' = [Unread EXCEPT !.policy = policy] /\ UNCHANGED result
       \/ /\ TemplateKind
          /\ read' = [Unread EXCEPT !.template = template]
          /\ IF templateUsesMatchedDeviceStatus(kind) /\ template.matched = {}
               THEN pc' = "done" /\ result' = Result(StateInProgress)
               ELSE pc' = "devices" /\ UNCHANGED result
    /\ Calling

ListDevices ==
    /\ pc = "devices"
    /\ read' = [read EXCEPT !.devices = devices, !.ran = running]
    /\ pc' = "nodes" /\ UNCHANGED result /\ Calling

\* The nodes of the selector; a template is then judged.
ListNodes ==
    /\ pc = "nodes"
    /\ LET sel   == IF kind = "sriov" THEN read.policy.nodeSelector ELSE read.template.nodeSelector
           nodes == listNodesMatchingSelector(labels, sel)
       IN /\ read' = [read EXCEPT !.nodes = nodes]
          /\ IF kind # "sriov"
               THEN /\ pc' = "done"
                    /\ result' = nicTemplateResult(kind, read.template, read.devices, nodes)
             ELSE IF nodes = {} THEN pc' = "done" /\ result' = Result(StateError)
             ELSE pc' = "states" /\ UNCHANGED result
    /\ Calling

\* The node states, in the order of the node names; a missing one is pending.
GetNodeState ==
    /\ pc = "states"
    /\ \E n \in read.nodes \ DOMAIN read.states :
         LET there == n \in DOMAIN nodeStates
             v == IF there THEN NodeStateVerdict(read.policy, nodeStates[n]) ELSE StateInProgress
             states == [m \in DOMAIN read.states \cup {n} |->
                          IF m = n THEN v ELSE read.states[m]]
             found == [m \in DOMAIN read.states \cup {n} |->
                          IF m # n THEN read.found[m]
                          ELSE IF there THEN nodeStates[n].ifaces ELSE {}]
         IN /\ read' = [read EXCEPT !.states = states, !.found = found]
            /\ IF DOMAIN states = read.nodes
                 THEN /\ pc' = "done"
                      /\ result' = Result(Aggregate({states[m] : m \in read.nodes}))
                 ELSE UNCHANGED <<pc, result>>
    /\ Calling

\* The caller polls again.
Poll ==
    /\ pc = "done" /\ pc' = "idle" /\ read' = Unread
    /\ result' = Result(StateNotDeployed) /\ Calling

Validator == GetObject \/ ListDevices \/ ListNodes \/ GetNodeState \/ Poll

Operators ==
    \/ ReportMatched \/ PolicyStep
    \/ \E n \in Names : DeviceComes(n) \/ WriteSpec(n)
    \/ \E n \in Names, k \in TemplateKinds : StartUpdate(n, k) \/ EndUpdate(n, k)
    \/ \E n \in Nodes : SriovStep(n)

Changes ==
    \/ EditTemplate \/ EditPolicy \/ Relabel
    \/ \E n \in Names : DeviceGoes(n) \/ WriteFirmware(n)
    \/ \E n \in Nodes : SriovReset(n)

Next == Validator \/ ReadFails \/ Operators \/ Changes

Spec == Init /\ [][Next]_vars

-----------------------------------------------------------------------------
(* Properties.                                                                *)

Succeeded == pc = "done" /\ result.state = StateSuccess

\* What a device runs is what the template asks for; a firmware template knows
\* no reset.
Carries(section, t) ==
    /\ section # <<>> /\ section[1].body = t.payload.body
    /\ kind = "configuration" => section[1].reset = t.payload.reset

\* A configuration or firmware template that nicTemplateValidator calls
\* reconciled really runs: each device that the template, as it was read,
\* selects was found, and its hardware ran the template's payload when the
\* devices were listed, although the device list, the section of each device
\* and the condition about it are written at different times and may all be
\* left over from an earlier template.  A configured device that has a firmware
\* section and a firmware condition ran that firmware too.
DevicesConfigured ==
    Succeeded /\ templateUsesMatchedDeviceStatus(kind) =>
        LET t == read.template
            selected == devicesMatchingCurrentSelectors(t, read.devices, read.nodes)
        IN /\ selected # {}
           /\ \A n \in selected :
                /\ Carries(read.ran[n][kind], t)
                /\ kind = "configuration" /\ read.devices[n].spec["firmware"] # <<>>
                     /\ read.devices[n].conds["firmware"].set
                   => read.ran[n]["firmware"] = read.devices[n].spec["firmware"]

InPlace(p, ifaces) ==
    LET here == {i \in ifaces : p.numVfs \in {0, i.vfs}}
    IN IF p.pfNames # {} THEN p.pfNames \subseteq {i.name : i \in here}
       ELSE IF p.rootDevices # {} THEN p.rootDevices \subseteq {i.pci : i \in here}
       ELSE \E i \in here : p.vendor \in {"", i.vendor} /\ p.device \in {"", i.device}

\* A node policy that sriovNetworkNodePolicyValidator calls ready had its
\* virtual functions: on every node that its selector, as it was read, matched
\* when the nodes were listed, each function it asks for existed with the number
\* of virtual functions it asks for (any, if it asks for none) when the state of
\* that node was read, although the policy may be edited and functions may vanish
\* between the reads, and the SR-IOV operator reports Succeeded for a policy that
\* met no function and before the functions are written.
VfsInPlace ==
    Succeeded /\ kind = "sriov" =>
        /\ read.nodes # {}
        /\ \A n \in read.nodes : n \in DOMAIN read.found /\ InPlace(read.policy, read.found[n])

\* The OpenShift relaxation of openShiftPolicyResult hides nothing of ours: a
\* policy called ready while its aggregate is not has a platform component to
\* blame, and every component that the manifest or the live object configures
\* has reported ready, also one that was configured after the states were last
\* reported.
ManagedReady ==
    Succeeded /\ kind = "openshift" /\ read.live.state \notin {"ready", "ignore"} =>
        LET states == {read.live.applied[i] : i \in DOMAIN read.live.applied}
            ours   == {ncpComponentStates[f] : f \in (read.live.spec \cup read.desired)
                                                      \cap DOMAIN ncpComponentStates}
        IN /\ \A c \in ours : \E e \in states : e.name = c /\ e.state = "ready"
           /\ \E e \in states : e.name \in External /\ e.state \in {"notReady", "error"}
           /\ "multus" \notin read.live.spec \cup read.desired
=============================================================================

------------------------------- MODULE Classify -------------------------------
(* The classifiers of the validator registry: what each kind's validator      *)
(* makes of the objects it has read.  A device is [node, type, pcis, serial,  *)
(* part, gen, spec, conds]: spec[k] is <<>> until the operator has written    *)
(* the section of template kind k, conds[k] is [set, gen, reason, status]     *)
(* with gen 0 when the condition carries no observedGeneration.               *)
EXTENDS Naturals, Sequences

StateNotDeployed == "not-deployed"
StateError       == "error"
StateInProgress  == "in-progress"
StateSuccess     == "success"

\* err: the validator also returned a Go error, its verdict is not authoritative.
Result(s) == [state |-> s, retryable |-> FALSE, err |-> FALSE]
Failure   == [state |-> StateError, retryable |-> FALSE, err |-> TRUE]

TemplateKinds == {"interfaceName", "configuration", "firmware"}
StatusKinds   == {"policy", "openshift", "railpool"}

-----------------------------------------------------------------------------
(* NIC templates.                                                             *)

templateUsesMatchedDeviceStatus(kind) == kind \in {"configuration", "firmware"}

deviceTargetedByTemplate(d, kind) == d.spec[kind] # <<>>

\* A payload is [reset, body]; an absent template section is body <<>>.
deviceSpecReflectsTemplate(d, t, kind) ==
    /\ deviceTargetedByTemplate(d, kind)
    /\ kind = "configuration" => d.spec[kind][1] = t.payload
    /\ kind = "firmware" => t.payload.body # <<>> /\ d.spec[kind][1].body = t.payload.body

listNodesMatchingSelector(labels, selector) ==
    {n \in DOMAIN labels : selector \subseteq labels[n]}

deviceMatchesPCIAddresses(d, pcis) == pcis = {} \/ d.pcis \cap pcis # {}

\* The names a template's selectors pick; nodes are the ones its node selector
\* matched, every node when it has none.
devicesMatchingCurrentSelectors(t, devices, nodes) ==
    {n \in DOMAIN devices :
        LET d == devices[n]
        IN /\ d.node # ""
           /\ t.nodeSelector # {} => d.node \in nodes
           /\ t.type \in {"", d.type}
           /\ deviceMatchesPCIAddresses(d, t.pcis)
           /\ t.serials # {} => d.serial \in t.serials
           /\ t.parts # {} => d.part \in t.parts}

\* Mutant: a condition of an earlier generation counts.
PendingNever(d, cond) == FALSE

conditionGenerationPending(d, cond) == d.gen > 0 /\ cond.gen < d.gen

FirmwareFailed == {"FirmwareUpdateFailed", "FirmwareSourceNotReady",
                   "FirmwareSourceFailed", "DeviceFwMismatch"}
ConfigFailed   == {"NonVolatileConfigUpdateFailed", "RuntimeConfigUpdateFailed",
                   "SpecValidationFailed", "IncorrectSpec", "FirmwareError"}

FirmwareState(reason) ==
    IF reason = "DeviceFwMatch" THEN StateSuccess
    ELSE IF reason \in FirmwareFailed THEN StateError ELSE StateInProgress

classifyFirmware(d) ==
    LET c == d.conds["firmware"]
    IN IF ~c.set \/ conditionGenerationPending(d, c) THEN StateInProgress
       ELSE FirmwareState(c.reason)

classifyInterfaceName(d) ==
    LET c == d.conds["interfaceName"]
    IN IF ~c.set THEN StateInProgress
       ELSE IF c.reason = "InterfaceNameApplied" /\ c.status = "True" THEN StateSuccess
       ELSE IF c.reason = "InterfaceNameMismatch" THEN StateError
       ELSE StateInProgress

\* A configured device also answers for its firmware when it has a firmware
\* section and the operator has published that condition.
classifyConfiguration(d) ==
    LET c == d.conds["configuration"]
        f == d.conds["firmware"]
    IN IF ~c.set \/ conditionGenerationPending(d, c) THEN StateInProgress
       ELSE IF c.reason \in ConfigFailed THEN StateError
       ELSE IF c.reason # "UpdateSuccessful" \/ c.status # "False" THEN StateInProgress
       ELSE IF ~deviceTargetedByTemplate(d, "firmware") \/ ~f.set THEN StateSuccess
       ELSE IF conditionGenerationPending(d, f) THEN StateInProgress
       ELSE IF f.reason = "DeviceFwSpecEmpty" THEN StateSuccess
       ELSE FirmwareState(f.reason)

classifyDevice(d, kind) ==
    IF kind = "interfaceName" THEN classifyInterfaceName(d)
    ELSE IF kind = "configuration" THEN classifyConfiguration(d)
    ELSE classifyFirmware(d)

\* Any error is an error, else anything unfinished is in progress.
Aggregate(states) ==
    IF StateError \in states THEN StateError
    ELSE IF states \cap {StateInProgress, StateNotDeployed} # {} THEN StateInProgress
    ELSE StateSuccess

\* Only a renamed interface may still be retried.
TemplateResult(kind, states) ==
    [Result(Aggregate(states)) EXCEPT
        !.retryable = kind = "interfaceName" /\ StateError \in states]

\* Configuration and firmware: the devices the operator lists, once that list
\* belongs to the template's present selectors.
MatchedResult(kind, t, devices, nodes) ==
    IF /\ t.matched \subseteq DOMAIN devices
       /\ t.matched # devicesMatchingCurrentSelectors(t, devices, nodes)
      THEN Result(StateInProgress)
    ELSE TemplateResult(kind,
           {IF /\ n \in DOMAIN devices
               /\ deviceSpecReflectsTemplate(devices[n], t, kind)
              THEN classifyDevice(devices[n], kind) ELSE StateInProgress : n \in t.matched})

\* Interface names: the devices of the selected nodes that carry the section.
NamedResult(t, devices, nodes) ==
    LET targeted == {n \in DOMAIN devices :
                        /\ devices[n].node \in nodes
                        /\ deviceTargetedByTemplate(devices[n], "interfaceName")}
    IN IF nodes = {} THEN Result(StateError)
       ELSE IF targeted = {} THEN Result(StateInProgress)
       ELSE TemplateResult("interfaceName",
              {classifyDevice(devices[n], "interfaceName") : n \in targeted})

nicTemplateResult(kind, t, devices, nodes) ==
    IF templateUsesMatchedDeviceStatus(kind) THEN MatchedResult(kind, t, devices, nodes)
    ELSE NamedResult(t, devices, nodes)

-----------------------------------------------------------------------------
(* SR-IOV node policies.  A policy is [nodeSelector, pfNames, rootDevices,    *)
(* vendor, device, numVfs]; a node state is [sync, ifaces], an interface      *)
(* [name, pci, vendor, device, vfs].  Identifiers are compared in one case.   *)

checkNumVfs(i, expected) == expected <= 0 \/ i.vfs = expected

\* Mutant: an expected function that is not there is not looked at.
CrossCheckPresent(p, ifaces) ==
    IF \A i \in ifaces : checkNumVfs(i, p.numVfs) THEN StateSuccess ELSE StateInProgress

\* Functions by name, else by address, else whatever vendor and device select.
crossCheckPFs(p, ifaces) ==
    LET wanted  == IF p.pfNames # {} THEN p.pfNames ELSE p.rootDevices
        Key(i)  == IF p.pfNames # {} THEN i.name ELSE i.pci
        checked == IF wanted # {} THEN {i \in ifaces : Key(i) \in wanted}
                   ELSE {i \in ifaces : p.vendor \in {"", i.vendor} /\ p.device \in {"", i.device}}
        missing == IF wanted # {} THEN wanted \ {Key(i) : i \in ifaces} # {}
                   ELSE checked = {}
    IN IF ifaces = {} THEN StateInProgress
       ELSE IF missing THEN StateError
       ELSE IF \E i \in checked : ~checkNumVfs(i, p.numVfs) THEN StateInProgress
       ELSE StateSuccess

NodeStateVerdict(p, s) ==
    IF s.sync = "Failed" THEN StateError
    ELSE IF s.sync # "Succeeded" THEN StateInProgress
    ELSE crossCheckPFs(p, s.ifaces)

-----------------------------------------------------------------------------
(* Kinds with a status of their own.                                          *)

statusStringState(state) ==
    IF state \in {"ready", "ignore"} THEN StateSuccess
    ELSE IF state = "error" THEN StateError ELSE StateInProgress

spectrumXRailPoolConfigState(sync) ==
    IF sync = "Succeeded" THEN StateSuccess
    ELSE IF sync = "Failed" THEN StateError ELSE StateInProgress

External == {"state-multus-cni", "state-container-networking-plugins"}

ncpComponentStates ==
    [ofedDriver               |-> "state-OFED",
     rdmaSharedDevicePlugin   |-> "state-RDMA-device-plugin",
     sriovDevicePlugin        |-> "state-SRIOV-device-plugin",
     ibKubernetes             |-> "state-ib-kubernetes",
     nvIpam                   |-> "state-nv-ipam-cni",
     nicFeatureDiscovery      |-> "state-nic-feature-discovery",
     docaTelemetryService     |-> "state-doca-telemetry-service",
     nicConfigurationOperator |-> "state-nic-configuration-operator",
     spectrumXOperator        |-> "state-spectrum-x-operator",
     ipoib                    |-> "state-ipoib-cni"]

\* The fields of a policy without a state of their own.
Stateless == {"global", "nodeAffinity", "tolerations",
              "deploymentNodeAffinity", "deploymentTolerations"}

\* A spec is the set of its configured fields, the components of secondaryNetwork
\* among them.  One unknown field, or a Multus/CNI section, and the policy's own
\* verdict stands.
Supported(spec) == spec \subseteq DOMAIN ncpComponentStates \cup Stateless

openShiftRequiredStates(spec) == {ncpComponentStates[f] : f \in spec \ Stateless}

\* Mutant: only what the manifest configures must be ready.
RequiredOfDesired(live, desired) == openShiftRequiredStates(desired)

RequiredOfBoth(live, desired) ==
    openShiftRequiredStates(desired) \cup openShiftRequiredStates(live)

\* The reported states by component: "" when there is none.
Reported(entries, name) ==
    IF \E e \in entries : e.name = name
      THEN (CHOOSE e \in entries : e.name = name).state ELSE ""

\* On OpenShift an aggregate that only the platform's own components spoil is
\* replaced by the verdict of the managed ones: <<>> leaves the aggregate alone.
openShiftPolicyResult(live, desired) ==
    LET applied  == live.applied
        entries  == {applied[i] : i \in DOMAIN applied}
        required == RequiredOfBoth(live.spec, desired)
        Bad(e)   == e.state \notin {"ready", "ignore"}
        external == {e \in entries : e.name \in External}
        blocked  == \/ \E e \in entries \ external : Bad(e)
                    \/ \E n \in required : Reported(entries, n) # "ready"
    IN IF \/ live.state \notin {"notReady", "error"} \/ live.reason # ""
          \/ ~Supported(desired) \/ ~Supported(live.spec) \/ required = {}
          \/ \E i, j \in DOMAIN applied : i # j /\ applied[i].name = applied[j].name
          \/ \E e \in entries : e.name = ""
          \/ \E e \in external : e.state \notin {"ready", "ignore", "notReady", "error"}
          \/ \A e \in external : ~Bad(e)
         THEN <<>>
       ELSE <<IF ~blocked THEN StateSuccess
              ELSE IF live.state = "error" THEN StateError ELSE StateInProgress>>

validateStatusString(live, desired, openShift) ==
    LET relaxed == IF openShift THEN openShiftPolicyResult(live, desired) ELSE <<>>
    IN Result(IF relaxed # <<>> THEN relaxed[1] ELSE statusStringState(live.state))

StatusResult(kind, live, desired) ==
    IF kind = "railpool" THEN Result(spectrumXRailPoolConfigState(live.state))
    ELSE validateStatusString(live, desired, kind = "openshift")

=============================================================================

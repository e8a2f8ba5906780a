-------------------------------- MODULE Verdict --------------------------------
(* The pure half of the validate command: which inputs it refuses, how each   *)
(* object of the bundle is classified, what the checks say together, and the  *)
(* JUnit document.  A check is [skipped, ok]; a manifest result is            *)
(* [skipped, state]; a matrix result row is [check, exp, skip, ok].           *)
EXTENDS Presets

Success  == "success"
Progress == "in-progress"
Missing  == "not-deployed"
Error    == "error"

Skipped    == [skipped |-> TRUE,  ok |-> FALSE]
Checked(b) == [skipped |-> FALSE, ok |-> b]
NotMade    == [skipped |-> TRUE,  ok |-> TRUE]  \* distinct from Skipped

-----------------------------------------------------------------------------
(* Inputs.                                                                    *)

\* The first location that has a config: an explicit path, the effective one
\* of the bundle, one beside it, the default in the working directory.
userConfigPathBeforeDefaults(explicit, existing) ==
    IF explicit # "" THEN explicit
    ELSE LET order == <<"effective", "parent-effective", "parent", "beside", "cwd">>
             found == SelectSeq(order, LAMBDA p : p \in existing)
         IN IF found = <<>> THEN "" ELSE found[1]

ResolveDeploymentDir(dirs) ==
    IF "sub" \in dirs THEN "sub" ELSE IF "dir" \in dirs THEN "dir" ELSE ""

\* Connectivity is on unless it is switched off.
validationConnectivityEnabled(v) == v.connectivity # "false"

connectivityChecksFromConfig(v) ==
    SelectSeq(v.checks, LAMBDA c : c \in {"gateway", "icmp", "rping", "ib_write_bw"})
      \o (IF v.gpuDirect = "true" /\ "ib_write_bw" \in ToSet(v.checks)
            THEN <<"gpudirect">> ELSE <<>>)

\* A group is [workers, pfs]; pfs are [ew, rail, gpu] with rail -1 when unset.
validateGPUDirectTopology(groups) ==
    /\ groups # <<>>
    /\ \A i \in DOMAIN groups :
         LET g == groups[i]
         IN /\ g.workers # <<>>
            /\ \A a \in DOMAIN g.workers :
                 /\ g.workers[a] # ""
                 /\ \A j \in DOMAIN groups : \A b \in DOMAIN groups[j].workers :
                      <<i, a>> # <<j, b>> => groups[j].workers[b] # g.workers[a]
            /\ \E k \in DOMAIN g.pfs : g.pfs[k].ew
            /\ \A k \in DOMAIN g.pfs : g.pfs[k].ew => g.pfs[k].rail >= 0 /\ g.pfs[k].gpu

\* The user's own decisions: a routing mode and, unless the configuration is the
\* resolved one, an explicit GPUDirect setting; then the topology it needs.
validateRequiredConnectivityConfig(path, cfg, checks) ==
    /\ path # ""
    /\ cfg.routing \in {"source", "destination"}
    /\ path \notin {"effective", "parent-effective"} => cfg.v.gpuDirect # ""
    /\ cfg.v.gpuDirect = "true" /\ "gpudirect" \in ToSet(checks)
         => validateGPUDirectTopology(cfg.topology)

\* A container is [name, doca, netshoot].  The first container is the RDMA one
\* unless a later one is better; netshoot by name beats netshoot by image.
testContainerNames(containers) ==
    FoldLeft(LAMBDA out, c :
               [rdma |-> IF out.rdma = "" \/ c.name = "test-container" \/ c.doca
                           THEN c.name ELSE out.rdma,
                icmp |-> IF c.name = "netshoot" \/ (out.icmp = "" /\ c.netshoot)
                           THEN c.name ELSE out.icmp],
             [rdma |-> "", icmp |-> ""], containers)

\* A document is [role, kind, id, ...].  Test DaemonSets of the example files.
ExampleDaemonSets(docs) ==
    SelectSeq(docs, LAMBDA d : d.role = "validation" /\ d.kind = "DaemonSet")

validateConnectivityDaemonSets(dss, checks) ==
    /\ dss # <<>>
    /\ \A i \in DOMAIN dss :
         LET c == testContainerNames(dss[i].containers)
         IN /\ dss[i].appsV1 /\ dss[i].namespace # ""
            /\ \A j \in DOMAIN dss : i # j => <<dss[j].namespace, dss[j].id>>
                                               # <<dss[i].namespace, dss[i].id>>
            /\ checks # <<>> => c.icmp # ""
            /\ ToSet(checks) \cap {"rping", "ib_write_bw", "gpudirect"} # {} => c.rdma # ""

hasDeploymentValidationInputsBundle(docs) ==
    \E i \in DOMAIN docs : docs[i].role # "validation"

-----------------------------------------------------------------------------
(* The checks.                                                                *)

\* A release secret is [helm, ours, name, rev, app]: ours says that its name
\* mentions the operator, app "corrupt" cannot be decoded.  The default release
\* at its highest revision, else the only other one.
findNetworkOperatorHelmRelease(secrets) ==
    LET ours   == {s \in secrets : s.helm /\ s.ours}
        names  == {s.name : s \in ours}
        Top(n) == CHOOSE s \in ours : s.name = n /\ \A t \in ours : t.name = n => t.rev <= s.rev
        pick   == IF "network-operator" \in names THEN Top("network-operator")
                  ELSE Top(CHOOSE n \in names : TRUE)
    IN IF names = {} \/ ("network-operator" \notin names /\ Cardinality(names) > 1)
         THEN None
       ELSE IF pick.app = "corrupt" THEN None ELSE pick.app

CheckHelmReleaseVersion(release, listed, secrets, expected) ==
    LET app == findNetworkOperatorHelmRelease(secrets)
    IN IF ~release \/ ~listed \/ app = None THEN Skipped ELSE Checked(app = expected)

\* A section of a policy is [kind, version]; "" is a section that is not there.
compareVersion(section, component, doca) ==
    section.version = (IF section.kind = "doca" THEN doca ELSE component)

\* ncps and nnps are sequences of section sequences; a list of cluster policies
\* that fails is like an empty one, one of node policies adds no rows.
CheckComponentVersions(release, ncps, nnps, component, doca) ==
    LET policies == ToSet(ncps) \union ToSet(nnps)
        rows == {s \in UNION {ToSet(p) : p \in policies} : s.version # ""}
    IN IF ~release \/ ncps = <<>> THEN Skipped
       ELSE Checked(rows # {} /\ \A s \in rows : compareVersion(s, component, doca))

\* No generated values, no release and a failed read are skips.
checkHelmReleaseValues(generated, deployed) ==
    IF generated = "" \/ deployed \in {None, "unreadable"} THEN Skipped
    ELSE Checked(deployed = generated)

\* The attachment the SR-IOV operator derives from a network.
validateOCPNetworkAttachment(nad) ==
    IF nad = "absent" THEN Progress ELSE IF nad = "ok" THEN Success ELSE Error

\* A result of the manifest check.
Found(s) == [skipped |-> FALSE, state |-> s]

\* The findings of the secondary-network check of a NicClusterPolicy.
secondaryNetworkValidation(owner) ==
    IF owner = "managed" THEN {}
    ELSE IF owner = "unverified" THEN {[skipped |-> TRUE, state |-> ""]}
    ELSE {Found(IF owner \in {"unreadable", "failed"} THEN Error
                ELSE IF owner = "progressing" THEN Progress ELSE Success)}

\* live[id] is [owner, get, merge, scope, state, nad].
ClassifyDocument(d, live, ocp) ==
    LET l == live[d.id]
    IN IF d.kind = "OperatorConfig"
         THEN Found(IF l.get # "ok" THEN Missing ELSE IF l.merge = "same" THEN Success ELSE Error)
       ELSE IF l.scope = "bad" THEN Found(Error)
       ELSE Found(IF ocp /\ l.state = Success /\ d.kind = "SriovNetwork"
                    THEN validateOCPNetworkAttachment(l.nad) ELSE l.state)

\* The results of the deployment documents, the ownership findings of the
\* policies among them; nothing depends on their order.
ValidateBundleWithConfig(docs, live, ocp) ==
    LET deployed == {d \in ToSet(docs) : d.role = "deployment"}
    IN {ClassifyDocument(d, live, ocp) : d \in deployed}
       \union UNION {secondaryNetworkValidation(live[d.id].owner) :
                        d \in {x \in deployed : x.kind = "NicClusterPolicy"}}

-----------------------------------------------------------------------------
(* The verdict.                                                               *)

aggregateVerdict(version, results) ==
    LET Has(s) == \E r \in results : ~r.skipped /\ r.state = s
    IN [versionOK |-> version.skipped \/ version.ok, error |-> Has(Error),
        missing |-> Has(Missing), progress |-> Has(Progress)]

Mismatch(check) == ~check.skipped /\ ~check.ok

\* A matrix result is <<>> or <<[skipped, rows]>>.
MatrixRows(m)   == IF m = <<>> THEN {} ELSE m[1].rows
MatrixFailed(m) == \E r \in MatrixRows(m) : ~r.skip /\ ~r.ok

\* Every selected family has a row that could have failed the run.
connectivityCoverageVerdict(m, checks) ==
    /\ m # <<>> /\ ~m[1].skipped /\ MatrixRows(m) # {}
    /\ \A c \in ToSet(checks) : \E r \in MatrixRows(m) : r.check = c /\ r.exp # "observe"

connectivityOnlyVerdict(m, checks) ==
    connectivityCoverageVerdict(m, checks) /\ ~MatrixFailed(m)

computeOverallVerdict(v, component, values, stray, m, presets, checks, coverage) ==
    /\ v.versionOK /\ ~v.missing /\ ~v.error
    /\ ~Mismatch(component) /\ ~Mismatch(values) /\ ~Mismatch(stray)
    /\ IF coverage THEN connectivityOnlyVerdict(m, checks) ELSE ~MatrixFailed(m)
    /\ ~hasPresetDeviation(presets)

-----------------------------------------------------------------------------
(* JUnit.  A case is "pass", "fail", "error" or "skip".                       *)

junitStatus(passed, skipped) ==
    IF skipped THEN "skip" ELSE IF passed THEN "pass" ELSE "fail"

JUnitFamilies == {"gateway", "icmp", "rping", "ib_write_bw", "gpudirect"}

\* The set of case outcomes of the static suite, before the run's own outcome.
\* A check that was never made has no case.
StaticCases(d) ==
    LET Of(check) == IF check = NotMade THEN {} ELSE {junitStatus(check.ok, check.skipped)}
    IN Of(d.version) \union Of(d.component) \union Of(d.values) \union Of(d.stray)
       \union {junitStatus(r.state = Success, r.skipped \/ r.state = Progress) :
                 r \in d.results}
       \union {junitStatus(d.presets[i].status = "match",
                           d.presets[i].status \in {"skipped", "not-found"}) :
                 i \in DOMAIN d.presets}
       \union (IF d.coverage
                 THEN {junitStatus(connectivityCoverageVerdict(d.matrix, d.checks), FALSE)}
                 ELSE {})

\* One suite per family; a family without rows has one skipped case.
FamilyCases(m, family) ==
    LET rows == {r \in MatrixRows(m) : r.check = family}
    IN IF rows = {} THEN {"skip"} ELSE {junitStatus(r.ok, r.skip) : r \in rows}

\* Mutant: the run's own outcome has no case.
buildJUnitWithoutOutcome(d, runError) ==
    StaticCases(d)
      \union (IF d.configured /\ d.fabric THEN UNION {FamilyCases(d.matrix, f) : f \in JUnitFamilies}
              ELSE IF d.configured /\ ~d.enabled THEN {"skip"} ELSE {})

\* An exit status without a failed case gets one of its own; any other error is
\* an errored case.
buildJUnit(d, runError) ==
    LET cases == StaticCases(d)
          \union (IF d.configured /\ d.fabric
                    THEN UNION {FamilyCases(d.matrix, f) : f \in JUnitFamilies}
                  ELSE IF d.configured /\ ~d.enabled THEN {"skip"} ELSE {})
    IN cases \union
       (IF runError = "none" THEN {}
        ELSE IF runError = "status"
          THEN IF cases \cap {"fail", "error"} # {} THEN {} ELSE {"fail"}
        ELSE {"error"})
=============================================================================

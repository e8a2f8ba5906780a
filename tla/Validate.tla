------------------------------- MODULE Validate -------------------------------
(* One run of the validate command (validateRunner.Run): refuse bad input,    *)
(* read the release, the policies, the values, the strays and the manifests,  *)
(* optionally wait for them, run the connectivity matrix, report, exit.       *)
(* The cluster reconciles meanwhile.                                          *)
EXTENDS Verdict

CONSTANTS
    Inputs,      \* request, files and configuration, see TypeOK
    Worlds,      \* [secrets, ncps, nnps, values, strays, live]
    Expected,    \* [component, doca, app]: the catalog's versions
    Outcomes,    \* what a family's rows may say
    MaxFaults    \* bound on reads, writes and calls that fail

ASSUME ValidateAssumption == MaxFaults \in Nat

\* A world has its six parts, and each object of it its fields; "unreadable" is
\* no values but a read that fails.
WorldRecord(w) ==
    /\ w = [secrets |-> w.secrets, ncps |-> w.ncps, nnps |-> w.nnps, values |-> w.values,
            strays |-> w.strays, live |-> w.live]
    /\ w.values # "unreadable"
    /\ w.live = [i \in DOMAIN w.live |-> w.live[i]]
    /\ \A i \in DOMAIN w.live :
         LET l == w.live[i]
         IN /\ l = [owner |-> l.owner, get |-> l.get, merge |-> l.merge, scope |-> l.scope,
                    state |-> l.state, nad |-> l.nad]
            /\ l.state \in {Success, Progress, Missing, Error}

\* Helm names a release's secret after the release and the revision.
SecretsOfHelm(secrets) ==
    \A s \in secrets : s.helm =>
        /\ s.rev \in Nat /\ s.app # None
        /\ s.name = "network-operator" => s.ours
        /\ \A t \in secrets : t.helm /\ t.name = s.name /\ t.rev = s.rev => t = s

ASSUME WorldsAssumption ==
    \A w \in Worlds :
        /\ WorldRecord(w) /\ SecretsOfHelm(w.secrets)
        /\ \A in \in Inputs : \A d \in ToSet(in.docs) :
             d.role = "deployment" => d.id \in DOMAIN w.live

VARIABLES
    inp, world,
    pc,
    data,        \* the checks made so far, as the JUnit writer sees them
    only,        \* connectivityOnly
    late,        \* the --wait deadline has passed
    expired,     \* the context is done
    seen,        \* the objects as the kept manifest results saw them
    banner, html, exit,
    junit,       \* the JUnit cases written; {} if none
    faults

vars == <<inp, world, pc, data, only, late, expired, seen, banner, html, exit, junit,
          faults>>

Fault   == /\ faults < MaxFaults
           /\ faults' = faults + 1
NoFault == UNCHANGED faults

Cfg      == inp.cfg
HasCfg   == Cfg # <<>>
C        == Cfg[1]
Ocp      == HasCfg /\ C.ocp
Loaded   == HasCfg /\ ~inp.loadErr
Release  == Loaded /\ C.release
SkipHelm == IF HasCfg THEN Ocp \/ C.skipHelm ELSE inp.skipHelm

\* The presets of the selected tree.
Catalog == inp.trees[CatalogForConfigDir(inp.root, inp.presetsDir, inp.onDisk)]

DefaultValidation == [connectivity |-> "", checks |-> <<"gateway", "icmp", "rping", "ib_write_bw">>,
                      gpuDirect |-> ""]

\* Flags win over the configuration, the configuration over the defaults.
Validation == LET v == IF HasCfg THEN C.v ELSE DefaultValidation
              IN IF inp.flag = "" THEN v ELSE [v EXCEPT !.connectivity = inp.flag]

Enabled == validationConnectivityEnabled(Validation)
Checks  == connectivityChecksFromConfig(Validation)
Fabric  == HasCfg /\ C.fabric

NoData == [version |-> NotMade, component |-> NotMade, values |-> NotMade, stray |-> NotMade,
           results |-> {}, presets |-> <<>>, matrix |-> <<>>, coverage |-> FALSE,
           checks |-> <<>>, configured |-> FALSE, fabric |-> FALSE, enabled |-> FALSE]

Init ==
    /\ inp \in Inputs /\ world \in Worlds
    /\ pc = "prepare"
    /\ data = NoData /\ only = FALSE
    /\ late = FALSE /\ expired = FALSE
    /\ seen = <<>>
    /\ banner = "none" /\ html = "none" /\ exit = "none" /\ junit = {}
    /\ faults = 0

-----------------------------------------------------------------------------
(* Leaving.                                                                   *)

\* The HTML report is best effort; by default it never creates the directory.
writeHTMLReportIfWanted(verdict) ==
    IF inp.report = "-" \/ (inp.report = "" /\ inp.dirs = {})
      THEN UNCHANGED html /\ NoFault
      ELSE \/ html' = verdict /\ NoFault
           \/ UNCHANGED html /\ Fault

\* exitWithReport: a FAIL banner whatever the checks said.
ExitWithReport ==
    /\ banner' = "FAIL" /\ exit' = "error" /\ pc' = "junit"
    /\ writeHTMLReportIfWanted("FAIL")

\* emitReport: the verdict over what is known now.
OverallNow(d) ==
    LET pass == IF only THEN connectivityOnlyVerdict(d.matrix, Checks)
                ELSE computeOverallVerdict(aggregateVerdict(d.version, d.results), d.component,
                       d.values, d.stray, d.matrix, d.presets, Checks, Ocp /\ Enabled)
    IN IF pass THEN "PASS" ELSE "FAIL"

EmitReportAndExit(d, status) ==
    /\ banner' = OverallNow(d)
    /\ exit' = status /\ pc' = "junit"
    /\ writeHTMLReportIfWanted(OverallNow(d))

-----------------------------------------------------------------------------
(* Input.                                                                     *)

\* What is refused, in order; TRUE is accepted.
Accepted ==
    LET own == userConfigPathBeforeDefaults(inp.explicit, inp.existing)
    IN <<inp.catalogOK, inp.kubeOK, ResolveDeploymentDir(inp.dirs) # "", inp.bundleOK,
         inp.reqOcp => HasCfg, inp.overridesOK,
         inp.junit /\ Enabled => Fabric,
         Enabled => ~inp.loadErr,
         Enabled => HasCfg /\ validateRequiredConnectivityConfig(own, C, Checks),
         Enabled => validateConnectivityDaemonSets(ExampleDaemonSets(inp.docs), Checks),
         inp.clientOK>>

Prepare ==
    /\ pc = "prepare"
    /\ LET bad   == {k \in DOMAIN Accepted : ~Accepted[k]}
           upTo  == IF bad = {} THEN 12 ELSE Min(bad)
           alone == upTo > 10 /\ Enabled /\ ~hasDeploymentValidationInputsBundle(inp.docs)
       IN /\ only' = alone
          /\ data' = IF upTo <= 6 THEN data
                     ELSE [data EXCEPT !.configured = TRUE, !.enabled = Enabled,
                             !.checks = Checks, !.fabric = Fabric,
                             !.coverage = (Ocp /\ Enabled) \/ alone,
                             !.presets = IF upTo > 10 /\ ~alone /\ Loaded
                                           THEN MatchAllWithCatalog(C.groups, Catalog)
                                           ELSE <<>>]
          /\ IF bad # {} THEN ExitWithReport
             ELSE /\ pc' = IF alone THEN "matrix" ELSE "version"
                  /\ UNCHANGED <<banner, html, exit>> /\ NoFault
    /\ UNCHANGED <<inp, world, late, expired, seen, junit>>

-----------------------------------------------------------------------------
(* Reads.                                                                     *)

Running == <<inp, world, only, late, expired, banner, html, exit, junit>>

\* A read that fails is a skipped check.
CheckVersion ==
    /\ pc = "version"
    /\ \E failed \in BOOLEAN :
         /\ IF failed THEN ~SkipHelm /\ Fault ELSE NoFault
         /\ data' = [data EXCEPT !.version =
              IF SkipHelm THEN Skipped
              ELSE CheckHelmReleaseVersion(Release, ~failed, world.secrets, Expected.app)]
    /\ pc' = "component"
    /\ UNCHANGED <<seen, Running>>

CheckComponents ==
    /\ pc = "component"
    /\ \E lost \in {{}, {"ncp"}, {"nnp"}} :
         /\ IF lost = {} THEN NoFault ELSE Fault
         /\ data' = [data EXCEPT !.component =
              CheckComponentVersions(Release,
                IF "ncp" \in lost THEN <<>> ELSE world.ncps,
                IF "nnp" \in lost THEN <<>> ELSE world.nnps,
                Expected.component, Expected.doca)]
    /\ pc' = "values"
    /\ UNCHANGED <<seen, Running>>

CheckValues ==
    /\ pc = "values"
    /\ \E failed \in BOOLEAN :
         /\ IF failed THEN ~SkipHelm /\ Fault ELSE NoFault
         /\ data' = [data EXCEPT !.values =
              IF SkipHelm THEN Skipped
              ELSE checkHelmReleaseValues(inp.values,
                                          IF failed THEN "unreadable" ELSE world.values)]
    /\ pc' = "strays"
    /\ UNCHANGED <<seen, Running>>

\* A kind that cannot be listed shows no strays.
CheckStrays ==
    /\ pc = "strays"
    /\ \E failed \in BOOLEAN :
         /\ IF failed THEN Fault ELSE NoFault
         /\ data' = [data EXCEPT !.stray = Checked(failed \/ ~world.strays)]
    /\ pc' = "manifests"
    /\ UNCHANGED <<seen, Running>>

\* One pass over the bundle.  Only a policy read under a finished context is an
\* error; any other failed read is the state of its object.
PassFails ==
    /\ expired
    /\ \E d \in ToSet(inp.docs) : d.role = "deployment" /\ d.kind = "NicClusterPolicy"

Unreadable ==
    [i \in DOMAIN world.live |-> [world.live[i] EXCEPT !.state = Error, !.get = "failed"]]

ReadManifests ==
    /\ \/ ~expired /\ seen' = world.live /\ NoFault
       \/ seen' = Unreadable /\ IF expired THEN NoFault ELSE Fault
    /\ data' = [data EXCEPT !.results = ValidateBundleWithConfig(inp.docs, seen', Ocp)]

ValidateManifests ==
    /\ pc = "manifests"
    /\ IF PassFails THEN ExitWithReport /\ UNCHANGED <<data, seen>>
       ELSE /\ ReadManifests
            /\ pc' = IF inp.wait THEN "wait" ELSE "gate"
            /\ UNCHANGED <<banner, html, exit>>
    /\ UNCHANGED <<inp, world, only, late, expired, junit>>

InProgress(results) == \E r \in results : r.state = Progress

\* Mutant: only the cluster ends the wait.
WaitForReconcileForever ==
    /\ pc = "wait"
    /\ pc' = IF ~InProgress(data.results) THEN "gate" ELSE "poll"
    /\ NoFault
    /\ UNCHANGED <<data, seen, Running>>

\* The wait ends when nothing is in progress, at the deadline, or with the
\* context.
WaitForReconcile ==
    /\ pc = "wait"
    /\ pc' = IF ~InProgress(data.results) \/ late \/ expired THEN "gate" ELSE "poll"
    /\ NoFault
    /\ UNCHANGED <<data, seen, Running>>

\* A pass that fails keeps the previous results.
Poll ==
    /\ pc = "poll"
    /\ IF PassFails THEN NoFault /\ UNCHANGED <<data, seen>> ELSE ReadManifests
    /\ pc' = "wait"
    /\ UNCHANGED Running

-----------------------------------------------------------------------------
(* Gates.                                                                     *)

Verdict == aggregateVerdict(data.version, data.results)

\* Broken manifests fail the run; unfinished ones end it without a matrix.
Gate ==
    /\ pc = "gate"
    /\ IF Verdict.error \/ Verdict.missing THEN EmitReportAndExit(data, "status")
       ELSE IF Verdict.progress
         THEN EmitReportAndExit(data,
                IF \/ Ocp /\ Enabled
                   \/ ~Verdict.versionOK \/ Mismatch(data.component)
                   \/ Mismatch(data.values) \/ Mismatch(data.stray)
                  THEN "status" ELSE "zero")
       ELSE pc' = "matrix" /\ NoFault /\ UNCHANGED <<banner, html, exit>>
    /\ UNCHANGED <<inp, world, data, only, late, expired, seen, junit>>

\* The rows of a matrix: what the selected families say.
Matrices ==
    LET Row(c, o) == [check |-> c, exp |-> IF o \in {"observed", "unobserved"} THEN "observe"
                                           ELSE "required",
                      skip |-> o = "skipped", ok |-> o \in {"passed", "observed"}]
    IN {[skipped |-> FALSE, rows |-> {Row(c, f[c]) : c \in {x \in ToSet(Checks) : f[x] # "none"}}] :
          f \in [ToSet(Checks) -> Outcomes]}
       \union {[skipped |-> TRUE, rows |-> {}]}

\* A matrix that fails to run may have a result nevertheless.
RunMatrix ==
    /\ pc = "matrix"
    /\ IF ~Enabled
         THEN pc' = "finish" /\ NoFault /\ UNCHANGED <<data, banner, html, exit>>
       ELSE \/ /\ ~expired
               /\ \E m \in Matrices : data' = [data EXCEPT !.matrix = <<m>>]
               /\ pc' = "finish" /\ NoFault /\ UNCHANGED <<banner, html, exit>>
            \/ /\ ExitWithReport
               /\ \E m \in {"none", "empty"} : data' =
                    IF m = "none" THEN data
                    ELSE [data EXCEPT !.matrix = <<[skipped |-> FALSE, rows |-> {}]>>]
    /\ UNCHANGED <<inp, world, only, late, expired, seen, junit>>

\* Mutant: a connectivity-only run is judged like any other.
FinishWithoutCoverage ==
    /\ pc = "finish"
    /\ EmitReportAndExit(data,
         IF \/ MatrixFailed(data.matrix)
            \/ ~only /\ (~Verdict.versionOK \/ Mismatch(data.component)
                         \/ Mismatch(data.values) \/ Mismatch(data.stray))
            \/ hasPresetDeviation(data.presets)
           THEN "status" ELSE "zero")
    /\ UNCHANGED <<inp, world, data, only, late, expired, seen, junit>>

\* The report, then every gating signal.
Finish ==
    /\ pc = "finish"
    /\ EmitReportAndExit(data,
         IF \/ only /\ ~connectivityOnlyVerdict(data.matrix, Checks)
            \/ MatrixFailed(data.matrix)
            \/ Ocp /\ Enabled /\ ~connectivityOnlyVerdict(data.matrix, Checks)
            \/ ~only /\ (~Verdict.versionOK \/ Mismatch(data.component)
                         \/ Mismatch(data.values) \/ Mismatch(data.stray))
            \/ hasPresetDeviation(data.presets)
           THEN "status" ELSE "zero")
    /\ UNCHANGED <<inp, world, data, only, late, expired, seen, junit>>

\* The deferred writer: a temporary file renamed into place.  A failed write
\* fails a run that had succeeded and leaves another error as it is.
WriteJUnit ==
    /\ pc = "junit"
    /\ IF ~inp.junit THEN NoFault /\ UNCHANGED <<junit, exit>>
       ELSE \/ /\ junit' = buildJUnit(data, IF exit = "zero" THEN "none" ELSE exit)
               /\ NoFault /\ UNCHANGED exit
            \/ /\ Fault /\ UNCHANGED junit
               /\ exit' = IF exit = "zero" THEN "error" ELSE exit
    /\ pc' = "done"
    /\ UNCHANGED <<inp, world, data, only, late, expired, seen, banner, html>>

-----------------------------------------------------------------------------
(* Around the run.                                                            *)

\* The cluster goes on reconciling.
ObjectSettles ==
    /\ pc # "done"
    /\ \E i \in DOMAIN world.live : \E s \in {Success, Error} :
         /\ world.live[i].state = Progress
         /\ world' = [world EXCEPT !.live[i].state = s]
    /\ UNCHANGED <<inp, pc, data, only, late, expired, seen, banner, html, exit, junit, faults>>

DeadlinePasses ==
    /\ pc \in {"wait", "poll"} /\ ~late
    /\ late' = TRUE
    /\ UNCHANGED <<inp, world, pc, data, only, expired, seen, banner, html, exit, junit, faults>>

Cancelled ==
    /\ pc \in {"manifests", "wait", "poll", "matrix"} /\ ~expired /\ Fault
    /\ expired' = TRUE
    /\ UNCHANGED <<inp, world, pc, data, only, late, seen, banner, html, exit, junit>>

Run == \/ Prepare \/ CheckVersion \/ CheckComponents \/ CheckValues \/ CheckStrays
       \/ ValidateManifests \/ WaitForReconcile \/ Poll \/ Gate \/ RunMatrix \/ Finish
       \/ WriteJUnit

Next == Run \/ ObjectSettles \/ DeadlinePasses \/ Cancelled

\* The process runs on and time passes; the cluster owes nothing.
Spec == Init /\ [][Next]_vars /\ WF_vars(Run) /\ WF_vars(DeadlinePasses)

-----------------------------------------------------------------------------

TypeOK ==
    /\ pc \in {"prepare", "version", "component", "values", "strays", "manifests", "wait",
               "poll", "gate", "matrix", "finish", "junit", "done"}
    /\ banner \in {"none", "PASS", "FAIL"} /\ html \in {"none", "PASS", "FAIL"}
    /\ exit \in {"none", "zero", "status", "error"}
    /\ faults \in 0 .. MaxFaults

\* Exit code 0 is earned.  If no read failed, the newest revision of the
\* operator's release is the expected one, every versioned section of the
\* policies is, the release has the generated values, and nothing is astray; no
\* object was last seen missing or broken; and if all of them were ready, the
\* matrix ran where it is enabled, nothing in it failed, and where it is the only
\* evidence or the cluster is OpenShift, every selected family was tested.
SuccessIsEarned ==
    pc = "done" /\ exit = "zero" =>
      /\ ~only =>
           /\ faults = 0 /\ Release /\ ~SkipHelm =>
                \A s \in world.secrets :
                  /\ s.helm /\ s.name = "network-operator" /\ s.app # "corrupt"
                  /\ \A t \in world.secrets : t.helm /\ t.name = s.name => t.rev <= s.rev
                  => s.app = Expected.app
           /\ faults = 0 /\ Release /\ world.ncps # <<>> =>
                \A p \in ToSet(world.ncps) \union ToSet(world.nnps) : \A s \in ToSet(p) :
                  s.version \in {"", IF s.kind = "doca" THEN Expected.doca
                                     ELSE Expected.component}
           /\ faults = 0 /\ ~SkipHelm /\ inp.values # "" =>
                world.values \in {None, inp.values}
           /\ faults = 0 => ~world.strays
           /\ \A d \in ToSet(inp.docs) : d.role = "deployment" /\ d.kind # "OperatorConfig"
                => seen[d.id].state \notin {Missing, Error} /\ seen[d.id].scope # "bad"
      /\ only \/ ~Verdict.progress =>
           /\ ~hasPresetDeviation(data.presets)
           /\ Enabled => data.matrix # <<>>
           /\ \A r \in MatrixRows(data.matrix) : r.ok \/ r.skip
           /\ only \/ (Ocp /\ Enabled) =>
                \A c \in ToSet(Checks) : \E r \in MatrixRows(data.matrix) :
                  r.check = c /\ r.exp = "required"

\* The JUnit file agrees with the exit code: a run that fails has a failed or an
\* errored case, whichever of its many exits it took; a run that succeeds with
\* nothing left in progress has none.
JUnitTellsExit ==
    pc = "done" /\ junit # {} =>
      /\ exit # "zero" => junit \cap {"fail", "error"} # {}
      /\ exit = "zero" /\ (only \/ ~Verdict.progress) => junit \cap {"fail", "error"} = {}

\* The command ends, however the cluster and the reads behave: --wait has a
\* deadline.
ValidateEnds == <>(pc = "done")

=============================================================================

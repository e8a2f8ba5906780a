---------------------------- MODULE ValidateProofs ----------------------------
(***************************************************************************)
(* Proofs about Validate, for every request, configuration, bundle and     *)
(* cluster, and for any number of failing reads and writes.                *)
(***************************************************************************)
EXTENDS Validate, TLAPS

States == {Success, Progress, Missing, Error}

-----------------------------------------------------------------------------
(* What the checks say when they do not object.                            *)

\* The newest readable revision of the default release.
Newest(s, secrets) ==
    /\ s.helm /\ s.name = "network-operator" /\ s.app # "corrupt"
    /\ \A t \in secrets : t.helm /\ t.name = s.name => t.rev <= s.rev

\* The newest revision of the default release is the one that is compared.
LEMMA VersionCompared ==
    ASSUME NEW secrets, NEW expected, SecretsOfHelm(secrets),
           ~Mismatch(CheckHelmReleaseVersion(TRUE, TRUE, secrets, expected)),
           NEW s \in secrets, Newest(s, secrets)
    PROVE  s.app = expected
<1> USE DEF Newest
<1> DEFINE ours   == {t \in secrets : t.helm /\ t.ours}
           names  == {t.name : t \in ours}
           Top(t) == t.name = "network-operator"
                        /\ \A u \in ours : u.name = "network-operator" => u.rev <= t.rev
           top    == CHOOSE t \in ours : Top(t)
<1>1. s \in ours /\ "network-operator" \in names
  BY DEF SecretsOfHelm
<1>2. Top(s)
  OBVIOUS
<1>3. top \in ours /\ Top(top)
  <2> HIDE DEF ours, Top
  <2> QED
    BY <1>1, <1>2
<1>4. top = s
  <2> HIDE DEF top
  <2>1. top.rev \in Nat /\ s.rev \in Nat /\ top.helm /\ top.name = s.name /\ top \in secrets
    BY <1>3 DEF SecretsOfHelm
  <2>2. top.rev <= s.rev /\ s.rev <= top.rev
    BY <1>1, <1>2, <1>3, <2>1
  <2>3. top.rev = s.rev
    BY <2>1, <2>2
  <2> QED
    BY <2>1, <2>3 DEF SecretsOfHelm
<1>5. s.app # None
  BY DEF SecretsOfHelm
<1>6. findNetworkOperatorHelmRelease(secrets) = s.app
  <2>1. names # {}
    BY <1>1
  <2>2. findNetworkOperatorHelmRelease(secrets) = IF top.app = "corrupt" THEN None ELSE top.app
    BY <1>1, <2>1 DEF findNetworkOperatorHelmRelease
  <2> QED
    BY <1>4, <2>2
<1> QED
  BY <1>5, <1>6 DEF CheckHelmReleaseVersion, Mismatch, Checked

\* Every versioned section is compared.
LEMMA ComponentsCompared ==
    ASSUME NEW ncps, NEW nnps, NEW component, NEW doca, ncps # <<>>,
           ~Mismatch(CheckComponentVersions(TRUE, ncps, nnps, component, doca)),
           NEW p \in ToSet(ncps) \union ToSet(nnps), NEW s \in ToSet(p)
    PROVE  s.version \in {"", IF s.kind = "doca" THEN doca ELSE component}
<1> DEFINE rows == {x \in UNION {ToSet(q) : q \in ToSet(ncps) \union ToSet(nnps)} : x.version # ""}
<1>1. \A x \in rows : compareVersion(x, component, doca)
  BY DEF CheckComponentVersions, Mismatch, Checked
<1>2. s.version = "" \/ s \in rows
  OBVIOUS
<1> QED
  BY <1>1, <1>2 DEF compareVersion

\* The values of a release that can be read are compared.
LEMMA ValuesCompared ==
    ASSUME NEW generated, NEW deployed, generated # "", deployed # "unreadable",
           ~Mismatch(checkHelmReleaseValues(generated, deployed))
    PROVE  deployed \in {None, generated}
BY DEF checkHelmReleaseValues, Mismatch, Checked

\* Every object of the bundle has a result, and its result one of four states.
LEMMA ResultsTyped ==
    ASSUME NEW docs, NEW live, NEW ocp,
           \A d \in ToSet(docs) : d.role = "deployment" => live[d.id].state \in States,
           NEW r \in ValidateBundleWithConfig(docs, live, ocp)
    PROVE  r.skipped = TRUE \/ (r.skipped = FALSE /\ r.state \in States)
<1> DEFINE deployed == {d \in ToSet(docs) : d.role = "deployment"}
<1>1. CASE \E d \in deployed : r = ClassifyDocument(d, live, ocp)
  <2>1. PICK d \in deployed : r = ClassifyDocument(d, live, ocp)
    BY <1>1
  <2>2. live[d.id].state \in States
    BY <2>1
  <2> QED
    BY <2>1, <2>2 DEF ClassifyDocument, Found, validateOCPNetworkAttachment, States
<1>2. CASE \E d \in deployed : r \in secondaryNetworkValidation(live[d.id].owner)
  <2>1. PICK d \in deployed : r \in secondaryNetworkValidation(live[d.id].owner)
    BY <1>2
  <2> DEFINE owner == live[d.id].owner
  <2> HIDE DEF owner
  <2>2. r \in secondaryNetworkValidation(owner)
    BY <2>1 DEF owner
  <2>3. \/ r = [skipped |-> TRUE, state |-> ""]
        \/ \E x \in States : r = Found(x)
    BY <2>2 DEF secondaryNetworkValidation, States
  <2>4. CASE r = [skipped |-> TRUE, state |-> ""]
    BY <2>4
  <2>5. ASSUME NEW x \in States, r = Found(x)
        PROVE  r.skipped = FALSE /\ r.state \in States
    BY <2>5 DEF Found
  <2> QED
    BY <2>3, <2>4, <2>5
<1> QED
  BY <1>1, <1>2 DEF ValidateBundleWithConfig

LEMMA ObjectsJudged ==
    ASSUME NEW docs, NEW live, NEW ocp, NEW version,
           ~aggregateVerdict(version, ValidateBundleWithConfig(docs, live, ocp)).error,
           ~aggregateVerdict(version, ValidateBundleWithConfig(docs, live, ocp)).missing,
           NEW d \in ToSet(docs), d.role = "deployment", d.kind # "OperatorConfig"
    PROVE  live[d.id].state \notin {Missing, Error} /\ live[d.id].scope # "bad"
<1> DEFINE r == ClassifyDocument(d, live, ocp)
<1>1. r \in ValidateBundleWithConfig(docs, live, ocp)
  BY DEF ValidateBundleWithConfig
<1>2. ~r.skipped
  BY DEF ClassifyDocument, Found
<1>3. r.state \notin {Missing, Error}
  <2> HIDE DEF r
  <2> QED
    BY <1>1, <1>2 DEF aggregateVerdict
<1> QED
  BY <1>3 DEF ClassifyDocument, Found, validateOCPNetworkAttachment, Success, Progress, Missing,
              Error

\* A case is failed exactly when it was neither skipped nor passed.
LEMMA StatusOfCase ==
    ASSUME NEW passed, NEW skipped, passed \/ skipped
    PROVE  junitStatus(passed, skipped) \notin {"fail", "error"}
BY DEF junitStatus

\* The cases of a run with nothing to object to.
LEMMA CleanCases ==
    ASSUME NEW d,
           ~Mismatch(d.version), ~Mismatch(d.component), ~Mismatch(d.values), ~Mismatch(d.stray),
           \A r \in d.results : r.skipped \/ r.state \in {Success, Progress},
           \A i \in DOMAIN d.presets : d.presets[i].status \in {"match", "skipped", "not-found"},
           d.coverage => connectivityCoverageVerdict(d.matrix, d.checks),
           ~MatrixFailed(d.matrix)
    PROVE  buildJUnit(d, "none") \cap {"fail", "error"} = {}
<1> DEFINE Of(check) == IF check = NotMade THEN {} ELSE {junitStatus(check.ok, check.skipped)}
           Good(cases) == \A c \in cases : c \notin {"fail", "error"}
           results == {junitStatus(r.state = Success, r.skipped \/ r.state = Progress) : r \in d.results}
           presets == {junitStatus(d.presets[i].status = "match",
                                   d.presets[i].status \in {"skipped", "not-found"}) :
                         i \in DOMAIN d.presets}
           coverage == IF d.coverage
                         THEN {junitStatus(connectivityCoverageVerdict(d.matrix, d.checks), FALSE)}
                         ELSE {}
           families == UNION {FamilyCases(d.matrix, f) : f \in JUnitFamilies}
<1>1. ASSUME NEW check, ~Mismatch(check) PROVE Good(Of(check))
  <2>1. check.ok \/ check.skipped
    BY <1>1 DEF Mismatch
  <2>2. junitStatus(check.ok, check.skipped) \notin {"fail", "error"}
    BY <2>1, StatusOfCase
  <2> QED
    BY <2>2
<1>2. Good(results)
  <2> SUFFICES ASSUME NEW r \in d.results
               PROVE  junitStatus(r.state = Success, r.skipped \/ r.state = Progress)
                        \notin {"fail", "error"}
    OBVIOUS
  <2>1. r.state = Success \/ (r.skipped \/ r.state = Progress)
    OBVIOUS
  <2> QED
    BY <2>1, StatusOfCase
<1>3. Good(presets)
  <2> SUFFICES ASSUME NEW i \in DOMAIN d.presets
               PROVE  junitStatus(d.presets[i].status = "match",
                                  d.presets[i].status \in {"skipped", "not-found"})
                        \notin {"fail", "error"}
    OBVIOUS
  <2>1. d.presets[i].status = "match" \/ d.presets[i].status \in {"skipped", "not-found"}
    OBVIOUS
  <2> QED
    BY <2>1, StatusOfCase
<1>4. Good(coverage)
  <2>1. d.coverage => junitStatus(connectivityCoverageVerdict(d.matrix, d.checks), FALSE)
                        \notin {"fail", "error"}
    BY StatusOfCase
  <2> QED
    BY <2>1
<1>5. Good(families)
  <2> SUFFICES ASSUME NEW f \in JUnitFamilies, NEW c \in FamilyCases(d.matrix, f)
               PROVE  c \notin {"fail", "error"}
    OBVIOUS
  <2>1. \/ c = "skip"
        \/ \E r \in MatrixRows(d.matrix) : c = junitStatus(r.ok, r.skip)
    BY DEF FamilyCases
  <2>2. \A r \in MatrixRows(d.matrix) : r.ok \/ r.skip
    BY DEF MatrixFailed
  <2> QED
    BY <2>1, <2>2, StatusOfCase
<1>6. StaticCases(d) = Of(d.version) \union Of(d.component) \union Of(d.values)
                         \union Of(d.stray) \union results \union presets \union coverage
  BY DEF StaticCases
<1>7. Good(Of(d.version)) /\ Good(Of(d.component)) /\ Good(Of(d.values)) /\ Good(Of(d.stray))
  BY <1>1
<1> HIDE DEF Of, results, presets, coverage, families
<1>8. Good(StaticCases(d))
  <2> SUFFICES ASSUME NEW c \in StaticCases(d) PROVE c \notin {"fail", "error"}
    OBVIOUS
  <2>1. \/ c \in Of(d.version) \/ c \in Of(d.component) \/ c \in Of(d.values)
        \/ c \in Of(d.stray) \/ c \in results \/ c \in presets \/ c \in coverage
    BY <1>6
  <2> QED
    BY <1>2, <1>3, <1>4, <1>7, <2>1
<1>9. buildJUnit(d, "none") \subseteq StaticCases(d) \union families \union {"skip"}
  BY DEF buildJUnit, families
<1> QED
  BY <1>5, <1>8, <1>9

\* A run that fails says so.
LEMMA FailureHasCase ==
    ASSUME NEW d, NEW status \in {"status", "error"}
    PROVE  buildJUnit(d, status) \cap {"fail", "error"} # {}
BY DEF buildJUnit

-----------------------------------------------------------------------------
(* The course of a run.                                                    *)

Course ==
    /\ pc \in {"prepare", "version", "component", "values", "strays", "manifests", "wait",
               "poll", "gate", "matrix", "finish", "junit", "done"}
    /\ exit \in {"none", "zero", "status", "error"}
    /\ exit = "none" <=> pc \notin {"junit", "done"}
    /\ pc # "done" => junit = {}
    /\ only \in BOOLEAN /\ faults \in Nat
    /\ pc = "prepare" => only = FALSE /\ data = NoData
    /\ only = TRUE /\ exit # "error" => pc \in {"matrix", "finish", "junit", "done"}

DataRecord ==
    data = [version |-> data.version, component |-> data.component, values |-> data.values,
            stray |-> data.stray, results |-> data.results, presets |-> data.presets,
            matrix |-> data.matrix, coverage |-> data.coverage, checks |-> data.checks,
            configured |-> data.configured, fabric |-> data.fabric, enabled |-> data.enabled]

\* What the world is at any time.
WorldKnown ==
    /\ WorldRecord(world) /\ SecretsOfHelm(world.secrets)
    /\ \A d \in ToSet(inp.docs) : d.role = "deployment" => d.id \in DOMAIN world.live

\* The request never changes, and of the world only the objects do.
LEMMA RequestFixed ==
    ASSUME [Next]_vars
    PROVE  inp' = inp
BY DEF Next, Run, Prepare, CheckVersion, CheckComponents, CheckValues, CheckStrays,
       ValidateManifests, WaitForReconcile, Poll, Gate, RunMatrix, Finish, WriteJUnit, Running,
       ObjectSettles, DeadlinePasses, Cancelled, vars

LEMMA RunLeavesWorld ==
    ASSUME [Next]_vars, ~ObjectSettles
    PROVE  world' = world
BY DEF Next, Run, Prepare, CheckVersion, CheckComponents, CheckValues, CheckStrays,
       ValidateManifests, WaitForReconcile, Poll, Gate, RunMatrix, Finish, WriteJUnit, Running,
       DeadlinePasses, Cancelled, vars

\* What is derived from the request is fixed with it.
LEMMA DerivedFixed ==
    ASSUME inp' = inp
    PROVE  UNCHANGED <<Ocp, Enabled, Checks, Release, SkipHelm, Loaded>>
BY DEF Ocp, Enabled, Checks, Release, SkipHelm, Loaded, Validation, HasCfg, C, Cfg

\* The steps outside the run.
Around == ObjectSettles \/ DeadlinePasses \/ Cancelled \/ UNCHANGED vars

LEMMA AroundQuiet ==
    ASSUME Around
    PROVE  /\ UNCHANGED <<inp, pc, data, only, seen, exit, junit>>
           /\ faults' = faults \/ Fault
BY DEF Around, ObjectSettles, DeadlinePasses, Cancelled, vars

LEMMA WorldInvariant == Spec => []WorldKnown
<1>1. Init => WorldKnown
  BY WorldsAssumption DEF Init, WorldKnown
<1>2. WorldKnown /\ [Next]_vars => WorldKnown'
  <2> SUFFICES ASSUME WorldKnown, [Next]_vars PROVE WorldKnown'
    OBVIOUS
  <2>1. inp' = inp
    BY RequestFixed
  <2>2. CASE ~ObjectSettles
    <3>1. world' = world
      BY <2>2, RunLeavesWorld
    <3> QED
      BY <2>1, <3>1 DEF WorldKnown
  <2>3. CASE ObjectSettles
    <3>1. PICK i \in DOMAIN world.live, st \in {Success, Error} :
            world' = [world EXCEPT !.live[i].state = st]
      BY <2>3 DEF ObjectSettles
    <3>2. /\ WorldRecord(world) /\ SecretsOfHelm(world.secrets)
          /\ world.live = [j \in DOMAIN world.live |-> world.live[j]]
      BY DEF WorldKnown, WorldRecord
    <3> DEFINE l == [world.live[i] EXCEPT !.state = st]
    <3>3. /\ world' = [secrets |-> world.secrets, ncps |-> world.ncps, nnps |-> world.nnps,
                       values |-> world.values, strays |-> world.strays,
                       live |-> [world.live EXCEPT ![i] = l]]
      BY <3>1, <3>2 DEF WorldRecord
    <3>4. /\ l = [owner |-> l.owner, get |-> l.get, merge |-> l.merge, scope |-> l.scope,
                  state |-> l.state, nad |-> l.nad]
          /\ l.state \in {Success, Progress, Missing, Error}
      BY <3>1, <3>2 DEF WorldRecord
    <3> HIDE DEF l
    <3>5. /\ world'.secrets = world.secrets /\ world'.live = [world.live EXCEPT ![i] = l]
          /\ DOMAIN world'.live = DOMAIN world.live
      BY <3>2, <3>3
    <3>6. WorldRecord(world')
      <4>1. world'.live = [j \in DOMAIN world'.live |-> world'.live[j]]
        BY <3>2, <3>5
      <4>2. \A j \in DOMAIN world'.live :
              /\ world'.live[j] = [owner |-> world'.live[j].owner, get |-> world'.live[j].get,
                   merge |-> world'.live[j].merge, scope |-> world'.live[j].scope,
                   state |-> world'.live[j].state, nad |-> world'.live[j].nad]
              /\ world'.live[j].state \in {Success, Progress, Missing, Error}
        BY <3>2, <3>4, <3>5 DEF WorldRecord
      <4>3. world' = [secrets |-> world'.secrets, ncps |-> world'.ncps, nnps |-> world'.nnps,
                      values |-> world'.values, strays |-> world'.strays, live |-> world'.live]
        BY <3>3
      <4>4. world'.values # "unreadable"
        BY <3>2, <3>3 DEF WorldRecord
      <4> QED
        BY <4>1, <4>2, <4>3, <4>4 DEF WorldRecord
    <3> QED
      BY <2>1, <3>2, <3>5, <3>6 DEF WorldKnown
  <2> QED
    BY <2>2, <2>3
<1> QED
  BY <1>1, <1>2, PTL DEF Spec

\* Reports are best effort: they decide nothing.
LEMMA ReportWritten ==
    ASSUME NEW v, writeHTMLReportIfWanted(v)
    PROVE  faults' = faults \/ Fault
BY DEF writeHTMLReportIfWanted, NoFault

\* Input that is accepted starts the run with the checks it asks for.
LEMMA PrepareStep ==
    ASSUME Prepare, Course
    PROVE  /\ pc = "prepare" /\ only' \in BOOLEAN /\ junit' = junit /\ DataRecord'
           /\ faults' = faults \/ Fault
           /\ \/ pc' = "junit" /\ exit' = "error"
              \/ /\ pc' = (IF only' THEN "matrix" ELSE "version") /\ exit' = exit
                 /\ data'.version = NotMade /\ data'.component = NotMade
                 /\ data'.values = NotMade /\ data'.stray = NotMade
                 /\ data'.results = {} /\ data'.matrix = <<>> /\ data'.checks = Checks
                 /\ data'.coverage <=> (Ocp /\ Enabled) \/ only'
                 /\ data'.presets \in {<<>>, MatchAllWithCatalog(C.groups, Catalog)}
<1> DEFINE bad   == {k \in DOMAIN Accepted : ~Accepted[k]}
           upTo  == IF bad = {} THEN 12 ELSE Min(bad)
           alone == upTo > 10 /\ Enabled /\ ~hasDeploymentValidationInputsBundle(inp.docs)
           presets == IF upTo > 10 /\ ~alone /\ Loaded
                        THEN MatchAllWithCatalog(C.groups, Catalog) ELSE <<>>
           cov  == (Ocp /\ Enabled) \/ alone
           full == [data EXCEPT !.configured = TRUE, !.enabled = Enabled,
                      !.checks = Checks, !.fabric = Fabric,
                      !.coverage = cov, !.presets = presets]
<1>1. /\ pc = "prepare" /\ only' = alone /\ junit' = junit
      /\ data' = IF upTo <= 6 THEN data ELSE full
      /\ IF bad # {} THEN ExitWithReport
         ELSE pc' = (IF alone THEN "matrix" ELSE "version") /\ exit' = exit /\ NoFault
  BY DEF Prepare
<1>2. bad = {} => upTo = 12
  OBVIOUS
<1>3. alone \in BOOLEAN
  OBVIOUS
<1>4. presets \in {<<>>, MatchAllWithCatalog(C.groups, Catalog)}
  OBVIOUS
<1> HIDE DEF bad, upTo, alone, presets, cov
<1>5. data = NoData
  BY <1>1 DEF Course
<1>6. /\ full.version = NotMade /\ full.component = NotMade
      /\ full.values = NotMade /\ full.stray = NotMade
      /\ full.results = {} /\ full.matrix = <<>> /\ full.checks = Checks
      /\ full.coverage = cov /\ full.presets = presets
  <2>1. full.version = NotMade
    BY <1>5 DEF NoData
  <2>2. full.component = NotMade /\ full.values = NotMade /\ full.stray = NotMade
    BY <1>5 DEF NoData
  <2>3. full.results = {} /\ full.matrix = <<>>
    BY <1>5 DEF NoData
  <2>4. full.checks = Checks
    BY <1>5 DEF NoData
  <2>5. full.coverage = cov
    BY <1>5 DEF NoData
  <2>6. full.presets = presets
    BY <1>5 DEF NoData
  <2> QED
    BY <2>1, <2>2, <2>3, <2>4, <2>5, <2>6
<1>7. full = [version |-> full.version, component |-> full.component, values |-> full.values,
            stray |-> full.stray, results |-> full.results, presets |-> full.presets,
            matrix |-> full.matrix, coverage |-> full.coverage, checks |-> full.checks,
            configured |-> full.configured, fabric |-> full.fabric, enabled |-> full.enabled]
  <2> DEFINE fab == Fabric
             on  == Enabled
             want == Checks
  <2> HIDE DEF fab, on, want
  <2>1. full = [data EXCEPT !.configured = TRUE, !.enabled = on, !.checks = want,
                  !.fabric = fab, !.coverage = cov, !.presets = presets]
    BY DEF fab, on, want
  <2> HIDE DEF full
  <2>2. full = [version |-> NotMade, component |-> NotMade, values |-> NotMade,
                stray |-> NotMade, results |-> {}, presets |-> presets, matrix |-> <<>>,
                coverage |-> cov, checks |-> want, configured |-> TRUE, fabric |-> fab,
                enabled |-> on]
    BY <1>5, <2>1 DEF NoData
  <2> QED
    BY <2>2
<1>8. DataRecord
  BY <1>5 DEF DataRecord, NoData
<1> HIDE DEF full
<1>9. DataRecord'
  BY <1>1, <1>7, <1>8 DEF DataRecord
<1>10. CASE bad # {}
  <2>1. ExitWithReport
    BY <1>1, <1>10
  <2>2. pc' = "junit" /\ exit' = "error" /\ (faults' = faults \/ Fault)
    BY <2>1, ReportWritten DEF ExitWithReport
  <2> QED
    BY <1>1, <1>3, <1>9, <2>2
<1>11. CASE bad = {}
  <2>1. data' = full
    BY <1>1, <1>2, <1>11
  <2>2. pc' = (IF alone THEN "matrix" ELSE "version") /\ exit' = exit /\ faults' = faults
    BY <1>1, <1>11 DEF NoFault
  <2>3. data'.coverage <=> (Ocp /\ Enabled) \/ only'
    BY <1>1, <1>6, <2>1 DEF cov
  <2> QED
    BY <1>1, <1>3, <1>4, <1>6, <1>9, <2>1, <2>2, <2>3
<1> QED
  BY <1>10, <1>11

\* A pass over the bundle leaves results that agree with what it saw.
LEMMA PassStep ==
    ASSUME ReadManifests, WorldKnown, DataRecord
    PROVE  /\ DataRecord'
           /\ data' = [data EXCEPT !.results = ValidateBundleWithConfig(inp.docs, seen', Ocp)]
           /\ data'.results = ValidateBundleWithConfig(inp.docs, seen', Ocp)
           /\ \A d \in ToSet(inp.docs) : d.role = "deployment" => seen'[d.id].state \in States
           /\ faults' = faults \/ Fault
<1>1. data' = [data EXCEPT !.results = ValidateBundleWithConfig(inp.docs, seen', Ocp)]
  BY DEF ReadManifests
<1>2. DataRecord' /\ data'.results = ValidateBundleWithConfig(inp.docs, seen', Ocp)
  BY <1>1 DEF DataRecord
<1>3. \A i \in DOMAIN world.live : /\ world.live[i].state \in States
                                   /\ Unreadable[i].state \in States
  <2> TAKE i \in DOMAIN world.live
  <2>1. /\ world.live[i].state \in States
        /\ world.live[i] = [owner |-> world.live[i].owner, get |-> world.live[i].get,
              merge |-> world.live[i].merge, scope |-> world.live[i].scope,
              state |-> world.live[i].state, nad |-> world.live[i].nad]
    BY DEF WorldKnown, WorldRecord, States
  <2>2. [world.live[i] EXCEPT !.state = Error, !.get = "failed"].state = Error
    BY <2>1
  <2> QED
    BY <2>1, <2>2 DEF Unreadable, States
<1>4. seen' \in {world.live, Unreadable}
  BY DEF ReadManifests
<1>5. \A d \in ToSet(inp.docs) : d.role = "deployment" => seen'[d.id].state \in States
  BY <1>3, <1>4 DEF WorldKnown
<1>6. faults' = faults \/ Fault
  BY DEF ReadManifests, NoFault
<1> QED
  BY <1>1, <1>2, <1>5, <1>6

\* The gates: what goes on to the matrix, what ends well without it.
Sound ==
    /\ Verdict.versionOK /\ ~Mismatch(data.component)
    /\ ~Mismatch(data.values) /\ ~Mismatch(data.stray)

LEMMA GateStep ==
    ASSUME Gate
    PROVE  /\ pc = "gate" /\ UNCHANGED <<data, only, seen, junit>>
           /\ faults' = faults \/ Fault
           /\ \/ pc' = "matrix" /\ exit' = exit /\ ~Verdict.error /\ ~Verdict.missing /\ ~Verdict.progress
              \/ pc' = "junit" /\ exit' = "status"
              \/ /\ pc' = "junit" /\ exit' = "zero" /\ Sound
                 /\ ~Verdict.error /\ ~Verdict.missing /\ Verdict.progress
<1>1. pc = "gate" /\ UNCHANGED <<data, only, seen, junit>>
  BY DEF Gate
<1>2. CASE Verdict.error \/ Verdict.missing
  <2>1. EmitReportAndExit(data, "status")
    BY <1>2 DEF Gate
  <2> QED
    BY <1>1, <2>1, ReportWritten DEF EmitReportAndExit
<1>3. CASE ~(Verdict.error \/ Verdict.missing) /\ Verdict.progress
  <2> DEFINE bad == \/ Ocp /\ Enabled
                    \/ ~Verdict.versionOK \/ Mismatch(data.component)
                    \/ Mismatch(data.values) \/ Mismatch(data.stray)
  <2>1. EmitReportAndExit(data, IF bad THEN "status" ELSE "zero")
    BY <1>3 DEF Gate
  <2>2. ~bad => Sound
    BY DEF Sound
  <2> HIDE DEF bad
  <2>3. /\ exit' = IF bad THEN "status" ELSE "zero"
        /\ pc' = "junit" /\ (faults' = faults \/ Fault)
    BY <2>1, ReportWritten DEF EmitReportAndExit
  <2> QED
    BY <1>1, <1>3, <2>2, <2>3
<1>4. CASE ~(Verdict.error \/ Verdict.missing) /\ ~Verdict.progress
  <2>1. pc' = "matrix" /\ exit' = exit /\ NoFault
    BY <1>4 DEF Gate
  <2> QED
    BY <1>1, <1>4, <2>1 DEF NoFault
<1> QED
  BY <1>2, <1>3, <1>4

\* The rows of a matrix were expected or only observed.
RowsKnown(m) == \A r \in m.rows : r.exp \in {"observe", "required"}

LEMMA MatricesKnown ==
    ASSUME NEW m \in Matrices
    PROVE  RowsKnown(m)
<1> DEFINE Row(c, o) == [check |-> c, exp |-> IF o \in {"observed", "unobserved"} THEN "observe"
                                              ELSE "required",
                         skip |-> o = "skipped", ok |-> o \in {"passed", "observed"}]
<1>1. CASE m = [skipped |-> TRUE, rows |-> {}]
  BY <1>1 DEF RowsKnown
<1>2. CASE \E f \in [ToSet(Checks) -> Outcomes] :
             m = [skipped |-> FALSE, rows |-> {Row(c, f[c]) : c \in {x \in ToSet(Checks) : f[x] # "none"}}]
  <2>1. PICK f : m = [skipped |-> FALSE,
                      rows |-> {Row(c, f[c]) : c \in {x \in ToSet(Checks) : f[x] # "none"}}]
    BY <1>2
  <2>2. m.rows = {Row(c, f[c]) : c \in {x \in ToSet(Checks) : f[x] # "none"}}
    BY <2>1
  <2>3. \A c, o : Row(c, o).exp \in {"observe", "required"}
    OBVIOUS
  <2> HIDE DEF Row
  <2> QED
    BY <2>2, <2>3 DEF RowsKnown
<1> QED
  BY <1>1, <1>2 DEF Matrices

LEMMA MatrixStep ==
    ASSUME RunMatrix, DataRecord
    PROVE  /\ pc = "matrix" /\ UNCHANGED <<only, seen, junit>> /\ DataRecord'
           /\ faults' = faults \/ Fault
           /\ \/ pc' = "junit" /\ exit' = "error"
              \/ /\ pc' = "finish" /\ exit' = exit
                 /\ \/ ~Enabled /\ data' = data
                    \/ \E m : RowsKnown(m) /\ data' = [data EXCEPT !.matrix = <<m>>]
<1>1. pc = "matrix" /\ UNCHANGED <<only, seen, junit>>
  BY DEF RunMatrix
<1>2. CASE ~Enabled
  <2>1. pc' = "finish" /\ exit' = exit /\ data' = data /\ faults' = faults
    BY <1>2 DEF RunMatrix, NoFault
  <2> QED
    BY <1>1, <1>2, <2>1 DEF DataRecord
<1>3. CASE Enabled /\ \E m \in Matrices : /\ data' = [data EXCEPT !.matrix = <<m>>]
                                         /\ pc' = "finish" /\ NoFault /\ UNCHANGED exit
  <2>1. PICK m \in Matrices : data' = [data EXCEPT !.matrix = <<m>>]
    BY <1>3
  <2>2. DataRecord'
    BY <2>1 DEF DataRecord
  <2> QED
    BY <1>1, <1>3, <2>1, <2>2, MatricesKnown DEF NoFault
<1>4. CASE ExitWithReport /\ \E m \in {"none", "empty"} : data' =
                    IF m = "none" THEN data
                    ELSE [data EXCEPT !.matrix = <<[skipped |-> FALSE, rows |-> {}]>>]
  <2>1. DataRecord'
    BY <1>4 DEF DataRecord
  <2>2. pc' = "junit" /\ exit' = "error" /\ (faults' = faults \/ Fault)
    BY <1>4, ReportWritten DEF ExitWithReport
  <2> QED
    BY <1>1, <2>1, <2>2
<1> QED
  BY <1>2, <1>3, <1>4 DEF RunMatrix

\* Everything a run that ends well with nothing in progress stands for.
FinishedWell ==
    /\ ~MatrixFailed(data.matrix) /\ ~hasPresetDeviation(data.presets)
    /\ Ocp /\ Enabled => connectivityOnlyVerdict(data.matrix, Checks)

LEMMA FinishStep ==
    ASSUME Finish
    PROVE  /\ pc = "finish" /\ UNCHANGED <<data, only, seen, junit>>
           /\ faults' = faults \/ Fault
           /\ pc' = "junit"
           /\ \/ exit' = "status"
              \/ /\ exit' = "zero" /\ FinishedWell
                 /\ only => connectivityOnlyVerdict(data.matrix, Checks)
                 /\ ~only => Sound
<1> DEFINE bad == \/ only /\ ~connectivityOnlyVerdict(data.matrix, Checks)
                  \/ MatrixFailed(data.matrix)
                  \/ Ocp /\ Enabled /\ ~connectivityOnlyVerdict(data.matrix, Checks)
                  \/ ~only /\ (~Verdict.versionOK \/ Mismatch(data.component)
                               \/ Mismatch(data.values) \/ Mismatch(data.stray))
                  \/ hasPresetDeviation(data.presets)
<1>1. /\ pc = "finish" /\ UNCHANGED <<data, only, seen, junit>>
      /\ EmitReportAndExit(data, IF bad THEN "status" ELSE "zero")
  BY DEF Finish
<1>2. ~bad => /\ FinishedWell
              /\ only => connectivityOnlyVerdict(data.matrix, Checks)
              /\ ~only => Sound
  BY DEF FinishedWell, Sound
<1> HIDE DEF bad
<1>3. pc' = "junit" /\ exit' = (IF bad THEN "status" ELSE "zero") /\ (faults' = faults \/ Fault)
  BY <1>1, ReportWritten DEF EmitReportAndExit
<1> QED
  BY <1>1, <1>2, <1>3

\* Of the world only the objects change.
LEMMA PartsFixed ==
    ASSUME WorldKnown, [Next]_vars
    PROVE  /\ world'.secrets = world.secrets /\ world'.ncps = world.ncps
           /\ world'.nnps = world.nnps /\ world'.values = world.values
           /\ world'.strays = world.strays
<1>1. CASE ~ObjectSettles
  BY <1>1, RunLeavesWorld
<1>2. CASE ObjectSettles
  <2>1. PICK i, st : world' = [world EXCEPT !.live[i].state = st]
    BY <1>2 DEF ObjectSettles
  <2> QED
    BY <2>1 DEF WorldKnown, WorldRecord
<1> QED
  BY <1>1, <1>2

\* What each check reads when nothing fails.
VersionRead   == IF SkipHelm THEN Skipped
                 ELSE CheckHelmReleaseVersion(Release, TRUE, world.secrets, Expected.app)
ComponentRead == CheckComponentVersions(Release, world.ncps, world.nnps, Expected.component,
                                        Expected.doca)
ValuesRead    == IF SkipHelm THEN Skipped ELSE checkHelmReleaseValues(inp.values, world.values)
StrayRead     == Checked(~world.strays)

\* A check writes its own part of the data, and what the cluster says if its read
\* does not fail.
LEMMA VersionStep ==
    ASSUME CheckVersion, Course, DataRecord
    PROVE  /\ pc = "version" /\ pc' = "component" /\ UNCHANGED <<only, seen, exit, junit>>
           /\ faults' = faults \/ Fault
           /\ DataRecord' /\ data' = [data EXCEPT !.version = data'.version]
           /\ faults' = faults => data'.version = VersionRead
<1>1. pc = "version" /\ pc' = "component" /\ UNCHANGED <<only, seen, exit, junit>>
  BY DEF CheckVersion, Running
<1>2. PICK failed \in BOOLEAN :
         /\ IF failed THEN ~SkipHelm /\ Fault ELSE NoFault
         /\ data' = [data EXCEPT !.version =
              IF SkipHelm THEN Skipped
              ELSE CheckHelmReleaseVersion(Release, ~failed, world.secrets, Expected.app)]
  BY DEF CheckVersion
<1> DEFINE made ==
              IF SkipHelm THEN Skipped
              ELSE CheckHelmReleaseVersion(Release, ~failed, world.secrets, Expected.app)
<1>3. /\ IF failed THEN ~SkipHelm /\ Fault ELSE NoFault
      /\ data' = [data EXCEPT !.version = made]
  BY <1>2
<1>4. failed = FALSE => made = VersionRead
  BY DEF VersionRead
<1> HIDE DEF made
<1>5. DataRecord' /\ data'.version = made /\ data' = [data EXCEPT !.version = data'.version]
  BY <1>3 DEF DataRecord
<1>6. faults' = faults \/ Fault
  BY <1>3 DEF NoFault
<1>7. faults' = faults => failed = FALSE
  BY <1>3 DEF Fault, Course
<1> QED
  BY <1>1, <1>4, <1>5, <1>6, <1>7

LEMMA ComponentStep ==
    ASSUME CheckComponents, Course, DataRecord
    PROVE  /\ pc = "component" /\ pc' = "values" /\ UNCHANGED <<only, seen, exit, junit>>
           /\ faults' = faults \/ Fault
           /\ DataRecord' /\ data' = [data EXCEPT !.component = data'.component]
           /\ faults' = faults => data'.component = ComponentRead
<1>1. pc = "component" /\ pc' = "values" /\ UNCHANGED <<only, seen, exit, junit>>
  BY DEF CheckComponents, Running
<1>2. PICK lost \in {{}, {"ncp"}, {"nnp"}} :
         /\ IF lost = {} THEN NoFault ELSE Fault
         /\ data' = [data EXCEPT !.component =
              CheckComponentVersions(Release,
                IF "ncp" \in lost THEN <<>> ELSE world.ncps,
                IF "nnp" \in lost THEN <<>> ELSE world.nnps,
                Expected.component, Expected.doca)]
  BY DEF CheckComponents
<1> DEFINE made ==
              CheckComponentVersions(Release,
                IF "ncp" \in lost THEN <<>> ELSE world.ncps,
                IF "nnp" \in lost THEN <<>> ELSE world.nnps,
                Expected.component, Expected.doca)
<1>3. /\ IF lost = {} THEN NoFault ELSE Fault
      /\ data' = [data EXCEPT !.component = made]
  BY <1>2
<1>4. lost = {} => made = ComponentRead
  BY DEF ComponentRead
<1> HIDE DEF made
<1>5. DataRecord' /\ data'.component = made /\ data' = [data EXCEPT !.component = data'.component]
  BY <1>3 DEF DataRecord
<1>6. faults' = faults \/ Fault
  BY <1>3 DEF NoFault
<1>7. faults' = faults => lost = {}
  BY <1>3 DEF Fault, Course
<1> QED
  BY <1>1, <1>4, <1>5, <1>6, <1>7

LEMMA ValuesStep ==
    ASSUME CheckValues, Course, DataRecord
    PROVE  /\ pc = "values" /\ pc' = "strays" /\ UNCHANGED <<only, seen, exit, junit>>
           /\ faults' = faults \/ Fault
           /\ DataRecord' /\ data' = [data EXCEPT !.values = data'.values]
           /\ faults' = faults => data'.values = ValuesRead
<1>1. pc = "values" /\ pc' = "strays" /\ UNCHANGED <<only, seen, exit, junit>>
  BY DEF CheckValues, Running
<1>2. PICK failed \in BOOLEAN :
         /\ IF failed THEN ~SkipHelm /\ Fault ELSE NoFault
         /\ data' = [data EXCEPT !.values =
              IF SkipHelm THEN Skipped
              ELSE checkHelmReleaseValues(inp.values,
                                          IF failed THEN "unreadable" ELSE world.values)]
  BY DEF CheckValues
<1> DEFINE made ==
              IF SkipHelm THEN Skipped
              ELSE checkHelmReleaseValues(inp.values,
                                          IF failed THEN "unreadable" ELSE world.values)
<1>3. /\ IF failed THEN ~SkipHelm /\ Fault ELSE NoFault
      /\ data' = [data EXCEPT !.values = made]
  BY <1>2
<1>4. failed = FALSE => made = ValuesRead
  BY DEF ValuesRead
<1> HIDE DEF made
<1>5. DataRecord' /\ data'.values = made /\ data' = [data EXCEPT !.values = data'.values]
  BY <1>3 DEF DataRecord
<1>6. faults' = faults \/ Fault
  BY <1>3 DEF NoFault
<1>7. faults' = faults => failed = FALSE
  BY <1>3 DEF Fault, Course
<1> QED
  BY <1>1, <1>4, <1>5, <1>6, <1>7

LEMMA StrayStep ==
    ASSUME CheckStrays, Course, DataRecord
    PROVE  /\ pc = "strays" /\ pc' = "manifests" /\ UNCHANGED <<only, seen, exit, junit>>
           /\ faults' = faults \/ Fault
           /\ DataRecord' /\ data' = [data EXCEPT !.stray = data'.stray]
           /\ faults' = faults => data'.stray = StrayRead
<1>1. pc = "strays" /\ pc' = "manifests" /\ UNCHANGED <<only, seen, exit, junit>>
  BY DEF CheckStrays, Running
<1>2. PICK failed \in BOOLEAN :
         /\ IF failed THEN Fault ELSE NoFault
         /\ data' = [data EXCEPT !.stray =
              Checked(failed \/ ~world.strays)]
  BY DEF CheckStrays
<1> DEFINE made ==
              Checked(failed \/ ~world.strays)
<1>3. /\ IF failed THEN Fault ELSE NoFault
      /\ data' = [data EXCEPT !.stray = made]
  BY <1>2
<1>4. failed = FALSE => made = StrayRead
  BY DEF StrayRead
<1> HIDE DEF made
<1>5. DataRecord' /\ data'.stray = made /\ data' = [data EXCEPT !.stray = data'.stray]
  BY <1>3 DEF DataRecord
<1>6. faults' = faults \/ Fault
  BY <1>3 DEF NoFault
<1>7. faults' = faults => failed = FALSE
  BY <1>3 DEF Fault, Course
<1> QED
  BY <1>1, <1>4, <1>5, <1>6, <1>7

\* A wait, a pass over the manifests, and the last step.
LEMMA WaitStep ==
    ASSUME WaitForReconcile
    PROVE  /\ pc = "wait" /\ pc' \in {"gate", "poll"}
           /\ UNCHANGED <<data, seen, only, exit, junit, faults>>
BY DEF WaitForReconcile, Running, NoFault

LEMMA ManifestsStep ==
    ASSUME ValidateManifests
    PROVE  /\ pc = "manifests" /\ UNCHANGED <<only, junit>>
           /\ \/ pc' = "junit" /\ exit' = "error" /\ data' = data /\ (faults' = faults \/ Fault)
              \/ pc' \in {"wait", "gate"} /\ exit' = exit /\ ReadManifests
BY ReportWritten DEF ValidateManifests, ExitWithReport

LEMMA PollStep ==
    ASSUME Poll
    PROVE  /\ pc = "poll" /\ pc' = "wait" /\ UNCHANGED <<only, junit, exit>>
           /\ UNCHANGED <<data, seen, faults>> \/ ReadManifests
BY DEF Poll, Running, NoFault

LEMMA JUnitStep ==
    ASSUME WriteJUnit, Course
    PROVE  /\ pc = "junit" /\ pc' = "done" /\ UNCHANGED <<data, seen, only>>
           /\ faults' = faults \/ Fault
           /\ \/ exit' = exit /\ junit' = {}
              \/ exit' = exit /\ junit' = buildJUnit(data, IF exit = "zero" THEN "none" ELSE exit)
              \/ exit' \in {"status", "error"} /\ exit' # "zero" /\ junit' = {} /\ (exit' = exit \/ exit' = "error")
BY DEF WriteJUnit, Course, NoFault

\* Each step keeps the course of the run and the shape of its data.
LEMMA CourseStep ==
    ASSUME Course, DataRecord, WorldKnown, [Next]_vars
    PROVE  Course' /\ DataRecord'
<1>1. ASSUME faults' = faults \/ Fault PROVE faults' \in Nat
  BY <1>1 DEF Fault, Course
<1>2. CASE Around
  <2>1. Course'
    BY <1>1, <1>2, AroundQuiet DEF Course
  <2> QED
    BY <1>2, <2>1, AroundQuiet DEF DataRecord
<1>3. CASE Prepare
  <2> USE <1>3, PrepareStep
  <2>1. /\ pc = "prepare" /\ only' \in BOOLEAN /\ junit' = junit /\ DataRecord'
        /\ faults' \in Nat
    BY <1>1
  <2>2. \/ pc' = "junit" /\ exit' = "error"
        \/ pc' = (IF only' THEN "matrix" ELSE "version") /\ exit' = exit
    OBVIOUS
  <2> QED
    BY <2>1, <2>2 DEF Course
<1>4. CASE CheckVersion \/ CheckComponents \/ CheckValues \/ CheckStrays
  <2>1. /\ UNCHANGED <<only, exit, junit>> /\ faults' \in Nat
        /\ pc \in {"version", "component", "values", "strays"}
        /\ pc' \in {"component", "values", "strays", "manifests"}
    BY <1>1, <1>4, VersionStep, ComponentStep, ValuesStep, StrayStep
  <2>2. DataRecord'
    BY <1>4, VersionStep, ComponentStep, ValuesStep, StrayStep
  <2> QED
    BY <2>1, <2>2 DEF Course
<1>5. CASE ValidateManifests
  <2>1. \/ pc' = "junit" /\ exit' = "error" /\ data' = data
        \/ pc' \in {"wait", "gate"} /\ exit' = exit /\ ReadManifests
    BY <1>5, ManifestsStep
  <2>2. pc = "manifests" /\ UNCHANGED <<only, junit>> /\ faults' \in Nat
    BY <1>1, <1>5, ManifestsStep, PassStep
  <2>3. DataRecord'
    BY <2>1, PassStep DEF DataRecord
  <2> QED
    BY <2>1, <2>2, <2>3 DEF Course
<1>6. CASE WaitForReconcile
  BY <1>6, WaitStep DEF Course, DataRecord
<1>7. CASE Poll
  <2>1. pc = "poll" /\ pc' = "wait" /\ UNCHANGED <<only, junit, exit>> /\ faults' \in Nat
    BY <1>1, <1>7, PollStep, PassStep
  <2>2. DataRecord'
    BY <1>7, PollStep, PassStep DEF DataRecord
  <2> QED
    BY <2>1, <2>2 DEF Course
<1>8. CASE Gate
  <2>1. pc = "gate" /\ UNCHANGED <<data, only, junit>> /\ faults' \in Nat
    BY <1>1, <1>8, GateStep
  <2>2. \/ pc' = "matrix" /\ exit' = exit
        \/ pc' = "junit" /\ exit' \in {"status", "zero"}
    BY <1>8, GateStep
  <2> QED
    BY <2>1, <2>2 DEF Course, DataRecord
<1>9. CASE RunMatrix
  <2>1. pc = "matrix" /\ UNCHANGED <<only, junit>> /\ DataRecord' /\ faults' \in Nat
    BY <1>1, <1>9, MatrixStep
  <2>2. \/ pc' = "junit" /\ exit' = "error"
        \/ pc' = "finish" /\ exit' = exit
    BY <1>9, MatrixStep
  <2> QED
    BY <2>1, <2>2 DEF Course
<1>10. CASE Finish
  <2>1. pc = "finish" /\ UNCHANGED <<data, only, junit>> /\ faults' \in Nat
    BY <1>1, <1>10, FinishStep
  <2>2. pc' = "junit" /\ exit' \in {"status", "zero"}
    BY <1>10, FinishStep
  <2> QED
    BY <2>1, <2>2 DEF Course, DataRecord
<1>11. CASE WriteJUnit
  <2>1. /\ pc = "junit" /\ pc' = "done" /\ UNCHANGED <<data, only>> /\ faults' \in Nat
        /\ exit' = exit \/ exit' \in {"status", "error"}
    BY <1>1, <1>11, JUnitStep
  <2> QED
    BY <2>1 DEF Course, DataRecord
<1> QED
  BY <1>2, <1>3, <1>4, <1>5, <1>6, <1>7, <1>8, <1>9, <1>10, <1>11 DEF Next, Run, Around

LEMMA CourseInvariant == Spec => [](Course /\ DataRecord)
<1>1. Init => Course /\ DataRecord
  <2> SUFFICES ASSUME Init PROVE Course /\ DataRecord
    OBVIOUS
  <2>1. /\ pc = "prepare" /\ data = NoData /\ only = FALSE /\ exit = "none" /\ junit = {}
        /\ faults = 0
    BY DEF Init
  <2>2. DataRecord
    BY <2>1 DEF DataRecord, NoData
  <2> QED
    BY <2>1, <2>2 DEF Course
<1>2. Course /\ DataRecord /\ WorldKnown /\ [Next]_vars => (Course /\ DataRecord)'
  BY CourseStep
<1> QED
  BY <1>1, <1>2, WorldInvariant, PTL DEF Spec

-----------------------------------------------------------------------------
(* What a run knows when it ends.                                          *)

AfterStrays  == {"manifests", "wait", "poll", "gate", "matrix", "finish", "junit", "done"}
AfterValues  == AfterStrays \union {"strays"}
AfterParts   == AfterValues \union {"values"}
AfterVersion == AfterParts \union {"component"}
AfterPass    == AfterStrays \ {"manifests"}

\* The writer's data is that of the request.
Prepared ==
    pc # "prepare" /\ exit # "error" =>
      /\ data.checks = Checks
      /\ data.coverage <=> (Ocp /\ Enabled) \/ only
      /\ \A i \in DOMAIN data.presets :
           data.presets[i].status \in {"match", "skipped", "not-found", "deviation"}
      /\ only = TRUE => /\ data.version = NotMade /\ data.component = NotMade
                        /\ data.values = NotMade /\ data.stray = NotMade
                        /\ data.results = {}

\* If no read failed, a check says what the cluster does.
Reads ==
    only = FALSE /\ exit # "error" /\ faults = 0 =>
      /\ pc \in AfterVersion => data.version = VersionRead
      /\ pc \in AfterParts => data.component = ComponentRead
      /\ pc \in AfterValues => data.values = ValuesRead
      /\ pc \in AfterStrays => data.stray = StrayRead

\* The results are those of the objects as they were seen.
Judged ==
    only = FALSE /\ exit # "error" /\ pc \in AfterPass =>
      /\ data.results = ValidateBundleWithConfig(inp.docs, seen, Ocp)
      /\ \A d \in ToSet(inp.docs) : d.role = "deployment" => seen[d.id].state \in States

\* Only a bundle whose objects are all ready goes on to the matrix.
Passed ==
    only = FALSE /\ pc \in {"matrix", "finish"} =>
      ~Verdict.error /\ ~Verdict.missing /\ ~Verdict.progress

\* The matrix of a run that goes on is a real one.
Measured ==
    exit # "error" =>
      /\ data.matrix # <<>> => RowsKnown(data.matrix[1])
      /\ pc = "finish" /\ Enabled => data.matrix # <<>>

\* What exit code 0 stands for.
Earned ==
    exit = "zero" =>
      /\ only = TRUE => connectivityOnlyVerdict(data.matrix, Checks)
      /\ only = FALSE => Sound /\ ~Verdict.error /\ ~Verdict.missing
      /\ only = TRUE \/ ~Verdict.progress =>
           FinishedWell /\ (Enabled => data.matrix # <<>>)

\* What the JUnit file is.
Written ==
    pc = "done" /\ junit # {} =>
      \/ exit = "zero" /\ junit = buildJUnit(data, "none")
      \/ exit \in {"status", "error"} /\ junit = buildJUnit(data, exit)

\* What a step leaves alone.
LEMMA FieldsKept ==
    ASSUME Course, DataRecord, WorldKnown, [Next]_vars
    PROVE  /\ pc # "prepare" => /\ only' = only /\ data'.checks = data.checks
                                /\ data'.coverage = data.coverage
                                /\ data'.presets = data.presets
           /\ pc \notin {"prepare", "version"} => data'.version = data.version
           /\ pc \notin {"prepare", "component"} => data'.component = data.component
           /\ pc \notin {"prepare", "values"} => data'.values = data.values
           /\ pc \notin {"prepare", "strays"} => data'.stray = data.stray
           /\ pc \notin {"prepare", "manifests", "poll"} =>
                data'.results = data.results /\ seen' = seen
           /\ pc \notin {"prepare", "matrix"} => data'.matrix = data.matrix
<1>1. CASE Prepare
  BY <1>1, PrepareStep
<1>2. CASE CheckVersion
  <2>1. pc = "version" /\ only' = only /\ seen' = seen
    BY <1>2, VersionStep
  <2>2. data' = [data EXCEPT !.version = data'.version]
    BY <1>2, VersionStep
  <2> QED
    BY <2>1, <2>2 DEF DataRecord
<1>3. CASE CheckComponents
  <2>1. pc = "component" /\ only' = only /\ seen' = seen
    BY <1>3, ComponentStep
  <2>2. data' = [data EXCEPT !.component = data'.component]
    BY <1>3, ComponentStep
  <2> QED
    BY <2>1, <2>2 DEF DataRecord
<1>4. CASE CheckValues
  <2>1. pc = "values" /\ only' = only /\ seen' = seen
    BY <1>4, ValuesStep
  <2>2. data' = [data EXCEPT !.values = data'.values]
    BY <1>4, ValuesStep
  <2> QED
    BY <2>1, <2>2 DEF DataRecord
<1>5. CASE CheckStrays
  <2>1. pc = "strays" /\ only' = only /\ seen' = seen
    BY <1>5, StrayStep
  <2>2. data' = [data EXCEPT !.stray = data'.stray]
    BY <1>5, StrayStep
  <2> QED
    BY <2>1, <2>2 DEF DataRecord
<1>6. CASE ValidateManifests \/ Poll
  <2>1. pc \in {"manifests", "poll"} /\ only' = only
    BY <1>6, ManifestsStep, PollStep
  <2>2. \/ data' = data
        \/ data' = [data EXCEPT !.results = ValidateBundleWithConfig(inp.docs, seen', Ocp)]
    BY <1>6, ManifestsStep, PollStep, PassStep
  <2>3. CASE data' = data
    BY <2>1, <2>3
  <2>4. CASE data' = [data EXCEPT !.results = ValidateBundleWithConfig(inp.docs, seen', Ocp)]
    <3> DEFINE new == ValidateBundleWithConfig(inp.docs, seen', Ocp)
    <3> HIDE DEF new
    <3>1. data' = [data EXCEPT !.results = new]
      BY <2>4 DEF new
    <3> QED
      BY <2>1, <3>1 DEF DataRecord
  <2> QED
    BY <2>2, <2>3, <2>4
<1>7. CASE RunMatrix
  <2>1. pc = "matrix" /\ only' = only /\ seen' = seen
    BY <1>7, MatrixStep
  <2>2. \/ data' = data
        \/ \E m : data' = [data EXCEPT !.matrix = <<m>>]
    BY <1>7 DEF RunMatrix
  <2> QED
    BY <2>1, <2>2 DEF DataRecord
<1>8. CASE WaitForReconcile \/ Gate \/ Finish \/ WriteJUnit \/ Around
  <2>1. data' = data /\ seen' = seen /\ only' = only
    BY <1>8, WaitStep, GateStep, FinishStep, JUnitStep, AroundQuiet
  <2> QED
    BY <2>1
<1> QED
  BY <1>1, <1>2, <1>3, <1>4, <1>5, <1>6, <1>7, <1>8 DEF Next, Run, Around

\* The order of the steps of a run that no error ends.
LEMMA Flow ==
    ASSUME Course, DataRecord, WorldKnown, [Next]_vars, exit' # "error"
    PROVE  /\ exit # "error"
           /\ \/ pc' = pc /\ exit' = exit /\ junit' = junit
              \/ Prepare /\ pc = "prepare" /\ pc' = (IF only' THEN "matrix" ELSE "version")
              \/ CheckVersion /\ pc = "version" /\ pc' = "component"
              \/ CheckComponents /\ pc = "component" /\ pc' = "values"
              \/ CheckValues /\ pc = "values" /\ pc' = "strays"
              \/ CheckStrays /\ pc = "strays" /\ pc' = "manifests"
              \/ ReadManifests /\ pc = "manifests" /\ pc' \in {"wait", "gate"}
              \/ pc = "wait" /\ pc' \in {"gate", "poll"}
              \/ Poll /\ pc = "poll" /\ pc' = "wait"
              \/ Gate /\ pc = "gate" /\ pc' \in {"matrix", "junit"}
              \/ RunMatrix /\ pc = "matrix" /\ pc' = "finish"
              \/ Finish /\ pc = "finish" /\ pc' = "junit"
              \/ WriteJUnit /\ pc = "junit" /\ pc' = "done"
           /\ pc' # "junit" /\ pc' # "done" => exit' = exit
<1>1. CASE Prepare
  BY <1>1, PrepareStep DEF Course
<1>2. CASE CheckVersion \/ CheckComponents \/ CheckValues \/ CheckStrays
  BY <1>2, VersionStep, ComponentStep, ValuesStep, StrayStep
<1>3. CASE ValidateManifests
  BY <1>3, ManifestsStep
<1>4. CASE WaitForReconcile \/ Poll
  BY <1>4, WaitStep, PollStep
<1>5. CASE Gate
  BY <1>5, GateStep DEF Course
<1>6. CASE RunMatrix
  BY <1>6, MatrixStep
<1>7. CASE Finish
  BY <1>7, FinishStep DEF Course
<1>8. CASE WriteJUnit
  BY <1>8, JUnitStep
<1>9. CASE Around
  BY <1>9, AroundQuiet
<1> QED
  BY <1>1, <1>2, <1>3, <1>4, <1>5, <1>6, <1>7, <1>8, <1>9 DEF Next, Run, Around

\* Failures are counted.
LEMMA FaultsGrow ==
    ASSUME Course, DataRecord, WorldKnown, [Next]_vars
    PROVE  faults' = faults \/ Fault
<1>1. CASE Around
  BY <1>1, AroundQuiet
<1>2. CASE Prepare
  BY <1>2, PrepareStep
<1>3. CASE CheckVersion \/ CheckComponents \/ CheckValues \/ CheckStrays
  BY <1>3, VersionStep, ComponentStep, ValuesStep, StrayStep
<1>4. CASE ValidateManifests \/ WaitForReconcile \/ Poll
  BY <1>4, ManifestsStep, WaitStep, PollStep, PassStep
<1>5. CASE Gate \/ RunMatrix \/ Finish \/ WriteJUnit
  BY <1>5, GateStep, MatrixStep, FinishStep, JUnitStep
<1> QED
  BY <1>1, <1>2, <1>3, <1>4, <1>5 DEF Next, Run, Around

\* A preset check has one of four outcomes.
LEMMA PresetStatus ==
    ASSUME NEW groups, NEW entries, NEW presets \in {<<>>, MatchAllWithCatalog(groups, entries)},
           NEW i \in DOMAIN presets
    PROVE  presets[i].status \in {"match", "skipped", "not-found", "deviation"}
<1>1. presets = MatchAllWithCatalog(groups, entries)
  OBVIOUS
<1>2. presets[i] = MatchGroupWithCatalog(groups[i], entries)
  BY <1>1 DEF MatchAllWithCatalog
<1>3. \A g : MatchGroupWithCatalog(g, entries).status
               \in {"match", "skipped", "not-found", "deviation"}
  <2> TAKE g
  <2> DEFINE p == LoadPreset(entries, g.machine, g.gpu)
             d == ValidatePreset(p[1].pfs, g.pfs)
             found == IF d = {} THEN "match" ELSE "deviation"
             r == [status |-> found, deviations |-> d, preset |-> p[1].pfs]
             skip == [status |-> "skipped", deviations |-> {}, preset |-> <<>>]
             none == [status |-> "not-found", deviations |-> {}, preset |-> <<>>]
  <2>1. MatchGroupWithCatalog(g, entries) \in {skip, none, r}
    BY DEF MatchGroupWithCatalog
  <2>2. /\ skip.status = "skipped" /\ none.status = "not-found"
        /\ r.status \in {"match", "deviation"}
    OBVIOUS
  <2> HIDE DEF r, skip, none
  <2> QED
    BY <2>1, <2>2
<1> QED
  BY <1>2, <1>3

LEMMA PreparedInvariant == Spec => []Prepared
<1>1. Init => Prepared
  BY DEF Init, Prepared
<1>2. Prepared /\ Course /\ DataRecord /\ WorldKnown /\ [Next]_vars => Prepared'
  <2> SUFFICES ASSUME Prepared, Course, DataRecord, WorldKnown, [Next]_vars,
                      pc' # "prepare", exit' # "error"
               PROVE  Prepared'
    BY DEF Prepared
  <2>1. UNCHANGED <<Ocp, Enabled, Checks, Release, SkipHelm, Loaded>>
    BY RequestFixed, DerivedFixed
  <2>2. CASE pc = "prepare"
    <3>1. Prepare
      BY <2>2, Flow
    <3>2. /\ only' \in BOOLEAN
          /\ data'.version = NotMade /\ data'.component = NotMade
          /\ data'.values = NotMade /\ data'.stray = NotMade
          /\ data'.results = {} /\ data'.checks = Checks
          /\ data'.presets \in {<<>>, MatchAllWithCatalog(C.groups, Catalog)}
      BY <3>1, PrepareStep
    <3>3. data'.coverage <=> (Ocp /\ Enabled) \/ only'
      BY <3>1, PrepareStep
    <3>4. \A i \in DOMAIN data'.presets :
            data'.presets[i].status \in {"match", "skipped", "not-found", "deviation"}
      BY <3>2, PresetStatus
    <3> QED
      BY <2>1, <3>2, <3>3, <3>4 DEF Prepared
  <2>3. CASE pc # "prepare"
    <3>1. exit # "error"
      BY Flow
    <3>2. /\ only' = only /\ data'.checks = data.checks /\ data'.coverage = data.coverage
          /\ data'.presets = data.presets
      BY <2>3, FieldsKept
    <3>3. /\ data.checks = Checks
          /\ \A i \in DOMAIN data.presets :
               data.presets[i].status \in {"match", "skipped", "not-found", "deviation"}
      BY <2>3, <3>1 DEF Prepared
    <3>4. data.coverage <=> (Ocp /\ Enabled) \/ only
      BY <2>3, <3>1 DEF Prepared
    <3>5. only = TRUE => /\ data'.version = NotMade /\ data'.component = NotMade
                         /\ data'.values = NotMade /\ data'.stray = NotMade
                         /\ data'.results = {}
      <4> SUFFICES ASSUME only = TRUE PROVE /\ data'.version = NotMade /\ data'.component = NotMade
                                            /\ data'.values = NotMade /\ data'.stray = NotMade
                                            /\ data'.results = {}
        OBVIOUS
      <4>1. pc \in {"matrix", "finish", "junit", "done"}
        BY <3>1 DEF Course
      <4>2. /\ data'.version = data.version /\ data'.component = data.component
            /\ data'.values = data.values /\ data'.stray = data.stray
            /\ data'.results = data.results
        BY <4>1, FieldsKept
      <4> QED
        BY <2>3, <3>1, <4>2 DEF Prepared
    <3>6. data'.coverage <=> (Ocp' /\ Enabled') \/ only'
      BY <2>1, <3>2, <3>4
    <3> QED
      BY <2>1, <3>2, <3>3, <3>5, <3>6 DEF Prepared
  <2> QED
    BY <2>2, <2>3
<1> QED
  BY <1>1, <1>2, CourseInvariant, WorldInvariant, PTL DEF Spec

LEMMA ReadsInvariant == Spec => []Reads
<1>1. Init => Reads
  BY DEF Init, Reads, AfterVersion, AfterParts, AfterValues, AfterStrays
<1>2. Reads /\ Course /\ DataRecord /\ WorldKnown /\ [Next]_vars => Reads'
  <2> SUFFICES ASSUME Reads, Course, DataRecord, WorldKnown, [Next]_vars,
                      only' = FALSE, exit' # "error", faults' = 0
               PROVE  /\ pc' \in AfterVersion => data'.version = VersionRead'
                      /\ pc' \in AfterParts => data'.component = ComponentRead'
                      /\ pc' \in AfterValues => data'.values = ValuesRead'
                      /\ pc' \in AfterStrays => data'.stray = StrayRead'
    BY DEF Reads
  <2>1. UNCHANGED <<inp, Ocp, Enabled, Checks, Release, SkipHelm, Loaded>>
    BY RequestFixed, DerivedFixed
  <2>2. UNCHANGED <<VersionRead, ComponentRead, ValuesRead, StrayRead>>
    BY <2>1, PartsFixed DEF VersionRead, ComponentRead, ValuesRead, StrayRead
  <2>3. faults = 0
    <3>1. faults \in Nat
      BY DEF Course
    <3>2. faults' = faults \/ faults' = faults + 1
      BY FaultsGrow DEF Fault
    <3> QED
      BY <3>1, <3>2
  <2>4. exit # "error" /\ (pc # "prepare" => only = FALSE)
    BY Flow, FieldsKept
  <2>5. /\ pc' \in AfterVersion => CheckVersion \/ pc \in AfterVersion
        /\ pc' \in AfterParts => CheckComponents \/ pc \in AfterParts
        /\ pc' \in AfterValues => CheckValues \/ pc \in AfterValues
        /\ pc' \in AfterStrays => CheckStrays \/ pc \in AfterStrays
    BY Flow DEF AfterVersion, AfterParts, AfterValues, AfterStrays
  <2>6. "prepare" \notin AfterVersion /\ "version" \notin AfterVersion
        /\ "prepare" \notin AfterParts /\ "component" \notin AfterParts
        /\ "prepare" \notin AfterValues /\ "values" \notin AfterValues
        /\ "prepare" \notin AfterStrays /\ "strays" \notin AfterStrays
    BY DEF AfterVersion, AfterParts, AfterValues, AfterStrays
  <2>7. ASSUME pc' \in AfterVersion PROVE data'.version = VersionRead'
    <3>1. CASE CheckVersion
      BY <2>2, <2>3, <3>1, VersionStep
    <3>2. CASE pc \in AfterVersion
      BY <2>2, <2>3, <2>4, <2>6, <3>2, FieldsKept DEF Reads
    <3> QED
      BY <2>5, <2>7, <3>1, <3>2
  <2>8. ASSUME pc' \in AfterParts PROVE data'.component = ComponentRead'
    <3>1. CASE CheckComponents
      BY <2>2, <2>3, <3>1, ComponentStep
    <3>2. CASE pc \in AfterParts
      BY <2>2, <2>3, <2>4, <2>6, <3>2, FieldsKept DEF Reads
    <3> QED
      BY <2>5, <2>8, <3>1, <3>2
  <2>9. ASSUME pc' \in AfterValues PROVE data'.values = ValuesRead'
    <3>1. CASE CheckValues
      BY <2>2, <2>3, <3>1, ValuesStep
    <3>2. CASE pc \in AfterValues
      BY <2>2, <2>3, <2>4, <2>6, <3>2, FieldsKept DEF Reads
    <3> QED
      BY <2>5, <2>9, <3>1, <3>2
  <2>10. ASSUME pc' \in AfterStrays PROVE data'.stray = StrayRead'
    <3>1. CASE CheckStrays
      BY <2>2, <2>3, <3>1, StrayStep
    <3>2. CASE pc \in AfterStrays
      BY <2>2, <2>3, <2>4, <2>6, <3>2, FieldsKept DEF Reads
    <3> QED
      BY <2>5, <2>10, <3>1, <3>2
  <2> QED
    BY <2>7, <2>8, <2>9, <2>10
<1> QED
  BY <1>1, <1>2, CourseInvariant, WorldInvariant, PTL DEF Spec

LEMMA JudgedInvariant == Spec => []Judged
<1>1. Init => Judged
  BY DEF Init, Judged, AfterPass, AfterStrays
<1>2. Judged /\ Course /\ DataRecord /\ WorldKnown /\ [Next]_vars => Judged'
  <2> SUFFICES ASSUME Judged, Course, DataRecord, WorldKnown, [Next]_vars,
                      only' = FALSE, exit' # "error", pc' \in AfterPass
               PROVE  /\ data'.results = ValidateBundleWithConfig(inp'.docs, seen', Ocp')
                      /\ \A d \in ToSet(inp'.docs) :
                           d.role = "deployment" => seen'[d.id].state \in States
    BY DEF Judged
  <2>1. inp' = inp /\ Ocp' = Ocp
    BY RequestFixed, DerivedFixed
  <2>2. exit # "error" /\ (pc # "prepare" => only = FALSE)
    BY Flow, FieldsKept
  <2>3. \/ ReadManifests
        \/ pc \in AfterPass /\ data' = data /\ seen' = seen
        \/ pc \in AfterPass /\ pc # "poll"
    <3>1. ReadManifests \/ pc \in AfterPass
      BY Flow DEF AfterPass, AfterStrays
    <3>2. CASE pc = "poll" /\ pc' = "wait"
      <4>1. Poll
        BY <3>2, Flow
      <4> QED
        BY <3>1, <4>1, PollStep
    <3>3. CASE pc = "poll" /\ pc' # "wait"
      <4>1. Around
        BY <3>3, Flow, PollStep, PrepareStep, VersionStep, ComponentStep, ValuesStep,
           StrayStep, ManifestsStep, WaitStep, GateStep, MatrixStep, FinishStep, JUnitStep
           DEF Next, Run, Around
      <4> QED
        BY <3>1, <4>1, AroundQuiet
    <3> QED
      BY <3>1, <3>2, <3>3
  <2>4. CASE ReadManifests
    BY <2>1, <2>4, PassStep
  <2>5. CASE pc \in AfterPass /\ data'.results = data.results /\ seen' = seen
    <3>1. pc # "prepare"
      BY <2>5 DEF AfterPass, AfterStrays
    <3> QED
      BY <2>1, <2>2, <2>5, <3>1 DEF Judged
  <2>6. CASE pc \in AfterPass /\ pc # "poll"
    <3>1. pc \notin {"prepare", "manifests", "poll"}
      BY <2>6 DEF AfterPass, AfterStrays
    <3> QED
      BY <2>5, <2>6, <3>1, FieldsKept
  <2> QED
    BY <2>3, <2>4, <2>5, <2>6
<1> QED
  BY <1>1, <1>2, CourseInvariant, WorldInvariant, PTL DEF Spec

LEMMA PassedInvariant == Spec => []Passed
<1>1. Init => Passed
  BY DEF Init, Passed
<1>2. Passed /\ Course /\ DataRecord /\ WorldKnown /\ [Next]_vars => Passed'
  <2> SUFFICES ASSUME Passed, Course, DataRecord, WorldKnown, [Next]_vars,
                      only' = FALSE, pc' \in {"matrix", "finish"}
               PROVE  ~Verdict'.error /\ ~Verdict'.missing /\ ~Verdict'.progress
    BY DEF Passed
  <2>1. Course'
    BY CourseStep
  <2>2. exit' # "error"
    BY <2>1 DEF Course
  <2>3. \/ Gate /\ pc = "gate" /\ pc' = "matrix"
        \/ pc \in {"matrix", "finish"}
    BY <2>2, Flow
  <2>4. /\ data'.version = data.version /\ data'.results = data.results /\ only' = only
        /\ Verdict' = Verdict
    BY <2>3, FieldsKept DEF Verdict
  <2>5. CASE Gate /\ pc = "gate" /\ pc' = "matrix"
    <3>1. ~Verdict.error /\ ~Verdict.missing /\ ~Verdict.progress
      BY <2>5, GateStep
    <3> QED
      BY <2>4, <3>1
  <2>6. CASE pc \in {"matrix", "finish"}
    BY <2>4, <2>6 DEF Passed
  <2> QED
    BY <2>3, <2>5, <2>6
<1> QED
  BY <1>1, <1>2, CourseInvariant, WorldInvariant, PTL DEF Spec

LEMMA MeasuredInvariant == Spec => []Measured
<1>1. Init => Measured
  BY DEF Init, Measured, NoData
<1>2. Measured /\ Course /\ DataRecord /\ WorldKnown /\ [Next]_vars => Measured'
  <2> SUFFICES ASSUME Measured, Course, DataRecord, WorldKnown, [Next]_vars, exit' # "error"
               PROVE  /\ data'.matrix # <<>> => RowsKnown(data'.matrix[1])
                      /\ pc' = "finish" /\ Enabled' => data'.matrix # <<>>
    BY DEF Measured
  <2>1. Enabled' = Enabled
    BY RequestFixed, DerivedFixed
  <2>2. /\ exit # "error"
        /\ \/ Prepare /\ pc = "prepare" /\ pc' # "finish"
           \/ RunMatrix /\ pc' = "finish"
           \/ pc \notin {"prepare", "matrix"} /\ (pc' = "finish" => pc = "finish")
           \/ pc' = pc /\ pc \in {"prepare", "matrix"}
    BY Flow
  <2>3. CASE Prepare /\ pc = "prepare" /\ pc' # "finish"
    <3>1. data'.matrix = <<>>
      BY <2>3, PrepareStep
    <3> QED
      BY <2>3, <3>1
  <2>4. CASE RunMatrix /\ pc' = "finish"
    <3>1. \/ ~Enabled /\ data' = data
          \/ \E m : RowsKnown(m) /\ data' = [data EXCEPT !.matrix = <<m>>]
      BY <2>4, MatrixStep
    <3>2. CASE ~Enabled /\ data' = data
      BY <2>1, <2>2, <3>2 DEF Measured
    <3>3. CASE \E m : RowsKnown(m) /\ data' = [data EXCEPT !.matrix = <<m>>]
      <4>1. PICK m : RowsKnown(m) /\ data' = [data EXCEPT !.matrix = <<m>>]
        BY <3>3
      <4>2. data'.matrix = <<m>> /\ <<m>> # <<>> /\ <<m>>[1] = m
        BY <4>1 DEF DataRecord
      <4> QED
        BY <4>1, <4>2
    <3> QED
      BY <3>1, <3>2, <3>3
  <2>5. CASE pc \notin {"prepare", "matrix"} /\ (pc' = "finish" => pc = "finish")
    <3>1. data'.matrix = data.matrix
      BY <2>5, FieldsKept
    <3> QED
      BY <2>1, <2>2, <2>5, <3>1 DEF Measured
  <2>6. CASE pc' = pc /\ pc \in {"prepare", "matrix"}
    <3>1. Around
      BY <2>6, PollStep, PrepareStep, VersionStep, ComponentStep, ValuesStep, StrayStep,
         ManifestsStep, WaitStep, GateStep, MatrixStep, FinishStep, JUnitStep
         DEF Next, Run, Around
    <3> QED
      BY <2>2, <2>6, <3>1, AroundQuiet DEF Measured
  <2> QED
    BY <2>2, <2>3, <2>4, <2>5, <2>6
<1> QED
  BY <1>1, <1>2, CourseInvariant, WorldInvariant, PTL DEF Spec

LEMMA EarnedInvariant == Spec => []Earned
<1>1. Init => Earned
  BY DEF Init, Earned
<1>2. /\ Earned /\ Passed /\ Measured /\ Course /\ DataRecord /\ WorldKnown
      /\ [Next]_vars
      => Earned'
  <2> SUFFICES ASSUME Earned, Passed, Measured, Course, DataRecord, WorldKnown, [Next]_vars,
                      exit' = "zero"
               PROVE  Earned'
    BY DEF Earned
  <2>1. UNCHANGED <<Ocp, Enabled, Checks, Release, SkipHelm, Loaded>>
    BY RequestFixed, DerivedFixed
  <2>2. Course' /\ pc' \in {"junit", "done"}
    BY CourseStep DEF Course
  <2>3. \/ Gate /\ pc = "gate" /\ pc' = "junit"
        \/ Finish /\ pc = "finish"
        \/ pc \in {"junit", "done"} /\ exit = "zero"
    <3>1. \/ Gate /\ pc = "gate" /\ pc' = "junit"
          \/ Finish /\ pc = "finish"
          \/ WriteJUnit /\ pc = "junit"
          \/ pc' = pc /\ exit' = exit
      BY <2>2, Flow
    <3>2. CASE WriteJUnit /\ pc = "junit"
      BY <3>2, JUnitStep
    <3> QED
      BY <2>2, <3>1, <3>2
  <2>4. CASE data' = data /\ only' = only
    <3>1. Verdict' = Verdict /\ (FinishedWell <=> FinishedWell') /\ (Sound <=> Sound')
      BY <2>1, <2>4 DEF Verdict, FinishedWell, Sound
    <3>2. connectivityOnlyVerdict(data.matrix, Checks)
            <=> connectivityOnlyVerdict(data'.matrix, Checks')
      BY <2>1, <2>4
    <3>3. CASE Gate /\ pc = "gate" /\ pc' = "junit"
      <4>1. only = FALSE
        BY <3>3 DEF Course
      <4>2. Sound /\ ~Verdict.error /\ ~Verdict.missing /\ Verdict.progress
        BY <3>3, GateStep
      <4> QED
        BY <2>4, <3>1, <4>1, <4>2 DEF Earned
    <3>4. CASE Finish /\ pc = "finish"
      <4>1. /\ FinishedWell
            /\ only => connectivityOnlyVerdict(data.matrix, Checks)
            /\ ~only => Sound
        BY <3>4, FinishStep
      <4>2. only \in BOOLEAN /\ exit = "none"
        BY <3>4 DEF Course
      <4>3. Enabled => data.matrix # <<>>
        BY <3>4, <4>2 DEF Measured
      <4>4. only = FALSE => ~Verdict.error /\ ~Verdict.missing
        BY <3>4 DEF Passed
      <4> QED
        BY <2>1, <2>4, <3>1, <3>2, <4>1, <4>2, <4>3, <4>4 DEF Earned
    <3>5. CASE pc \in {"junit", "done"} /\ exit = "zero"
      BY <2>1, <2>4, <3>1, <3>2, <3>5 DEF Earned
    <3> QED
      BY <2>3, <3>3, <3>4, <3>5
  <2>5. data' = data /\ only' = only
    <3>1. CASE pc \in {"junit", "done"}
      <4>1. WriteJUnit \/ Around
        BY <3>1, PollStep, PrepareStep, VersionStep, ComponentStep, ValuesStep, StrayStep,
           ManifestsStep, WaitStep, GateStep, MatrixStep, FinishStep
           DEF Next, Run, Around
      <4> QED
        BY <4>1, JUnitStep, AroundQuiet
    <3> QED
      BY <2>3, <3>1, GateStep, FinishStep
  <2> QED
    BY <2>4, <2>5
<1> QED
  BY <1>1, <1>2, PassedInvariant, MeasuredInvariant, CourseInvariant, WorldInvariant, PTL
     DEF Spec

LEMMA WrittenInvariant == Spec => []Written
<1>1. Init => Written
  BY DEF Init, Written
<1>2. Written /\ Course /\ DataRecord /\ WorldKnown /\ [Next]_vars => Written'
  <2> SUFFICES ASSUME Written, Course, DataRecord, WorldKnown, [Next]_vars,
                      pc' = "done", junit' # {}
               PROVE  Written'
    BY DEF Written
  <2>1. WriteJUnit \/ Around
    BY PollStep, PrepareStep, VersionStep, ComponentStep, ValuesStep, StrayStep,
       ManifestsStep, WaitStep, GateStep, MatrixStep, FinishStep DEF Next, Run, Around
  <2>2. CASE WriteJUnit
    <3>1. /\ pc = "junit" /\ data' = data
          /\ exit' = exit /\ junit' = buildJUnit(data, IF exit = "zero" THEN "none" ELSE exit)
      BY <2>2, JUnitStep
    <3>2. exit \in {"zero", "status", "error"}
      BY <3>1 DEF Course
    <3> QED
      BY <3>1, <3>2 DEF Written
  <2>3. CASE Around
    BY <2>3, AroundQuiet DEF Written
  <2> QED
    BY <2>1, <2>2, <2>3
<1> QED
  BY <1>1, <1>2, CourseInvariant, WorldInvariant, PTL DEF Spec

-----------------------------------------------------------------------------
(* The theorems.                                                           *)

\* Exit code 0 is earned: with no failed read the release, the policies, the
\* values and the strays are as configured, no object was last seen missing or
\* broken, and once everything is ready the matrix ran, nothing in it failed and
\* what is required of it was tested.
THEOREM ZeroIsEarned == Spec => []SuccessIsEarned
<1>1. Reads /\ Judged /\ Measured /\ Earned /\ Course /\ WorldKnown => SuccessIsEarned
  <2> SUFFICES ASSUME Reads, Judged, Measured, Earned, Course, WorldKnown,
                      pc = "done", exit = "zero"
               PROVE  SuccessIsEarned
    BY DEF SuccessIsEarned
  <2>1. pc \in AfterVersion /\ pc \in AfterParts /\ pc \in AfterValues /\ pc \in AfterStrays
        /\ pc \in AfterPass
    BY DEF AfterVersion, AfterParts, AfterValues, AfterStrays, AfterPass
  <2>2. only \in BOOLEAN
    BY DEF Course
  <2>3. ASSUME only = FALSE, faults = 0, Release, ~SkipHelm,
               NEW s \in world.secrets, s.helm, s.name = "network-operator", s.app # "corrupt",
               \A t \in world.secrets : t.helm /\ t.name = s.name => t.rev <= s.rev
        PROVE  s.app = Expected.app
    <3>1. data.version = CheckHelmReleaseVersion(TRUE, TRUE, world.secrets, Expected.app)
      BY <2>1, <2>3 DEF Reads, VersionRead, CheckHelmReleaseVersion
    <3>2. ~Mismatch(data.version)
      BY <2>3 DEF Earned, Sound, Verdict, aggregateVerdict, Mismatch
    <3>3. SecretsOfHelm(world.secrets)
      BY DEF WorldKnown
    <3> QED
      <4>1. ~Mismatch(CheckHelmReleaseVersion(TRUE, TRUE, world.secrets, Expected.app))
        BY <3>1, <3>2
      <4>2. Newest(s, world.secrets)
        BY <2>3 DEF Newest
      <4> QED
        BY <2>3, <3>3, <4>1, <4>2, VersionCompared
  <2>4. ASSUME only = FALSE, faults = 0, Release, world.ncps # <<>>,
               NEW p \in ToSet(world.ncps) \union ToSet(world.nnps), NEW s \in ToSet(p)
        PROVE  s.version \in {"", IF s.kind = "doca" THEN Expected.doca ELSE Expected.component}
    <3>1. data.component = CheckComponentVersions(TRUE, world.ncps, world.nnps,
                                                  Expected.component, Expected.doca)
      BY <2>1, <2>4 DEF Reads, ComponentRead, CheckComponentVersions
    <3>2. ~Mismatch(data.component)
      BY <2>4 DEF Earned, Sound
    <3> QED
      <4>1. ~Mismatch(CheckComponentVersions(TRUE, world.ncps, world.nnps,
                                             Expected.component, Expected.doca))
        BY <3>1, <3>2
      <4> QED
        BY <2>4, <4>1, ComponentsCompared
  <2>5. ASSUME only = FALSE, faults = 0, ~SkipHelm, inp.values # ""
        PROVE  world.values \in {None, inp.values}
    <3>1. data.values = checkHelmReleaseValues(inp.values, world.values)
      BY <2>1, <2>5 DEF Reads, ValuesRead
    <3>2. ~Mismatch(data.values)
      BY <2>5 DEF Earned, Sound
    <3>3. world.values # "unreadable"
      BY DEF WorldKnown, WorldRecord
    <3> QED
      BY <2>5, <3>1, <3>2, <3>3, ValuesCompared
  <2>6. ASSUME only = FALSE, faults = 0
        PROVE  ~world.strays
    <3>1. data.stray = Checked(~world.strays)
      BY <2>1, <2>6 DEF Reads, StrayRead
    <3>2. ~Mismatch(data.stray)
      BY <2>6 DEF Earned, Sound
    <3> QED
      <4>1. data.stray.skipped = FALSE /\ data.stray.ok = ~world.strays
        BY <3>1 DEF Checked
      <4> QED
        BY <3>2, <4>1 DEF Mismatch
  <2>7. ASSUME only = FALSE, NEW d \in ToSet(inp.docs), d.role = "deployment",
               d.kind # "OperatorConfig"
        PROVE  seen[d.id].state \notin {Missing, Error} /\ seen[d.id].scope # "bad"
    <3>1. data.results = ValidateBundleWithConfig(inp.docs, seen, Ocp)
      BY <2>1, <2>7 DEF Judged
    <3>2. ~Verdict.error /\ ~Verdict.missing
      BY <2>7 DEF Earned
    <3> QED
      BY <2>7, <3>1, <3>2, ObjectsJudged DEF Verdict
  <2>8. ASSUME only = TRUE \/ ~Verdict.progress
        PROVE  /\ ~hasPresetDeviation(data.presets)
               /\ Enabled => data.matrix # <<>>
               /\ \A r \in MatrixRows(data.matrix) : r.ok \/ r.skip
               /\ only = TRUE \/ (Ocp /\ Enabled) =>
                    \A c \in ToSet(Checks) : \E r \in MatrixRows(data.matrix) :
                      r.check = c /\ r.exp = "required"
    <3>1. FinishedWell /\ (Enabled => data.matrix # <<>>)
      BY <2>8 DEF Earned
    <3>2. \A r \in MatrixRows(data.matrix) : r.ok \/ r.skip
      BY <3>1 DEF FinishedWell, MatrixFailed
    <3>3. ASSUME only = TRUE \/ (Ocp /\ Enabled), NEW c \in ToSet(Checks)
          PROVE  \E r \in MatrixRows(data.matrix) : r.check = c /\ r.exp = "required"
      <4>1. connectivityOnlyVerdict(data.matrix, Checks)
        BY <3>1, <3>3 DEF FinishedWell, Earned
      <4>2. PICK r \in MatrixRows(data.matrix) : r.check = c /\ r.exp # "observe"
        BY <3>3, <4>1 DEF connectivityOnlyVerdict, connectivityCoverageVerdict
      <4>3. r.exp \in {"observe", "required"}
        BY <4>2 DEF Measured, RowsKnown, MatrixRows
      <4> QED
        BY <4>2, <4>3
    <3> QED
      BY <3>1, <3>2, <3>3 DEF FinishedWell
  <2>9. CASE only = TRUE
    BY <2>8, <2>9 DEF SuccessIsEarned
  <2>10. CASE only = FALSE
    <3>1. faults = 0 /\ Release /\ ~SkipHelm =>
            \A s \in world.secrets :
              /\ s.helm /\ s.name = "network-operator" /\ s.app # "corrupt"
              /\ \A t \in world.secrets : t.helm /\ t.name = s.name => t.rev <= s.rev
              => s.app = Expected.app
      BY <2>3, <2>10
    <3>2. faults = 0 /\ Release /\ world.ncps # <<>> =>
            \A p \in ToSet(world.ncps) \union ToSet(world.nnps) : \A s \in ToSet(p) :
              s.version \in {"", IF s.kind = "doca" THEN Expected.doca ELSE Expected.component}
      BY <2>4, <2>10
    <3>3. faults = 0 /\ ~SkipHelm /\ inp.values # "" => world.values \in {None, inp.values}
      BY <2>5, <2>10
    <3>4. faults = 0 => ~world.strays
      BY <2>6, <2>10
    <3>5. \A d \in ToSet(inp.docs) : d.role = "deployment" /\ d.kind # "OperatorConfig"
            => seen[d.id].state \notin {Missing, Error} /\ seen[d.id].scope # "bad"
      BY <2>7, <2>10
    <3> QED
      BY <2>8, <2>10, <3>1, <3>2, <3>3, <3>4, <3>5 DEF SuccessIsEarned
  <2> QED
    BY <2>2, <2>9, <2>10
<1> QED
  BY <1>1, ReadsInvariant, JudgedInvariant, MeasuredInvariant, EarnedInvariant,
     CourseInvariant, WorldInvariant, PTL

\* The JUnit file agrees with the exit code, whichever way the run ended.
THEOREM ReportTellsExit == Spec => []JUnitTellsExit
<1>1. Written /\ Earned /\ Prepared /\ Judged /\ Course => JUnitTellsExit
  <2> SUFFICES ASSUME Written, Earned, Prepared, Judged, Course, pc = "done", junit # {}
               PROVE  /\ exit # "zero" => junit \cap {"fail", "error"} # {}
                      /\ exit = "zero" /\ (only \/ ~Verdict.progress)
                           => junit \cap {"fail", "error"} = {}
    BY DEF JUnitTellsExit
  <2>1. ASSUME exit # "zero" PROVE junit \cap {"fail", "error"} # {}
    <3>1. exit \in {"status", "error"} /\ junit = buildJUnit(data, exit)
      BY <2>1 DEF Written
    <3> QED
      BY <3>1, FailureHasCase
  <2>2. ASSUME exit = "zero", only \/ ~Verdict.progress
        PROVE  junit \cap {"fail", "error"} = {}
    <3>1. junit = buildJUnit(data, "none") /\ only \in BOOLEAN
      BY <2>2 DEF Written, Course
    <3>2. FinishedWell
      BY <2>2, <3>1 DEF Earned
    <3>3. /\ ~Mismatch(data.version) /\ ~Mismatch(data.component)
          /\ ~Mismatch(data.values) /\ ~Mismatch(data.stray)
      <4>1. CASE only = TRUE
        BY <2>2, <4>1 DEF Prepared, NotMade, Mismatch
      <4>2. CASE only = FALSE
        BY <2>2, <4>2 DEF Earned, Sound, Verdict, aggregateVerdict, Mismatch
      <4> QED
        BY <3>1, <4>1, <4>2
    <3>4. \A r \in data.results : r.skipped \/ r.state \in {Success, Progress}
      <4>1. CASE only = TRUE
        BY <2>2, <4>1 DEF Prepared
      <4>2. CASE only = FALSE
        <5> TAKE r \in data.results
        <5>1. /\ data.results = ValidateBundleWithConfig(inp.docs, seen, Ocp)
              /\ \A d \in ToSet(inp.docs) : d.role = "deployment" => seen[d.id].state \in States
          BY <2>2, <4>2 DEF Judged, AfterPass, AfterStrays
        <5>2. r.skipped = TRUE \/ (r.skipped = FALSE /\ r.state \in States)
          BY <5>1, ResultsTyped
        <5>3. ~Verdict.error /\ ~Verdict.missing
          BY <2>2, <4>2 DEF Earned
        <5>4. ~r.skipped => r.state # Error /\ r.state # Missing
          BY <5>3 DEF Verdict, aggregateVerdict
        <5> QED
          BY <5>2, <5>4 DEF States
      <4> QED
        BY <3>1, <4>1, <4>2
    <3>5. \A i \in DOMAIN data.presets :
            data.presets[i].status \in {"match", "skipped", "not-found"}
      BY <2>2, <3>2 DEF Prepared, FinishedWell, hasPresetDeviation
    <3>6. data.coverage => connectivityCoverageVerdict(data.matrix, data.checks)
      <4>1. data.checks = Checks /\ (data.coverage => (Ocp /\ Enabled) \/ only)
        BY <2>2 DEF Prepared
      <4>2. (Ocp /\ Enabled) \/ only => connectivityOnlyVerdict(data.matrix, Checks)
        BY <2>2, <3>1, <3>2 DEF FinishedWell, Earned
      <4> QED
        BY <4>1, <4>2 DEF connectivityOnlyVerdict
    <3>7. ~MatrixFailed(data.matrix)
      BY <3>2 DEF FinishedWell
    <3> QED
      BY <3>1, <3>3, <3>4, <3>5, <3>6, <3>7, CleanCases
  <2> QED
    BY <2>1, <2>2
<1> QED
  BY <1>1, WrittenInvariant, EarnedInvariant, PreparedInvariant, JudgedInvariant,
     CourseInvariant, PTL
=============================================================================

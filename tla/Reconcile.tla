------------------------------ MODULE Reconcile ------------------------------
(***************************************************************************)
(* One manifest of a deployment, from the pre-apply read to the verdict    *)
(* that ends its wait: applyAndWait and                                    *)
(* pollUntilTerminalWithRetryableErrorTimeout of                           *)
(* pkg/networkoperatorplugin/deploy.go, together with what they race with: *)
(* the API server's object, the controller that reconciles it, third       *)
(* parties that delete or touch it, node labels that drift, and the        *)
(* deploy context.                                                         *)
(*                                                                         *)
(* Every API call is a step of its own, so the cluster may change between  *)
(* any two of them.  Resource versions are numbers here; the code only     *)
(* compares them for equality, and so does the model.                      *)
(***************************************************************************)
EXTENDS Naturals, FiniteSets

CONSTANTS
    Kinds,          \* the kinds of manifest, each by what the code asks of it
    Faults,         \* which of FaultKinds the environment may exhibit
    MaxWrites,      \* bound: status and metadata writes by the environment
    MaxDeletes,     \* bound: third-party deletions
    MaxRuns         \* bound: how often the user starts the command

FaultKinds ==
    {"preRead", "gateRead", "scopeRead", "validateRead", "apply", "owner",
     "drift", "metaWrite", "otherApply", "cancel", "kill"}

\* gated: crstate.NeedsObservationGate; scoped: hasTargetScope (an SR-IOV
\* policy or an IPPool); owned: isNicClusterPolicy; retried:
\* manifestRetryableErrorTimeout > 0 (a NicInterfaceNameTemplate).
KindRecord == [gated : BOOLEAN, scoped : BOOLEAN,
               owned : BOOLEAN, retried : BOOLEAN]

ASSUME ConstantsAssumption ==
    /\ Kinds \subseteq KindRecord
    /\ Faults \subseteq FaultKinds
    /\ MaxWrites \in Nat /\ MaxDeletes \in Nat /\ MaxRuns \in Nat \ {0}

VARIABLES
    \* --- the cluster ---
    exists,     \* the object is in the API server
    spec,       \* which spec it carries: what was there before, or ours
    gen,        \* metadata.generation
    rv,         \* metadata.resourceVersion
    rev,        \* the API server's revision counter
    state,      \* what the kind's validator reads as the controller's state
    stateOf,    \* the spec that state was written for
    inScope,    \* the nodes the selector matches are the intended workers
    writes, deletes,
    \* --- the command ---
    kind,       \* the manifest's kind; never changes
    pc, runs, cancelled,
    preGen,     \* preApplyGen
    await,      \* awaitObservationAfterRV; 0 is the empty string
    timer,      \* retryableErrorTimer
    result,
    \* --- history, read by properties only ---
    armed,      \* the last apply armed the gate
    appliedRv,  \* the resourceVersion the last apply returned
    gateMissed, \* the last read of the gate failed
    touched,    \* a metadata-only write since the last apply
    judgedRv,   \* the resourceVersion the last terminal verdict was read at
    judgedOf,   \* the spec that verdict's state was written for
    window      \* verdicts since retryableErrorTimer was last started

clusterVars == <<exists, spec, gen, rv, rev, state, stateOf>>
envVars     == <<inScope, writes, deletes>>
applyVars   == <<armed, appliedRv, gateMissed, touched>>
historyVars == <<applyVars, judgedRv, judgedOf, window>>
vars == <<clusterVars, envVars, historyVars,
          kind, pc, runs, cancelled, preGen, await, timer, result>>

Specs    == {"none", "old", "desired"}
States   == {"empty", "notReady", "ready", "error", "mismatch"}
Verdicts == {"success", "error", "retryable", "inProgress", "notDeployed",
             "unread"}
Results  == {"none", "success", "error", "timeout", "cancelled", "scope",
             "blocked", "applyError", "killed"}
Steps    == {"pre", "check", "apply", "poll", "scope", "validate",
             "recheck", "reapply", "wait", "done"}

\* What controllers report; the one retryable error is the interface-name
\* mismatch of the kind that has a retry window.
Reported == {"notReady", "ready", "error"}
              \cup (IF kind.retried THEN {"mismatch"} ELSE {})

May(f) == f \in Faults

TypeOK ==
    /\ exists \in BOOLEAN
    /\ spec \in Specs /\ stateOf \in Specs /\ state \in States
    /\ gen \in Nat /\ rv \in Nat /\ rev \in Nat /\ rv <= rev
    /\ inScope \in BOOLEAN
    /\ writes \in 0..MaxWrites /\ deletes \in 0..MaxDeletes
    /\ kind \in Kinds
    /\ pc \in Steps /\ runs \in 1..MaxRuns /\ cancelled \in BOOLEAN
    /\ preGen \in Nat /\ await \in Nat
    /\ timer \in {"off", "running", "fired"}
    /\ result \in Results
    /\ armed \in BOOLEAN /\ appliedRv \in Nat
    /\ gateMissed \in BOOLEAN /\ touched \in BOOLEAN
    /\ judgedRv \in Nat /\ judgedOf \in Specs
    /\ window \subseteq Verdicts

(***************************************************************************)
(* The object may already exist, with an earlier spec or with ours, and    *)
(* the controller has settled on it in any state.                          *)
(***************************************************************************)
InitCluster ==
    \/ /\ exists = FALSE /\ spec = "none" /\ gen = 0 /\ rv = 0
       /\ state = "empty" /\ stateOf = "none"
    \/ /\ exists = TRUE /\ spec \in {"old", "desired"} /\ gen = 1 /\ rv = 1
       /\ state \in Reported /\ stateOf = spec

InitCommand ==
    /\ pc = "pre" /\ cancelled = FALSE
    /\ preGen = 0 /\ await = 0 /\ timer = "off" /\ result = "none"
    /\ armed = FALSE /\ appliedRv = 0
    /\ gateMissed = FALSE /\ touched = FALSE
    /\ judgedRv = 0 /\ judgedOf = "none" /\ window = {}

Init ==
    /\ kind \in Kinds
    /\ InitCluster /\ rev = 1
    /\ inScope = TRUE /\ writes = 0 /\ deletes = 0
    /\ InitCommand /\ runs = 1

-----------------------------------------------------------------------------
(* The API server.                                                         *)

\* Server-side apply of the desired spec.  A no-op apply changes neither the
\* generation nor the resourceVersion; a created object has no status.
ApplyDesired ==
    IF exists /\ spec = "desired"
    THEN UNCHANGED clusterVars
    ELSE /\ exists' = TRUE /\ spec' = "desired"
         /\ rev' = rev + 1 /\ rv' = rev + 1
         /\ gen' = IF exists THEN gen + 1 ELSE 1
         /\ state' = IF exists THEN state ELSE "empty"
         /\ stateOf' = IF exists THEN stateOf ELSE "none"

\* The controller writes status for the spec it is looking at.  Status
\* updates carry the resourceVersion that was read, so a write computed from
\* an older spec is rejected and only one for the live spec lands.  A status
\* has no observedGeneration: a controller that comes to the state already
\* there may change nothing, and then there is no new resourceVersion, or
\* change another field of the status, and then there is.
ControllerWrites ==
    /\ exists /\ writes < MaxWrites
    /\ \E s \in Reported : state' = s /\ stateOf' = spec
    /\ \/ rev' = rev + 1 /\ rv' = rev + 1
       \/ state' = state /\ UNCHANGED <<rev, rv>>
    /\ writes' = writes + 1
    /\ UNCHANGED <<exists, spec, gen, inScope, deletes, historyVars, pc, kind,
                   runs, cancelled, preGen, await, timer, result>>

\* Somebody changes only the metadata: a label, an annotation, a finalizer.
MetadataWritten ==
    /\ May("metaWrite") /\ exists /\ writes < MaxWrites
    /\ rev' = rev + 1 /\ rv' = rev + 1 /\ writes' = writes + 1
    /\ touched' = TRUE
    /\ UNCHANGED <<exists, spec, gen, state, stateOf, inScope, deletes, armed,
                   appliedRv, gateMissed, judgedRv, judgedOf, window,
                   pc, kind, runs, cancelled, preGen, await, timer, result>>

\* "admission webhook race, manual kubectl delete"
Deleted ==
    /\ exists /\ deletes < MaxDeletes
    /\ exists' = FALSE /\ spec' = "none" /\ gen' = 0 /\ rv' = 0
    /\ state' = "empty" /\ stateOf' = "none"
    /\ rev' = rev + 1 /\ deletes' = deletes + 1
    /\ UNCHANGED <<inScope, writes, historyVars, pc, kind, runs, cancelled,
                   preGen, await, timer, result>>

\* Another client (a GitOps agent, say) restores the same manifest.
OtherApplies ==
    /\ May("otherApply") /\ ~exists /\ deletes > 0
    /\ ApplyDesired
    /\ UNCHANGED <<envVars, historyVars, pc, kind, runs, cancelled, preGen,
                   await, timer, result>>

LabelsDrift ==
    /\ May("drift") /\ kind.scoped
    /\ inScope' = ~inScope
    /\ UNCHANGED <<clusterVars, writes, deletes, historyVars, pc, kind, runs,
                   cancelled, preGen, await, timer, result>>

\* The deploy-wide deadline passes, or the caller cancels the context.
Cancel ==
    /\ May("cancel") /\ ~cancelled /\ pc # "done"
    /\ cancelled' = TRUE
    /\ UNCHANGED <<clusterVars, envVars, historyVars, pc, kind, runs, preGen,
                   await, timer, result>>

TimerFires ==
    /\ timer = "running" /\ pc # "done"
    /\ timer' = "fired"
    /\ UNCHANGED <<clusterVars, envVars, historyVars, pc, kind, runs,
                   cancelled, preGen, await, result>>

-----------------------------------------------------------------------------
(* The command.                                                            *)

Finish(r) ==
    /\ pc' = "done" /\ result' = r

\* The pre-apply Get.  Any failure counts as "no object".
PreRead ==
    /\ pc = "pre"
    /\ \/ preGen' = IF exists THEN gen ELSE 0
       \/ May("preRead") /\ preGen' = 0
    /\ pc' = "check"
    /\ UNCHANGED <<clusterVars, envVars, historyVars, kind, runs, cancelled,
                   await, timer, result>>

\* What must hold before a write: checkSecondaryNetworkDeployment for a
\* NicClusterPolicy, inspectDesiredTargetScope for a scoped kind.  Here a
\* failed read is final, whatever its cause.
OwnershipRefused   == kind.owned /\ May("owner")
DesiredScopeFails  == kind.scoped /\ (~inScope \/ May("scopeRead"))
WriteAllowed       == kind.scoped => inScope

CheckBeforeWrite(here, next) ==
    /\ pc = here
    /\ \/ OwnershipRefused /\ Finish("blocked")
       \/ DesiredScopeFails /\ Finish("scope")
       \/ WriteAllowed /\ pc' = next /\ UNCHANGED result
    /\ UNCHANGED <<clusterVars, envVars, historyVars, kind, runs, cancelled,
                   preGen, await, timer>>

PreWriteCheck == CheckBeforeWrite("check", "apply")
ReapplyCheck  == CheckBeforeWrite("recheck", "reapply")

\* An apply the server rejects, or a cancelled context.
ApplyFails ==
    /\ pc \in {"apply", "reapply"} /\ (May("apply") \/ cancelled)
    /\ Finish("applyError")
    /\ UNCHANGED <<clusterVars, envVars, historyVars, kind, runs, cancelled,
                   preGen, await, timer>>

\* What history keeps of an apply.
Applied ==
    /\ appliedRv' = rv' /\ gateMissed' = FALSE /\ touched' = FALSE

\* Mutant: the gate is never armed.
ArmGateNever(changed) ==
    /\ armed' = FALSE /\ await' = 0
    /\ Applied

\* Mutant: the gate is armed by an apply that changed nothing.
ArmGateAlways(changed) ==
    /\ armed' = (kind.gated /\ changed)
    /\ await' = IF kind.gated THEN rv' ELSE 0
    /\ Applied

\* The gate is armed with the resourceVersion the apply returned when the
\* apply changed the spec (the generation grew) and the kind is gated.
ArmGate(changed) ==
    /\ armed' = (kind.gated /\ changed)
    /\ await' = IF kind.gated /\ changed THEN rv' ELSE 0
    /\ Applied

Apply ==
    /\ pc = "apply" /\ ~cancelled
    /\ ApplyDesired
    /\ ArmGate(gen' > preGen)
    /\ pc' = "poll"
    /\ UNCHANGED <<envVars, judgedRv, judgedOf, window, kind, runs, cancelled,
                   preGen, timer, result>>

PollCancelled ==
    /\ pc = "poll" /\ cancelled
    /\ Finish("cancelled")
    /\ UNCHANGED <<clusterVars, envVars, historyVars, kind, runs, cancelled,
                   preGen, await, timer>>

GateGone     == await # 0 /\ ~exists
GateUnread   == await # 0 /\ May("gateRead")
GateHolds    == await # 0 /\ exists /\ rv = await
GateObserved == await # 0 /\ exists /\ rv # await

GateRead(next, awaited, missed) ==
    pc' = next /\ await' = awaited /\ gateMissed' = missed

\* Mutant: the gate holds back a single poll.
PollGateOnce ==
    /\ pc = "poll" /\ ~cancelled
    /\ \/ await = 0    /\ GateRead("scope", 0, FALSE)
       \/ GateGone     /\ GateRead("scope", await, FALSE)
       \/ GateUnread   /\ GateRead("scope", await, TRUE)
       \/ GateHolds    /\ GateRead("wait", 0, FALSE)
       \/ GateObserved /\ GateRead("scope", 0, FALSE)
    /\ UNCHANGED <<clusterVars, envVars, armed, appliedRv, touched,
                   judgedRv, judgedOf, window, kind, runs, cancelled, preGen,
                   timer, result>>

\* The observation gate.  A read that fails, because the object is gone or for
\* any other reason, leaves the gate armed and goes on to the validator.
PollGate ==
    /\ pc = "poll" /\ ~cancelled
    /\ \/ await = 0    /\ GateRead("scope", 0, FALSE)
       \/ GateGone     /\ GateRead("scope", await, FALSE)
       \/ GateUnread   /\ GateRead("scope", await, TRUE)
       \/ GateHolds    /\ GateRead("wait", await, FALSE)
       \/ GateObserved /\ GateRead("scope", 0, FALSE)
    /\ UNCHANGED <<clusterVars, envVars, armed, appliedRv, touched,
                   judgedRv, judgedOf, window, kind, runs, cancelled, preGen,
                   timer, result>>

\* inspectLiveTargetScope: a temporary read failure waits for the next poll, a
\* denied read is final, a vanished object is the validator's business, and a
\* selector that does not match the intended workers is final.
LiveScopeUnread ==
    /\ pc = "scope" /\ kind.scoped /\ May("scopeRead")
    /\ \/ cancelled  /\ Finish("cancelled")
       \/ ~cancelled /\ Finish("scope")
       \/ ~cancelled /\ pc' = "wait" /\ UNCHANGED result
    /\ UNCHANGED <<clusterVars, envVars, historyVars, kind, runs, cancelled,
                   preGen, await, timer>>

\* Mutant: a selector mismatch is retried like a failed read.
LiveScopeRetried ==
    /\ pc = "scope"
    /\ pc' = IF kind.scoped /\ exists /\ ~inScope THEN "wait" ELSE "validate"
    /\ UNCHANGED <<clusterVars, envVars, historyVars, kind, runs, cancelled,
                   preGen, await, timer, result>>

LiveScope ==
    /\ pc = "scope"
    /\ IF kind.scoped /\ exists /\ ~inScope
       THEN Finish("scope")
       ELSE pc' = "validate" /\ UNCHANGED result
    /\ UNCHANGED <<clusterVars, envVars, historyVars, kind, runs, cancelled,
                   preGen, await, timer>>

\* What the registry's validator makes of the live object.
Classified(v) ==
    \/ v = "notDeployed" /\ ~exists
    \/ v = "success"     /\ exists /\ state = "ready"
    \/ v = "error"       /\ exists /\ state = "error"
    \/ v = "retryable"   /\ exists /\ state = "mismatch"
    \/ v = "inProgress"  /\ exists /\ state \in {"empty", "notReady"}

Judge(r) ==
    /\ Finish(r)
    /\ judgedRv' = rv /\ judgedOf' = stateOf
    /\ UNCHANGED <<timer, window>>

\* Mutant: every retryable error restarts the window.
StartTimerAfresh == timer' = "running" /\ window' = {"retryable"}

StartTimer ==
    IF timer = "off"
    THEN timer' = "running" /\ window' = {"retryable"}
    ELSE UNCHANGED timer /\ window' = window \cup {"retryable"}

\* Mutant: progress does not stop the window.
StopTimerLeft(v) == UNCHANGED timer /\ window' = window \cup {v}

StopTimer(v) == timer' = "off" /\ window' = window \cup {v}

GoOn(next) ==
    pc' = next /\ UNCHANGED <<result, judgedRv, judgedOf>>

\* A transport error only reports progress; the timer keeps its state.
ValidateUnread ==
    /\ pc = "validate" /\ (May("validateRead") \/ cancelled)
    /\ GoOn("wait")
    /\ window' = window \cup {"unread"}
    /\ UNCHANGED <<clusterVars, envVars, applyVars, kind, runs, cancelled,
                   preGen, await, timer>>

\* Success and plain errors end the wait.  A retryable error starts the timer
\* unless it runs already; an object that is missing or in progress stops it.
Act(v) ==
    \/ v = "success"                   /\ Judge("success")
    \/ v = "error"                     /\ Judge("error")
    \/ v = "retryable" /\ ~kind.retried /\ Judge("error")
    \/ v = "retryable" /\ kind.retried  /\ GoOn("wait")    /\ StartTimer
    \/ v = "notDeployed"               /\ GoOn("recheck") /\ StopTimer(v)
    \/ v = "inProgress"                /\ GoOn("wait")    /\ StopTimer(v)

Validate ==
    /\ pc = "validate"
    /\ \E v \in Verdicts : Classified(v) /\ Act(v)
    /\ UNCHANGED <<clusterVars, envVars, applyVars, kind, runs, cancelled,
                   preGen, await>>

\* The object went missing mid-flight: the retained desired object is applied
\* again, and any observation of the vanished instance is forgotten.
Reapply ==
    /\ pc = "reapply" /\ ~cancelled
    /\ ApplyDesired
    /\ ArmGate(gen' > 0)
    /\ pc' = "wait"
    /\ UNCHANGED <<envVars, judgedRv, judgedOf, window, kind, runs, cancelled,
                   preGen, timer, result>>

\* waitForNextPoll: a select, so any ready case may be the one taken.
WaitCancelled ==
    /\ pc = "wait" /\ cancelled
    /\ Finish("cancelled")
    /\ UNCHANGED <<clusterVars, envVars, historyVars, kind, runs, cancelled,
                   preGen, await, timer>>

WaitTimesOut ==
    /\ pc = "wait" /\ timer = "fired"
    /\ Finish("timeout")
    /\ UNCHANGED <<clusterVars, envVars, historyVars, kind, runs, cancelled,
                   preGen, await, timer>>

WaitTicks ==
    /\ pc = "wait"
    /\ pc' = "poll"
    /\ UNCHANGED <<clusterVars, envVars, historyVars, kind, runs, cancelled,
                   preGen, await, timer, result>>

\* No signal is handled, so Ctrl-C ends the process between any two calls.
Killed ==
    /\ May("kill") /\ pc # "done"
    /\ Finish("killed")
    /\ UNCHANGED <<clusterVars, envVars, historyVars, kind, runs, cancelled,
                   preGen, await, timer>>

\* The user runs the command again after it failed or was interrupted.
Rerun ==
    /\ pc = "done" /\ result # "success" /\ runs < MaxRuns
    /\ runs' = runs + 1
    /\ pc' = "pre" /\ cancelled' = FALSE
    /\ preGen' = 0 /\ await' = 0 /\ timer' = "off" /\ result' = "none"
    /\ armed' = FALSE /\ appliedRv' = 0
    /\ gateMissed' = FALSE /\ touched' = FALSE
    /\ judgedRv' = 0 /\ judgedOf' = "none" /\ window' = {}
    /\ UNCHANGED <<clusterVars, envVars, kind>>

Terminated ==
    pc = "done" /\ UNCHANGED vars

Environment ==
    \/ ControllerWrites \/ MetadataWritten \/ Deleted \/ OtherApplies
    \/ LabelsDrift \/ Cancel

Command ==
    \/ PreRead \/ PreWriteCheck \/ Apply \/ ApplyFails
    \/ PollCancelled \/ PollGate \/ LiveScopeUnread \/ LiveScope
    \/ ValidateUnread \/ Validate
    \/ ReapplyCheck \/ Reapply
    \/ WaitCancelled \/ WaitTimesOut \/ WaitTicks

Next == Environment \/ TimerFires \/ Command \/ Killed \/ Rerun \/ Terminated

Spec == Init /\ [][Next]_vars

(***************************************************************************)
(* The command's own steps are never delayed for ever, nor is its timer.   *)
(* The select of waitForNextPoll picks at random among its ready cases, so *)
(* a case that is ready again and again is eventually picked.  The API     *)
(* server is not down for ever: a read retried again and again eventually  *)
(* succeeds.  Nothing is assumed of the controller or of third parties.    *)
(***************************************************************************)
Fairness ==
    /\ WF_vars(Command)
    /\ WF_vars(TimerFires)
    /\ SF_vars(WaitTimesOut)
    /\ SF_vars(LiveScope)
    /\ SF_vars(Validate)

FairSpec == Spec /\ Fairness

-----------------------------------------------------------------------------
(* Properties.                                                             *)

Terminal == result \in {"success", "error"}

\* The poll loop of deploy.go "refuses to act on any terminal verdict until
\* the live object's resourceVersion has advanced past" the one the apply
\* returned: if that apply armed the gate, and the gate could be read in the
\* poll that took the verdict, the verdict was read at another version.
GateRespected ==
    Terminal /\ armed /\ ~gateMissed => judgedRv # appliedRv

\* The purpose of the gate: a gated kind's wait never ends on the status the
\* controller wrote for an earlier spec ("the previous reconcile's stale
\* status.state=ready").  Excepted are a gate that could not be read, a gate
\* that somebody's metadata-only write opened, and a run after another.
FreshVerdict ==
    /\ kind.gated /\ Terminal
    /\ runs = 1 /\ ~gateMissed /\ ~touched
    => judgedOf = "desired"

\* The same of a success, in whichever run: a run after one that died must not
\* take the ready state of an earlier spec for its own.
FreshAfterRerun ==
    kind.gated /\ result = "success" /\ ~gateMissed /\ ~touched
    => judgedOf = "desired"

\* The five-minute window of a retryable error ends the wait only if the
\* mismatch persisted: since the timer was started no validation saw the
\* object missing or merely in progress.
TimeoutMeansPersistent ==
    result = "timeout" =>
        /\ "retryable" \in window
        /\ window \cap {"inProgress", "notDeployed"} = {}

Settled == exists /\ spec = "desired" /\ state = "ready" /\ stateOf = "desired"

\* Since the apply that armed the gate, something was written.
Observed == armed => rv # appliedRv

\* Without a deadline "the deploy polls until every manifest reaches a
\* terminal state": if the object settles in the ready state for our spec,
\* and what the controller wrote since the apply moved the resourceVersion,
\* the wait ends.  Excepted is an object nobody needs to write again: a gate
\* armed by an apply that changed nothing, or whose controller comes to the
\* status that is already there, holds for ever.
SettledEndsWait == <>[](Settled /\ Observed) => <>(pc = "done")

\* "A persistent mismatch fails deployment after the local timeout."
MismatchEndsWait == <>[](exists /\ state = "mismatch") => <>(pc = "done")

\* "Selector mismatches still stop deployment": if the nodes the live selector
\* matches stop being the intended workers, the wait ends; it is not retried
\* like a failed read, and readiness is not waited for.
DriftEndsWait == <>[](exists /\ ~inScope) => <>(pc = "done")
=============================================================================

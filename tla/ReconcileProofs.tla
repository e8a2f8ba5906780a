--------------------------- MODULE ReconcileProofs ---------------------------
(***************************************************************************)
(* Theorems about Reconcile: the observation gate of deploy.go does what   *)
(* its comments say, for every kind, every interleaving and every number   *)
(* of writes, deletions and runs, up to the exceptions the properties      *)
(* name.                                                                   *)
(***************************************************************************)
EXTENDS Reconcile, TLAPS

\* Every initial state of the cluster and of the command is in its type.
LEMMA TypeInit == Init => TypeOK
<1> SUFFICES ASSUME Init PROVE TypeOK
  OBVIOUS
<1>1. writes \in 0..MaxWrites /\ deletes \in 0..MaxDeletes /\ runs \in 1..MaxRuns
  BY ConstantsAssumption DEF Init
<1>2. exists \in BOOLEAN /\ spec \in Specs /\ stateOf \in Specs
  BY DEF Init, InitCluster, Specs
<1>3. state \in States
  BY DEF Init, InitCluster, States, Reported
<1>4. gen \in Nat /\ rv \in Nat /\ rev \in Nat /\ rv <= rev
  BY DEF Init, InitCluster
<1> QED
  BY <1>1, <1>2, <1>3, <1>4 DEF Init, InitCommand, TypeOK, Steps, Results, Specs, Verdicts

\* Every variable of the wait and of the cluster stays in its type.
THEOREM TypeCorrect == Spec => []TypeOK
<1>1. Init => TypeOK
  BY TypeInit
<1>2. TypeOK /\ [Next]_vars => TypeOK'
  <2> SUFFICES ASSUME TypeOK, [Next]_vars PROVE TypeOK'
    OBVIOUS
  <2> USE ConstantsAssumption DEF TypeOK, clusterVars, envVars, applyVars, historyVars
  <2>1. CASE ControllerWrites
    <3>1. state' \in States /\ stateOf' \in Specs
      BY <2>1 DEF ControllerWrites, Reported, States
    <3>2. writes' \in 0..MaxWrites /\ rv' \in Nat /\ rev' \in Nat /\ rv' <= rev'
      BY <2>1 DEF ControllerWrites
    <3> QED
      BY <2>1, <3>1, <3>2 DEF ControllerWrites
  <2>2. CASE MetadataWritten
    BY <2>2 DEF MetadataWritten
  <2>3. CASE Deleted
    <3>1. deletes' \in 0..MaxDeletes /\ rev' \in Nat /\ 0 <= rev'
      BY <2>3 DEF Deleted
    <3> QED
      BY <2>3, <3>1 DEF Deleted, Specs, States
  <2>4. ASSUME ApplyDesired
        PROVE  /\ exists' \in BOOLEAN /\ spec' \in Specs /\ stateOf' \in Specs
               /\ state' \in States /\ gen' \in Nat /\ rv' \in Nat
               /\ rev' \in Nat /\ rv' <= rev'
    <3>1. gen' \in Nat /\ rv' \in Nat /\ rev' \in Nat /\ rv' <= rev'
      BY <2>4 DEF ApplyDesired
    <3>2. exists' \in BOOLEAN /\ spec' \in Specs
      BY <2>4 DEF ApplyDesired, Specs
    <3>3. state' \in States /\ stateOf' \in Specs
      BY <2>4 DEF ApplyDesired, Specs, States
    <3> QED
      BY <3>1, <3>2, <3>3
  <2>5. CASE OtherApplies
    BY <2>4, <2>5 DEF OtherApplies
  <2>6. CASE LabelsDrift \/ Cancel \/ TimerFires
    BY <2>6 DEF LabelsDrift, Cancel, TimerFires
  <2>7. CASE PreRead
    BY <2>7 DEF PreRead, Steps
  <2>8. CASE PreWriteCheck \/ ReapplyCheck
    BY <2>8 DEF PreWriteCheck, ReapplyCheck, CheckBeforeWrite, Finish, Steps,
                Results
  <2>9. CASE Apply
    <3>1. /\ await' \in Nat /\ appliedRv' \in Nat /\ armed' \in BOOLEAN
          /\ gateMissed' \in BOOLEAN /\ touched' \in BOOLEAN
      BY <2>4, <2>9 DEF Apply, ArmGate, Applied
    <3> QED
      BY <2>4, <2>9, <3>1 DEF Apply, Steps
  <2>10. CASE Reapply
    <3>1. /\ await' \in Nat /\ appliedRv' \in Nat /\ armed' \in BOOLEAN
          /\ gateMissed' \in BOOLEAN /\ touched' \in BOOLEAN
      BY <2>4, <2>10 DEF Reapply, ArmGate, Applied
    <3> QED
      BY <2>4, <2>10, <3>1 DEF Reapply, Steps
  <2>11. CASE \/ ApplyFails \/ PollCancelled \/ WaitCancelled
              \/ WaitTimesOut \/ Killed
    BY <2>11 DEF ApplyFails, PollCancelled, WaitCancelled, WaitTimesOut, Killed,
                 Finish, Steps, Results
  <2>12. CASE WaitTicks
    BY <2>12 DEF WaitTicks, Steps
  <2>18. CASE PollGate
    <3>1. \E n \in {"scope", "wait"}, a \in {0, await}, m \in BOOLEAN :
             GateRead(n, a, m)
      BY <2>18 DEF PollGate
    <3>2. pc' \in Steps /\ await' \in Nat /\ gateMissed' \in BOOLEAN
      BY <3>1 DEF GateRead, Steps
    <3> QED
      BY <2>18, <3>2 DEF PollGate
  <2>13. CASE LiveScopeUnread \/ LiveScope
    BY <2>13 DEF LiveScopeUnread, LiveScope, Finish, Steps, Results
  <2>14. CASE ValidateUnread
    BY <2>14 DEF ValidateUnread, GoOn, Steps, Verdicts
  <2>15. CASE Validate
    <3>1. /\ pc' \in Steps /\ result' \in Results
          /\ timer' \in {"off", "running", "fired"} /\ window' \subseteq Verdicts
          /\ judgedRv' \in Nat /\ judgedOf' \in Specs
      BY <2>15 DEF Validate, Act, Judge, Finish, GoOn, StartTimer,
                   StopTimer, Steps, Results, Verdicts
    <3> QED
      BY <2>15, <3>1 DEF Validate
  <2>16. CASE Rerun
    <3>1. runs' \in 1..MaxRuns
      BY <2>16 DEF Rerun
    <3> QED
      BY <2>16, <3>1 DEF Rerun, Steps, Results, Specs
  <2>17. CASE Terminated \/ UNCHANGED vars
    BY <2>17 DEF Terminated, vars
  <2> QED
    BY <2>1, <2>2, <2>3, <2>5, <2>6, <2>7, <2>8, <2>9, <2>10, <2>11, <2>12,
       <2>13, <2>14, <2>15, <2>16, <2>17, <2>18
       DEF Next, Environment, Command
<1> QED
  BY <1>1, <1>2, PTL DEF Spec

-----------------------------------------------------------------------------
(* The observation gate.                                                   *)

Waiting == {"poll", "scope", "validate", "recheck", "reapply", "wait"}

\* Revisions only grow, so a resourceVersion handed out after an apply differs
\* from the one the apply returned.
Revisions ==
    /\ exists => 0 < rv
    /\ appliedRv <= rev

\* An armed gate that was cleared, or is being passed, has seen another
\* resourceVersion than the applied one.
GateInv ==
    /\ pc \in Waiting /\ armed => await \in {0, appliedRv}
    /\ pc \in Waiting /\ armed /\ await = 0 /\ exists => rv # appliedRv
    /\ pc \in {"scope", "validate"} /\ armed /\ exists /\ ~gateMissed
         => rv # appliedRv

IInv == TypeOK /\ Revisions /\ (pc # "done" => result = "none") /\ GateInv
          /\ GateRespected

\* Unless the gate could not be read in the same poll, a terminal verdict is
\* only acted on once the live resourceVersion differs from the one the last
\* apply or re-apply returned.
THEOREM GateTheorem == Spec => []GateRespected
<1>1. Init => IInv
  <2> SUFFICES ASSUME Init PROVE IInv
    OBVIOUS
  <2>1. Init => TypeOK
    BY TypeInit
  <2>2. Revisions
    BY DEF Init, InitCluster, InitCommand, Revisions
  <2> QED
    BY <2>1, <2>2 DEF Init, InitCommand, IInv, GateInv, GateRespected, Terminal
<1>2. IInv /\ TypeOK' /\ [Next]_vars => IInv'
  <2> SUFFICES ASSUME IInv, TypeOK', [Next]_vars
               PROVE  /\ Revisions' /\ (pc # "done" => result = "none")'
                      /\ GateInv' /\ GateRespected'
    BY DEF IInv
  <2> USE DEF IInv, TypeOK, clusterVars, envVars, applyVars, historyVars
  <2>1. CASE ControllerWrites \/ MetadataWritten
    <3>1. /\ (rv' = rev + 1 /\ rev' = rev + 1) \/ (rv' = rv /\ rev' = rev)
          /\ UNCHANGED <<exists, pc, await, armed, gateMissed, appliedRv, judgedRv, result>>
      BY <2>1 DEF ControllerWrites, MetadataWritten
    <3> QED
      BY <3>1 DEF Revisions, GateInv, GateRespected, Terminal
  <2>2. CASE Deleted
    <3>1. /\ ~exists' /\ rev' = rev + 1
          /\ UNCHANGED <<pc, await, armed, gateMissed, appliedRv, judgedRv, result>>
      BY <2>2 DEF Deleted
    <3> QED
      BY <3>1 DEF Revisions, GateInv, GateRespected, Terminal
  <2>3. ASSUME ApplyDesired
        PROVE  exists' /\ 0 < rv' /\ rv' <= rev' /\ rev <= rev'
                /\ (~exists => rv' = rev + 1)
    BY <2>3 DEF ApplyDesired, Revisions
  <2>4. CASE OtherApplies
    <3>1. /\ rv' = rev + 1 /\ rev' = rev + 1
          /\ UNCHANGED <<pc, await, armed, gateMissed, appliedRv, judgedRv, result>>
      BY <2>4 DEF OtherApplies, ApplyDesired
    <3> QED
      BY <3>1 DEF Revisions, GateInv, GateRespected, Terminal
  <2>5. CASE LabelsDrift \/ Cancel \/ TimerFires
    BY <2>5 DEF LabelsDrift, Cancel, TimerFires, Revisions, GateInv,
                GateRespected, Terminal
  <2>6. CASE PreRead \/ PreWriteCheck
    BY <2>6 DEF PreRead, PreWriteCheck, CheckBeforeWrite, Finish, Revisions,
                GateInv, GateRespected, Terminal, Waiting
  <2>7. CASE ReapplyCheck
    BY <2>7 DEF ReapplyCheck, CheckBeforeWrite, Finish, Revisions, GateInv,
                GateRespected, Terminal, Waiting
  <2>8. CASE Apply \/ Reapply
    <3>1. /\ appliedRv' = rv' /\ (armed' => await' = rv')
          /\ pc' \in {"poll", "wait"} /\ result' = "none"
      BY <2>8 DEF Apply, Reapply, ArmGate, Applied
    <3>2. ApplyDesired
      BY <2>8 DEF Apply, Reapply
    <3> QED
      BY <2>3, <3>1, <3>2 DEF Revisions, GateInv, GateRespected, Terminal
  <2>9. CASE \/ ApplyFails \/ PollCancelled \/ WaitCancelled
              \/ WaitTimesOut \/ Killed
    BY <2>9 DEF ApplyFails, PollCancelled, WaitCancelled, WaitTimesOut, Killed, Finish,
                Revisions, GateInv, GateRespected, Terminal, Waiting
  <2>10. CASE PollGate
    BY <2>10 DEF PollGate, GateRead, GateGone, GateUnread, GateHolds, GateObserved, Revisions,
                 GateInv, GateRespected, Terminal, Waiting
  <2>11. CASE WaitTicks
    BY <2>11 DEF WaitTicks, Revisions, GateInv, GateRespected, Terminal, Waiting
  <2>12. CASE LiveScopeUnread \/ LiveScope
    BY <2>12 DEF LiveScopeUnread, LiveScope, Finish, Revisions, GateInv,
                 GateRespected, Terminal, Waiting
  <2>13. CASE ValidateUnread
    BY <2>13 DEF ValidateUnread, GoOn, Revisions, GateInv, GateRespected, Terminal,
                 Waiting
  <2>14. CASE Validate
    <3>1. UNCHANGED <<exists, rv, rev, await, armed, gateMissed, appliedRv>>
      BY <2>14 DEF Validate
    <3>2. \/ pc' \in {"wait", "recheck"} /\ result' = "none"
          \/ pc' = "done" /\ exists /\ judgedRv' = rv
      BY <2>14 DEF Validate, Classified, Act, Judge, Finish, GoOn
    <3>3. pc = "validate" /\ result = "none"
      BY <2>14 DEF Validate
    <3> QED
      BY <3>1, <3>2, <3>3 DEF Revisions, GateInv, GateRespected, Terminal, Waiting
  <2>15. CASE Rerun
    BY <2>15 DEF Rerun, Revisions, GateInv, GateRespected, Terminal, Waiting
  <2>16. CASE Terminated \/ UNCHANGED vars
    BY <2>16 DEF Terminated, vars, Revisions, GateInv, GateRespected, Terminal
  <2> QED
    BY <2>1, <2>2, <2>4, <2>5, <2>6, <2>7, <2>8, <2>9, <2>10, <2>11, <2>12,
       <2>13, <2>14, <2>15, <2>16
       DEF Next, Environment, Command
<1>3. IInv => GateRespected
  BY DEF IInv
<1> QED
  BY <1>1, <1>2, <1>3, TypeCorrect, PTL DEF Spec

-----------------------------------------------------------------------------
(* What the gate is for.                                                   *)

\* A status the controller wrote for an earlier spec.
Stale == exists /\ state # "empty" /\ stateOf # "desired"

\* Before the apply the status belongs to the live spec, and an earlier spec
\* has not been replaced since the pre-apply read.
BeforeApply ==
    runs = 1 /\ pc \in {"pre", "check", "apply"} /\ exists =>
        /\ spec \in {"old", "desired"}
        /\ state # "empty" => stateOf = spec
        /\ spec = "old" => preGen <= gen

\* Nothing but the controller and the command itself has written since the
\* apply of the first run.
Undisturbed == kind.gated /\ runs = 1 /\ ~touched

\* After the apply a stale status sits at exactly the awaited resourceVersion,
\* so the loop never gets past a gate it can read with one.
AfterApply ==
    /\ pc \in Waiting /\ exists => spec = "desired"
    /\ pc \in Waiting /\ Undisturbed /\ Stale => await = rv
    /\ pc \in {"scope", "validate"} /\ Undisturbed /\ ~gateMissed => ~Stale

FreshInv ==
    /\ TypeOK
    /\ exists => 0 < rv /\ 0 < gen
    /\ pc # "done" => result = "none"
    /\ BeforeApply /\ AfterApply /\ FreshVerdict

\* If the gate can be read and nobody writes metadata only, the first run's
\* wait for a gated kind ends on a status written for the spec it applied,
\* however often the object is deleted and restored meanwhile.
THEOREM FreshTheorem == Spec => []FreshVerdict
<1>1. Init => FreshInv
  <2> SUFFICES ASSUME Init PROVE FreshInv
    OBVIOUS
  <2>1. exists => 0 < rv /\ 0 < gen
    BY DEF Init, InitCluster
  <2>2. BeforeApply
    BY DEF Init, InitCluster, InitCommand, BeforeApply
  <2> QED
    BY <2>1, <2>2, TypeInit
       DEF Init, InitCommand, FreshInv, AfterApply, FreshVerdict, Terminal, Waiting
<1>2. FreshInv /\ TypeOK' /\ [Next]_vars => FreshInv'
  <2> SUFFICES ASSUME FreshInv, TypeOK', [Next]_vars
               PROVE  /\ (exists => 0 < rv /\ 0 < gen)'
                      /\ (pc # "done" => result = "none")'
                      /\ BeforeApply' /\ AfterApply' /\ FreshVerdict'
    BY DEF FreshInv
  <2> USE DEF FreshInv, TypeOK, clusterVars, envVars, applyVars, historyVars, Stale,
              BeforeApply, AfterApply, Undisturbed, FreshVerdict, Terminal
  <2>1. CASE ControllerWrites
    <3>1. /\ exists /\ stateOf' = spec /\ state' # "empty" /\ 0 < rv'
          /\ UNCHANGED <<exists, spec, gen, pc, preGen, await, judgedOf, result,
                         kind, runs, gateMissed, touched>>
      BY <2>1 DEF ControllerWrites, Reported
    <3> QED
      BY <3>1 DEF Waiting
  <2>2. CASE MetadataWritten
    BY <2>2 DEF MetadataWritten
  <2>3. CASE Deleted
    BY <2>3 DEF Deleted
  <2>4. CASE OtherApplies
    <3>1. /\ exists' /\ spec' = "desired" /\ state' = "empty"
          /\ 0 < rv' /\ 0 < gen'
          /\ UNCHANGED <<pc, preGen, await, judgedOf, result,
                         kind, runs, gateMissed, touched>>
      BY <2>4 DEF OtherApplies, ApplyDesired
    <3> QED
      BY <3>1
  <2>5. CASE LabelsDrift \/ Cancel \/ TimerFires
    BY <2>5 DEF LabelsDrift, Cancel, TimerFires
  <2>6. CASE PreRead
    <3>1. preGen' <= gen \/ ~exists
      BY <2>6 DEF PreRead
    <3> QED
      BY <2>6, <3>1 DEF PreRead, Waiting
  <2>7. CASE PreWriteCheck \/ ReapplyCheck
    BY <2>7 DEF PreWriteCheck, ReapplyCheck, CheckBeforeWrite, Finish, Waiting
  <2>8. CASE Apply
    <3>1. exists' /\ spec' = "desired" /\ 0 < rv' /\ 0 < gen'
      BY <2>8 DEF Apply, ApplyDesired
    <3>2. kind.gated /\ runs = 1 /\ Stale' => await' = rv'
      <4> SUFFICES ASSUME kind.gated, runs = 1, Stale' PROVE await' = rv'
        OBVIOUS
      <4>1. exists /\ spec = "old" /\ preGen <= gen
        BY <2>8 DEF Apply, ApplyDesired
      <4>2. gen' > preGen
        BY <2>8, <4>1 DEF Apply, ApplyDesired
      <4> QED
        BY <2>8, <4>2 DEF Apply, ArmGate, Applied
    <3>3. pc' = "poll" /\ UNCHANGED <<kind, runs, judgedOf, result>> /\ result = "none"
      BY <2>8 DEF Apply
    <3> QED
      BY <3>1, <3>2, <3>3
  <2>9. CASE Reapply
    <3>1. exists' /\ spec' = "desired" /\ 0 < rv' /\ 0 < gen'
      BY <2>9 DEF Reapply, ApplyDesired
    <3>2. kind.gated => await' = rv'
      BY <2>9, <3>1 DEF Reapply, ArmGate, Applied
    <3>3. pc' = "wait" /\ UNCHANGED <<kind, runs, judgedOf, result>> /\ result = "none"
      BY <2>9 DEF Reapply
    <3> QED
      BY <3>1, <3>2, <3>3
  <2>10. CASE \/ ApplyFails \/ PollCancelled \/ WaitCancelled
              \/ WaitTimesOut \/ Killed
    BY <2>10 DEF ApplyFails, PollCancelled, WaitCancelled, WaitTimesOut, Killed, Finish,
                 Waiting
  <2>11. CASE PollGate
    BY <2>11 DEF PollGate, GateRead, GateGone, GateUnread, GateHolds,
                 GateObserved, Waiting
  <2>12. CASE WaitTicks
    BY <2>12 DEF WaitTicks, Waiting
  <2>13. CASE LiveScopeUnread \/ LiveScope
    BY <2>13 DEF LiveScopeUnread, LiveScope, Finish, Waiting
  <2>14. CASE ValidateUnread
    BY <2>14 DEF ValidateUnread, GoOn, Waiting
  <2>15. CASE Validate
    <3>1. /\ pc = "validate" /\ result = "none"
          /\ UNCHANGED <<exists, spec, gen, rv, state, stateOf, await, kind, runs,
                         gateMissed, touched>>
      BY <2>15 DEF Validate
    <3>2. \/ pc' \in {"wait", "recheck"} /\ result' = "none"
          \/ pc' = "done" /\ exists /\ state # "empty" /\ judgedOf' = stateOf
      BY <2>15 DEF Validate, Classified, Act, Judge, Finish, GoOn
    <3>3. CASE pc' \in {"wait", "recheck"} /\ result' = "none"
      BY <3>1, <3>3 DEF Waiting
    <3>4. CASE pc' = "done" /\ exists /\ state # "empty" /\ judgedOf' = stateOf
      <4>1. Undisturbed /\ ~gateMissed => judgedOf' = "desired"
        BY <3>1, <3>4
      <4> QED
        BY <3>1, <3>4, <4>1 DEF Waiting
    <3> QED
      BY <3>2, <3>3, <3>4
  <2>16. CASE Rerun
    <3>1. runs' # 1
      BY <2>16 DEF Rerun
    <3> QED
      BY <2>16, <3>1 DEF Rerun, Waiting
  <2>17. CASE Terminated \/ UNCHANGED vars
    BY <2>17 DEF Terminated, vars
  <2> QED
    BY <2>1, <2>2, <2>3, <2>4, <2>5, <2>6, <2>7, <2>8, <2>9, <2>10, <2>11,
       <2>12, <2>13, <2>14, <2>15, <2>16, <2>17
       DEF Next, Environment, Command
<1>3. FreshInv => FreshVerdict
  BY DEF FreshInv
<1> QED
  BY <1>1, <1>2, <1>3, TypeCorrect, PTL DEF Spec

-----------------------------------------------------------------------------
(* The retry window.                                                       *)

\* While the timer counts, or once it has fired, the verdicts since its start
\* hold a retryable error and none that stops it; only a fired timer ends the
\* wait with a timeout.
WindowInv ==
    /\ timer # "off" => /\ "retryable" \in window
                        /\ window \cap {"inProgress", "notDeployed"} = {}
    /\ result = "timeout" => timer = "fired"
    /\ pc # "done" => result = "none"

\* TimeoutMeansPersistent: retryableErrorTimer ends a wait only if every
\* validation since it was started that could read the object saw the error.
THEOREM TimeoutTheorem == Spec => []TimeoutMeansPersistent
<1>1. Init => WindowInv
  BY DEF Init, InitCommand, WindowInv
<1>2. TypeOK /\ WindowInv /\ [Next]_vars => WindowInv'
  <2> SUFFICES ASSUME TypeOK, WindowInv, [Next]_vars PROVE WindowInv'
    OBVIOUS
  <2> USE DEF WindowInv, clusterVars, envVars, applyVars, historyVars
  <2>1. CASE Environment \/ Terminated \/ UNCHANGED vars
    <3>1. UNCHANGED <<timer, window, result, pc>>
      BY <2>1 DEF Environment, ControllerWrites, MetadataWritten, Deleted, OtherApplies,
                  LabelsDrift, Cancel, Terminated, vars
    <3> QED
      BY <3>1
  <2>2. CASE TimerFires
    BY <2>2 DEF TimerFires
  <2>3. CASE PreRead \/ Apply \/ Reapply \/ PollGate \/ WaitTicks
    <3>1. /\ UNCHANGED <<timer, window, result>> /\ pc # "done" /\ result = "none"
      BY <2>3 DEF PreRead, Apply, Reapply, PollGate, WaitTicks
    <3> QED
      BY <3>1
  <2>4. CASE \/ PreWriteCheck \/ ReapplyCheck \/ ApplyFails \/ PollCancelled
             \/ LiveScopeUnread \/ LiveScope \/ WaitCancelled \/ Killed
    <3>1. UNCHANGED <<timer, window>> /\ pc # "done"
      BY <2>4 DEF PreWriteCheck, ReapplyCheck, CheckBeforeWrite, ApplyFails, PollCancelled,
                  LiveScopeUnread, LiveScope, WaitCancelled, Killed
    <3>2. (pc' = "done" /\ result' # "timeout") \/ result' = result
      BY <2>4 DEF PreWriteCheck, ReapplyCheck, CheckBeforeWrite, ApplyFails, PollCancelled,
                  LiveScopeUnread, LiveScope, WaitCancelled, Killed, Finish
    <3> QED
      BY <3>1, <3>2
  <2>5. CASE ValidateUnread
    <3>1. /\ UNCHANGED <<timer, result>> /\ result = "none"
          /\ window' = window \cup {"unread"}
      BY <2>5 DEF ValidateUnread, GoOn
    <3> QED
      BY <3>1
  <2>6. CASE Validate
    <3>1. PICK v \in Verdicts : Act(v)
      BY <2>6 DEF Validate
    <3>2. result = "none"
      BY <2>6 DEF Validate
    <3>3. CASE \E r \in {"success", "error"} : Judge(r)
      BY <3>2, <3>3 DEF Judge, Finish
    <3>4. CASE GoOn("wait") /\ StartTimer
      <4>1. CASE timer = "off"
        BY <3>2, <3>4, <4>1 DEF GoOn, StartTimer
      <4>2. CASE timer # "off"
        BY <3>2, <3>4, <4>2 DEF GoOn, StartTimer
      <4> QED
        BY <4>1, <4>2
    <3>5. CASE \E w \in Verdicts, next \in Steps : GoOn(next) /\ StopTimer(w)
      BY <3>2, <3>5 DEF GoOn, StopTimer
    <3> QED
      BY <3>1, <3>3, <3>4, <3>5 DEF Act, Steps
  <2>7. CASE WaitTimesOut
    BY <2>7 DEF WaitTimesOut, Finish
  <2>8. CASE Rerun
    BY <2>8 DEF Rerun
  <2> QED
    BY <2>1, <2>2, <2>3, <2>4, <2>5, <2>6, <2>7, <2>8 DEF Next, Command
<1>3. WindowInv => TimeoutMeansPersistent
  BY DEF WindowInv, TimeoutMeansPersistent
<1> QED
  BY <1>1, <1>2, <1>3, TypeCorrect, PTL DEF Spec
=============================================================================

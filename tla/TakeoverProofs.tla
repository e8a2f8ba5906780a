--------------------------- MODULE TakeoverProofs ---------------------------
(***************************************************************************)
(* Proofs about Takeover, for every set of policies, components, charts    *)
(* and runs and however often other clients write.                         *)
(***************************************************************************)
EXTENDS Takeover, TLAPS

\* A step that keeps the history only keeps its type.
LEMMA HistoryTyped ==
    ASSUME TypeOK, History
    PROVE  /\ stood' \subseteq (Names \cup {Platform}) \X Components
           /\ stoodRun' \subseteq (Names \cup {Platform}) \X Components
<1>1. Facts' \subseteq (Names \cup {Platform}) \X Components
  BY DEF Facts
<1> QED BY <1>1 DEF History, TypeOK

\* Reading and returning change nothing that could leave the type.
LEMMA GotoTyped ==
    ASSUME TypeOK, NEW step \in Steps, Goto(step)
    PROVE  TypeOK'
<1>1. History BY DEF Goto
<1> QED BY <1>1, HistoryTyped DEF Goto, TypeOK, clusterVars, runVars

LEMMA FinishTyped ==
    ASSUME TypeOK, NEW r \in Results, Finish(r)
    PROVE  TypeOK'
<1>1. History BY DEF Finish
<1>2. evidence' \in [Names -> [uid : Nat, rv : Nat]]
  BY DEF Finish, Exit, NoEvidence
<1> QED BY <1>1, <1>2, HistoryTyped DEF Finish, Exit, TypeOK, clusterVars, Steps

\* Steps of other clients.
LEMMA OthersTyped == ASSUME TypeOK, Others PROVE TypeOK'
<1>1. History BY DEF Others, OtherHelm, OtherPolicy, OperatorInstalls,
                     OperatorRemoves, PlatformInstaller, Otherwise
<1>2. Fresh \in Nat BY DEF Fresh, TypeOK
<1>3. CASE OtherHelm
  BY <1>1, <1>2, <1>3, HistoryTyped DEF OtherHelm, Otherwise, TypeOK, runVars,
     Statuses
<1>4. CASE \E n \in Names : OtherPolicy(n)
  <2>1. PICK n \in Names : OtherPolicy(n) BY <1>4
  <2>2. policies' \in [Names -> [uid : Nat, rv : Nat, mine : SUBSET Components,
                                 theirs : SUBSET Components]]
    BY <2>1, <1>2 DEF OtherPolicy, TypeOK, Absent
  <2> QED BY <2>1, <2>2, <1>1, <1>2, HistoryTyped
          DEF OtherPolicy, Otherwise, TypeOK, runVars
<1>5. CASE \E n \in Names, c \in Components : OperatorInstalls(n, c)
  <2>1. PICK n \in Names, c \in Components : OperatorInstalls(n, c) BY <1>5
  <2>2. Owner(n, policies[n].uid) \in (Names \cup {Platform}) \X Nat
    BY DEF Owner, TypeOK
  <2>3. installers' \in [Components -> SUBSET ((Names \cup {Platform}) \X Nat)]
    BY <2>1, <2>2 DEF OperatorInstalls, TypeOK
  <2> QED BY <2>1, <2>3, <1>1, HistoryTyped
          DEF OperatorInstalls, Otherwise, TypeOK, runVars
<1>6. CASE \E c \in Components : PlatformInstaller(c)
  <2>1. PICK c \in Components : PlatformInstaller(c) BY <1>6
  <2>2. PlatformOwner \in (Names \cup {Platform}) \X Nat
    BY DEF PlatformOwner, Owner
  <2>3. installers' \in [Components -> SUBSET ((Names \cup {Platform}) \X Nat)]
    BY <2>1, <2>2 DEF PlatformInstaller, TypeOK
  <2> QED BY <2>1, <2>3, <1>1, HistoryTyped
          DEF PlatformInstaller, Otherwise, TypeOK, runVars
<1>7. CASE \E c \in Components : \E owner \in installers[c] :
              OperatorRemoves(c, owner)
  <2>1. PICK c \in Components : \E owner \in installers[c] :
              OperatorRemoves(c, owner) BY <1>7
  <2>2. installers' \in [Components -> SUBSET ((Names \cup {Platform}) \X Nat)]
    BY <2>1 DEF OperatorRemoves, TypeOK
  <2> QED BY <2>1, <2>2, <1>1, HistoryTyped
          DEF OperatorRemoves, Otherwise, TypeOK, runVars
<1> QED BY <1>3, <1>4, <1>5, <1>6, <1>7 DEF Others

\* Steps of the command.
LEMMA CommandTyped == ASSUME TypeOK, Command PROVE TypeOK'
<1>0. Fresh \in Nat BY DEF Fresh, TypeOK
<1> DEFINE Policied == [Names -> [uid : Nat, rv : Nat, mine : SUBSET Components,
                                  theirs : SUBSET Components]]
<1>1. ASSUME NEW step \in Steps, Goto(step) PROVE TypeOK'
  BY <1>1, GotoTyped
<1>2. ASSUME NEW r \in Results, Finish(r) PROVE TypeOK'
  BY <1>2, FinishTyped
<1>3. CASE CheckPolicyRead
  <2>1. CASE KeepsManaged
    <3>1. History BY <1>3, <2>1 DEF CheckPolicyRead
    <3>2. live' \in Nat
      BY <1>3, <2>1, PolicyAssumption DEF CheckPolicyRead, TypeOK
    <3>3. pc' \in Steps BY <1>3, <2>1 DEF CheckPolicyRead, Steps
    <3> QED BY <1>3, <2>1, <3>1, <3>2, <3>3, HistoryTyped
            DEF CheckPolicyRead, TypeOK, clusterVars
  <2>2. CASE ~KeepsManaged
    <3>1. Finish("ownership") BY <1>3, <2>2 DEF CheckPolicyRead
    <3> QED BY <3>1, <1>2 DEF Results
  <2> QED BY <2>1, <2>2
<1>4. CASE CheckInstallers \/ InstallersUnread \/ CheckRemovals
  <2>1. Goto("removals") \/ Goto("helmRead") \/ Goto("apply") \/ Finish("ownership")
    BY <1>4 DEF CheckInstallers, InstallersUnread, CheckRemovals, AfterFirstCheck
  <2> QED BY <2>1, <1>1, <1>2 DEF Steps, Results
<1>5. CASE HelmRead \/ HelmRefuses \/ HelmDryRun \/ HelmLost
  <2>1. \/ Goto("preflight") \/ Goto("install") \/ Goto("upgrade")
        \/ Finish("stuck") \/ Finish("conflict") \/ Finish("helm")
    BY <1>5 DEF HelmRead, HelmRefuses, HelmDryRun, HelmLost
  <2> QED BY <2>1, <1>1, <1>2 DEF Steps, Results
<1>6. CASE HelmBegin
  <2>1. History BY <1>6 DEF HelmBegin
  <2>2. release' \in [status : Statuses, chart : Charts \cup {NoChart}, rev : Nat]
    BY <1>6, <1>0 DEF HelmBegin, TypeOK, Options, Statuses
  <2>3. effects' \subseteq {"helm", "removal", "apply"} /\ pc' \in Steps
    BY <1>6 DEF HelmBegin, TypeOK, Steps
  <2> QED BY <1>6, <1>0, <2>1, <2>2, <2>3, HistoryTyped DEF HelmBegin, TypeOK
<1>7. ASSUME NEW ready \in BOOLEAN, HelmEnd(ready) PROVE TypeOK'
  <2>1. History BY <1>7 DEF HelmEnd
  <2>2. release' \in [status : Statuses, chart : Charts \cup {NoChart}, rev : Nat]
    BY <1>7 DEF HelmEnd, HelmOutcome, TypeOK, Statuses
  <2>3. evidence' \in [Names -> [uid : Nat, rv : Nat]]
    BY <1>7 DEF HelmEnd, Exit, NoEvidence, TypeOK, runVars
  <2> QED BY <1>7, <2>1, <2>2, <2>3, HistoryTyped
          DEF HelmEnd, Exit, TypeOK, Steps, Results, runVars
<1>8. ASSUME NEW listed \in SUBSET Names, Preflight(listed) PROVE TypeOK'
  <2>1. CASE ~opts.overwrite
    <3>1. Finish("preflight") \/ Goto("policyRead") BY <1>8, <2>1 DEF Preflight
    <3> QED BY <3>1, <1>1, <1>2 DEF Steps, Results
  <2>2. CASE opts.overwrite
    <3>1. History BY <1>8, <2>2 DEF Preflight
    <3>2. evidence' \in [Names -> [uid : Nat, rv : Nat]]
      BY <1>8, <2>2 DEF Preflight, NoEvidence
    <3> QED BY <1>8, <2>2, <3>1, <3>2, HistoryTyped
            DEF Preflight, TypeOK, Steps, clusterVars
  <2> QED BY <2>1, <2>2
<1>9. ASSUME NEW n \in Names, InspectStray(n) PROVE TypeOK'
  <2>1. CASE Sections(n) # {}
    <3>1. Finish("remediation") BY <1>9, <2>1 DEF InspectStray
    <3> QED BY <3>1, <1>2 DEF Results
  <2>2. CASE Sections(n) = {}
    <3>1. History BY <1>9, <2>2 DEF InspectStray
    <3>2. evidence' \in [Names -> [uid : Nat, rv : Nat]]
      BY <1>9, <2>2 DEF InspectStray, TypeOK
    <3> QED BY <1>9, <2>2, <3>1, <3>2, HistoryTyped
            DEF InspectStray, TypeOK, clusterVars
  <2> QED BY <2>1, <2>2
<1>10. ASSUME NEW n \in Names, DeleteStray(n) PROVE TypeOK'
  <2>1. CASE Finish("remediation") BY <2>1, <1>2 DEF Results
  <2>2. CASE ~Finish("remediation")
    <3>1. History BY <1>10, <2>2 DEF DeleteStray
    <3>2. evidence' \in [Names -> [uid : Nat, rv : Nat]]
      BY <1>10, <2>2 DEF DeleteStray, TypeOK, NoEvidence
    <3>3. policies' \in Policied BY <1>10, <2>2 DEF DeleteStray, TypeOK, Absent
    <3>4. effects' \subseteq {"helm", "removal", "apply"} /\ writes' \in Nat
      BY <1>10, <1>0, <2>2 DEF DeleteStray, TypeOK
    <3> QED BY <1>10, <2>2, <3>1, <3>2, <3>3, <3>4, HistoryTyped
            DEF DeleteStray, TypeOK
  <2> QED BY <2>1, <2>2
<1>11. CASE ApplyPolicy
  <2>1. History BY <1>11 DEF ApplyPolicy
  <2>2. policies' \in Policied
    BY <1>11, <1>0, PolicyAssumption DEF ApplyPolicy, TypeOK, Options
  <2>3. effects' \subseteq {"helm", "removal", "apply"} /\ pc' \in Steps
    BY <1>11 DEF ApplyPolicy, TypeOK, Steps
  <2> QED BY <1>11, <1>0, <2>1, <2>2, <2>3, HistoryTyped
          DEF ApplyPolicy, TypeOK, runVars
<1>12. CASE PreflightDrift \/ StraysInspected \/ StraysDeleted \/ ApplyNothing
            \/ Wait \/ Stop
  <2>1. \/ Finish("preflight") \/ Goto("delete") \/ Goto("policyRead")
        \/ Finish("success") \/ Finish("stopped")
    BY <1>12 DEF PreflightDrift, StraysInspected, StraysDeleted, ApplyNothing,
                 Wait, Stop
  <2> QED BY <2>1, <1>1, <1>2 DEF Steps, Results
<1> QED BY <1>3, <1>4, <1>5, <1>6, <1>7, <1>8, <1>9, <1>10, <1>11, <1>12
        DEF Command

\* Takeover is type correct.
THEOREM TypeCorrect == Spec => []TypeOK
<1>1. Init => TypeOK
  <2> SUFFICES ASSUME Init PROVE TypeOK OBVIOUS
  <2>1. release \in [status : Statuses, chart : Charts \cup {NoChart}, rev : Nat]
    BY DEF Init, Statuses
  <2>2. policies \in [Names -> [uid : Nat, rv : Nat, mine : SUBSET Components,
                                 theirs : SUBSET Components]]
    BY DEF Init, Absent
  <2>3. installers \in [Components -> SUBSET ((Names \cup {Platform}) \X Nat)]
    BY DEF Init, PlatformOwner, Owner
  <2>4. evidence \in [Names -> [uid : Nat, rv : Nat]]
    BY DEF Init, NoEvidence
  <2>5. opts \in Options BY RunAssumption DEF Init
  <2>6. Facts \subseteq (Names \cup {Platform}) \X Components
    BY DEF Facts
  <2> QED BY <2>1, <2>2, <2>3, <2>4, <2>5, <2>6 DEF Init, TypeOK, Steps, Results
<1>2. TypeOK /\ [Next]_vars => TypeOK'
  <2> SUFFICES ASSUME TypeOK, [Next]_vars PROVE TypeOK' OBVIOUS
  <2>1. CASE Next BY <2>1, CommandTyped, OthersTyped DEF Next
  <2>2. CASE UNCHANGED vars BY <2>2 DEF vars, TypeOK
  <2> QED BY <2>1, <2>2
<1> QED BY <1>1, <1>2, PTL DEF Spec

-----------------------------------------------------------------------------
(* No step of l8k removes a managed section.                                *)

\* An absent policy has no sections.
AbsentIsEmpty == \A n \in Names : policies[n].uid = 0 => Sections(n) = {}

\* Resource versions, those of the evidence too, are of writes already made.
\* So a policy written after its inspection never matches the evidence.
Numbered ==
    \A n \in Names : policies[n].rv <= writes /\ evidence[n].rv <= writes

\* A policy that still is what Remediate inspected has no managed section.
EvidenceHolds ==
    \A n \in Names : evidence[n].uid # 0 /\ Preconditions(n) => Sections(n) = {}

\* Once the policy has been read, l8k owns no section the bundle lacks: only
\* l8k adds to them, and the run at hand does so by its next apply.
RendersAllMine ==
    pc \in {"policyInspect", "apply"} /\ opts.bundled
        => policies[Policy].mine \subseteq opts.renders

Safe == AbsentIsEmpty /\ Numbered /\ EvidenceHolds /\ RendersAllMine

\* What reading and returning leave alone: no policy, no write, no new evidence.
LEMMA QuietSafe ==
    ASSUME TypeOK, Safe, UNCHANGED <<policies, writes, opts>>,
           \/ evidence' = evidence
           \/ evidence' = [n \in Names |-> NoEvidence],
           pc' \in {"policyInspect", "apply"} => RendersAllMine'
    PROVE  Safe'
<1>1. AbsentIsEmpty' BY DEF Safe, AbsentIsEmpty, Sections
<1>2. Numbered' BY DEF Safe, Numbered, NoEvidence, TypeOK
<1>3. EvidenceHolds'
  BY DEF Safe, EvidenceHolds, Preconditions, Sections, NoEvidence
<1>4. RendersAllMine' BY DEF RendersAllMine
<1> QED BY <1>1, <1>2, <1>3, <1>4 DEF Safe

LEMMA FinishSafe == ASSUME TypeOK, Safe, NEW r, Finish(r) PROVE Safe'
BY QuietSafe DEF Finish, Exit, clusterVars

LEMMA GotoSafe ==
    ASSUME TypeOK, Safe, NEW step, Goto(step),
           step \in {"policyInspect", "apply"} => RendersAllMine'
    PROVE  Safe'
BY QuietSafe DEF Goto, clusterVars, runVars

\* A write of one policy under a fresh resource version, by anybody.
LEMMA WriteSafe ==
    ASSUME TypeOK, Safe, NEW n \in Names,
           writes' = writes + 1, UNCHANGED <<evidence, opts>>,
           NEW p \in [uid : Nat, rv : Nat, mine : SUBSET Components,
                      theirs : SUBSET Components],
           policies' = [policies EXCEPT ![n] = p],
           p = Absent \/ (p.uid # 0 /\ p.rv = writes + 1),
           pc' \in {"policyInspect", "apply"} => RendersAllMine'
    PROVE  Safe'
<1>1. AbsentIsEmpty'
  BY DEF Safe, AbsentIsEmpty, Sections, Absent, TypeOK
<1>2. Numbered' BY DEF Safe, Numbered, Absent, TypeOK
<1>3. EvidenceHolds'
  <2> SUFFICES ASSUME NEW m \in Names, evidence[m].uid # 0, Preconditions(m)'
               PROVE  Sections(m)' = {}
    BY DEF EvidenceHolds
  <2>1. CASE m # n
    BY <2>1 DEF Safe, EvidenceHolds, Preconditions, Sections, TypeOK
  <2>2. CASE m = n
    <3>1. policies'[m] = p BY <2>2 DEF TypeOK
    <3>2. p.uid = evidence[m].uid /\ p.rv = evidence[m].rv
      BY <3>1 DEF Preconditions
    <3>3. p # Absent BY <3>2 DEF Absent
    <3>4. evidence[m].rv <= writes BY DEF Safe, Numbered
    <3> QED BY <3>2, <3>3, <3>4 DEF TypeOK
  <2> QED BY <2>1, <2>2
<1>4. RendersAllMine' BY DEF RendersAllMine
<1> QED BY <1>1, <1>2, <1>3, <1>4 DEF Safe

LEMMA OthersSafe == ASSUME TypeOK, Safe, Others PROVE Safe'
<1>1. ASSUME NEW n \in Names, OtherPolicy(n) PROVE Safe'
  <2>1. Fresh \in Nat /\ Fresh # 0 BY DEF Fresh, TypeOK
  <2>2. UNCHANGED <<evidence, opts, pc>> /\ writes' = writes + 1
    BY <1>1 DEF OtherPolicy, Otherwise, runVars, Fresh
  <2>3. CASE \E m \in SUBSET policies[n].mine, t \in SUBSET Components :
            policies' = [policies EXCEPT ![n] =
               [uid |-> IF Exists(n) THEN policies[n].uid ELSE Fresh,
                rv |-> Fresh, mine |-> m, theirs |-> t]]
    <3>1. PICK m \in SUBSET policies[n].mine, t \in SUBSET Components :
            policies' = [policies EXCEPT ![n] =
               [uid |-> IF Exists(n) THEN policies[n].uid ELSE Fresh,
                rv |-> Fresh, mine |-> m, theirs |-> t]]
      BY <2>3
    <3> DEFINE p == [uid |-> IF Exists(n) THEN policies[n].uid ELSE Fresh,
                     rv |-> Fresh, mine |-> m, theirs |-> t]
    <3>2. p \in [uid : Nat, rv : Nat, mine : SUBSET Components,
                 theirs : SUBSET Components]
      BY <2>1 DEF TypeOK
    <3>3. p.uid # 0 /\ p.rv = writes + 1 BY <2>1 DEF Exists, Fresh
    <3>4. RendersAllMine'
      BY <3>1, <2>2, PolicyAssumption DEF Safe, RendersAllMine, TypeOK
    <3> HIDE DEF p
    <3>5. policies' = [policies EXCEPT ![n] = p] BY <3>1 DEF p
    <3> QED BY <2>2, <3>2, <3>3, <3>4, <3>5, WriteSafe
  <2>4. CASE policies' = [policies EXCEPT ![n] = Absent]
    <3>1. Absent \in [uid : Nat, rv : Nat, mine : SUBSET Components,
                      theirs : SUBSET Components]
      BY DEF Absent
    <3>2. RendersAllMine'
      BY <2>2, <2>4, PolicyAssumption DEF Safe, RendersAllMine, TypeOK, Absent
    <3> QED BY <2>2, <2>4, <3>1, <3>2, WriteSafe
  <2> QED BY <1>1, <2>3, <2>4 DEF OtherPolicy
<1>2. CASE OtherHelm
  <2>1. UNCHANGED <<evidence, opts, pc, policies>> /\ writes' = writes + 1
    BY <1>2 DEF OtherHelm, Otherwise, runVars, Fresh
  <2> QED BY <2>1 DEF Safe, AbsentIsEmpty, Numbered, EvidenceHolds, TypeOK,
              RendersAllMine, Sections, Preconditions
<1>3. CASE UNCHANGED <<evidence, opts, pc, policies, writes>>
  BY <1>3 DEF Safe, AbsentIsEmpty, Numbered, EvidenceHolds, RendersAllMine,
          Sections, Preconditions
<1>4. ASSUME NEW n, NEW c, OperatorInstalls(n, c) PROVE Safe'
  BY <1>3, <1>4 DEF OperatorInstalls, Otherwise, runVars
<1>5. ASSUME NEW c, PlatformInstaller(c) PROVE Safe'
  BY <1>3, <1>5 DEF PlatformInstaller, Otherwise, runVars
<1>6. ASSUME NEW c, NEW owner, OperatorRemoves(c, owner) PROVE Safe'
  BY <1>3, <1>6 DEF OperatorRemoves, Otherwise, runVars
<1> QED BY <1>1, <1>2, <1>4, <1>5, <1>6 DEF Others

LEMMA CommandSafe == ASSUME TypeOK, Safe, Command PROVE Safe'
<1>0. Fresh \in Nat /\ Fresh # 0 /\ Fresh = writes + 1 BY DEF Fresh, TypeOK
<1>1. ASSUME NEW r, Finish(r) PROVE Safe' BY <1>1, FinishSafe
<1>2. ASSUME NEW step, Goto(step), step \notin {"policyInspect", "apply"}
      PROVE  Safe'
  BY <1>2, GotoSafe
<1>3. CASE CheckPolicyRead
  <2>1. CASE KeepsManaged
    <3>1. UNCHANGED <<policies, writes, opts, evidence>>
      BY <1>3, <2>1 DEF CheckPolicyRead, clusterVars
    <3>2. opts.bundled => policies[Policy].mine \subseteq opts.renders
      BY <2>1, PolicyAssumption DEF KeepsManaged, Safe, AbsentIsEmpty, Exists,
                                    Sections
    <3>3. RendersAllMine' BY <3>1, <3>2 DEF RendersAllMine
    <3> QED BY <3>1, <3>3, QuietSafe
  <2>2. CASE ~KeepsManaged
    <3>1. Finish("ownership") BY <1>3, <2>2 DEF CheckPolicyRead
    <3> QED BY <3>1, <1>1
  <2> QED BY <2>1, <2>2
<1>4. CASE CheckInstallers \/ InstallersUnread \/ CheckRemovals
  <2>1. CASE pc = "policyInspect" /\ Goto("apply")
    <3>1. RendersAllMine'
      BY <2>1 DEF Safe, RendersAllMine, Goto, clusterVars, runVars
    <3> QED BY <2>1, <3>1, GotoSafe
  <2>2. CASE Goto("removals") \/ Goto("helmRead") BY <2>2, <1>2
  <2>3. CASE Finish("ownership") BY <2>3, <1>1
  <2> QED BY <1>4, <2>1, <2>2, <2>3
          DEF CheckInstallers, InstallersUnread, CheckRemovals, AfterFirstCheck
<1>5. CASE HelmRead \/ HelmRefuses \/ HelmDryRun \/ HelmLost
  <2>1. \/ Goto("preflight") \/ Goto("install") \/ Goto("upgrade")
        \/ Finish("stuck") \/ Finish("conflict") \/ Finish("helm")
    BY <1>5 DEF HelmRead, HelmRefuses, HelmDryRun, HelmLost
  <2> QED BY <2>1, <1>1, <1>2
<1>6. CASE HelmBegin
  <2>1. /\ UNCHANGED <<policies, evidence, opts>> /\ writes' = writes + 1
        /\ pc' = "helmWait"
    BY <1>6, <1>0 DEF HelmBegin
  <2> QED BY <2>1 DEF Safe, AbsentIsEmpty, Numbered, EvidenceHolds, TypeOK,
              RendersAllMine, Sections, Preconditions
<1>7. ASSUME NEW ready \in BOOLEAN, HelmEnd(ready) PROVE Safe'
  BY <1>7, QuietSafe DEF HelmEnd, Exit, runVars
<1>8. ASSUME NEW listed \in SUBSET Names, Preflight(listed) PROVE Safe'
  <2>1. CASE ~opts.overwrite
    <3>1. Finish("preflight") \/ Goto("policyRead") BY <1>8, <2>1 DEF Preflight
    <3> QED BY <3>1, <1>1, <1>2
  <2>2. CASE opts.overwrite
    BY <1>8, <2>2, QuietSafe DEF Preflight, clusterVars
  <2> QED BY <2>1, <2>2
<1>9. ASSUME NEW n \in Names, InspectStray(n) PROVE Safe'
  <2>1. CASE Sections(n) # {}
    <3>1. Finish("remediation") BY <1>9, <2>1 DEF InspectStray
    <3> QED BY <3>1, <1>1
  <2>2. CASE Sections(n) = {}
    <3>1. /\ UNCHANGED <<policies, writes, opts, pc>> /\ pc = "remediate"
          /\ evidence' = [evidence EXCEPT ![n] =
                             [uid |-> policies[n].uid, rv |-> policies[n].rv]]
      BY <1>9, <2>2 DEF InspectStray, clusterVars
    <3>2. Numbered' BY <3>1 DEF Safe, Numbered, TypeOK
    <3>3. EvidenceHolds'
      BY <2>2, <3>1 DEF Safe, EvidenceHolds, Preconditions, Sections, TypeOK
    <3> QED BY <3>1, <3>2, <3>3
            DEF Safe, AbsentIsEmpty, Sections, RendersAllMine
  <2> QED BY <2>1, <2>2
<1>10. ASSUME NEW n \in Names, DeleteStray(n) PROVE Safe'
  <2>1. CASE Finish("remediation") BY <2>1, <1>1
  <2>2. CASE ~Finish("remediation")
    <3>1. /\ UNCHANGED <<opts, pc>> /\ pc = "delete"
          /\ evidence' = [evidence EXCEPT ![n] = NoEvidence]
      BY <1>10, <2>2 DEF DeleteStray
    <3>2. \/ UNCHANGED <<policies, writes>>
          \/ policies' = [policies EXCEPT ![n] = Absent] /\ writes' = writes + 1
      BY <1>10, <1>0, <2>2 DEF DeleteStray
    <3>3. Numbered'
      BY <3>1, <3>2 DEF Safe, Numbered, TypeOK, Absent, NoEvidence
    <3>4. EvidenceHolds'
      BY <3>1, <3>2 DEF Safe, EvidenceHolds, Preconditions, Sections, TypeOK,
                        Absent, NoEvidence
    <3>5. AbsentIsEmpty'
      BY <3>2 DEF Safe, AbsentIsEmpty, Sections, TypeOK, Absent
    <3> QED BY <3>1, <3>3, <3>4, <3>5 DEF Safe, RendersAllMine
  <2> QED BY <2>1, <2>2
<1>11. CASE ApplyPolicy
  <2>1. PICK theirs \in {policies[Policy].theirs,
                        policies[Policy].theirs \ opts.renders} :
          policies' = [policies EXCEPT ![Policy] =
            [uid |-> IF Exists(Policy) THEN policies[Policy].uid ELSE Fresh,
             rv |-> Fresh, mine |-> opts.renders, theirs |-> theirs]]
    BY <1>11 DEF ApplyPolicy
  <2> DEFINE p == [uid |-> IF Exists(Policy) THEN policies[Policy].uid ELSE Fresh,
                   rv |-> Fresh, mine |-> opts.renders, theirs |-> theirs]
  <2>2. p \in [uid : Nat, rv : Nat, mine : SUBSET Components,
               theirs : SUBSET Components]
    BY <1>0, PolicyAssumption DEF TypeOK, Options
  <2>3. p.uid # 0 /\ p.rv = writes + 1 BY <1>0 DEF Exists
  <2>4. UNCHANGED <<evidence, opts>> /\ writes' = writes + 1 /\ pc' = "wait"
    BY <1>11, <1>0 DEF ApplyPolicy, runVars
  <2> HIDE DEF p
  <2>5. policies' = [policies EXCEPT ![Policy] = p] BY <2>1 DEF p
  <2> QED BY <2>2, <2>3, <2>4, <2>5, WriteSafe, PolicyAssumption
<1>12. CASE PreflightDrift \/ StraysInspected \/ StraysDeleted \/ ApplyNothing
            \/ Wait \/ Stop
  <2>1. \/ Finish("preflight") \/ Goto("delete") \/ Goto("policyRead")
        \/ Finish("success") \/ Finish("stopped")
    BY <1>12 DEF PreflightDrift, StraysInspected, StraysDeleted, ApplyNothing,
                 Wait, Stop
  <2> QED BY <2>1, <1>1, <1>2
<1> QED BY <1>3, <1>4, <1>5, <1>6, <1>7, <1>8, <1>9, <1>10, <1>11, <1>12
        DEF Command

\* Safe is an invariant: the evidence of an inspection and the sections l8k
\* owns stay what the code believes them to be, whatever other clients write.
THEOREM SafeInvariant == Spec => []Safe
<1>1. Init => Safe
  <2> SUFFICES ASSUME Init PROVE Safe OBVIOUS
  <2>1. AbsentIsEmpty BY DEF Init, AbsentIsEmpty, Sections, Absent
  <2>2. Numbered BY DEF Init, Numbered, Absent, NoEvidence
  <2>3. EvidenceHolds BY DEF Init, EvidenceHolds, NoEvidence
  <2> QED BY <2>1, <2>2, <2>3 DEF Init, Safe, RendersAllMine
<1>2. TypeOK /\ Safe /\ [Next]_vars => Safe'
  <2> SUFFICES ASSUME TypeOK, Safe, [Next]_vars PROVE Safe' OBVIOUS
  <2>1. CASE Next BY <2>1, CommandSafe, OthersSafe DEF Next
  <2>2. CASE UNCHANGED vars
    BY <2>2 DEF vars, Safe, AbsentIsEmpty, Numbered, EvidenceHolds,
                RendersAllMine, Sections, Preconditions
  <2> QED BY <2>1, <2>2
<1> QED BY <1>1, <1>2, TypeCorrect, PTL DEF Spec

\* NetworkingKept: no step of l8k deploy removes a managed Multus or CNI
\* section, for any policies, components and interleaving of other clients.
THEOREM KeepsNetworking == Spec => NetworkingKept
<1> DEFINE Kept == CommandStep => \A n \in Names : Sections(n) \subseteq Sections(n)'
<1>1. TypeOK /\ Safe /\ [Next]_vars => [Kept]_vars
  <2> SUFFICES ASSUME TypeOK, Safe, Next, CommandStep, NEW n \in Names
               PROVE  Sections(n) \subseteq Sections(n)'
    BY DEF CommandStep
  <2>1. CASE policies' = policies BY <2>1 DEF Sections
  <2>2. CASE policies' # policies
    <3>1. ~Others
      BY DEF CommandStep, Others, OtherHelm, OtherPolicy, OperatorInstalls,
             OperatorRemoves, PlatformInstaller, Otherwise
    <3>2. (\E m \in Names : DeleteStray(m)) \/ ApplyPolicy
      BY <2>2, <3>1 DEF Next, Command, CheckPolicyRead, CheckInstallers,
         InstallersUnread, CheckRemovals, HelmRead, HelmBegin, HelmRefuses,
         HelmDryRun, HelmEnd, HelmLost, Preflight, PreflightDrift, InspectStray,
         StraysInspected, StraysDeleted, ApplyNothing, Wait, Stop, Goto, Finish,
         Exit, clusterVars
    <3>3. ASSUME NEW m \in Names, DeleteStray(m)
          PROVE  Sections(n) \subseteq Sections(n)'
      <4>1. /\ policies' = [policies EXCEPT ![m] = Absent]
            /\ evidence[m].uid # 0 /\ Preconditions(m)
        BY <2>2, <3>3 DEF DeleteStray, Deletions, Finish, clusterVars
      <4>2. Sections(m) = {} BY <4>1 DEF Safe, EvidenceHolds
      <4> QED BY <4>1, <4>2 DEF Sections, TypeOK
    <3>4. CASE ApplyPolicy
      <4>1. policies[Policy].mine \subseteq opts.renders
        BY <3>4 DEF ApplyPolicy, Safe, RendersAllMine
      <4>2. /\ \A m \in Names \ {Policy} : policies'[m] = policies[m]
            /\ policies'[Policy].mine = opts.renders
            /\ policies[Policy].theirs \ opts.renders
                 \subseteq policies'[Policy].theirs
        BY <3>4, PolicyAssumption DEF ApplyPolicy, TypeOK
      <4> QED BY <4>1, <4>2 DEF Sections
    <3> QED BY <3>2, <3>3, <3>4
  <2> QED BY <2>1, <2>2
<1> QED BY <1>1, TypeCorrect, SafeInvariant, PTL DEF Spec, NetworkingKept

-----------------------------------------------------------------------------
(* A run whose ownership conflict stood from the start changes nothing.     *)

\* A conflict that stands is met at the first step that looks for it, and
\* only then may the run go on to the next one.
Met ==
    /\ opts \in Runs
    /\ stoodRun \subseteq Facts
    /\ StrayBlocks => pc \in {"ownership", "inspect", "removals", "done"}
    /\ PolicyBlocks => pc \in {"ownership", "done"}
    /\ PlatformBlocks => pc \in {"ownership", "inspect", "done"}
    /\ BlockedRunTouchesNothing

LEMMA Frame ==
    ASSUME Next
    PROVE  /\ opts' = opts /\ stoodRun' \subseteq stoodRun
           /\ stoodRun' \subseteq Facts'
<1>1. opts' = opts /\ History
  <2>1. CASE Others
    BY <2>1 DEF Others, OtherHelm, OtherPolicy, OperatorInstalls,
       OperatorRemoves, PlatformInstaller, Otherwise, runVars
  <2>2. CASE Command
    BY <2>2 DEF Command, CheckPolicyRead, CheckInstallers,
       InstallersUnread, CheckRemovals, HelmRead, HelmBegin, HelmRefuses,
       HelmDryRun, HelmEnd, HelmLost, Preflight, PreflightDrift, InspectStray,
       StraysInspected, StraysDeleted, DeleteStray, ApplyPolicy, ApplyNothing,
       Wait, Stop, Goto, Finish, Exit, runVars
  <2> QED BY <2>1, <2>2 DEF Next
<1> QED BY <1>1 DEF History

\* Every step from a state where the run is blocked returns, belongs to
\* another client, or goes on to a later check.
LEMMA BlockedStep ==
    ASSUME TypeOK, Safe, Met, Next, StrayBlocks \/ PolicyBlocks \/ PlatformBlocks
    PROVE  /\ effects' = effects
           /\ \/ pc' \in {pc, "done"}
              \/ pc = "ownership" /\ pc' = "inspect" /\ ~PolicyBlocks
              \/ /\ pc = "inspect" /\ pc' = "removals"
                 /\ ~PolicyBlocks /\ ~PlatformBlocks
<1>1. pc \in {"ownership", "inspect", "removals", "done"} BY DEF Met
<1>2. CASE Others
  BY <1>2 DEF Others, OtherHelm, OtherPolicy, OperatorInstalls,
     OperatorRemoves, PlatformInstaller, Otherwise
<1>3. CASE CheckPolicyRead
  <2>1. ASSUME KeepsManaged PROVE ~PolicyBlocks
    <3> SUFFICES ASSUME opts.bundled, NEW c \in Components \ opts.renders,
                        <<Policy, c>> \in stoodRun
                 PROVE  FALSE
      BY DEF PolicyBlocks
    <3>1. c \in Sections(Policy)
      BY PolicyAssumption DEF Met, Facts
    <3>2. Exists(Policy)
      BY <3>1, PolicyAssumption DEF Safe, AbsentIsEmpty, Exists
    <3> QED BY <2>1, <3>1, <3>2 DEF KeepsManaged
  <2> QED BY <1>1, <1>3, <2>1 DEF CheckPolicyRead, Finish, Exit
<1>4. CASE CheckInstallers \/ InstallersUnread
  <2>1. pc = "inspect" /\ ~PolicyBlocks
    BY <1>1, <1>4 DEF CheckInstallers, InstallersUnread, Met
  <2>2. ASSUME PlatformBlocks PROVE ~OwnershipAgrees /\ opts.renders # {}
    <3>1. PICK c \in opts.renders : <<Platform, c>> \in stoodRun
      BY <2>2 DEF PlatformBlocks
    <3>2. PlatformOwner \in installers[c] BY <3>1 DEF Met, Facts
    <3>3. PlatformOwner # Owner(Policy, live)
      BY PolicyAssumption DEF PlatformOwner, Owner
    <3>4. ~MayManage(c) BY <3>2, <3>3 DEF MayManage, NotDetected
    <3>5. c \in Components /\ opts.bundled
      BY RunAssumption DEF Met, Options
    <3> QED BY <3>1, <3>4, <3>5 DEF OwnershipAgrees
  <2>3. CASE PlatformBlocks
    <3>1. Finish("ownership")
      BY <1>4, <2>1, <2>2, <2>3 DEF CheckInstallers, InstallersUnread
    <3> QED BY <3>1 DEF Finish, Exit
  <2>4. CASE ~PlatformBlocks
    <3>1. opts.overwrite BY <2>1, <2>4 DEF StrayBlocks
    <3>2. Goto("removals") \/ Finish("ownership")
      BY <1>4, <2>1, <3>1 DEF CheckInstallers, InstallersUnread, AfterFirstCheck
    <3> QED BY <2>1, <2>4, <3>2 DEF Goto, Finish, Exit
  <2> QED BY <2>3, <2>4
<1>5. CASE CheckRemovals
  <2>1. pc = "removals" BY <1>5 DEF CheckRemovals
  <2>2. StrayBlocks BY <2>1 DEF Met
  <2>3. PICK n \in Strays, c \in Components : <<n, c>> \in stoodRun
    BY <2>2 DEF StrayBlocks
  <2>4. n # Platform BY PolicyAssumption DEF Strays
  <2>5. c \in Sections(n) BY <2>3, <2>4 DEF Met, Facts
  <2>6. Finish("ownership") BY <1>5, <2>5 DEF CheckRemovals
  <2> QED BY <2>6 DEF Finish, Exit
<1>6. CASE Stop BY <1>6 DEF Stop, Finish, Exit
<1> QED BY <1>1, <1>2, <1>3, <1>4, <1>5, <1>6
        DEF Next, Command, HelmRead, HelmBegin, HelmRefuses, HelmDryRun, HelmEnd,
            HelmLost, Preflight, PreflightDrift, InspectStray, StraysInspected,
            StraysDeleted, DeleteStray, ApplyPolicy, ApplyNothing, Wait

\* BlockedRunTouchesNothing: whatever the bundle, a run that an ownership
\* conflict should refuse has no effect, in whatever order other clients act.
THEOREM BlockedRuns == Spec => []BlockedRunTouchesNothing
<1>1. Init => Met
  BY DEF Init, Met, BlockedRunTouchesNothing
<1>2. TypeOK /\ Safe /\ Met /\ [Next]_vars => Met'
  <2> SUFFICES ASSUME TypeOK, Safe, Met, [Next]_vars PROVE Met' OBVIOUS
  <2>1. CASE Next
    <3>1. /\ opts' = opts /\ stoodRun' \subseteq stoodRun
          /\ stoodRun' \subseteq Facts'
      BY <2>1, Frame
    <3>2. /\ StrayBlocks' => StrayBlocks
          /\ PolicyBlocks' => PolicyBlocks
          /\ PlatformBlocks' => PlatformBlocks
      BY <3>1 DEF StrayBlocks, PolicyBlocks, PlatformBlocks, Strays
    <3>3. CASE StrayBlocks \/ PolicyBlocks \/ PlatformBlocks
      <4>1. /\ effects' = effects
            /\ \/ pc' \in {pc, "done"}
               \/ pc = "ownership" /\ pc' = "inspect" /\ ~PolicyBlocks
               \/ /\ pc = "inspect" /\ pc' = "removals"
                  /\ ~PolicyBlocks /\ ~PlatformBlocks
        BY <2>1, <3>3, BlockedStep
      <4> QED BY <3>1, <3>2, <4>1 DEF Met, BlockedRunTouchesNothing
    <3>4. CASE ~(StrayBlocks \/ PolicyBlocks \/ PlatformBlocks)
      BY <3>1, <3>2, <3>4 DEF Met, BlockedRunTouchesNothing
    <3> QED BY <3>3, <3>4
  <2>2. CASE UNCHANGED vars
    BY <2>2 DEF vars, Met, BlockedRunTouchesNothing, StrayBlocks, PolicyBlocks,
       PlatformBlocks, Strays, Facts, Sections
  <2> QED BY <2>1, <2>2
<1>3. Met => BlockedRunTouchesNothing BY DEF Met
<1> QED BY <1>1, <1>2, <1>3, TypeCorrect, SafeInvariant, PTL DEF Spec

-----------------------------------------------------------------------------
(* What the reads before a write have settled.                              *)

\* An upgrade was asked for; before an apply no installer of somebody else has
\* stood, for a component the bundle manages, since the phase began.
Settled ==
    /\ opts \in Runs
    /\ pc = "upgrade" => opts.overwrite
    /\ pc = "apply" => \A c \in opts.renders : <<Platform, c>> \notin stood

\* A step to neither of those two steps, or from a place to itself.
LEMMA QuietSettled ==
    ASSUME Settled, opts' = opts, History, pc' \notin {"upgrade", "apply"} \/ pc' = pc
    PROVE  Settled'
BY DEF Settled, History

\* The ownership check lets a bundle go on to its apply only without an
\* installer of somebody else for what it manages.
LEMMA CheckedSettled ==
    ASSUME Settled, CheckInstallers \/ InstallersUnread
    PROVE  Settled'
<1>1. opts' = opts /\ History /\ UNCHANGED installers
  BY DEF CheckInstallers, InstallersUnread, Goto, Finish, Exit, clusterVars, runVars
<1>2. CASE pc' # "apply"
  <2>1. pc' # "upgrade"
    BY DEF CheckInstallers, InstallersUnread, Goto, Finish, Exit, AfterFirstCheck
  <2> QED BY <1>1, <1>2, <2>1, QuietSettled
<1>3. CASE pc' = "apply"
  <2>1. OwnershipAgrees \/ opts.renders = {}
    BY <1>3 DEF CheckInstallers, InstallersUnread, Goto, Finish, Exit, AfterFirstCheck
  <2>2. ASSUME NEW c \in opts.renders PROVE <<Platform, c>> \notin stood'
    <3>1. opts.bundled /\ c \in Components
      BY RunAssumption DEF Settled, Options
    <3>2. MayManage(c) BY <2>1, <2>2, <3>1 DEF OwnershipAgrees
    <3>3. PlatformOwner # Owner(Policy, live)
      BY PolicyAssumption DEF PlatformOwner, Owner
    <3>4. PlatformOwner \notin installers'[c]
      BY <1>1, <3>2, <3>3 DEF MayManage, NotDetected
    <3>5. <<Platform, c>> \notin Facts' BY <3>4 DEF Facts
    <3> QED BY <1>1, <1>3, <3>5 DEF History
  <2> QED BY <1>1, <1>3, <2>2 DEF Settled
<1> QED BY <1>2, <1>3

LEMMA SettledInvariant == Spec => []Settled
<1>1. Init => Settled BY DEF Init, Settled
<1>2. Settled /\ [Next]_vars => Settled'
  <2> SUFFICES ASSUME Settled, [Next]_vars PROVE Settled' OBVIOUS
  <2>1. CASE Others
    <3>1. UNCHANGED <<opts, pc>> /\ History
      BY <2>1 DEF Others, OtherHelm, OtherPolicy, OperatorInstalls,
         OperatorRemoves, PlatformInstaller, Otherwise, runVars
    <3> QED BY <3>1, QuietSettled
  <2>2. CASE CheckInstallers \/ InstallersUnread BY <2>2, CheckedSettled
  <2>3. CASE HelmRead
    <3>1. opts' = opts /\ History
      BY <2>3 DEF HelmRead, Goto, Finish, Exit, runVars
    <3>2. pc' = "upgrade" => opts.overwrite
      BY <2>3 DEF HelmRead, Goto, Finish, Exit
    <3>3. pc' # "apply" BY <2>3 DEF HelmRead, Goto, Finish, Exit
    <3> QED BY <3>1, <3>2, <3>3 DEF Settled
  <2>4. CASE Command /\ ~(CheckInstallers \/ InstallersUnread \/ HelmRead)
    <3>1. opts' = opts /\ History
      BY <2>4 DEF Command, CheckPolicyRead, CheckRemovals, HelmBegin, HelmRefuses,
         HelmDryRun, HelmEnd, HelmLost, Preflight, PreflightDrift, InspectStray,
         StraysInspected, StraysDeleted, DeleteStray, ApplyPolicy, ApplyNothing,
         Wait, Stop, Goto, Finish, Exit, runVars
    <3>2. pc' \notin {"upgrade", "apply"} \/ pc' = pc
      BY <2>4 DEF Command, CheckPolicyRead, CheckRemovals, HelmBegin, HelmRefuses,
         HelmDryRun, HelmEnd, HelmLost, Preflight, PreflightDrift, InspectStray,
         StraysInspected, StraysDeleted, DeleteStray, ApplyPolicy, ApplyNothing,
         Wait, Stop, Goto, Finish, Exit
    <3> QED BY <3>1, <3>2, QuietSettled
  <2>5. CASE UNCHANGED vars BY <2>5 DEF vars, Settled
  <2> QED BY <2>1, <2>2, <2>3, <2>4, <2>5 DEF Next
<1> QED BY <1>1, <1>2, PTL DEF Spec

\* ReplacedOnRequest: installOrUpgradeWithLoader changes the chart of a release
\* it found, or that another client made meanwhile, on request only, and never
\* one with an operation pending.
THEOREM ReleaseReplacedOnRequest == Spec => ReplacedOnRequest
<1> DEFINE OnRequest ==
      CommandStep /\ release.status # "absent" /\ release'.chart # release.chart
        => opts.overwrite /\ ~opts.dryRun /\ release.status # "pending"
<1>1. TypeOK /\ Settled /\ [Next]_vars => [OnRequest]_vars
  <2> SUFFICES ASSUME TypeOK, Settled, Next, CommandStep, release.status # "absent",
                      release'.chart # release.chart
               PROVE  opts.overwrite /\ ~opts.dryRun /\ release.status # "pending"
    BY DEF CommandStep
  <2>1. ~Others
    BY DEF CommandStep, Others, OtherHelm, OtherPolicy, OperatorInstalls,
           OperatorRemoves, PlatformInstaller, Otherwise
  <2>2. ASSUME NEW ready, HelmEnd(ready) PROVE FALSE
    BY <2>2 DEF HelmEnd, TypeOK
  <2>3. HelmBegin
    BY <2>1, <2>2 DEF Next, Command, CheckPolicyRead, CheckInstallers,
       InstallersUnread, CheckRemovals, HelmRead, HelmRefuses,
       HelmDryRun, HelmLost, Preflight, PreflightDrift, InspectStray,
       StraysInspected, StraysDeleted, DeleteStray, ApplyPolicy, ApplyNothing,
       Wait, Stop, Goto, Finish, clusterVars
  <2> QED BY <2>3 DEF HelmBegin, HelmAccepts, Settled
<1> QED BY <1>1, TypeCorrect, SettledInvariant, PTL DEF Spec, ReplacedOnRequest

\* OneInstaller: every apply of the policy, the re-apply of a vanished one
\* included, follows an ownership check of its own.
THEOREM NoSecondInstaller == Spec => OneInstaller
<1> DEFINE Alone == pc = "apply" /\ pc' = "wait"
                      => \A c \in opts.renders : <<Platform, c>> \notin stood
<1>1. Settled /\ [Next]_vars => [Alone]_vars
  BY DEF Settled
<1> QED BY <1>1, SettledInvariant, PTL DEF Spec, OneInstaller
=============================================================================

--------------------------- MODULE Recovery_proofs ----------------------------
(***************************************************************************)
(* Theorems about the ways back: saved plans of terraform-apply-gated,     *)
(* rollbacks of kubectl deploys, and backups and the drills that try them, *)
(* for any runs in any places.                                             *)
(***************************************************************************)
EXTENDS SavedPlan, KubeDeploy, BackupDrill, WellFoundedInduction, TLAPS

Workplaces == {where[r] : r \in Planner}

(* The file of a directory is a plan of a run that works there. *)
FilesInPlace ==
  /\ planFile = [w \in Workplaces |-> planFile[w]]
  /\ \A w \in Workplaces : planFile[w] # NoPlan => where[planFile[w].by] = w

(* From the plan on, the file holds what the run's approver was shown, or  *)
(* what another run has put there since.                                   *)
FileIsShown(r) ==
  tpc[r] \in {"approve", "select", "apply"} =>
    planFile[where[r]] = shown[r] \/ planFile[where[r]].by # r

(* A run applies once, as its last step. *)
AppliesLast(r) ==
  applied[r] # NoPlan =>
    /\ tpc[r] \in {"done", "failed"}
    /\ \/ applied[r] = shown[r]
       \/ applied[r].by # r /\ where[applied[r].by] = where[r]

PlanInv ==
  /\ PlanTypeOK
  /\ FilesInPlace
  /\ \A r \in Planner : FileIsShown(r) /\ AppliesLast(r)

-------------------------------------------------------------------------------
LEMMA FileFacts ==
  ASSUME PlanInv, NEW r \in Planner
  PROVE  /\ where[r] \in Workplaces
         /\ DOMAIN planFile = Workplaces
         /\ planFile[where[r]] \in SavedPlans \cup {NoPlan}
         /\ shown[r] \in SavedPlans \cup {NoPlan}
  BY DEF PlanInv, PlanTypeOK, FilesInPlace, Workplaces

LEMMA ProceedFacts ==
  ASSUME PlanTypeOK, NEW r \in Planner,
         NEW step \in {"init", "plan", "approve", "select", "apply", "done", "failed"},
         Proceed(r, step)
  PROVE  /\ tpc' \in [Planner -> {"init", "plan", "approve", "select", "apply", "done", "failed"}]
         /\ tpc'[r] = step
         /\ \A d \in Planner \ {r} : tpc'[d] = tpc[d]
  BY DEF PlanTypeOK, Proceed

LEMMA InitInv ==
  ASSUME NEW places, PlanInit(places)
  PROVE  PlanInv
<1>1. UNION {{where[r]} : r \in Planner} = Workplaces
  BY DEF Workplaces
<1>2. planFile = [w \in UNION {{where[r]} : r \in Planner} |-> NoPlan]
  BY DEF PlanInit
<1>3. \A w \in Workplaces : planFile[w] = NoPlan
  BY <1>1, <1>2
<1>4. planFile = [w \in Workplaces |-> planFile[w]]
  BY <1>1, <1>2
<1>5. \A w \in Workplaces : planFile[w] # NoPlan => where[planFile[w].by] = w
  BY <1>3
<1>6. PlanTypeOK
  <2>1. \A w \in DOMAIN planFile : planFile[w] \in SavedPlans \cup {NoPlan}
    BY <1>3, <1>4
  <2>2. serial \in 0..LastSerial
    BY PlanAssumption DEF PlanInit
  <2> QED
    BY <2>1, <2>2 DEF PlanInit, PlanTypeOK
<1>7. \A r \in Planner : FileIsShown(r) /\ AppliesLast(r)
  BY DEF FileIsShown, AppliesLast, PlanInit
<1> QED
  BY <1>6, <1>4, <1>5, <1>7 DEF PlanInv, FilesInPlace

(* A step that leaves a run, the files and the directories alone. *)
LEMMA RunStays ==
  ASSUME NEW d \in Planner, FileIsShown(d), AppliesLast(d),
         tpc'[d] = tpc[d], shown'[d] = shown[d], applied'[d] = applied[d],
         UNCHANGED <<where, planFile>>
  PROVE  FileIsShown(d)' /\ AppliesLast(d)'
  BY DEF FileIsShown, AppliesLast

LEMMA FilesStay ==
  ASSUME FilesInPlace, UNCHANGED <<where, planFile>>
  PROVE  FilesInPlace'
  BY DEF FilesInPlace, Workplaces

LEMMA WritePlanInv ==
  ASSUME PlanInv, NEW r \in Planner, WritePlan(r), tpc'[r] = "approve",
         planFile' = [planFile EXCEPT ![where[r]] = [by |-> r, on |-> serial]],
         shown' = [shown EXCEPT ![r] = [by |-> r, on |-> serial]],
         Proceed(r, "approve")
  PROVE  PlanInv'
<1> DEFINE plan == [by |-> r, on |-> serial]
<1>1. PlanTypeOK /\ FilesInPlace
  BY DEF PlanInv
<1>2. UNCHANGED <<where, echo, serial, applied>> /\ tpc[r] = "plan"
  BY DEF WritePlan, TerraformAt
<1>3. plan \in SavedPlans /\ plan.by = r
  BY <1>1 DEF PlanTypeOK, SavedPlans
<1>4. /\ tpc' \in [Planner -> {"init", "plan", "approve", "select", "apply", "done", "failed"}]
      /\ \A d \in Planner \ {r} : tpc'[d] = tpc[d]
  BY <1>1, ProceedFacts
<1>5. /\ planFile'[where[r]] = plan
      /\ \A w \in Workplaces \ {where[r]} : planFile'[w] = planFile[w]
      /\ DOMAIN planFile' = Workplaces /\ planFile' = [w \in Workplaces |-> planFile'[w]]
  BY FileFacts DEF FilesInPlace
<1>6. shown' \in [Planner -> SavedPlans \cup {NoPlan}] /\ shown'[r] = plan
      /\ \A d \in Planner \ {r} : shown'[d] = shown[d]
  BY <1>1, <1>3 DEF PlanTypeOK
<1>7. Workplaces' = Workplaces
  BY <1>2 DEF Workplaces
<1>8. PlanTypeOK'
  <2>1. \A w \in DOMAIN planFile' : planFile'[w] \in SavedPlans \cup {NoPlan}
    BY <1>1, <1>3, <1>5, FileFacts DEF PlanTypeOK
  <2> QED
    BY <1>1, <1>2, <1>4, <1>6, <2>1 DEF PlanTypeOK, SavedPlans
<1>9. FilesInPlace'
  BY <1>1, <1>2, <1>3, <1>5, <1>7 DEF FilesInPlace
<1>10. ASSUME NEW d \in Planner PROVE FileIsShown(d)' /\ AppliesLast(d)'
  <2>1. FileIsShown(d) /\ AppliesLast(d) /\ where[d] \in Workplaces
    BY FileFacts DEF PlanInv
  <2>2. CASE d = r
    BY <1>2, <1>5, <1>6, <2>1, <2>2 DEF FileIsShown, AppliesLast
  <2>3. CASE d # r
    <3>1. CASE where[d] = where[r]
      BY <1>2, <1>3, <1>4, <1>5, <1>6, <2>1, <2>3, <3>1 DEF FileIsShown, AppliesLast
    <3>2. CASE where[d] # where[r]
      BY <1>2, <1>4, <1>5, <1>6, <2>1, <2>3, <3>2 DEF FileIsShown, AppliesLast
    <3> QED BY <3>1, <3>2
  <2> QED BY <2>2, <2>3
<1> QED
  BY <1>8, <1>9, <1>10 DEF PlanInv

LEMMA ApplyPlanInv ==
  ASSUME PlanInv, NEW r \in Planner, ApplyPlan(r)
  PROVE  PlanInv'
<1>1. PlanTypeOK /\ FilesInPlace /\ FileIsShown(r) /\ AppliesLast(r)
  BY DEF PlanInv
<1>2. UNCHANGED <<where, echo, planFile, shown>> /\ tpc[r] = "apply"
  BY DEF ApplyPlan, TerraformAt
<1>3. /\ tpc' \in [Planner -> {"init", "plan", "approve", "select", "apply", "done", "failed"}]
      /\ tpc'[r] \in {"done", "failed"}
      /\ \A d \in Planner \ {r} : tpc'[d] = tpc[d]
  BY <1>1, ProceedFacts DEF ApplyPlan
<1>4. /\ serial' \in 0..LastSerial
      /\ applied' = applied \/ applied' = [applied EXCEPT ![r] = planFile[where[r]]]
  BY <1>1, PlanAssumption DEF ApplyPlan, PlanTypeOK, PlanToApply
<1>5. /\ applied' \in [Planner -> SavedPlans \cup {NoPlan}]
      /\ applied'[r] \in {applied[r], planFile[where[r]]}
      /\ \A d \in Planner \ {r} : applied'[d] = applied[d]
  BY <1>1, <1>4, FileFacts DEF PlanTypeOK
<1>6. PlanTypeOK'
  BY <1>1, <1>2, <1>3, <1>4, <1>5 DEF PlanTypeOK, SavedPlans
<1>7. FileIsShown(r)'
  BY <1>3 DEF FileIsShown
<1>8. AppliesLast(r)'
  <2>1. applied[r] = NoPlan
    BY <1>1, <1>2 DEF AppliesLast
  <2>2. CASE applied'[r] = NoPlan
    BY <2>2 DEF AppliesLast
  <2>3. CASE applied'[r] # NoPlan
    <3>1. applied'[r] = planFile[where[r]]
      BY <1>5, <2>1, <2>3
    <3>2. where[planFile[where[r]].by] = where[r]
      BY <1>1, <2>3, <3>1, FileFacts DEF FilesInPlace
    <3>3. planFile[where[r]] = shown[r] \/ planFile[where[r]].by # r
      BY <1>1, <1>2 DEF FileIsShown
    <3> QED
      BY <1>2, <1>3, <3>1, <3>2, <3>3 DEF AppliesLast
  <2> QED
    BY <2>2, <2>3
<1>9. \A d \in Planner \ {r} : FileIsShown(d)' /\ AppliesLast(d)'
  BY <1>2, <1>3, <1>5, RunStays DEF PlanInv
<1> QED
  BY <1>1, <1>2, <1>6, <1>7, <1>8, <1>9, FilesStay DEF PlanInv

LEMMA StepInv == PlanInv /\ [PlanNext]_planVars => PlanInv'
<1> SUFFICES ASSUME PlanInv, [PlanNext]_planVars PROVE PlanInv'
  OBVIOUS
<1>t. PlanTypeOK /\ FilesInPlace /\ \A d \in Planner : FileIsShown(d) /\ AppliesLast(d)
  BY DEF PlanInv
(* A run goes on without touching a plan. *)
<1>p. ASSUME NEW r \in Planner,
             NEW step \in {"init", "plan", "approve", "select", "apply", "done", "failed"},
             Proceed(r, step), UNCHANGED <<where, echo, serial, planFile, shown, applied>>,
             tpc[r] \notin {"done", "failed"},
             step \in {"select", "apply"} => tpc[r] \in {"approve", "select"},
             step # "approve"
      PROVE  PlanInv'
  <2>1. /\ tpc' \in [Planner -> {"init", "plan", "approve", "select", "apply", "done", "failed"}]
        /\ tpc'[r] = step
        /\ \A d \in Planner \ {r} : tpc'[d] = tpc[d]
    BY <1>t, <1>p, ProceedFacts
  <2>2. PlanTypeOK'
    BY <1>t, <1>p, <2>1 DEF PlanTypeOK, SavedPlans
  <2>3. FileIsShown(r)' /\ AppliesLast(r)'
    BY <1>t, <1>p, <2>1 DEF FileIsShown, AppliesLast
  <2>4. \A d \in Planner \ {r} : FileIsShown(d)' /\ AppliesLast(d)'
    BY <1>t, <1>p, <2>1, RunStays
  <2> QED
    BY <1>t, <1>p, <2>2, <2>3, <2>4, FilesStay DEF PlanInv
<1>1. ASSUME NEW r \in Planner, Prepare(r) PROVE PlanInv'
  <2>1. UNCHANGED <<where, echo, serial, planFile, shown, applied>>
    BY <1>1 DEF Prepare
  <2>2. CASE tpc[r] = "init" /\ Proceed(r, "plan")
    BY <1>p, <2>1, <2>2
  <2>3. CASE tpc[r] = "select" /\ Proceed(r, "apply")
    BY <1>p, <2>1, <2>3
  <2>4. CASE tpc[r] \in {"init", "select"} /\ Proceed(r, "failed")
    BY <1>p, <2>1, <2>4
  <2> QED
    BY <1>1, <2>2, <2>3, <2>4 DEF Prepare, TerraformAt
<1>2. ASSUME NEW r \in Planner, WritePlan(r) PROVE PlanInv'
  <2>1. CASE Proceed(r, "failed") /\ UNCHANGED <<planFile, shown>>
    BY <1>2, <1>p, <2>1 DEF WritePlan, TerraformAt
  <2>2. CASE /\ planFile' = [planFile EXCEPT ![where[r]] = [by |-> r, on |-> serial]]
             /\ shown' = [shown EXCEPT ![r] = [by |-> r, on |-> serial]]
             /\ Proceed(r, "approve")
    BY <1>t, <1>2, <2>2, ProceedFacts, WritePlanInv
  <2> QED
    BY <1>2, <2>1, <2>2 DEF WritePlan
<1>3. ASSUME NEW r \in Planner, Approval(r) PROVE PlanInv'
  <2>1. tpc[r] = "approve" /\ UNCHANGED <<where, echo, serial, planFile, shown, applied>>
    BY <1>3 DEF Approval, TerraformAt
  <2>2. PICK step \in {"done", "select", "failed"} : Proceed(r, step)
    BY <1>3 DEF Approval
  <2> QED
    BY <1>p, <2>1, <2>2
<1>4. ASSUME NEW r \in Planner, ApplyPlan(r) PROVE PlanInv'
  BY <1>4, ApplyPlanInv
<1>5. CASE Drift \/ UNCHANGED planVars
  <2>1. serial' \in 0..LastSerial /\ UNCHANGED <<where, echo, planFile, tpc, shown, applied>>
    BY <1>t, <1>5, PlanAssumption DEF Drift, planVars, PlanTypeOK
  <2>2. PlanTypeOK'
    BY <1>t, <2>1 DEF PlanTypeOK, SavedPlans
  <2> QED
    BY <1>t, <2>1, <2>2, RunStays, FilesStay DEF PlanInv
<1> QED
  BY <1>1, <1>2, <1>3, <1>4, <1>5 DEF PlanNext

-------------------------------------------------------------------------------
(* However many runs plan, drift and apply around it, a run with a         *)
(* directory of its own applies the plan its approver was shown. What      *)
(* another run applies in a shared directory is the plan of one of its     *)
(* sharers (AppliesLast), which is why the directory has to be its own.    *)
THEOREM ApprovedInOwnDirectory ==
  ASSUME NEW CONSTANT places
  PROVE  PlanSpec(places) => [](PlanTypeOK /\ AppliedWasApproved)
<1>1. PlanInit(places) => PlanInv
  BY InitInv
<1>2. PlanInv => PlanTypeOK /\ AppliedWasApproved
  <2>1. ASSUME PlanInv, NEW r \in Planner, OwnDirectory(r), applied[r] # NoPlan
        PROVE  applied[r] = shown[r]
    <3>1. applied[r].by \in Planner
      BY <2>1 DEF PlanInv, PlanTypeOK, SavedPlans
    <3>2. AppliesLast(r)
      BY <2>1 DEF PlanInv
    <3> QED
      BY <2>1, <3>1, <3>2 DEF AppliesLast, OwnDirectory
  <2> QED
    BY <2>1 DEF PlanInv, AppliedWasApproved
<1> QED
  BY <1>1, <1>2, StepInv, PTL DEF PlanSpec

-------------------------------------------------------------------------------
(* The kubectl path. A run that decides after its probe has a verdict that *)
(* is the application's own, or knows that it has none.                    *)
ActionSteps == {"apply", "setImage", "status", "restart", "verify"}

VerdictInv ==
  /\ kpc \in [Deployer -> ActionSteps \cup {"decide", "undo", "undoStatus", "rolledBack", "done", "failed"}]
  /\ stage \in [Deployer -> {"action", "verify"}]
  /\ verdict \in [Deployer -> {"none", "healthy", "unhealthy", "indeterminate"}]
  /\ \A r \in Deployer :
       /\ kpc[r] \in ActionSteps => stage[r] = "action"
       /\ kpc[r] = "decide" /\ stage[r] = "verify" => ill \/ Indeterminate(verdict[r])
  /\ HealthyStays

(* An application that is well answers as expected or not at all. *)
LEMMA WellAnswers ==
  ASSUME NEW r \in Deployer, NEW a \in Answers(r)
  PROVE  /\ Once(kcfg[r].expect, a) \in {"healthy", "unhealthy", "indeterminate"}
         /\ Once(kcfg[r].expect, a) = "unhealthy" => ill
<1>1. CASE a = NoAnswer
  BY <1>1 DEF Once
<1>2. CASE a = [status |-> 403, body |-> "undecodable"]
  BY <1>2 DEF Once
<1>3. CASE ill
  BY <1>3 DEF Once
<1>4. CASE a.body = "matches" /\ AsExpected(kcfg[r].expect, a.status)
  BY <1>4 DEF Once
<1> QED
  BY <1>1, <1>2, <1>3, <1>4 DEF Answers

LEMMA VerdictInvStep ==
  ASSUME VerdictInv, [KubeNext]_kubeVars
  PROVE  VerdictInv'
<1> USE DEF VerdictInv, ActionSteps, HealthyStays, RollingBack, Now, Then, Indeterminate
<1>1. CASE UNCHANGED kubeVars
  BY <1>1 DEF kubeVars
<1>2. ASSUME NEW r \in Deployer, Apply(r) \/ SetImage(r) \/ AwaitRollout(r) \/ Restart(r)
      PROVE  VerdictInv'
  <2>1. UNCHANGED <<stage, verdict, ill>> /\ kpc[r] \in ActionSteps
    BY <1>2 DEF Apply, SetImage, AwaitRollout, Restart
  <2>2. kpc' = kpc \/ \E step \in {"setImage", "status", "verify", "decide"} : Then(r, step)
    BY <1>2 DEF Apply, SetImage, AwaitRollout, Restart, Kubectl, RolloutStatus
  <2> QED
    BY <2>1, <2>2
<1>3. ASSUME NEW r \in Deployer, Probe(r)
      PROVE  VerdictInv'
  <2>1. UNCHANGED ill /\ kpc[r] = "verify" /\ stage[r] = "action"
    BY <1>3 DEF Probe
  <2>2. PICK v \in {"healthy", "unhealthy", "indeterminate"} :
          /\ verdict' = [verdict EXCEPT ![r] = v] /\ (v = "unhealthy" => ill)
          /\ \/ Then(r, "done") /\ UNCHANGED stage
             \/ UNCHANGED <<kpc, stage>>
             \/ v # "healthy" /\ Then(r, "decide") /\ stage' = [stage EXCEPT ![r] = "verify"]
    BY <1>3, WellAnswers DEF Probe
  <2> QED
    BY <2>1, <2>2
<1>4. ASSUME NEW r \in Deployer, OnFailure(r)
      PROVE  VerdictInv'
  BY <1>4 DEF OnFailure
<1>5. ASSUME NEW r \in Deployer, Undo(r) \/ AwaitUndo(r)
      PROVE  VerdictInv'
  <2>1. UNCHANGED <<stage, verdict, ill>> /\ kpc[r] \in {"undo", "undoStatus"}
    BY <1>5 DEF Undo, AwaitUndo
  <2>2. \E step \in {"undo", "undoStatus", "rolledBack", "failed"} : Then(r, step)
    BY <1>5 DEF Undo, AwaitUndo, UndoFails, Kubectl, RolloutStatus
  <2> QED
    BY <2>1, <2>2
<1> QED
  BY <1>1, <1>2, <1>3, <1>4, <1>5 DEF KubeNext, KubeStep

(* However many pipelines overlap in however many clusters, whatever they   *)
(* expect of an application that is well, none rolls it back over a failed  *)
(* verification.                                                            *)
THEOREM WellIsLeftAlone ==
  ASSUME NEW settings, NEW past
  PROVE  KubeSpec(settings, past) => []HealthyStays
<1>1. KubeInit(settings, past) => VerdictInv
  BY DEF KubeInit, VerdictInv, ActionSteps, HealthyStays, RollingBack
<1>2. VerdictInv /\ [KubeNext]_kubeVars => VerdictInv'
  BY VerdictInvStep
<1>3. VerdictInv => HealthyStays
  BY DEF VerdictInv
<1> QED
  BY <1>1, <1>2, <1>3, PTL DEF KubeSpec

-------------------------------------------------------------------------------
(* What a rollback brings back. The ReplicaSet that a deployment has        *)
(* changed away from once is the one before the newest, and differs from   *)
(* it. No deployment was restarted by a run before the runs began.         *)
KubeSettings(settings, past) ==
  /\ \A k \in settings : \A r \in Deployer :
       k[r].image \in STRING /\ k[r].context \in Cluster \cup {NoContext}
  /\ past \in Seq(Template) /\ Len(past) > 0
  /\ Last(past).restart \notin Deployer

KubeTypes ==
  /\ \A r \in Deployer : kcfg[r].image \in STRING /\ kcfg[r].context \in Cluster \cup {NoContext}
  /\ history \in [Cluster -> [Deployment -> Seq(Template) \ {<<>>}]]
  /\ todo \in [Deployer -> Seq(Deployment)]
  /\ kpc \in [Deployer -> {"apply", "setImage", "status", "restart", "verify", "decide", "undo",
                           "undoStatus", "rolledBack", "done", "failed"}]
  /\ \A r \in Deployer : Len(todo[r]) <= Len(Workloads) /\ (kpc[r] # "restart" => todo[r] # <<>>)
  /\ before \in [Deployer -> [Cluster -> [Deployment -> Template]]]
  /\ moves \in [Deployer -> [Cluster -> [Deployment -> Nat]]]

Moved(r, c, d) ==
  LET h == history[c][d] IN
  /\ moves[r][c][d] = 0 => Running(c, d) = before[r][c][d]
  /\ moves[r][c][d] > 0 => Len(h) > 1 /\ h[Len(h) - 1] # h[Len(h)]
  /\ moves[r][c][d] = 1 => h[Len(h) - 1] = before[r][c][d]

UndoInv ==
  KubeTypes /\ \A r \in Deployer, c \in Cluster, d \in Deployment : Moved(r, c, d)

(* Restarted and undone: back where it was, unless it changed more often. *)
UndoneBack(r, c, d) ==
  moves[r][c][d] >= 2 /\ (moves[r][c][d] = 2 => Running(c, d) = before[r][c][d])

(* The deployments that the loop of a run has done with. *)
Reached(r) == Len(Workloads) - Len(todo[r])
Undone(r) == IF kpc[r] = "undo" THEN Reached(r) ELSE Reached(r) + 1

(* A run that has restarted the first n of its deployments. *)
Restarted(r, n) ==
  LET c == ResolveContext(r, NoContext) IN
  c \in Cluster /\ \A i \in 1..n : moves[r][c][Workloads[i]] >= 1

(* A local run whose restarts have all been made. *)
PastRestart(r) ==
  \/ kpc[r] = "verify"
  \/ stage[r] = "verify" /\ kpc[r] \in {"decide", "undo", "undoStatus", "rolledBack"}

LocalInv(r) ==
  /\ kpc[r] \notin {"apply", "setImage", "status"}
  /\ kpc[r] = "restart" /\ Reached(r) > 0 => Restarted(r, Reached(r))
  /\ PastRestart(r) => Restarted(r, Len(Workloads))
  /\ kpc[r] \in {"verify", "decide"} => todo[r] = Workloads
  /\ kpc[r] = "rolledBack" => Len(todo[r]) = 1
  /\ LET c == ResolveContext(r, NoContext) IN
     /\ stage[r] = "verify" /\ kpc[r] \in {"undo", "undoStatus", "rolledBack"}
     /\ ResolveContext(r, kcfg[r].context) = c
     => \A i \in 1..Undone(r) : UndoneBack(r, c, Workloads[i])

(* What a run has seen done stays done when a deployment changes again. *)
Grows ==
  \A r \in Deployer, c \in Cluster, d \in Deployment :
    /\ moves'[r][c][d] >= moves[r][c][d]
    /\ UndoneBack(r, c, d) => UndoneBack(r, c, d)'

ProgressInv ==
  /\ \A r \in Deployer, c \in Cluster, d \in Deployment : before[r][c][d].restart \notin Deployer
  /\ \A r \in Deployer : \A j \in 1..Len(todo[r]) : todo[r][j] = Workloads[Reached(r) + j]
  /\ \A r \in Deployer : kcfg[r].kind = "local" /\ ~kcfg[r].dry => LocalInv(r)

LEMMA MinFacts ==
  ASSUME NEW S, S \subseteq Nat, S # {}
  PROVE  Min(S) \in S
<1>1. PICK m \in S : \A x \in S : ~(<<x, m>> \in OpToRel(<, Nat))
  BY NatLessThanWellFounded, WFMin
<1>2. \A x \in S : ~(x < m)
  BY <1>1 DEF OpToRel
<1>3. \A x \in S : m <= x
  BY <1>2
<1> QED
  BY <1>3 DEF Min

(* The newest ReplicaSet stays when another one is taken from its place. *)
LEMMA RemoveFacts ==
  ASSUME NEW S, NEW h \in Seq(S), NEW e, Len(h) > 0, h[Len(h)] # e
  PROVE  LET g == RemoveFirst(h, e)
         IN  g \in Seq(S) /\ Len(g) > 0 /\ g[Len(g)] = h[Len(h)]
<1>1. CASE \E i \in 1..Len(h) : h[i] = e
  <2> DEFINE I == {i \in 1..Len(h) : h[i] = e}
  <2> DEFINE j == SelectInSeq(h, LAMBDA v : v = e)
  <2>1. I \subseteq Nat /\ I # {}
    BY <1>1
  <2>2. j = Min(I)
    BY <2>1 DEF SelectInSeq
  <2>3. Min(I) \in I
    <3> HIDE DEF I
    <3> QED
      BY <2>1, MinFacts
  <2>4. RemoveFirst(h, e) = SubSeq(h, 1, j - 1) \o SubSeq(h, j + 1, Len(h))
    BY <1>1 DEF RemoveFirst, RemoveAt
  <2>5. j \in 1..(Len(h) - 1)
    BY <2>2, <2>3
  <2> HIDE DEF j
  <2> QED
    BY <2>4, <2>5
<1>2. CASE \A i \in 1..Len(h) : h[i] # e
  BY <1>2 DEF RemoveFirst
<1> QED
  BY <1>1, <1>2

LEMMA WorkloadFacts ==
  /\ Workloads \in Seq(Deployment) /\ Workloads # <<>> /\ Len(Workloads) \in Nat \ {0}
  /\ App \in Deployment
BY KubeAssumption DEF Deployment, ToSet, App

LEMMA ContextFacts ==
  ASSUME NEW r \in Deployer, kcfg[r].context \in Cluster \cup {NoContext}
  PROVE  /\ ResolveContext(r, kcfg[r].context) \in Cluster \cup {"refused"}
         /\ ResolveContext(r, NoContext) \in Cluster \cup {"refused"}
BY DEF ResolveContext, Cluster

(* One change of one deployment: the old template is next to the newest. *)
LEMMA ReviseStep ==
  ASSUME UndoInv, NEW c \in Cluster, NEW d \in Deployment, NEW template \in Template,
         Revise(c, d, template), UNCHANGED before
  PROVE  /\ history' \in [Cluster -> [Deployment -> Seq(Template) \ {<<>>}]]
         /\ moves' \in [Deployer -> [Cluster -> [Deployment -> Nat]]]
         /\ Running(c, d)' = template
         /\ \A q \in Deployer, cc \in Cluster, dd \in Deployment : Moved(q, cc, dd)'
         /\ Grows
<1>0. KubeTypes /\ history[c][d] \in Seq(Template) /\ Len(history[c][d]) > 0
  <2>1. history[c][d] \in Seq(Template) \ {<<>>}
    BY DEF UndoInv, KubeTypes
  <2>2. Len(history[c][d]) > 0
    BY <2>1
  <2> QED
    BY <2>1, <2>2 DEF UndoInv
<1>1. CASE template = Running(c, d)
  <2>1. UNCHANGED <<history, moves>>
    BY <1>1 DEF Revise
  <2> QED
    BY <1>0, <1>1, <2>1 DEF KubeTypes, Running, UndoInv, Moved, Grows, UndoneBack
<1>2. CASE template # Running(c, d)
  <2> DEFINE h == history[c][d]
  <2> DEFINE g == RemoveFirst(h, template)
  <2>1. /\ history' = [history EXCEPT ![c][d] = Append(RemoveFirst(@, template), template)]
        /\ moves' = [p \in Deployer |-> [moves[p] EXCEPT ![c][d] = @ + 1]]
    BY <1>2 DEF Revise
  <2>2. g \in Seq(Template) /\ Len(g) > 0 /\ g[Len(g)] = h[Len(h)]
    BY <1>0, <1>2, RemoveFacts DEF Running, Last
  <2> HIDE DEF g
  <2>3. Append(g, template) \in Seq(Template) \ {<<>>}
        /\ Len(Append(g, template)) > 1
        /\ Append(g, template)[Len(Append(g, template))] = template
        /\ Append(g, template)[Len(Append(g, template)) - 1] = h[Len(h)]
        /\ h[Len(h)] # template
    BY <1>2, <2>2 DEF Running, Last
  <2>4. history' = [history EXCEPT ![c] = [history[c] EXCEPT ![d] = Append(g, template)]]
    BY <2>1 DEF g
  <2>5. history' \in [Cluster -> [Deployment -> Seq(Template) \ {<<>>}]]
        /\ history'[c][d] = Append(g, template)
        /\ \A cc \in Cluster, dd \in Deployment :
             <<cc, dd>> # <<c, d>> => history'[cc][dd] = history[cc][dd]
    BY <1>0, <2>3, <2>4 DEF KubeTypes
  <2>6. ASSUME NEW q \in Deployer
        PROVE  /\ moves'[q] \in [Cluster -> [Deployment -> Nat]]
               /\ moves'[q][c][d] = moves[q][c][d] + 1
               /\ \A cc \in Cluster, dd \in Deployment :
                    <<cc, dd>> # <<c, d>> => moves'[q][cc][dd] = moves[q][cc][dd]
    <3>1. moves[q] \in [Cluster -> [Deployment -> Nat]]
      BY <1>0 DEF KubeTypes
    <3>2. moves'[q] = [moves[q] EXCEPT ![c] = [moves[q][c] EXCEPT ![d] = @ + 1]]
      BY <2>1
    <3> QED
      BY <3>1, <3>2
  <2>7. moves' \in [Deployer -> [Cluster -> [Deployment -> Nat]]]
    BY <2>1, <2>6
  <2>8. Running(c, d)' = template
    BY <2>3, <2>5 DEF Running, Last
  <2>9. ASSUME NEW q \in Deployer
        PROVE  Moved(q, c, d)' /\ moves'[q][c][d] >= moves[q][c][d]
               /\ (UndoneBack(q, c, d) => UndoneBack(q, c, d)')
    <3>0. moves[q] \in [Cluster -> [Deployment -> Nat]]
      BY <1>0 DEF KubeTypes
    <3>1. moves[q][c][d] \in Nat /\ moves'[q][c][d] = moves[q][c][d] + 1 /\ before' = before
      BY <2>6, <3>0
    <3>2. moves[q][c][d] = 0 => h[Len(h)] = before[q][c][d]
      BY DEF UndoInv, Moved, Running, Last
    <3>3. moves'[q][c][d] # 0 /\ (moves'[q][c][d] = 1 => moves[q][c][d] = 0)
      BY <3>1
    <3>4. UndoneBack(q, c, d) => UndoneBack(q, c, d)'
      BY <3>1 DEF UndoneBack
    <3> HIDE DEF h
    <3> QED
      BY <2>3, <2>5, <3>1, <3>2, <3>3, <3>4 DEF Moved
  <2>10. ASSUME NEW q \in Deployer, NEW cc \in Cluster, NEW dd \in Deployment, <<cc, dd>> # <<c, d>>
         PROVE  Moved(q, cc, dd)' /\ moves'[q][cc][dd] >= moves[q][cc][dd]
                /\ (UndoneBack(q, cc, dd) => UndoneBack(q, cc, dd)')
    <3>1. history'[cc][dd] = history[cc][dd] /\ moves'[q][cc][dd] = moves[q][cc][dd]
      BY <2>5, <2>6, <2>10
    <3>2. Moved(q, cc, dd)
      BY DEF UndoInv
    <3>3. moves[q][cc][dd] \in Nat
      BY <1>0 DEF KubeTypes
    <3> QED
      BY <3>1, <3>2, <3>3 DEF Moved, UndoneBack, Running
  <2>11. Grows
    BY <2>9, <2>10 DEF Grows
  <2> QED
    BY <2>5, <2>7, <2>8, <2>9, <2>10, <2>11
<1> QED
  BY <1>1, <1>2

(* A step changes one deployment or none. *)
LEMMA ChangeKeeps ==
  ASSUME UndoInv, UNCHANGED before,
         \/ UNCHANGED <<history, moves>>
         \/ \E c \in Cluster, d \in Deployment, t \in Template : Revise(c, d, t)
  PROVE  /\ history' \in [Cluster -> [Deployment -> Seq(Template) \ {<<>>}]]
         /\ moves' \in [Deployer -> [Cluster -> [Deployment -> Nat]]]
         /\ \A q \in Deployer, c \in Cluster, d \in Deployment : Moved(q, c, d)'
         /\ Grows
<1>1. CASE UNCHANGED <<history, moves>>
  BY <1>1 DEF UndoInv, KubeTypes, Moved, Running, Grows, UndoneBack
<1>2. CASE \E c \in Cluster, d \in Deployment, t \in Template : Revise(c, d, t)
  BY <1>2, ReviseStep
<1> QED
  BY <1>1, <1>2

LEMMA RunningType ==
  ASSUME KubeTypes, NEW c \in Cluster, NEW d \in Deployment
  PROVE  Running(c, d) \in Template /\ PreviousReplicaSet(c, d) \in Template
<1>1. history[c][d] \in Seq(Template) \ {<<>>}
  BY DEF KubeTypes
<1>2. Len(history[c][d]) \in Nat \ {0}
  BY <1>1
<1> QED
  BY <1>1, <1>2 DEF Running, PreviousReplicaSet, Last

LEMMA UndoingType ==
  ASSUME KubeTypes, NEW r \in Deployer, todo[r] # <<>>
  PROVE  Head(todo[r]) \in Deployment /\ Tail(todo[r]) \in Seq(Deployment)
         /\ Len(Tail(todo[r])) = Len(todo[r]) - 1 /\ Len(todo[r]) \in Nat \ {0}
<1>1. todo[r] \in Seq(Deployment)
  BY DEF KubeTypes
<1> QED
  BY <1>1

(* The deployments that a loop has not reached. *)
LEMMA TodoStep ==
  ASSUME KubeTypes, NEW r \in Deployer, NEW rest \in Seq(Deployment), Len(rest) <= Len(Workloads),
         todo' = [todo EXCEPT ![r] = rest],
         \A q \in Deployer \ {r} : kpc'[q] = kpc[q],
         kpc'[r] # "restart" => rest # <<>>
  PROVE  /\ todo' \in [Deployer -> Seq(Deployment)]
         /\ \A q \in Deployer :
              Len(todo'[q]) <= Len(Workloads) /\ (kpc'[q] # "restart" => todo'[q] # <<>>)
<1>1. todo \in [Deployer -> Seq(Deployment)]
      /\ \A q \in Deployer : Len(todo[q]) <= Len(Workloads) /\ (kpc[q] # "restart" => todo[q] # <<>>)
  BY DEF KubeTypes
<1>2. todo' \in [Deployer -> Seq(Deployment)] /\ todo'[r] = rest
      /\ \A q \in Deployer \ {r} : todo'[q] = todo[q]
  BY <1>1
<1> QED
  BY <1>1, <1>2

(* A kubectl call changes at most the deployment it names, in the cluster  *)
(* that its context stands for.                                            *)
LEMMA OneChange ==
  ASSUME KubeTypes, NEW r \in Deployer, KubeStep(r)
  PROVE  /\ UNCHANGED <<kcfg, before>>
         /\ \/ UNCHANGED <<history, moves>>
            \/ \E c \in Cluster, d \in Deployment, t \in Template : Revise(c, d, t)
<1>1. ASSUME Apply(r) \/ SetImage(r)
      PROVE  \/ UNCHANGED <<history, moves>>
             \/ \E c \in Cluster, d \in Deployment, t \in Template : Revise(c, d, t)
  <2>1. PICK image \in STRING : LET c == ResolveContext(r, kcfg[r].context)
                                    t == [cc \in Cluster |-> [Running(cc, App) EXCEPT !.image = image]]
                                IN  UNCHANGED <<history, moves>> \/ (c # "refused" /\ Revise(c, App, t[c]))
    <3>1. Latest \in STRING /\ kcfg[r].image \in STRING
      BY KubeAssumption DEF KubeTypes
    <3> QED
      BY <1>1, <3>1 DEF Apply, SetImage, Kubectl
  <2>2. \A cc \in Cluster : [Running(cc, App) EXCEPT !.image = image] \in Template
    BY RunningType, WorkloadFacts DEF Template
  <2>3. ResolveContext(r, kcfg[r].context) \in Cluster \cup {"refused"}
    BY ContextFacts DEF KubeTypes
  <2> QED
    BY <2>1, <2>2, <2>3, WorkloadFacts
<1>2. ASSUME Restart(r), todo[r] # <<>>
      PROVE  \/ UNCHANGED <<history, moves>>
             \/ \E c \in Cluster, d \in Deployment, t \in Template : Revise(c, d, t)
  <2> DEFINE c == ResolveContext(r, NoContext)
  <2> DEFINE d == Head(todo[r])
  <2>1. \/ UNCHANGED <<history, moves>>
        \/ c # "refused" /\ Revise(c, d, [cc \in Cluster |-> [Running(cc, d) EXCEPT !.restart = r]][c])
    BY <1>2 DEF Restart, Kubectl
  <2>2. d \in Deployment
    BY <1>2, UndoingType
  <2>3. \A cc \in Cluster : [Running(cc, d) EXCEPT !.restart = r] \in Template
    BY <2>2, RunningType DEF Template
  <2>4. c \in Cluster \cup {"refused"}
    BY ContextFacts DEF KubeTypes
  <2> QED
    BY <2>1, <2>2, <2>3, <2>4
<1>3. ASSUME Undo(r)
      PROVE  \/ UNCHANGED <<history, moves>>
             \/ \E c \in Cluster, d \in Deployment, t \in Template : Revise(c, d, t)
  <2> DEFINE c == ResolveContext(r, kcfg[r].context)
  <2> DEFINE d == Undoing(r)
  <2>1. \/ UNCHANGED <<history, moves>>
        \/ c # "refused" /\ Revise(c, d, [cc \in Cluster |-> PreviousReplicaSet(cc, d)][c])
    BY <1>3 DEF Undo, Kubectl
  <2>2. d \in Deployment
    BY <1>3, UndoingType DEF Undo, Now, Undoing, KubeTypes
  <2>3. \A cc \in Cluster : PreviousReplicaSet(cc, d) \in Template
    BY <2>2, RunningType
  <2>4. c \in Cluster \cup {"refused"}
    BY ContextFacts DEF KubeTypes
  <2> QED
    BY <2>1, <2>2, <2>3, <2>4
<1>4. ASSUME AwaitRollout(r) \/ Probe(r) \/ OnFailure(r) \/ AwaitUndo(r) \/ (Restart(r) /\ todo[r] = <<>>)
      PROVE  UNCHANGED <<history, moves>>
  BY <1>4 DEF AwaitRollout, Probe, OnFailure, AwaitUndo, Restart, RolloutStatus
<1>5. UNCHANGED <<kcfg, before>>
  BY DEF KubeStep, Apply, SetImage, AwaitRollout, Restart, Probe, OnFailure, Undo, AwaitUndo
<1> QED
  BY <1>1, <1>2, <1>3, <1>4, <1>5 DEF KubeStep

LEMMA Counting ==
  ASSUME NEW w \in Nat, NEW t \in Nat \ {0}, t <= w, NEW u \in {1, w}
  PROVE  /\ t - 1 <= w /\ w - (t - 1) = (w - t) + 1
         /\ w - (t - 1) < u => t - 1 # 0
         /\ u = w /\ ~(w - (t - 1) < u) => t = 1
OBVIOUS

(* The loop of a rollback goes on to the next deployment while there is    *)
(* one, and ends after the last of those it undoes.                        *)
UndoLoop(r) ==
  \/ /\ todo' = [todo EXCEPT ![r] = Tail(todo[r])] /\ kpc' = [kpc EXCEPT ![r] = "undo"]
     /\ Tail(todo[r]) # <<>> /\ Tail(todo[r]) \in Seq(Deployment)
     /\ Len(Tail(todo[r])) <= Len(Workloads) /\ Len(Tail(todo[r])) = Len(todo[r]) - 1
  \/ /\ todo' = todo /\ kpc' = [kpc EXCEPT ![r] = "rolledBack"]
     /\ kcfg[r].kind # "gke" => Len(todo[r]) = 1
  \/ todo' = todo /\ kpc' = [kpc EXCEPT ![r] = "failed"]

LEMMA LoopFacts ==
  ASSUME KubeTypes, NEW r \in Deployer, AwaitUndo(r)
  PROVE  UndoLoop(r)
<1> DEFINE rest == Tail(todo[r])
<1> DEFINE more == Len(Workloads) - Len(rest) < Len(Undoes(r))
<1>1. kpc[r] = "undoStatus" /\ todo[r] # <<>> /\ todo \in [Deployer -> Seq(Deployment)]
  BY DEF AwaitUndo, Now, KubeTypes
<1>2. rest \in Seq(Deployment) /\ Len(rest) = Len(todo[r]) - 1 /\ Len(todo[r]) \in Nat \ {0}
      /\ Len(todo[r]) <= Len(Workloads) /\ Len(Workloads) \in Nat \ {0}
  BY <1>1, UndoingType, WorkloadFacts DEF KubeTypes
<1>3. (kcfg[r].kind = "gke" /\ Len(Undoes(r)) = 1)
      \/ (kcfg[r].kind # "gke" /\ Len(Undoes(r)) = Len(Workloads))
  BY DEF Undoes
<1>4. \/ todo' = [todo EXCEPT ![r] = rest] /\ more /\ kpc' = [kpc EXCEPT ![r] = "undo"]
      \/ todo' = [todo EXCEPT ![r] = @] /\ ~more /\ kpc' = [kpc EXCEPT ![r] = "rolledBack"]
      \/ todo' = todo /\ kpc' = [kpc EXCEPT ![r] = "failed"]
  <2>1. CASE more
    BY <2>1 DEF AwaitUndo, RolloutStatus, UndoFails, Then
  <2>2. CASE ~more
    BY <2>2 DEF AwaitUndo, RolloutStatus, UndoFails, Then
  <2> QED
    BY <2>1, <2>2
<1>5. todo = [todo EXCEPT ![r] = @]
  BY <1>1
<1> HIDE DEF rest
<1>6. Len(rest) <= Len(Workloads) /\ (more => Len(rest) # 0)
      /\ (~more /\ kcfg[r].kind # "gke" => Len(todo[r]) = 1)
  BY <1>2, <1>3, Counting
<1>7. Len(rest) # 0 => rest # <<>>
  OBVIOUS
<1> HIDE DEF more
<1> QED
  BY <1>2, <1>4, <1>5, <1>6, <1>7 DEF UndoLoop, rest

LEMMA UndoInvStep ==
  ASSUME UndoInv, [KubeNext]_kubeVars
  PROVE  UndoInv' /\ Grows
<1> USE DEF Now, Then
<1>0. KubeTypes
  BY DEF UndoInv
<1>1. CASE UNCHANGED kubeVars
  BY <1>1 DEF kubeVars, UndoInv, KubeTypes, Moved, Running, Grows, UndoneBack
<1>2. ASSUME NEW r \in Deployer, KubeStep(r)
      PROVE  UndoInv' /\ Grows
  <2>1. /\ UNCHANGED <<kcfg, before>>
        /\ history' \in [Cluster -> [Deployment -> Seq(Template) \ {<<>>}]]
        /\ moves' \in [Deployer -> [Cluster -> [Deployment -> Nat]]]
        /\ \A q \in Deployer, cc \in Cluster, dd \in Deployment : Moved(q, cc, dd)'
        /\ Grows
    BY <1>0, <1>2, OneChange, ChangeKeeps
  <2>2. SUFFICES /\ kpc' \in [Deployer -> {"apply", "setImage", "status", "restart", "verify", "decide",
                                          "undo", "undoStatus", "rolledBack", "done", "failed"}]
                 /\ todo' \in [Deployer -> Seq(Deployment)]
                 /\ \A q \in Deployer :
                      Len(todo'[q]) <= Len(Workloads) /\ (kpc'[q] # "restart" => todo'[q] # <<>>)
    BY <1>0, <2>1 DEF UndoInv, KubeTypes
  <2>3. CASE Apply(r) \/ SetImage(r) \/ AwaitRollout(r) \/ Probe(r) \/ OnFailure(r) \/ Undo(r)
    <3>1. UNCHANGED todo /\ kpc[r] # "restart"
      BY <2>3 DEF Apply, SetImage, AwaitRollout, Probe, OnFailure, Undo
    <3>2. kpc' = kpc \/ kpc' \in {[kpc EXCEPT ![r] = step] :
            step \in {"setImage", "status", "decide", "verify", "done", "undo", "failed", "undoStatus"}}
      BY <2>3 DEF Apply, SetImage, AwaitRollout, Probe, OnFailure, Undo, UndoFails, Kubectl, RolloutStatus
    <3> QED
      BY <1>0, <3>1, <3>2 DEF KubeTypes
  <2>4. CASE Restart(r)
    <3>1. PICK rest \in Seq(Deployment) :
            /\ todo' = [todo EXCEPT ![r] = rest] /\ Len(rest) <= Len(Workloads)
            /\ \/ kpc' = kpc
               \/ \E step \in {"verify", "decide"} : kpc' = [kpc EXCEPT ![r] = step] /\ rest # <<>>
      <4>1. Workloads \in Seq(Deployment) /\ Workloads # <<>> /\ Len(Workloads) <= Len(Workloads)
        BY WorkloadFacts
      <4>2. CASE todo[r] = <<>>
        BY <2>4, <4>1, <4>2 DEF Restart
      <4>3. CASE todo[r] # <<>>
        <5>1. Tail(todo[r]) \in Seq(Deployment) /\ Len(Tail(todo[r])) = Len(todo[r]) - 1
              /\ Len(todo[r]) \in Nat /\ Len(todo[r]) <= Len(Workloads) /\ Len(Workloads) \in Nat
          BY <1>0, <4>3, UndoingType, WorkloadFacts DEF KubeTypes
        <5>2. Len(Tail(todo[r])) <= Len(Workloads)
          BY <5>1
        <5>3. \/ todo' = [todo EXCEPT ![r] = Tail(todo[r])] /\ kpc' = kpc
              \/ todo' = [todo EXCEPT ![r] = Workloads] /\ kpc' = [kpc EXCEPT ![r] = "decide"]
          BY <2>4, <4>3 DEF Restart, Kubectl
        <5> QED
          BY <4>1, <5>1, <5>2, <5>3
      <4> QED
        BY <4>2, <4>3
    <3>2. kpc[r] = "restart"
      BY <2>4 DEF Restart
    <3>3. (\A q \in Deployer \ {r} : kpc'[q] = kpc[q]) /\ (kpc'[r] # "restart" => rest # <<>>)
      BY <1>0, <3>1, <3>2 DEF KubeTypes
    <3>4. /\ todo' \in [Deployer -> Seq(Deployment)]
          /\ \A q \in Deployer :
               Len(todo'[q]) <= Len(Workloads) /\ (kpc'[q] # "restart" => todo'[q] # <<>>)
      BY <1>0, <3>1, <3>3, TodoStep
    <3> QED
      BY <1>0, <3>1, <3>4 DEF KubeTypes
  <2>5. CASE AwaitUndo(r)
    <3>1. kpc[r] = "undoStatus" /\ todo[r] # <<>>
      BY <1>0, <2>5 DEF AwaitUndo, KubeTypes
    <3>2. UndoLoop(r)
      BY <1>0, <2>5, LoopFacts
    <3>3. CASE todo' = todo
      BY <1>0, <3>1, <3>2, <3>3 DEF UndoLoop, KubeTypes
    <3>4. CASE todo' # todo
      <4>1. /\ todo' = [todo EXCEPT ![r] = Tail(todo[r])] /\ kpc' = [kpc EXCEPT ![r] = "undo"]
            /\ Tail(todo[r]) # <<>> /\ Tail(todo[r]) \in Seq(Deployment)
            /\ Len(Tail(todo[r])) <= Len(Workloads)
        BY <3>2, <3>4 DEF UndoLoop
      <4>2. \A q \in Deployer \ {r} : kpc'[q] = kpc[q]
        BY <1>0, <4>1 DEF KubeTypes
      <4>3. /\ todo' \in [Deployer -> Seq(Deployment)]
            /\ \A q \in Deployer :
                 Len(todo'[q]) <= Len(Workloads) /\ (kpc'[q] # "restart" => todo'[q] # <<>>)
        BY <1>0, <4>1, <4>2, TodoStep
      <4> QED
        BY <1>0, <4>1, <4>3 DEF KubeTypes
    <3> QED
      BY <3>3, <3>4
  <2> QED
    BY <1>2, <2>3, <2>4, <2>5 DEF KubeStep
<1> QED
  BY <1>1, <1>2 DEF KubeNext

LEMMA UndoInvInitially ==
  ASSUME NEW settings, NEW past, KubeSettings(settings, past), KubeInit(settings, past)
  PROVE  UndoInv
<1>1. past \in Seq(Template) \ {<<>>} /\ Last(past) \in Template
  BY DEF KubeSettings, Last
<1>2. KubeTypes
  BY <1>1, WorkloadFacts DEF KubeInit, KubeSettings, KubeTypes
<1>3. \A r \in Deployer, c \in Cluster, d \in Deployment : Moved(r, c, d)
  BY DEF KubeInit, Moved, Running
<1> QED
  BY <1>2, <1>3 DEF UndoInv

(* How far a run has come is known from the deployments it has left. *)
LEMMA TodoFacts ==
  ASSUME KubeTypes, NEW r \in Deployer
  PROVE  /\ Len(todo[r]) \in Nat /\ Len(Workloads) \in Nat \ {0} /\ Len(todo[r]) <= Len(Workloads)
         /\ Reached(r) \in Nat /\ Reached(r) <= Len(Workloads)
         /\ kpc[r] # "restart" => Len(todo[r]) > 0
         /\ Undone(r) \in Nat /\ (kpc[r] # "restart" => Undone(r) <= Len(Workloads))
<1>1. todo[r] \in Seq(Deployment) /\ Len(todo[r]) <= Len(Workloads) /\ (kpc[r] # "restart" => todo[r] # <<>>)
      /\ Len(Workloads) \in Nat \ {0}
  BY WorkloadFacts DEF KubeTypes
<1>2. Len(todo[r]) \in Nat /\ (todo[r] # <<>> => Len(todo[r]) > 0)
  BY <1>1
<1> QED
  BY <1>1, <1>2 DEF Reached, Undone

LEMMA RestartedGrows ==
  ASSUME KubeTypes, Grows, KubeTypes', UNCHANGED kcfg, NEW q \in Deployer, NEW n \in 0..Len(Workloads),
         Restarted(q, n)
  PROVE  Restarted(q, n)'
<1> DEFINE c == ResolveContext(q, NoContext)
<1>1. c' = c /\ c \in Cluster
  BY DEF Restarted, ResolveContext
<1>2. ASSUME NEW i \in 1..n
      PROVE  Workloads[i] \in Deployment /\ moves[q][c][Workloads[i]] >= 1
  <2>1. i \in 1..Len(Workloads)
    BY WorkloadFacts
  <2> QED
    BY <2>1, WorkloadFacts DEF Restarted
<1>3. ASSUME NEW d \in Deployment, moves[q][c][d] >= 1
      PROVE  moves'[q][c][d] >= 1
  <2>1. moves[q][c][d] \in Nat /\ moves'[q][c][d] \in Nat /\ moves'[q][c][d] >= moves[q][c][d]
    BY <1>1 DEF KubeTypes, Grows
  <2> QED
    BY <1>3, <2>1
<1> HIDE DEF c
<1>4. \A i \in 1..n : moves'[q][c][Workloads[i]] >= 1
  BY <1>2, <1>3
<1> QED
  BY <1>1, <1>4 DEF Restarted, c

LEMMA UndoneGrows ==
  ASSUME KubeTypes, Grows, NEW q \in Deployer, NEW c \in Cluster, NEW n \in 0..Len(Workloads),
         \A i \in 1..n : UndoneBack(q, c, Workloads[i])
  PROVE  \A i \in 1..n : UndoneBack(q, c, Workloads[i])'
<1> SUFFICES ASSUME NEW i \in 1..n PROVE UndoneBack(q, c, Workloads[i])'
  OBVIOUS
<1>1. i \in 1..Len(Workloads)
  BY WorkloadFacts
<1>2. Workloads[i] \in Deployment
  BY <1>1, WorkloadFacts
<1>3. ASSUME NEW d \in Deployment, UndoneBack(q, c, d)
      PROVE  UndoneBack(q, c, d)'
  BY <1>3 DEF Grows
<1>4. PICK d \in Deployment : d = Workloads[i]
  BY <1>2
<1>5. UndoneBack(q, c, d)'
  BY <1>3, <1>4
<1> QED
  BY <1>4, <1>5 DEF UndoneBack, Running

(* A run that takes no step loses nothing of what it has done. *)
LEMMA LocalKeeps ==
  ASSUME KubeTypes, KubeTypes', Grows, UNCHANGED kcfg, NEW q \in Deployer, LocalInv(q),
         kpc'[q] = kpc[q], stage'[q] = stage[q], todo'[q] = todo[q]
  PROVE  LocalInv(q)'
<1> DEFINE c == ResolveContext(q, NoContext)
<1> DEFINE back == ResolveContext(q, kcfg[q].context)
<1>1. c' = c /\ back' = back /\ Reached(q)' = Reached(q) /\ Undone(q)' = Undone(q)
      /\ PastRestart(q)' = PastRestart(q)
  BY DEF ResolveContext, Reached, Undone, PastRestart
<1>2. Reached(q) \in 0..Len(Workloads) /\ Len(Workloads) \in 0..Len(Workloads)
      /\ (kpc[q] # "restart" => Undone(q) \in 0..Len(Workloads))
  BY TodoFacts
<1>3. /\ kpc[q] \notin {"apply", "setImage", "status"}
      /\ kpc[q] = "restart" /\ Reached(q) > 0 => Restarted(q, Reached(q))
      /\ PastRestart(q) => Restarted(q, Len(Workloads))
      /\ kpc[q] \in {"verify", "decide"} => todo[q] = Workloads
      /\ kpc[q] = "rolledBack" => Len(todo[q]) = 1
      /\ stage[q] = "verify" /\ kpc[q] \in {"undo", "undoStatus", "rolledBack"} /\ back = c
         => \A i \in 1..Undone(q) : UndoneBack(q, c, Workloads[i])
  BY DEF LocalInv
<1>4. PastRestart(q) => Restarted(q, Len(Workloads))'
  BY <1>2, <1>3, RestartedGrows
<1>5. kpc[q] = "restart" /\ Reached(q) > 0 => Restarted(q, Reached(q))'
  <2>1. PICK n \in 0..Len(Workloads) : n = Reached(q)
    BY <1>2
  <2>2. Restarted(q, n) => Restarted(q, n)'
    BY RestartedGrows
  <2> QED
    BY <1>1, <1>3, <2>1, <2>2 DEF Restarted
<1>6. ASSUME stage[q] = "verify", kpc[q] \in {"undo", "undoStatus", "rolledBack"}, back = c
      PROVE  (\A i \in 1..Undone(q) : UndoneBack(q, c, Workloads[i]))'
  <2>1. PICK n \in 0..Len(Workloads) : n = Undone(q)
    BY <1>2, <1>6
  <2>2. PICK cc \in Cluster : cc = c
    BY <1>3, <1>6 DEF PastRestart, Restarted
  <2>3. \A i \in 1..n : UndoneBack(q, cc, Workloads[i])
    BY <1>3, <1>6, <2>1, <2>2
  <2>4. \A i \in 1..n : UndoneBack(q, cc, Workloads[i])'
    BY <2>3, UndoneGrows
  <2> QED
    BY <1>1, <2>1, <2>2, <2>4 DEF UndoneBack, Running
<1> QED
  BY <1>1, <1>3, <1>4, <1>5, <1>6 DEF LocalInv

(* A restart gives its deployment a stamp that it did not have before. *)
LEMMA RestartStep ==
  ASSUME UndoInv, UndoInv', ProgressInv, Grows, NEW r \in Deployer, Restart(r), LocalInv(r), ~kcfg[r].dry,
         stage[r] = "action"
  PROVE  LocalInv(r)'
<1> DEFINE c == ResolveContext(r, NoContext)
<1> DEFINE d == Head(todo[r])
<1>1. KubeTypes /\ KubeTypes'
  BY DEF UndoInv
<1>2. kpc[r] = "restart" /\ UNCHANGED <<kcfg, stage, before>> /\ c' = c
  BY DEF Restart, Now, ResolveContext
<1>3. /\ Len(todo[r]) \in Nat /\ Len(Workloads) \in Nat \ {0} /\ Len(todo[r]) <= Len(Workloads)
      /\ Reached(r) \in 0..Len(Workloads)
  BY <1>1, TodoFacts
<1>4. Reached(r) > 0 => Restarted(r, Reached(r))
  BY <1>2 DEF LocalInv
<1>5. CASE todo[r] = <<>>
  <2>1. kpc'[r] = "verify" /\ todo'[r] = Workloads
    BY <1>1, <1>5 DEF Restart, Then, KubeTypes
  <2>2. Reached(r) = Len(Workloads)
    BY <1>3, <1>5 DEF Reached
  <2>3. Restarted(r, Len(Workloads))'
    BY <1>1, <1>2, <1>3, <1>4, <2>2, RestartedGrows
  <2> QED
    BY <1>2, <2>1, <2>3 DEF LocalInv
<1>6. CASE todo[r] # <<>> /\ kpc'[r] # "restart"
  <2>1. kpc'[r] = "decide" /\ todo'[r] = Workloads
    BY <1>1, <1>2, <1>6 DEF Restart, Kubectl, Then, KubeTypes
  <2> QED
    BY <1>2, <2>1 DEF LocalInv, PastRestart
<1>7. CASE todo[r] # <<>> /\ kpc'[r] = "restart"
  <2>1. /\ c # "refused" /\ todo' = [todo EXCEPT ![r] = Tail(todo[r])]
        /\ Revise(c, d, [cc \in Cluster |-> [Running(cc, d) EXCEPT !.restart = r]][c])
    BY <1>1, <1>7 DEF Restart, Kubectl, Then, KubeTypes
  <2>2. d \in Deployment /\ c \in Cluster /\ Len(Tail(todo[r])) = Len(todo[r]) - 1 /\ Len(todo[r]) > 0
    BY <1>1, <1>7, <2>1, UndoingType, ContextFacts DEF KubeTypes
  <2>3. todo'[r] = Tail(todo[r]) /\ Reached(r)' = Reached(r) + 1
    <3>1. todo'[r] = Tail(todo[r])
      BY <1>1, <2>1 DEF KubeTypes
    <3>2. PICK w \in Nat, t \in Nat \ {0} : w = Len(Workloads) /\ t = Len(todo[r]) /\ t <= w
      BY <1>3, <2>2
    <3>3. Len(todo'[r]) = t - 1
      BY <2>2, <3>1, <3>2
    <3>4. w - (t - 1) = (w - t) + 1
      BY <3>2
    <3> QED
      BY <3>1, <3>2, <3>3, <3>4 DEF Reached
  <2>4. d = Workloads[Reached(r) + 1]
    BY <1>1, <1>7, <2>2 DEF ProgressInv, KubeTypes
  <2>5. moves'[r][c][d] >= 1
    <3>1. PICK template \in Template : Revise(c, d, template) /\ template.restart = r
      BY <1>1, <2>1, <2>2, RunningType DEF Template
    <3> HIDE DEF c, d
    <3>2. PICK cc \in Cluster, dd \in Deployment : cc = c /\ dd = d
      BY <2>2
    <3>3. Running(cc, dd)' = template
      BY <1>2, <3>1, <3>2, ReviseStep
    <3>4. Moved(r, cc, dd)' /\ before[r][cc][dd].restart # r /\ moves'[r][cc][dd] \in Nat
      BY <1>1 DEF UndoInv, ProgressInv, KubeTypes
    <3>5. moves'[r][cc][dd] # 0
      BY <1>2, <3>1, <3>3, <3>4 DEF Moved
    <3> QED
      BY <3>2, <3>4, <3>5
  <2>6. Restarted(r, Reached(r))'
    <3>1. PICK n \in 0..Len(Workloads) : n = Reached(r)
      BY <1>3
    <3>2. n > 0 => \A i \in 1..n : moves'[r][c][Workloads[i]] >= 1
      <4>1. n > 0 => Restarted(r, n)'
        BY <1>1, <1>2, <1>4, <3>1, RestartedGrows DEF Restarted
      <4> QED
        BY <1>2, <4>1 DEF Restarted
    <3>3. \A i \in 1..(n + 1) : moves'[r][c][Workloads[i]] >= 1
      <4>1. moves'[r][c][Workloads[n + 1]] >= 1
        BY <2>4, <2>5, <3>1
      <4>2. \A i \in 1..(n + 1) : (n > 0 /\ i \in 1..n) \/ i = n + 1
        OBVIOUS
      <4> HIDE DEF c, d
      <4> QED
        BY <3>2, <4>1, <4>2
    <3>4. Reached(r)' = n + 1
      BY <2>3, <3>1
    <3> QED
      BY <1>2, <2>2, <3>3, <3>4 DEF Restarted
  <2> QED
    BY <1>2, <1>7, <2>6 DEF LocalInv, PastRestart
<1> QED
  BY <1>5, <1>6, <1>7

(* An undo that succeeds is one more change, and brings back what a        *)
(* deployment was restarted from if nothing else has changed it.           *)
LEMMA UndoStep ==
  ASSUME UndoInv, UndoInv', ProgressInv, Grows, NEW r \in Deployer, Undo(r), LocalInv(r), ~kcfg[r].dry
  PROVE  LocalInv(r)'
<1> DEFINE c == ResolveContext(r, NoContext)
<1> DEFINE d == Undoing(r)
<1>1. KubeTypes /\ KubeTypes'
  BY DEF UndoInv
<1>2. kpc[r] = "undo" /\ UNCHANGED <<kcfg, todo, stage, before>> /\ c' = c /\ Reached(r)' = Reached(r)
  BY DEF Undo, Now, ResolveContext, Reached
<1>3. kpc'[r] \in {"undoStatus", "failed"}
  BY <1>1 DEF Undo, Kubectl, UndoFails, Then, KubeTypes
<1>4. CASE kpc'[r] = "failed"
  BY <1>4 DEF LocalInv, PastRestart
<1>5. CASE kpc'[r] = "undoStatus"
  <2>1. CASE stage[r] # "verify" \/ ResolveContext(r, kcfg[r].context) # c
    <3>1. stage[r] = "verify" => Restarted(r, Len(Workloads))'
      BY <1>1, <1>2, TodoFacts, RestartedGrows DEF LocalInv, PastRestart
    <3>2. ResolveContext(r, kcfg[r].context)' = ResolveContext(r, kcfg[r].context)
      BY <1>2 DEF ResolveContext
    <3> QED
      BY <1>2, <1>5, <2>1, <3>1, <3>2 DEF LocalInv, PastRestart
  <2>2. CASE stage[r] = "verify" /\ ResolveContext(r, kcfg[r].context) = c
    <3>1. Restarted(r, Len(Workloads)) /\ c \in Cluster
          /\ \A i \in 1..Reached(r) : UndoneBack(r, c, Workloads[i])
      BY <1>2, <2>2 DEF LocalInv, PastRestart, Restarted, Undone
    <3>2. /\ Len(todo[r]) \in Nat /\ Len(Workloads) \in Nat \ {0} /\ Len(todo[r]) <= Len(Workloads)
          /\ Reached(r) \in 0..Len(Workloads) /\ Len(todo[r]) > 0 /\ Reached(r) + 1 \in 1..Len(Workloads)
      BY <1>1, <1>2, TodoFacts DEF Reached
    <3>3. d \in Deployment /\ d = Workloads[Reached(r) + 1]
      BY <1>1, <3>2, UndoingType DEF ProgressInv, Undoing, KubeTypes
    <3>4. moves[r][c][d] >= 1
      BY <3>1, <3>2, <3>3 DEF Restarted
    <3>5. Revise(c, d, [cc \in Cluster |-> PreviousReplicaSet(cc, d)][c])
      BY <1>1, <1>5, <2>2 DEF Undo, Kubectl, UndoFails, Then, KubeTypes
    <3>6. UndoneBack(r, c, d)'
      <4>1. PICK cc \in Cluster, dd \in Deployment : cc = c /\ dd = d
        BY <3>1, <3>3
      <4>2. Revise(cc, dd, PreviousReplicaSet(cc, dd)) /\ moves[r][cc][dd] >= 1
        BY <3>4, <3>5, <4>1
      <4> HIDE DEF c, d
      <4>3. PreviousReplicaSet(cc, dd) \in Template
        BY <1>1, RunningType
      <4>4. Running(cc, dd)' = PreviousReplicaSet(cc, dd)
        BY <1>2, <4>2, <4>3, ReviseStep
      <4>5. Moved(r, cc, dd) /\ moves[r][cc][dd] \in Nat /\ moves[r] \in [Cluster -> [Deployment -> Nat]]
        BY <1>1 DEF UndoInv, KubeTypes
      <4>6. /\ PreviousReplicaSet(cc, dd) # Running(cc, dd)
            /\ moves[r][cc][dd] = 1 => PreviousReplicaSet(cc, dd) = before[r][cc][dd]
        BY <4>2, <4>5 DEF Moved, PreviousReplicaSet, Running, Last
      <4>7. moves'[r][cc][dd] = moves[r][cc][dd] + 1
        <5>1. moves'[r] = [moves[r] EXCEPT ![cc] = [moves[r][cc] EXCEPT ![dd] = @ + 1]]
          BY <4>2, <4>6 DEF Revise
        <5> QED
          BY <4>5, <5>1
      <4>8. UndoneBack(r, cc, dd)'
        BY <1>2, <4>2, <4>4, <4>5, <4>6, <4>7 DEF UndoneBack
      <4>9. c' = cc /\ d' = dd
        BY <1>2, <4>1 DEF d, Undoing
      <4> QED
        BY <4>1, <4>8, <4>9 DEF UndoneBack, Running
    <3>7. (\A i \in 1..Undone(r) : UndoneBack(r, c, Workloads[i]))'
      <4>1. PICK n \in 0..Len(Workloads) : n = Reached(r)
        BY <3>2
      <4>2. PICK cc \in Cluster : cc = c
        BY <3>1
      <4>3. \A i \in 1..n : UndoneBack(r, cc, Workloads[i])'
        BY <1>1, <3>1, <4>1, <4>2, UndoneGrows
      <4>4. Workloads[n + 1] = d' /\ c' = cc
        BY <1>2, <3>3, <4>1, <4>2 DEF Undoing
      <4>5. UndoneBack(r, cc, Workloads[n + 1])'
        BY <1>2, <3>6, <4>4 DEF UndoneBack, Running
      <4>6. \A i \in 1..(n + 1) : i \in 1..n \/ i = n + 1
        OBVIOUS
      <4>7. \A i \in 1..(n + 1) : UndoneBack(r, cc, Workloads[i])'
        BY <4>3, <4>5, <4>6
      <4>8. Undone(r)' = n + 1
        BY <1>2, <1>5, <4>1 DEF Undone
      <4> QED
        BY <4>4, <4>7, <4>8 DEF UndoneBack, Running
    <3>8. Restarted(r, Len(Workloads))'
      BY <1>1, <1>2, <3>1, <3>2, RestartedGrows
    <3> QED
      BY <1>2, <1>5, <3>7, <3>8 DEF LocalInv, PastRestart
  <2> QED
    BY <2>1, <2>2
<1> QED
  BY <1>3, <1>4, <1>5

LEMMA AwaitUndoStep ==
  ASSUME UndoInv, UndoInv', Grows, NEW r \in Deployer, AwaitUndo(r), LocalInv(r), kcfg[r].kind = "local"
  PROVE  LocalInv(r)'
<1> DEFINE c == ResolveContext(r, NoContext)
<1> DEFINE back == ResolveContext(r, kcfg[r].context)
<1>1. KubeTypes /\ KubeTypes'
  BY DEF UndoInv
<1>2. kpc[r] = "undoStatus" /\ UNCHANGED <<kcfg, stage, before, history, moves>> /\ c' = c /\ back' = back
  BY DEF AwaitUndo, Now, RolloutStatus, ResolveContext
<1>3. UndoLoop(r)
  BY <1>1, LoopFacts
<1>4. CASE kpc'[r] = "failed"
  BY <1>4 DEF LocalInv, PastRestart
<1>5. CASE kpc'[r] # "failed"
  <2>1. /\ kpc'[r] \in {"undo", "rolledBack"}
        /\ kpc'[r] = "undo" => Len(todo'[r]) = Len(todo[r]) - 1
        /\ kpc'[r] = "rolledBack" => todo'[r] = todo[r] /\ Len(todo[r]) = 1
    BY <1>1, <1>3, <1>5 DEF UndoLoop, KubeTypes
  <2>2. Undone(r)' = Undone(r)
    <3>1. Len(todo[r]) \in Nat /\ Len(Workloads) \in Nat
      BY <1>1, TodoFacts
    <3>2. PICK w \in Nat, t \in Nat : w = Len(Workloads) /\ t = Len(todo[r])
      BY <3>1
    <3>3. w - (t - 1) = (w - t) + 1
      BY <3>2
    <3>4. kpc'[r] = "undo" => Reached(r)' = Reached(r) + 1
      BY <2>1, <3>2, <3>3 DEF Reached
    <3>5. kpc'[r] = "rolledBack" => Reached(r)' = Reached(r)
      BY <2>1 DEF Reached
    <3>6. Undone(r) = Reached(r) + 1
      BY <1>2 DEF Undone
    <3>7. Undone(r)' = IF kpc'[r] = "undo" THEN Reached(r)' ELSE Reached(r)' + 1
      BY DEF Undone
    <3> QED
      BY <2>1, <3>4, <3>5, <3>6, <3>7
  <2>3. stage[r] = "verify" => Restarted(r, Len(Workloads))'
    BY <1>1, <1>2, TodoFacts, RestartedGrows DEF LocalInv, PastRestart
  <2>4. stage[r] = "verify" /\ back = c => \A i \in 1..Undone(r) : UndoneBack(r, c, Workloads[i])
    BY <1>2 DEF LocalInv
  <2>5. stage[r] = "verify" /\ back = c => (\A i \in 1..Undone(r) : UndoneBack(r, c, Workloads[i]))'
    BY <1>2, <2>2, <2>4 DEF UndoneBack, Running
  <2> QED
    BY <1>2, <2>1, <2>3, <2>5 DEF LocalInv, PastRestart
<1> QED
  BY <1>4, <1>5

LEMMA ProgressStep ==
  ASSUME UndoInv, VerdictInv, ProgressInv, [KubeNext]_kubeVars
  PROVE  ProgressInv'
<1>1. UndoInv' /\ Grows /\ KubeTypes /\ KubeTypes'
  BY UndoInvStep DEF UndoInv
<1>2. CASE UNCHANGED kubeVars
  <2>1. UNCHANGED <<kcfg, kpc, stage, todo, before>>
    BY <1>2 DEF kubeVars
  <2>2. \A r \in Deployer : LocalInv(r) => LocalInv(r)'
    BY <1>1, <2>1, LocalKeeps
  <2> QED
    BY <2>1, <2>2 DEF ProgressInv, Reached
<1>3. ASSUME NEW r \in Deployer, KubeStep(r)
      PROVE  ProgressInv'
  <2>1. UNCHANGED <<kcfg, before>>
    BY <1>1, <1>3, OneChange
  <2>2. /\ \A q \in Deployer \ {r} : kpc'[q] = kpc[q] /\ stage'[q] = stage[q] /\ todo'[q] = todo[q]
        /\ \/ todo'[r] = todo[r] \/ todo'[r] = Workloads
           \/ todo[r] # <<>> /\ todo'[r] = Tail(todo[r])
    <3>1. CASE Apply(r) \/ SetImage(r) \/ AwaitRollout(r) \/ Probe(r) \/ OnFailure(r) \/ Undo(r)
      <4>1. UNCHANGED todo
        BY <3>1 DEF Apply, SetImage, AwaitRollout, Probe, OnFailure, Undo
      <4>2. UNCHANGED stage \/ stage' = [stage EXCEPT ![r] = "verify"]
        BY <3>1 DEF Apply, SetImage, AwaitRollout, Probe, OnFailure, Undo
      <4>3. UNCHANGED kpc \/ \E step : kpc' = [kpc EXCEPT ![r] = step]
        BY <3>1 DEF Apply, SetImage, AwaitRollout, Probe, OnFailure, Undo, UndoFails, Kubectl,
          RolloutStatus, Then
      <4> QED
        BY <1>1, <4>1, <4>2, <4>3 DEF KubeTypes, VerdictInv
    <3>2. CASE Restart(r)
      BY <1>1, <3>2 DEF Restart, Kubectl, Then, KubeTypes, VerdictInv
    <3>3. CASE AwaitUndo(r)
      <4>1. UndoLoop(r) /\ UNCHANGED stage /\ todo[r] # <<>>
        BY <1>1, <3>3, LoopFacts DEF AwaitUndo, Now, KubeTypes
      <4> QED
        BY <1>1, <4>1 DEF UndoLoop, KubeTypes
    <3> QED
      BY <1>3, <3>1, <3>2, <3>3 DEF KubeStep
  <2>3. \A j \in 1..Len(todo'[r]) : todo'[r][j] = Workloads[Len(Workloads) - Len(todo'[r]) + j]
    <3>1. PICK w \in Nat, t \in Nat : w = Len(Workloads) /\ t = Len(todo[r])
      BY <1>1, TodoFacts
    <3>2. todo[r] \in Seq(Deployment) /\ \A j \in 1..t : todo[r][j] = Workloads[w - t + j]
      BY <1>1, <3>1 DEF ProgressInv, Reached, KubeTypes
    <3>3. CASE todo[r] # <<>> /\ todo'[r] = Tail(todo[r])
      <4>1. Len(todo'[r]) = t - 1 /\ \A j \in 1..(t - 1) : todo'[r][j] = todo[r][j + 1]
        BY <3>1, <3>2, <3>3
      <4>2. \A j \in 1..(t - 1) : todo[r][j + 1] = Workloads[w - (t - 1) + j]
        <5> SUFFICES ASSUME NEW j \in 1..(t - 1) PROVE todo[r][j + 1] = Workloads[w - (t - 1) + j]
          OBVIOUS
        <5>1. j + 1 \in 1..t /\ w - t + (j + 1) = w - (t - 1) + j
          BY <3>1
        <5>2. todo[r][j + 1] = Workloads[w - t + (j + 1)]
          BY <3>2, <5>1
        <5> QED
          BY <5>1, <5>2
      <4> QED
        BY <3>1, <4>1, <4>2
    <3>4. CASE todo'[r] = todo[r]
      BY <3>1, <3>2, <3>4
    <3>5. CASE todo'[r] = Workloads
      <4>1. \A j \in 1..w : Workloads[w - w + j] = Workloads[j]
        BY <3>1
      <4> QED
        BY <3>1, <3>5, <4>1
    <3> QED
      BY <2>2, <3>3, <3>4, <3>5
  <2>4. \A q \in Deployer : \A j \in 1..Len(todo'[q]) : todo'[q][j] = Workloads[Reached(q)' + j]
    <3>1. \A q \in Deployer \ {r} : \A j \in 1..Len(todo'[q]) : todo'[q][j] = Workloads[Reached(q)' + j]
      <4> SUFFICES ASSUME NEW q \in Deployer \ {r}, NEW j \in 1..Len(todo'[q])
                   PROVE  todo'[q][j] = Workloads[Reached(q)' + j]
        OBVIOUS
      <4>1. todo'[q] = todo[q]
        BY <2>2
      <4>2. Reached(q)' = Reached(q)
        BY <4>1 DEF Reached
      <4>3. j \in 1..Len(todo[q])
        BY <4>1
      <4>4. todo[q][j] = Workloads[Reached(q) + j]
        BY <4>3 DEF ProgressInv
      <4> QED
        BY <4>1, <4>2, <4>4
    <3>2. \A j \in 1..Len(todo'[r]) : todo'[r][j] = Workloads[Reached(r)' + j]
      BY <2>3 DEF Reached
    <3> QED
      BY <3>1, <3>2
  <2>5. ASSUME NEW q \in Deployer \ {r}, kcfg'[q].kind = "local" /\ ~kcfg'[q].dry
        PROVE  LocalInv(q)'
    <3>1. LocalInv(q)
      BY <2>1, <2>5 DEF ProgressInv
    <3> QED
      BY <1>1, <2>1, <2>2, <3>1, LocalKeeps
  <2>6. ASSUME kcfg'[r].kind = "local" /\ ~kcfg'[r].dry
        PROVE  LocalInv(r)'
    <3>1. LocalInv(r) /\ kcfg[r].kind = "local" /\ ~kcfg[r].dry
      BY <2>1, <2>6 DEF ProgressInv
    <3>2. kpc[r] \in ActionSteps => stage[r] = "action"
      BY DEF VerdictInv
    <3>3. ~Apply(r) /\ ~SetImage(r) /\ ~AwaitRollout(r)
      BY <3>1 DEF LocalInv, Apply, SetImage, AwaitRollout, Now
    <3>4. CASE Restart(r)
      BY <1>1, <3>1, <3>2, <3>4, RestartStep DEF Restart, Now, ActionSteps
    <3>5. CASE Probe(r)
      <4>1. kpc[r] = "verify" /\ UNCHANGED todo /\ kpc'[r] \in {"verify", "done", "decide"}
        BY <1>1, <3>5 DEF Probe, Now, Then, KubeTypes
      <4>2. Restarted(r, Len(Workloads))' /\ todo[r] = Workloads
        BY <1>1, <2>1, <3>1, <4>1, TodoFacts, RestartedGrows DEF LocalInv, PastRestart
      <4> QED
        BY <4>1, <4>2 DEF LocalInv
    <3>6. CASE OnFailure(r)
      <4>1. kpc[r] = "decide" /\ UNCHANGED <<todo, stage>> /\ kpc'[r] \in {"failed", "undo"}
        BY <1>1, <3>6 DEF OnFailure, Now, Then, KubeTypes
      <4>2. stage[r] = "verify" => Restarted(r, Len(Workloads))'
        BY <1>1, <2>1, <3>1, <4>1, TodoFacts, RestartedGrows DEF LocalInv, PastRestart
      <4>3. kpc'[r] = "undo" => Undone(r)' = 0
        <5>1. todo'[r] = Workloads /\ Len(Workloads) \in Nat
          BY <3>1, <4>1, WorkloadFacts DEF LocalInv
        <5> QED
          BY <5>1 DEF Undone, Reached
      <4> QED
        BY <4>1, <4>2, <4>3 DEF LocalInv, PastRestart
    <3> QED
      BY <1>1, <1>3, <3>1, <3>3, <3>4, <3>5, <3>6, UndoStep, AwaitUndoStep DEF KubeStep
  <2>7. \A q \in Deployer, c \in Cluster, d \in Deployment : before'[q][c][d].restart \notin Deployer
    BY <2>1 DEF ProgressInv
  <2> QED
    BY <2>4, <2>5, <2>6, <2>7 DEF ProgressInv
<1> QED
  BY <1>2, <1>3 DEF KubeNext

LEMMA ProgressInitially ==
  ASSUME NEW settings, NEW past, KubeSettings(settings, past), KubeInit(settings, past)
  PROVE  ProgressInv
<1>1. Workloads \in Seq(Deployment) /\ Len(Workloads) \in Nat
  BY WorkloadFacts
<1>2. ASSUME NEW r \in Deployer
      PROVE  todo[r] = Workloads /\ stage[r] = "action" /\ kpc[r] \in {"apply", "restart"} /\ Reached(r) = 0
             /\ (kcfg[r].kind = "local" => kpc[r] = "restart")
  BY <1>1 DEF KubeInit, Reached
<1>3. \A r \in Deployer : kcfg[r].kind = "local" => LocalInv(r)
  BY <1>2 DEF LocalInv, PastRestart
<1> QED
  BY <1>1, <1>2, <1>3 DEF ProgressInv, KubeInit, KubeSettings

(* However many deployments there are and however many runs restart, set    *)
(* images and undo in whatever clusters: a rollback that reports success    *)
(* has given back to each deployment what it ran before the restarts, and   *)
(* has passed none over, but for those that another run has changed.        *)
THEOREM RollbackBringsBack ==
  ASSUME NEW settings, NEW past, KubeSettings(settings, past)
  PROVE  KubeSpec(settings, past) => []RollbackRestores
<1> DEFINE Inv == UndoInv /\ VerdictInv /\ ProgressInv
<1>1. KubeInit(settings, past) => Inv
  BY UndoInvInitially, ProgressInitially
  DEF KubeInit, VerdictInv, ActionSteps, HealthyStays, RollingBack
<1>2. Inv /\ [KubeNext]_kubeVars => Inv'
  BY UndoInvStep, VerdictInvStep, ProgressStep
<1>3. Inv => RollbackRestores
  <2> SUFFICES ASSUME Inv, NEW r \in Deployer, NEW d \in Deployment, RolledBack(r),
                      kcfg[r].kind = "local",
                      ResolveContext(r, kcfg[r].context) = ResolveContext(r, NoContext),
                      moves[r][ResolveContext(r, NoContext)][d] <= 2
               PROVE  Running(ResolveContext(r, NoContext), d) = before[r][ResolveContext(r, NoContext)][d]
    BY DEF RollbackRestores
  <2> DEFINE c == ResolveContext(r, NoContext)
  <2>1. KubeTypes /\ LocalInv(r) /\ kpc[r] = "rolledBack" /\ stage[r] = "verify"
    BY DEF UndoInv, ProgressInv, RolledBack
  <2>2. c \in Cluster /\ Len(todo[r]) = 1 /\ \A i \in 1..Undone(r) : UndoneBack(r, c, Workloads[i])
    BY <2>1 DEF LocalInv, PastRestart, Restarted
  <2>3. Undone(r) = Len(Workloads)
    BY <2>1, <2>2, WorkloadFacts DEF Undone, Reached
  <2>4. PICK i \in 1..Len(Workloads) : Workloads[i] = d
    BY KubeAssumption DEF Deployment, ToSet
  <2>5. UndoneBack(r, c, d) /\ moves[r][c][d] \in Nat
    BY <2>1, <2>2, <2>3, <2>4 DEF KubeTypes
  <2> HIDE DEF c
  <2>6. moves[r][c][d] = 2
    BY <2>5 DEF UndoneBack, c
  <2> QED
    BY <2>5, <2>6 DEF UndoneBack, c
<1> HIDE DEF Inv
<1> QED
  BY <1>1, <1>2, <1>3, PTL DEF KubeSpec

(* The attempts of a probe, which runs once. *)
AttemptInv ==
  /\ VerdictInv /\ attempt \in [Deployer -> 0..Tries]
  /\ \A r \in Deployer : kpc[r] \in ActionSteps => attempt[r] < Tries

LEMMA AttemptInvStep ==
  ASSUME AttemptInv, [KubeNext]_kubeVars
  PROVE  AttemptInv'
<1>1. VerdictInv' /\ kpc' \in [Deployer -> ActionSteps \cup {"decide", "undo", "undoStatus", "rolledBack",
                                                           "done", "failed"}]
  BY VerdictInvStep DEF AttemptInv, VerdictInv
<1>2. kpc \in [Deployer -> ActionSteps \cup {"decide", "undo", "undoStatus", "rolledBack", "done", "failed"}]
  BY DEF AttemptInv, VerdictInv
<1>3. ASSUME NEW r \in Deployer, Probe(r)
      PROVE  AttemptInv'
  <2>1. kpc[r] \in ActionSteps /\ attempt[r] \in Nat /\ attempt[r] < Tries /\ Tries \in Nat
    <3>1. kpc[r] \in ActionSteps
      BY <1>3 DEF Probe, Now, ActionSteps
    <3>2. attempt[r] \in 0..Tries /\ attempt[r] < Tries
      BY <3>1 DEF AttemptInv
    <3> QED
      BY <3>1, <3>2, KubeAssumption
  <2>2. \/ UNCHANGED attempt /\ Then(r, "decide")
        \/ /\ attempt' = [attempt EXCEPT ![r] = attempt[r] + 1]
           /\ Then(r, "done") \/ Then(r, "decide") \/ (UNCHANGED kpc /\ attempt'[r] < Tries)
    BY <1>3 DEF Probe
  <2>3. attempt \in [Deployer -> 0..Tries] /\ attempt[r] + 1 \in 0..Tries
    BY <2>1 DEF AttemptInv
  <2>4. CASE UNCHANGED attempt /\ Then(r, "decide")
    BY <1>1, <1>2, <2>4 DEF AttemptInv, Then, ActionSteps
  <2>5. CASE /\ attempt' = [attempt EXCEPT ![r] = attempt[r] + 1]
             /\ Then(r, "done") \/ Then(r, "decide") \/ (UNCHANGED kpc /\ attempt'[r] < Tries)
    <3>1. attempt' \in [Deployer -> 0..Tries] /\ \A q \in Deployer \ {r} : attempt'[q] = attempt[q]
      BY <2>3, <2>5
    <3>2. (kpc'[r] \in ActionSteps => attempt'[r] < Tries) /\ \A q \in Deployer \ {r} : kpc'[q] = kpc[q]
      BY <1>2, <2>5 DEF Then, ActionSteps
    <3> QED
      BY <1>1, <3>1, <3>2 DEF AttemptInv
  <2> QED
    BY <2>2, <2>4, <2>5
<1>4. ASSUME NEW r \in Deployer, UNCHANGED attempt, kpc[r] \in ActionSteps \/ kpc'[r] \notin ActionSteps,
             \A q \in Deployer \ {r} : kpc'[q] = kpc[q]
      PROVE  AttemptInv'
  BY <1>1, <1>4 DEF AttemptInv
<1>5. ASSUME NEW r \in Deployer, KubeStep(r), ~Probe(r)
      PROVE  AttemptInv'
  <2>1. UNCHANGED attempt
    BY <1>5 DEF KubeStep, Apply, SetImage, AwaitRollout, Restart, OnFailure, Undo, AwaitUndo
  <2>2. UNCHANGED kpc \/ \E step : kpc' = [kpc EXCEPT ![r] = step]
    BY <1>5 DEF KubeStep, Apply, SetImage, AwaitRollout, Restart, OnFailure, Undo, AwaitUndo, Kubectl,
      UndoFails, RolloutStatus, Then
  <2>3. kpc[r] \in ActionSteps \/ kpc'[r] \notin ActionSteps
    BY <1>2, <1>5 DEF KubeStep, Apply, SetImage, AwaitRollout, Restart, OnFailure, Undo, AwaitUndo, Kubectl,
      UndoFails, RolloutStatus, Then, Now, ActionSteps
  <2>4. \A q \in Deployer \ {r} : kpc'[q] = kpc[q]
    BY <1>2, <2>2
  <2> QED
    BY <1>4, <2>1, <2>3, <2>4
<1>6. CASE UNCHANGED kubeVars
  BY <1>1, <1>6 DEF AttemptInv, kubeVars
<1> QED
  BY <1>3, <1>5, <1>6 DEF KubeNext

(* Whatever clusters, pasts and settings the pipelines have, their state    *)
(* keeps its types and a probe makes at most Tries attempts.                *)
THEOREM KubeTypeCorrect ==
  ASSUME NEW settings, NEW past, KubeSettings(settings, past)
  PROVE  KubeSpec(settings, past) => []KubeTypeOK
<1>1. KubeInit(settings, past) => UndoInv /\ AttemptInv
  BY UndoInvInitially, KubeAssumption
  DEF KubeInit, AttemptInv, VerdictInv, ActionSteps, HealthyStays, RollingBack
<1>2. UndoInv /\ AttemptInv /\ [KubeNext]_kubeVars => (UndoInv /\ AttemptInv)'
  BY UndoInvStep, AttemptInvStep
<1>3. UndoInv /\ AttemptInv => KubeTypeOK
  <2>1. ASSUME KubeTypes, NEW r \in Deployer, todo[r] # <<>>
        PROVE  \E i \in DOMAIN Workloads : Head(todo[r]) = Workloads[i]
    BY <2>1, UndoingType DEF Deployment, ToSet
  <2> QED
    BY <2>1 DEF UndoInv, KubeTypes, AttemptInv, VerdictInv, KubeTypeOK
<1> QED
  BY <1>1, <1>2, <1>3, PTL DEF KubeSpec

-------------------------------------------------------------------------------
(* The backup drill. The steps before a run's dump, after it, and once     *)
(* dbbackup has returned.                                                  *)
Early == {"runSource", "waitSource", "seed", "runTarget", "waitTarget", "makeTemp", "dump"}
Late == {"fetch", "gunzip", "replay", "verify"}
Ended == {"removeTemp", "removeTarget", "removeSource", "report", "done"}
DrillSteps == Early \cup {"deliver", "copy"} \cup Late \cup Ended \cup {"dead"}

DrillTypes == DrillTypeOK /\ pc \in [Run -> DrillSteps]

(* What a pipeline of each kind does, and what an error does to it. *)
KindInv(r) ==
  /\ cfg[r].kind = "backup" => pc[r] \in {"dump", "deliver", "copy", "report", "done", "dead"} /\ ~Temp(r)
  /\ cfg[r].kind = "drill" => pc[r] \notin {"runSource", "waitSource", "seed", "removeSource"}
  /\ pc[r] \in {"makeTemp", "removeTemp"} => Temp(r)
  /\ pc[r] = "copy" => ~Cloud(r)
  /\ r \in failed => pc[r] \in Ended \cup {"dead"}

(* A name belongs to the place its run delivers to. *)
OwnName(r) ==
  /\ name[r] \in Name /\ name[r][1] = cfg[r].place
  /\ Temp(r) => name[r] = <<"temp", r>>

(* A run takes its name at the dump and keeps it. *)
NameInv(r) ==
  /\ name[r] = Nothing \/ OwnName(r)
  /\ pc[r] \in Early => name[r] = Nothing
  /\ pc[r] \in {"deliver", "copy", "removeTemp"} \cup Late => OwnName(r)
  /\ pc[r] \in Ended /\ r \notin failed => OwnName(r)

(* A run that has delivered, and not to a directory it has given up. *)
Keeps(r) == pc[r] \in Late \/ (pc[r] \in Ended /\ r \notin failed /\ ~Temp(r))

(* What is under the name of a run that delivers or has delivered. *)
StoreInv(r) ==
  /\ pc[r] \in {"copy"} \cup Late /\ ~Cloud(r) => store[name[r]] \in Archive
  /\ pc[r] = "copy" /\ Unshared(r) => store[name[r]].by = r
  /\ Keeps(r) /\ Unshared(r) /\ (dry => ~Cloud(r)) => store[name[r]] = [by |-> r, whole |-> TRUE]
  /\ Keeps(r) /\ Cloud(r) /\ ~dry => store[name[r]] \in Archive /\ store[name[r]].whole

(* What a run replays is whole, and its own dump unless the name is shared. *)
HeldInv(r) ==
  /\ pc[r] \in {"gunzip", "replay"} => held[r] \in Archive
  /\ pc[r] = "replay" => held[r].whole
  /\ pc[r] \in {"gunzip", "replay"} /\ Unshared(r) /\ ~dry => held[r].by = r

TargetInv(r) ==
  pc[r] \in {"verify"} \cup Ended /\ r \notin failed /\ IsDrill(r) /\ ~dry =>
    /\ target[r] \in Archive /\ target[r].whole
    /\ Unshared(r) => target[r].by = r
    /\ pc[r] # "verify" /\ cfg[r].counts => cfg[target[r].by].enough

(* The containers whose removal a run still has before it. *)
Pending(r, c) ==
  \/ pc[r] = "dead"
  \/ /\ c = "target" /\ cfg[r].kind # "backup"
     /\ pc[r] \in {"waitTarget", "makeTemp", "dump", "deliver", "copy", "removeTemp", "removeTarget"}
                 \cup Late
  \/ /\ c = "source" /\ cfg[r].kind = "seeded"
     /\ pc[r] \in {"waitSource", "seed", "runTarget", "waitTarget", "makeTemp", "dump", "deliver", "copy",
                   "removeTemp", "removeTarget", "removeSource"} \cup Late

Excused(r, c) == <<r, c>> \in halfStarted \cup unremoved

(* The steps between the creation of a temporary archive and its removal. *)
InUse(r) == pc[r] \in {"deliver", "copy", "removeTemp", "dead"} \cup Late

LeftInv(r) ==
  /\ \A c \in Role : <<r, c>> \in containers => Excused(r, c) \/ Pending(r, c)
  /\ store[<<"temp", r>>] # Nothing => Temp(r) /\ (InUse(r) \/ <<r, "temp">> \in unremoved)
  /\ r \notin failed => scratch[r] = {}

RunInv(r) ==
  KindInv(r) /\ NameInv(r) /\ StoreInv(r) /\ HeldInv(r) /\ TargetInv(r) /\ LeftInv(r)

DrillInv == DrillTypes /\ \A r \in Run : RunInv(r)

(* Two runs share no name when they deliver to different places, nor when  *)
(* one of them delivers to its own directory.                              *)
LEMMA DistinctNames ==
  ASSUME NEW q \in Run, NEW r \in Run, q # r, OwnName(q), OwnName(r)
  PROVE  /\ Temp(r) => name[q] # name[r]
         /\ Cloud(q) /\ ~Cloud(r) => name[q] # name[r]
         /\ name[r] # <<"temp", q>>
  BY DEF OwnName, Temp, Cloud

(* What a run may put under its name: a cloud never holds half an object,  *)
(* and only a temporary directory is emptied.                              *)
Writes(r) ==
  /\ OwnName(r) /\ name'[r] = name[r]
  /\ \E a \in Archive \cup {Nothing} :
       /\ store' = [store EXCEPT ![name[r]] = a]
       /\ a = Nothing => Temp(r)
       /\ Cloud(r) => a # Nothing /\ a.whole

(* A name that is Unshared stays its run's own: who takes a name had none. *)
LEMMA OthersKeep ==
  ASSUME DrillInv, NEW r \in Run, NEW q \in Run, q # r, UNCHANGED <<cfg, dry>>,
         pc'[q] = pc[q], q \in failed' <=> q \in failed,
         held'[q] = held[q], target'[q] = target[q], scratch'[q] = scratch[q],
         \A c \in Role : <<q, c>> \in containers' => <<q, c>> \in containers,
         halfStarted \subseteq halfStarted', unremoved \subseteq unremoved',
         \A p \in Run \ {r} : name'[p] = name[p],
         name'[r] = name[r] \/ name[r] = Nothing,
         UNCHANGED store \/ Writes(r)
  PROVE  RunInv(q)'
<1>1. RunInv(q) /\ RunInv(r) /\ store \in [Name -> Archive \cup {Nothing}] /\ Nothing \notin Name
  BY BackupAssumption DEF DrillInv, DrillTypes, DrillTypeOK
<1>2. KindInv(q)'
  BY <1>1 DEF RunInv, KindInv, Temp, Cloud
<1>3. OwnName(q)' <=> OwnName(q)
  BY DEF OwnName, Temp
<1>4. NameInv(q)'
  BY <1>1, <1>3 DEF RunInv, NameInv
<1>5. OwnName(q) => (Unshared(q)' => Unshared(q))
  BY <1>1 DEF Unshared, OwnName
<1>6. OwnName(q) /\ Unshared(q)' => store'[name'[q]] = store[name[q]]
  BY <1>1 DEF Unshared, Writes, OwnName
<1>7. ASSUME OwnName(q), Writes(r), store[name[q]] \in Archive
      PROVE  /\ store'[name'[q]] \in Archive
             /\ Cloud(q) /\ store[name[q]].whole => store'[name'[q]].whole
  <2>1. PICK a \in Archive \cup {Nothing} :
          /\ store' = [store EXCEPT ![name[r]] = a] /\ (a = Nothing => Temp(r))
          /\ Cloud(r) => a # Nothing /\ a.whole
    BY <1>7 DEF Writes
  <2>2. OwnName(r) /\ name[r] \in Name /\ name'[q] = name[q] /\ name[q] \in Name
    BY <1>7 DEF Writes, OwnName
  <2>3. CASE name[q] # name[r]
    BY <1>1, <1>7, <2>1, <2>2, <2>3
  <2>4. CASE name[q] = name[r]
    <3>1. ~Temp(r) /\ (Cloud(q) => Cloud(r))
      BY <1>7, <2>2, <2>4, DistinctNames
    <3>2. store'[name'[q]] = a /\ a \in Archive
      BY <1>1, <2>1, <2>2, <2>4, <3>1
    <3> QED
      BY <2>1, <3>1, <3>2
  <2> QED
    BY <2>3, <2>4
<1>8. StoreInv(q)'
  <2>1. Keeps(q) \/ pc[q] \in {"copy"} \cup Late => OwnName(q)
    BY <1>1 DEF RunInv, NameInv, Keeps
  <2>2. (Keeps(q)' <=> Keeps(q)) /\ (Cloud(q)' <=> Cloud(q)) /\ name'[q] = name[q]
    BY DEF Keeps, Cloud, Temp
  <2>3. pc[q] \in {"copy"} \cup Late /\ ~Cloud(q) => store'[name'[q]] \in Archive
    BY <1>1, <1>7, <2>1 DEF RunInv, StoreInv
  <2>4. Keeps(q) /\ Cloud(q) /\ ~dry => store'[name'[q]] \in Archive /\ store'[name'[q]].whole
    BY <1>1, <1>7, <2>1 DEF RunInv, StoreInv
  <2>5. pc[q] = "copy" /\ Unshared(q)' => store'[name'[q]].by = q
    BY <1>1, <1>5, <1>6, <2>1 DEF RunInv, StoreInv
  <2>6. Keeps(q) /\ Unshared(q)' /\ (dry => ~Cloud(q)) => store'[name'[q]] = [by |-> q, whole |-> TRUE]
    BY <1>1, <1>5, <1>6, <2>1 DEF RunInv, StoreInv
  <2> QED
    BY <2>2, <2>3, <2>4, <2>5, <2>6 DEF StoreInv
<1>9. HeldInv(q)'
  <2>1. pc[q] \in {"gunzip", "replay"} => OwnName(q)
    BY <1>1 DEF RunInv, NameInv, Late
  <2> QED
    BY <1>1, <1>5, <2>1 DEF RunInv, HeldInv
<1>10. TargetInv(q)'
  <2>1. pc[q] \in {"verify"} \cup Ended /\ q \notin failed => OwnName(q)
    BY <1>1 DEF RunInv, NameInv, Late
  <2> QED
    BY <1>1, <1>5, <2>1 DEF RunInv, TargetInv, IsDrill
<1>11. LeftInv(q)'
  <2>1. store'[<<"temp", q>>] = store[<<"temp", q>>]
    <3>1. OwnName(r) => name[r] # <<"temp", q>>
      BY DEF OwnName, Temp
    <3>2. <<"temp", q>> \in Name
      BY DEF Name
    <3> QED
      BY <1>1, <3>1, <3>2 DEF Writes, OwnName
  <2>2. \A c \in Role : (Excused(q, c) => Excused(q, c)') /\ (Pending(q, c)' <=> Pending(q, c))
    BY DEF Excused, Pending
  <2>3. <<q, "temp">> \in unremoved => <<q, "temp">> \in unremoved'
    OBVIOUS
  <2> QED
    BY <1>1, <2>1, <2>2, <2>3 DEF RunInv, LeftInv, InUse, Temp
<1> QED
  BY <1>2, <1>4, <1>8, <1>9, <1>10, <1>11 DEF RunInv

(* A step of one run, with what it may touch of the others' state. *)
StepOf(r) ==
  /\ UNCHANGED <<cfg, dry>>
  /\ \A q \in Run \ {r} :
       /\ pc'[q] = pc[q] /\ (q \in failed' <=> q \in failed) /\ name'[q] = name[q]
       /\ held'[q] = held[q] /\ target'[q] = target[q] /\ scratch'[q] = scratch[q]
       /\ \A c \in Role : <<q, c>> \in containers' => <<q, c>> \in containers
  /\ halfStarted \subseteq halfStarted' /\ unremoved \subseteq unremoved'
  /\ name'[r] = name[r] \/ name[r] = Nothing
  /\ UNCHANGED store \/ Writes(r)

LEMMA OneRun ==
  ASSUME DrillInv, NEW r \in Run, StepOf(r), DrillTypes', RunInv(r)'
  PROVE  DrillInv'
<1>1. ASSUME NEW q \in Run, q # r
      PROVE  RunInv(q)'
  BY <1>1, OthersKeep DEF StepOf
<1> QED
  BY <1>1 DEF DrillInv

(* A run that fails inside dbbackup ends, with its directory and its target *)
(* to remove.                                                               *)
LEMMA FailKeeps ==
  ASSUME DrillInv, NEW r \in Run, UNCHANGED <<cfg, dry, leftovers>>, OwnName(r)',
         pc[r] \in {"dump", "deliver", "copy"} \cup Late, pc'[r] = Unwind(r), r \in failed',
         ~Temp(r) => store'[<<"temp", r>>] = store[<<"temp", r>>]
  PROVE  RunInv(r)'
<1>1. RunInv(r) /\ (Temp(r)' <=> Temp(r)) /\ UNCHANGED <<containers, halfStarted, unremoved>>
      /\ pc'[r] = IF Temp(r) THEN "removeTemp" ELSE IF cfg[r].kind # "backup" THEN "removeTarget" ELSE "report"
  BY DEF DrillInv, Unwind, IsDrill, Temp, leftovers
<1>2. KindInv(r)'
  BY <1>1 DEF RunInv, KindInv, Late, Ended
<1>3. NameInv(r)' /\ StoreInv(r)' /\ HeldInv(r)' /\ TargetInv(r)'
  BY <1>1 DEF NameInv, StoreInv, HeldInv, TargetInv, Keeps, Early, Late, Ended
<1>4. LeftInv(r)'
  <2>1. \A c \in Role : <<r, c>> \in containers' => Excused(r, c)' \/ Pending(r, c)'
    BY <1>1 DEF RunInv, KindInv, LeftInv, Pending, Excused, Late, Temp
  <2>2. store'[<<"temp", r>>] # Nothing => Temp(r) /\ InUse(r)'
    BY <1>1 DEF RunInv, LeftInv, InUse
  <2> QED
    BY <1>1, <2>1, <2>2 DEF LeftInv
<1> QED
  BY <1>2, <1>3, <1>4 DEF RunInv

(* A step of dbbackup that goes on, or returns without an error. *)
LEMMA LeftKeeps ==
  ASSUME DrillInv, NEW r \in Run, UNCHANGED <<cfg, failed, scratch, leftovers>>,
         pc[r] \in {"dump", "deliver", "copy"} \cup Late,
         \/ pc'[r] \in {"deliver", "copy"} \cup Late \cup {Unwind(r)}
         \/ pc'[r] = "report" /\ cfg[r].kind = "backup",
         ~Temp(r) => store'[<<"temp", r>>] = store[<<"temp", r>>]
  PROVE  LeftInv(r)'
<1>1. RunInv(r) /\ (Temp(r)' <=> Temp(r)) /\ UNCHANGED <<containers, halfStarted, unremoved, scratch>>
      /\ Unwind(r) = IF Temp(r) THEN "removeTemp" ELSE IF cfg[r].kind # "backup" THEN "removeTarget" ELSE "report"
  BY DEF DrillInv, Unwind, IsDrill, Temp, leftovers
<1>2. cfg[r].kind = "backup" => ~Temp(r)
  BY <1>1 DEF RunInv, KindInv
<1>3. \A c \in Role : <<r, c>> \in containers' => Excused(r, c)' \/ Pending(r, c)'
  BY <1>1, <1>2 DEF RunInv, LeftInv, Pending, Excused, Late
<1>4. store'[<<"temp", r>>] # Nothing => Temp(r) /\ InUse(r)'
  BY <1>1, <1>2 DEF RunInv, LeftInv, InUse
<1> QED
  BY <1>1, <1>3, <1>4 DEF RunInv, LeftInv

LEMMA PutWrites ==
  ASSUME DrillInv, NEW r \in Run, OwnName(r), UNCHANGED name, NEW whole \in BOOLEAN, Put(r, whole),
         Cloud(r) => whole
  PROVE  /\ Writes(r) /\ store' \in [Name -> Archive \cup {Nothing}]
         /\ store'[name[r]] = [by |-> r, whole |-> whole]
         /\ ~Temp(r) => store'[<<"temp", r>>] = store[<<"temp", r>>]
<1> DEFINE a == [by |-> r, whole |-> whole]
<1>1. a \in Archive /\ a.whole = whole /\ store' = [store EXCEPT ![name[r]] = a] /\ Nothing \notin Archive
  BY BackupAssumption DEF Archive, Put
<1>2. store \in [Name -> Archive \cup {Nothing}] /\ name[r] \in Name /\ <<"temp", r>> \in Name
  BY DEF DrillInv, DrillTypes, DrillTypeOK, OwnName, Name
<1> HIDE DEF a
<1>3. Writes(r)
  BY <1>1 DEF Writes
<1>4. ~Temp(r) => name[r] # <<"temp", r>>
  BY DEF OwnName, Temp
<1>5. store'[name[r]] = a /\ store' \in [Name -> Archive \cup {Nothing}]
      /\ (~Temp(r) => store'[<<"temp", r>>] = store[<<"temp", r>>])
  BY <1>1, <1>2, <1>4
<1> QED
  BY <1>3, <1>5 DEF a

LEMMA DumpKeeps ==
  ASSUME DrillInv, NEW r \in Run, Dump(r), UNCHANGED leftovers
  PROVE  DrillInv'
<1>1. /\ pc[r] = "dump" /\ name' = [name EXCEPT ![r] = BackupName(r)]
      /\ UNCHANGED <<dry, cfg, second, cancelled, tries, store, held, target,
                     containers, halfStarted, unremoved>>
  BY DEF Dump, At, settled, leftovers
<1>2. RunInv(r) /\ DrillTypes /\ name[r] = Nothing
  BY <1>1 DEF DrillInv, RunInv, NameInv, Early
<1>3. BackupName(r) \in Name /\ OwnName(r)'
  <2>1. second \in 0..LastSecond /\ cfg[r].place \in {"local", "cloud", "temp"}
    BY DEF DrillInv, DrillTypes, DrillTypeOK, Settings
  <2>2. BackupName(r) \in Name /\ BackupName(r)[1] = cfg[r].place
        /\ (Temp(r) => BackupName(r) = <<"temp", r>>)
    BY <2>1, BackupAssumption DEF BackupName, Name, Fixed, Temp
  <2>3. name'[r] = BackupName(r)
    BY <1>1, <1>2 DEF DrillTypes, DrillTypeOK
  <2> QED
    BY <1>1, <2>2, <2>3 DEF OwnName, Temp
<1>4. CASE Goto(r, "deliver") /\ UNCHANGED scratch
  <2>1. pc'[r] = "deliver" /\ failed' = failed
    BY <1>2, <1>4 DEF DrillTypes, Goto
  <2>2. StepOf(r)
    BY <1>1, <1>2, <1>4 DEF StepOf, Goto, DrillTypes, DrillTypeOK
  <2>3. DrillTypes'
    BY <1>1, <1>2, <1>3, <1>4 DEF DrillTypes, DrillTypeOK, Goto, DrillSteps
  <2>4. KindInv(r)' /\ NameInv(r)'
    BY <1>1, <1>2, <1>3, <2>1 DEF RunInv, KindInv, NameInv, Temp, Early, Late, Ended
  <2>5. StoreInv(r)' /\ HeldInv(r)' /\ TargetInv(r)'
    BY <2>1 DEF StoreInv, HeldInv, TargetInv, Keeps, Late, Ended
  <2>6. LeftInv(r)'
    BY <1>1, <1>4, <2>1, LeftKeeps
  <2> QED
    BY <2>2, <2>3, <2>4, <2>5, <2>6, OneRun DEF RunInv
<1>5. ASSUME NEW partial \in {"sql", "sql.gz"}, Fail(r, Unwind(r)), Leave(r, {partial})
      PROVE  DrillInv'
  <2>1. StepOf(r)
    BY <1>1, <1>2, <1>5 DEF StepOf, Fail, Leave, DrillTypes, DrillTypeOK
  <2>2. DrillTypes'
    BY <1>1, <1>2, <1>3, <1>5 DEF DrillTypes, DrillTypeOK, Fail, Leave, Unwind, DrillSteps, Ended
  <2>3. pc'[r] = Unwind(r) /\ r \in failed'
    BY <1>2, <1>5 DEF Fail, DrillTypes
  <2>4. RunInv(r)'
    BY <1>1, <1>3, <2>3, FailKeeps
  <2> QED
    BY <2>1, <2>2, <2>4, OneRun
<1> QED
  BY <1>4, <1>5 DEF Dump

LEMMA CopyKeeps ==
  ASSUME DrillInv, NEW r \in Run, CreateCopy(r) \/ FinishCopy(r), UNCHANGED leftovers
  PROVE  DrillInv'
<1>1. /\ pc[r] \in {"deliver", "copy"} /\ (pc[r] = "deliver" => ~Cloud(r))
      /\ UNCHANGED <<dry, cfg, second, cancelled, tries, name, held, target, scratch,
                     containers, halfStarted, unremoved>>
  BY DEF CreateCopy, FinishCopy, At, settled, leftovers
<1>2. RunInv(r) /\ DrillTypes /\ OwnName(r) /\ r \notin failed
  BY <1>1 DEF DrillInv, RunInv, NameInv, KindInv, Late, Ended
<1>3. ASSUME ~Cloud(r), NEW whole \in BOOLEAN, NEW step \in {"copy", Delivered(r)},
             Put(r, whole), Goto(r, step), step = Delivered(r) /\ Unshared(r) => whole,
             step = "copy" => pc[r] = "deliver", step = Delivered(r) => pc[r] = "copy"
      PROVE  DrillInv'
  <2> DEFINE a == [by |-> r, whole |-> whole]
  <2>1. Writes(r) /\ store' \in [Name -> Archive \cup {Nothing}] /\ store'[name[r]] = a
        /\ (~Temp(r) => store'[<<"temp", r>>] = store[<<"temp", r>>])
    BY <1>1, <1>2, <1>3, PutWrites
  <2>2. a \in Archive /\ a.by = r /\ (Unshared(r) /\ step = Delivered(r) => a = [by |-> r, whole |-> TRUE])
    BY <1>3 DEF Archive
  <2>3. step \in {"copy", "fetch", "report"} /\ (step = "fetch" => cfg[r].kind # "backup")
        /\ (step = "report" => cfg[r].kind = "backup")
    BY DEF Delivered, IsDrill
  <2> HIDE DEF a
  <2>4. pc'[r] = step /\ failed' = failed
    BY <1>2, <1>3 DEF DrillTypes, Goto
  <2>5. StepOf(r)
    BY <1>1, <1>2, <1>3, <2>1 DEF StepOf, Goto, DrillTypes
  <2>6. DrillTypes'
    BY <1>1, <1>2, <1>3, <2>1, <2>3 DEF DrillTypes, DrillTypeOK, Goto, DrillSteps, Late, Ended
  <2>7. KindInv(r)' /\ NameInv(r)'
    BY <1>1, <1>2, <1>3, <2>3, <2>4 DEF RunInv, KindInv, NameInv, OwnName, Temp, Cloud, Early, Late, Ended
  <2>8. StoreInv(r)'
    <3>1. (Unshared(r)' => Unshared(r)) /\ name'[r] = name[r] /\ (Cloud(r)' <=> Cloud(r))
      BY <1>1 DEF Unshared, Cloud
    <3>2. step # "copy" => step = Delivered(r)
      BY <1>3
    <3>3. step = "copy" => ~Keeps(r)'
      BY <2>4 DEF Keeps, Late, Ended
    <3> QED
      BY <1>3, <2>1, <2>2, <2>4, <3>1, <3>2, <3>3 DEF StoreInv
  <2>9. HeldInv(r)' /\ TargetInv(r)'
    BY <1>1, <1>2, <2>3, <2>4 DEF HeldInv, TargetInv, IsDrill, Ended
  <2>10. LeftInv(r)'
    BY <1>1, <2>1, <2>3, <2>4, LeftKeeps DEF Late
  <2> QED
    BY <2>5, <2>6, <2>7, <2>8, <2>9, <2>10, OneRun DEF RunInv
<1>4. CASE Fail(r, Unwind(r)) /\ UNCHANGED store
  <2>1. StepOf(r)
    BY <1>1, <1>2, <1>4 DEF StepOf, Fail, DrillTypes
  <2>2. DrillTypes'
    BY <1>1, <1>2, <1>4 DEF DrillTypes, DrillTypeOK, Fail, Unwind, DrillSteps, Ended
  <2>3. pc'[r] = Unwind(r) /\ r \in failed' /\ OwnName(r)'
    BY <1>1, <1>2, <1>4 DEF Fail, DrillTypes, OwnName, Temp
  <2>4. RunInv(r)'
    BY <1>1, <1>4, <2>3, FailKeeps
  <2> QED
    BY <2>1, <2>2, <2>4, OneRun
<1>5. CASE CreateCopy(r)
  <2>1. pc[r] = "deliver" /\ Delivered(r) # "copy"
    BY <1>5 DEF CreateCopy, At, Delivered
  <2> QED
    BY <1>3, <1>4, <1>5, <2>1 DEF CreateCopy
<1>6. CASE FinishCopy(r)
  <2>1. pc[r] = "copy" /\ (Unshared(r) => store[name[r]].by = r) /\ Delivered(r) # "copy" /\ ~Cloud(r)
    BY <1>2, <1>6 DEF FinishCopy, At, RunInv, KindInv, StoreInv, Delivered
  <2> QED
    BY <1>3, <1>4, <1>6, <2>1 DEF FinishCopy
<1> QED
  BY <1>5, <1>6

(* A failed transfer: tried again, or the end of the run. *)
LEMMA RetryKeeps ==
  ASSUME DrillInv, NEW r \in Run, NEW partial \in SUBSET {"sql", "sql.gz", "src.sql.gz"},
         Retry(r, partial), pc[r] \in {"deliver", "fetch"}, Cloud(r),
         UNCHANGED <<dry, cfg, second, cancelled, name, held, target, leftovers>>,
         UNCHANGED store \/ (pc[r] = "deliver" /\ Put(r, TRUE))
  PROVE  DrillInv'
<1>1. RunInv(r) /\ DrillTypes /\ OwnName(r) /\ r \notin failed
  BY DEF DrillInv, RunInv, NameInv, KindInv, Late, Ended
<1>2. UNCHANGED <<containers, halfStarted, unremoved>>
  BY DEF leftovers
<1>3. (UNCHANGED store \/ Writes(r)) /\ store' \in [Name -> Archive \cup {Nothing}]
      /\ store'[<<"temp", r>>] = store[<<"temp", r>>]
  <2>1. CASE UNCHANGED store
    BY <1>1, <2>1 DEF DrillTypes, DrillTypeOK
  <2>2. CASE Put(r, TRUE)
    BY <1>1, <2>2, PutWrites DEF Cloud, Temp
  <2> QED
    BY <2>1, <2>2
<1>4. CASE Another(r)
  <2>1. tries' = [tries EXCEPT ![r] = @ + 1] /\ UNCHANGED <<pc, failed, scratch>>
    BY <1>4 DEF Retry
  <2>2. tries[r] \in Nat /\ tries[r] + 1 < Attempts /\ Attempts \in Nat
    BY <1>1, <1>4, BackupAssumption DEF Another, DrillTypes, DrillTypeOK
  <2>3. tries' \in [Run -> 0..(Attempts - 1)]
    BY <1>1, <2>1, <2>2 DEF DrillTypes, DrillTypeOK
  <2>4. DrillTypes'
    BY <1>1, <1>2, <1>3, <2>1, <2>3 DEF DrillTypes, DrillTypeOK
  <2>5. StepOf(r)
    BY <1>1, <1>2, <1>3, <2>1 DEF StepOf
  <2>6. KindInv(r)' /\ NameInv(r)'
    BY <1>1, <2>1 DEF RunInv, KindInv, NameInv, OwnName, Temp, Cloud
  <2>7. HeldInv(r)' /\ TargetInv(r)'
    BY <1>1, <2>1 DEF HeldInv, TargetInv, Ended
  <2>8. StoreInv(r)'
    <3>1. CASE pc[r] = "deliver"
      BY <2>1, <3>1 DEF StoreInv, Keeps, Late, Ended
    <3>2. CASE pc[r] = "fetch"
      <4>1. (Unshared(r)' => Unshared(r)) /\ UNCHANGED store
        BY <3>2 DEF Unshared
      <4> QED
        BY <1>1, <2>1, <4>1 DEF RunInv, StoreInv, Keeps, Cloud, Temp
    <3> QED
      BY <3>1, <3>2
  <2>9. LeftInv(r)'
    BY <1>1, <1>2, <1>3, <2>1 DEF RunInv, LeftInv, Pending, Excused, InUse, Temp
  <2> QED
    BY <2>4, <2>5, <2>6, <2>7, <2>8, <2>9, OneRun DEF RunInv
<1>5. CASE ~Another(r)
  <2>1. tries' = [tries EXCEPT ![r] = 0] /\ Fail(r, Unwind(r)) /\ Leave(r, partial)
    BY <1>5 DEF Retry
  <2>2. StepOf(r)
    BY <1>1, <1>2, <1>3, <2>1 DEF StepOf, Fail, Leave, DrillTypes, DrillTypeOK
  <2>3. 0 \in 0..(Attempts - 1)
    BY BackupAssumption
  <2>4. DrillTypes'
    BY <1>1, <1>2, <1>3, <2>1, <2>3 DEF DrillTypes, DrillTypeOK, Fail, Leave, Unwind, DrillSteps, Ended
  <2>5. pc'[r] = Unwind(r) /\ r \in failed' /\ OwnName(r)'
    BY <1>1, <2>1 DEF Fail, DrillTypes, OwnName, Temp
  <2>6. RunInv(r)'
    BY <1>3, <2>5, FailKeeps DEF Late
  <2> QED
    BY <2>2, <2>4, <2>6, OneRun
<1> QED
  BY <1>4, <1>5

LEMMA UploadKeeps ==
  ASSUME DrillInv, NEW r \in Run, Upload(r), UNCHANGED leftovers
  PROVE  DrillInv'
<1>1. /\ pc[r] = "deliver" /\ Cloud(r)
      /\ UNCHANGED <<dry, cfg, second, cancelled, name, held, target,
                     containers, halfStarted, unremoved>>
  BY DEF Upload, At, settled, leftovers
<1>2. RunInv(r) /\ DrillTypes /\ OwnName(r) /\ r \notin failed
  BY <1>1 DEF DrillInv, RunInv, NameInv, KindInv, Late, Ended
<1>3. CASE Transferred(r, Delivered(r)) /\ UNCHANGED scratch /\ ((dry /\ UNCHANGED store) \/ Put(r, TRUE))
  <2>1. /\ UNCHANGED store \/ Writes(r)
        /\ store' \in [Name -> Archive \cup {Nothing}]
        /\ ~dry => store'[name[r]] = [by |-> r, whole |-> TRUE]
        /\ ~Temp(r) => store'[<<"temp", r>>] = store[<<"temp", r>>]
    <3>1. CASE dry /\ UNCHANGED store
      BY <1>2, <3>1 DEF DrillTypes, DrillTypeOK
    <3>2. CASE Put(r, TRUE)
      BY <1>1, <1>2, <3>2, PutWrites
    <3> QED
      BY <1>3, <3>1, <3>2
  <2>2. pc'[r] \in {"fetch", "report"} /\ (pc'[r] = "fetch" => cfg[r].kind # "backup")
        /\ (pc'[r] = "report" => cfg[r].kind = "backup") /\ failed' = failed
    BY <1>2, <1>3 DEF Transferred, Goto, Delivered, IsDrill, DrillTypes
  <2>3. StepOf(r)
    BY <1>1, <1>2, <1>3, <2>1 DEF StepOf, Transferred, Goto, DrillTypes
  <2>4. DrillTypes'
    <3>1. 0 \in 0..(Attempts - 1)
      BY BackupAssumption
    <3>2. pc' \in [Run -> DrillSteps] /\ tries' \in [Run -> 0..(Attempts - 1)]
      BY <1>2, <1>3, <3>1 DEF DrillTypes, DrillTypeOK, Transferred, Goto, Delivered, DrillSteps, Late, Ended
    <3> QED
      BY <1>1, <1>2, <1>3, <2>1, <2>2, <3>2 DEF DrillTypes, DrillTypeOK
  <2>5. KindInv(r)' /\ NameInv(r)'
    BY <1>1, <1>2, <2>2 DEF RunInv, KindInv, NameInv, OwnName, Temp, Cloud, Early, Late, Ended
  <2>6. StoreInv(r)'
    <3>1. [by |-> r, whole |-> TRUE] \in Archive
      BY DEF Archive
    <3> QED
      BY <1>1, <2>1, <2>2, <3>1 DEF StoreInv, Cloud
  <2>7. HeldInv(r)' /\ TargetInv(r)'
    BY <1>1, <2>2 DEF HeldInv, TargetInv, IsDrill, Ended
  <2>8. LeftInv(r)'
    BY <1>1, <1>3, <2>1, <2>2, LeftKeeps DEF Late
  <2> QED
    BY <2>3, <2>4, <2>5, <2>6, <2>7, <2>8, OneRun DEF RunInv
<1>4. CASE ~dry /\ Retry(r, {}) /\ (Put(r, TRUE) \/ UNCHANGED store)
  BY <1>1, <1>4, RetryKeeps
<1> QED
  BY <1>3, <1>4 DEF Upload

LEMMA FetchKeeps ==
  ASSUME DrillInv, NEW r \in Run, Fetch(r), UNCHANGED leftovers
  PROVE  DrillInv'
<1>1. /\ pc[r] = "fetch"
      /\ UNCHANGED <<dry, cfg, second, cancelled, store, name, target,
                     containers, halfStarted, unremoved>>
  BY DEF Fetch, At, settled, leftovers
<1>2. RunInv(r) /\ DrillTypes /\ OwnName(r) /\ name[r] \in Name /\ r \notin failed
      /\ cfg[r].kind # "backup"
  BY <1>1 DEF DrillInv, RunInv, NameInv, KindInv, OwnName, Late, Ended
<1>3. CASE /\ ~Cloud(r) \/ (r \notin cancelled /\ store[name[r]] # Nothing)
           /\ held' = [held EXCEPT ![r] = store[name[r]]]
           /\ Transferred(r, "gunzip") /\ UNCHANGED scratch
  <2>1. store[name[r]] \in Archive /\ (Unshared(r) /\ ~dry => store[name[r]].by = r)
    BY <1>1, <1>2, <1>3 DEF RunInv, StoreInv, Keeps, DrillTypes, DrillTypeOK, Late
  <2>2. held' \in [Run -> Archive \cup {Nothing}] /\ held'[r] = store[name[r]]
        /\ pc'[r] = "gunzip" /\ failed' = failed
    BY <1>2, <1>3, <2>1 DEF DrillTypes, DrillTypeOK, Transferred, Goto
  <2>3. StepOf(r)
    BY <1>1, <1>2, <1>3 DEF StepOf, Transferred, Goto, DrillTypes, DrillTypeOK
  <2>4. DrillTypes'
    <3>1. 0 \in 0..(Attempts - 1)
      BY BackupAssumption
    <3>2. pc' \in [Run -> DrillSteps] /\ tries' \in [Run -> 0..(Attempts - 1)]
      BY <1>2, <1>3, <3>1 DEF DrillTypes, DrillTypeOK, Transferred, Goto, DrillSteps, Late
    <3> QED
      BY <1>1, <1>2, <1>3, <2>2, <3>2 DEF DrillTypes, DrillTypeOK
  <2>5. KindInv(r)' /\ NameInv(r)'
    BY <1>1, <1>2, <2>2 DEF RunInv, KindInv, NameInv, OwnName, Temp, Cloud, Early, Late, Ended
  <2>6. Unshared(r)' => Unshared(r)
    BY <1>1 DEF Unshared
  <2>7. StoreInv(r)'
    BY <1>1, <1>2, <2>2, <2>6 DEF RunInv, StoreInv, Keeps, Temp, Cloud, Late
  <2>8. HeldInv(r)'
    BY <1>1, <2>1, <2>2, <2>6 DEF HeldInv
  <2>9. TargetInv(r)' /\ LeftInv(r)'
    BY <1>1, <1>3, <2>2, LeftKeeps DEF TargetInv, Late, Ended
  <2> QED
    BY <2>3, <2>4, <2>5, <2>7, <2>8, <2>9, OneRun DEF RunInv
<1>4. CASE Cloud(r) /\ Retry(r, {"src.sql.gz"}) /\ UNCHANGED held
  BY <1>1, <1>4, RetryKeeps
<1> QED
  BY <1>3, <1>4 DEF Fetch

LEMMA GunzipKeeps ==
  ASSUME DrillInv, NEW r \in Run, Gunzip(r), UNCHANGED leftovers
  PROVE  DrillInv'
<1>1. /\ pc[r] = "gunzip"
      /\ UNCHANGED <<dry, cfg, second, cancelled, tries, store, name, target,
                     containers, halfStarted, unremoved>>
  BY DEF Gunzip, At, settled, leftovers
<1>2. RunInv(r) /\ DrillTypes /\ OwnName(r) /\ r \notin failed /\ cfg[r].kind # "backup"
  BY <1>1 DEF DrillInv, RunInv, NameInv, KindInv, Late, Ended
<1>3. CASE Decompresses(r) /\ held' = [held EXCEPT ![r] = Source(r)] /\ Goto(r, "replay") /\ UNCHANGED scratch
  <2>1. Source(r) \in Archive /\ Source(r).whole /\ (Unshared(r) /\ ~dry => Source(r).by = r)
    <3>1. CASE Cloud(r)
      BY <1>1, <1>2, <1>3, <3>1 DEF Decompresses, Source, RunInv, HeldInv
    <3>2. CASE ~Cloud(r)
      BY <1>1, <1>2, <1>3, <3>2 DEF Decompresses, Source, RunInv, StoreInv, Keeps, Late
    <3> QED
      BY <3>1, <3>2
  <2>2. held' \in [Run -> Archive \cup {Nothing}] /\ held'[r] = Source(r)
        /\ pc'[r] = "replay" /\ failed' = failed
    BY <1>2, <1>3, <2>1 DEF DrillTypes, DrillTypeOK, Goto
  <2>3. StepOf(r)
    BY <1>1, <1>2, <1>3 DEF StepOf, Goto, DrillTypes, DrillTypeOK
  <2>4. DrillTypes'
    BY <1>1, <1>2, <1>3, <2>2 DEF DrillTypes, DrillTypeOK, Goto, DrillSteps, Late
  <2>5. KindInv(r)' /\ NameInv(r)'
    BY <1>1, <1>2, <2>2 DEF RunInv, KindInv, NameInv, OwnName, Temp, Cloud, Early, Late, Ended
  <2>6. Unshared(r)' => Unshared(r)
    BY <1>1 DEF Unshared
  <2>7. StoreInv(r)'
    BY <1>1, <1>2, <2>2, <2>6 DEF RunInv, StoreInv, Keeps, Temp, Cloud, Late
  <2>8. HeldInv(r)'
    BY <1>1, <2>1, <2>2, <2>6 DEF HeldInv
  <2>9. TargetInv(r)' /\ LeftInv(r)'
    BY <1>1, <1>3, <2>2, LeftKeeps DEF TargetInv, Late, Ended
  <2> QED
    BY <2>3, <2>4, <2>5, <2>7, <2>8, <2>9, OneRun DEF RunInv
<1>4. CASE Fail(r, Unwind(r)) /\ Leave(r, {"sql"}) /\ UNCHANGED held
  <2>1. StepOf(r)
    BY <1>1, <1>2, <1>4 DEF StepOf, Fail, Leave, DrillTypes, DrillTypeOK
  <2>2. DrillTypes'
    BY <1>1, <1>2, <1>4 DEF DrillTypes, DrillTypeOK, Fail, Leave, Unwind, DrillSteps, Ended
  <2>3. pc'[r] = Unwind(r) /\ r \in failed' /\ OwnName(r)'
    BY <1>1, <1>2, <1>4 DEF Fail, DrillTypes, OwnName, Temp
  <2>4. RunInv(r)'
    BY <1>1, <2>3, FailKeeps DEF Late
  <2> QED
    BY <2>1, <2>2, <2>4, OneRun
<1> QED
  BY <1>3, <1>4 DEF Gunzip

LEMMA ReplayKeeps ==
  ASSUME DrillInv, NEW r \in Run, Replay(r), UNCHANGED leftovers
  PROVE  DrillInv'
<1>1. /\ pc[r] = "replay"
      /\ UNCHANGED <<dry, cfg, second, cancelled, tries, store, name, held, scratch,
                     containers, halfStarted, unremoved>>
  BY DEF Replay, At, settled, leftovers
<1>2. RunInv(r) /\ DrillTypes /\ OwnName(r) /\ r \notin failed /\ cfg[r].kind # "backup"
  BY <1>1 DEF DrillInv, RunInv, NameInv, KindInv, Late, Ended
<1>3. held[r] \in Archive /\ held[r].whole /\ (Unshared(r) /\ ~dry => held[r].by = r)
  BY <1>1, <1>2 DEF RunInv, HeldInv
<1>4. CASE Goto(r, "verify") /\ ((dry /\ UNCHANGED target) \/ target' = [target EXCEPT ![r] = held[r]])
  <2>1. target' \in [Run -> Archive \cup {Nothing}] /\ (~dry => target'[r] = held[r])
        /\ pc'[r] = "verify" /\ failed' = failed
    BY <1>2, <1>3, <1>4 DEF DrillTypes, DrillTypeOK, Goto
  <2>2. StepOf(r)
    BY <1>1, <1>2, <1>4 DEF StepOf, Goto, DrillTypes, DrillTypeOK
  <2>3. DrillTypes'
    BY <1>1, <1>2, <1>4, <2>1 DEF DrillTypes, DrillTypeOK, Goto, DrillSteps, Late
  <2>4. KindInv(r)' /\ NameInv(r)'
    BY <1>1, <1>2, <2>1 DEF RunInv, KindInv, NameInv, OwnName, Temp, Cloud, Early, Late, Ended
  <2>5. Unshared(r)' => Unshared(r)
    BY <1>1 DEF Unshared
  <2>6. StoreInv(r)'
    BY <1>1, <1>2, <2>1, <2>5 DEF RunInv, StoreInv, Keeps, Temp, Cloud, Late
  <2>7. TargetInv(r)'
    BY <1>1, <1>3, <2>1, <2>5 DEF TargetInv
  <2>8. HeldInv(r)' /\ LeftInv(r)'
    BY <1>1, <2>1, LeftKeeps DEF HeldInv, Late
  <2> QED
    BY <2>2, <2>3, <2>4, <2>6, <2>7, <2>8, OneRun DEF RunInv
<1>5. CASE Fail(r, Unwind(r)) /\ target' = [target EXCEPT ![r] = [held[r] EXCEPT !.whole = FALSE]]
  <2>1. [held[r] EXCEPT !.whole = FALSE] \in Archive
    BY <1>3 DEF Archive
  <2>2. StepOf(r)
    BY <1>1, <1>2, <1>5 DEF StepOf, Fail, DrillTypes, DrillTypeOK
  <2>3. DrillTypes'
    BY <1>1, <1>2, <1>5, <2>1 DEF DrillTypes, DrillTypeOK, Fail, Unwind, DrillSteps, Ended
  <2>4. pc'[r] = Unwind(r) /\ r \in failed' /\ OwnName(r)'
    BY <1>1, <1>2, <1>5 DEF Fail, DrillTypes, OwnName, Temp
  <2>5. RunInv(r)'
    BY <1>1, <2>4, FailKeeps DEF Late
  <2> QED
    BY <2>2, <2>3, <2>5, OneRun
<1> QED
  BY <1>4, <1>5 DEF Replay

LEMMA VerifyKeeps ==
  ASSUME DrillInv, NEW r \in Run, VerifyRestore(r), UNCHANGED leftovers
  PROVE  DrillInv'
<1>1. /\ pc[r] = "verify"
      /\ UNCHANGED <<dry, cfg, second, cancelled, tries, store, name, held, target, scratch,
                     containers, halfStarted, unremoved>>
  BY DEF VerifyRestore, At, settled, leftovers
<1>2. RunInv(r) /\ DrillTypes /\ OwnName(r) /\ r \notin failed /\ cfg[r].kind # "backup"
  BY <1>1 DEF DrillInv, RunInv, NameInv, KindInv, Late, Ended
<1>3. StepOf(r) /\ DrillTypes' /\ pc'[r] = Unwind(r)
  BY <1>1, <1>2 DEF VerifyRestore, StepOf, Goto, Fail, Unwind, DrillTypes, DrillTypeOK,
    DrillSteps, Ended
<1>4. CASE Satisfied(r) /\ Goto(r, Unwind(r))
  <2>1. failed' = failed /\ pc'[r] = IF Temp(r) THEN "removeTemp" ELSE "removeTarget"
    BY <1>2, <1>3, <1>4 DEF Goto, Unwind, IsDrill
  <2>2. KindInv(r)' /\ NameInv(r)'
    BY <1>1, <1>2, <2>1 DEF RunInv, KindInv, NameInv, OwnName, Temp, Cloud, Early, Late, Ended
  <2>3. Unshared(r)' => Unshared(r)
    BY <1>1 DEF Unshared
  <2>4. StoreInv(r)'
    BY <1>1, <1>2, <2>1, <2>3 DEF RunInv, StoreInv, Keeps, Temp, Cloud, Late
  <2>5. TargetInv(r)'
    BY <1>1, <1>2, <1>4, <2>1, <2>3 DEF RunInv, TargetInv, Satisfied, IsDrill
  <2>6. HeldInv(r)' /\ LeftInv(r)'
    BY <1>1, <1>3, <2>1, LeftKeeps DEF HeldInv, Late
  <2> QED
    BY <1>3, <2>2, <2>4, <2>5, <2>6, OneRun DEF RunInv
<1>5. CASE Fail(r, Unwind(r))
  <2>1. pc'[r] = Unwind(r) /\ r \in failed' /\ OwnName(r)'
    BY <1>1, <1>2, <1>5 DEF Fail, DrillTypes, OwnName, Temp
  <2>2. RunInv(r)'
    BY <1>1, <2>1, FailKeeps DEF Late
  <2> QED
    BY <1>3, <2>2, OneRun
<1> QED
  BY <1>4, <1>5 DEF VerifyRestore

(* A step outside dbbackup, which leaves the data alone. *)
LEMMA OuterKeeps ==
  ASSUME DrillInv, NEW r \in Run, NEW step \in Early \cup Ended \cup {"dead"},
         UNCHANGED kept, Goto(r, step) \/ Fail(r, step),
         step \in Early => pc[r] \in Early,
         step \in Ended /\ r \notin failed' => pc[r] \in Ended,
         r \in failed' => step \in Ended \cup {"dead"},
         cfg[r].kind = "backup" => step \in {"report", "done", "dead"},
         cfg[r].kind = "drill" => step \notin {"runSource", "waitSource", "seed", "removeSource"},
         step # "removeTemp" /\ (step = "makeTemp" => Temp(r)), InUse(r) => step = "dead",
         containers' \subseteq Run \X Role, halfStarted' \subseteq Run \X Role,
         unremoved' \subseteq Run \X (Role \cup {"temp"}),
         halfStarted \subseteq halfStarted', unremoved \subseteq unremoved',
         \A q \in Run \ {r}, c \in Role : <<q, c>> \in containers' => <<q, c>> \in containers,
         \A c \in Role : <<r, c>> \in containers' => Excused(r, c)' \/ Pending(r, c)'
  PROVE  DrillInv'
<1>1. RunInv(r) /\ DrillTypes
  BY DEF DrillInv
<1>2. UNCHANGED <<dry, cfg, second, cancelled, tries, store, name, held, target, scratch>>
  BY DEF kept, settled
<1>3. /\ pc' = [pc EXCEPT ![r] = step] /\ (failed' = failed \/ failed' = failed \cup {r})
      /\ pc'[r] = step
  BY <1>1 DEF Goto, Fail, DrillTypes
<1>4. step \in DrillSteps \ Late /\ step \notin {"deliver", "copy"}
  BY DEF DrillSteps, Early, Late, Ended
<1>5. DrillTypes'
  BY <1>1, <1>2, <1>3, <1>4 DEF DrillTypes, DrillTypeOK
<1>6. StepOf(r)
  BY <1>1, <1>2, <1>3 DEF StepOf, DrillTypes
<1>7. r \notin failed' => r \notin failed
  BY <1>3
<1>8. KindInv(r)' /\ NameInv(r)'
  BY <1>1, <1>2, <1>3, <1>4, <1>7 DEF RunInv, KindInv, NameInv, OwnName, Temp, Cloud, Early, Late, Ended
<1>9. Unshared(r)' => Unshared(r)
  BY <1>2 DEF Unshared
<1>10. StoreInv(r)'
  <2>1. Keeps(r)' => Keeps(r)
    BY <1>2, <1>3, <1>4, <1>7 DEF Keeps, Temp
  <2> QED
    BY <1>1, <1>2, <1>3, <1>4, <1>9, <2>1 DEF RunInv, StoreInv, Cloud
<1>11. HeldInv(r)'
  BY <1>3, <1>4 DEF HeldInv, Late
<1>12. TargetInv(r)'
  BY <1>1, <1>2, <1>3, <1>4, <1>7, <1>9 DEF RunInv, TargetInv, IsDrill, Late, Ended
<1>13. LeftInv(r)'
  <2>1. store'[<<"temp", r>>] # Nothing => Temp(r)' /\ (InUse(r)' \/ <<r, "temp">> \in unremoved')
    BY <1>1, <1>2, <1>3 DEF RunInv, LeftInv, InUse, Temp
  <2> QED
    BY <1>1, <1>2, <1>7, <2>1 DEF RunInv, LeftInv
<1> QED
  BY <1>5, <1>6, <1>8, <1>10, <1>11, <1>12, <1>13, OneRun DEF RunInv

LEMMA StartKeeps ==
  ASSUME DrillInv, NEW r \in Run, NEW c \in Role, StartContainer(r, c)
  PROVE  DrillInv'
<1>1. DrillTypes /\ KindInv(r) /\ LeftInv(r) /\ containers \subseteq Run \X Role
      /\ halfStarted \subseteq Run \X Role /\ unremoved \subseteq Run \X (Role \cup {"temp"})
  BY DEF DrillInv, DrillTypes, DrillTypeOK, RunInv
<1>2. UNCHANGED kept /\ UNCHANGED <<cfg, unremoved>> /\ pc[r] = Runs(c)
  BY DEF StartContainer, At, kept, settled
<1>3. c = "source" \/ c = "target"
  BY DEF Role
<1>4. cfg[r].kind # "backup" /\ (c = "source" => cfg[r].kind = "seeded") /\ r \notin failed
      /\ pc[r] \in Early /\ ~InUse(r)
  <2>1. cfg[r].kind \in {"drill", "seeded", "backup"}
    BY <1>1 DEF DrillTypes, DrillTypeOK, Settings
  <2> QED
    BY <1>1, <1>2, <1>3, <2>1 DEF KindInv, Runs, Ended, Early, InUse, Late
<1>5. CASE Goto(r, Waits(c)) /\ containers' = containers \cup {<<r, c>>} /\ UNCHANGED halfStarted
  <2>1. pc'[r] = Waits(c) /\ failed' = failed
    BY <1>1, <1>5 DEF Goto, DrillTypes
  <2>2. \A k \in Role : <<r, k>> \in containers' => Excused(r, k)' \/ Pending(r, k)'
    BY <1>1, <1>2, <1>3, <1>4, <1>5, <2>1 DEF LeftInv, Excused, Pending, Runs, Waits, Late
  <2>3. PICK step \in Early : step = Waits(c) /\ step \in {"waitSource", "waitTarget"}
          /\ (step = "waitSource" => c = "source")
    BY <1>3 DEF Waits, Early
  <2>4. step \notin Ended /\ step \notin {"removeTemp", "makeTemp", "runSource", "seed", "removeSource"}
    BY <2>3 DEF Ended
  <2>5. containers' \subseteq Run \X Role
        /\ \A q \in Run \ {r}, k \in Role : <<q, k>> \in containers' => <<q, k>> \in containers
    BY <1>1, <1>5
  <2> QED
    BY <1>1, <1>2, <1>4, <1>5, <2>1, <2>2, <2>3, <2>4, <2>5, OuterKeeps
<1>6. CASE /\ Fail(r, Outer(r, c))
           /\ \/ UNCHANGED <<containers, halfStarted>>
              \/ /\ containers' = containers \cup {<<r, c>>}
                 /\ halfStarted' = halfStarted \cup {<<r, c>>}
  <2>1. pc'[r] = Outer(r, c) /\ r \in failed'
    BY <1>1, <1>6 DEF Fail, DrillTypes
  <2>2. \A k \in Role : <<r, k>> \in containers' => Excused(r, k)' \/ Pending(r, k)'
    BY <1>1, <1>2, <1>3, <1>4, <1>6, <2>1 DEF LeftInv, Excused, Pending, Outer, Runs, Late, Role
  <2>3. PICK step \in Ended : step = Outer(r, c) /\ step \in {"removeSource", "report"}
          /\ (step = "removeSource" => cfg[r].kind = "seeded")
    BY DEF Outer, Ended
  <2>4. step \notin Early /\ step \notin {"removeTemp", "makeTemp", "runSource", "waitSource", "seed"}
    BY <2>3 DEF Early
  <2>5. containers' \subseteq Run \X Role /\ halfStarted' \subseteq Run \X Role
        /\ halfStarted \subseteq halfStarted'
        /\ \A q \in Run \ {r}, k \in Role : <<q, k>> \in containers' => <<q, k>> \in containers
    BY <1>1, <1>6
  <2> QED
    BY <1>1, <1>2, <1>4, <1>6, <2>1, <2>2, <2>3, <2>4, <2>5, OuterKeeps
<1> QED
  BY <1>5, <1>6 DEF StartContainer

LEMMA WaitKeeps ==
  ASSUME DrillInv, NEW r \in Run, NEW c \in Role, WaitReady(r, c)
  PROVE  DrillInv'
<1>1. DrillTypes /\ KindInv(r) /\ LeftInv(r) /\ containers \subseteq Run \X Role
      /\ halfStarted \subseteq Run \X Role /\ unremoved \subseteq Run \X (Role \cup {"temp"})
  BY DEF DrillInv, DrillTypes, DrillTypeOK, RunInv
<1>2. UNCHANGED kept /\ UNCHANGED <<cfg, containers, halfStarted, unremoved>> /\ pc[r] = Waits(c)
  BY DEF WaitReady, At, kept, settled, leftovers
<1>3. c = "source" \/ c = "target"
  BY DEF Role
<1>4. cfg[r].kind # "backup" /\ (c = "source" => cfg[r].kind = "seeded") /\ r \notin failed
      /\ pc[r] \in Early /\ ~InUse(r)
  <2>1. cfg[r].kind \in {"drill", "seeded", "backup"}
    BY <1>1 DEF DrillTypes, DrillTypeOK, Settings
  <2> QED
    BY <1>1, <1>2, <1>3, <2>1 DEF KindInv, Waits, Ended, Early, InUse, Late
<1>5. PICK step \in {Body(r, c), Removes(c)} :
        /\ step = Removes(c) => Fail(r, step)
        /\ step # Removes(c) => Goto(r, step)
  <2>1. Body(r, c) # Removes(c)
    BY <1>3 DEF Body, Removes
  <2> QED
    BY <2>1 DEF WaitReady
<1>6. /\ pc'[r] = step
      /\ step \in {"seed", "makeTemp", "dump", "removeSource", "removeTarget"}
      /\ step \in {"seed", "removeSource"} => c = "source"
      /\ step \in {"makeTemp", "dump", "removeTarget"} => c = "target"
      /\ step = "makeTemp" => Temp(r)
      /\ r \in failed' <=> step \in {"removeSource", "removeTarget"}
  BY <1>1, <1>3, <1>4, <1>5 DEF Body, Removes, Goto, Fail, DrillTypes
<1>7. \A k \in Role : <<r, k>> \in containers' => Excused(r, k)' \/ Pending(r, k)'
  BY <1>1, <1>2, <1>3, <1>4, <1>6 DEF LeftInv, Excused, Pending, Waits, Late, Role
<1>8. step \in Early \cup Ended /\ (step \in Ended <=> step \in {"removeSource", "removeTarget"})
  BY <1>6 DEF Early, Ended
<1> QED
  BY <1>1, <1>2, <1>4, <1>5, <1>6, <1>7, <1>8, OuterKeeps

LEMMA RemoveKeeps ==
  ASSUME DrillInv, NEW r \in Run, NEW c \in Role, RemoveContainer(r, c)
  PROVE  DrillInv'
<1>1. DrillTypes /\ KindInv(r) /\ LeftInv(r) /\ containers \subseteq Run \X Role
      /\ halfStarted \subseteq Run \X Role /\ unremoved \subseteq Run \X (Role \cup {"temp"})
  BY DEF DrillInv, DrillTypes, DrillTypeOK, RunInv
<1>2. /\ UNCHANGED kept /\ UNCHANGED <<cfg, halfStarted>>
      /\ pc[r] = Removes(c) /\ Goto(r, Outer(r, c)) /\ unremoved \subseteq unremoved'
      /\ containers' \subseteq containers /\ unremoved' \subseteq unremoved \cup {<<r, c>>}
      /\ <<r, c>> \notin containers' \/ <<r, c>> \in unremoved'
  BY DEF RemoveContainer, At, CanRemove, kept, settled
<1>3. c = "source" \/ c = "target"
  BY DEF Role
<1>4. cfg[r].kind # "backup" /\ (c = "source" => cfg[r].kind = "seeded") /\ pc[r] \in Ended /\ ~InUse(r)
  <2>1. cfg[r].kind \in {"drill", "seeded", "backup"}
    BY <1>1 DEF DrillTypes, DrillTypeOK, Settings
  <2> QED
    BY <1>1, <1>2, <1>3, <2>1 DEF KindInv, Removes, Ended, InUse, Late
<1>5. failed' = failed /\ pc'[r] = Outer(r, c)
  BY <1>1, <1>2 DEF Goto, DrillTypes
<1>6. \A k \in Role : <<r, k>> \in containers' => Excused(r, k)' \/ Pending(r, k)'
  BY <1>1, <1>2, <1>3, <1>4, <1>5 DEF LeftInv, Excused, Pending, Outer, Removes, Late, Role
<1>7. PICK step \in Ended : step = Outer(r, c) /\ step \in {"removeSource", "report"}
        /\ (step = "removeSource" => cfg[r].kind = "seeded")
  BY DEF Outer, Ended
<1>8. step \notin Early /\ step \notin {"removeTemp", "makeTemp", "runSource", "waitSource", "seed"}
  BY <1>7 DEF Early
<1>9. containers' \subseteq Run \X Role /\ unremoved' \subseteq Run \X (Role \cup {"temp"})
      /\ \A q \in Run \ {r}, k \in Role : <<q, k>> \in containers' => <<q, k>> \in containers
  BY <1>1, <1>2
<1> QED
  BY <1>1, <1>2, <1>4, <1>5, <1>6, <1>7, <1>8, <1>9, OuterKeeps

LEMMA SeedKeeps ==
  ASSUME DrillInv, NEW r \in Run, SeedSource(r) \/ MakeTemp(r) \/ Report(r) \/ Die(r)
  PROVE  DrillInv'
<1>1. DrillTypes /\ KindInv(r) /\ LeftInv(r) /\ containers \subseteq Run \X Role
      /\ halfStarted \subseteq Run \X Role /\ unremoved \subseteq Run \X (Role \cup {"temp"})
      /\ cfg[r].kind \in {"drill", "seeded", "backup"}
  BY DEF DrillInv, DrillTypes, DrillTypeOK, RunInv, Settings
<1>2. UNCHANGED kept /\ UNCHANGED <<cfg, containers, halfStarted, unremoved>>
  BY DEF SeedSource, MakeTemp, Report, Die, kept, settled, leftovers
<1>3. PICK step \in {"runTarget", "removeSource", "dump", "removeTarget", "done", "dead"} :
        /\ \/ Goto(r, step) /\ failed' = failed
           \/ step \in {"removeSource", "removeTarget"} /\ Fail(r, step)
        /\ step \in {"runTarget", "removeSource"} => pc[r] = "seed"
        /\ step \in {"dump", "removeTarget"} => pc[r] = "makeTemp"
        /\ step = "done" => pc[r] = "report"
        /\ step \in {"removeSource", "removeTarget"} => r \in failed'
  BY DEF SeedSource, MakeTemp, Report, Die, Goto, Fail, At
<1>4. pc'[r] = step
  BY <1>1, <1>3 DEF Goto, Fail, DrillTypes
<1>5. \A k \in Role : <<r, k>> \in containers' => Excused(r, k)' \/ Pending(r, k)'
  BY <1>1, <1>2, <1>3, <1>4 DEF LeftInv, Excused, Pending, Late, KindInv
<1>6. /\ step \in Early \cup Ended \cup {"dead"}
      /\ step \in Early => pc[r] \in Early
      /\ step \in Ended /\ r \notin failed' => pc[r] \in Ended
      /\ r \in failed' => step \in Ended \cup {"dead"}
  BY <1>1, <1>3 DEF Early, Ended, KindInv
<1>7. /\ cfg[r].kind = "backup" => step \in {"report", "done", "dead"}
      /\ cfg[r].kind = "drill" => step \notin {"runSource", "waitSource", "seed", "removeSource"}
      /\ InUse(r) => step = "dead"
  BY <1>1, <1>3 DEF KindInv, InUse, Late
<1> QED
  BY <1>1, <1>2, <1>3, <1>5, <1>6, <1>7, OuterKeeps

LEMMA RemoveTempKeeps ==
  ASSUME DrillInv, NEW r \in Run, RemoveTemp(r)
  PROVE  DrillInv'
<1>1. RunInv(r) /\ DrillTypes /\ OwnName(r) /\ Temp(r) /\ pc[r] = "removeTemp"
  BY DEF DrillInv, RunInv, KindInv, NameInv, RemoveTemp, At
<1>2. /\ UNCHANGED <<dry, cfg, second, cancelled, tries, name, held, target, scratch, containers,
                     halfStarted, failed>>
      /\ pc' = [pc EXCEPT ![r] = "removeTarget"] /\ pc'[r] = "removeTarget"
  BY <1>1 DEF RemoveTemp, Goto, settled, DrillTypes
<1>3. name[r] = <<"temp", r>> /\ <<"temp", r>> \in Name /\ ~Cloud(r)
  BY <1>1 DEF OwnName, Temp, Cloud
<1>4. \/ UNCHANGED store /\ unremoved' = unremoved \cup {<<r, "temp">>}
      \/ store' = [store EXCEPT ![name[r]] = Nothing] /\ UNCHANGED unremoved
  BY <1>3 DEF RemoveTemp
<1>5. UNCHANGED store \/ Writes(r)
  BY <1>1, <1>2, <1>3, <1>4 DEF Writes
<1>6. StepOf(r)
  BY <1>1, <1>2, <1>4, <1>5 DEF StepOf, DrillTypes
<1>7. DrillTypes'
  BY <1>1, <1>2, <1>4 DEF DrillTypes, DrillTypeOK, DrillSteps, Ended
<1>8. KindInv(r)' /\ NameInv(r)'
  BY <1>1, <1>2 DEF RunInv, KindInv, NameInv, OwnName, Temp, Cloud, Early, Late, Ended
<1>9. StoreInv(r)' /\ HeldInv(r)'
  BY <1>1, <1>2 DEF StoreInv, HeldInv, Keeps, Temp, Late, Ended
<1>10. TargetInv(r)'
  <2>1. Unshared(r)' => Unshared(r)
    BY <1>2 DEF Unshared
  <2> QED
    BY <1>1, <1>2, <2>1 DEF RunInv, TargetInv, IsDrill, Ended
<1>11. LeftInv(r)'
  <2>1. store'[<<"temp", r>>] # Nothing => <<r, "temp">> \in unremoved'
    BY <1>1, <1>3, <1>4 DEF DrillTypes, DrillTypeOK
  <2>2. unremoved \subseteq unremoved'
    BY <1>4
  <2>3. cfg[r].kind \in {"drill", "seeded"}
    BY <1>1 DEF DrillTypes, DrillTypeOK, Settings, RunInv, KindInv
  <2>4. \A c \in Role : <<r, c>> \in containers' => Excused(r, c)' \/ Pending(r, c)'
    BY <1>1, <1>2, <2>2, <2>3 DEF RunInv, KindInv, LeftInv, Excused, Pending, Late
  <2> QED
    BY <1>1, <1>2, <2>1, <2>4 DEF RunInv, LeftInv, Temp
<1> QED
  BY <1>6, <1>7, <1>8, <1>9, <1>10, <1>11, OneRun DEF RunInv

LEMMA DrillInvStep ==
  ASSUME DrillInv, [DrillNext]_drillVars
  PROVE  DrillInv'
<1>1. CASE Tick \/ UNCHANGED drillVars \/ \E r \in Run : Cancel(r)
  <2>1. /\ UNCHANGED <<dry, cfg, pc, failed, tries, store, name, held, target, scratch, containers,
                       halfStarted, unremoved>>
        /\ second' \in 0..LastSecond /\ cancelled' \subseteq Run
    BY <1>1, BackupAssumption
    DEF Tick, drillVars, backupVars, leftovers, Cancel, DrillInv, DrillTypes, DrillTypeOK
  <2>2. DrillTypes'
    BY <2>1 DEF DrillInv, DrillTypes, DrillTypeOK
  <2>3. ASSUME NEW r \in Run
        PROVE  RunInv(r)'
    <3>1. RunInv(r) /\ (Unshared(r)' <=> Unshared(r)) /\ (Cloud(r)' <=> Cloud(r)) /\ (Temp(r)' <=> Temp(r))
          /\ (OwnName(r)' <=> OwnName(r)) /\ (Keeps(r)' <=> Keeps(r))
      BY <2>1 DEF DrillInv, Unshared, Cloud, Temp, OwnName, Keeps
    <3>2. KindInv(r)' /\ NameInv(r)' /\ LeftInv(r)'
      BY <2>1, <3>1 DEF RunInv, KindInv, NameInv, LeftInv, Pending, Excused, InUse
    <3>3. StoreInv(r)' /\ HeldInv(r)'
      BY <2>1, <3>1 DEF RunInv, StoreInv, HeldInv
    <3>4. TargetInv(r)'
      BY <2>1, <3>1 DEF RunInv, TargetInv, IsDrill
    <3> QED
      BY <3>2, <3>3, <3>4 DEF RunInv
  <2> QED
    BY <2>2, <2>3 DEF DrillInv
<1>2. ASSUME NEW r \in Run, DbNext(r), UNCHANGED leftovers
      PROVE  DrillInv'
  BY <1>2, DumpKeeps, CopyKeeps, UploadKeeps, FetchKeeps, GunzipKeeps, ReplayKeeps, VerifyKeeps DEF DbNext
<1> QED
  BY <1>1, <1>2, StartKeeps, WaitKeeps, RemoveKeeps, SeedKeeps, RemoveTempKeeps DEF DrillNext, DrillStep

LEMMA DrillInvInitially ==
  ASSUME NEW settings, settings \subseteq [Run -> Settings], DrillInit(settings)
  PROVE  DrillInv
<1>1. cfg \in [Run -> Settings]
  BY DEF DrillInit
<1>2. \A r \in Run : /\ cfg[r].kind \in {"drill", "seeded", "backup"}
                     /\ cfg[r].kind = "backup" => pc[r] = "dump" /\ ~Temp(r)
                     /\ cfg[r].kind = "drill" => pc[r] = "runTarget"
                     /\ cfg[r].kind = "seeded" => pc[r] = "runSource"
  BY <1>1 DEF DrillInit, Starting, Settings, Temp
<1>3. pc \in [Run -> DrillSteps]
  BY <1>2 DEF DrillInit, DrillSteps, Early
<1>4. DrillTypes
  BY <1>1, <1>3, BackupAssumption DEF DrillInit, DrillTypes, DrillTypeOK
<1>5. ASSUME NEW r \in Run
      PROVE  RunInv(r)
  <2>1. name[r] = Nothing /\ failed = {} /\ containers = {} /\ scratch[r] = {}
        /\ pc[r] \in {"dump", "runTarget", "runSource"} /\ store = [n \in Name |-> Nothing]
    BY <1>2 DEF DrillInit
  <2>2. KindInv(r) /\ NameInv(r)
    BY <1>2, <2>1 DEF KindInv, NameInv, Late, Ended
  <2>3. StoreInv(r) /\ HeldInv(r) /\ TargetInv(r)
    BY <2>1 DEF StoreInv, HeldInv, TargetInv, Keeps, Late, Ended
  <2>4. <<"temp", r>> \in Name
    BY DEF Name
  <2>5. LeftInv(r)
    BY <2>1, <2>4 DEF LeftInv
  <2> QED
    BY <2>2, <2>3, <2>5 DEF RunInv
<1> QED
  BY <1>4, <1>5 DEF DrillInv

LEMMA DrillAlways ==
  ASSUME NEW settings, settings \subseteq [Run -> Settings]
  PROVE  DrillSpec(settings) => []DrillInv
<1>1. DrillInit(settings) => DrillInv
  BY DrillInvInitially
<1>2. DrillInv /\ [DrillNext]_drillVars => DrillInv'
  BY DrillInvStep
<1> QED
  BY <1>1, <1>2, PTL DEF DrillSpec

(* Whatever the pipelines are set to, the drill's state has its types. *)
THEOREM DrillTypeCorrect ==
  ASSUME NEW settings, settings \subseteq [Run -> Settings]
  PROVE  DrillSpec(settings) => []DrillTypeOK
<1>1. DrillInv => DrillTypeOK
  BY DEF DrillInv, DrillTypes
<1> QED
  BY <1>1, DrillAlways, PTL

(* A drill that passes has restored a whole dump, its own unless it shared *)
(* the name, with enough rows where it counts them: with any number of     *)
(* runs and any number of attempts of a transfer, cancelled or interrupted *)
(* anywhere.                                                               *)
THEOREM PassedIsRestored ==
  ASSUME NEW settings, settings \subseteq [Run -> Settings]
  PROVE  DrillSpec(settings) => []PassMeansRestored
<1>1. DrillInv => PassMeansRestored
  BY BackupAssumption DEF DrillInv, RunInv, TargetInv, PassMeansRestored, Passed, At, Ended
<1> QED
  BY <1>1, DrillAlways, PTL

(* The backup a run reported stays whole under its name while no other run *)
(* delivers under it, and in an object store something whole stays there   *)
(* whoever does: with any number of runs, places and attempts.             *)
THEOREM BackupStays ==
  ASSUME NEW settings, settings \subseteq [Run -> Settings]
  PROVE  DrillSpec(settings) => []ReportedBackupStays
<1>1. DrillInv => ReportedBackupStays
  <2> SUFFICES ASSUME DrillInv, NEW r \in Run, Dumped(r), ~Temp(r), dry => ~Cloud(r)
               PROVE  /\ Unshared(r) => store[name[r]] = [by |-> r, whole |-> TRUE]
                      /\ Cloud(r) => store[name[r]] # Nothing /\ store[name[r]].whole
    BY DEF ReportedBackupStays
  <2>1. Keeps(r)
    BY DEF DrillInv, RunInv, KindInv, Keeps, Dumped, Passed, At, Late, Ended
  <2>2. StoreInv(r)
    BY DEF DrillInv, RunInv
  <2> QED
    BY <2>1, <2>2, BackupAssumption DEF StoreInv
<1> QED
  BY <1>1, DrillAlways, PTL

(* However a run ends, every container it leaves is one that docker failed *)
(* on, the directory it made for its archive is gone unless its removal    *)
(* failed, and success leaves no file.                                     *)
THEOREM NothingStays ==
  ASSUME NEW settings, settings \subseteq [Run -> Settings]
  PROVE  DrillSpec(settings) => []NothingLeftBehind
<1>1. DrillInv => NothingLeftBehind
  BY DEF DrillInv, RunInv, LeftInv, Pending, Excused, InUse, NothingLeftBehind, At, Late
<1> QED
  BY <1>1, DrillAlways, PTL
===============================================================================

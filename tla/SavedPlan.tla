------------------------------- MODULE SavedPlan -------------------------------
(***************************************************************************)
(* terraform.Plan and terraform.Apply as terraform-apply-gated runs them:  *)
(* a plan is saved, a person approves it after seeing its summary, and the *)
(* saved file is applied. Runs may share a directory, and so the file.     *)
(***************************************************************************)
EXTENDS Naturals

CONSTANTS
  Planner,    \* the runs
  LastSerial, \* bound on the changes of the terraform state
  NoPlan

ASSUME PlanAssumption == LastSerial \in Nat

VARIABLES
  where,      \* directory each run works in
  echo,       \* SPARKWING_DRY_RUN
  serial,     \* version of the terraform state
  planFile,   \* saved plan of each directory
  tpc,        \* next step of each run
  shown,      \* plan whose summary each run's approver has seen
  applied     \* plan each run has applied

planVars == <<where, echo, serial, planFile, tpc, shown, applied>>

(* A plan is a run's intent against one version of the state. *)
SavedPlans == [by: Planner, on: 0..LastSerial]

PlanInit(places) ==
  /\ where \in places
  /\ echo \in BOOLEAN
  /\ serial = 0
  /\ planFile = [w \in UNION {{where[r]} : r \in Planner} |-> NoPlan]
  /\ tpc = [r \in Planner |-> "init"]
  /\ shown = [r \in Planner |-> NoPlan]
  /\ applied = [r \in Planner |-> NoPlan]

TerraformAt(r, step) == tpc[r] = step
Proceed(r, step) == tpc' = [tpc EXCEPT ![r] = step]

(* Plan begins with init and workspace select, Apply with the latter. Each *)
(* may fail, and ends the run.                                             *)
Prepare(r) ==
  /\ \/ TerraformAt(r, "init") /\ Proceed(r, "plan")
     \/ TerraformAt(r, "select") /\ Proceed(r, "apply")
     \/ tpc[r] \in {"init", "select"} /\ Proceed(r, "failed")
  /\ UNCHANGED <<where, echo, serial, planFile, shown, applied>>

(* terraform plan -out, also when dry: the summary is that of the file. A  *)
(* plan that fails writes none.                                            *)
WritePlan(r) ==
  /\ TerraformAt(r, "plan")
  /\ \/ LET plan == [by |-> r, on |-> serial] IN
        /\ planFile' = [planFile EXCEPT ![where[r]] = plan]
        /\ shown' = [shown EXCEPT ![r] = plan]
        /\ Proceed(r, "approve")
     \/ Proceed(r, "failed") /\ UNCHANGED <<planFile, shown>>
  /\ UNCHANGED <<where, echo, serial, applied>>

(* Without an answer in time the approval is denied. *)
Approval(r) ==
  /\ TerraformAt(r, "approve")
  /\ \/ Proceed(r, IF echo THEN "done" ELSE "select")
     \/ Proceed(r, "failed")
  /\ UNCHANGED <<where, echo, serial, planFile, shown, applied>>

(* Broken variant: what is applied is planned anew. *)
FreshPlan(r) == [by |-> r, on |-> serial]

PlanToApply(r) == planFile[where[r]]

(* terraform refuses a plan made on another version of the state. A failed *)
(* apply has changed the state or not.                                     *)
ApplyPlan(r) ==
  /\ TerraformAt(r, "apply")
  /\ \/ /\ PlanToApply(r).on = serial /\ serial < LastSerial
        /\ serial' = serial + 1
        /\ applied' = [applied EXCEPT ![r] = PlanToApply(r)]
        /\ \E end \in {"done", "failed"} : Proceed(r, end)
     \/ Proceed(r, "failed") /\ UNCHANGED <<serial, applied>>
  /\ UNCHANGED <<where, echo, planFile, shown>>

(* Somebody else applies to the same state. *)
Drift ==
  /\ serial < LastSerial /\ serial' = serial + 1
  /\ UNCHANGED <<where, echo, planFile, tpc, shown, applied>>

PlanNext ==
  \/ \E r \in Planner : Prepare(r) \/ WritePlan(r) \/ Approval(r) \/ ApplyPlan(r)
  \/ Drift

PlanSpec(places) == PlanInit(places) /\ [][PlanNext]_planVars

-------------------------------------------------------------------------------
PlanTypeOK ==
  /\ serial \in 0..LastSerial
  /\ tpc \in [Planner -> {"init", "plan", "approve", "select", "apply", "done", "failed"}]
  /\ \A w \in DOMAIN planFile : planFile[w] \in SavedPlans \cup {NoPlan}
  /\ shown \in [Planner -> SavedPlans \cup {NoPlan}]
  /\ applied \in [Planner -> SavedPlans \cup {NoPlan}]

(* No other run works in the directory of this one. *)
OwnDirectory(r) == \A q \in Planner \ {r} : where[q] # where[r]

(* A run with a directory of its own applies the plan its approver was     *)
(* shown, however long the approval took and whatever became of the state. *)
AppliedWasApproved ==
  \A r \in Planner : OwnDirectory(r) /\ applied[r] # NoPlan => applied[r] = shown[r]

(* The package comment of terraform promises the same of every run that    *)
(* succeeds: what ran is exactly the plan that was approved.               *)
AppliedExactlyThePlanShown ==
  \A r \in Planner :
    TerraformAt(r, "done") /\ applied[r] # NoPlan => applied[r] = shown[r]
===============================================================================

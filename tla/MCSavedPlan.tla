----------------------------- MODULE MCSavedPlan -----------------------------
(* Small instances of SavedPlan: two runs, in one directory or in two.      *)
EXTENDS SavedPlan, TLC

CONSTANTS a1, a2

Places == {a1 :> "infra" @@ a2 :> "infra", a1 :> "infra" @@ a2 :> "other"}

Planning == PlanInit(Places) /\ [][PlanNext]_planVars
==============================================================================

----------------------------- MODULE MCOperations -----------------------------
(* What pipelines do outside the gitops repository: cloud services, what     *)
(* production and its data are brought back with, and what is published.     *)
(* They share nothing, so a behaviour is about one of them, the scenario,    *)
(* and the others stay where they begin.                                     *)
EXTENDS MCCloud, MCBackupDrill, MCKubeDeploy, MCSavedPlan, MCPublication

VARIABLE scenario

Scenario == {"cloud", "drill", "kubectl", "terraform", "images", "site", "tags", "assets", "cache"}

allVars == <<scenario, vars, drillVars, kubeVars, planVars,
             imageVars, siteVars, tagVars, assetVars, keyVars>>

When(s, all) == IF scenario = s THEN all ELSE {CHOOSE one \in all : TRUE}

OperationsInit ==
  /\ scenario \in Scenario
  /\ CloudInit /\ (kind = Nobody <=> scenario # "cloud")
  /\ DrillInit(When("drill", Drills)) /\ (scenario # "drill" => ~dry)
  /\ KubeInit(When("kubectl", Pipelines), Past) /\ (scenario # "kubectl" => ~ill)
  /\ PlanInit(When("terraform", Places)) /\ (scenario # "terraform" => ~echo)
  /\ ImageInit(When("images", Orders))
  /\ SiteInit(When("site", Sites), Old)
  /\ TagInit /\ (scenario # "tags" => preview = {})
  /\ AssetInit(IF scenario = "assets" THEN {{}, {r1}} ELSE {{}})
  /\ KeyInit(When("cache", Nodes), Files, {"app", "lib", "ext"})

(* What is not of the scenario stays. *)
Others(s) ==
  /\ IF s = "cloud" THEN TRUE ELSE UNCHANGED vars
  /\ IF s = "drill" THEN TRUE ELSE UNCHANGED drillVars
  /\ IF s = "kubectl" THEN TRUE ELSE UNCHANGED kubeVars
  /\ IF s = "terraform" THEN TRUE ELSE UNCHANGED planVars
  /\ IF s = "images" THEN TRUE ELSE UNCHANGED imageVars
  /\ IF s = "site" THEN TRUE ELSE UNCHANGED siteVars
  /\ IF s = "tags" THEN TRUE ELSE UNCHANGED tagVars
  /\ IF s = "assets" THEN TRUE ELSE UNCHANGED assetVars
  /\ IF s = "cache" THEN TRUE ELSE UNCHANGED keyVars

(* All but the cloud pipelines, which say themselves when they have ended,   *)
(* may stop anywhere.                                                        *)
OperationsNext ==
  /\ UNCHANGED scenario
  /\ \/ scenario = "cloud" /\ Next /\ Others("cloud")
     \/ scenario = "drill" /\ DrillNext /\ Others("drill")
     \/ scenario = "kubectl" /\ KubeNext /\ Others("kubectl")
     \/ scenario = "terraform" /\ PlanNext /\ Others("terraform")
     \/ scenario = "images" /\ ImageNext /\ Others("images")
     \/ scenario = "site" /\ SiteNext /\ Others("site")
     \/ scenario = "tags" /\ TagNext /\ Others("tags")
     \/ scenario = "assets" /\ AssetNext /\ Others("assets")
     \/ scenario = "cache" /\ KeyNext /\ Others("cache")
     \/ scenario # "cloud" /\ UNCHANGED allVars

Operations == OperationsInit /\ [][OperationsNext]_allVars
===============================================================================

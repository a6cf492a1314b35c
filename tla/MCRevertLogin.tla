---------------------------- MODULE MCRevertLogin ----------------------------
(* The two small models whose calls must return, gitops reverts and docker  *)
(* logins. They share nothing, so a behaviour is about one of them, the     *)
(* scenario, and the other stays where it begins.                           *)
EXTENDS MCGitopsRevert, MCLoginOnce

VARIABLE scenario

bothVars == <<scenario, vars, loginVars>>

BothInit == scenario \in {"revert", "login"} /\ Init /\ LoginInit

BothNext ==
  \/ scenario = "revert" /\ Next /\ UNCHANGED <<scenario, loginVars>>
  \/ scenario = "login" /\ LoginNext /\ UNCHANGED <<scenario, vars>>

(* The fairness of FairSpec and of FairLoginSpec, for the scenario's calls. *)
RevertLogin ==
  /\ BothInit /\ [][BothNext]_bothVars
  /\ \A r \in Reverter : WF_vars(scenario = "revert" /\ pc[r] # "idle" /\ Advance(r))
  /\ \A t \in Thread : /\ WF_loginVars(scenario = "login" /\ LoginAdvance(t))
                       /\ SF_loginVars(scenario = "login" /\ Lock(t))
===============================================================================

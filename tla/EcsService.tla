------------------------------ MODULE EcsService ------------------------------
(***************************************************************************)
(* ecs.Deploy and ecs.Rollback as container-deploy-ecs-fargate runs them.  *)
(* A version is a revision of the task family; the service names one.      *)
(***************************************************************************)
EXTENDS CloudService

IsEcs(p) == kind[p] = "ecs"

(* Without a prior task definition there is nothing to roll back to. What  *)
(* the deploy captured is returned with its error as well, so a deploy     *)
(* that never reached the service is rolled back too.                      *)
EcsFails(p) == IF handle[p] # 0 THEN CloudGoto(p, "choose") ELSE End(p, "failed")

(* describe-task-definition knows the newest revision of the family, which *)
(* need not be the one that runs.                                          *)
DescribeFamily(p) ==
  /\ IsEcs(p) /\ CloudAt(p, "read")
  /\ \/ handle' = [handle EXCEPT ![p] = Len(made)] /\ CloudGoto(p, "register")
     \/ EcsFails(p) /\ UNCHANGED handle
  /\ UNCHANGED <<serviceVars, kind, backTo, retried, mine, unheard>>

Register(p) ==
  /\ made' = Append(made, "ready")
  /\ mine' = [mine EXCEPT ![p] = @ \cup {Len(made')}]

(* buildRegisterInput, the temporary file and register-task-definition. *)
RegisterRevision(p) ==
  /\ IsEcs(p) /\ CloudAt(p, "register")
  /\ \/ Register(p) /\ CloudGoto(p, "update")
     \/ Register(p) /\ EcsFails(p)
     \/ EcsFails(p) /\ UNCHANGED <<made, mine>>
  /\ UNCHANGED <<route, served, kind, handle, backTo, retried, unheard>>

UpdateService(p) ==
  /\ IsEcs(p) /\ CloudAt(p, "update")
  /\ \/ Route(NewestOf(p)) /\ CloudGoto(p, "stabilize")
     \/ Route(NewestOf(p)) /\ EcsFails(p)
     \/ EcsFails(p) /\ UNCHANGED <<route, served>>
  /\ UNCHANGED <<made, kind, handle, backTo, retried, mine, unheard>>

(* waitForStable: the service, with whatever revision it has by then, is   *)
(* stable; or a rollout failed, the time was up, or a read failed.         *)
Stabilize(p) ==
  /\ IsEcs(p) /\ CloudAt(p, "stabilize")
  /\ CloudGoto(p, "verify") \/ EcsFails(p)
  /\ UNCHANGED <<serviceVars, kind, handle, backTo, retried, mine, unheard>>

ChoosePriorDefinition(p) ==
  /\ IsEcs(p) /\ CloudAt(p, "choose")
  /\ backTo' = [backTo EXCEPT ![p] = handle[p]]
  /\ CloudGoto(p, "back")
  /\ UNCHANGED <<serviceVars, kind, handle, retried, mine, unheard>>

EcsNext(p) ==
  \/ DescribeFamily(p) \/ RegisterRevision(p) \/ UpdateService(p)
  \/ Stabilize(p) \/ ChoosePriorDefinition(p)
===============================================================================

------------------------------- MODULE ArgoCD -------------------------------
(***************************************************************************)
(* The ArgoCD application controller, as gitops.go's polling loop relies   *)
(* on it. It is not part of the repository: only what the loop reads from  *)
(* GET /applications/<name> and causes with ?refresh=hard and POST /sync   *)
(* is modelled.                                                            *)
(***************************************************************************)
EXTENDS GitopsRepo

VARIABLES
  main,       \* the branch the application follows
  compared,   \* position the live state was last compared with, 0 if never
  live,       \* position whose manifests the cluster runs
  operation,  \* position the running sync operation applies, 0 if none
  phase,      \* operationState.phase: "" when no operation ever ran
  healthy,    \* health.status is Healthy
  automated   \* the application's sync policy, which nothing here changes

argoVars == <<compared, live, operation, phase, healthy, automated>>

ArgoInit ==
  /\ compared \in {0, Len(main)}
  /\ live = Len(main)
  /\ operation = 0
  /\ phase = ""
  /\ healthy = TRUE
  /\ automated \in BOOLEAN

Synced == compared # 0 /\ main[live] = main[compared]

(* status.sync.status, health.status and operationState.phase as a caller  *)
(* has to see them before it may call an application rolled out.           *)
Ready == Synced /\ healthy /\ phase \in {"Succeeded", ""}

(* The controller's own polling, or a hard refresh. *)
Refresh ==
  /\ compared' = Len(main)
  /\ UNCHANGED <<main, live, operation, phase, healthy, automated>>

StartOperation(p) ==
  /\ operation = 0
  /\ operation' = p
  /\ phase' = "Running"
  /\ UNCHANGED <<main, compared, live, healthy, automated>>

AutomatedSync ==
  /\ automated
  /\ compared # 0
  /\ ~Synced
  /\ StartOperation(compared)

(* The end of an operation, either way, makes the controller compare anew. *)
OperationSucceeds ==
  /\ operation # 0
  /\ live' = operation
  /\ healthy' = (healthy /\ main[operation] = main[live])
  /\ compared' = Len(main)
  /\ operation' = 0
  /\ phase' = "Succeeded"
  /\ UNCHANGED <<main, automated>>

OperationFails ==
  /\ operation # 0
  /\ compared' = Len(main)
  /\ operation' = 0
  /\ phase' = "Failed"
  /\ UNCHANGED <<main, live, healthy, automated>>

(* The pods of a new version come up. *)
BecomeHealthy ==
  /\ ~healthy
  /\ healthy' = TRUE
  /\ UNCHANGED <<main, compared, live, operation, phase, automated>>

ArgoStep ==
  \/ Refresh \/ AutomatedSync \/ OperationSucceeds \/ OperationFails
  \/ BecomeHealthy
=============================================================================

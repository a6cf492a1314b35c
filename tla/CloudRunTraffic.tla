--------------------------- MODULE CloudRunTraffic ---------------------------
(***************************************************************************)
(* cloudrun.Deploy and cloudrun.RollbackToRevision as the Cloud Run        *)
(* templates run them. A revision becomes ready, or does not, on the       *)
(* service's own time. Traffic names LATEST, the newest ready revision,    *)
(* until a preview or a rollback ties it to one revision.                  *)
(***************************************************************************)
EXTENDS CloudService

IsCloudRun(p) == kind[p] \in {"gar", "source", "preview"}
IsPreview(r) == \E p \in Pipeline : kind[p] = "preview" /\ r \in mine[p]

(* currentReadyRevision is the latest ready one, with or without traffic.  *)
(* A failed read is only logged, and leaves the handle empty.              *)
ReadPrior(p) ==
  /\ IsCloudRun(p) /\ CloudAt(p, "read")
  /\ \E prior \in {LatestReady, 0} : handle' = [handle EXCEPT ![p] = prior]
  /\ CloudGoto(p, "create")
  /\ UNCHANGED <<serviceVars, kind, backTo, retried, mine, unheard>>

(* gcloud run deploy creates the revision and then waits for it. With      *)
(* --no-traffic it ties what LATEST stood for to that revision, for good.  *)
CreateRevision(p) ==
  /\ IsCloudRun(p) /\ CloudAt(p, "create")
  /\ made' = Append(made, "pending")
  /\ mine' = [mine EXCEPT ![p] = @ \cup {Len(made')}]
  /\ route' = IF kind[p] = "preview" THEN Serving ELSE route
  /\ CloudGoto(p, "wait")
  /\ UNCHANGED <<served, kind, handle, backTo, retried, unheard>>

RevisionReady(r) ==
  /\ made[r] = "pending"
  /\ made' = [made EXCEPT ![r] = "ready"]
  /\ Route(route)
  /\ UNCHANGED runVars

RevisionFails(r) ==
  /\ made[r] = "pending"
  /\ made' = [made EXCEPT ![r] = "failed"]
  /\ UNCHANGED <<route, served, runVars>>

(* Broken variant: a revision that failed has been waited for as well. *)
RevisionSettled(p) == made[NewestOf(p)] # "pending"

RevisionDeployed(p) == made[NewestOf(p)] = "ready"

DeployReturns(p) ==
  /\ CloudAt(p, "wait") /\ RevisionDeployed(p)
  /\ CloudGoto(p, "verify")
  /\ UNCHANGED <<serviceVars, kind, handle, backTo, retried, mine, unheard>>

(* gcloud reports an error: nothing was created, the revision failed, or   *)
(* the answer was lost and the revision is ready or may still become so.   *)
DeployFails(p) ==
  /\ IsCloudRun(p) /\ cpc[p] \in {"create", "wait"}
  /\ ActionFails(p)
  /\ UNCHANGED <<serviceVars, kind, backTo, mine, unheard>>

(* Broken variant: revisions that never became ready are not skipped. *)
PriorRevisionOfAny == Len(made) - 1

(* priorReadyRevisionName: the newest ready revision, the newest of all    *)
(* left out.                                                               *)
PriorReadyRevision == Max((Ready \ {Len(made)}) \cup {0})

(* RollbackToRevision picks the captured revision or discovers one; with   *)
(* neither, or when the listing fails, there is no rollback.               *)
ChooseRevision(p) ==
  /\ IsCloudRun(p) /\ CloudAt(p, "choose")
  /\ \/ \E r \in {IF handle[p] # 0 THEN handle[p] ELSE PriorReadyRevision} \ {0} :
          backTo' = [backTo EXCEPT ![p] = r] /\ CloudGoto(p, "back")
     \/ /\ handle[p] = 0
        /\ End(p, "failed") /\ UNCHANGED backTo
  /\ UNCHANGED <<serviceVars, kind, handle, retried, mine, unheard>>

CloudRunNext(p) ==
  \/ ReadPrior(p) \/ CreateRevision(p) \/ DeployReturns(p)
  \/ DeployFails(p) \/ ChooseRevision(p)

RevisionSettles == \E r \in DOMAIN made : RevisionReady(r) \/ RevisionFails(r)
===============================================================================

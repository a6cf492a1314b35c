---------------------------- MODULE CloudPipelines ----------------------------
(***************************************************************************)
(* Overlapping pipeline runs against one service, on Lambda, ECS or Cloud  *)
(* Run, and what they must not do to its production traffic.               *)
(***************************************************************************)
EXTENDS LambdaAlias, EcsService, CloudRunTraffic

Next ==
  \/ \E p \in Pipeline :
       LambdaNext(p) \/ EcsNext(p) \/ CloudRunNext(p) \/ Verify(p) \/ RollBack(p)
  \/ RevisionSettles
  \/ (\A p \in Pipeline : CloudAt(p, "done")) /\ UNCHANGED vars

Spec == CloudInit /\ [][Next]_vars

-------------------------------------------------------------------------------
(* Every variable has its type, and traffic never names a version that     *)
(* does not exist.                                                         *)
TypeOK ==
  /\ made \in Seq({"pending", "ready", "failed"})
  /\ route \in 0..Len(made)
  /\ kind \in Mixes
  /\ cpc \in [Pipeline -> {"read", "publish", "shift", "register", "update",
                          "stabilize", "create", "wait", "verify", "choose",
                          "back", "done"}]
  /\ handle \in [Pipeline -> 0..Len(made)]
  /\ backTo \in [Pipeline -> 0..Len(made)]
  /\ retried \in [Pipeline -> 0..(JobTries - 1)]
  /\ result \in [Pipeline -> {"none", "ok", "failed", "rolled back"}]
  /\ mine \in [Pipeline -> SUBSET (1..Len(made))]
  /\ unheard \in SUBSET Pipeline
  /\ served \in SUBSET (1..Len(made))

Chosen(p) == backTo[p] # 0

(* A rollback on Cloud Run names a revision that is ready, whether it was  *)
(* captured before the deploy or discovered afterwards, and however many   *)
(* other runs have left failed or unfinished revisions in between.         *)
RollbackTargetReady == \A p \in Pipeline : Chosen(p) => made[backTo[p]] = "ready"

(* A rollback that uses the captured handle leaves the version that failed *)
(* Verify: the handle is read before the new version exists, in every      *)
(* attempt. The exception is an alias shift that landed unheard: the next  *)
(* attempt then captures the run's own version.                            *)
RollbackLeavesOwn ==
  \A p \in Pipeline : Chosen(p) /\ handle[p] # 0 /\ p \notin unheard
                        => backTo[p] \notin mine[p]

(* A Lambda rollback names a version that has taken production traffic,    *)
(* never one that another run has published and not shifted to. One of ECS *)
(* does as long as every revision of the others has been put to service:   *)
(* it captures the newest of the family, deployed or only registered.      *)
RollbackTargetServed ==
  \A p \in Pipeline : Chosen(p) =>
    /\ IsLambda(p) => backTo[p] \in served
    /\ IsEcs(p) /\ (\A q \in Pipeline \ {p} : mine[q] \subseteq served)
         => backTo[p] \in served

Green(p) == result[p] = "ok" /\ kind[p] # "preview" /\ NewestOf(p) = Len(made)

(* The newest version, deployed by a run that ended green, has taken       *)
(* production traffic, on Cloud Run as long as the traffic follows LATEST: *)
(* once a preview or a rollback has tied it, deploys end green unserved.   *)
GreenServesUnlessTied ==
  \A p \in Pipeline : Green(p) /\ (~IsCloudRun(p) \/ route = 0) => NewestOf(p) \in served

-------------------------------------------------------------------------------
(* cloudrun.go:43: "with NoTraffic it never serves production traffic". A  *)
(* preview is the latest ready revision, so the next deploy captures it as *)
(* PriorRevision and a rollback puts it into production.                   *)
PreviewNeverServes == ~IsPreview(Serving)
===============================================================================

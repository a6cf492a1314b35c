----------------------------- MODULE LambdaAlias -----------------------------
(***************************************************************************)
(* lambda.DeployImage and lambda.Rollback as the lambda-deploy template    *)
(* runs them: read the alias, publish, shift the alias, under Retry.       *)
(***************************************************************************)
EXTENDS CloudService

IsLambda(p) == kind[p] = "lambda"

(* Broken variant: the newest published version is taken for the current. *)
NewestPublished == Len(made)

(* currentAliasVersion: the version the alias names. *)
CurrentAliasVersion == route

ReadAlias(p) ==
  /\ IsLambda(p) /\ CloudAt(p, "read")
  /\ \/ /\ handle' = [handle EXCEPT ![p] = CurrentAliasVersion]
        /\ CloudGoto(p, "publish")
        /\ UNCHANGED retried
     \/ ActionFails(p)
  /\ UNCHANGED <<serviceVars, kind, backTo, mine, unheard>>

(* update-function-code --publish: the same code as the newest version     *)
(* makes no new one.                                                       *)
Published(p) ==
  /\ made' = IF Len(made) \in mine[p] THEN made ELSE Append(made, "ready")
  /\ mine' = [mine EXCEPT ![p] = @ \cup {Len(made')}]

PublishCode(p) ==
  /\ IsLambda(p) /\ CloudAt(p, "publish")
  /\ \/ Published(p) /\ CloudGoto(p, "shift") /\ UNCHANGED <<handle, retried>>
     \/ Published(p) /\ ActionFails(p)
     \/ UNCHANGED <<made, mine>> /\ ActionFails(p)
  /\ UNCHANGED <<route, served, kind, backTo, unheard>>

(* update-alias lands and says so, lands unheard, or fails. *)
ShiftAlias(p) ==
  /\ IsLambda(p) /\ CloudAt(p, "shift")
  /\ \/ Route(NewestOf(p)) /\ CloudGoto(p, "verify") /\ UNCHANGED <<handle, retried, unheard>>
     \/ Route(NewestOf(p)) /\ ActionFails(p) /\ unheard' = unheard \cup {p}
     \/ ActionFails(p) /\ UNCHANGED <<route, served, unheard>>
  /\ UNCHANGED <<made, kind, backTo, mine>>

(* Broken variant: the version numbered one below the new one. *)
VersionBelow(p) == NewestOf(p) - 1

(* The rollback names the version the deploy returned. *)
PriorVersion(p) == handle[p]

ChoosePriorVersion(p) ==
  /\ IsLambda(p) /\ CloudAt(p, "choose")
  /\ backTo' = [backTo EXCEPT ![p] = PriorVersion(p)]
  /\ CloudGoto(p, "back")
  /\ UNCHANGED <<serviceVars, kind, handle, retried, mine, unheard>>

LambdaNext(p) ==
  ReadAlias(p) \/ PublishCode(p) \/ ShiftAlias(p) \/ ChoosePriorVersion(p)
===============================================================================

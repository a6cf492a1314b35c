----------------------------- MODULE CloudService -----------------------------
(***************************************************************************)
(* One managed service and the pipelines that deploy to it: what the       *)
(* templates for AWS Lambda, ECS and Cloud Run have in common. Each run    *)
(* deploys, Verify probes the service, OnFailure puts a prior version back.*)
(*                                                                         *)
(* A version (a published Lambda version, a revision of a task family or   *)
(* of Cloud Run) is its index in the sequence made; 0 stands for none.     *)
(***************************************************************************)
EXTENDS Naturals, Sequences, FiniteSetsExt

CONSTANTS
  Pipeline,   \* the pipeline runs, which nothing keeps from overlapping
  Mixes,      \* the template each run was rendered from
  JobTries,   \* tries of a job that is declared with Retry
  OldCount    \* versions made, all of them ready, before the runs start

(* The templates of each platform. One service is of one platform, and so  *)
(* are the runs against it; "absent" is a run that does not take place.    *)
CloudPlatforms == {{"lambda"}, {"ecs"}, {"gar", "source", "preview"}}

ASSUME CloudAssumption ==
  /\ Mixes \subseteq UNION {[Pipeline -> P \cup {"absent"}] : P \in CloudPlatforms}
  /\ JobTries \in Nat \ {0} /\ OldCount \in Nat \ {0}

VARIABLES
  made,       \* state of every version, oldest first
  route       \* version the alias, the service or the traffic names, 0 for LATEST

VARIABLES
  kind,       \* one of Mixes
  cpc,        \* next step of each run
  handle,     \* prior version its deploy captured
  backTo,     \* version its rollback is about to name
  retried,    \* retries of its deploy
  result      \* how the run ended

(* Variables that only the properties read. *)
VARIABLES
  mine,       \* the versions each run made
  unheard,    \* runs whose alias shift landed but was reported as failed
  served      \* versions that have taken production traffic

serviceVars == <<made, route, served>>
runVars == <<kind, cpc, handle, backTo, retried, result, mine, unheard>>
vars == <<serviceVars, runVars>>

Ready == {r \in DOMAIN made : made[r] = "ready"}
LatestReady == Max(Ready \cup {0})

(* The version that takes production traffic. *)
Serving == IF route = 0 THEN LatestReady ELSE route

NewestOf(p) == Max(mine[p] \cup {0})

CloudInit ==
  /\ kind \in Mixes
  /\ made = [r \in 1..OldCount |-> "ready"]
  /\ route = IF \E p \in Pipeline : kind[p] \in {"lambda", "ecs"} THEN OldCount ELSE 0
  /\ served = {OldCount}
  /\ cpc = [p \in Pipeline |-> IF kind[p] = "absent" THEN "done" ELSE "read"]
  /\ handle = [p \in Pipeline |-> 0]
  /\ backTo = [p \in Pipeline |-> 0]
  /\ retried = [p \in Pipeline |-> 0]
  /\ result = [p \in Pipeline |-> "none"]
  /\ mine = [p \in Pipeline |-> {}]
  /\ unheard = {}

CloudAt(p, step) == cpc[p] = step

CloudGoto(p, step) == cpc' = [cpc EXCEPT ![p] = step] /\ UNCHANGED result

End(p, how) ==
  /\ cpc' = [cpc EXCEPT ![p] = "done"]
  /\ result' = [result EXCEPT ![p] = how]

Route(r) ==
  /\ route' = r
  /\ served' = served \cup {Serving'}

(* Broken variant: one retry too many. *)
RetriesOnceMore(p) == kind[p] = "lambda" /\ retried[p] < JobTries

(* The Lambda deploy is declared with Retry, the Cloud Run deploys not. *)
Retries(p) == kind[p] = "lambda" /\ retried[p] + 1 < JobTries

(* Whether OnFailure rolls back after a deploy that itself failed: those   *)
(* of Lambda and of a source deploy look at the stage first, and a preview *)
(* has none. For ECS it depends on the captured handle.                    *)
RollsBackOnAction(p) == kind[p] = "gar"

(* The deploy has returned an error: the job is tried again, or OnFailure  *)
(* decides. What the attempt captured is kept only when it succeeds.       *)
ActionFails(p) ==
  /\ handle' = [handle EXCEPT ![p] = 0]
  /\ \/ /\ Retries(p)
        /\ retried' = [retried EXCEPT ![p] = @ + 1]
        /\ CloudGoto(p, "read")
     \/ /\ ~Retries(p)
        /\ IF RollsBackOnAction(p) THEN CloudGoto(p, "choose") ELSE End(p, "failed")
        /\ UNCHANGED retried

(* Verify: the health probe passes, cannot tell, or fails for certain.     *)
Verify(p) ==
  /\ CloudAt(p, "verify")
  /\ \/ End(p, "ok")
     \/ End(p, "failed")
     \/ kind[p] # "preview" /\ CloudGoto(p, "choose")
  /\ UNCHANGED <<serviceVars, kind, handle, backTo, retried, mine, unheard>>

(* The rollback's update of the alias or of the traffic, which may fail,   *)
(* with or without effect. The run has failed whatever comes of it.        *)
RollBack(p) ==
  /\ CloudAt(p, "back")
  /\ \/ Route(backTo[p]) /\ \E how \in {"rolled back", "failed"} : End(p, how)
     \/ End(p, "failed") /\ UNCHANGED <<route, served>>
  /\ UNCHANGED <<made, kind, handle, backTo, retried, mine, unheard>>
===============================================================================

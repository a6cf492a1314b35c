------------------------------- MODULE Rollout -------------------------------
(***************************************************************************)
(* deploy.Run and rollback.Run on their remote path: write the gitops      *)
(* repository, then wait in syncArgoCD until the application runs it.      *)
(*                                                                         *)
(* The write is one step here, as GitopsMain and GitopsUndo, which         *)
(* GitopsDeploy and GitopsRevert implement, promise it to be.              *)
(* The waiting loop is modelled in full: what it remembers from its first  *)
(* GET, the revision it resolves, and each kick and poll.                  *)
(***************************************************************************)
EXTENDS ArgoCD

CONSTANTS
  Runner,     \* the calls of deploy.Run and rollback.Run
  Jobs,       \* the calls made: each one's kind, and what a deploy writes
  Start,      \* main before the calls
  MaxKicks,   \* kicks that fit into it, one every 15 seconds
  MaxMain     \* bound: pushes land unheard only while main is shorter

ASSUME RolloutAssumption ==
  /\ Jobs \subseteq [Runner -> [kind : {"deploy", "rollback"},
                               request : RequestSet, app : BOOLEAN]]
  /\ Start \in Seq(Tree) /\ Len(Start) >= 2
  /\ MaxKicks \in Nat \ {0}
  /\ MaxMain \in Nat

VARIABLES
  job,        \* the calls of this behaviour, one of Jobs
  pc,         \* the step each call is about to take
  seen,       \* what the first GET showed
  expected,   \* revision the deploy waits for, 0 while unresolved
  kicks,      \* how often the loop has kicked
  result      \* how the call returned: "none" while it runs

(* Variables that only the properties read. *)
VARIABLES
  wrote,      \* Len(main) when the gitops write succeeded, 0 before
  accepted    \* revision on which the loop declared success

runVars == <<job, pc, seen, expected, kicks, result, wrote, accepted>>
vars == <<main, argoVars, runVars>>

Step == {"write", "get", "resolve", "loop", "kick", "post", "poll", "done"}
Result == {"none", "ok", "failed", "timeout"}

Status == [ready : BOOLEAN, revision : Nat, images : BOOLEAN]

Init ==
  /\ main = Start
  /\ ArgoInit
  /\ job \in Jobs
  /\ pc = [r \in Runner |-> "write"]
  /\ seen = [r \in Runner |-> [ready |-> FALSE, revision |-> 0, images |-> FALSE]]
  /\ expected = [r \in Runner |-> 0]
  /\ kicks = [r \in Runner |-> 0]
  /\ result = [r \in Runner |-> "none"]
  /\ wrote = [r \in Runner |-> 0]
  /\ accepted = [r \in Runner |-> 0]

At(r, step) == pc[r] = step
IsDeploy(r) == job[r].kind = "deploy"

Goto(r, step) ==
  /\ pc' = [pc EXCEPT ![r] = step]
  /\ UNCHANGED <<result, accepted>>

Return(r, how) ==
  /\ pc' = [pc EXCEPT ![r] = "done"]
  /\ result' = [result EXCEPT ![r] = how]

(* The trees Deploy or Revert may leave on main. *)
Written(r) ==
  IF IsDeploy(r) THEN Patches(Tip(main), job[r].request) ELSE {main[Len(main) - 1]}

(* Deploy returned without error. Whether it changed anything is ignored.  *)
WriteDeploy(r) ==
  /\ At(r, "write") /\ IsDeploy(r)
  /\ Patchable(Tip(main), job[r].request)
  /\ \E t \in Written(r) : main' = IF t = Tip(main) THEN main ELSE Append(main, t)
  /\ wrote' = [wrote EXCEPT ![r] = Len(main')]
  /\ Goto(r, "get")
  /\ UNCHANGED <<argoVars, job, seen, expected, kicks>>

(* Revert returned without error, which it never does with changed FALSE   *)
(* or without a commit: the sync is skipped only when no application is    *)
(* named.                                                                  *)
WriteRollback(r) ==
  /\ At(r, "write") /\ ~IsDeploy(r)
  /\ \E t \in Written(r) \ {Tip(main)} : main' = Append(main, t)
  /\ wrote' = [wrote EXCEPT ![r] = Len(main')]
  /\ IF job[r].app
     THEN Goto(r, "get")
     ELSE Return(r, "ok") /\ UNCHANGED accepted
  /\ UNCHANGED <<argoVars, job, seen, expected, kicks>>

(* A push of the write landed unheard: it was the last, and the write      *)
(* returned an error, or the write starts over from the new tip.           *)
WriteUnheard(r) ==
  /\ At(r, "write")
  /\ Len(main) < MaxMain
  /\ IsDeploy(r) => Patchable(Tip(main), job[r].request)
  /\ \E t \in Written(r) \ {Tip(main)} : main' = Append(main, t)
  /\ \/ Return(r, "failed") /\ UNCHANGED accepted
     \/ Goto(r, "write")
  /\ UNCHANGED <<argoVars, job, seen, expected, kicks, wrote>>

(* What a GET shows of the application. *)
Shown(r) ==
  [ready |-> Ready, revision |-> compared,
   images |-> IsDeploy(r) => Carries(main[live], job[r].request)]

(* Broken variant: Synced and Healthy is enough, at whatever revision. *)
DeployedWhenReady(s, e, b) == s.ready

(* Broken variant: the images the cluster runs are not looked at. *)
DeployedWithoutImages(s, e, b) ==
  s.ready /\ IF e # 0 THEN s.revision = e ELSE b = 0 \/ s.revision # b

(* Broken variant: a deploy, too, waits for a revision it has not yet seen. *)
DeployedNewOnly(s, e, b) ==
  s.ready /\ s.images /\ s.revision # b /\ (e # 0 => s.revision = e)

(* deployed and hasDeploymentImages on the status s, waiting for revision  *)
(* e, or for any but b when e is unknown.                                  *)
Deployed(s, e, b) ==
  /\ s.ready
  /\ s.images
  /\ IF e # 0 THEN s.revision = e ELSE b = 0 \/ s.revision # b

Judge(r, s, e) ==
  IF Deployed(s, e, seen[r].revision)
  THEN /\ Return(r, "ok")
       /\ accepted' = [accepted EXCEPT ![r] = s.revision]
  ELSE Goto(r, "loop")

FirstGet(r) ==
  /\ At(r, "get")
  /\ seen' = [seen EXCEPT ![r] = Shown(r)]
  /\ Goto(r, IF IsDeploy(r) THEN "resolve" ELSE "loop")
  /\ UNCHANGED <<main, argoVars, job, expected, kicks, wrote>>

(* git ls-remote; then the status of the first GET, by now perhaps old,    *)
(* decides whether there is anything to wait for.                          *)
Resolve(r) ==
  /\ At(r, "resolve")
  /\ expected' = [expected EXCEPT ![r] = Len(main)]
  /\ Judge(r, seen[r], Len(main))
  /\ UNCHANGED <<main, argoVars, job, seen, kicks, wrote>>

(* The top of the loop: kick when 15 seconds have passed since the last    *)
(* kick, and always the first time; else poll.                             *)
Loop(r) ==
  /\ At(r, "loop")
  /\ \/ kicks[r] < MaxKicks /\ Goto(r, "kick")
     \/ kicks[r] > 0 /\ Goto(r, "poll")
  /\ UNCHANGED <<main, argoVars, job, seen, expected, kicks, wrote>>

(* GET ?refresh=hard *)
Kick(r) ==
  /\ At(r, "kick")
  /\ Refresh
  /\ kicks' = [kicks EXCEPT ![r] = @ + 1]
  /\ Goto(r, "post")
  /\ UNCHANGED <<job, seen, expected, wrote>>

(* Broken variant: without an expected revision, the one the first GET showed. *)
SyncRevisionSeen(r) ==
  CASE expected[r] # 0 -> expected[r]
    [] expected[r] = 0 /\ seen[r].revision # 0 -> seen[r].revision
    [] OTHER -> Len(main)

SyncRevision(r) == IF expected[r] = 0 THEN Len(main) ELSE expected[r]

(* POST sync with the pinned revision, or HEAD. *)
PostStarts(r) ==
  /\ At(r, "post")
  /\ automated => expected[r] = 0
  /\ StartOperation(SyncRevision(r))
  /\ Goto(r, "poll")
  /\ UNCHANGED <<job, seen, expected, kicks, wrote>>

(* Refused, because an operation runs or because automated sync owns the   *)
(* revision, or failed otherwise: the loop logs it and goes on.            *)
PostIgnored(r) ==
  /\ At(r, "post")
  /\ Goto(r, "poll")
  /\ UNCHANGED <<main, argoVars, job, seen, expected, kicks, wrote>>

Poll(r) ==
  /\ At(r, "poll")
  /\ Judge(r, Shown(r), expected[r])
  /\ UNCHANGED <<main, argoVars, job, seen, expected, kicks, wrote>>

(* The write failed, or a GET or ls-remote did, or the application no      *)
(* longer has the deployment's source: the call returns the error.         *)
Fail(r) ==
  /\ pc[r] \in {"write", "get", "resolve", "kick", "poll"}
  /\ Return(r, "failed")
  /\ UNCHANGED <<main, argoVars, job, seen, expected, kicks, wrote, accepted>>

Timeout(r) ==
  /\ pc[r] \in {"loop", "post", "poll"}
  /\ Return(r, "timeout")
  /\ UNCHANGED <<main, argoVars, job, seen, expected, kicks, wrote, accepted>>

Advance(r) ==
  \/ WriteDeploy(r) \/ WriteRollback(r) \/ FirstGet(r) \/ Resolve(r)
  \/ Loop(r) \/ Kick(r) \/ PostStarts(r) \/ PostIgnored(r) \/ Poll(r)

Next ==
  \/ \E r \in Runner : Advance(r) \/ WriteUnheard(r) \/ Fail(r) \/ Timeout(r)
  \/ ArgoStep /\ UNCHANGED runVars

Spec == Init /\ [][Next]_vars

(* A call that has written takes its next step, and ArgoCD goes on. *)
FairSpec ==
  /\ Spec
  /\ \A r \in Runner : WF_vars(pc[r] # "write" /\ Advance(r))
  /\ WF_vars(Refresh /\ UNCHANGED runVars)
  /\ WF_vars(AutomatedSync /\ UNCHANGED runVars)
  /\ WF_vars(BecomeHealthy /\ UNCHANGED runVars)
  /\ SF_vars(OperationSucceeds /\ UNCHANGED runVars)
-----------------------------------------------------------------------------
TypeOK ==
  /\ main \in Seq(Tree)
  /\ compared \in 0..Len(main)
  /\ live \in 1..Len(main)
  /\ operation \in 0..Len(main)
  /\ phase \in {"", "Running", "Succeeded", "Failed"}
  /\ healthy \in BOOLEAN
  /\ pc \in [Runner -> Step]
  /\ seen \in [Runner -> Status]
  /\ expected \in [Runner -> 0..Len(main)]
  /\ kicks \in [Runner -> 0..MaxKicks]
  /\ result \in [Runner -> Result]
  /\ wrote \in [Runner -> 0..Len(main)]
  /\ accepted \in [Runner -> 0..Len(main)]

(* Success is never declared on a revision older than the call's own       *)
(* write, although the first GET may show a comparison long out of date    *)
(* and a rollback knows no revision to wait for.                           *)
AcceptedAtOrAfterWrite ==
  \A r \in Runner : accepted[r] # 0 => accepted[r] >= wrote[r]

(* The commit a deploy was declared successful on carries its tags, also   *)
(* when another deploy was pushed between its write and ls-remote.         *)
AcceptedCommitCarriesTag ==
  \A r \in Runner :
    accepted[r] # 0 /\ IsDeploy(r) => Carries(main[accepted[r]], job[r].request)

(* A kick goes on asking for the revision its deploy resolved long ago, so *)
(* without automated sync it can take the cluster back behind what others  *)
(* have rolled out since; but only to the very revision that deploy waits  *)
(* for, never behind the commit it wrote, and never for a rollback.        *)
GoesBackOnlyToAWaitedRevision ==
  [][live' < live =>
       \E r \in Runner :
         /\ IsDeploy(r) /\ live' = expected[r]
         /\ wrote[r] # 0 /\ wrote[r] <= live']_vars

(* Under automated sync a deploy whose resolved commit carries its tags    *)
(* returns unless main moves on or a sync operation fails, also when the   *)
(* application ran it before the first GET and no new revision is to come. *)
DeploySettles ==
  \A r \in Runner :
    /\ automated /\ IsDeploy(r) /\ pc[r] = "loop"
    /\ Carries(main[expected[r]], job[r].request)
    ~> pc[r] = "done" \/ Len(main) # expected[r] \/ phase = "Failed"

(* SyncArgoCD waits for Synced and Healthy at a new revision: when no one  *)
(* else writes, a rollback under automated sync returns.                   *)
RollbackSettles ==
  \A r \in Runner :
    automated /\ ~IsDeploy(r) /\ pc[r] = "loop" ~> pc[r] = "done"
=============================================================================

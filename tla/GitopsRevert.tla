---------------------------- MODULE GitopsRevert ----------------------------
(***************************************************************************)
(* Calls of gitops.Revert, running while other pipelines deploy.           *)
(*                                                                         *)
(* A call names the commit to revert, or asks for HEAD, which git looks up *)
(* in the checkout anew on every attempt. Deploys by others are the atomic *)
(* installs GitopsMain promises. Commits and checkouts are positions in    *)
(* main, as in GitopsDeploy.                                               *)
(***************************************************************************)
EXTENDS GitopsRepo

CONSTANTS
  Reverter,     \* the calls of Revert
  Commit,       \* RevertConfig.Commit of each: a position, or HEAD
  Deploys,      \* requests that other pipelines may install meanwhile
  MaxRetries,   \* RevertConfig.MaxRetries
  CacheLag,     \* how many commits a first clone may be behind main
  Start,        \* main when the calls begin: a first tree, then deploys
  MaxMain,      \* bound: others deploy only while main is shorter than this
  MaxFaults     \* bound on pushes that fail for no fault of main's

HEAD == 0

ASSUME RevertAssumption ==
  /\ Start \in Seq(Tree) /\ Len(Start) >= 2
  /\ Commit \in [Reverter -> {HEAD} \cup 2..Len(Start)]
  /\ Deploys \subseteq RequestSet
  /\ MaxRetries \in Nat \ {0}
  /\ CacheLag \in Nat
  /\ MaxMain \in Nat
  /\ MaxFaults \in Nat

VARIABLES
  main,       \* the trees of upstream main's commits, oldest first
  pc,         \* the step each call is about to take
  attempt,    \* the loop counter of the call
  base,       \* position in main the checkout was reset to
  tree,       \* the checkout's tree, reverted from "commit" on
  aim,        \* position of the commit the current attempt reverts
  changed,    \* the named result "changed"
  result      \* how the call returned: "none" while it runs

(* Variables that only the properties read. *)
VARIABLES
  why,        \* what put each commit on main: 0 for a deploy, else the
              \* position of the commit it reverts
  landed,     \* positions of the call's commits on main
  faults      \* pushes of the call that reported a failure main is no cause of

local == <<pc, attempt, base, tree, aim, changed, result>>
vars == <<main, local, why, landed, faults>>

Step == {"idle", "clone", "revert", "commit", "push", "fetch", "done"}
Result == {"none", "ok", "failed", "exhausted"}

Init ==
  /\ main = Start
  /\ pc = [r \in Reverter |-> "idle"]
  /\ attempt = [r \in Reverter |-> 0]
  /\ base = [r \in Reverter |-> 1]
  /\ tree = [r \in Reverter |-> Start[1]]
  /\ aim = [r \in Reverter |-> 0]
  /\ changed = [r \in Reverter |-> FALSE]
  /\ result = [r \in Reverter |-> "none"]
  /\ why = [i \in 1..Len(Start) |-> 0]
  /\ landed = [r \in Reverter |-> {}]
  /\ faults = [r \in Reverter |-> 0]

At(r, step) == pc[r] = step

Goto(r, step) ==
  /\ pc' = [pc EXCEPT ![r] = step]
  /\ UNCHANGED result

Return(r, how) ==
  /\ pc' = [pc EXCEPT ![r] = "done"]
  /\ result' = [result EXCEPT ![r] = how]

Call(r) ==
  /\ At(r, "idle")
  /\ Goto(r, "clone")
  /\ UNCHANGED <<main, attempt, base, tree, aim, changed, why, landed, faults>>

(* A full clone, of what the cache holds. It has the commit to revert: a   *)
(* pinned commit the lagging cache lacks makes git revert fail.            *)
Clone(r) ==
  /\ At(r, "clone")
  /\ \E p \in {q \in 2..Len(main) : q + CacheLag >= Len(main)} :
       /\ base' = [base EXCEPT ![r] = p]
       /\ tree' = [tree EXCEPT ![r] = main[p]]
  /\ attempt' = [attempt EXCEPT ![r] = 1]
  /\ Goto(r, "revert")
  /\ UNCHANGED <<main, aim, changed, why, landed, faults>>

(* Broken variant: HEAD is resolved once, by the first attempt. *)
AimOfFirstAttempt(r) ==
  IF Commit[r] # HEAD THEN Commit[r] ELSE IF attempt[r] = 1 THEN base[r] ELSE aim[r]

(* The commit the checkout resolves RevertConfig.Commit to. *)
Aim(r) == IF Commit[r] = HEAD THEN base[r] ELSE Commit[r]

(* git revert --no-commit: a conflict ends the call. *)
Revert(r) ==
  /\ At(r, "revert")
  /\ aim' = [aim EXCEPT ![r] = Aim(r)]
  /\ IF Aim(r) > base[r] \/ Conflicts(main, tree[r], Aim(r))
     THEN Return(r, "failed") /\ UNCHANGED tree
     ELSE /\ tree' = [tree EXCEPT ![r] = Undone(main, @, Aim(r))]
          /\ Goto(r, "commit")
  /\ UNCHANGED <<main, attempt, base, changed, why, landed, faults>>

(* Broken variant: git commit --allow-empty. *)
CommitRevertEmpty(r) ==
  /\ At(r, "commit")
  /\ changed' = [changed EXCEPT ![r] = TRUE]
  /\ Goto(r, "push")
  /\ UNCHANGED <<main, attempt, base, tree, aim, why, landed, faults>>

(* git commit refuses an empty commit, so a revert that changed nothing in *)
(* the tree ends the call with an error.                                   *)
CommitRevert(r) ==
  /\ At(r, "commit")
  /\ IF tree[r] = main[base[r]]
     THEN Return(r, "failed") /\ UNCHANGED changed
     ELSE /\ changed' = [changed EXCEPT ![r] = TRUE]
          /\ Goto(r, "push")
  /\ UNCHANGED <<main, attempt, base, tree, aim, why, landed, faults>>

(* Broken variant: the loop condition lets one attempt too many through. *)
RetryOneMore(r) ==
  IF attempt[r] <= MaxRetries
  THEN attempt' = [attempt EXCEPT ![r] = @ + 1] /\ Goto(r, "fetch")
  ELSE Return(r, "exhausted") /\ UNCHANGED attempt

(* Broken variant: the push alone is repeated, without fetch or counting. *)
RetryInPlace(r) == Goto(r, "push") /\ UNCHANGED attempt

(* A push that reported an error: go round again while attempts are left. *)
Retry(r) ==
  IF attempt[r] < MaxRetries
  THEN /\ attempt' = [attempt EXCEPT ![r] = @ + 1]
       /\ Goto(r, "fetch")
  ELSE /\ Return(r, "exhausted")
       /\ UNCHANGED attempt

FaultsLeft == \A r \in Reverter : faults[r] < MaxFaults

FastForward(r) == base[r] = Len(main)

Land(r) ==
  /\ main' = Append(main, tree[r])
  /\ why' = Append(why, aim[r])
  /\ landed' = [landed EXCEPT ![r] = @ \cup {Len(main')}]

PushAcked(r) ==
  /\ At(r, "push")
  /\ FastForward(r)
  /\ Land(r)
  /\ Return(r, "ok")
  /\ UNCHANGED <<attempt, base, tree, aim, changed, faults>>

(* The push fails: refused because main has moved, or by a fault that may  *)
(* strike before or after the commit has landed.                           *)
PushRejected(r) ==
  /\ At(r, "push")
  /\ ~FastForward(r)
  /\ Retry(r)
  /\ UNCHANGED <<main, base, tree, aim, changed, why, landed, faults>>

PushFault(r) ==
  /\ At(r, "push")
  /\ FaultsLeft
  /\ faults' = [faults EXCEPT ![r] = @ + 1]
  /\ \/ FastForward(r) /\ Land(r)
     \/ UNCHANGED <<main, why, landed>>
  /\ Retry(r)
  /\ UNCHANGED <<base, tree, aim, changed>>

(* Broken variant: git reset --soft, and the old revert is committed again. *)
FetchSoftReset(r) ==
  /\ At(r, "fetch")
  /\ base' = [base EXCEPT ![r] = Len(main)]
  /\ Goto(r, "commit")
  /\ UNCHANGED <<main, attempt, tree, aim, changed, why, landed, faults>>

(* git revert --abort finds nothing to abort; then fetch and reset --hard. *)
Fetch(r) ==
  /\ At(r, "fetch")
  /\ base' = [base EXCEPT ![r] = Len(main)]
  /\ tree' = [tree EXCEPT ![r] = Tip(main)]
  /\ Goto(r, "revert")
  /\ UNCHANGED <<main, attempt, aim, changed, why, landed, faults>>

(* Every other git command returns its error at once. *)
Fail(r) ==
  /\ pc[r] \in {"clone", "revert", "commit", "fetch"}
  /\ Return(r, "failed")
  /\ UNCHANGED <<main, attempt, base, tree, aim, changed, why, landed, faults>>

(* Another pipeline's deploy lands. *)
OtherDeploy ==
  /\ Len(main) < MaxMain
  /\ \E q \in Deploys :
       /\ Patchable(Tip(main), q)
       /\ \E t \in Patches(Tip(main), q) \ {Tip(main)} : main' = Append(main, t)
  /\ why' = Append(why, 0)
  /\ UNCHANGED <<local, landed, faults>>

Advance(r) ==
  \/ Call(r) \/ Clone(r) \/ Revert(r) \/ CommitRevert(r)
  \/ PushAcked(r) \/ PushRejected(r) \/ PushFault(r) \/ Fetch(r) \/ Fail(r)

Next == OtherDeploy \/ \E r \in Reverter : Advance(r)

Spec == Init /\ [][Next]_vars

(* A call that has begun is a running goroutine: it takes its next step. *)
FairSpec == Spec /\ \A r \in Reverter : WF_vars(pc[r] # "idle" /\ Advance(r))
-----------------------------------------------------------------------------
TypeOK ==
  /\ main \in Seq(Tree)
  /\ why \in Seq(Nat)
  /\ Len(why) = Len(main)
  /\ pc \in [Reverter -> Step]
  /\ attempt \in [Reverter -> 0..MaxRetries]
  /\ base \in [Reverter -> 1..Len(main)]
  /\ tree \in [Reverter -> Tree]
  /\ aim \in [Reverter -> 0..Len(main)]
  /\ changed \in [Reverter -> BOOLEAN]
  /\ result \in [Reverter -> Result]
  /\ landed \in [Reverter -> SUBSET (1..Len(main))]
  /\ faults \in [Reverter -> Nat]

(* A revert commit takes back exactly what its target changed: against the *)
(* commit before it, entries the target did not touch are as other deploys *)
(* left them, and entries it touched are back at their earlier value.      *)
RevertsExactlyItsTarget ==
  \A p \in 1..Len(main) : why[p] # 0 =>
    /\ why[p] < p
    /\ main[p] = Undone(main, main[p - 1], why[p])

(* A revert of HEAD lands on the very commit it reverts, so it restores    *)
(* the tree before the tip, however many deploys beat it to main.          *)
HeadRevertRestoresParent ==
  \A r \in Reverter : Commit[r] = HEAD =>
    \A p \in landed[r] : main[p] = main[p - 2]

(* A call that pins its commit and repeats a push that had landed unheard  *)
(* does so only when somebody has reinstalled what it had taken back.      *)
PinnedRepeatsOnlyAfterReinstall ==
  \A r \in Reverter : Commit[r] # HEAD =>
    \A p, q \in landed[r] : p < q =>
      \E i \in p + 1..q - 1 : \E f \in Touched(main, Commit[r]) :
        main[i][f] = main[Commit[r]][f]

(* RevertConfig says that HEAD is the most recent deploy: then a call that *)
(* others beat to main, and that goes round again, reverts a deploy.       *)
RetriedHeadIsADeploy ==
  \A r \in Reverter : Commit[r] = HEAD /\ attempt[r] > 1 /\ result[r] = "ok" =>
    \A p \in landed[r] : why[why[p]] = 0

(* The same of every commit on main: none reverts a revert.                *)
HeadIsADeploy ==
  \A p \in 1..Len(main) : why[p] # 0 => why[why[p]] = 0

(* Every call that begins returns. *)
EveryCallReturns ==
  \A r \in Reverter : (pc[r] # "idle") ~> (pc[r] = "done")

(* Seen from main, the calls are the atomic reverts of GitopsUndo. *)
Told(r) ==
  CASE result[r] = "none" -> "none"
    [] result[r] = "ok" -> "ok"
    [] OTHER -> "error"

Atomic == INSTANCE GitopsUndo WITH outcome <- [r \in Reverter |-> Told(r)]

(* A revert is never of a stale tip, over a conflict, or nothing at all,   *)
(* and success is never reported without one, as a refinement: what is     *)
(* pushed was made in a checkout of the tip it lands on, whatever beat the *)
(* attempts before it.                                                     *)
RefinesGitopsUndo == Atomic!Spec
=============================================================================

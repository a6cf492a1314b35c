---------------------------- MODULE GitopsDeploy ----------------------------
(***************************************************************************)
(* Concurrent calls of gitops.Deploy against one gitops repository.        *)
(*                                                                         *)
(* A call clones main (perhaps from a gitcache that lags), then patches,   *)
(* commits and pushes, and on a failed push fetches main again and starts  *)
(* over, MaxRetries times at most. Main only ever grows, because git push  *)
(* refuses anything but a fast-forward, so a commit of main is named by    *)
(* its position and a local checkout by the position it is based on.       *)
(***************************************************************************)
EXTENDS GitopsRepo

CONSTANTS
  Deployer,     \* the calls of Deploy, each with a clone of its own
  Request,      \* what each call is asked to write
  MaxRetries,   \* DeployConfig.MaxRetries
  CacheLag,     \* how many commits a first clone may be behind main
  Start,        \* the trees main may begin with
  Foreign,      \* values that other writers give an entry
  MaxMain,      \* bound: others push only while main is shorter than this
  MaxFaults     \* bound on pushes that fail for no fault of main's

ASSUME DeployAssumption ==
  /\ Request \in [Deployer -> RequestSet]
  /\ MaxRetries \in Nat \ {0}
  /\ CacheLag \in Nat
  /\ Start \subseteq Tree
  /\ Foreign \subseteq Version \cup {Absent}
  /\ MaxMain \in Nat
  /\ MaxFaults \in Nat

VARIABLES
  main,       \* the trees of upstream main's commits, oldest first
  pc,         \* the step each call is about to take
  attempt,    \* the loop counter of the call
  base,       \* position in main the checkout was reset to
  tree,       \* the checkout's tree, patched from "commit" on
  changed,    \* the named result "changed"
  result      \* how the call returned: "none" while it runs

(* Variables that only the properties read. *)
VARIABLES
  begun,      \* Len(main) when the call began
  cloned,     \* position the first clone delivered
  landed,     \* positions in main of the call's commits
  lost,       \* how many of their pushes nevertheless reported failure
  faults      \* pushes that failed without reaching main or being refused

local == <<pc, attempt, base, tree, changed, result>>
aux == <<begun, cloned, landed, lost, faults>>
vars == <<main, local, aux>>

Step == {"idle", "authorize", "clone", "patch", "commit", "push", "fetch", "done"}
Result == {"none", "ok", "failed", "exhausted"}

Init ==
  /\ main \in {<<t>> : t \in Start}
  /\ pc = [d \in Deployer |-> "idle"]
  /\ attempt = [d \in Deployer |-> 0]
  /\ base = [d \in Deployer |-> 1]
  /\ tree = [d \in Deployer |-> main[1]]
  /\ changed = [d \in Deployer |-> FALSE]
  /\ result = [d \in Deployer |-> "none"]
  /\ begun = [d \in Deployer |-> 0]
  /\ cloned = [d \in Deployer |-> 1]
  /\ landed = [d \in Deployer |-> {}]
  /\ lost = [d \in Deployer |-> 0]
  /\ faults = [d \in Deployer |-> 0]

At(d, step) == pc[d] = step

Goto(d, step) ==
  /\ pc' = [pc EXCEPT ![d] = step]
  /\ UNCHANGED result

Return(d, how) ==
  /\ pc' = [pc EXCEPT ![d] = "done"]
  /\ result' = [result EXCEPT ![d] = how]

(* The call is made: a missing tag or a bad image reference ends it. *)
Call(d) ==
  /\ At(d, "idle")
  /\ begun' = [begun EXCEPT ![d] = Len(main)]
  /\ IF Request[d].valid THEN Goto(d, "authorize") ELSE Return(d, "failed")
  /\ UNCHANGED <<main, attempt, base, tree, changed, cloned, landed, lost, faults>>

(* Only a 403 blocks, and only outside a job the controller dispatched; no *)
(* answer, or an answer that is neither 200 nor 403, lets the call go on.  *)
Authorize(d) ==
  /\ At(d, "authorize")
  /\ \E answer \in {200, 403, 500} :
       IF answer = 403 /\ Request[d].gate = "outside"
       THEN Return(d, "failed")
       ELSE Goto(d, "clone")
  /\ UNCHANGED <<main, attempt, base, tree, changed, aux>>

(* The clone is what the cache holds: main, or main up to CacheLag commits *)
(* ago. From here on origin is upstream.                                   *)
Clone(d) ==
  /\ At(d, "clone")
  /\ \E p \in {q \in 1..Len(main) : q + CacheLag >= Len(main)} :
       /\ base' = [base EXCEPT ![d] = p]
       /\ cloned' = [cloned EXCEPT ![d] = p]
       /\ tree' = [tree EXCEPT ![d] = main[p]]
  /\ attempt' = [attempt EXCEPT ![d] = 1]
  /\ Goto(d, "patch")
  /\ UNCHANGED <<main, changed, begun, landed, lost, faults>>

(* Broken variant: changed is decided anew by each attempt. *)
PatchForgetful(d) ==
  /\ At(d, "patch")
  /\ Patchable(tree[d], Request[d])
  /\ \E patched \in Patches(tree[d], Request[d]) :
       /\ tree' = [tree EXCEPT ![d] = patched]
       /\ changed' = [changed EXCEPT ![d] = patched # tree[d]]
       /\ IF patched = tree[d] THEN Return(d, "ok") ELSE Goto(d, "commit")
  /\ UNCHANGED <<main, attempt, base, aux>>

(* Broken variant: git commit --allow-empty, nothing staged or not. *)
PatchAlways(d) ==
  /\ At(d, "patch")
  /\ Patchable(tree[d], Request[d])
  /\ \E patched \in Patches(tree[d], Request[d]) : tree' = [tree EXCEPT ![d] = patched]
  /\ changed' = [changed EXCEPT ![d] = TRUE]
  /\ Goto(d, "commit")
  /\ UNCHANGED <<main, attempt, base, aux>>

(* Patch the checkout and stage it. Nothing staged means nothing to push;  *)
(* otherwise changed is set, before the commit and before the push.        *)
Patch(d) ==
  /\ At(d, "patch")
  /\ \/ /\ ~Patchable(tree[d], Request[d])
        /\ Return(d, "failed")
        /\ UNCHANGED <<tree, changed>>
     \/ /\ Patchable(tree[d], Request[d])
        /\ tree[d] \in Patches(tree[d], Request[d])
        /\ Return(d, "ok")
        /\ UNCHANGED <<tree, changed>>
     \/ /\ Patchable(tree[d], Request[d])
        /\ \E patched \in Patches(tree[d], Request[d]) \ {tree[d]} :
             tree' = [tree EXCEPT ![d] = patched]
        /\ changed' = [changed EXCEPT ![d] = TRUE]
        /\ Goto(d, "commit")
  /\ UNCHANGED <<main, attempt, base, aux>>

Commit(d) ==
  /\ At(d, "commit")
  /\ Goto(d, "push")
  /\ UNCHANGED <<main, attempt, base, tree, changed, aux>>

(* Broken variant: the loop condition lets one attempt too many through. *)
RetryOneMore(d) ==
  IF attempt[d] <= MaxRetries
  THEN attempt' = [attempt EXCEPT ![d] = @ + 1] /\ Goto(d, "fetch")
  ELSE Return(d, "exhausted") /\ UNCHANGED attempt

(* Broken variant: the push alone is repeated, without fetch or counting. *)
RetryInPlace(d) == Goto(d, "push") /\ UNCHANGED attempt

(* A push that reported an error: go round again while attempts are left. *)
Retry(d) ==
  IF attempt[d] < MaxRetries
  THEN /\ attempt' = [attempt EXCEPT ![d] = @ + 1]
       /\ Goto(d, "fetch")
  ELSE /\ Return(d, "exhausted")
       /\ UNCHANGED attempt

FaultsLeft == \A d \in Deployer : faults[d] + lost[d] < MaxFaults

FastForward(d) == base[d] = Len(main)

PushAcked(d) ==
  /\ At(d, "push")
  /\ FastForward(d)
  /\ main' = Append(main, tree[d])
  /\ landed' = [landed EXCEPT ![d] = @ \cup {Len(main')}]
  /\ Return(d, "ok")
  /\ UNCHANGED <<attempt, base, tree, changed, begun, cloned, lost, faults>>

(* The commit lands and the connection breaks before git hears of it. *)
PushLost(d) ==
  /\ At(d, "push")
  /\ FastForward(d)
  /\ FaultsLeft
  /\ main' = Append(main, tree[d])
  /\ landed' = [landed EXCEPT ![d] = @ \cup {Len(main')}]
  /\ lost' = [lost EXCEPT ![d] = @ + 1]
  /\ Retry(d)
  /\ UNCHANGED <<base, tree, changed, begun, cloned, faults>>

PushRejected(d) ==
  /\ At(d, "push")
  /\ ~FastForward(d)
  /\ Retry(d)
  /\ UNCHANGED <<main, base, tree, changed, aux>>

PushFault(d) ==
  /\ At(d, "push")
  /\ FaultsLeft
  /\ faults' = [faults EXCEPT ![d] = @ + 1]
  /\ Retry(d)
  /\ UNCHANGED <<main, base, tree, changed, begun, cloned, landed, lost>>

(* Broken variant: reset without fetch returns to the tip of the first clone. *)
FetchOmitted(d) ==
  /\ At(d, "fetch")
  /\ tree' = [tree EXCEPT ![d] = main[base[d]]]
  /\ Goto(d, "patch")
  /\ UNCHANGED <<main, attempt, base, changed, aux>>

(* Broken variant: fetch without reset leaves the patched tree in place. *)
ResetOmitted(d) ==
  /\ At(d, "fetch")
  /\ Goto(d, "patch")
  /\ UNCHANGED <<main, attempt, base, tree, changed, aux>>

(* git fetch origin main; git reset --hard origin/main *)
Fetch(d) ==
  /\ At(d, "fetch")
  /\ base' = [base EXCEPT ![d] = Len(main)]
  /\ tree' = [tree EXCEPT ![d] = Tip(main)]
  /\ Goto(d, "patch")
  /\ UNCHANGED <<main, attempt, changed, aux>>

(* Every other git command and file operation returns its error at once. *)
Fail(d) ==
  /\ pc[d] \in {"clone", "patch", "commit", "fetch"}
  /\ Return(d, "failed")
  /\ UNCHANGED <<main, attempt, base, tree, changed, aux>>

(* Somebody else commits to the gitops repository: one entry is rewritten, *)
(* added or removed.                                                       *)
External ==
  /\ Len(main) < MaxMain
  /\ \E f \in Field, v \in Foreign :
       /\ v # Tip(main)[f]
       /\ main' = Append(main, [Tip(main) EXCEPT ![f] = v])
  /\ UNCHANGED <<local, aux>>

Advance(d) ==
  \/ Call(d) \/ Authorize(d) \/ Clone(d) \/ Patch(d) \/ Commit(d)
  \/ PushAcked(d) \/ PushLost(d) \/ PushRejected(d) \/ PushFault(d)
  \/ Fetch(d) \/ Fail(d)

Next == External \/ \E d \in Deployer : Advance(d)

Spec == Init /\ [][Next]_vars

(* A call that has begun is a running goroutine: it takes its next step. *)
FairSpec == Spec /\ \A d \in Deployer : WF_vars(pc[d] # "idle" /\ Advance(d))
-----------------------------------------------------------------------------
TypeOK ==
  /\ main \in Seq(Tree)
  /\ Len(main) >= 1
  /\ pc \in [Deployer -> Step]
  /\ attempt \in [Deployer -> 0..MaxRetries]
  /\ base \in [Deployer -> Nat \ {0}]
  /\ tree \in [Deployer -> Tree]
  /\ changed \in [Deployer -> BOOLEAN]
  /\ result \in [Deployer -> Result]
  /\ begun \in [Deployer -> Nat]
  /\ cloned \in [Deployer -> Nat \ {0}]
  /\ landed \in [Deployer -> SUBSET (1..Len(main))]
  /\ lost \in [Deployer -> Nat]
  /\ faults \in [Deployer -> Nat]

(* A call that returns without error, by pushing or by finding nothing to  *)
(* push, saw its tag on main: some commit, no older than the cache was     *)
(* behind when the call began, carries every selected image at the tag.    *)
OkWasCarried ==
  \A d \in Deployer : result[d] = "ok" =>
    \E i \in 1..Len(main) : i + CacheLag >= begun[d] /\ Carries(main[i], Request[d])

(* The same since the call began, as the log line "tags already up to      *)
(* date" has it. A lagging gitcache breaks it: the line speaks of an old   *)
(* tree.                                                                   *)
OkCarriedSinceCall ==
  \A d \in Deployer : result[d] = "ok" =>
    \E i \in begun[d]..Len(main) : Carries(main[i], Request[d])

(* Running out of retries is never the call's own doing: each attempt was  *)
(* beaten by a commit that landed after its checkout, or was a fault. A    *)
(* call whose fetch did not really move its checkout would give up early.  *)
ExhaustedOnlyByConflict ==
  \A d \in Deployer : result[d] = "exhausted" =>
    MaxRetries <= (Len(main) - cloned[d]) + faults[d]

(* A call whose commit landed unheard does not commit again for nothing:   *)
(* if a second commit of it is on main, it wrote an entry that the first   *)
(* had set and that somebody has set back since, or a file patch that the  *)
(* first had left out.                                                     *)
LandsAgainOnlyIfNeeded ==
  \A d \in Deployer : \A p, q \in landed[d] : p < q =>
    \E f \in Field :
      /\ main[q][f] = Request[d].tag /\ main[q - 1][f] # Request[d].tag
      /\ main[p][f] = Request[d].tag \/ f \in Key

(* No silent write: once a commit of the call is on main, the call cannot  *)
(* return with changed = FALSE, whatever the later attempts found.         *)
LandedReportsChanged ==
  \A d \in Deployer : landed[d] # {} => changed[d]

(* Every call that begins returns. *)
EveryCallReturns ==
  \A d \in Deployer : (pc[d] # "idle") ~> (pc[d] = "done")

(* Seen from main, the calls are the atomic installs of GitopsMain. *)
Told(d) ==
  CASE result[d] = "none" -> "none"
    [] result[d] = "ok" -> "ok"
    [] OTHER -> "error"

Abstract == INSTANCE GitopsMain
  WITH outcome <- [d \in Deployer |-> Told(d)], Lag <- CacheLag

(* No lost update and no false success, as a refinement: a checkout that   *)
(* is not the tip never reaches main, so what other writers installed      *)
(* survives, and every success is true of a tip main had during the call,  *)
(* or of one the lagging cache still showed.                               *)
RefinesGitopsMain == Abstract!Spec
=============================================================================

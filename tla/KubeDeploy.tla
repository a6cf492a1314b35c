------------------------------ MODULE KubeDeploy ------------------------------
(***************************************************************************)
(* The kubectl path: a run of gke-deploy-gar-kubectl applies its manifest, *)
(* sets the image and waits; a run of deploy.Run with Local restarts the   *)
(* deployments. Either one probes the outcome and rolls back with          *)
(* rollback.Run, which undoes the deployments one by one.                  *)
(***************************************************************************)
EXTENDS HealthProbe, SequencesExt

CONSTANTS
  Deployer,   \* the runs, which may overlap
  Workloads,  \* the deployments, in the order a rollback takes them
  Latest,     \* the image the manifest names
  Tries,      \* the probe's attempts, Retry + 1
  Never       \* stamp of a template that was not restarted

ASSUME KubeAssumption ==
  /\ Tries \in Nat \ {0} /\ Latest \in STRING
  /\ Workloads \in Seq(STRING) /\ Len(Workloads) > 0

(* A kubectl context stands for the cluster it reaches: the pod's own, the *)
(* one a configuration names, and the one the kubeconfig happens to be at. *)
Cluster == {"own", "named", "current"}
App == Head(Workloads)
Deployment == ToSet(Workloads)

VARIABLES
  kcfg,       \* [kind, image, inside, context, dry, expect] of each run
  history,    \* ReplicaSets of each deployment in each cluster, oldest first
  kpc,        \* next step of each run
  todo,       \* deployments its loop has not reached
  stage,      \* stage whose failure has started its rollback
  attempt,    \* attempts of its probe
  verdict     \* the probe's last verdict

(* Variables that only the properties read. *)
VARIABLES
  ill,        \* whether the application may answer other than expected
  before,     \* what each deployment ran when each run began
  moves       \* how often it has changed since

kubeVars == <<kcfg, history, kpc, todo, stage, attempt, verdict, ill, before, moves>>

KubeInit(settings, past) ==
  /\ kcfg \in settings
  /\ ill \in BOOLEAN
  /\ history = [c \in Cluster |-> [d \in Deployment |-> past]]
  /\ kpc = [r \in Deployer |-> IF kcfg[r].kind = "gke" THEN "apply" ELSE "restart"]
  /\ todo = [r \in Deployer |-> Workloads]
  /\ stage = [r \in Deployer |-> "action"]
  /\ attempt = [r \in Deployer |-> 0]
  /\ verdict = [r \in Deployer |-> "none"]
  /\ before = [r \in Deployer |-> [c \in Cluster |-> [d \in Deployment |-> Last(past)]]]
  /\ moves = [r \in Deployer |-> [c \in Cluster |-> [d \in Deployment |-> 0]]]

Now(r, step) == kpc[r] = step
Then(r, step) == kpc' = [kpc EXCEPT ![r] = step]
Running(c, d) == Last(history[c][d])

Template == [image: STRING, restart: Deployer \cup {Never}]

(* A template that equals an older one brings its ReplicaSet back as the   *)
(* newest, instead of making another.                                      *)
Revise(c, d, template) ==
  IF template = Running(c, d) THEN UNCHANGED <<history, moves>>
  ELSE /\ history' = [history EXCEPT ![c][d] = Append(RemoveFirst(@, template), template)]
       /\ moves' = [r \in Deployer |-> [moves[r] EXCEPT ![c][d] = @ + 1]]

NoContext == ""

(* A run outside a cluster that names no context is refused. *)
ResolveContext(r, explicit) ==
  IF explicit # NoContext THEN explicit ELSE IF kcfg[r].inside THEN "own" ELSE "refused"

(* One kubectl call that gives d the template t[c]: echoed, refused, or run,  *)
(* and then its effect and its exit status may still part.                 *)
Kubectl(r, explicit, d, t, ok, failed) ==
  LET c == ResolveContext(r, explicit) IN
  \/ kcfg[r].dry /\ ok /\ UNCHANGED <<history, moves>>
  \/ ~kcfg[r].dry /\ failed /\ UNCHANGED <<history, moves>>
  \/ ~kcfg[r].dry /\ c # "refused" /\ Revise(c, d, t[c]) /\ (ok \/ failed)

(* rollout status, which changes nothing: done, or an error or the timeout. *)
RolloutStatus(r, explicit, ok, failed) ==
  /\ \/ (kcfg[r].dry \/ ResolveContext(r, explicit) # "refused") /\ ok
     \/ ~kcfg[r].dry /\ failed
  /\ UNCHANGED <<history, moves>>

-------------------------------------------------------------------------------
(* kube.Apply: the manifest's image replaces what an earlier deploy set. A *)
(* run that cannot fetch its GKE credentials fails here too.               *)
Apply(r) ==
  /\ Now(r, "apply")
  /\ Kubectl(r, kcfg[r].context, App,
             [c \in Cluster |-> [Running(c, App) EXCEPT !.image = Latest]],
             Then(r, "setImage"), Then(r, "decide"))
  /\ UNCHANGED <<kcfg, todo, stage, attempt, verdict, ill, before>>

SetImage(r) ==
  /\ Now(r, "setImage")
  /\ Kubectl(r, kcfg[r].context, App,
             [c \in Cluster |-> [Running(c, App) EXCEPT !.image = kcfg[r].image]],
             Then(r, "status"), Then(r, "decide"))
  /\ UNCHANGED <<kcfg, todo, stage, attempt, verdict, ill, before>>

AwaitRollout(r) ==
  /\ Now(r, "status")
  /\ RolloutStatus(r, kcfg[r].context, Then(r, "verify"), Then(r, "decide"))
  /\ UNCHANGED <<kcfg, todo, stage, attempt, verdict, ill, before>>

(* DeployKubectl restarts one deployment after the other and waits for     *)
(* none; it takes no context.                                              *)
Restart(r) ==
  /\ Now(r, "restart")
  /\ \/ /\ todo[r] = <<>>
        /\ Then(r, "verify") /\ todo' = [todo EXCEPT ![r] = Workloads]
        /\ UNCHANGED <<history, moves>>
     \/ /\ todo[r] # <<>>
        /\ LET d == Head(todo[r])
               gone(rest) == todo' = [todo EXCEPT ![r] = rest]
           IN Kubectl(r, NoContext, d, [c \in Cluster |-> [Running(c, d) EXCEPT !.restart = r]],
                      gone(Tail(todo[r])) /\ UNCHANGED kpc,
                      gone(Workloads) /\ Then(r, "decide"))
  /\ UNCHANGED <<kcfg, stage, attempt, verdict, ill, before>>

(* What the address of the probe may answer: nothing or a gateway's reply, *)
(* an error of an application that is ill, or the reply asked for.          *)
Answers(r) ==
  {NoAnswer, [status |-> 403, body |-> "undecodable"]}
  \cup (IF ill THEN {[status |-> 503, body |-> "differs"]} ELSE {})
  \cup {a \in Reply : a.body = "matches" /\ AsExpected(kcfg[r].expect, a.status)}

(* Check: healthy ends it, otherwise the last failure stands. A probe that *)
(* is cancelled between two attempts does not know.                        *)
Probe(r) ==
  /\ Now(r, "verify")
  /\ \/ \E a \in Answers(r) :
          LET v == Once(kcfg[r].expect, a) IN
          /\ verdict' = [verdict EXCEPT ![r] = v]
          /\ attempt' = [attempt EXCEPT ![r] = @ + 1]
          /\ \/ v = "healthy" /\ Then(r, "done") /\ UNCHANGED stage
             \/ v # "healthy" /\ attempt'[r] < Tries /\ UNCHANGED <<kpc, stage>>
             \/ /\ v # "healthy" /\ attempt'[r] = Tries
                /\ Then(r, "decide") /\ stage' = [stage EXCEPT ![r] = "verify"]
     \/ /\ attempt[r] > 0
        /\ verdict' = [verdict EXCEPT ![r] = "indeterminate"]
        /\ Then(r, "decide") /\ stage' = [stage EXCEPT ![r] = "verify"]
        /\ UNCHANGED attempt
  /\ UNCHANGED <<kcfg, history, todo, ill, before, moves>>

(* OnFailure: a verification that could not tell leaves things alone. *)
OnFailure(r) ==
  /\ Now(r, "decide")
  /\ \/ stage[r] = "verify" /\ Indeterminate(verdict[r]) /\ Then(r, "failed")
     \/ ~(stage[r] = "verify" /\ Indeterminate(verdict[r])) /\ Then(r, "undo")
  /\ UNCHANGED <<kcfg, history, todo, stage, attempt, verdict, ill, before, moves>>

(* The deployments one run rolls back: the template has one. *)
Undoes(r) == IF kcfg[r].kind = "gke" THEN <<App>> ELSE Workloads

(* kubectl rollout undo: back to the one before the newest. A deployment   *)
(* with only one stays, which kubectl reports as an error.                 *)
PreviousReplicaSet(c, d) ==
  LET h == history[c][d] IN IF Len(h) > 1 THEN h[Len(h) - 1] ELSE Last(h)

Undoing(r) == Head(todo[r])

Undoable(r) ==
  LET c == ResolveContext(r, kcfg[r].context) IN
  c # "refused" => Len(history[c][Undoing(r)]) > 1

(* Broken variant: what cannot be undone is passed over. *)
NextIsTried(r) == Then(r, "undoStatus")

(* RolloutUndo returns at its first failure, of an undo or of its status.  *)
UndoFails(r) == Then(r, "failed")

Undo(r) ==
  /\ Now(r, "undo")
  /\ Kubectl(r, kcfg[r].context, Undoing(r),
             [c \in Cluster |-> PreviousReplicaSet(c, Undoing(r))],
             (kcfg[r].dry \/ Undoable(r)) /\ Then(r, "undoStatus"), UndoFails(r))
  /\ UNCHANGED <<kcfg, todo, stage, attempt, verdict, ill, before>>

AwaitUndo(r) ==
  /\ Now(r, "undoStatus")
  /\ RolloutStatus(r, kcfg[r].context,
       LET rest == Tail(todo[r])
           more == Len(Workloads) - Len(rest) < Len(Undoes(r)) IN
       /\ todo' = [todo EXCEPT ![r] = IF more THEN rest ELSE @]
       /\ Then(r, IF more THEN "undo" ELSE "rolledBack"),
       UndoFails(r) /\ UNCHANGED todo)
  /\ UNCHANGED <<kcfg, stage, attempt, verdict, ill, before>>

KubeStep(r) ==
  \/ Apply(r) \/ SetImage(r) \/ AwaitRollout(r) \/ Restart(r)
  \/ Probe(r) \/ OnFailure(r) \/ Undo(r) \/ AwaitUndo(r)

KubeNext == \E r \in Deployer : KubeStep(r)

KubeSpec(settings, past) == KubeInit(settings, past) /\ [][KubeNext]_kubeVars

-------------------------------------------------------------------------------
KubeTypeOK ==
  /\ history \in [Cluster -> [Deployment -> Seq(Template)]]
  /\ \A r \in Deployer : todo[r] = <<>> \/ \E i \in DOMAIN Workloads : Head(todo[r]) = Workloads[i]
  /\ attempt \in [Deployer -> 0..Tries]
  /\ stage \in [Deployer -> {"action", "verify"}]
  /\ verdict \in [Deployer -> {"none", "healthy", "unhealthy", "indeterminate"}]

RollingBack(r) == kpc[r] \in {"undo", "undoStatus", "rolledBack"}

(* While the application itself answers as expected, no refused            *)
(* credential, broken connection or cancelled verification makes a run     *)
(* roll it back: only a deploy that failed, or an application that         *)
(* answered otherwise, moves production.                                   *)
HealthyStays == \A r \in Deployer : RollingBack(r) /\ stage[r] = "verify" => ill

(* A verification has failed and the rollback has reported success. *)
RolledBack(r) == kpc[r] = "rolledBack" /\ stage[r] = "verify" /\ ~kcfg[r].dry

(* A run that restarted its deployments, found the application ill and     *)
(* reports that it has rolled back has brought every one of them back to   *)
(* what it ran before, in the cluster the restarts went to: none was       *)
(* passed over because its own undo or that of another one failed. The     *)
(* restart and the undo are two changes; a deployment that has changed     *)
(* more often was changed by another run too and is exempt.                *)
RollbackRestores ==
  \A r \in Deployer :
    LET c == ResolveContext(r, NoContext) IN
    RolledBack(r) /\ kcfg[r].kind = "local" /\ ResolveContext(r, kcfg[r].context) = c =>
      \A d \in Deployment : moves[r][c][d] <= 2 => Running(c, d) = before[r][c][d]

(* SetImage is documented to make the ReplicaSet that a rollback returns   *)
(* from, to the most recent deploy before it. In the pipeline the apply of *)
(* the manifest comes in between, so that apply, image and undo are three  *)
(* changes, and the undo ends at what the manifest names.                  *)
GkeRollbackRestores ==
  \A r \in Deployer :
    LET c == ResolveContext(r, kcfg[r].context) IN
    RolledBack(r) /\ kcfg[r].kind = "gke" /\ moves[r][c][App] <= 3 =>
      Running(c, App).image = before[r][c][App].image
===============================================================================

------------------------------- MODULE ImagePush -------------------------------
(***************************************************************************)
(* docker.BuildAndPush and docker.BuildxPublish: an image is built under   *)
(* several names and pushed to one registry after the other, then          *)
(* DockerDeploy deploys it by name. Builds of one image may overlap, and   *)
(* those of one commit use the same names in one docker daemon.            *)
(*                                                                         *)
(* An image is the run that built it; a name is a registry and a tag.      *)
(***************************************************************************)
EXTENDS Naturals, Sequences

CONSTANTS
  Pusher,     \* the runs
  Ecr,        \* the registries that are ECR's
  NoImage

ASSUME ImageAssumption == NoImage \notin Pusher

VARIABLES
  orders,     \* [kind, registries, tags, ecr, dry] of each run
  daemon,     \* image behind each name in the docker daemon
  registry,   \* image behind each name in its registry
  ipc,        \* next step of each run
  unpushed,   \* names it has yet to push, in order
  digests,    \* image each of its pushes has named by digest, if any
  handed      \* name it has handed to the deployment

imageVars == <<orders, daemon, registry, ipc, unpushed, digests, handed>>

Commit(r) == orders[r].tags
RegistriesOf(r) == {orders[r].registries[i] : i \in DOMAIN orders[r].registries}

(* Broken variant: one tag for all registries. *)
DeployTagOnly(r, reg) == <<reg, "deploy", Commit(r)>>

(* The tag a registry is given: ECR the production tag, others the other.  *)
PrimaryTag(r, reg) == <<reg, IF reg \in Ecr THEN "prod" ELSE "deploy", Commit(r)>>

PushNames(r) ==
  [i \in DOMAIN orders[r].registries |-> PrimaryTag(r, orders[r].registries[i])]

(* imageRefs: buildx is given its tags, a version and a floating one. *)
ImageRefs(r) ==
  UNION {{<<reg, "version", Commit(r)>>, <<reg, "latest", "any">>} : reg \in RegistriesOf(r)}

Names(r) ==
  IF orders[r].kind = "buildx" THEN ImageRefs(r)
  ELSE {PrimaryTag(r, reg) : reg \in RegistriesOf(r)}

Ref == UNION {Names(r) : r \in Pusher}

(* What DockerDeploy deploys: the production tag at its ECR endpoint,      *)
(* wherever Registry has sent the push.                                    *)
Deployed(r) == <<orders[r].ecr, "prod", Commit(r)>>

ImageInit(settings) ==
  /\ orders \in settings
  /\ daemon = [t \in Ref |-> NoImage]
  /\ registry = [t \in Ref |-> NoImage]
  /\ ipc = [r \in Pusher |-> IF orders[r].kind = "buildx" THEN "publish" ELSE "login"]
  /\ unpushed = [r \in Pusher |-> <<>>]
  /\ digests = [r \in Pusher |-> [t \in Ref |-> NoImage]]
  /\ handed = [r \in Pusher |-> <<>>]

ImageAt(r, step) == ipc[r] = step
Proceeds(r, step) == ipc' = [ipc EXCEPT ![r] = step]

(* Only ECR needs a login; a failed one ends the build before it begins. *)
LogIn(r) ==
  /\ ImageAt(r, "login")
  /\ \/ Proceeds(r, "build")
     \/ ~orders[r].dry /\ RegistriesOf(r) \cap Ecr # {} /\ Proceeds(r, "failed")
  /\ UNCHANGED <<orders, daemon, registry, unpushed, digests, handed>>

(* docker build gives the image all its names at once, and takes them from *)
(* the images that had them.                                               *)
BuildImage(r) ==
  /\ ImageAt(r, "build")
  /\ \/ /\ Proceeds(r, "push")
        /\ unpushed' = [unpushed EXCEPT ![r] = PushNames(r)]
        /\ daemon' = IF orders[r].dry THEN daemon
                     ELSE [t \in Ref |-> IF t \in Names(r) THEN r ELSE daemon[t]]
     \/ ~orders[r].dry /\ Proceeds(r, "failed") /\ UNCHANGED <<daemon, unpushed>>
  /\ UNCHANGED <<orders, registry, digests, handed>>

Push(t, image) == registry' = [registry EXCEPT ![t] = image]

(* docker push takes what has the name by now. The first failure ends it,  *)
(* also one that is reported after the push.                               *)
PushImage(r) ==
  /\ ImageAt(r, "push") /\ unpushed[r] # <<>>
  /\ LET t == Head(unpushed[r]) IN
     \/ /\ IF orders[r].dry THEN UNCHANGED <<registry, digests>>
           ELSE /\ Push(t, daemon[t])
                /\ \E seen \in {daemon[t], NoImage} : digests' = [digests EXCEPT ![r][t] = seen]
        /\ unpushed' = [unpushed EXCEPT ![r] = Tail(@)]
        /\ UNCHANGED ipc
     \/ /\ ~orders[r].dry
        /\ Push(t, daemon[t]) \/ UNCHANGED registry
        /\ Proceeds(r, "failed") /\ UNCHANGED <<unpushed, digests>>
  /\ UNCHANGED <<orders, daemon, handed>>

(* DockerDeploy goes on to deploy.Run. *)
HandOver(r) ==
  /\ ImageAt(r, "push") /\ unpushed[r] = <<>>
  /\ Proceeds(r, "done")
  /\ handed' = [handed EXCEPT ![r] = IF orders[r].kind = "deploy" THEN Deployed(r) ELSE <<>>]
  /\ UNCHANGED <<orders, daemon, registry, unpushed, digests>>

(* buildx build --push: one command builds and pushes, past the daemon. One *)
(* that fails has pushed some of the names.                                *)
BuildxPublish(r) ==
  /\ ImageAt(r, "publish")
  /\ \E sent \in SUBSET Names(r) :
       /\ registry' = [t \in Ref |-> IF ~orders[r].dry /\ t \in sent THEN r ELSE registry[t]]
       /\ \/ ~orders[r].dry /\ Proceeds(r, "failed")
          \/ sent = Names(r) /\ Proceeds(r, "done")
  /\ UNCHANGED <<orders, daemon, unpushed, digests, handed>>

ImageNext ==
  \E r \in Pusher :
    LogIn(r) \/ BuildImage(r) \/ PushImage(r) \/ HandOver(r) \/ BuildxPublish(r)

ImageSpec(settings) == ImageInit(settings) /\ [][ImageNext]_imageVars

-------------------------------------------------------------------------------
ImageTypeOK ==
  /\ daemon \in [Ref -> Pusher \cup {NoImage}]
  /\ registry \in [Ref -> Pusher \cup {NoImage}]
  /\ digests \in [Pusher -> [Ref -> Pusher \cup {NoImage}]]

(* The images one finds under the names of a run: its own, or that of a    *)
(* run of the same commit.                                                 *)
Akin(r) == {q \in Pusher : Names(q) \cap Names(r) # {}}

(* After a build that succeeded every registry has an image of its commit, *)
(* the digests it returns name such images too, and the name DockerDeploy  *)
(* deploys is one of those pushed, unless Registry sent the push away from *)
(* the ECR endpoint. What fails elsewhere does not change that, nor does a *)
(* build that takes the names over between build and push.                 *)
DeployedIsPublished ==
  \A r \in Pusher : ImageAt(r, "done") /\ ~orders[r].dry =>
    /\ \A t \in Names(r) : registry[t] \in Akin(r) /\ digests[r][t] \in Akin(r) \cup {NoImage}
    /\ handed[r] # <<>> /\ orders[r].ecr \in RegistriesOf(r) =>
         \E q \in Akin(r) : handed[r] \in Names(q) /\ registry[handed[r]] = q
===============================================================================

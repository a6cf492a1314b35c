------------------------------ MODULE ReleaseTags ------------------------------
(***************************************************************************)
(* The release-modules job: check the tree, tag every module of spark.json *)
(* in the local clone, push all the tags. Releasers work in clones of      *)
(* their own, run the job again after a failure, and share one origin.     *)
(***************************************************************************)
EXTENDS Naturals, Sequences

CONSTANTS
  Releaser,   \* clones in which somebody releases the one version modelled
  Modules,    \* modules in the order of spark.json
  LastCommit, \* bound on the commits of main
  Untagged

ASSUME TagAssumption ==
  /\ LastCommit \in Nat /\ Untagged \notin 0..LastCommit
  /\ Modules \in Seq(STRING) /\ Len(Modules) > 0

Module == {Modules[i] : i \in DOMAIN Modules}

VARIABLES
  preview,    \* clones in which the job only previews
  head,       \* commit each clone is at
  localTag,   \* commit each module's tag names in each clone
  originTag,  \* and on origin
  rpc,        \* next step of each clone's job
  next        \* index of the module its loop is at

tagVars == <<preview, head, localTag, originTag, rpc, next>>

TagInit ==
  /\ preview \in SUBSET Releaser
  /\ head = [c \in Releaser |-> 0]
  /\ localTag = [c \in Releaser |-> [m \in Module |-> Untagged]]
  /\ originTag = [m \in Module |-> Untagged]
  /\ rpc = [c \in Releaser |-> "idle"]
  /\ next = [c \in Releaser |-> 1]

Tagging(c, step) == rpc[c] = step
Tagged(c, step) == rpc' = [rpc EXCEPT ![c] = step]

(* verifyClean and the checks of the version, before anything is tagged. *)
VerifyClean(c) ==
  /\ rpc[c] \in {"idle", "failed"}
  /\ \E step \in {"check", "failed"} : Tagged(c, step)
  /\ UNCHANGED <<preview, head, localTag, originTag, next>>

(* createTags first wants none of the tags to exist, here. *)
AllAbsent(c) == \A m \in Module : localTag[c][m] = Untagged

CheckTags(c) ==
  /\ Tagging(c, "check")
  /\ \/ AllAbsent(c) /\ Tagged(c, IF c \in preview THEN "done" ELSE "tag")
     \/ Tagged(c, "failed")
  /\ next' = [next EXCEPT ![c] = 1]
  /\ UNCHANGED <<preview, head, localTag, originTag>>

(* git tag does not move a tag: it fails where one is. *)
CreateTag(c) ==
  /\ Tagging(c, "tag")
  /\ LET m == Modules[next[c]] IN
     \/ /\ localTag[c][m] = Untagged
        /\ localTag' = [localTag EXCEPT ![c][m] = head[c]]
        /\ next' = [next EXCEPT ![c] = @ + 1]
        /\ Tagged(c, IF next[c] = Len(Modules) THEN "push" ELSE "tag")
     \/ Tagged(c, "failed") /\ UNCHANGED <<localTag, next>>
  /\ UNCHANGED <<preview, head, originTag>>

(* Broken variant: push --force. *)
PushForced(c, m) == TRUE

(* Origin takes a tag it does not have, or has like this. *)
Accepted(c, m) == originTag[m] \in {Untagged, localTag[c][m]}

(* One push of all the tags: each is taken or refused by itself, and the   *)
(* connection may break before any of them or before the answer.           *)
PushTags(c) ==
  /\ Tagging(c, "push")
  /\ \E sent \in {{}, {m \in Module : Accepted(c, m)}} :
       /\ originTag' = [m \in Module |-> IF m \in sent THEN localTag[c][m] ELSE originTag[m]]
       /\ \E end \in {"done", "failed"} : Tagged(c, end) /\ (end = "done" => sent = Module)
  /\ UNCHANGED <<preview, head, localTag, next>>

(* After a failure the tags are deleted by hand, as the error says. *)
DeleteTags(c) ==
  /\ Tagging(c, "failed")
  /\ \E gone \in SUBSET Module :
       localTag' = [localTag EXCEPT ![c] =
                      [m \in Module |-> IF m \in gone THEN Untagged ELSE localTag[c][m]]]
  /\ UNCHANGED <<preview, head, originTag, rpc, next>>

(* Between two runs of the job a clone moves on to a later commit, and git *)
(* brings along the tags it does not have.                                 *)
Pull(c) ==
  /\ rpc[c] \in {"idle", "failed"} /\ head[c] < LastCommit
  /\ head' = [head EXCEPT ![c] = @ + 1]
  /\ localTag' = [localTag EXCEPT ![c] =
                    [m \in Module |-> IF @[m] = Untagged THEN originTag[m] ELSE @[m]]]
  /\ UNCHANGED <<preview, originTag, rpc, next>>

TagNext ==
  \E c \in Releaser :
    \/ VerifyClean(c) \/ CheckTags(c) \/ CreateTag(c) \/ PushTags(c)
    \/ DeleteTags(c) \/ Pull(c)

TagSpec == TagInit /\ [][TagNext]_tagVars

-------------------------------------------------------------------------------
TagTypeOK ==
  /\ preview \subseteq Releaser
  /\ rpc \in [Releaser -> {"idle", "check", "tag", "push", "done", "failed"}]
  /\ head \in [Releaser -> 0..LastCommit]
  /\ localTag \in [Releaser -> [Module -> 0..LastCommit \cup {Untagged}]]
  /\ originTag \in [Module -> 0..LastCommit \cup {Untagged}]
  /\ next \in [Releaser -> 1..(Len(Modules) + 1)]

(* A release that succeeded is coordinated: origin has the tag of every    *)
(* module at the one commit that was released, however many attempts came  *)
(* before it, wherever they stopped and whoever else released. What an     *)
(* attempt left behind at another commit makes the next one fail instead.  *)
ReleasedAtOneCommit ==
  \A c \in Releaser \ preview : Tagging(c, "done") =>
    \A m \in Module : originTag[m] = head[c]
===============================================================================

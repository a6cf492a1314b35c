----------------------------- MODULE GitopsRepo -----------------------------
(***************************************************************************)
(* The data of the gitops repository that deploys and rollbacks write.     *)
(*                                                                         *)
(* A tree is what one commit of the branch main holds: for each image the  *)
(* version kustomization.yaml names, for each file-patch key its value.  A *)
(* version stands for everything newTag and digest say together; the YAML  *)
(* around it never changes what a deploy does.                             *)
(***************************************************************************)
EXTENDS Naturals, Sequences

CONSTANTS
  Image,     \* images listed in kustomization.yaml
  Key,       \* "name: key" entries that file patches rewrite
  Version,   \* values an entry can hold
  Absent     \* the entry does not occur in its file

ASSUME RepoAssumption ==
  /\ Image \cap Key = {}
  /\ Absent \notin Version

Field == Image \cup Key

Tree == [Field -> Version \cup {Absent}]

(* What one call of Deploy is asked to write. "valid" is what the checks on *)
(* Tag and ImageRefs decide before anything else happens; "gate" is how the *)
(* controller is consulted: not at all, from a laptop, or from a job that   *)
(* the controller dispatched.                                               *)
RequestSet ==
  [images : SUBSET Image, keys : SUBSET Key, tag : Version,
   valid : BOOLEAN, gate : {"none", "outside", "job"}]

Write(t, fs, v) == [f \in Field |-> IF f \in fs THEN v ELSE t[f]]

(* patchImageRefs refuses a kustomization that lacks a selected image. *)
Patchable(t, r) == \A i \in r.images : t[i] # Absent

(* The trees a patch may leave. Every image entry is set or Deploy fails; a *)
(* file patch whose file cannot be read or written, or lacks the key, only  *)
(* warns, and the commit goes on without it. Each key is in a file its own. *)
Patches(t, r) ==
  {Write(t, r.images \cup ks, r.tag) : ks \in SUBSET {k \in r.keys : t[k] # Absent}}

(* Every selected image runs the requested tag. *)
Carries(t, r) == \A i \in r.images : t[i] = r.tag

Tip(m) == m[Len(m)]

(* Entries that commit c of the history m changed. *)
Touched(m, c) == {f \in Field : m[c][f] # m[c - 1][f]}

(* A three-way merge: an entry c changed goes back, unless a later commit  *)
(* has given it a third value.                                             *)
Conflicts(m, t, c) == \E f \in Touched(m, c) : t[f] \notin {m[c][f], m[c - 1][f]}

Undone(m, t, c) == [f \in Field |-> IF f \in Touched(m, c) THEN m[c - 1][f] ELSE t[f]]
=============================================================================

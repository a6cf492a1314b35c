--------------------------- MODULE MCGitopsDeploy ---------------------------
(* A small instance of GitopsDeploy: two images, one file-patch key. *)
EXTENDS GitopsDeploy, TLC

CONSTANTS web, api, env, d1, d2, d3, v0, v1, v2

(* d1 and d2 deploy different tags of the same image, d2 also a second     *)
(* image and a file patch; d3's arguments are refused.                     *)
Requests ==
  d1 :> [images |-> {web}, keys |-> {}, tag |-> v1, valid |-> TRUE, gate |-> "job"]
  @@ d2 :> [images |-> {web, api}, keys |-> {env}, tag |-> v2, valid |-> TRUE,
            gate |-> "outside"]
  @@ d3 :> [images |-> {api}, keys |-> {}, tag |-> v1, valid |-> FALSE,
            gate |-> "none"]

AllOld == [f \in Field |-> v0]

(* main begins at the old version, or already at d1's tag. *)
StartTrees == {AllOld, [AllOld EXCEPT ![web] = v1]}
=============================================================================

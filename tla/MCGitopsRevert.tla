--------------------------- MODULE MCGitopsRevert ---------------------------
(* Small instances of GitopsRevert: a bad deploy of web sits on main.       *)
EXTENDS GitopsRevert, TLC

CONSTANTS web, api, r1, r2, v0, v1, v2

AllOld == [f \in Field |-> v0]

(* The first tree, then the deploy that turns out to be bad. *)
BadDeploy == <<AllOld, [AllOld EXCEPT ![web] = v1]>>

AllHead == [r \in Reverter |-> HEAD]
PinnedAndHead == [r \in Reverter |-> IF r = r1 THEN 2 ELSE HEAD]

Request(images, tag) ==
  [images |-> images, keys |-> {}, tag |-> tag, valid |-> TRUE, gate |-> "none"]

(* The other image, the bad image, or the bad version once more. *)
OtherDeploys == {Request({api}, v2), Request({web}, v2), Request({web}, v1)}
=============================================================================

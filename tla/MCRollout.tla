------------------------------ MODULE MCRollout ------------------------------
(* Small instances of Rollout: one image and two calls. *)
EXTENDS Rollout, TLC

CONSTANTS web, d, e, v0, v1, v2

Running(v) == [i \in Image |-> v]

(* v1 was deployed over v0, and is what the cluster runs. *)
StartMain == <<Running(v0), Running(v1)>>

Request(tag) ==
  [images |-> Image, keys |-> {}, tag |-> tag, valid |-> TRUE, gate |-> "none"]

Deploy(tag) == [kind |-> "deploy", request |-> Request(tag), app |-> TRUE]
Rollback(app) == [kind |-> "rollback", request |-> Request(v0), app |-> app]

Calls(first, second) == [r \in Runner |-> IF r = d THEN first ELSE second]

(* A new version against a rollback; the version that runs already,         *)
(* deployed again, against a rollback without a sync.                       *)
Pairs ==
  {Calls(Deploy(v2), Rollback(TRUE)), Calls(Deploy(v1), Rollback(FALSE))}

Alone == {Calls(Rollback(TRUE), Rollback(TRUE))}
=============================================================================

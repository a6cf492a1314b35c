------------------------------- MODULE MCCloud -------------------------------
(* Instances of CloudPipelines: two Lambda runs, two ECS runs, two Cloud    *)
(* Run runs of the same or of different templates, and a Cloud Run preview  *)
(* next to one of each template.                                            *)
EXTENDS CloudPipelines, TLC

CONSTANTS p1, p2, p3

Mix(a, b, c) == p1 :> a @@ p2 :> b @@ p3 :> c

Nobody == Mix("absent", "absent", "absent")

MCMixes ==
  {Mix("absent", k, k) : k \in {"lambda", "ecs", "gar", "source"}}
    \cup {Mix("preview", k, "absent") : k \in {"gar", "source"}}
    \cup {Mix("preview", "gar", "source"), Nobody}
===============================================================================

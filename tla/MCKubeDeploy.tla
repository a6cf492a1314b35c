----------------------------- MODULE MCKubeDeploy -----------------------------
(* Small instances of KubeDeploy: two pipelines, two deployments.          *)
EXTENDS KubeDeploy, TLC

CONSTANTS k1, k2

Deployments == <<"web", "worker">>
Past == <<[image |-> "v0", restart |-> Never], [image |-> "latest", restart |-> Never],
          [image |-> "v1", restart |-> Never]>>

Deploys(kind, image, inside, context, expect) ==
  [kind |-> kind, image |-> image, inside |-> inside, context |-> context, dry |-> FALSE,
   expect |-> expect]

(* Two pipelines that overlap: inside a cluster, outside with a context and *)
(* without one, expecting any success, an exact status or a JSON value.     *)
Pipelines ==
  {k1 :> a @@ k2 :> b :
     a \in {Deploys("gke", "v2", TRUE, "", [code |-> 0, json |-> FALSE]),
            Deploys("gke", "v1", FALSE, "named", [code |-> 200, json |-> FALSE])},
     b \in {Deploys("local", "none", TRUE, "", [code |-> 0, json |-> FALSE]),
            Deploys("local", "none", FALSE, "named", [code |-> 0, json |-> FALSE]),
            Deploys("local", "none", FALSE, "", [code |-> 401, json |-> FALSE]),
            [Deploys("gke", "v3", TRUE, "", [code |-> 0, json |-> TRUE]) EXCEPT !.dry = TRUE]}}

Deploying == KubeInit(Pipelines, Past) /\ [][KubeNext]_kubeVars
===============================================================================

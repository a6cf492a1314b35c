----------------------------- MODULE MCPublication -----------------------------
(* Small instances of what is published, and of what is not done again:     *)
(* images, static sites, the tags and the assets of releases, and memoized  *)
(* results.                                                                 *)
EXTENDS ImagePush, StaticSite, ReleaseTags, ReleaseAssets, ContentKey, TLC

CONSTANTS r1, r2, r3

Pair(a, b) == r1 :> a @@ r2 :> b

(* Two deploys of one commit to registries in different orders, a deploy    *)
(* whose push is redirected, one of another commit, a buildx publish, and a *)
(* dry run.                                                                 *)
Order(kind, registries, tags) ==
  [kind |-> kind, registries |-> registries, tags |-> tags, ecr |-> "ecr", dry |-> FALSE]
Orders ==
  {r1 :> Order("deploy", <<"ecr", "local">>, "c1") @@ r2 :> y @@ r3 :> z :
     y \in {Order("deploy", <<"local", "ecr">>, "c1"), Order("deploy", <<"local">>, "c1"),
            Order("deploy", <<"ecr">>, "c2")},
     z \in {Order("buildx", <<"ghcr">>, "c1"),
            [Order("deploy", <<"ecr">>, "c1") EXCEPT !.dry = TRUE]}}

(* The site that is there, one that drops a page and every asset, one with  *)
(* a page too deep to be checked, which refers to an asset it lacks, and a  *)
(* broken one.                                                              *)
Old == [assets |-> {"a1"}, refs |-> ("index" :> {"a1"} @@ "faq" :> {"a1"})]
MCBuilds ==
  {Old,
   [assets |-> {"a2"}, refs |-> ("index" :> {"a2"})],
   [assets |-> {"a3", "a1"}, refs |-> ("index" :> {"a3"} @@ "blog/post" :> {"a2"})],
   [assets |-> {"a2"}, refs |-> ("index" :> {"a1"})]}

Site(delete, account, dry) == [delete |-> delete, account |-> account, dry |-> dry]
Sites ==
  {Pair(x, y) : x \in {Site(TRUE, "unset", FALSE), Site(FALSE, "unset", FALSE)},
                y \in {Site(FALSE, "same", FALSE), Site(TRUE, "other", FALSE),
                       Site(TRUE, "other", TRUE)}}

MCModules == <<"kube", "gitops">>
MCPlatforms == <<"linux", "darwin">>

(* Two releases of one version and one of another. *)
MCVersionOf == r1 :> "v1" @@ r2 :> "v1" @@ r3 :> "v2"

(* The package app imports lib, of its module, and ext, which is not. *)
MCImports == "x" :> {} @@ "y" :> {"lib", "ext"} @@ Absent :> {}
MCTests == [f \in File |-> IF f = "app" THEN {"app_test"} ELSE {}]
MCBase == [f \in File |-> IF f = "app_test" THEN Absent ELSE "x"]
Files == [f \in File |-> IF f = "app" THEN "y" ELSE "x"]

Keyed(kind, spec, globs, based) ==
  [kind |-> kind, salt |-> "v1", spec |-> spec, globs |-> globs, based |-> based]

(* A package's tests next to the same, to another package with the same     *)
(* files, to a plain list of files and to a guarded job.                    *)
Nodes ==
  {Pair(Keyed("gopkg", "app", {"lib"}, TRUE), y) :
     y \in {Keyed("gopkg", "app", {"lib"}, TRUE), Keyed("gopkg", "lib", {"app"}, TRUE),
            Keyed("paths", "app", {"app", "lib"}, TRUE),
            Keyed("skip", "app", {"app", "lib"}, TRUE), Keyed("skip", "app", {"app", "lib"}, FALSE)}}
================================================================================

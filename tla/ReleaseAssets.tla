----------------------------- MODULE ReleaseAssets -----------------------------
(***************************************************************************)
(* github-release-go: CrossBuildGo compiles a binary per platform into the *)
(* release directory, Checksums writes a manifest of what lies there, and  *)
(* GitHubRelease uploads both. The directory outlives the run.             *)
(***************************************************************************)
EXTENDS Naturals, Sequences

CONSTANTS
  Builder,    \* the runs: each builds one tree
  VersionOf,  \* the version each run's tree declares
  Platforms,  \* the platforms, in the order they are built
  Missing

ASSUME AssetAssumption ==
  /\ Missing \notin Builder
  /\ Platforms \in Seq(STRING) /\ Len(Platforms) > 0

VARIABLES
  rehearsal,  \* runs that only print the gh command
  dist,       \* run whose tree each artifact in the directory is built from
  manifest,   \* checksums.txt: the artifacts listed, and whose they are
  bpc,        \* next step of each run
  platform,   \* index of the platform its loop is at
  release,    \* published release of each version
  sole        \* runs since whose start no other has written the directory

assetVars == <<rehearsal, dist, manifest, bpc, platform, release, sole>>

Platform == {Platforms[i] : i \in DOMAIN Platforms}
Version == {VersionOf[r] : r \in Builder}

(* ArtifactPath *)
Artifact == Version \X Platform
Artifacts(r) == {VersionOf[r]} \X Platform

AssetInit(settings) ==
  /\ rehearsal \in settings
  /\ dist = [a \in Artifact |-> Missing]
  /\ manifest = [a \in Artifact |-> Missing]
  /\ bpc = [r \in Builder |-> "start"]
  /\ platform = [r \in Builder |-> 1]
  /\ release = [v \in Version |-> Missing]
  /\ sole = {}

Building(r, step) == bpc[r] = step
Built(r, step) == bpc' = [bpc EXCEPT ![r] = step]

(* DeriveVersion or ChangelogEntry, and the directory, which is kept.      *)
Derive(r) ==
  /\ Building(r, "start")
  /\ \E step \in {"build", "failed"} : Built(r, step)
  /\ sole' = sole \cup {r}
  /\ UNCHANGED <<rehearsal, dist, manifest, platform, release>>

Written(r) == sole' = sole \cap {r}

AfterPlatform(r) == IF platform[r] = Len(Platforms) THEN "checksum" ELSE "build"

(* go build replaces the artifact, or fails and leaves it.                 *)
CrossBuild(r) ==
  /\ Building(r, "build")
  /\ \/ /\ dist' = [dist EXCEPT ![<<VersionOf[r], Platforms[platform[r]]>>] = r]
        /\ platform' = [platform EXCEPT ![r] = @ + 1]
        /\ Built(r, AfterPlatform(r))
        /\ Written(r)
     \/ Built(r, "failed") /\ UNCHANGED <<dist, platform, sole>>
  /\ UNCHANGED <<rehearsal, manifest, release>>

(* Broken variant: a line that is there is not written again. *)
ListedOnce == [a \in Artifact |-> IF manifest[a] = Missing THEN dist[a] ELSE manifest[a]]

(* Without Files everything in the directory is listed, also the artifacts *)
(* of earlier runs.                                                        *)
Listed == dist

Checksums(r) ==
  /\ Building(r, "checksum")
  /\ \/ manifest' = Listed /\ Built(r, "release") /\ Written(r)
     \/ Built(r, "failed") /\ UNCHANGED <<manifest, sole>>
  /\ UNCHANGED <<rehearsal, dist, platform, release>>

(* gh release create uploads the artifacts of this run as they lie there   *)
(* now. It refuses a tag that has a release; its failure may come after it *)
(* has published.                                                          *)
GitHubRelease(r) ==
  /\ Building(r, "release")
  /\ \/ r \in rehearsal /\ Built(r, "done") /\ UNCHANGED release
     \/ /\ r \notin rehearsal /\ release[VersionOf[r]] = Missing
        /\ release' = [release EXCEPT ![VersionOf[r]] =
             [by |-> r, sums |-> [a \in Artifacts(r) |-> manifest[a]],
              files |-> [a \in Artifacts(r) |-> dist[a]], sole |-> r \in sole]]
        /\ \E end \in {"done", "failed"} : Built(r, end)
     \/ r \notin rehearsal /\ Built(r, "failed") /\ UNCHANGED release
  /\ UNCHANGED <<rehearsal, dist, manifest, platform, sole>>

AssetNext ==
  \E r \in Builder : Derive(r) \/ CrossBuild(r) \/ Checksums(r) \/ GitHubRelease(r)

AssetSpec(settings) == AssetInit(settings) /\ [][AssetNext]_assetVars

-------------------------------------------------------------------------------
AssetTypeOK ==
  /\ dist \in [Artifact -> Builder \cup {Missing}]
  /\ manifest \in [Artifact -> Builder \cup {Missing}]
  /\ platform \in [Builder -> 1..(Len(Platforms) + 1)]
  /\ \A r \in Builder : Building(r, "build") => platform[r] \in DOMAIN Platforms
  /\ sole \subseteq Builder

(* Every file of a release is built from the tree that was released and    *)
(* verifies against the manifest published with it, whatever earlier runs  *)
(* of the same or another version left in the directory. The exception is  *)
(* a run that shared the directory with another while it built.            *)
ReleaseVerifies ==
  \A v \in Version : release[v] # Missing /\ release[v].sole =>
    \A a \in DOMAIN release[v].files :
      release[v].files[a] = release[v].by /\ release[v].sums[a] = release[v].by
===============================================================================

---------------------------- MODULE Release_proofs ----------------------------
(***************************************************************************)
(* Theorems about releases: the tags of the release-modules job, for any   *)
(* modules, clones and commits, and the assets of GitHub releases, for any *)
(* runs, versions and platforms.                                           *)
(***************************************************************************)
EXTENDS ReleaseTags, ReleaseAssets, TLAPS

(* The tags a job has made name the commit it is at, and no job that only  *)
(* previews comes as far as making one.                                    *)
AtHead(c) ==
  /\ Tagging(c, "tag") =>
       /\ c \notin preview /\ next[c] \in 1..Len(Modules)
       /\ \A i \in 1..(next[c] - 1) : localTag[c][Modules[i]] = head[c]
  /\ Tagging(c, "push") => c \notin preview /\ \A m \in Module : localTag[c][m] = head[c]
  /\ Tagging(c, "done") /\ c \notin preview => \A m \in Module : originTag[m] = head[c]

TagInv == TagTypeOK /\ \A c \in Releaser : AtHead(c)

-------------------------------------------------------------------------------
LEMMA ModuleFacts == Len(Modules) \in Nat \ {0} /\ Module = {Modules[i] : i \in 1..Len(Modules)}
  BY TagAssumption DEF Module

LEMMA TagFacts ==
  ASSUME TagTypeOK, NEW c \in Releaser
  PROVE  \A m \in Module : /\ localTag[c][m] \in 0..LastCommit \cup {Untagged}
                           /\ originTag[m] \in 0..LastCommit \cup {Untagged}
  BY DEF TagTypeOK

LEMMA TaggedFacts ==
  ASSUME TagTypeOK, NEW c \in Releaser,
         NEW step \in {"idle", "check", "tag", "push", "done", "failed"}, Tagged(c, step)
  PROVE  /\ rpc' \in [Releaser -> {"idle", "check", "tag", "push", "done", "failed"}]
         /\ rpc'[c] = step
         /\ \A d \in Releaser \ {c} : rpc'[d] = rpc[d]
  BY DEF TagTypeOK, Tagged

(* What the job of one clone does leaves the part of the others alone: the *)
(* tags on origin that a finished release relies on do not move.           *)
LEMMA OthersStay ==
  ASSUME TagTypeOK, NEW c \in Releaser, NEW d \in Releaser \ {c}, AtHead(d),
         rpc'[d] = rpc[d], next'[d] = next[d], head'[d] = head[d],
         localTag'[d] = localTag[d], UNCHANGED <<preview, originTag>>
  PROVE  AtHead(d)'
  BY DEF AtHead, Tagging

LEMMA InitInv == TagInit => TagInv
<1> SUFFICES ASSUME TagInit PROVE TagInv
  OBVIOUS
<1>1. TagTypeOK
  BY TagAssumption, ModuleFacts DEF TagInit, TagTypeOK
<1>2. \A c \in Releaser : AtHead(c)
  BY DEF TagInit, AtHead, Tagging
<1> QED
  BY <1>1, <1>2 DEF TagInv

LEMMA StepInv == TagInv /\ [TagNext]_tagVars => TagInv'
<1> SUFFICES ASSUME TagInv, [TagNext]_tagVars PROVE TagInv'
  OBVIOUS
<1> USE ModuleFacts, TagAssumption
<1>t. TagTypeOK /\ \A c \in Releaser : AtHead(c)
  BY DEF TagInv
<1>1. CASE UNCHANGED tagVars
  BY <1>1 DEF TagInv, TagTypeOK, AtHead, Tagging, tagVars
<1>2. ASSUME NEW c \in Releaser, VerifyClean(c) PROVE TagInv'
  <2>1. PICK step \in {"check", "failed"} : Tagged(c, step)
    BY <1>2 DEF VerifyClean
  <2>2. TagTypeOK'
    BY <1>2, <1>t, <2>1, TaggedFacts DEF VerifyClean, TagTypeOK
  <2>3. AtHead(c)'
    BY <1>t, <2>1, TaggedFacts DEF AtHead, Tagging
  <2>4. \A d \in Releaser \ {c} : AtHead(d)'
    BY <1>2, <1>t, <2>1, TaggedFacts DEF VerifyClean, AtHead, Tagging
  <2> QED
    BY <2>2, <2>3, <2>4 DEF TagInv
<1>3. ASSUME NEW c \in Releaser, CheckTags(c) PROVE TagInv'
  <2>1. PICK step \in {"done", "tag", "failed"} :
          /\ Tagged(c, step)
          /\ step = "tag" => c \notin preview
          /\ step = "done" => c \in preview
    BY <1>3 DEF CheckTags
  <2>2. next'[c] = 1 /\ \A d \in Releaser \ {c} : next'[d] = next[d]
    BY <1>3, <1>t DEF CheckTags, TagTypeOK
  <2>3. TagTypeOK'
    <3>1. next' \in [Releaser -> 1..(Len(Modules) + 1)]
      BY <1>3, <1>t DEF CheckTags, TagTypeOK
    <3>2. UNCHANGED <<preview, head, localTag, originTag>>
      BY <1>3 DEF CheckTags
    <3>3. rpc' \in [Releaser -> {"idle", "check", "tag", "push", "done", "failed"}]
      BY <1>t, <2>1, TaggedFacts
    <3> QED
      BY <1>t, <3>1, <3>2, <3>3 DEF TagTypeOK
  <2>4. AtHead(c)'
    BY <1>3, <1>t, <2>1, <2>2, TaggedFacts DEF CheckTags, AtHead, Tagging
  <2>5. \A d \in Releaser \ {c} : AtHead(d)'
    BY <1>3, <1>t, <2>1, <2>2, TaggedFacts DEF CheckTags, AtHead, Tagging
  <2> QED
    BY <2>3, <2>4, <2>5 DEF TagInv
<1>4. ASSUME NEW c \in Releaser, CreateTag(c) PROVE TagInv'
  <2> DEFINE m == Modules[next[c]]
  <2>0. next[c] \in 1..Len(Modules) /\ m \in Module /\ c \notin preview
    BY <1>4, <1>t DEF CreateTag, AtHead
  <2>1. CASE Tagged(c, "failed") /\ UNCHANGED <<localTag, next>>
    <3>1. TagTypeOK'
      BY <1>4, <1>t, <2>1, TaggedFacts DEF CreateTag, TagTypeOK
    <3>2. \A d \in Releaser : AtHead(d)'
      BY <1>4, <1>t, <2>1, TaggedFacts DEF CreateTag, AtHead, Tagging
    <3> QED
      BY <3>1, <3>2 DEF TagInv
  <2>2. CASE /\ localTag[c][m] = Untagged
             /\ localTag' = [localTag EXCEPT ![c][m] = head[c]]
             /\ next' = [next EXCEPT ![c] = @ + 1]
             /\ Tagged(c, IF next[c] = Len(Modules) THEN "push" ELSE "tag")
    <3>1. /\ \A n \in Module : localTag'[c][n] = IF n = m THEN head[c] ELSE localTag[c][n]
          /\ \A d \in Releaser \ {c} : localTag'[d] = localTag[d] /\ next'[d] = next[d]
          /\ next'[c] = next[c] + 1
          /\ localTag' \in [Releaser -> [Module -> 0..LastCommit \cup {Untagged}]]
      BY <1>t, <2>2, <2>0 DEF TagTypeOK
    <3>2. rpc'[c] = (IF next[c] = Len(Modules) THEN "push" ELSE "tag")
          /\ (\A d \in Releaser \ {c} : rpc'[d] = rpc[d])
          /\ rpc' \in [Releaser -> {"idle", "check", "tag", "push", "done", "failed"}]
      BY <1>t, <2>2, TaggedFacts
    <3>4. UNCHANGED <<head, preview, originTag>>
      BY <1>4 DEF CreateTag
    <3>3. TagTypeOK'
      <4>1. next' \in [Releaser -> 1..(Len(Modules) + 1)]
        BY <1>t, <2>0, <2>2 DEF TagTypeOK
      <4> QED
        BY <1>t, <3>1, <3>2, <3>4, <4>1 DEF TagTypeOK
    <3>5. \A i \in 1..next[c] : localTag'[c][Modules[i]] = head[c]
      <4> SUFFICES ASSUME NEW i \in 1..next[c]
                   PROVE  localTag'[c][Modules[i]] = head[c]
        OBVIOUS
      <4>1. Modules[i] \in Module
        BY <2>0
      <4>2. CASE i = next[c]
        BY <2>0, <3>1, <4>2
      <4>3. CASE i # next[c]
        <5>1. i \in 1..(next[c] - 1)
          BY <2>0, <4>3
        <5>2. localTag[c][Modules[i]] = head[c]
          BY <1>4, <1>t, <5>1 DEF AtHead, CreateTag
        <5> QED
          BY <3>1, <4>1, <5>2
      <4> QED
        BY <4>2, <4>3
    <3>6. AtHead(c)'
      BY <2>0, <3>1, <3>2, <3>4, <3>5 DEF AtHead, Tagging
    <3>7. \A d \in Releaser \ {c} : AtHead(d)'
      BY <1>t, <3>1, <3>2, <3>4, OthersStay DEF TagTypeOK
    <3> QED
      BY <3>3, <3>6, <3>7 DEF TagInv
  <2> QED
    BY <1>4, <2>1, <2>2 DEF CreateTag
<1>5. ASSUME NEW c \in Releaser, PushTags(c) PROVE TagInv'
  <2>0. c \notin preview /\ (\A m \in Module : localTag[c][m] = head[c])
        /\ head[c] \in 0..LastCommit
    BY <1>5, <1>t DEF PushTags, AtHead, TagTypeOK
  <2>1. PICK sent \in {{}, {m \in Module : Accepted(c, m)}}, end \in {"done", "failed"} :
          /\ originTag' = [m \in Module |-> IF m \in sent THEN localTag[c][m] ELSE originTag[m]]
          /\ Tagged(c, end)
          /\ end = "done" => sent = Module
    BY <1>5 DEF PushTags
  <2>2. UNCHANGED <<preview, head, localTag, next>>
    BY <1>5 DEF PushTags
  <2>3. TagTypeOK'
    BY <1>t, <2>0, <2>1, <2>2, TaggedFacts DEF TagTypeOK
  <2>4. \A m \in Module : originTag[m] # Untagged => originTag'[m] = originTag[m]
    BY <2>1 DEF Accepted
  <2>5. AtHead(c)'
    BY <1>t, <2>0, <2>1, <2>2, TaggedFacts DEF AtHead, Tagging
  <2>6. \A d \in Releaser \ {c} : AtHead(d)'
    <3> SUFFICES ASSUME NEW d \in Releaser \ {c} PROVE AtHead(d)'
      OBVIOUS
    <3>1. rpc'[d] = rpc[d]
      BY <1>t, <2>1, TaggedFacts
    <3>2. head[d] \in 0..LastCommit
      BY <1>t DEF TagTypeOK
    <3>3. head[d] # Untagged
      BY <3>2
    <3> QED
      BY <1>t, <2>2, <2>4, <3>1, <3>3 DEF AtHead, Tagging
  <2> QED
    BY <2>3, <2>5, <2>6 DEF TagInv
<1>6. ASSUME NEW c \in Releaser, DeleteTags(c) PROVE TagInv'
  <2>1. PICK gone \in SUBSET Module :
          localTag' = [localTag EXCEPT ![c] =
                         [m \in Module |-> IF m \in gone THEN Untagged ELSE localTag[c][m]]]
    BY <1>6 DEF DeleteTags
  <2>2. TagTypeOK'
    <3> DEFINE left == [m \in Module |-> IF m \in gone THEN Untagged ELSE localTag[c][m]]
    <3>1. left \in [Module -> 0..LastCommit \cup {Untagged}]
      BY <1>t, TagFacts
    <3> HIDE DEF left
    <3>2. localTag' = [localTag EXCEPT ![c] = left]
      BY <2>1 DEF left
    <3>3. localTag' \in [Releaser -> [Module -> 0..LastCommit \cup {Untagged}]]
      BY <1>t, <3>1, <3>2 DEF TagTypeOK
    <3> QED
      BY <1>6, <1>t, <3>3 DEF DeleteTags, TagTypeOK
  <2>3. \A d \in Releaser \ {c} : localTag'[d] = localTag[d]
    BY <1>t, <2>1 DEF TagTypeOK
  <2>4. AtHead(c)'
    BY <1>6, <1>t DEF DeleteTags, AtHead, Tagging
  <2>5. \A d \in Releaser \ {c} : AtHead(d)'
    BY <1>6, <1>t, <2>3, OthersStay DEF DeleteTags
  <2> QED
    BY <2>2, <2>4, <2>5 DEF TagInv
<1>7. ASSUME NEW c \in Releaser, Pull(c) PROVE TagInv'
  <2>1. TagTypeOK'
    <3> DEFINE brought == [m \in Module |-> IF localTag[c][m] = Untagged THEN originTag[m]
                                                                        ELSE localTag[c][m]]
    <3>1. brought \in [Module -> 0..LastCommit \cup {Untagged}]
      BY <1>t, TagFacts
    <3> HIDE DEF brought
    <3>2. localTag' = [localTag EXCEPT ![c] = brought]
      BY <1>7 DEF Pull, brought
    <3>3. localTag' \in [Releaser -> [Module -> 0..LastCommit \cup {Untagged}]]
      BY <1>t, <3>1, <3>2 DEF TagTypeOK
    <3>4. head' \in [Releaser -> 0..LastCommit]
      BY <1>7, <1>t DEF Pull, TagTypeOK
    <3> QED
      BY <1>7, <1>t, <3>3, <3>4 DEF Pull, TagTypeOK
  <2>2. \A d \in Releaser \ {c} : localTag'[d] = localTag[d] /\ head'[d] = head[d]
    BY <1>7, <1>t DEF Pull, TagTypeOK
  <2>3. AtHead(c)'
    BY <1>7, <1>t DEF Pull, AtHead, Tagging
  <2>4. \A d \in Releaser \ {c} : AtHead(d)'
    BY <1>7, <1>t, <2>2, OthersStay DEF Pull
  <2> QED
    BY <2>1, <2>3, <2>4 DEF TagInv
<1> QED
  BY <1>1, <1>2, <1>3, <1>4, <1>5, <1>6, <1>7 DEF TagNext

-------------------------------------------------------------------------------
(* Every variable of the job keeps its type, and its tags name the commit  *)
(* that is released.                                                       *)
THEOREM TagsInductive == TagSpec => []TagInv
<1>1. TagInit => TagInv
  BY InitInv
<1>2. TagInv /\ [TagNext]_tagVars => TagInv'
  BY StepInv
<1> QED
  BY <1>1, <1>2, PTL DEF TagSpec

(* A release that succeeded has the tag of every module on origin at the   *)
(* one commit that was released, for any number of modules, clones and     *)
(* failed attempts.                                                        *)
THEOREM ReleaseIsCoordinated == TagSpec => []ReleasedAtOneCommit
<1>1. TagInv => ReleasedAtOneCommit
  BY DEF TagInv, AtHead, ReleasedAtOneCommit
<1> QED
  BY <1>1, TagsInductive, PTL

-------------------------------------------------------------------------------
(* The assets. As long as nobody else has written the directory, the       *)
(* artifacts of a run are its own as far as its loop has come, and so are  *)
(* the lines of the manifest.                                              *)
AssetTypes ==
  /\ AssetTypeOK
  /\ bpc \in [Builder -> {"start", "build", "checksum", "release", "done", "failed"}]
  /\ \A r \in Builder : bpc[r] = "start" => platform[r] = 1
  /\ release = [v \in Version |-> release[v]]

OwnArtifacts(r) ==
  r \in sole =>
    /\ bpc[r] = "build" => \A i \in 1..(platform[r] - 1) : dist[<<VersionOf[r], Platforms[i]>>] = r
    /\ bpc[r] \in {"checksum", "release"} => \A a \in Artifacts(r) : dist[a] = r
    /\ bpc[r] = "release" => \A a \in Artifacts(r) : manifest[a] = r

AssetInv == AssetTypes /\ ReleaseVerifies /\ \A r \in Builder : OwnArtifacts(r)

LEMMA PlatformFacts ==
  ASSUME NEW r \in Builder
  PROVE  /\ Len(Platforms) \in Nat \ {0} /\ DOMAIN Platforms = 1..Len(Platforms)
         /\ Artifacts(r) \subseteq Artifact /\ VersionOf[r] \in Version
         /\ \A i \in 1..Len(Platforms) : <<VersionOf[r], Platforms[i]>> \in Artifact
         /\ \A a \in Artifacts(r) : \E i \in 1..Len(Platforms) : a = <<VersionOf[r], Platforms[i]>>
  BY AssetAssumption DEF Artifacts, Artifact, Version, Platform

LEMMA BuiltFacts ==
  ASSUME AssetTypes, NEW r \in Builder,
         NEW step \in {"start", "build", "checksum", "release", "done", "failed"}, Built(r, step)
  PROVE  /\ bpc' \in [Builder -> {"start", "build", "checksum", "release", "done", "failed"}]
         /\ bpc'[r] = step
         /\ \A q \in Builder : q # r => bpc'[q] = bpc[q]
  BY DEF AssetTypes, Built

LEMMA AssetInitially ==
  ASSUME NEW settings, AssetInit(settings)
  PROVE  AssetInv
<1>1. AssetTypes
  <2>1. Len(Platforms) \in Nat \ {0}
    BY AssetAssumption
  <2> QED
    BY <2>1 DEF AssetInit, AssetTypes, AssetTypeOK, Building
<1>2. ReleaseVerifies
  BY DEF AssetInit, ReleaseVerifies
<1> QED
  BY <1>1, <1>2 DEF AssetInit, AssetInv, OwnArtifacts

(* What a run has of its own stays while no other one writes. *)
LEMMA OtherBuilder ==
  ASSUME NEW q \in Builder, OwnArtifacts(q), bpc'[q] = bpc[q], platform'[q] = platform[q],
         q \in sole' => q \in sole /\ UNCHANGED <<dist, manifest>>
  PROVE  OwnArtifacts(q)'
  BY DEF OwnArtifacts, Artifacts, Platform

LEMMA DeriveStep ==
  ASSUME AssetInv, NEW r \in Builder, Derive(r)
  PROVE  AssetInv'
<1>0. AssetTypes /\ bpc[r] = "start" /\ platform[r] = 1
  BY DEF AssetInv, AssetTypes, Derive, Building
<1>1. UNCHANGED <<dist, manifest, platform, release>> /\ sole' = sole \cup {r}
  BY DEF Derive
<1>2. PICK step \in {"build", "failed"} : Built(r, step)
  BY DEF Derive
<1>3. /\ bpc' \in [Builder -> {"start", "build", "checksum", "release", "done", "failed"}]
      /\ bpc'[r] = step
      /\ \A q \in Builder : q # r => bpc'[q] = bpc[q]
  BY <1>0, <1>2, BuiltFacts
<1>4. AssetTypes'
  BY <1>0, <1>1, <1>3, PlatformFacts DEF AssetTypes, AssetTypeOK, Building
<1>5. ReleaseVerifies'
  BY <1>1 DEF AssetInv, ReleaseVerifies
<1>6. OwnArtifacts(r)'
  BY <1>0, <1>1, <1>3 DEF OwnArtifacts
<1>7. \A q \in Builder : q # r => OwnArtifacts(q)'
  BY <1>1, <1>3, OtherBuilder DEF AssetInv
<1> QED
  BY <1>4, <1>5, <1>6, <1>7 DEF AssetInv

LEMMA CrossBuildStep ==
  ASSUME AssetInv, NEW r \in Builder, CrossBuild(r)
  PROVE  AssetInv'
<1>0. AssetTypes /\ OwnArtifacts(r) /\ bpc[r] = "build"
      /\ platform[r] \in 1..Len(Platforms) /\ Len(Platforms) \in Nat \ {0}
  BY PlatformFacts DEF AssetInv, AssetTypes, AssetTypeOK, CrossBuild, Building
<1>1. UNCHANGED <<manifest, release>>
  BY DEF CrossBuild
<1>2. ReleaseVerifies'
  BY <1>1 DEF AssetInv, ReleaseVerifies
<1>3. CASE Built(r, "failed") /\ UNCHANGED <<dist, platform, sole>>
  <2>1. /\ bpc' \in [Builder -> {"start", "build", "checksum", "release", "done", "failed"}]
        /\ bpc'[r] = "failed"
        /\ \A q \in Builder : q # r => bpc'[q] = bpc[q]
    BY <1>0, <1>3, BuiltFacts
  <2>2. AssetTypes'
    BY <1>0, <1>1, <1>3, <2>1 DEF AssetTypes, AssetTypeOK, Building
  <2>3. \A q \in Builder : OwnArtifacts(q)'
    BY <1>1, <1>3, <2>1, OtherBuilder DEF AssetInv, OwnArtifacts
  <2> QED
    BY <1>2, <2>2, <2>3 DEF AssetInv
<1>4. CASE /\ dist' = [dist EXCEPT ![<<VersionOf[r], Platforms[platform[r]]>>] = r]
           /\ platform' = [platform EXCEPT ![r] = @ + 1]
           /\ Built(r, AfterPlatform(r))
           /\ sole' = sole \cap {r}
  <2>1. AfterPlatform(r) \in {"checksum", "build"}
    BY DEF AfterPlatform
  <2>2. /\ bpc' \in [Builder -> {"start", "build", "checksum", "release", "done", "failed"}]
        /\ bpc'[r] = AfterPlatform(r)
        /\ \A q \in Builder : q # r => bpc'[q] = bpc[q]
    BY <1>0, <1>4, <2>1, BuiltFacts
  <2>3. /\ platform' \in [Builder -> 1..(Len(Platforms) + 1)]
        /\ platform'[r] = platform[r] + 1
        /\ \A q \in Builder : q # r => platform'[q] = platform[q]
    BY <1>0, <1>4 DEF AssetTypes, AssetTypeOK
  <2>4. bpc'[r] = "build" => platform'[r] \in 1..Len(Platforms)
    BY <1>0, <2>2, <2>3 DEF AfterPlatform
  <2>5. dist \in [Artifact -> Builder \cup {Missing}]
        /\ <<VersionOf[r], Platforms[platform[r]]>> \in Artifact
    BY <1>0, PlatformFacts DEF AssetTypes, AssetTypeOK
  <2>6. AssetTypes'
    <3>1. dist' \in [Artifact -> Builder \cup {Missing}]
      BY <1>4, <2>5
    <3>2. \A q \in Builder : bpc'[q] = "build" => platform'[q] \in DOMAIN Platforms
      BY <1>0, <2>2, <2>3, <2>4, PlatformFacts DEF AssetTypes, AssetTypeOK, Building
    <3>3. \A q \in Builder : bpc'[q] = "start" => platform'[q] = 1
      BY <1>0, <2>1, <2>2, <2>3 DEF AssetTypes
    <3> QED
      BY <1>0, <1>1, <1>4, <2>2, <2>3, <3>1, <3>2, <3>3 DEF AssetTypes, AssetTypeOK, Building
  <2>7. ASSUME r \in sole, NEW i \in 1..platform[r]
        PROVE  dist'[<<VersionOf[r], Platforms[i]>>] = r
    <3>1. <<VersionOf[r], Platforms[i]>> \in Artifact
      BY <1>0, PlatformFacts
    <3>2. i # platform[r] => dist[<<VersionOf[r], Platforms[i]>>] = r
      BY <1>0, <2>7 DEF OwnArtifacts
    <3> QED
      BY <1>4, <2>5, <3>1, <3>2
  <2>8. OwnArtifacts(r)'
    <3>1. CASE bpc'[r] = "build"
      BY <1>0, <1>4, <2>3, <2>7, <3>1 DEF OwnArtifacts
    <3>2. CASE bpc'[r] = "checksum"
      <4>1. platform[r] = Len(Platforms)
        BY <2>2, <3>2 DEF AfterPlatform
      <4>2. r \in sole => \A a \in Artifacts(r) : dist'[a] = r
        BY <2>7, <4>1, PlatformFacts
      <4> QED
        BY <1>4, <3>2, <4>2 DEF OwnArtifacts, Artifacts, Platform
    <3> QED
      BY <2>1, <2>2, <3>1, <3>2
  <2>9. \A q \in Builder : q # r => OwnArtifacts(q)'
    BY <1>4 DEF OwnArtifacts
  <2> QED
    BY <1>2, <2>6, <2>8, <2>9 DEF AssetInv
<1> QED
  BY <1>3, <1>4 DEF CrossBuild, Written

LEMMA ChecksumsStep ==
  ASSUME AssetInv, NEW r \in Builder, Checksums(r)
  PROVE  AssetInv'
<1>0. AssetTypes /\ OwnArtifacts(r) /\ bpc[r] = "checksum"
  BY DEF AssetInv, Checksums, Building
<1>1. UNCHANGED <<dist, platform, release>>
  BY DEF Checksums
<1>2. ReleaseVerifies'
  BY <1>1 DEF AssetInv, ReleaseVerifies
<1>3. CASE Built(r, "failed") /\ UNCHANGED <<manifest, sole>>
  <2>1. /\ bpc' \in [Builder -> {"start", "build", "checksum", "release", "done", "failed"}]
        /\ bpc'[r] = "failed"
        /\ \A q \in Builder : q # r => bpc'[q] = bpc[q]
    BY <1>0, <1>3, BuiltFacts
  <2>2. AssetTypes'
    BY <1>0, <1>1, <1>3, <2>1 DEF AssetTypes, AssetTypeOK, Building
  <2>3. \A q \in Builder : OwnArtifacts(q)'
    BY <1>1, <1>3, <2>1, OtherBuilder DEF AssetInv, OwnArtifacts
  <2> QED
    BY <1>2, <2>2, <2>3 DEF AssetInv
<1>4. CASE manifest' = Listed /\ Built(r, "release") /\ sole' = sole \cap {r}
  <2>1. /\ bpc' \in [Builder -> {"start", "build", "checksum", "release", "done", "failed"}]
        /\ bpc'[r] = "release"
        /\ \A q \in Builder : q # r => bpc'[q] = bpc[q]
    BY <1>0, <1>4, BuiltFacts
  <2>2. AssetTypes'
    BY <1>0, <1>1, <1>4, <2>1 DEF AssetTypes, AssetTypeOK, Building, Listed
  <2>3. OwnArtifacts(r)'
    BY <1>0, <1>1, <1>4, <2>1 DEF OwnArtifacts, Listed, Artifacts, Platform
  <2>4. \A q \in Builder : q # r => OwnArtifacts(q)'
    BY <1>4 DEF OwnArtifacts
  <2> QED
    BY <1>2, <2>2, <2>3, <2>4 DEF AssetInv
<1> QED
  BY <1>3, <1>4 DEF Checksums, Written

LEMMA GitHubReleaseStep ==
  ASSUME AssetInv, NEW r \in Builder, GitHubRelease(r)
  PROVE  AssetInv'
<1>0. AssetTypes /\ OwnArtifacts(r) /\ bpc[r] = "release" /\ VersionOf[r] \in Version
  BY PlatformFacts DEF AssetInv, GitHubRelease, Building
<1>1. UNCHANGED <<dist, manifest, platform, sole>>
  BY DEF GitHubRelease
<1>2. PICK end \in {"done", "failed"} : Built(r, end)
  BY DEF GitHubRelease
<1>3. /\ bpc' \in [Builder -> {"start", "build", "checksum", "release", "done", "failed"}]
      /\ bpc'[r] = end
      /\ \A q \in Builder : q # r => bpc'[q] = bpc[q]
  BY <1>0, <1>2, BuiltFacts
<1> DEFINE published == [by |-> r, sums |-> [a \in Artifacts(r) |-> manifest[a]],
                         files |-> [a \in Artifacts(r) |-> dist[a]], sole |-> r \in sole]
<1>4. release' = release \/ release' = [release EXCEPT ![VersionOf[r]] = published]
  BY DEF GitHubRelease
<1>5. AssetTypes'
  BY <1>0, <1>1, <1>3, <1>4 DEF AssetTypes, AssetTypeOK, Building
<1>6. ASSUME published.sole, NEW a \in DOMAIN published.files
      PROVE  published.files[a] = published.by /\ published.sums[a] = published.by
  <2>1. r \in sole
    <3>1. published.sole = (r \in sole)
      OBVIOUS
    <3> QED
      BY <1>6, <3>1, Zenon
  <2>2. a \in Artifacts(r)
    BY <1>6
  <2> QED
    BY <1>0, <2>1, <2>2 DEF OwnArtifacts
<1>7. ReleaseVerifies'
  <2>1. \A v \in Version : release'[v] = release[v] \/ release'[v] = published
    BY <1>0, <1>4 DEF AssetTypes
  <2>2. ReleaseVerifies
    BY DEF AssetInv
  <2> HIDE DEF published
  <2>3. ASSUME NEW v \in Version, release'[v] # Missing, release'[v].sole,
               NEW a \in DOMAIN release'[v].files
        PROVE  release'[v].files[a] = release'[v].by /\ release'[v].sums[a] = release'[v].by
    <3>1. CASE release'[v] = release[v]
      BY <2>2, <2>3, <3>1 DEF ReleaseVerifies
    <3>2. CASE release'[v] = published
      BY <1>6, <2>3, <3>2
    <3> QED
      BY <2>1, <3>1, <3>2
  <2> QED
    BY <2>3 DEF ReleaseVerifies
<1>8. \A q \in Builder : OwnArtifacts(q)'
  BY <1>1, <1>3, OtherBuilder DEF AssetInv, OwnArtifacts
<1> QED
  BY <1>5, <1>7, <1>8 DEF AssetInv

LEMMA AssetInvariant ==
  ASSUME NEW settings
  PROVE  AssetSpec(settings) => []AssetInv
<1>1. AssetInit(settings) => AssetInv
  BY AssetInitially
<1>2. ASSUME AssetInv, [AssetNext]_assetVars
      PROVE  AssetInv'
  <2>1. CASE AssetNext
    BY <1>2, <2>1, DeriveStep, CrossBuildStep, ChecksumsStep, GitHubReleaseStep DEF AssetNext
  <2>2. CASE UNCHANGED assetVars
    BY <1>2, <2>2
      DEF assetVars, AssetInv, AssetTypes, AssetTypeOK, Building, ReleaseVerifies, OwnArtifacts,
          Artifacts, Platform
  <2> QED
    BY <1>2, <2>1, <2>2
<1> QED
  BY <1>1, <1>2, PTL DEF AssetSpec

(* The directory, the manifest and the loops keep their types: no loop runs *)
(* past the last platform.                                                  *)
THEOREM AssetTypeCorrect ==
  ASSUME NEW settings
  PROVE  AssetSpec(settings) => []AssetTypeOK
<1>1. AssetSpec(settings) => []AssetInv
  BY AssetInvariant
<1>2. AssetInv => AssetTypeOK
  BY DEF AssetInv, AssetTypes
<1> QED
  BY <1>1, <1>2, PTL

(* For any runs, versions and platforms, the files of a release are those   *)
(* of its tree and verify against its checksums, whatever the directory had *)
(* before, if no other run wrote there during the build.                    *)
THEOREM ReleaseChecksOut ==
  ASSUME NEW settings
  PROVE  AssetSpec(settings) => []ReleaseVerifies
<1>1. AssetSpec(settings) => []AssetInv
  BY AssetInvariant
<1>2. AssetInv => ReleaseVerifies
  BY DEF AssetInv
<1> QED
  BY <1>1, <1>2, PTL
===============================================================================

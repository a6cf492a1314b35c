------------------------------- MODULE StaticSite -------------------------------
(***************************************************************************)
(* StaticDeploy.Run and s3.DeployStaticSite: a built site is checked, then *)
(* its assets are synced, its pages copied and orphaned pages removed, one *)
(* object at a time. Several publishers may write to one bucket.           *)
(*                                                                         *)
(* Asset names carry a hash, so an asset is its name. A page is known by   *)
(* the build it comes from, which says what assets it refers to.           *)
(***************************************************************************)
EXTENDS Naturals, Sequences

CONSTANTS
  Publisher,
  Builds,     \* [assets, refs]: refs gives the assets of every page built
  Unchecked,  \* pages nested too deep for verifyHTMLChunkRefs to find them
  Excluded,   \* objects that Excludes protects
  NoPage

Asset == UNION {b.assets : b \in Builds}
Page == UNION {DOMAIN b.refs : b \in Builds}

ASSUME SiteAssumption == Unchecked \subseteq Page /\ Asset \cap Page = {}

VARIABLES
  site,       \* [delete, account, dry] of each publisher
  assets,     \* assets in the bucket
  pages,      \* build each page in the bucket comes from
  spc,        \* next step of each publisher
  out,        \* build in its OutDir
  transfers,  \* objects its running aws command has yet to put or remove
  alone       \* publishers since whose first write nobody else has written

siteVars == <<site, assets, pages, spc, out, transfers, alone>>

SiteInit(settings, first) ==
  /\ site \in settings
  /\ assets = first.assets
  /\ pages = [p \in Page |-> IF p \in DOMAIN first.refs THEN first ELSE NoPage]
  /\ spc = [r \in Publisher |-> "build"]
  /\ out = [r \in Publisher |-> first]
  /\ transfers = [r \in Publisher |-> {}]
  /\ alone = {}

SiteAt(r, step) == spc[r] = step
Onward(r, step) == spc' = [spc EXCEPT ![r] = step]

(* BuildOnly, on the host or in a container, or SkipBuild: whatever OutDir *)
(* now holds. What a failed one leaves is for the next build to replace.   *)
BuildSite(r) ==
  /\ SiteAt(r, "build")
  /\ \/ \E b \in Builds : out' = [out EXCEPT ![r] = b] /\ Onward(r, "verify")
     \/ Onward(r, "failed") /\ UNCHANGED out
  /\ UNCHANGED <<site, assets, pages, transfers, alone>>

(* Broken variant: the pages go up before what they refer to. *)
PagesFirst(step) ==
  CASE step = "verify" -> "html" [] step = "html" -> "assets"
    [] step = "assets" -> "orphans" [] OTHER -> "invalidate"

(* The order of the aws commands. *)
NextPass(step) ==
  CASE step = "verify" -> "assets" [] step = "assets" -> "html"
    [] step = "html" -> "orphans" [] OTHER -> "invalidate"

(* verifyHTMLChunkRefs looks at the pages of the first two levels. *)
RefsResolve(b) == \A p \in DOMAIN b.refs \ Unchecked : b.refs[p] \subseteq b.assets

(* The chunk references, then the account: the last checks before a write. *)
Verified(r) ==
  /\ SiteAt(r, "verify")
  /\ \/ RefsResolve(out[r]) /\ site[r].dry /\ Onward(r, "invalidate")
     \/ RefsResolve(out[r]) /\ ~site[r].dry /\ site[r].account # "other"
        /\ Onward(r, NextPass("verify"))
     \/ (~RefsResolve(out[r]) \/ (~site[r].dry /\ site[r].account # "unset"))
        /\ Onward(r, "failed")
  /\ UNCHANGED <<site, assets, pages, out, transfers, alone>>

(* Broken variant: sync instead of cp, which takes a page of the same size *)
(* and an older time for unchanged.                                        *)
SyncedPages(b) == {p \in DOMAIN b.refs : pages[p] = NoPage}

CopiedPages(b) == DOMAIN b.refs

(* What an aws command finds to do when it lists both sides.               *)
Pass(r, step) ==
  LET b == out[r] IN
  CASE step = "assets" ->
         ({"put"} \X (b.assets \ Excluded))
         \cup (IF site[r].delete THEN {"rm"} \X (assets \ (b.assets \cup Excluded)) ELSE {})
    [] step = "html" -> {"put"} \X (CopiedPages(b) \ Excluded)
    [] step = "orphans" ->
         IF site[r].delete
         THEN {"rm"} \X {p \in Page \ (DOMAIN b.refs \cup Excluded) : pages[p] # NoPage}
         ELSE {}

DuringPass(step) ==
  CASE step = "assets" -> "sync" [] step = "html" -> "copy" [] step = "orphans" -> "remove"

List(r, step) ==
  /\ SiteAt(r, step)
  /\ transfers' = [transfers EXCEPT ![r] = Pass(r, step)]
  /\ Onward(r, DuringPass(step))
  /\ alone' = IF step = "assets" THEN alone \cup {r} ELSE alone
  /\ UNCHANGED <<site, assets, pages, out>>

Transfer(r, op, x) ==
  /\ <<op, x>> \in transfers[r]
  /\ transfers' = [transfers EXCEPT ![r] = @ \ {<<op, x>>}]
  /\ \/ /\ x \in Asset /\ UNCHANGED pages
        /\ assets' = IF op = "put" THEN assets \cup {x} ELSE assets \ {x}
     \/ /\ x \in Page /\ UNCHANGED assets
        /\ pages' = [pages EXCEPT ![x] = IF op = "put" THEN out[r] ELSE NoPage]
  /\ alone' = alone \cap {r}
  /\ UNCHANGED <<site, spc, out>>

(* An aws command ends; one that fails ends the deploy where it is. *)
EndPass(r, step) ==
  /\ SiteAt(r, DuringPass(step))
  /\ \/ transfers[r] = {} /\ Onward(r, NextPass(step)) /\ UNCHANGED transfers
     \/ Onward(r, "failed") /\ transfers' = [transfers EXCEPT ![r] = {}]
  /\ UNCHANGED <<site, assets, pages, out, alone>>

(* Pages are not cached, so the CloudFront invalidation shows in nothing   *)
(* here but its failure.                                                   *)
Invalidate(r) ==
  /\ SiteAt(r, "invalidate")
  /\ \E end \in {"done", "failed"} : Onward(r, end)
  /\ UNCHANGED <<site, assets, pages, out, transfers, alone>>

SiteNext ==
  \E r \in Publisher :
    \/ BuildSite(r) \/ Verified(r) \/ Invalidate(r)
    \/ \E step \in {"assets", "html", "orphans"} : List(r, step) \/ EndPass(r, step)
    \/ \E t \in transfers[r] : Transfer(r, t[1], t[2])

SiteSpec(settings, first) == SiteInit(settings, first) /\ [][SiteNext]_siteVars

-------------------------------------------------------------------------------
SiteTypeOK ==
  /\ assets \subseteq Asset
  /\ pages \in [Page -> Builds \cup {NoPage}]
  /\ out \in [Publisher -> Builds]
  /\ alone \subseteq Publisher

Resolves(p) == pages[p] # NoPage => pages[p].refs[p] \subseteq assets

(* As long as no publisher deletes, a visitor never meets a page whose     *)
(* assets are missing: not while several deploy at once, not after one has *)
(* failed anywhere. Pages that are not checked before the sync are exempt, *)
(* and so is every page once a publisher deletes.                          *)
PagesAlwaysResolve ==
  (\A r \in Publisher : ~site[r].delete) => \A p \in Page \ Unchecked : Resolves(p)

(* After a deploy that succeeded with the bucket to itself the site is the *)
(* build: its pages are this build's, though others of the same name and   *)
(* size were there, their assets are there, and with Delete nothing else   *)
(* is, whatever broken deploys came before.                                *)
SuccessIsWhole ==
  \A r \in Publisher : SiteAt(r, "done") /\ r \in alone =>
    /\ \A p \in DOMAIN out[r].refs \ Excluded : pages[p] = out[r]
    /\ \A p \in DOMAIN out[r].refs \ (Unchecked \cup Excluded) : Resolves(p)
    /\ site[r].delete =>
         /\ assets \subseteq out[r].assets \cup Excluded
         /\ \A p \in Page \ (DOMAIN out[r].refs \cup Excluded) : pages[p] = NoPage
===============================================================================

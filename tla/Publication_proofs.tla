-------------------------- MODULE Publication_proofs --------------------------
(***************************************************************************)
(* Theorems about what is published and what is reused, for any images,    *)
(* builds of a site and trees of files, and any number of runs.            *)
(***************************************************************************)
EXTENDS StaticSite, ImagePush, ContentKey, TLAPS

-------------------------------------------------------------------------------
(* The static site. What each publisher has brought about at each step, as *)
(* long as nobody deletes, or as long as nobody else has written.          *)
Writing == {"assets", "sync", "html", "copy", "orphans", "remove"}

SiteTypes ==
  /\ assets \subseteq Asset
  /\ pages \in [Page -> Builds \cup {NoPage}]
  /\ spc \in [Publisher -> Writing \cup {"build", "verify", "invalidate", "done", "failed"}]
  /\ out \in [Publisher -> Builds]
  /\ transfers \in [Publisher -> SUBSET ({"put", "rm"} \X (Asset \cup Page))]
  /\ alone \subseteq Publisher

AssetsUp(r) == \A a \in out[r].assets \ Excluded : a \in assets \/ <<"put", a>> \in transfers[r]
PagesUp(r) ==
  \A p \in DOMAIN out[r].refs \ Excluded : pages[p] = out[r] \/ <<"put", p>> \in transfers[r]
AssetsGone(r) ==
  site[r].delete =>
    \A a \in assets : a \in out[r].assets \cup Excluded \/ <<"rm", a>> \in transfers[r]
PagesGone(r) ==
  site[r].delete =>
    \A p \in Page \ (DOMAIN out[r].refs \cup Excluded) : pages[p] = NoPage \/ <<"rm", p>> \in transfers[r]

(* What the transfers of each step are, none between the steps. *)
TransfersInv(r) ==
  /\ spc[r] \in Writing => RefsResolve(out[r])
  /\ spc[r] = "sync" => \A t \in transfers[r] :
       /\ t[2] \in Asset
       /\ t[1] = "put" => t[2] \in out[r].assets
       /\ t[1] = "rm" => site[r].delete /\ t[2] \notin out[r].assets
  /\ spc[r] = "copy" => \A t \in transfers[r] : t[1] = "put" /\ t[2] \in DOMAIN out[r].refs
  /\ spc[r] = "remove" => \A t \in transfers[r] :
       t[1] = "rm" /\ site[r].delete /\ t[2] \in Page \ DOMAIN out[r].refs
  /\ spc[r] \notin {"sync", "copy", "remove"} => transfers[r] = {}

AloneInv(r) ==
  /\ r \in alone => spc[r] \in {"sync", "html", "copy", "orphans", "remove", "invalidate", "done", "failed"}
  /\ r \in alone /\ spc[r] # "failed" => RefsResolve(out[r]) /\ AssetsUp(r) /\ AssetsGone(r)
  /\ r \in alone /\ spc[r] \in {"copy", "orphans", "remove", "invalidate", "done"} => PagesUp(r)
  /\ r \in alone /\ spc[r] \in {"remove", "invalidate", "done"} => PagesGone(r)

SiteInv == SiteTypes /\ \A r \in Publisher : TransfersInv(r) /\ AloneInv(r)

NobodyDeletes == \A r \in Publisher : ~site[r].delete

(* Without deletes what was uploaded stays, for every publisher. *)
KeptInv ==
  NobodyDeletes =>
    /\ \A r \in Publisher : spc[r] \in {"sync", "html", "copy", "orphans", "remove"} => AssetsUp(r)
    /\ \A p \in Page \ Unchecked : Resolves(p)

(* No page refers to an asset that Excludes keeps from being uploaded. *)
RefsNotExcluded == \A b \in Builds : \A p \in DOMAIN b.refs : b.refs[p] \cap Excluded = {}

LEMMA BuildFacts ==
  ASSUME NEW b \in Builds
  PROVE  b.assets \subseteq Asset /\ DOMAIN b.refs \subseteq Page
BY DEF Asset, Page

LEMMA SiteInitially ==
  ASSUME NEW settings, NEW first \in Builds, SiteInit(settings, first)
  PROVE  SiteInv /\ (RefsResolve(first) => KeptInv)
<1>1. SiteTypes
  BY BuildFacts DEF SiteInit, SiteTypes
<1>2. \A r \in Publisher : TransfersInv(r) /\ AloneInv(r)
  BY DEF SiteInit, TransfersInv, AloneInv, Writing
<1>3. RefsResolve(first) => \A p \in Page \ Unchecked : Resolves(p)
  BY DEF SiteInit, Resolves, RefsResolve
<1> QED
  BY <1>1, <1>2, <1>3 DEF SiteInit, SiteInv, KeptInv

(* What an aws command finds to do is about assets and pages. *)
LEMMA PassType ==
  ASSUME SiteTypes, NEW r \in Publisher, NEW step \in {"assets", "html", "orphans"}
  PROVE  Pass(r, step) \subseteq {"put", "rm"} \X (Asset \cup Page)
<1>1. out[r].assets \subseteq Asset /\ DOMAIN out[r].refs \subseteq Page
  BY BuildFacts DEF SiteTypes
<1>2. assets \subseteq Asset
  BY DEF SiteTypes
<1>3. CASE step = "assets"
  BY <1>1, <1>2, <1>3 DEF Pass
<1>4. CASE step = "html"
  BY <1>1, <1>4 DEF Pass, CopiedPages
<1>5. CASE step = "orphans"
  BY <1>1, <1>5 DEF Pass
<1> QED
  BY <1>3, <1>4, <1>5

LEMMA SiteTypesStep ==
  ASSUME SiteTypes, SiteNext
  PROVE  SiteTypes'
<1> USE DEF SiteTypes, Writing, Onward, SiteAt
<1> PICK r \in Publisher :
      \/ BuildSite(r) \/ Verified(r) \/ Invalidate(r)
      \/ \E step \in {"assets", "html", "orphans"} : List(r, step) \/ EndPass(r, step)
      \/ \E t \in transfers[r] : Transfer(r, t[1], t[2])
  BY DEF SiteNext
<1>1. CASE BuildSite(r)
  BY <1>1 DEF BuildSite
<1>2. CASE Verified(r)
  BY <1>2 DEF Verified, NextPass
<1>3. CASE Invalidate(r)
  BY <1>3 DEF Invalidate
<1>4. ASSUME NEW step \in {"assets", "html", "orphans"}, List(r, step)
      PROVE  SiteTypes'
  <2>1. Pass(r, step) \in SUBSET ({"put", "rm"} \X (Asset \cup Page))
    BY PassType
  <2> QED
    BY <2>1, <1>4 DEF List, DuringPass
<1>5. ASSUME NEW step \in {"assets", "html", "orphans"}, EndPass(r, step)
      PROVE  SiteTypes'
  <2>1. NextPass(step) \in {"html", "orphans", "invalidate"}
    BY DEF NextPass
  <2> QED
    BY <2>1, <1>5 DEF EndPass
<1>6. ASSUME NEW t \in transfers[r], Transfer(r, t[1], t[2])
      PROVE  SiteTypes'
  <2>1. assets' \subseteq Asset /\ pages' \in [Page -> Builds \cup {NoPage}]
    BY <1>6 DEF Transfer
  <2>2. transfers' \in [Publisher -> SUBSET ({"put", "rm"} \X (Asset \cup Page))]
    BY <1>6 DEF Transfer
  <2> QED
    BY <2>1, <2>2, <1>6 DEF Transfer
<1> QED
  BY <1>1, <1>2, <1>3, <1>4, <1>5, <1>6

(* Nothing changes for a publisher while another one moves on by itself. *)
LEMMA OtherPublisher ==
  ASSUME SiteInv, NEW q \in Publisher, UNCHANGED <<site, assets, pages>>,
         spc'[q] = spc[q], out'[q] = out[q], transfers'[q] = transfers[q], q \in alone' => q \in alone
  PROVE  TransfersInv(q)' /\ AloneInv(q)'
<1>1. TransfersInv(q) /\ AloneInv(q)
  BY DEF SiteInv
<1>2. TransfersInv(q)'
  BY <1>1 DEF TransfersInv, RefsResolve
<1>3. (AssetsUp(q) => AssetsUp(q)') /\ (AssetsGone(q) => AssetsGone(q)')
  BY DEF AssetsUp, AssetsGone
<1>4. (PagesUp(q) => PagesUp(q)') /\ (PagesGone(q) => PagesGone(q)')
  BY DEF PagesUp, PagesGone
<1>5. RefsResolve(out[q]) => RefsResolve(out[q])'
  BY DEF RefsResolve
<1> QED
  BY <1>1, <1>2, <1>3, <1>4, <1>5 DEF AloneInv

(* A build and what precedes the first write. *)
LEMMA BuildSiteStep ==
  ASSUME SiteInv, NEW r \in Publisher, BuildSite(r) \/ Verified(r) \/ Invalidate(r)
  PROVE  \A q \in Publisher : TransfersInv(q)' /\ AloneInv(q)'
<1> USE DEF SiteAt, Onward
<1>0. SiteTypes /\ TransfersInv(r) /\ AloneInv(r)
  BY DEF SiteInv
<1>1. UNCHANGED <<site, assets, pages, transfers, alone>>
  BY DEF BuildSite, Verified, Invalidate
<1>2. ASSUME NEW q \in Publisher, q # r
      PROVE  TransfersInv(q)' /\ AloneInv(q)'
  <2>1. spc'[q] = spc[q] /\ out'[q] = out[q] /\ transfers'[q] = transfers[q]
    BY <1>0, <1>2 DEF BuildSite, Verified, Invalidate, SiteTypes
  <2> QED
    BY <2>1, <1>1, OtherPublisher
<1>3. CASE BuildSite(r)
  <2>1. spc[r] = "build" /\ r \notin alone /\ spc'[r] \in {"verify", "failed"}
    BY <1>0, <1>3 DEF BuildSite, SiteTypes, AloneInv
  <2> QED
    BY <2>1, <1>0, <1>1, <1>2 DEF TransfersInv, AloneInv, Writing
<1>4. CASE Verified(r)
  <2>1. spc[r] = "verify" /\ r \notin alone /\ spc'[r] \in {"invalidate", "assets", "failed"} /\ out' = out
    BY <1>0, <1>4 DEF Verified, SiteTypes, AloneInv, NextPass
  <2>2. spc'[r] = "assets" => RefsResolve(out[r])
    BY <1>0, <1>4 DEF Verified, SiteTypes
  <2> QED
    BY <2>1, <2>2, <1>0, <1>1, <1>2 DEF TransfersInv, AloneInv, Writing, RefsResolve
<1>5. CASE Invalidate(r)
  <2>1. spc[r] = "invalidate" /\ spc'[r] \in {"done", "failed"} /\ out' = out
    BY <1>0, <1>5 DEF Invalidate, SiteTypes
  <2>2. TransfersInv(r)'
    BY <2>1, <1>0, <1>1 DEF TransfersInv, Writing
  <2>3. AloneInv(r)'
    BY <2>1, <1>0, <1>1 DEF AloneInv, RefsResolve, AssetsUp, AssetsGone, PagesUp, PagesGone
  <2> QED
    BY <2>2, <2>3, <1>2
<1> QED
  BY <1>3, <1>4, <1>5

(* What a command lists is what its step is yet to bring about. *)
LEMMA ListStep ==
  ASSUME SiteInv, NEW r \in Publisher, NEW step \in {"assets", "html", "orphans"}, List(r, step)
  PROVE  \A q \in Publisher : TransfersInv(q)' /\ AloneInv(q)'
<1>0. SiteTypes /\ TransfersInv(r) /\ AloneInv(r)
  BY DEF SiteInv
<1>1. UNCHANGED <<site, assets, pages, out>> /\ transfers'[r] = Pass(r, step) /\ transfers[r] = {}
      /\ spc[r] = step /\ spc'[r] = DuringPass(step) /\ RefsResolve(out[r])
  BY <1>0 DEF List, SiteAt, Onward, SiteTypes, TransfersInv, Writing
<1>2. ASSUME NEW q \in Publisher, q # r
      PROVE  TransfersInv(q)' /\ AloneInv(q)'
  <2>1. spc'[q] = spc[q] /\ transfers'[q] = transfers[q] /\ (q \in alone' => q \in alone)
    BY <1>0, <1>2 DEF List, Onward, SiteTypes
  <2> QED
    BY <2>1, <1>1, OtherPublisher
<1>3. out[r].assets \subseteq Asset /\ DOMAIN out[r].refs \subseteq Page /\ assets \subseteq Asset
  BY <1>0, BuildFacts DEF SiteTypes
<1>4. RefsResolve(out[r])'
  BY <1>1 DEF RefsResolve
<1>5. CASE step = "assets"
  <2>1. spc'[r] = "sync"
    BY <1>1, <1>5 DEF DuringPass
  <2>2. TransfersInv(r)'
    BY <1>1, <1>3, <1>4, <1>5, <2>1 DEF TransfersInv, Pass
  <2>3. AssetsUp(r)' /\ AssetsGone(r)'
    BY <1>1, <1>5 DEF AssetsUp, AssetsGone, Pass
  <2> QED
    BY <1>2, <1>4, <2>1, <2>2, <2>3 DEF AloneInv
<1>6. CASE step = "html"
  <2>1. spc'[r] = "copy" /\ alone' = alone
    BY <1>1, <1>6 DEF DuringPass, List
  <2>2. TransfersInv(r)'
    BY <1>1, <1>3, <1>4, <1>6, <2>1 DEF TransfersInv, Pass, CopiedPages
  <2>3. PagesUp(r)'
    BY <1>1, <1>6 DEF PagesUp, Pass, CopiedPages
  <2>4. r \in alone => AssetsUp(r)' /\ AssetsGone(r)'
    BY <1>0, <1>1, <1>6 DEF AloneInv, AssetsUp, AssetsGone
  <2> QED
    BY <1>2, <1>4, <2>1, <2>2, <2>3, <2>4 DEF AloneInv
<1>7. CASE step = "orphans"
  <2>1. spc'[r] = "remove" /\ alone' = alone
    BY <1>1, <1>7 DEF DuringPass, List
  <2>2. TransfersInv(r)'
    BY <1>1, <1>3, <1>4, <1>7, <2>1 DEF TransfersInv, Pass
  <2>3. PagesGone(r)'
    BY <1>1, <1>7 DEF PagesGone, Pass
  <2>4. r \in alone => AssetsUp(r)' /\ AssetsGone(r)' /\ PagesUp(r)'
    BY <1>0, <1>1, <1>7 DEF AloneInv, AssetsUp, AssetsGone, PagesUp
  <2> QED
    BY <1>2, <1>4, <2>1, <2>2, <2>3, <2>4 DEF AloneInv
<1> QED
  BY <1>5, <1>6, <1>7

(* A command ends when it has nothing left to do, or fails. *)
LEMMA EndPassStep ==
  ASSUME SiteInv, NEW r \in Publisher, NEW step \in {"assets", "html", "orphans"}, EndPass(r, step)
  PROVE  \A q \in Publisher : TransfersInv(q)' /\ AloneInv(q)'
<1>0. SiteTypes /\ TransfersInv(r) /\ AloneInv(r)
  BY DEF SiteInv
<1>1. UNCHANGED <<site, assets, pages, out, alone>> /\ spc[r] = DuringPass(step)
      /\ \/ transfers[r] = {} /\ transfers'[r] = {} /\ spc'[r] = NextPass(step)
         \/ spc'[r] = "failed" /\ transfers'[r] = {}
  BY <1>0 DEF EndPass, SiteAt, Onward, SiteTypes
<1>2. ASSUME NEW q \in Publisher, q # r
      PROVE  TransfersInv(q)' /\ AloneInv(q)'
  <2>1. spc'[q] = spc[q] /\ transfers'[q] = transfers[q]
    BY <1>0, <1>2 DEF EndPass, Onward, SiteTypes
  <2> QED
    BY <2>1, <1>1, OtherPublisher
<1>3. \/ spc[r] = "sync" /\ spc'[r] \in {"html", "failed"}
      \/ spc[r] = "copy" /\ spc'[r] \in {"orphans", "failed"}
      \/ spc[r] = "remove" /\ spc'[r] \in {"invalidate", "failed"}
  BY <1>1 DEF DuringPass, NextPass
<1>4. spc'[r] # "failed" => transfers[r] = {}
  BY <1>1 DEF DuringPass, NextPass
<1>5. RefsResolve(out[r])' <=> RefsResolve(out[r])
  BY <1>1 DEF RefsResolve
<1>6. TransfersInv(r)'
  BY <1>0, <1>1, <1>3, <1>5 DEF TransfersInv, Writing
<1>7. transfers'[r] = transfers[r] =>
        /\ AssetsUp(r) => AssetsUp(r)'
        /\ AssetsGone(r) => AssetsGone(r)'
        /\ PagesUp(r) => PagesUp(r)'
        /\ PagesGone(r) => PagesGone(r)'
  BY <1>1 DEF AssetsUp, AssetsGone, PagesUp, PagesGone
<1>8. AloneInv(r)'
  BY <1>0, <1>1, <1>3, <1>4, <1>5, <1>7 DEF AloneInv
<1> QED
  BY <1>2, <1>6, <1>8

(* What one object transferred can be, by the step of its publisher. *)
LEMMA TransferFacts ==
  ASSUME SiteInv, NEW r \in Publisher, NEW t \in transfers[r], Transfer(r, t[1], t[2])
  PROVE  /\ UNCHANGED <<site, spc, out>>
         /\ transfers' = [transfers EXCEPT ![r] = @ \ {t}]
         /\ t = <<t[1], t[2]>>
         /\ RefsResolve(out[r])
         /\ \/ /\ spc[r] = "sync" /\ UNCHANGED pages /\ t[2] \in Asset
               /\ \/ t[1] = "put" /\ t[2] \in out[r].assets /\ assets' = assets \cup {t[2]}
                  \/ t[1] = "rm" /\ site[r].delete /\ t[2] \notin out[r].assets
                     /\ assets' = assets \ {t[2]}
            \/ /\ spc[r] = "copy" /\ t[1] = "put" /\ t[2] \in DOMAIN out[r].refs
               /\ UNCHANGED assets /\ pages' = [pages EXCEPT ![t[2]] = out[r]]
            \/ /\ spc[r] = "remove" /\ t[1] = "rm" /\ t[2] \in Page \ DOMAIN out[r].refs
               /\ UNCHANGED assets /\ pages' = [pages EXCEPT ![t[2]] = NoPage]
<1>1. SiteTypes /\ TransfersInv(r)
  BY DEF SiteInv
<1>2. t \in {"put", "rm"} \X (Asset \cup Page) /\ out[r] \in Builds
  BY <1>1 DEF SiteTypes
<1>3. t = <<t[1], t[2]>> /\ t[1] \in {"put", "rm"}
  BY <1>2
<1>4. spc[r] \in {"sync", "copy", "remove"}
  BY <1>1 DEF TransfersInv
<1>5. RefsResolve(out[r])
  BY <1>1, <1>4 DEF TransfersInv, Writing
<1>6. DOMAIN out[r].refs \subseteq Page
  BY <1>2, BuildFacts
<1>7. UNCHANGED <<site, spc, out>> /\ transfers' = [transfers EXCEPT ![r] = @ \ {t}]
  BY <1>3 DEF Transfer
<1>8. CASE spc[r] = "sync"
  BY <1>1, <1>3, <1>5, <1>7, <1>8, SiteAssumption DEF Transfer, TransfersInv
<1>9. CASE spc[r] = "copy"
  BY <1>1, <1>3, <1>5, <1>6, <1>7, <1>9, SiteAssumption DEF Transfer, TransfersInv
<1>10. CASE spc[r] = "remove"
  BY <1>1, <1>3, <1>5, <1>7, <1>10, SiteAssumption DEF Transfer, TransfersInv
<1> QED
  BY <1>4, <1>8, <1>9, <1>10

(* One object put or removed: what was pending of it is done. *)
LEMMA TransferStep ==
  ASSUME SiteInv, NEW r \in Publisher, NEW t \in transfers[r], Transfer(r, t[1], t[2])
  PROVE  \A q \in Publisher : TransfersInv(q)' /\ AloneInv(q)'
<1>0. SiteTypes /\ TransfersInv(r) /\ AloneInv(r) /\ out[r] \in Builds
  BY DEF SiteInv, SiteTypes
<1>1. UNCHANGED <<site, spc, out>> /\ transfers'[r] = transfers[r] \ {t} /\ alone' = alone \cap {r}
  BY <1>0, TransferFacts DEF SiteTypes, Transfer
<1>2. ASSUME NEW q \in Publisher
      PROVE  TransfersInv(q)'
  <2>1. transfers'[q] \subseteq transfers[q] /\ TransfersInv(q)
    BY <1>0, TransferFacts DEF SiteInv, SiteTypes
  <2>2. RefsResolve(out[q])' <=> RefsResolve(out[q])
    BY <1>1 DEF RefsResolve
  <2> QED
    BY <1>1, <2>1, <2>2 DEF TransfersInv
<1>3. ASSUME NEW q \in Publisher, q # r
      PROVE  AloneInv(q)'
  BY <1>1, <1>3 DEF AloneInv
<1>4. AloneInv(r)'
  <2>1. out[r].assets \subseteq Asset /\ DOMAIN out[r].refs \subseteq Page
    BY <1>0, BuildFacts
  <2>2. \/ /\ UNCHANGED pages /\ t = <<t[1], t[2]>> /\ t[2] \in Asset
           /\ \/ t[1] = "put" /\ t[2] \in out[r].assets /\ assets' = assets \cup {t[2]}
              \/ t[1] = "rm" /\ t[2] \notin out[r].assets /\ assets' = assets \ {t[2]}
        \/ UNCHANGED assets /\ t = <<"put", t[2]>> /\ t[2] \in DOMAIN out[r].refs
           /\ pages' = [pages EXCEPT ![t[2]] = out[r]]
        \/ UNCHANGED assets /\ t = <<"rm", t[2]>> /\ t[2] \in Page \ DOMAIN out[r].refs
           /\ pages' = [pages EXCEPT ![t[2]] = NoPage]
    BY TransferFacts
  <2>3. (AssetsUp(r) => AssetsUp(r)') /\ (AssetsGone(r) => AssetsGone(r)')
    BY <1>0, <1>1, <2>1, <2>2, SiteAssumption DEF AssetsUp, AssetsGone, SiteTypes
  <2>4. PagesUp(r) => PagesUp(r)'
    <3> SUFFICES ASSUME PagesUp(r), NEW p \in DOMAIN out[r].refs \ Excluded
                 PROVE  pages'[p] = out[r] \/ <<"put", p>> \in transfers'[r]
      BY <1>1 DEF PagesUp
    <3>1. p \in Page /\ p \notin Asset /\ (pages[p] = out[r] \/ <<"put", p>> \in transfers[r])
      BY <2>1, SiteAssumption DEF PagesUp
    <3>2. pages \in [Page -> Builds \cup {NoPage}]
      BY <1>0 DEF SiteTypes
    <3>3. t = <<"put", p>> => pages'[p] = out[r]
      BY <2>2, <3>1, <3>2
    <3>4. pages[p] = out[r] => pages'[p] = out[r]
      BY <2>2, <3>1, <3>2
    <3> QED
      BY <1>1, <3>1, <3>3, <3>4
  <2>5. PagesGone(r) => PagesGone(r)'
    <3> SUFFICES ASSUME PagesGone(r), site[r].delete, NEW p \in Page \ (DOMAIN out[r].refs \cup Excluded)
                 PROVE  pages'[p] = NoPage \/ <<"rm", p>> \in transfers'[r]
      BY <1>1 DEF PagesGone
    <3>1. p \in Page /\ p \notin Asset /\ (pages[p] = NoPage \/ <<"rm", p>> \in transfers[r])
      BY <2>1, SiteAssumption DEF PagesGone
    <3>2. pages \in [Page -> Builds \cup {NoPage}]
      BY <1>0 DEF SiteTypes
    <3>3. t = <<"rm", p>> => pages'[p] = NoPage
      BY <2>2, <3>1, <3>2
    <3>4. pages[p] = NoPage => pages'[p] = NoPage
      BY <2>2, <3>1, <3>2
    <3> QED
      BY <1>1, <3>1, <3>3, <3>4
  <2>6. RefsResolve(out[r])'
    BY <1>1, TransferFacts DEF RefsResolve
  <2> QED
    BY <1>0, <1>1, <2>3, <2>4, <2>5, <2>6 DEF AloneInv
<1> QED
  BY <1>2, <1>3, <1>4

LEMMA SiteInvStep ==
  ASSUME SiteInv, [SiteNext]_siteVars
  PROVE  SiteInv'
<1>1. CASE SiteNext
  <2>1. SiteTypes'
    BY <1>1, SiteTypesStep DEF SiteInv
  <2>2. \A q \in Publisher : TransfersInv(q)' /\ AloneInv(q)'
    BY <1>1, BuildSiteStep, ListStep, EndPassStep, TransferStep DEF SiteNext
  <2> QED
    BY <2>1, <2>2 DEF SiteInv
<1>2. CASE UNCHANGED siteVars
  <2>1. SiteTypes'
    BY <1>2 DEF siteVars, SiteInv, SiteTypes
  <2>2. \A q \in Publisher : TransfersInv(q)' /\ AloneInv(q)'
    BY <1>2, OtherPublisher DEF siteVars
  <2> QED
    BY <2>1, <2>2 DEF SiteInv
<1> QED
  BY <1>1, <1>2

(* Without deletes every publisher's assets stay, so a page finds its      *)
(* assets when it is put, and keeps them.                                  *)
LEMMA KeptInvStep ==
  ASSUME RefsNotExcluded, SiteInv, KeptInv, [SiteNext]_siteVars
  PROVE  KeptInv'
<1> USE DEF SiteAt, Onward
<1>0. SiteTypes
  BY DEF SiteInv
<1> SUFFICES ASSUME NobodyDeletes'
             PROVE  /\ \A q \in Publisher :
                         (spc[q] \in {"sync", "html", "copy", "orphans", "remove"} => AssetsUp(q))'
                    /\ \A p \in Page \ Unchecked : Resolves(p)'
  BY DEF KeptInv
<1>1. UNCHANGED site /\ NobodyDeletes
  BY DEF SiteNext, BuildSite, Verified, Invalidate, List, EndPass, Transfer, siteVars, NobodyDeletes
<1>2. \A q \in Publisher : spc[q] \in {"sync", "html", "copy", "orphans", "remove"} => AssetsUp(q)
  BY <1>1 DEF KeptInv
<1>3. \A p \in Page \ Unchecked : Resolves(p)
  BY <1>1 DEF KeptInv
<1>4. ASSUME NEW q \in Publisher, assets \subseteq assets', spc'[q] = spc[q], out'[q] = out[q],
             transfers'[q] = transfers[q]
      PROVE  (spc[q] \in {"sync", "html", "copy", "orphans", "remove"} => AssetsUp(q))'
  BY <1>2, <1>4 DEF AssetsUp
<1>5. UNCHANGED <<assets, pages>> => \A p \in Page \ Unchecked : Resolves(p)'
  BY <1>3 DEF Resolves
<1>6. CASE UNCHANGED siteVars
  BY <1>4, <1>5, <1>6 DEF siteVars
<1>7. ASSUME NEW r \in Publisher, BuildSite(r) \/ Verified(r) \/ Invalidate(r)
      PROVE  \A q \in Publisher : (spc[q] \in {"sync", "html", "copy", "orphans", "remove"} => AssetsUp(q))'
  <2>1. UNCHANGED <<assets, transfers>>
    BY <1>7 DEF BuildSite, Verified, Invalidate
  <2>2. spc'[r] \notin {"sync", "html", "copy", "orphans", "remove"}
    BY <1>0, <1>7 DEF BuildSite, Verified, Invalidate, NextPass, SiteTypes
  <2>3. \A q \in Publisher : q # r => spc'[q] = spc[q] /\ out'[q] = out[q]
    BY <1>0, <1>7 DEF BuildSite, Verified, Invalidate, SiteTypes
  <2> QED
    BY <1>4, <2>1, <2>2, <2>3
<1>8. ASSUME NEW r \in Publisher, NEW step \in {"assets", "html", "orphans"}, List(r, step)
      PROVE  \A q \in Publisher : (spc[q] \in {"sync", "html", "copy", "orphans", "remove"} => AssetsUp(q))'
  <2>1. UNCHANGED <<assets, out>> /\ transfers'[r] = Pass(r, step) /\ spc[r] = step
    BY <1>0, <1>8 DEF List, SiteTypes
  <2>2. transfers[r] = {}
    BY <2>1 DEF SiteInv, TransfersInv
  <2>3. step = "assets" => AssetsUp(r)'
    BY <2>1 DEF Pass, AssetsUp
  <2>4. step # "assets" => AssetsUp(r)'
    BY <1>2, <2>1, <2>2 DEF AssetsUp
  <2>5. \A q \in Publisher : q # r => spc'[q] = spc[q] /\ transfers'[q] = transfers[q]
    BY <1>0, <1>8 DEF List, SiteTypes
  <2> QED
    BY <1>4, <2>1, <2>3, <2>4, <2>5
<1>9. ASSUME NEW r \in Publisher, NEW step \in {"assets", "html", "orphans"}, EndPass(r, step)
      PROVE  \A q \in Publisher : (spc[q] \in {"sync", "html", "copy", "orphans", "remove"} => AssetsUp(q))'
  <2>1. UNCHANGED <<assets, out>>
    BY <1>9 DEF EndPass
  <2>2. spc'[r] # "failed" => spc[r] \in {"sync", "copy", "remove"} /\ transfers'[r] = transfers[r]
    BY <1>0, <1>9 DEF EndPass, DuringPass, SiteTypes
  <2>3. spc'[r] \in {"sync", "html", "copy", "orphans", "remove"} => AssetsUp(r)'
    BY <1>2, <2>1, <2>2 DEF AssetsUp
  <2>4. \A q \in Publisher : q # r => spc'[q] = spc[q] /\ transfers'[q] = transfers[q]
    BY <1>0, <1>9 DEF EndPass, SiteTypes
  <2> QED
    BY <1>4, <2>1, <2>3, <2>4
<1>10. ASSUME NEW r \in Publisher, NEW t \in transfers[r], Transfer(r, t[1], t[2])
       PROVE  /\ \A q \in Publisher :
                   (spc[q] \in {"sync", "html", "copy", "orphans", "remove"} => AssetsUp(q))'
              /\ \A p \in Page \ Unchecked : Resolves(p)'
  <2>1. ~site[r].delete
    BY <1>1 DEF NobodyDeletes
  <2>2. /\ UNCHANGED <<spc, out>>
        /\ transfers' = [transfers EXCEPT ![r] = @ \ {t}]
        /\ \/ spc[r] = "sync" /\ UNCHANGED pages /\ assets' = assets \cup {t[2]}
           \/ spc[r] = "copy" /\ t[2] \in DOMAIN out[r].refs /\ RefsResolve(out[r])
              /\ UNCHANGED assets /\ pages' = [pages EXCEPT ![t[2]] = out[r]]
    <3>1. /\ UNCHANGED <<spc, out>>
          /\ transfers' = [transfers EXCEPT ![r] = @ \ {t}]
          /\ RefsResolve(out[r])
      BY <1>10, TransferFacts
    <3>2. \/ spc[r] = "sync" /\ UNCHANGED pages
             /\ \/ assets' = assets \cup {t[2]}
                \/ site[r].delete
          \/ spc[r] = "copy" /\ t[2] \in DOMAIN out[r].refs
             /\ UNCHANGED assets /\ pages' = [pages EXCEPT ![t[2]] = out[r]]
          \/ site[r].delete
      <4>1. spc[r] = "remove" => t[1] = "rm" /\ site[r].delete
        BY DEF SiteInv, TransfersInv
      <4> QED
        BY <1>10, <4>1, TransferFacts
    <3> QED
      BY <2>1, <3>1, <3>2
  <2>3. out[r] \in Builds /\ out[r].assets \subseteq Asset /\ DOMAIN out[r].refs \subseteq Page
    BY <1>0, BuildFacts DEF SiteTypes
  <2>4. AssetsUp(r) => AssetsUp(r)'
    <3>1. transfers'[r] = transfers[r] \ {t}
      BY <1>0, <2>2 DEF SiteTypes
    <3> SUFFICES ASSUME AssetsUp(r), NEW a \in out[r].assets \ Excluded
                 PROVE  a \in assets' \/ <<"put", a>> \in transfers'[r]
      BY <2>2 DEF AssetsUp
    <3>2. <<"put", a>> = t => a = t[2] /\ a \notin Page
      BY <2>3, SiteAssumption
    <3>3. <<"put", a>> = t => a \in assets'
      BY <2>2, <2>3, <3>2
    <3> QED
      BY <2>2, <3>1, <3>3 DEF AssetsUp
  <2>5. \A q \in Publisher : q # r => transfers'[q] = transfers[q]
    BY <1>0, <2>2 DEF SiteTypes
  <2>6. assets \subseteq assets'
    BY <2>2
  <2>7. ASSUME NEW p \in Page \ Unchecked
        PROVE  Resolves(p)'
    <3>1. pages'[p] = pages[p] \/ (pages'[p] = out[r] /\ p = t[2] /\ spc[r] = "copy")
      BY <1>0, <2>2 DEF SiteTypes
    <3>2. CASE pages'[p] = pages[p]
      BY <1>3, <2>6, <3>2 DEF Resolves
    <3>3. CASE pages'[p] = out[r] /\ p = t[2] /\ spc[r] = "copy"
      <4>1. out[r].refs[p] \subseteq out[r].assets \ Excluded
        BY <2>2, <2>3, <3>3 DEF RefsResolve, RefsNotExcluded
      <4>2. AssetsUp(r) /\ \A u \in transfers[r] : u[2] \in Page
        BY <1>2, <2>3, <3>3 DEF SiteInv, TransfersInv
      <4>3. out[r].assets \ Excluded \subseteq assets
        BY <2>3, <4>2, SiteAssumption DEF AssetsUp
      <4> QED
        BY <2>6, <3>3, <4>1, <4>3 DEF Resolves
    <3> QED
      BY <3>1, <3>2, <3>3
  <2> QED
    BY <1>2, <1>4, <2>2, <2>4, <2>5, <2>6, <2>7
<1>11. \A r \in Publisher :
         /\ BuildSite(r) \/ Verified(r) \/ Invalidate(r) => UNCHANGED <<assets, pages>>
         /\ \A step \in {"assets", "html", "orphans"} :
              List(r, step) \/ EndPass(r, step) => UNCHANGED <<assets, pages>>
  BY DEF BuildSite, Verified, Invalidate, List, EndPass
<1> QED
  BY <1>5, <1>6, <1>7, <1>8, <1>9, <1>10, <1>11 DEF SiteNext

LEMMA SiteInvariant ==
  ASSUME NEW settings, NEW first \in Builds
  PROVE  SiteSpec(settings, first) => []SiteInv
<1>1. SiteInit(settings, first) => SiteInv
  BY SiteInitially
<1>2. SiteInv /\ [SiteNext]_siteVars => SiteInv'
  BY SiteInvStep
<1> QED
  BY <1>1, <1>2, PTL DEF SiteSpec

(* The variables keep their types, however many publishers there are and    *)
(* whatever each of them is asked for.                                      *)
THEOREM SiteTypeCorrect ==
  ASSUME NEW settings, NEW first \in Builds
  PROVE  SiteSpec(settings, first) => []SiteTypeOK
<1>1. SiteSpec(settings, first) => []SiteInv
  BY SiteInvariant
<1>2. SiteInv => SiteTypeOK
  BY DEF SiteInv, SiteTypes, SiteTypeOK
<1> QED
  BY <1>1, <1>2, PTL

(* While no publisher deletes, a checked page in the bucket has its assets  *)
(* there at every moment of any number of deploys, failed ones included, if *)
(* the site begins so and Excludes protects no asset that a page needs.     *)
THEOREM PagesResolve ==
  ASSUME NEW settings, NEW first \in Builds, RefsResolve(first), RefsNotExcluded
  PROVE  SiteSpec(settings, first) => []PagesAlwaysResolve
<1>1. SiteInit(settings, first) => SiteInv /\ KeptInv
  BY SiteInitially
<1>2. SiteInv /\ KeptInv /\ [SiteNext]_siteVars => (SiteInv /\ KeptInv)'
  BY SiteInvStep, KeptInvStep
<1>3. KeptInv => PagesAlwaysResolve
  BY DEF KeptInv, NobodyDeletes, PagesAlwaysResolve
<1> QED
  BY <1>1, <1>2, <1>3, PTL DEF SiteSpec

(* A deploy that succeeds and was the only one to write since it began to   *)
(* leaves exactly its build in the bucket, whatever was there before.       *)
THEOREM WholeSite ==
  ASSUME NEW settings, NEW first \in Builds, RefsNotExcluded
  PROVE  SiteSpec(settings, first) => []SuccessIsWhole
<1>1. SiteSpec(settings, first) => []SiteInv
  BY SiteInvariant
<1>2. ASSUME SiteInv
      PROVE  SuccessIsWhole
  <2> SUFFICES ASSUME NEW r \in Publisher, spc[r] = "done", r \in alone
               PROVE  /\ \A p \in DOMAIN out[r].refs \ Excluded : pages[p] = out[r]
                      /\ \A p \in DOMAIN out[r].refs \ (Unchecked \cup Excluded) : Resolves(p)
                      /\ site[r].delete =>
                           /\ assets \subseteq out[r].assets \cup Excluded
                           /\ \A p \in Page \ (DOMAIN out[r].refs \cup Excluded) : pages[p] = NoPage
    BY DEF SuccessIsWhole, SiteAt
  <2>1. RefsResolve(out[r]) /\ AssetsUp(r) /\ AssetsGone(r) /\ PagesUp(r) /\ PagesGone(r)
        /\ transfers[r] = {} /\ out[r] \in Builds
    BY <1>2 DEF SiteInv, SiteTypes, TransfersInv, AloneInv
  <2>2. \A p \in DOMAIN out[r].refs \ Excluded : pages[p] = out[r]
    BY <2>1 DEF PagesUp
  <2>3. \A p \in DOMAIN out[r].refs \ (Unchecked \cup Excluded) : Resolves(p)
    BY <2>1, <2>2 DEF Resolves, RefsResolve, RefsNotExcluded, AssetsUp
  <2>4. site[r].delete =>
          /\ assets \subseteq out[r].assets \cup Excluded
          /\ \A p \in Page \ (DOMAIN out[r].refs \cup Excluded) : pages[p] = NoPage
    BY <2>1 DEF AssetsGone, PagesGone
  <2> QED
    BY <2>2, <2>3, <2>4
<1> QED
  BY <1>1, <1>2, PTL

-------------------------------------------------------------------------------
(* Images. A name never leads to an image that was not built under it, and *)
(* what was pushed under a name is only ever replaced.                     *)
ImageOrders(settings, Registry) ==
  \A o \in settings : \A r \in Pusher : o[r].registries \in Seq(Registry) /\ o[r].ecr \in Ecr

ImageTypes(Registry) ==
  /\ \A r \in Pusher : orders[r].registries \in Seq(Registry) /\ orders[r].ecr \in Ecr
  /\ ImageTypeOK
  /\ ipc \in [Pusher -> {"login", "build", "push", "publish", "done", "failed"}]
  /\ unpushed \in [Pusher -> Seq(Ref)]
  /\ handed \in [Pusher -> {<<>>} \cup {Deployed(r) : r \in Pusher}]

NamedSo ==
  /\ \A t \in Ref : daemon[t] # NoImage => t \in Names(daemon[t])
  /\ \A t \in Ref : registry[t] # NoImage => t \in Names(registry[t])
  /\ \A r \in Pusher : \A t \in Ref : digests[r][t] # NoImage => t \in Names(digests[r][t])

PusherInv(r) ==
  /\ orders[r].kind = "buildx" => ipc[r] \in {"publish", "done", "failed"}
  /\ \A i \in DOMAIN unpushed[r] : unpushed[r][i] \in Names(r)
  /\ ipc[r] = "push" /\ ~orders[r].dry =>
       \A t \in Names(r) :
         /\ daemon[t] # NoImage
         /\ registry[t] # NoImage \/ \E i \in DOMAIN unpushed[r] : unpushed[r][i] = t
  /\ ipc[r] = "done" /\ ~orders[r].dry => \A t \in Names(r) : registry[t] # NoImage
  /\ handed[r] # <<>> => orders[r].kind = "deploy" /\ handed[r] = Deployed(r)

ImageInv(Registry) ==
  ImageTypes(Registry) /\ NamedSo /\ \A r \in Pusher : PusherInv(r)

LEMMA NamesStay ==
  ASSUME UNCHANGED orders
  PROVE  Ref' = Ref /\ \A r \in Pusher : Names(r)' = Names(r) /\ Deployed(r)' = Deployed(r)
<1>1. \A r \in Pusher : Names(r)' = Names(r) /\ Deployed(r)' = Deployed(r)
  BY DEF Names, ImageRefs, PrimaryTag, RegistriesOf, Commit, Deployed
<1> QED
  BY <1>1 DEF Ref

(* What a deploy pushes are its names, every one of them. *)
LEMMA PushNamesFacts ==
  ASSUME NEW Registry, NEW r \in Pusher, orders[r].registries \in Seq(Registry),
         orders[r].kind # "buildx"
  PROVE  /\ PushNames(r) \in Seq(Ref)
         /\ \A i \in DOMAIN PushNames(r) : PushNames(r)[i] \in Names(r)
         /\ \A t \in Names(r) : \E i \in DOMAIN PushNames(r) : PushNames(r)[i] = t
<1>1. Names(r) = {PrimaryTag(r, reg) : reg \in RegistriesOf(r)} /\ Names(r) \subseteq Ref
  BY DEF Names, Ref
<1>2. \A i \in DOMAIN orders[r].registries : PushNames(r)[i] = PrimaryTag(r, orders[r].registries[i])
  BY DEF PushNames
<1>3. DOMAIN PushNames(r) = DOMAIN orders[r].registries
  BY DEF PushNames
<1>4. \A i \in DOMAIN PushNames(r) : PushNames(r)[i] \in Names(r)
  BY <1>1, <1>2, <1>3 DEF RegistriesOf
<1>5. \A t \in Names(r) : \E i \in DOMAIN PushNames(r) : PushNames(r)[i] = t
  BY <1>1, <1>2, <1>3 DEF RegistriesOf
<1>6. PushNames(r) \in Seq(Ref)
  <2>1. Len(orders[r].registries) \in Nat /\ DOMAIN orders[r].registries = 1..Len(orders[r].registries)
    OBVIOUS
  <2>2. PushNames(r) \in [1..Len(orders[r].registries) -> Ref]
    BY <1>1, <1>2, <1>3, <1>4, <2>1 DEF PushNames
  <2> QED
    BY <2>1, <2>2
<1> QED
  BY <1>4, <1>5, <1>6

LEMMA ImageInitially ==
  ASSUME NEW Registry, NEW settings, ImageOrders(settings, Registry), ImageInit(settings)
  PROVE  ImageInv(Registry)
<1>1. ImageTypes(Registry)
  <2>1. \A r \in Pusher : orders[r].registries \in Seq(Registry) /\ orders[r].ecr \in Ecr
    BY DEF ImageInit, ImageOrders
  <2>2. ImageTypeOK
    BY DEF ImageInit, ImageTypeOK
  <2>3. unpushed \in [Pusher -> Seq(Ref)]
    BY DEF ImageInit
  <2> QED
    BY <2>1, <2>2, <2>3 DEF ImageInit, ImageTypes
<1>2. NamedSo
  BY DEF ImageInit, NamedSo
<1>3. \A r \in Pusher : PusherInv(r)
  BY DEF ImageInit, PusherInv
<1> QED
  BY <1>1, <1>2, <1>3 DEF ImageInv

(* Nothing changes for a run while another one moves on, as long as no name *)
(* loses its image.                                                         *)
LEMMA OtherPusher ==
  ASSUME NEW q \in Pusher, PusherInv(q), UNCHANGED orders,
         ipc'[q] = ipc[q], unpushed'[q] = unpushed[q], handed'[q] = handed[q],
         \A t \in Names(q) : daemon[t] # NoImage => daemon'[t] # NoImage,
         \A t \in Names(q) : registry[t] # NoImage => registry'[t] # NoImage
  PROVE  PusherInv(q)'
BY NamesStay DEF PusherInv

LEMMA LogInStep ==
  ASSUME NEW Registry, ImageInv(Registry), NEW r \in Pusher, LogIn(r)
  PROVE  ImageInv(Registry)'
<1> USE DEF ImageAt, Proceeds
<1>0. ImageTypes(Registry) /\ NamedSo /\ PusherInv(r)
  BY DEF ImageInv
<1>1. UNCHANGED <<orders, daemon, registry, unpushed, digests, handed>> /\ ipc[r] = "login"
  BY DEF LogIn
<1>2. ipc' \in [Pusher -> {"login", "build", "push", "publish", "done", "failed"}]
      /\ ipc'[r] \in {"build", "failed"} /\ \A q \in Pusher : q # r => ipc'[q] = ipc[q]
  BY <1>0 DEF LogIn, ImageTypes
<1>3. ImageTypes(Registry)' /\ NamedSo'
  BY <1>0, <1>1, <1>2, NamesStay DEF ImageTypes, ImageTypeOK, NamedSo
<1>4. PusherInv(r)'
  BY <1>0, <1>1, <1>2, NamesStay DEF PusherInv
<1>5. \A q \in Pusher : q # r => PusherInv(q)'
  BY <1>1, <1>2, OtherPusher DEF ImageInv
<1> QED
  BY <1>3, <1>4, <1>5 DEF ImageInv

LEMMA BuildImageStep ==
  ASSUME NEW Registry, ImageInv(Registry), NEW r \in Pusher, BuildImage(r)
  PROVE  ImageInv(Registry)'
<1> USE DEF ImageAt, Proceeds
<1>0. ImageTypes(Registry) /\ NamedSo /\ PusherInv(r) /\ orders[r].kind # "buildx"
  BY DEF ImageInv, PusherInv, BuildImage
<1>1. UNCHANGED <<orders, registry, digests, handed>> /\ ipc[r] = "build"
  BY DEF BuildImage
<1>2. /\ Ref' = Ref /\ Names(r) \subseteq Ref
      /\ \A q \in Pusher : Names(q)' = Names(q) /\ Deployed(q)' = Deployed(q)
  BY <1>1, NamesStay DEF Ref
<1>3. /\ ipc' \in [Pusher -> {"login", "build", "push", "publish", "done", "failed"}]
      /\ \A q \in Pusher : q # r => ipc'[q] = ipc[q] /\ unpushed'[q] = unpushed[q]
      /\ (ipc'[r] = "failed" /\ unpushed' = unpushed) \/ (ipc'[r] = "push" /\ unpushed'[r] = PushNames(r))
  BY <1>0 DEF BuildImage, ImageTypes
<1>4. /\ daemon' = daemon \/ daemon' = [t \in Ref |-> IF t \in Names(r) THEN r ELSE daemon[t]]
      /\ ipc'[r] = "push" /\ ~orders[r].dry => \A t \in Names(r) : daemon'[t] = r
  BY <1>0, <1>2 DEF BuildImage, ImageTypes
<1>5. /\ daemon' \in [Ref -> Pusher \cup {NoImage}]
      /\ \A t \in Ref : daemon'[t] # NoImage => t \in Names(daemon'[t])
      /\ \A t \in Ref : daemon[t] # NoImage => daemon'[t] # NoImage
  BY <1>0, <1>4, ImageAssumption DEF ImageTypes, ImageTypeOK, NamedSo
<1>6. ImageTypes(Registry)'
  <2>1. unpushed' \in [Pusher -> Seq(Ref)]
    <3>1. PushNames(r) \in Seq(Ref)
      BY <1>0, PushNamesFacts DEF ImageTypes
    <3> QED
      BY <1>0, <3>1 DEF BuildImage, ImageTypes
  <2>2. ImageTypeOK'
    BY <1>0, <1>1, <1>2, <1>5 DEF ImageTypes, ImageTypeOK
  <2> QED
    BY <1>0, <1>1, <1>2, <1>3, <2>1, <2>2 DEF ImageTypes
<1>7. NamedSo'
  <2>1. \A t \in Ref : daemon'[t] \in Pusher \cup {NoImage}
    BY <1>5
  <2>2. \A t \in Ref : registry[t] \in Pusher \cup {NoImage}
    BY <1>0 DEF ImageTypes, ImageTypeOK
  <2>3. \A q \in Pusher : \A t \in Ref : digests[q][t] \in Pusher \cup {NoImage}
    BY <1>0 DEF ImageTypes, ImageTypeOK
  <2> QED
    BY <1>0, <1>1, <1>2, <1>5, <2>1, <2>2, <2>3 DEF NamedSo
<1>8. PusherInv(r)'
  <2>1. /\ \A i \in DOMAIN PushNames(r) : PushNames(r)[i] \in Names(r)
        /\ \A t \in Names(r) : \E i \in DOMAIN PushNames(r) : PushNames(r)[i] = t
    BY <1>0, PushNamesFacts DEF ImageTypes
  <2> QED
    BY <1>0, <1>1, <1>2, <1>3, <1>4, <2>1, ImageAssumption DEF PusherInv
<1>9. ASSUME NEW q \in Pusher, q # r
      PROVE  PusherInv(q)'
  <2>1. PusherInv(q) /\ Names(q) \subseteq Ref
    BY DEF ImageInv, Ref
  <2> QED
    BY <1>1, <1>3, <1>5, <1>9, <2>1, OtherPusher
<1> QED
  BY <1>6, <1>7, <1>8, <1>9 DEF ImageInv

LEMMA HandOverStep ==
  ASSUME NEW Registry, ImageInv(Registry), NEW r \in Pusher, HandOver(r)
  PROVE  ImageInv(Registry)'
<1> USE DEF ImageAt, Proceeds
<1>0. ImageTypes(Registry) /\ NamedSo /\ PusherInv(r)
  BY DEF ImageInv
<1>1. UNCHANGED <<orders, daemon, registry, unpushed, digests>> /\ ipc[r] = "push" /\ unpushed[r] = <<>>
  BY DEF HandOver
<1>2. Ref' = Ref /\ \A q \in Pusher : Names(q)' = Names(q) /\ Deployed(q)' = Deployed(q)
  BY <1>1, NamesStay
<1>3. /\ ipc' \in [Pusher -> {"login", "build", "push", "publish", "done", "failed"}]
      /\ handed' \in [Pusher -> {<<>>} \cup {Deployed(q) : q \in Pusher}]
      /\ \A q \in Pusher : q # r => ipc'[q] = ipc[q] /\ handed'[q] = handed[q]
      /\ ipc'[r] = "done"
      /\ handed'[r] = IF orders[r].kind = "deploy" THEN Deployed(r) ELSE <<>>
  BY <1>0 DEF HandOver, ImageTypes
<1>4. ImageTypes(Registry)' /\ NamedSo'
  BY <1>0, <1>1, <1>2, <1>3 DEF ImageTypes, ImageTypeOK, NamedSo
<1>5. DOMAIN unpushed[r] = {}
  BY <1>1
<1>6. PusherInv(r)'
  BY <1>0, <1>1, <1>2, <1>3, <1>5 DEF PusherInv
<1>7. \A q \in Pusher : q # r => PusherInv(q)'
  BY <1>1, <1>3, OtherPusher DEF ImageInv
<1> QED
  BY <1>4, <1>6, <1>7 DEF ImageInv

LEMMA TailFacts ==
  ASSUME NEW S, NEW s \in Seq(S), s # <<>>
  PROVE  /\ 1 \in DOMAIN s /\ Head(s) = s[1] /\ Tail(s) \in Seq(S)
         /\ \A i \in DOMAIN Tail(s) : i + 1 \in DOMAIN s /\ Tail(s)[i] = s[i + 1]
         /\ \A i \in DOMAIN s : s[i] = Head(s) \/ \E j \in DOMAIN Tail(s) : Tail(s)[j] = s[i]
<1>1. 1 \in DOMAIN s /\ Head(s) = s[1] /\ Tail(s) \in Seq(S)
  OBVIOUS
<1>2. \A i \in DOMAIN Tail(s) : i + 1 \in DOMAIN s /\ Tail(s)[i] = s[i + 1]
  OBVIOUS
<1>3. ASSUME NEW i \in DOMAIN s, i # 1
      PROVE  \E j \in DOMAIN Tail(s) : Tail(s)[j] = s[i]
  <2>1. i - 1 \in DOMAIN Tail(s) /\ Tail(s)[i - 1] = s[i]
    BY <1>3
  <2> QED
    BY <2>1
<1> QED
  BY <1>1, <1>2, <1>3

(* A push puts under a name an image that was built under it. *)
LEMMA PushImageStep ==
  ASSUME NEW Registry, ImageInv(Registry), NEW r \in Pusher, PushImage(r)
  PROVE  ImageInv(Registry)'
<1> USE DEF ImageAt, Proceeds
<1>0. ImageTypes(Registry) /\ NamedSo /\ PusherInv(r) /\ ImageTypeOK
  BY DEF ImageInv, ImageTypes
<1>1. UNCHANGED <<orders, daemon, handed>> /\ ipc[r] = "push" /\ unpushed[r] # <<>>
  BY DEF PushImage
<1>2. /\ Ref' = Ref /\ Names(r) \subseteq Ref
      /\ \A q \in Pusher : Names(q)' = Names(q) /\ Deployed(q)' = Deployed(q)
  BY <1>1, NamesStay DEF Ref
<1> DEFINE t == Head(unpushed[r])
<1>3. unpushed[r] \in Seq(Ref)
  BY <1>0 DEF ImageTypes
<1>4. /\ t \in Names(r) /\ Tail(unpushed[r]) \in Seq(Ref)
      /\ \A i \in DOMAIN Tail(unpushed[r]) : Tail(unpushed[r])[i] \in Names(r)
      /\ \A n \in Names(r) : (\E i \in DOMAIN unpushed[r] : unpushed[r][i] = n) =>
           n = t \/ \E i \in DOMAIN Tail(unpushed[r]) : Tail(unpushed[r])[i] = n
  BY <1>0, <1>1, <1>3, TailFacts DEF PusherInv
<1>5. daemon[t] \in Pusher \cup {NoImage} /\ (daemon[t] # NoImage => t \in Names(daemon[t]))
  BY <1>0, <1>2, <1>4 DEF ImageTypeOK, NamedSo
<1>6. ~orders[r].dry => daemon[t] # NoImage
  BY <1>0, <1>1, <1>4 DEF PusherInv
<1>7. /\ registry' = registry \/ (~orders[r].dry /\ registry' = [registry EXCEPT ![t] = daemon[t]])
      /\ \/ digests' = digests
         \/ ~orders[r].dry /\ \E seen \in {daemon[t], NoImage} : digests' = [digests EXCEPT ![r][t] = seen]
      /\ \/ /\ ipc' = ipc /\ unpushed' = [unpushed EXCEPT ![r] = Tail(@)]
            /\ ~orders[r].dry => registry' = [registry EXCEPT ![t] = daemon[t]]
         \/ ipc' = [ipc EXCEPT ![r] = "failed"] /\ unpushed' = unpushed
  BY DEF PushImage, Push
<1>8. /\ registry' \in [Ref -> Pusher \cup {NoImage}]
      /\ \A n \in Ref : registry'[n] # NoImage => n \in Names(registry'[n])
      /\ \A n \in Ref : registry[n] # NoImage => registry'[n] # NoImage
      /\ registry' = [registry EXCEPT ![t] = daemon[t]] /\ ~orders[r].dry => registry'[t] # NoImage
  BY <1>0, <1>2, <1>4, <1>5, <1>6, <1>7 DEF ImageTypeOK, NamedSo
<1>9. /\ digests' \in [Pusher -> [Ref -> Pusher \cup {NoImage}]]
      /\ \A q \in Pusher : \A n \in Ref : digests'[q][n] # NoImage => n \in Names(digests'[q][n])
  <2>1. digests \in [Pusher -> [Ref -> Pusher \cup {NoImage}]]
        /\ \A q \in Pusher : \A n \in Ref : digests[q][n] # NoImage => n \in Names(digests[q][n])
    BY <1>0 DEF ImageTypeOK, NamedSo
  <2>2. ASSUME NEW seen \in {daemon[t], NoImage}, digests' = [digests EXCEPT ![r][t] = seen]
        PROVE  /\ digests' \in [Pusher -> [Ref -> Pusher \cup {NoImage}]]
               /\ \A q \in Pusher : \A n \in Ref : digests'[q][n] # NoImage => n \in Names(digests'[q][n])
    <3>1. t \in Ref /\ seen \in Pusher \cup {NoImage} /\ (seen # NoImage => t \in Names(seen))
      BY <1>2, <1>4, <1>5
    <3>2. [digests[r] EXCEPT ![t] = seen] \in [Ref -> Pusher \cup {NoImage}]
      BY <2>1, <3>1
    <3>3. digests' = [digests EXCEPT ![r] = [digests[r] EXCEPT ![t] = seen]]
      BY <2>2
    <3>4. \A q \in Pusher : \A n \in Ref :
            digests'[q][n] = digests[q][n] \/ (digests'[q][n] = seen /\ n = t)
      BY <2>1, <3>1, <3>3
    <3> QED
      BY <2>1, <3>1, <3>2, <3>3, <3>4
  <2> QED
    BY <1>7, <2>1, <2>2
<1>10. /\ unpushed' \in [Pusher -> Seq(Ref)]
       /\ ipc' \in [Pusher -> {"login", "build", "push", "publish", "done", "failed"}]
       /\ \A q \in Pusher : q # r => unpushed'[q] = unpushed[q] /\ ipc'[q] = ipc[q]
       /\ \/ ipc'[r] = "push" /\ unpushed'[r] = Tail(unpushed[r])
             /\ (~orders[r].dry => registry' = [registry EXCEPT ![t] = daemon[t]])
          \/ ipc'[r] = "failed" /\ unpushed'[r] = unpushed[r]
  BY <1>0, <1>1, <1>4, <1>7 DEF ImageTypes
<1>11. ImageTypes(Registry)'
  <2>1. ImageTypeOK'
    BY <1>0, <1>1, <1>2, <1>8, <1>9 DEF ImageTypeOK
  <2> QED
    BY <1>0, <1>1, <1>2, <1>10, <2>1 DEF ImageTypes
<1>12. NamedSo'
  <2>1. \A n \in Ref : daemon[n] \in Pusher \cup {NoImage} /\ registry'[n] \in Pusher \cup {NoImage}
    BY <1>0, <1>8 DEF ImageTypeOK
  <2>2. \A q \in Pusher : \A n \in Ref : digests'[q][n] \in Pusher \cup {NoImage}
    BY <1>9
  <2> QED
    BY <1>0, <1>1, <1>2, <1>8, <1>9, <2>1, <2>2 DEF NamedSo
<1>13. PusherInv(r)'
  <2>1. orders[r].kind # "buildx"
    BY <1>0, <1>1 DEF PusherInv
  <2>2. \A i \in DOMAIN unpushed'[r] : unpushed'[r][i] \in Names(r)
    BY <1>0, <1>4, <1>10 DEF PusherInv
  <2>3. ASSUME ipc'[r] = "push", ~orders[r].dry, NEW n \in Names(r)
        PROVE  daemon[n] # NoImage /\ (registry'[n] # NoImage \/ \E i \in DOMAIN unpushed'[r] : unpushed'[r][i] = n)
    <3>1. daemon[n] # NoImage /\ (registry[n] # NoImage \/ \E i \in DOMAIN unpushed[r] : unpushed[r][i] = n)
      BY <1>0, <1>1, <2>3 DEF PusherInv
    <3>2. registry'[t] # NoImage
      BY <1>8, <1>10, <2>3
    <3>3. registry[n] # NoImage => registry'[n] # NoImage
      BY <1>2, <1>8
    <3>4. unpushed'[r] = Tail(unpushed[r])
      BY <1>10, <2>3
    <3> QED
      BY <1>4, <3>1, <3>2, <3>3, <3>4
  <2>4. ipc'[r] # "done" /\ handed'[r] = handed[r]
    BY <1>1, <1>10
  <2> QED
    BY <1>0, <1>1, <1>2, <2>1, <2>2, <2>3, <2>4 DEF PusherInv
<1>14. ASSUME NEW q \in Pusher, q # r
       PROVE  PusherInv(q)'
  <2>1. PusherInv(q) /\ Names(q) \subseteq Ref
    BY DEF ImageInv, Ref
  <2> QED
    BY <1>1, <1>8, <1>10, <1>14, <2>1, OtherPusher
<1> QED
  BY <1>11, <1>12, <1>13, <1>14 DEF ImageInv

LEMMA BuildxPublishStep ==
  ASSUME NEW Registry, ImageInv(Registry), NEW r \in Pusher, BuildxPublish(r)
  PROVE  ImageInv(Registry)'
<1> USE DEF ImageAt, Proceeds
<1>0. ImageTypes(Registry) /\ NamedSo /\ PusherInv(r) /\ ImageTypeOK
  BY DEF ImageInv, ImageTypes
<1>1. UNCHANGED <<orders, daemon, unpushed, digests, handed>> /\ ipc[r] = "publish"
  BY DEF BuildxPublish
<1>2. /\ Ref' = Ref /\ Names(r) \subseteq Ref
      /\ \A q \in Pusher : Names(q)' = Names(q) /\ Deployed(q)' = Deployed(q)
  BY <1>1, NamesStay DEF Ref
<1>3. PICK sent \in SUBSET Names(r) :
        /\ registry' = [n \in Ref |-> IF ~orders[r].dry /\ n \in sent THEN r ELSE registry[n]]
        /\ \/ ~orders[r].dry /\ Proceeds(r, "failed")
           \/ sent = Names(r) /\ Proceeds(r, "done")
  BY DEF BuildxPublish
<1>4. /\ ipc' \in [Pusher -> {"login", "build", "push", "publish", "done", "failed"}]
      /\ \A q \in Pusher : q # r => ipc'[q] = ipc[q]
      /\ ipc'[r] = "failed" \/ (ipc'[r] = "done" /\ sent = Names(r))
  BY <1>0, <1>3 DEF ImageTypes
<1>5. \A n \in Ref : registry'[n] = registry[n] \/ (registry'[n] = r /\ n \in Names(r))
  BY <1>3
<1>6. /\ registry' \in [Ref -> Pusher \cup {NoImage}]
      /\ \A n \in Ref : registry'[n] # NoImage => n \in Names(registry'[n])
      /\ \A n \in Ref : registry[n] # NoImage => registry'[n] # NoImage
  BY <1>0, <1>3, <1>5, ImageAssumption DEF ImageTypeOK, NamedSo
<1>7. ImageTypes(Registry)' /\ NamedSo'
  <2>1. ImageTypeOK'
    BY <1>0, <1>1, <1>2, <1>6 DEF ImageTypeOK
  <2>2. \A n \in Ref : daemon[n] \in Pusher \cup {NoImage} /\ registry'[n] \in Pusher \cup {NoImage}
    BY <1>0, <1>6 DEF ImageTypeOK
  <2>3. \A q \in Pusher : \A n \in Ref : digests[q][n] \in Pusher \cup {NoImage}
    BY <1>0 DEF ImageTypeOK
  <2>4. NamedSo'
    BY <1>0, <1>1, <1>2, <1>6, <2>2, <2>3 DEF NamedSo
  <2> QED
    BY <1>0, <1>1, <1>2, <1>4, <2>1, <2>4 DEF ImageTypes
<1>8. PusherInv(r)'
  <2>1. ipc'[r] = "done" /\ ~orders[r].dry => \A n \in Names(r) : registry'[n] = r
    BY <1>2, <1>3, <1>4
  <2> QED
    BY <1>0, <1>1, <1>2, <1>4, <2>1, ImageAssumption DEF PusherInv
<1>9. ASSUME NEW q \in Pusher, q # r
      PROVE  PusherInv(q)'
  <2>1. PusherInv(q) /\ Names(q) \subseteq Ref
    BY DEF ImageInv, Ref
  <2> QED
    BY <1>1, <1>4, <1>6, <1>9, <2>1, OtherPusher
<1> QED
  BY <1>7, <1>8, <1>9 DEF ImageInv

LEMMA ImageInvariant ==
  ASSUME NEW Registry, NEW settings, ImageOrders(settings, Registry)
  PROVE  ImageSpec(settings) => []ImageInv(Registry)
<1>1. ImageInit(settings) => ImageInv(Registry)
  BY ImageInitially
<1>2. ASSUME ImageInv(Registry), [ImageNext]_imageVars
      PROVE  ImageInv(Registry)'
  <2>1. CASE ImageNext
    BY <1>2, <2>1, LogInStep, BuildImageStep, PushImageStep, HandOverStep, BuildxPublishStep
      DEF ImageNext
  <2>2. CASE UNCHANGED imageVars
    <3>1. UNCHANGED <<orders, daemon, registry, ipc, unpushed, digests, handed>>
      BY <2>2 DEF imageVars
    <3>2. ImageTypes(Registry)' /\ NamedSo'
      BY <1>2, <3>1, NamesStay DEF ImageInv, ImageTypes, ImageTypeOK, NamedSo
    <3>3. \A q \in Pusher : PusherInv(q)'
      BY <1>2, <3>1, OtherPusher DEF ImageInv
    <3> QED
      BY <3>2, <3>3 DEF ImageInv
  <2> QED
    BY <1>2, <2>1, <2>2
<1> QED
  BY <1>1, <1>2, PTL DEF ImageSpec

(* The daemon, the registries and the digests keep their types, whatever    *)
(* images are built and wherever they are pushed.                           *)
THEOREM ImageTypeCorrect ==
  ASSUME NEW Registry, NEW settings, ImageOrders(settings, Registry)
  PROVE  ImageSpec(settings) => []ImageTypeOK
<1>1. ImageSpec(settings) => []ImageInv(Registry)
  BY ImageInvariant
<1>2. ImageInv(Registry) => ImageTypeOK
  BY DEF ImageInv, ImageTypes
<1> QED
  BY <1>1, <1>2, PTL

(* After any build that succeeds, with others of any commit going on, every *)
(* registry has an image of its commit, its digests name such images, and   *)
(* what DockerDeploy goes on to deploy is one of them, for an EcrHost that  *)
(* is an ECR.                                                               *)
THEOREM DeployedPublished ==
  ASSUME NEW Registry, NEW settings, ImageOrders(settings, Registry)
  PROVE  ImageSpec(settings) => []DeployedIsPublished
<1>1. ImageSpec(settings) => []ImageInv(Registry)
  BY ImageInvariant
<1>2. ASSUME ImageInv(Registry)
      PROVE  DeployedIsPublished
  <2> SUFFICES ASSUME NEW r \in Pusher, ipc[r] = "done", ~orders[r].dry
               PROVE  /\ \A t \in Names(r) :
                           registry[t] \in Akin(r) /\ digests[r][t] \in Akin(r) \cup {NoImage}
                      /\ handed[r] # <<>> /\ orders[r].ecr \in RegistriesOf(r) =>
                           \E q \in Akin(r) : handed[r] \in Names(q) /\ registry[handed[r]] = q
    BY DEF DeployedIsPublished, ImageAt
  <2>1. ImageTypeOK /\ NamedSo /\ PusherInv(r) /\ orders[r].ecr \in Ecr
    BY <1>2 DEF ImageInv, ImageTypes
  <2>2. ASSUME NEW t \in Names(r)
        PROVE  /\ registry[t] \in Akin(r) /\ t \in Names(registry[t])
               /\ digests[r][t] \in Akin(r) \cup {NoImage}
    <3>1. t \in Ref /\ registry[t] # NoImage
      BY <2>1 DEF PusherInv, Ref
    <3>2. registry[t] \in Pusher /\ digests[r][t] \in Pusher \cup {NoImage}
      BY <2>1, <3>1 DEF ImageTypeOK
    <3>3. t \in Names(registry[t]) /\ (digests[r][t] # NoImage => t \in Names(digests[r][t]))
      BY <2>1, <3>1 DEF NamedSo
    <3> QED
      BY <3>2, <3>3 DEF Akin
  <2>3. ASSUME handed[r] # <<>>, orders[r].ecr \in RegistriesOf(r)
        PROVE  handed[r] \in Names(r)
    <3>1. orders[r].kind = "deploy" /\ handed[r] = Deployed(r)
      BY <2>1, <2>3 DEF PusherInv
    <3>2. Deployed(r) = PrimaryTag(r, orders[r].ecr)
      BY <2>1 DEF Deployed, PrimaryTag
    <3> QED
      BY <2>3, <3>1, <3>2 DEF Names
  <2> QED
    BY <2>2, <2>3
<1> QED
  BY <1>1, <1>2, PTL

-------------------------------------------------------------------------------
(* Content keys. While nobody edits, the key of a node is the graph of its *)
(* inputs, so results with one key have the same inputs.                   *)
GraphOf(f) == {<<x, f[x]>> : x \in DOMAIN f}

KeyTypes ==
  /\ KeyTypeOK
  /\ npc \in [Node -> {"list", "stat", "hash", "lookup", "diff", "work", "ran", "replayed",
                       "skipped", "failed"}]
  /\ listed \in [Node -> SUBSET File]
  /\ parts \in [Node -> SUBSET (File \X (Content \cup {Absent}))]
  /\ reuse = [n \in Node |-> reuse[n]]

Hashed(n) == {<<f, tree[f]>> : f \in DOMAIN Inputs(n) \ listed[n]}

(* What a node has of its key. *)
PartsInv(n) ==
  /\ npc[n] = "diff" => nodes[n].kind = "skip"
  /\ npc[n] \in {"list", "stat", "hash", "lookup"} => nodes[n].kind # "skip"
  /\ npc[n] \in {"list", "stat"} => parts[n] = {}
  /\ n \in steady /\ npc[n] = "stat" => listed[n] = Wanted(n) \cap tracked
  /\ n \in steady /\ npc[n] = "hash" =>
       /\ listed[n] \subseteq DOMAIN Inputs(n)
       /\ parts[n] = Hashed(n)
  /\ n \in steady /\ npc[n] \in {"lookup", "work"} /\ nodes[n].kind # "skip" =>
       parts[n] = GraphOf(Inputs(n))

StoredInv ==
  \A e \in cache :
    /\ e.key = <<e.salt, e.key[2]>>
    /\ e.inputs = [x \in DOMAIN e.inputs |-> e.inputs[x]]
    /\ e.sure => e.key[2] = GraphOf(e.inputs)

KeyInv == KeyTypes /\ StoredInv /\ ReuseMeansSameInputs /\ \A n \in Node : PartsInv(n)

LEMMA GraphPoints ==
  ASSUME NEW f, NEW g, GraphOf(f) = GraphOf(g), NEW x \in DOMAIN f
  PROVE  x \in DOMAIN g /\ g[x] = f[x]
<1>1. <<x, f[x]>> \in GraphOf(g)
  BY DEF GraphOf
<1>2. PICK y \in DOMAIN g : <<x, f[x]>> = <<y, g[y]>>
  BY <1>1 DEF GraphOf
<1> QED
  BY <1>2

LEMMA SameGraph ==
  ASSUME NEW f, NEW g, f = [x \in DOMAIN f |-> f[x]], g = [x \in DOMAIN g |-> g[x]],
         GraphOf(f) = GraphOf(g)
  PROVE  f = g
<1>1. \A x \in DOMAIN f : x \in DOMAIN g /\ g[x] = f[x]
  BY GraphPoints, Zenon
<1>2. \A x \in DOMAIN g : x \in DOMAIN f
  BY GraphPoints, Zenon
<1> QED
  BY <1>1, <1>2

(* The inputs are those of the tree, the index and the node. *)
LEMMA InputsStay ==
  ASSUME UNCHANGED <<nodes, tree, tracked>>, NEW n \in Node
  PROVE  Wanted(n)' = Wanted(n) /\ Inputs(n)' = Inputs(n) /\ Salt(n)' = Salt(n)
<1>1. Wanted(n)' = Wanted(n)
  BY DEF Wanted, GoDeps
<1> QED
  BY <1>1 DEF Inputs, Salt

LEMMA InputsFacts ==
  ASSUME NEW n \in Node
  PROVE  /\ Inputs(n) = [f \in DOMAIN Inputs(n) |-> Inputs(n)[f]]
         /\ DOMAIN Inputs(n) = {g \in (Wanted(n) \cap tracked) \ Quoted : tree[g] # Absent}
         /\ \A f \in DOMAIN Inputs(n) : Inputs(n)[f] = tree[f]
         /\ GraphOf(Inputs(n)) = {<<f, tree[f]>> : f \in DOMAIN Inputs(n)}
BY DEF Inputs, GraphOf

LEMMA KeyInitially ==
  ASSUME NEW settings, NEW files \in [File -> Content \cup {Absent}], NEW index \in SUBSET File,
         KeyInit(settings, files, index)
  PROVE  KeyInv
<1>1. KeyTypes
  BY KeyAssumption DEF KeyInit, KeyTypes, KeyTypeOK
<1> QED
  BY <1>1 DEF KeyInit, KeyInv, StoredInv, ReuseMeansSameInputs, PartsInv

LEMMA KeyTypesStep ==
  ASSUME KeyTypes, KeyNext
  PROVE  KeyTypes'
<1> USE DEF KeyTypes, KeyTypeOK
<1>1. CASE Edit
  BY <1>1, KeyAssumption DEF Edit
<1>2. ASSUME NEW n \in Node, TrackedFiles(n)
      PROVE  KeyTypes'
  BY <1>2 DEF TrackedFiles
<1>3. ASSUME NEW n \in Node, OnDisk(n)
      PROVE  KeyTypes'
  BY <1>3 DEF OnDisk
<1>4. ASSUME NEW n \in Node, HashObjects(n)
      PROVE  KeyTypes'
  <2>1. ASSUME NEW f \in listed[n]
        PROVE  parts[n] \cup {Part(f)} \in SUBSET (File \X (Content \cup {Absent}))
    BY <2>1 DEF Part
  <2> QED
    BY <1>4, <2>1 DEF HashObjects
<1>5. ASSUME NEW n \in Node, Lookup(n)
      PROVE  KeyTypes'
  <2>1. \E result : reuse' = [reuse EXCEPT ![n] = result] \/ reuse' = reuse
    BY <1>5 DEF Lookup, Given
  <2>2. reuse' = [m \in Node |-> reuse'[m]]
    BY <2>1
  <2>3. UNCHANGED <<tree, tracked, listed, parts, steady, edits>>
        /\ npc' \in [Node -> {"list", "stat", "hash", "lookup", "diff", "work", "ran", "replayed",
                              "skipped", "failed"}]
    BY <1>5 DEF Lookup
  <2> QED
    BY <2>2, <2>3
<1>6. ASSUME NEW n \in Node, Diff(n)
      PROVE  KeyTypes'
  <2>1. \E result : reuse' = [reuse EXCEPT ![n] = result] \/ reuse' = reuse
    BY <1>6 DEF Diff
  <2>2. reuse' = [m \in Node |-> reuse'[m]]
    BY <2>1
  <2>3. UNCHANGED <<tree, tracked, listed, parts, steady, edits>>
        /\ npc' \in [Node -> {"list", "stat", "hash", "lookup", "diff", "work", "ran", "replayed",
                              "skipped", "failed"}]
    BY <1>6 DEF Diff
  <2> QED
    BY <2>2, <2>3
<1>7. ASSUME NEW n \in Node, Work(n)
      PROVE  KeyTypes'
  BY <1>7 DEF Work
<1> QED
  BY <1>1, <1>2, <1>3, <1>4, <1>5, <1>6, <1>7 DEF KeyNext

(* What nodes have of their keys does not change while another one moves on. *)
LEMMA OtherNode ==
  ASSUME NEW m \in Node, PartsInv(m), UNCHANGED <<nodes, tree, tracked>>,
         npc'[m] = npc[m], listed'[m] = listed[m], parts'[m] = parts[m], m \in steady' => m \in steady
  PROVE  PartsInv(m)'
<1>1. Wanted(m)' = Wanted(m) /\ Inputs(m)' = Inputs(m)
  BY InputsStay
<1>2. Hashed(m)' = Hashed(m)
  BY <1>1 DEF Hashed
<1> QED
  BY <1>1, <1>2 DEF PartsInv

(* An edit makes no key unsure that is not made anew. *)
LEMMA EditStep ==
  ASSUME KeyInv, Edit
  PROVE  StoredInv' /\ ReuseMeansSameInputs' /\ \A n \in Node : PartsInv(n)'
<1>1. UNCHANGED <<nodes, npc, parts, cache, reuse>> /\ steady' = {}
  BY DEF Edit
<1>2. StoredInv'
  BY <1>1 DEF KeyInv, StoredInv
<1>3. \A n \in Node : Salt(n)' = Salt(n)
  BY <1>1 DEF Salt
<1>4. ReuseMeansSameInputs'
  BY <1>1, <1>3 DEF KeyInv, ReuseMeansSameInputs
<1>5. \A n \in Node : PartsInv(n)'
  BY <1>1 DEF KeyInv, PartsInv
<1> QED
  BY <1>2, <1>4, <1>5

(* The key takes in the inputs, one after the other. *)
LEMMA MakeKeyStep ==
  ASSUME KeyInv, NEW n \in Node, TrackedFiles(n) \/ OnDisk(n) \/ HashObjects(n)
  PROVE  StoredInv' /\ ReuseMeansSameInputs' /\ \A m \in Node : PartsInv(m)'
<1>0. KeyTypes /\ PartsInv(n)
  BY DEF KeyInv
<1>1. UNCHANGED <<nodes, tree, tracked, cache, reuse>>
  BY DEF TrackedFiles, OnDisk, HashObjects
<1>2. StoredInv'
  BY <1>1 DEF KeyInv, StoredInv
<1>3. ReuseMeansSameInputs'
  BY <1>1, InputsStay DEF KeyInv, ReuseMeansSameInputs
<1>4. ASSUME NEW m \in Node, m # n
      PROVE  PartsInv(m)'
  <2>1. npc'[m] = npc[m] /\ listed'[m] = listed[m] /\ parts'[m] = parts[m] /\ (m \in steady' => m \in steady)
    BY <1>0, <1>4 DEF TrackedFiles, OnDisk, HashObjects, KeyTypes
  <2> QED
    BY <1>1, <2>1, OtherNode DEF KeyInv
<1>5. Wanted(n)' = Wanted(n) /\ Inputs(n)' = Inputs(n)
  BY <1>1, InputsStay
<1>6. CASE TrackedFiles(n)
  <2>1. npc[n] = "list" /\ parts' = parts
        /\ (npc'[n] = "failed" \/ (npc'[n] = "stat" /\ listed'[n] = Wanted(n) \cap tracked))
    BY <1>0, <1>6 DEF TrackedFiles, KeyTypes
  <2> QED
    BY <1>0, <1>1, <1>2, <1>3, <1>4, <1>5, <2>1 DEF PartsInv
<1>7. CASE OnDisk(n)
  <2>1. npc[n] = "stat" /\ npc'[n] = "hash" /\ parts' = parts /\ steady' = steady
        /\ listed'[n] = {f \in listed[n] \ Quoted : tree[f] # Absent}
    BY <1>0, <1>7 DEF OnDisk, KeyTypes
  <2>2. n \in steady => listed'[n] = DOMAIN Inputs(n)
    BY <1>0, <2>1, InputsFacts DEF PartsInv
  <2>3. parts[n] = {}
    BY <1>0, <2>1 DEF PartsInv
  <2>4. n \in steady => Hashed(n)' = {}
    BY <1>5, <2>2 DEF Hashed
  <2>5. PartsInv(n)'
    BY <1>0, <1>1, <1>5, <2>1, <2>2, <2>3, <2>4 DEF PartsInv
  <2> QED
    BY <1>2, <1>3, <1>4, <2>5
<1>8. CASE HashObjects(n)
  <2>0. npc[n] = "hash" /\ steady' = steady
    BY <1>8 DEF HashObjects
  <2>1. CASE npc'[n] = "failed"
    BY <1>2, <1>3, <1>4, <2>1 DEF PartsInv
  <2>2. CASE npc'[n] # "failed"
    <3>1. \/ listed[n] = {} /\ npc'[n] = "lookup" /\ UNCHANGED <<listed, parts>>
          \/ npc'[n] = "hash" /\ \E f \in listed[n] :
               listed'[n] = listed[n] \ {f} /\ parts'[n] = parts[n] \cup {<<f, tree[f]>>}
      BY <1>0, <1>8, <2>2 DEF HashObjects, KeyTypes, Part
    <3>2. nodes[n].kind # "skip"
          /\ (n \in steady => listed[n] \subseteq DOMAIN Inputs(n) /\ parts[n] = Hashed(n))
      BY <1>0, <2>0 DEF PartsInv
    <3>3. CASE listed[n] = {} /\ npc'[n] = "lookup" /\ UNCHANGED <<listed, parts>>
      <4>1. n \in steady => parts[n] = GraphOf(Inputs(n))
        BY <3>2, <3>3, InputsFacts DEF Hashed
      <4>2. PartsInv(n)'
        BY <1>1, <1>5, <2>0, <3>2, <3>3, <4>1 DEF PartsInv
      <4> QED
        BY <1>2, <1>3, <1>4, <4>2
    <3>4. ASSUME NEW f \in listed[n], npc'[n] = "hash",
                 listed'[n] = listed[n] \ {f}, parts'[n] = parts[n] \cup {<<f, tree[f]>>}
          PROVE  PartsInv(n)'
      <4>1. ASSUME n \in steady
            PROVE  Hashed(n)' = Hashed(n) \cup {<<f, tree[f]>>}
        <5>1. Hashed(n)' = {<<g, tree[g]>> : g \in DOMAIN Inputs(n) \ (listed[n] \ {f})}
          BY <1>1, <1>5, <3>4 DEF Hashed
        <5> QED
          BY <3>2, <4>1, <5>1 DEF Hashed
      <4> QED
        BY <1>1, <1>5, <2>0, <3>2, <3>4, <4>1 DEF PartsInv
    <3> QED
      BY <1>2, <1>3, <1>4, <3>1, <3>3, <3>4
  <2> QED
    BY <2>1, <2>2
<1> QED
  BY <1>6, <1>7, <1>8

(* Two sure results with one key are results for one tree. *)
LEMMA LookupStep ==
  ASSUME KeyInv, NEW n \in Node, Lookup(n)
  PROVE  StoredInv' /\ ReuseMeansSameInputs' /\ \A m \in Node : PartsInv(m)'
<1>0. KeyTypes /\ PartsInv(n) /\ npc[n] = "lookup"
  BY DEF KeyInv, Lookup
<1>1. UNCHANGED <<nodes, tree, tracked, listed, parts, steady, cache>>
  BY DEF Lookup
<1>2. StoredInv'
  BY <1>1 DEF KeyInv, StoredInv
<1>3. \A m \in Node : m # n => npc'[m] = npc[m] /\ reuse'[m] = reuse[m]
  BY <1>0 DEF Lookup, Given, KeyTypes
<1>4. \A m \in Node : m # n => PartsInv(m)'
  BY <1>1, <1>3, OtherNode DEF KeyInv
<1>5. PartsInv(n)'
  <2>1. npc'[n] \in {"replayed", "work"}
    BY <1>0 DEF Lookup, KeyTypes
  <2>2. Inputs(n)' = Inputs(n)
    BY <1>1, InputsStay
  <2> QED
    BY <1>0, <1>1, <2>1, <2>2 DEF PartsInv
<1>6. \A m \in Node : Salt(m)' = Salt(m)
  BY <1>1, InputsStay
<1>7. ASSUME reuse'[n].sure, reuse' # reuse
      PROVE  reuse'[n].salt = Salt(n) /\ reuse'[n].from = reuse'[n].now
  <2>1. PICK e \in cache : e.key = Key(n) /\ Given(n, e)
    BY <1>7 DEF Lookup
  <2>2. reuse'[n] = [salt |-> e.salt, from |-> e.inputs, now |-> Inputs(n), sure |-> e.sure /\ n \in steady]
    BY <1>0, <2>1 DEF Given, KeyTypes
  <2>3. e.sure /\ n \in steady
    <3>1. reuse'[n].sure = (e.sure /\ n \in steady)
      BY <2>2
    <3> QED
      BY <1>7, <3>1, Zenon
  <2>4. e.salt = Salt(n) /\ e.key[2] = parts[n]
    <3>1. e.key = <<e.salt, e.key[2]>>
      BY <2>1 DEF KeyInv, StoredInv
    <3>2. e.key = <<Salt(n), parts[n]>>
      BY <2>1 DEF Key
    <3> QED
      BY <3>1, <3>2
  <2>5. GraphOf(e.inputs) = GraphOf(Inputs(n))
    <3>1. nodes[n].kind # "skip"
      BY <1>0 DEF PartsInv
    <3> QED
      BY <1>0, <2>3, <2>4, <3>1 DEF KeyInv, StoredInv, PartsInv
  <2>6. e.inputs = Inputs(n)
    <3>1. e.inputs = [x \in DOMAIN e.inputs |-> e.inputs[x]]
      BY <2>1 DEF KeyInv, StoredInv
    <3>2. Inputs(n) = [x \in DOMAIN Inputs(n) |-> Inputs(n)[x]]
      BY InputsFacts
    <3> QED
      BY <2>5, <3>1, <3>2, SameGraph
  <2> QED
    BY <2>2, <2>4, <2>6
<1>8. ReuseMeansSameInputs'
  BY <1>3, <1>6, <1>7 DEF KeyInv, ReuseMeansSameInputs
<1> QED
  BY <1>2, <1>4, <1>5, <1>8

(* A job is skipped only if the files it guards are as in the base. *)
LEMMA DiffStep ==
  ASSUME KeyInv, NEW n \in Node, Diff(n)
  PROVE  StoredInv' /\ ReuseMeansSameInputs' /\ \A m \in Node : PartsInv(m)'
<1>0. KeyTypes /\ PartsInv(n) /\ npc[n] = "diff" /\ nodes[n].kind = "skip"
  BY DEF KeyInv, Diff, PartsInv
<1>1. UNCHANGED <<nodes, tree, tracked, listed, parts, steady, cache>>
  BY DEF Diff
<1>2. StoredInv'
  BY <1>1 DEF KeyInv, StoredInv
<1>3. \A m \in Node : m # n => npc'[m] = npc[m] /\ reuse'[m] = reuse[m]
  BY <1>0 DEF Diff, KeyTypes
<1>4. \A m \in Node : m # n => PartsInv(m)'
  BY <1>1, <1>3, OtherNode DEF KeyInv
<1>5. PartsInv(n)'
  <2>1. npc'[n] \in {"skipped", "work"}
    BY <1>0 DEF Diff, KeyTypes
  <2> QED
    BY <1>0, <1>1, <2>1 DEF PartsInv
<1>6. \A m \in Node : Salt(m)' = Salt(m)
  BY <1>1, InputsStay
<1>7. ASSUME reuse' # reuse
      PROVE  reuse'[n].salt = Salt(n) /\ reuse'[n].from = reuse'[n].now
  <2> DEFINE known == {g \in nodes[n].globs \ Quoted : nodes[n].based /\ Base[g] # Absent}
  <2>1. /\ Unchanged(n)
        /\ reuse' = [reuse EXCEPT ![n] = [salt |-> Salt(n), now |-> Inputs(n), sure |-> TRUE,
                                          from |-> [f \in known |-> Base[f]]]]
    BY <1>7 DEF Diff
  <2>2. reuse'[n] = [salt |-> Salt(n), now |-> Inputs(n), sure |-> TRUE, from |-> [f \in known |-> Base[f]]]
    BY <1>0, <2>1 DEF KeyTypes
  <2>3. Wanted(n) = nodes[n].globs
    BY <1>0 DEF Wanted
  <2>4. known = {g \in (Wanted(n) \cap tracked) \ Quoted : tree[g] # Absent}
    BY <2>1, <2>3 DEF Unchanged
  <2>5. \A f \in known : Base[f] = tree[f]
    BY <2>1, <2>3, <2>4 DEF Unchanged
  <2>6. [f \in known |-> Base[f]] = Inputs(n)
    BY <2>4, <2>5 DEF Inputs
  <2> QED
    BY <2>2, <2>6
<1>8. ReuseMeansSameInputs'
  BY <1>3, <1>6, <1>7 DEF KeyInv, ReuseMeansSameInputs
<1> QED
  BY <1>2, <1>4, <1>5, <1>8

(* A result is stored with the inputs that its key stands for, if it is sure. *)
LEMMA WorkStep ==
  ASSUME KeyInv, NEW n \in Node, Work(n)
  PROVE  StoredInv' /\ ReuseMeansSameInputs' /\ \A m \in Node : PartsInv(m)'
<1>0. KeyTypes /\ PartsInv(n) /\ npc[n] = "work"
  BY DEF KeyInv, Work
<1>1. UNCHANGED <<nodes, tree, tracked, listed, parts, steady, reuse>>
  BY DEF Work
<1>2. ReuseMeansSameInputs'
  BY <1>1, InputsStay DEF KeyInv, ReuseMeansSameInputs
<1>3. \A m \in Node : m # n => npc'[m] = npc[m]
  BY <1>0 DEF Work, KeyTypes
<1>4. \A m \in Node : m # n => PartsInv(m)'
  BY <1>1, <1>3, OtherNode DEF KeyInv
<1>5. PartsInv(n)'
  <2>1. npc'[n] \in {"ran", "failed"}
    BY <1>0 DEF Work, KeyTypes
  <2> QED
    BY <1>0, <1>1, <2>1 DEF PartsInv
<1>6. ASSUME NEW e \in cache', e \notin cache
      PROVE  /\ e.key = <<e.salt, e.key[2]>>
             /\ e.inputs = [x \in DOMAIN e.inputs |-> e.inputs[x]]
             /\ e.sure => e.key[2] = GraphOf(e.inputs)
  <2>1. /\ nodes[n].kind # "skip"
        /\ e = [key |-> Key(n), salt |-> Salt(n), inputs |-> Inputs(n), sure |-> n \in steady]
    BY <1>6 DEF Work
  <2>2. e.key = <<Salt(n), parts[n]>> /\ e.salt = Salt(n) /\ e.inputs = Inputs(n)
    BY <2>1 DEF Key
  <2>3. e.sure = (n \in steady)
    BY <2>1
  <2>4. n \in steady => parts[n] = GraphOf(Inputs(n))
    BY <1>0, <2>1 DEF PartsInv
  <2>5. e.key = <<e.salt, e.key[2]>> /\ e.key[2] = parts[n]
    BY <2>2
  <2>6. e.sure => e.key[2] = GraphOf(e.inputs)
    BY <2>2, <2>3, <2>4, <2>5, Zenon
  <2>7. Inputs(n) = [x \in DOMAIN Inputs(n) |-> Inputs(n)[x]]
    BY InputsFacts
  <2>8. e.inputs = [x \in DOMAIN e.inputs |-> e.inputs[x]]
    BY <2>2, <2>7, Zenon
  <2> QED
    BY <2>5, <2>6, <2>8, Zenon
<1>7. StoredInv'
  BY <1>6 DEF KeyInv, StoredInv
<1> QED
  BY <1>2, <1>4, <1>5, <1>7

LEMMA KeyInvariant ==
  ASSUME NEW settings, NEW files \in [File -> Content \cup {Absent}], NEW index \in SUBSET File
  PROVE  KeySpec(settings, files, index) => []KeyInv
<1>1. KeyInit(settings, files, index) => KeyInv
  BY KeyInitially
<1>2. ASSUME KeyInv, [KeyNext]_keyVars
      PROVE  KeyInv'
  <2>1. CASE KeyNext
    <3>1. KeyTypes'
      BY <1>2, <2>1, KeyTypesStep DEF KeyInv
    <3>2. StoredInv' /\ ReuseMeansSameInputs' /\ \A n \in Node : PartsInv(n)'
      BY <1>2, <2>1, EditStep, MakeKeyStep, LookupStep, DiffStep, WorkStep DEF KeyNext
    <3> QED
      BY <3>1, <3>2 DEF KeyInv
  <2>2. CASE UNCHANGED keyVars
    <3>1. UNCHANGED <<nodes, tree, tracked, npc, listed, parts, steady, cache, reuse, edits>>
      BY <2>2 DEF keyVars
    <3>2. KeyTypes' /\ StoredInv'
      BY <1>2, <3>1 DEF KeyInv, KeyTypes, KeyTypeOK, StoredInv
    <3>3. ReuseMeansSameInputs'
      BY <1>2, <3>1, InputsStay DEF KeyInv, ReuseMeansSameInputs
    <3>4. \A n \in Node : PartsInv(n)'
      BY <1>2, <3>1, OtherNode DEF KeyInv
    <3> QED
      BY <3>2, <3>3, <3>4 DEF KeyInv
  <2> QED
    BY <1>2, <2>1, <2>2
<1> QED
  BY <1>1, <1>2, PTL DEF KeySpec

(* The tree, the index and what the nodes list keep their types.            *)
THEOREM KeyTypeCorrect ==
  ASSUME NEW settings, NEW files \in [File -> Content \cup {Absent}], NEW index \in SUBSET File
  PROVE  KeySpec(settings, files, index) => []KeyTypeOK
<1>1. KeySpec(settings, files, index) => []KeyInv
  BY KeyInvariant
<1>2. KeyInv => KeyTypeOK
  BY DEF KeyInv, KeyTypes
<1> QED
  BY <1>1, <1>2, PTL

(* For any number of nodes and of edits between them, a node is given the   *)
(* outcome of another in place of its own only for the same salt, package,  *)
(* names and contents, if nobody edited while a key was made or used.       *)
THEOREM ReuseIsSound ==
  ASSUME NEW settings, NEW files \in [File -> Content \cup {Absent}], NEW index \in SUBSET File
  PROVE  KeySpec(settings, files, index) => []ReuseMeansSameInputs
<1>1. KeySpec(settings, files, index) => []KeyInv
  BY KeyInvariant
<1>2. KeyInv => ReuseMeansSameInputs
  BY DEF KeyInv
<1> QED
  BY <1>1, <1>2, PTL
===============================================================================

------------------------ MODULE CloudPipelines_proofs ------------------------
(***************************************************************************)
(* Theorems about overlapping pipeline runs against one service, for any   *)
(* number of runs, of any templates of one platform, with any number of    *)
(* retries and of versions made before.                                    *)
(***************************************************************************)
EXTENDS CloudPipelines, WellFoundedInduction, TLAPS

Steps == {"read", "publish", "shift", "register", "update", "stabilize",
          "create", "wait", "verify", "choose", "back", "done"}
Results == {"none", "ok", "failed", "rolled back"}

IsNumbered(p) == IsLambda(p) \/ IsEcs(p)

(* The service: there is an old version to fall back on, what traffic      *)
(* names is ready and has served, and the newest version has a maker.      *)
ServiceInv ==
  /\ made \in Seq({"pending", "ready", "failed"})
  /\ OldCount <= Len(made) /\ made[OldCount] = "ready" /\ OldCount \in served
  /\ served \in SUBSET (1..Len(made))
  /\ route \in 0..Len(made)
  /\ route # 0 => made[route] = "ready"
  /\ Serving \in served
  /\ (\E p \in Pipeline : IsNumbered(p)) => route # 0
  /\ Len(made) = OldCount \/ \E p \in Pipeline : Len(made) \in mine[p]

RunTypes ==
  /\ kind \in Mixes
  /\ cpc \in [Pipeline -> Steps]
  /\ handle \in [Pipeline -> 0..Len(made)]
  /\ backTo \in [Pipeline -> 0..Len(made)]
  /\ retried \in [Pipeline -> 0..(JobTries - 1)]
  /\ result \in [Pipeline -> Results]
  /\ mine \in [Pipeline -> SUBSET (1..Len(made))]
  /\ unheard \in SUBSET Pipeline

(* No version is of two runs. *)
Apart == \A p, q \in Pipeline : p # q => mine[p] \cap mine[q] = {}

(* Where a run stands says what it has made, captured and chosen. *)
PlaceInv(p) ==
  /\ cpc[p] # "done" => result[p] = "none"
  /\ cpc[p] \in {"create", "wait"} => IsCloudRun(p)
  /\ cpc[p] \in {"shift", "update", "wait"} => mine[p] # {}
  /\ cpc[p] = "read" /\ ~IsLambda(p) => mine[p] = {}
  /\ cpc[p] # "done" \/ mine[p] # {} => IsNumbered(p) \/ IsCloudRun(p)
  /\ cpc[p] = "back" => backTo[p] # 0
  /\ backTo[p] # 0 => cpc[p] \in {"back", "done"}
  /\ backTo[p] # 0 => backTo[p] = handle[p] \/ (IsCloudRun(p) /\ handle[p] = 0)
  /\ IsNumbered(p) /\ cpc[p] \in {"publish", "shift", "register", "update", "stabilize",
                                 "verify", "choose", "back"} => handle[p] # 0

(* What is known of the versions it deals with. *)
VersionsInv(p) ==
  /\ handle[p] # 0 => made[handle[p]] = "ready"
  /\ backTo[p] # 0 => made[backTo[p]] = "ready"
  /\ p \notin unheard => handle[p] \notin mine[p]
  /\ IsNumbered(p) => \A v \in mine[p] : made[v] = "ready"
  /\ IsLambda(p) /\ p \notin unheard /\ cpc[p] \in {"read", "publish", "shift"} =>
       mine[p] \cap served = {}
  /\ IsLambda(p) /\ handle[p] # 0 => handle[p] \in served
  /\ IsEcs(p) /\ handle[p] # 0 =>
       handle[p] = OldCount \/ \E q \in Pipeline \ {p} : handle[p] \in mine[q]

Settled(p) == cpc[p] = "verify" \/ result[p] = "ok"

(* What its deploy achieved before Verify. *)
DeployedInv(p) ==
  /\ IsNumbered(p) /\ (Settled(p) \/ cpc[p] = "stabilize") => NewestOf(p) \in served
  /\ IsCloudRun(p) /\ Settled(p) => mine[p] # {} /\ made[NewestOf(p)] = "ready"

CloudInv ==
  /\ ServiceInv /\ RunTypes /\ Apart
  /\ \A p \in Pipeline : PlaceInv(p) /\ VersionsInv(p) /\ DeployedInv(p)

-------------------------------------------------------------------------------
(* The largest of some numbers up to n exists: there is a least distance   *)
(* from n, since < is well-founded on the naturals.                        *)
LEMMA MaxFacts ==
  ASSUME NEW n \in Nat, NEW S, S \subseteq 0..n, S # {}
  PROVE  Max(S) \in S /\ \A x \in S : Max(S) >= x
<1> DEFINE T == {d \in Nat : n - d \in S}
<1>1. T \subseteq Nat /\ T # {}
  <2>1. PICK k \in S : TRUE
    OBVIOUS
  <2>2. n - k \in Nat /\ n - (n - k) = k
    BY <2>1
  <2> QED
    BY <2>1, <2>2
<1>2. PICK d \in T : \A e \in T : ~(<<e, d>> \in OpToRel(<, Nat))
  <2> HIDE DEF T
  <2> QED
    BY <1>1, NatLessThanWellFounded, WFMin
<1>3. \A e \in T : ~(e < d)
  BY <1>1, <1>2 DEF OpToRel
<1>4. PICK m \in S : m = n - d
  OBVIOUS
<1>5. \A x \in S : m >= x
  <2>1. SUFFICES ASSUME NEW x \in S PROVE m >= x
    OBVIOUS
  <2>2. n - x \in T
    OBVIOUS
  <2>3. ~(n - x < d)
    BY <1>3, <2>2
  <2> QED
    BY <1>4, <2>3
<1>6. \E z \in S : \A x \in S : z >= x
  BY <1>5
<1> QED
  BY <1>6 DEF Max

States == {"pending", "ready", "failed"}

(* The newest of the versions that are ready, and of those a run made. *)
ReadyIn(m) == {r \in DOMAIN m : m[r] = "ready"}

LEMMA LatestFacts ==
  ASSUME NEW m \in Seq(States)
  PROVE  /\ Max(ReadyIn(m) \cup {0}) \in 0..Len(m)
         /\ Max(ReadyIn(m) \cup {0}) # 0 => m[Max(ReadyIn(m) \cup {0})] = "ready"
         /\ \A r \in 1..Len(m) : m[r] = "ready" => Max(ReadyIn(m) \cup {0}) >= r
<1>1. Len(m) \in Nat /\ DOMAIN m = 1..Len(m)
  OBVIOUS
<1>2. ReadyIn(m) \cup {0} \subseteq 0..Len(m) /\ ReadyIn(m) \cup {0} # {}
  BY <1>1 DEF ReadyIn
<1>3. /\ Max(ReadyIn(m) \cup {0}) \in ReadyIn(m) \cup {0}
      /\ \A r \in ReadyIn(m) \cup {0} : Max(ReadyIn(m) \cup {0}) >= r
  BY <1>1, <1>2, MaxFacts
<1> QED
  BY <1>1, <1>2, <1>3 DEF ReadyIn

LEMMA NewestFacts ==
  ASSUME NEW n \in Nat, NEW V, V \subseteq 1..n
  PROVE  /\ Max(V \cup {0}) \in 0..n
         /\ V # {} <=> Max(V \cup {0}) # 0
         /\ V # {} => Max(V \cup {0}) \in V
<1>1. V \cup {0} \subseteq 0..n /\ V \cup {0} # {}
  OBVIOUS
<1>2. Max(V \cup {0}) \in V \cup {0} /\ \A v \in V \cup {0} : Max(V \cup {0}) >= v
  BY <1>1, MaxFacts
<1>3. ASSUME NEW v \in V
      PROVE  Max(V \cup {0}) # 0
  <2>1. Max(V \cup {0}) >= v /\ v \in 1..n
    BY <1>2
  <2> QED
    BY <2>1
<1> QED
  BY <1>1, <1>2, <1>3

LEMMA ServiceFacts ==
  ASSUME ServiceInv
  PROVE  /\ Len(made) \in Nat /\ DOMAIN made = 1..Len(made)
         /\ \A r \in 1..Len(made) : made[r] \in States
         /\ OldCount \in 1..Len(made) /\ OldCount \in Nat \ {0}
         /\ LatestReady \in 1..Len(made) /\ made[LatestReady] = "ready"
         /\ \A r \in 1..Len(made) : made[r] = "ready" => LatestReady >= r
         /\ Serving \in 1..Len(made) /\ made[Serving] = "ready"
<1>1. /\ made \in Seq(States) /\ Len(made) \in Nat /\ DOMAIN made = 1..Len(made)
      /\ OldCount \in 1..Len(made) /\ made[OldCount] = "ready" /\ OldCount \in Nat \ {0}
      /\ route \in 0..Len(made) /\ (route # 0 => made[route] = "ready")
  BY CloudAssumption DEF ServiceInv, States
<1>2. /\ LatestReady \in 0..Len(made) /\ (LatestReady # 0 => made[LatestReady] = "ready")
      /\ \A r \in 1..Len(made) : made[r] = "ready" => LatestReady >= r
  BY <1>1, LatestFacts DEF LatestReady, Ready, ReadyIn
<1>3. LatestReady # 0
  BY <1>1, <1>2
<1> QED
  BY <1>1, <1>2, <1>3 DEF Serving

LEMMA OwnFacts ==
  ASSUME ServiceInv, RunTypes, NEW p \in Pipeline
  PROVE  /\ mine[p] \subseteq 1..Len(made)
         /\ NewestOf(p) \in 0..Len(made)
         /\ mine[p] # {} <=> NewestOf(p) # 0
         /\ mine[p] # {} => NewestOf(p) \in mine[p] /\ NewestOf(p) \in 1..Len(made)
  BY ServiceFacts, NewestFacts DEF RunTypes, NewestOf

(* Runs of two platforms never meet. *)
LEMMA OnePlatform ==
  ASSUME RunTypes, NEW p \in Pipeline, NEW q \in Pipeline
  PROVE  /\ IsLambda(p) => ~IsEcs(q) /\ ~IsCloudRun(q)
         /\ IsEcs(p) => ~IsCloudRun(q)
<1>1. PICK P \in CloudPlatforms : kind \in [Pipeline -> P \cup {"absent"}]
  BY CloudAssumption DEF RunTypes
<1>2. kind[p] \in P \cup {"absent"} /\ kind[q] \in P \cup {"absent"}
  BY <1>1
<1> QED
  BY <1>2 DEF CloudPlatforms, IsLambda, IsEcs, IsCloudRun
-------------------------------------------------------------------------------
(* What every step has in common: versions are added, those that are ready *)
(* stay so, and so do the facts of what has served.                        *)
Grows ==
  /\ Len(made') \in Nat /\ Len(made') >= Len(made)
  /\ \A r \in 1..Len(made) : made[r] = "ready" => made'[r] = "ready"
  /\ served \subseteq served'
  /\ kind' = kind

OnlyRuns(p) ==
  \A q \in Pipeline \ {p} :
    /\ cpc'[q] = cpc[q] /\ handle'[q] = handle[q] /\ backTo'[q] = backTo[q]
    /\ result'[q] = result[q] /\ mine'[q] = mine[q]
    /\ q \in unheard' <=> q \in unheard

(* What others do leaves a run what is known of it. *)
LEMMA OthersStay ==
  ASSUME CloudInv, Grows, NEW p \in Pipeline,
         cpc'[p] = cpc[p], handle'[p] = handle[p], backTo'[p] = backTo[p],
         result'[p] = result[p], mine'[p] = mine[p], p \in unheard' <=> p \in unheard,
         IsLambda(p) => mine[p] \cap served' \subseteq served,
         \A q \in Pipeline : mine[q] \subseteq mine'[q]
  PROVE  PlaceInv(p)' /\ VersionsInv(p)' /\ DeployedInv(p)'
<1>1. /\ ServiceInv /\ RunTypes /\ PlaceInv(p) /\ VersionsInv(p) /\ DeployedInv(p)
      /\ handle[p] \in 0..Len(made) /\ backTo[p] \in 0..Len(made)
      /\ mine[p] \subseteq 1..Len(made)
  BY OwnFacts DEF CloudInv, RunTypes
<1>2. /\ IsLambda(p)' = IsLambda(p) /\ IsEcs(p)' = IsEcs(p) /\ IsCloudRun(p)' = IsCloudRun(p)
      /\ IsNumbered(p)' = IsNumbered(p) /\ NewestOf(p)' = NewestOf(p) /\ Settled(p)' = Settled(p)
  BY DEF Grows, IsLambda, IsEcs, IsCloudRun, IsNumbered, NewestOf, Settled
<1>3. PlaceInv(p)'
  BY <1>1, <1>2 DEF PlaceInv
<1>4. VersionsInv(p)'
  <2>1. /\ handle'[p] # 0 => made'[handle'[p]] = "ready"
        /\ backTo'[p] # 0 => made'[backTo'[p]] = "ready"
    BY <1>1, ServiceFacts DEF VersionsInv, Grows
  <2>2. IsNumbered(p) => \A v \in mine'[p] : made'[v] = "ready"
    BY <1>1 DEF VersionsInv, Grows
  <2>3. IsEcs(p) /\ handle'[p] # 0 =>
          handle'[p] = OldCount \/ \E q \in Pipeline \ {p} : handle'[p] \in mine'[q]
    BY <1>1 DEF VersionsInv
  <2>4. IsLambda(p) /\ handle'[p] # 0 => handle'[p] \in served'
    BY <1>1 DEF VersionsInv, Grows
  <2>5. IsLambda(p) /\ p \notin unheard' /\ cpc'[p] \in {"read", "publish", "shift"} =>
          mine'[p] \cap served' = {}
    BY <1>1 DEF VersionsInv
  <2>6. p \notin unheard' => handle'[p] \notin mine'[p]
    BY <1>1 DEF VersionsInv
  <2> QED
    BY <1>2, <2>1, <2>2, <2>3, <2>4, <2>5, <2>6 DEF VersionsInv
<1>5. DeployedInv(p)'
  <2>1. IsCloudRun(p) /\ Settled(p) => mine[p] # {} /\ made'[NewestOf(p)] = "ready"
    BY <1>1, OwnFacts DEF DeployedInv, Grows
  <2> QED
    BY <1>1, <1>2, <2>1 DEF DeployedInv, Grows
<1> QED
  BY <1>3, <1>4, <1>5

(* A step of one run. *)
LEMMA RunStep ==
  ASSUME CloudInv, Grows, NEW p \in Pipeline, OnlyRuns(p), ServiceInv', RunTypes',
         mine[p] \subseteq mine'[p],
         \A v \in mine'[p] \ mine[p] : v > Len(made),
         \A q \in Pipeline \ {p} : IsLambda(q) => mine[q] \cap served' \subseteq served,
         PlaceInv(p)', VersionsInv(p)', DeployedInv(p)'
  PROVE  CloudInv'
<1>1. ServiceInv /\ RunTypes /\ Apart
  BY DEF CloudInv
<1>2. \A q \in Pipeline : mine[q] \subseteq mine'[q]
  BY DEF OnlyRuns
<1>3. ASSUME NEW q \in Pipeline
      PROVE  PlaceInv(q)' /\ VersionsInv(q)' /\ DeployedInv(q)'
  <2>1. CASE q = p
    BY <2>1
  <2>2. CASE q # p
    BY <1>2, <2>2, OthersStay DEF OnlyRuns
  <2> QED
    BY <2>1, <2>2
<1>4. Apart'
  <2>1. SUFFICES ASSUME NEW q \in Pipeline, NEW s \in Pipeline, q # s, NEW v,
                        v \in mine'[q], v \in mine'[s]
                 PROVE  FALSE
    BY Zenon DEF Apart
  <2>2. ASSUME NEW t \in Pipeline
        PROVE  v \in mine'[t] => v \in mine[t] \/ (t = p /\ v > Len(made))
    BY DEF OnlyRuns
  <2>3. \A t \in Pipeline : v \in mine[t] => v \in 1..Len(made)
    BY <1>1, OwnFacts
  <2>4. ~(v \in mine[q] /\ v \in mine[s])
    BY <1>1, <2>1 DEF Apart
  <2> QED
    BY <1>1, <2>1, <2>2, <2>3, <2>4, ServiceFacts
<1> QED
  BY <1>3, <1>4 DEF CloudInv

(* Steps after which the service is what it was. *)
LEMMA ServiceStays ==
  ASSUME CloudInv, UNCHANGED <<serviceVars, kind, mine>>
  PROVE  ServiceInv' /\ Grows
<1>1. ServiceInv /\ Serving' = Serving /\ UNCHANGED <<made, route, served, kind, mine>>
  BY DEF CloudInv, serviceVars, Serving, LatestReady, Ready
<1>2. Grows
  BY <1>1, ServiceFacts DEF Grows
<1>3. \A p \in Pipeline : IsNumbered(p)' = IsNumbered(p)
  BY <1>1 DEF IsNumbered, IsLambda, IsEcs
<1>4. ServiceInv'
  BY <1>1, <1>3 DEF ServiceInv
<1> QED
  BY <1>2, <1>4

(* Traffic is sent to a version that is ready. *)
LEMMA RouteFacts ==
  ASSUME CloudInv, NEW r \in 1..Len(made), made[r] = "ready", Route(r),
         UNCHANGED <<made, kind, mine>>
  PROVE  ServiceInv' /\ Grows /\ served' = served \cup {r}
<1>1. ServiceInv /\ r # 0
  BY DEF CloudInv
<1>2. Serving' = r /\ route' = r /\ served' = served \cup {r}
  BY <1>1 DEF Route, Serving
<1>3. Grows
  BY <1>1, <1>2, ServiceFacts DEF Grows
<1>4. ServiceInv'
  BY <1>1, <1>2 DEF ServiceInv
<1> QED
  BY <1>2, <1>3, <1>4

LEMMA AddFacts ==
  ASSUME NEW m \in Seq(States), NEW t \in States
  PROVE  /\ Append(m, t) \in Seq(States) /\ Len(Append(m, t)) = Len(m) + 1
         /\ \A r \in 1..Len(m) : Append(m, t)[r] = m[r]
         /\ Append(m, t)[Len(m) + 1] = t
  OBVIOUS

(* A version is made ready, where traffic names a version. *)
LEMMA ReadyAdded ==
  ASSUME CloudInv, NEW p \in Pipeline, IsNumbered(p), made' = Append(made, "ready"),
         mine' = [mine EXCEPT ![p] = @ \cup {Len(made')}], UNCHANGED <<route, served, kind>>
  PROVE  ServiceInv' /\ Grows /\ Len(made') = Len(made) + 1 /\ made'[Len(made')] = "ready"
<1>1. ServiceInv /\ RunTypes /\ route # 0 /\ made \in Seq(States)
  BY DEF CloudInv, ServiceInv, States
<1>2. /\ made' \in Seq(States) /\ Len(made') = Len(made) + 1 /\ Len(made) \in Nat
      /\ \A r \in 1..Len(made) : made'[r] = made[r]
      /\ made'[Len(made')] = "ready"
  BY <1>1, AddFacts DEF States
<1>3. Grows
  BY <1>2 DEF Grows
<1>4. Serving' = Serving
  BY <1>1 DEF Serving
<1>5. Len(made') \in mine'[p]
  BY <1>1 DEF RunTypes
<1>6. ServiceInv'
  BY <1>1, <1>2, <1>4, <1>5, ServiceFacts DEF ServiceInv, States
<1> QED
  BY <1>2, <1>3, <1>6
(* A revision is created, where traffic follows the newest ready one or    *)
(* has been tied to what that was.                                         *)
LEMMA PendingAdded ==
  ASSUME CloudInv, NEW p \in Pipeline, IsCloudRun(p), made' = Append(made, "pending"),
         mine' = [mine EXCEPT ![p] = @ \cup {Len(made')}], route' \in {Serving, route},
         UNCHANGED <<served, kind>>
  PROVE  ServiceInv' /\ Grows /\ Len(made') = Len(made) + 1
<1>1. ServiceInv /\ RunTypes /\ made \in Seq(States) /\ Len(made) \in Nat
  BY ServiceFacts DEF CloudInv, ServiceInv, States
<1>2. /\ made' \in Seq(States) /\ Len(made') = Len(made) + 1
      /\ \A r \in 1..Len(made) : made'[r] = made[r]
      /\ made'[Len(made')] = "pending"
  BY <1>1, AddFacts DEF States
<1>3. Grows
  BY <1>1, <1>2 DEF Grows
<1>4. ReadyIn(made') = ReadyIn(made)
  BY <1>1, <1>2 DEF ReadyIn
<1>5. LatestReady' = LatestReady
  BY <1>4 DEF LatestReady, Ready, ReadyIn
<1>6. Serving' = Serving
  BY <1>1, <1>5, ServiceFacts DEF Serving
<1>7. \A q \in Pipeline : ~IsNumbered(q)'
  BY <1>1, OnePlatform DEF IsNumbered, IsLambda, IsEcs
<1>8. Len(made') \in mine'[p]
  BY <1>1 DEF RunTypes
<1>9. route' \in 0..Len(made) /\ (route' # 0 => made[route'] = "ready")
  BY <1>1, ServiceFacts DEF ServiceInv
<1>10. ServiceInv'
  BY <1>1, <1>2, <1>6, <1>7, <1>8, <1>9, ServiceFacts DEF ServiceInv, States
<1> QED
  BY <1>2, <1>3, <1>10

(* A revision becomes ready, and under LATEST takes the traffic if it is   *)
(* the newest of those; or it never does.                                  *)
LEMMA SettleStep ==
  ASSUME CloudInv, RevisionSettles
  PROVE  CloudInv'
<1>1. ServiceInv /\ RunTypes /\ made \in Seq(States) /\ Len(made) \in Nat
  BY ServiceFacts DEF CloudInv, ServiceInv, States
<1>2. PICK r \in 1..Len(made) : RevisionReady(r) \/ RevisionFails(r)
  BY <1>1, ServiceFacts DEF RevisionSettles
<1>3. /\ made[r] = "pending" /\ UNCHANGED runVars /\ route' = route
      /\ \E t \in {"ready", "failed"} : made' = [made EXCEPT ![r] = t]
  BY <1>2 DEF RevisionReady, RevisionFails, Route
<1>4. /\ made' \in Seq(States) /\ Len(made') = Len(made)
      /\ \A i \in 1..Len(made) \ {r} : made'[i] = made[i]
  BY <1>1, <1>3 DEF States
<1>5. /\ LatestReady' \in 0..Len(made)
      /\ \A i \in 1..Len(made) : made'[i] = "ready" => LatestReady' >= i
  BY <1>4, LatestFacts DEF LatestReady, Ready, ReadyIn
<1>6. made'[OldCount] = "ready" /\ LatestReady' # 0
  <2>1. OldCount \in 1..Len(made) /\ made[OldCount] = "ready"
    BY <1>1, ServiceFacts DEF ServiceInv
  <2>2. made'[OldCount] = "ready"
    BY <1>3, <1>4, <2>1
  <2> QED
    BY <1>5, <2>1, <2>2
<1>7. Serving' \in 1..Len(made)
  BY <1>1, <1>3, <1>5, <1>6 DEF Serving, ServiceInv
<1>8. served' \in {served, served \cup {Serving'}} /\ Serving' \in served'
  <2>1. CASE RevisionReady(r)
    BY <2>1 DEF RevisionReady, Route
  <2>2. CASE RevisionFails(r)
    <3>1. made' = [made EXCEPT ![r] = "failed"] /\ served' = served
      BY <2>2 DEF RevisionFails
    <3>2. ReadyIn(made') = ReadyIn(made)
      BY <1>1, <1>3, <1>4, <3>1 DEF ReadyIn
    <3>3. Serving' = Serving
      BY <1>3, <3>2 DEF Serving, LatestReady, Ready, ReadyIn
    <3> QED
      BY <1>1, <3>1, <3>3 DEF ServiceInv
  <2> QED
    BY <1>2, <2>1, <2>2
<1>9. /\ Grows /\ UNCHANGED <<kind, mine, cpc, handle, backTo, retried, result, unheard>>
  <2>1. UNCHANGED <<kind, mine, cpc, handle, backTo, retried, result, unheard>>
    BY <1>3 DEF runVars
  <2>2. \A i \in 1..Len(made) : made[i] = "ready" => made'[i] = "ready"
    BY <1>3, <1>4
  <2> QED
    BY <1>1, <1>4, <1>8, <2>1, <2>2 DEF Grows
<1>10. \A q \in Pipeline : IsNumbered(q)' = IsNumbered(q)
  BY <1>9 DEF IsNumbered, IsLambda, IsEcs
<1>11. ServiceInv'
  <2>1. route' # 0 => made'[route'] = "ready"
    BY <1>1, <1>3, <1>9 DEF ServiceInv, Grows
  <2>2. served' \in SUBSET (1..Len(made'))
    BY <1>1, <1>4, <1>7, <1>8 DEF ServiceInv
  <2>3. OldCount \in served' /\ OldCount <= Len(made')
    BY <1>1, <1>4, <1>8 DEF ServiceInv
  <2>4. route' \in 0..Len(made') /\ ((\E p \in Pipeline : IsNumbered(p)') => route' # 0)
    BY <1>1, <1>3, <1>4, <1>10 DEF ServiceInv
  <2>5. Len(made') = OldCount \/ \E p \in Pipeline : Len(made') \in mine'[p]
    BY <1>1, <1>4, <1>9 DEF ServiceInv
  <2> QED
    BY <1>4, <1>6, <1>8, <2>1, <2>2, <2>3, <2>4, <2>5 DEF ServiceInv, States
<1>12. ASSUME NEW q \in Pipeline
       PROVE  PlaceInv(q)' /\ VersionsInv(q)' /\ DeployedInv(q)'
  <2>1. IsLambda(q) => mine[q] \cap served' \subseteq served
    <3>1. IsLambda(q) => Serving' = Serving
      BY <1>1, <1>3 DEF ServiceInv, Serving, IsNumbered
    <3> QED
      BY <1>1, <1>8, <3>1 DEF ServiceInv
  <2> QED
    BY <1>9, <2>1, OthersStay
<1>13. RunTypes' /\ Apart'
  BY <1>1, <1>4, <1>9 DEF RunTypes, Apart, CloudInv
<1> QED
  BY <1>11, <1>12, <1>13 DEF CloudInv

-------------------------------------------------------------------------------
(* The runs. *)
Turn(p) ==
  /\ cpc' \in [Pipeline -> Steps] /\ result' \in [Pipeline -> Results]
  /\ \A q \in Pipeline \ {p} : cpc'[q] = cpc[q] /\ result'[q] = result[q]

LEMMA GotoFacts ==
  ASSUME RunTypes, NEW p \in Pipeline, NEW step \in Steps, CloudGoto(p, step)
  PROVE  Turn(p) /\ cpc'[p] = step /\ result' = result
  BY DEF RunTypes, CloudGoto, Turn

LEMMA EndFacts ==
  ASSUME RunTypes, NEW p \in Pipeline, NEW how \in Results, End(p, how)
  PROVE  Turn(p) /\ cpc'[p] = "done" /\ result'[p] = how
  BY DEF RunTypes, End, Turn, Steps

LEMMA FailFacts ==
  ASSUME RunTypes, NEW p \in Pipeline, ActionFails(p)
  PROVE  /\ Turn(p) /\ handle' = [handle EXCEPT ![p] = 0]
         /\ retried' \in [Pipeline -> 0..(JobTries - 1)]
         /\ \/ cpc'[p] = "read" /\ IsLambda(p) /\ result' = result
            \/ cpc'[p] = "choose" /\ IsCloudRun(p) /\ result' = result
            \/ cpc'[p] = "done" /\ result'[p] = "failed"
<1>1. handle' = [handle EXCEPT ![p] = 0]
  BY DEF ActionFails
<1>2. CASE Retries(p) /\ retried' = [retried EXCEPT ![p] = @ + 1] /\ CloudGoto(p, "read")
  <2>1. JobTries \in Nat /\ retried[p] \in 0..(JobTries - 1) /\ retried[p] + 1 < JobTries /\ IsLambda(p)
    BY <1>2, CloudAssumption DEF RunTypes, Retries, IsLambda
  <2>2. retried' \in [Pipeline -> 0..(JobTries - 1)]
    BY <1>2, <2>1 DEF RunTypes
  <2> QED
    BY <1>1, <1>2, <2>1, <2>2, GotoFacts DEF Steps
<1>3. CASE RollsBackOnAction(p) /\ CloudGoto(p, "choose") /\ UNCHANGED retried
  BY <1>1, <1>3, GotoFacts DEF Steps, RollsBackOnAction, IsCloudRun, RunTypes
<1>4. CASE End(p, "failed") /\ UNCHANGED retried
  BY <1>1, <1>4, EndFacts DEF Results, RunTypes
<1> QED
  BY <1>2, <1>3, <1>4 DEF ActionFails

LEMMA EcsFailFacts ==
  ASSUME RunTypes, NEW p \in Pipeline, EcsFails(p)
  PROVE  /\ Turn(p)
         /\ \/ cpc'[p] = "choose" /\ handle[p] # 0 /\ result' = result
            \/ cpc'[p] = "done" /\ result'[p] = "failed"
<1>1. CASE handle[p] # 0 /\ CloudGoto(p, "choose")
  BY <1>1, GotoFacts DEF Steps
<1>2. CASE End(p, "failed")
  BY <1>2, EndFacts DEF Results
<1> QED
  BY <1>1, <1>2 DEF EcsFails

(* Steps of a run that leave the service as it is. *)
LEMMA MoveStep ==
  ASSUME CloudInv, NEW p \in Pipeline, Turn(p), UNCHANGED <<serviceVars, kind, mine, unheard>>,
         NEW h \in 0..Len(made), handle' = [handle EXCEPT ![p] = h],
         NEW t \in 0..Len(made), backTo' = [backTo EXCEPT ![p] = t],
         retried' \in [Pipeline -> 0..(JobTries - 1)],
         PlaceInv(p)', VersionsInv(p)', DeployedInv(p)'
  PROVE  CloudInv'
<1>1. ServiceInv' /\ Grows /\ RunTypes /\ UNCHANGED <<made, served>>
  BY ServiceStays DEF CloudInv, serviceVars
<1>2. RunTypes'
  BY <1>1 DEF RunTypes, Turn
<1>3. OnlyRuns(p)
  BY <1>1 DEF OnlyRuns, Turn, RunTypes
<1> QED
  BY <1>1, <1>2, <1>3, RunStep
(* The facts of a run before its step, and what a step that leaves kinds,  *)
(* versions and services alone carries over.                               *)
LEMMA RunFacts ==
  ASSUME CloudInv, NEW p \in Pipeline
  PROVE  /\ ServiceInv /\ RunTypes /\ PlaceInv(p) /\ VersionsInv(p) /\ DeployedInv(p)
         /\ Len(made) \in Nat /\ handle[p] \in 0..Len(made) /\ backTo[p] \in 0..Len(made)
         /\ handle = [handle EXCEPT ![p] = handle[p]]
         /\ backTo = [backTo EXCEPT ![p] = backTo[p]]
         /\ mine[p] \subseteq 1..Len(made)
  BY ServiceFacts, OwnFacts DEF CloudInv, RunTypes

LEMMA SameRun ==
  ASSUME NEW p \in Pipeline, UNCHANGED <<kind, mine>>
  PROVE  /\ IsLambda(p)' = IsLambda(p) /\ IsEcs(p)' = IsEcs(p) /\ IsCloudRun(p)' = IsCloudRun(p)
         /\ IsNumbered(p)' = IsNumbered(p) /\ NewestOf(p)' = NewestOf(p)
  BY DEF IsLambda, IsEcs, IsCloudRun, IsNumbered, NewestOf

(* What the versions of a run are good for when its handle and target are. *)
LEMMA MovedVersions ==
  ASSUME CloudInv, NEW p \in Pipeline, UNCHANGED <<serviceVars, kind, mine, unheard>>,
         handle'[p] \in {0, handle[p]}, backTo'[p] \in {backTo[p], handle[p]},
         cpc'[p] \in {"read", "publish", "shift"} => cpc[p] \in {"read", "publish", "shift"}
  PROVE  VersionsInv(p)'
<1>1. /\ VersionsInv(p) /\ ServiceInv /\ mine[p] \subseteq 1..Len(made)
      /\ UNCHANGED <<made, route, served, kind, mine, unheard>>
  BY RunFacts DEF serviceVars
<1>2. 0 \notin mine[p]
  BY <1>1, ServiceFacts
<1> QED
  BY <1>1, <1>2, SameRun DEF VersionsInv

(* A run gives up, decides, or sees its deploy through.                    *)
LEMMA VerifyStep ==
  ASSUME CloudInv, NEW p \in Pipeline, Verify(p)
  PROVE  CloudInv'
<1>1. /\ cpc[p] = "verify" /\ UNCHANGED <<serviceVars, kind, handle, backTo, retried, mine, unheard>>
  BY DEF Verify, CloudAt
<1>2. /\ Turn(p)
      /\ \/ cpc'[p] = "done" /\ result'[p] \in {"ok", "failed"}
         \/ cpc'[p] = "choose" /\ result' = result
  BY RunFacts, GotoFacts, EndFacts DEF Verify, Steps, Results
<1>3. PlaceInv(p)'
  BY <1>1, <1>2, RunFacts, SameRun DEF PlaceInv
<1>4. VersionsInv(p)'
  BY <1>1, <1>2, MovedVersions
<1>5. DeployedInv(p)'
  <2>1. PlaceInv(p) /\ DeployedInv(p) /\ UNCHANGED <<made, served>>
    BY <1>1, RunFacts DEF serviceVars
  <2> QED
    BY <1>1, <1>2, <2>1, SameRun DEF DeployedInv, Settled
<1> QED
  BY <1>1, <1>2, <1>3, <1>4, <1>5, RunFacts, MoveStep DEF RunTypes

LEMMA ReadAliasStep ==
  ASSUME CloudInv, NEW p \in Pipeline, ReadAlias(p)
  PROVE  CloudInv'
<1>1. /\ IsLambda(p) /\ cpc[p] = "read" /\ UNCHANGED <<serviceVars, kind, backTo, mine, unheard>>
      /\ ServiceInv /\ RunTypes /\ PlaceInv(p) /\ VersionsInv(p) /\ DeployedInv(p)
      /\ UNCHANGED <<made, route, served>>
  BY RunFacts DEF ReadAlias, CloudAt, serviceVars
<1>2. CASE handle' = [handle EXCEPT ![p] = CurrentAliasVersion] /\ CloudGoto(p, "publish")
           /\ UNCHANGED retried
  <2>1. Turn(p) /\ cpc'[p] = "publish" /\ result' = result
    BY <1>1, <1>2, GotoFacts DEF Steps
  <2>2. /\ handle'[p] = route /\ route # 0 /\ made[route] = "ready" /\ route \in served
        /\ route \in 0..Len(made)
    BY <1>1, <1>2 DEF CurrentAliasVersion, RunTypes, ServiceInv, Serving, IsNumbered
  <2>3. backTo[p] = 0
    BY <1>1 DEF PlaceInv
  <2>4. PlaceInv(p)'
    BY <1>1, <2>1, <2>2, <2>3, SameRun DEF PlaceInv
  <2>5. VersionsInv(p)'
    BY <1>1, <2>1, <2>2, <2>3, SameRun, OnePlatform DEF VersionsInv
  <2>6. DeployedInv(p)'
    BY <1>1, <2>1, SameRun, OnePlatform DEF DeployedInv, Settled, PlaceInv
  <2> QED
    BY <1>1, <1>2, <2>1, <2>2, <2>4, <2>5, <2>6, RunFacts, MoveStep DEF CurrentAliasVersion, RunTypes
<1>3. CASE ActionFails(p)
  <2>1. /\ Turn(p) /\ handle' = [handle EXCEPT ![p] = 0] /\ handle'[p] = 0
        /\ retried' \in [Pipeline -> 0..(JobTries - 1)]
        /\ \/ cpc'[p] = "read" /\ result' = result
           \/ cpc'[p] = "done" /\ result'[p] = "failed"
    BY <1>1, <1>3, FailFacts, OnePlatform DEF RunTypes
  <2>2. PlaceInv(p)'
    BY <1>1, <2>1, SameRun, OnePlatform DEF PlaceInv
  <2>3. VersionsInv(p)'
    BY <1>1, <2>1, MovedVersions
  <2>4. DeployedInv(p)'
    BY <1>1, <2>1, SameRun DEF DeployedInv, Settled, PlaceInv
  <2>5. 0 \in 0..Len(made) /\ backTo[p] \in 0..Len(made) /\ backTo' = [backTo EXCEPT ![p] = backTo[p]]
    BY <1>1, RunFacts
  <2> QED
    BY <1>1, <2>1, <2>2, <2>3, <2>4, <2>5, MoveStep
<1> QED
  BY <1>2, <1>3 DEF ReadAlias

(* describe-task-definition: the newest version is ready, and if it is not *)
(* an old one then another run made it.                                    *)
LEMMA DescribeStep ==
  ASSUME CloudInv, NEW p \in Pipeline, DescribeFamily(p)
  PROVE  CloudInv'
<1>1. /\ IsEcs(p) /\ cpc[p] = "read" /\ UNCHANGED <<serviceVars, kind, backTo, retried, mine, unheard>>
      /\ ServiceInv /\ RunTypes /\ PlaceInv(p) /\ VersionsInv(p) /\ DeployedInv(p)
      /\ UNCHANGED <<made, route, served>> /\ Len(made) \in Nat /\ Len(made) # 0
      /\ mine[p] = {} /\ backTo[p] = 0 /\ ~IsLambda(p) /\ ~IsCloudRun(p) /\ IsNumbered(p)
  BY RunFacts, ServiceFacts, OnePlatform DEF DescribeFamily, CloudAt, serviceVars, PlaceInv, IsNumbered
<1>2. CASE handle' = [handle EXCEPT ![p] = Len(made)] /\ CloudGoto(p, "register")
  <2>1. Turn(p) /\ cpc'[p] = "register" /\ result' = result /\ handle'[p] = Len(made)
    BY <1>1, <1>2, GotoFacts DEF Steps, RunTypes
  <2>2. \/ Len(made) = OldCount /\ made[Len(made)] = "ready"
        \/ \E q \in Pipeline \ {p} : Len(made) \in mine[q] /\ made[Len(made)] = "ready"
    <3>1. CASE Len(made) = OldCount
      BY <1>1, <3>1 DEF ServiceInv
    <3>2. ASSUME NEW q \in Pipeline, Len(made) \in mine[q]
          PROVE  q # p /\ made[Len(made)] = "ready"
      <4>1. q # p /\ ~IsLambda(q) /\ ~IsCloudRun(q) /\ VersionsInv(q) /\ PlaceInv(q)
        BY <1>1, <3>2, OnePlatform, RunFacts
      <4>2. IsNumbered(q)
        BY <3>2, <4>1 DEF PlaceInv
      <4> QED
        BY <3>2, <4>1, <4>2 DEF VersionsInv
    <3> QED
      BY <1>1, <3>1, <3>2 DEF ServiceInv
  <2>3. PlaceInv(p)'
    BY <1>1, <2>1, SameRun DEF PlaceInv
  <2>4. VersionsInv(p)'
    BY <1>1, <2>1, <2>2, SameRun DEF VersionsInv
  <2>5. DeployedInv(p)'
    BY <1>1, <2>1, SameRun DEF DeployedInv, Settled, PlaceInv
  <2>6. /\ Len(made) \in 0..Len(made) /\ backTo[p] \in 0..Len(made)
        /\ backTo' = [backTo EXCEPT ![p] = backTo[p]] /\ retried' \in [Pipeline -> 0..(JobTries - 1)]
    BY <1>1, RunFacts DEF RunTypes
  <2> QED
    BY <1>1, <1>2, <2>1, <2>3, <2>4, <2>5, <2>6, MoveStep
<1>3. CASE EcsFails(p) /\ UNCHANGED handle
  <2>1. /\ Turn(p)
        /\ \/ cpc'[p] = "choose" /\ handle[p] # 0 /\ result' = result
           \/ cpc'[p] = "done" /\ result'[p] = "failed"
    BY <1>1, <1>3, EcsFailFacts
  <2>2. PlaceInv(p)'
    BY <1>1, <1>3, <2>1, SameRun DEF PlaceInv
  <2>3. VersionsInv(p)'
    BY <1>1, <1>3, <2>1, MovedVersions
  <2>4. DeployedInv(p)'
    BY <1>1, <2>1, SameRun DEF DeployedInv, Settled, PlaceInv
  <2> QED
    BY <1>1, <1>3, <2>1, <2>2, <2>3, <2>4, RunFacts, MoveStep DEF RunTypes
<1> QED
  BY <1>2, <1>3 DEF DescribeFamily
(* A version is added: it is newer than all that has been captured, chosen *)
(* or served.                                                              *)
LEMMA AddedStep ==
  ASSUME CloudInv, NEW p \in Pipeline, NEW t \in {"ready", "pending"},
         made' = Append(made, t), mine' = [mine EXCEPT ![p] = @ \cup {Len(made')}],
         UNCHANGED <<served, kind, backTo, unheard>>,
         Turn(p), handle' \in {handle, [handle EXCEPT ![p] = 0]},
         retried' \in [Pipeline -> 0..(JobTries - 1)],
         PlaceInv(p)', ServiceInv', Grows,
         IsNumbered(p) => t = "ready",
         cpc'[p] \notin {"verify", "stabilize"}, result'[p] # "ok",
         cpc'[p] \in {"read", "publish", "shift"} => cpc[p] \in {"read", "publish", "shift"}
  PROVE  CloudInv'
<1>1. /\ ServiceInv /\ RunTypes /\ VersionsInv(p) /\ made \in Seq(States) /\ Len(made) \in Nat
      /\ handle[p] \in 0..Len(made) /\ backTo[p] \in 0..Len(made) /\ mine[p] \subseteq 1..Len(made)
      /\ served \subseteq 1..Len(made)
  BY RunFacts DEF ServiceInv, States
<1>2. /\ Len(made') = Len(made) + 1 /\ made'[Len(made')] = t
      /\ \A r \in 1..Len(made) : made'[r] = made[r]
  BY <1>1, AddFacts DEF States
<1>3. mine'[p] = mine[p] \cup {Len(made) + 1} /\ handle'[p] \in {0, handle[p]}
  BY <1>1, <1>2 DEF RunTypes
<1>4. RunTypes'
  <2>1. handle' \in [Pipeline -> 0..Len(made')]
    BY <1>1, <1>2 DEF RunTypes
  <2>2. backTo' \in [Pipeline -> 0..Len(made')]
    BY <1>1, <1>2 DEF RunTypes
  <2>3. mine' \in [Pipeline -> SUBSET (1..Len(made'))]
    BY <1>1, <1>2 DEF RunTypes
  <2> QED
    BY <1>1, <2>1, <2>2, <2>3 DEF RunTypes, Turn
<1>5. OnlyRuns(p)
  BY <1>1 DEF OnlyRuns, Turn, RunTypes
<1>6. /\ IsLambda(p)' = IsLambda(p) /\ IsEcs(p)' = IsEcs(p) /\ IsNumbered(p)' = IsNumbered(p)
      /\ IsCloudRun(p)' = IsCloudRun(p)
  BY DEF IsLambda, IsEcs, IsNumbered, IsCloudRun
<1>7. VersionsInv(p)'
  <2>1. /\ handle'[p] # 0 => made'[handle'[p]] = "ready"
        /\ backTo'[p] # 0 => made'[backTo'[p]] = "ready"
    BY <1>1, <1>2, <1>3 DEF VersionsInv
  <2>2. IsNumbered(p) => \A v \in mine'[p] : made'[v] = "ready"
    BY <1>1, <1>2, <1>3 DEF VersionsInv
  <2>3. p \notin unheard' => handle'[p] \notin mine'[p]
    BY <1>1, <1>3 DEF VersionsInv
  <2>4. IsLambda(p) /\ p \notin unheard' /\ cpc'[p] \in {"read", "publish", "shift"} =>
          mine'[p] \cap served' = {}
    BY <1>1, <1>3 DEF VersionsInv
  <2>5. IsEcs(p) /\ handle'[p] # 0 =>
          handle'[p] = OldCount \/ \E q \in Pipeline \ {p} : handle'[p] \in mine'[q]
    BY <1>1, <1>3, <1>5 DEF VersionsInv, OnlyRuns
  <2>6. IsLambda(p) /\ handle'[p] # 0 => handle'[p] \in served'
    BY <1>1, <1>3 DEF VersionsInv
  <2> QED
    BY <1>6, <2>1, <2>2, <2>3, <2>4, <2>5, <2>6 DEF VersionsInv
<1>8. DeployedInv(p)'
  BY DEF DeployedInv, Settled
<1>9. \A v \in mine'[p] \ mine[p] : v > Len(made)
  BY <1>1, <1>3
<1>10. \A q \in Pipeline \ {p} : IsLambda(q) => mine[q] \cap served' \subseteq served
  OBVIOUS
<1> QED
  BY <1>3, <1>4, <1>5, <1>7, <1>8, <1>9, <1>10, RunStep

(* An attempt that fails without having changed anything. *)
LEMMA FailStep ==
  ASSUME CloudInv, NEW p \in Pipeline, ActionFails(p),
         \/ cpc[p] \in {"publish", "shift"} /\ IsLambda(p)
         \/ cpc[p] \in {"create", "wait"} /\ IsCloudRun(p),
         UNCHANGED <<serviceVars, kind, backTo, mine, unheard>>
  PROVE  CloudInv'
<1>1. RunTypes /\ PlaceInv(p) /\ backTo[p] = 0 /\ result[p] = "none"
  BY RunFacts DEF PlaceInv
<1>2. /\ Turn(p) /\ handle' = [handle EXCEPT ![p] = 0] /\ handle'[p] = 0
      /\ retried' \in [Pipeline -> 0..(JobTries - 1)]
      /\ \/ cpc'[p] = "read" /\ IsLambda(p) /\ result' = result
         \/ cpc'[p] = "choose" /\ IsCloudRun(p) /\ result' = result
         \/ cpc'[p] = "done" /\ result'[p] = "failed"
  BY <1>1, FailFacts DEF RunTypes
<1>3. PlaceInv(p)'
  BY <1>1, <1>2, SameRun, OnePlatform DEF PlaceInv, IsNumbered
<1>4. VersionsInv(p)'
  BY <1>1, <1>2, MovedVersions, OnePlatform
<1>5. DeployedInv(p)'
  BY <1>1, <1>2 DEF DeployedInv, Settled
<1>6. 0 \in 0..Len(made) /\ backTo[p] \in 0..Len(made) /\ backTo' = [backTo EXCEPT ![p] = backTo[p]]
  BY RunFacts
<1> QED
  BY <1>2, <1>3, <1>4, <1>5, <1>6, MoveStep

LEMMA PublishStep ==
  ASSUME CloudInv, NEW p \in Pipeline, PublishCode(p)
  PROVE  CloudInv'
<1>1. /\ IsLambda(p) /\ cpc[p] = "publish" /\ UNCHANGED <<route, served, kind, backTo, unheard>>
      /\ ServiceInv /\ RunTypes /\ PlaceInv(p) /\ VersionsInv(p) /\ backTo[p] = 0
      /\ result[p] = "none" /\ handle[p] # 0 /\ IsNumbered(p)
  BY RunFacts DEF PublishCode, CloudAt, PlaceInv, IsNumbered
<1>2. CASE UNCHANGED <<made, mine>> /\ ActionFails(p)
  BY <1>1, <1>2, FailStep DEF serviceVars
<1>3. ASSUME Published(p), (CloudGoto(p, "shift") /\ UNCHANGED <<handle, retried>>) \/ ActionFails(p)
      PROVE  CloudInv'
  <2>1. /\ Turn(p) /\ handle' \in {handle, [handle EXCEPT ![p] = 0]}
        /\ retried' \in [Pipeline -> 0..(JobTries - 1)]
        /\ \/ cpc'[p] = "shift" /\ result' = result /\ handle' = handle
           \/ cpc'[p] = "read" /\ result' = result
           \/ cpc'[p] = "done" /\ result'[p] = "failed"
    BY <1>1, <1>3, GotoFacts, FailFacts, OnePlatform DEF Steps, RunTypes
  <2>2. handle'[p] \in {0, handle[p]} /\ (cpc'[p] = "shift" => handle'[p] = handle[p])
    BY <1>1, <2>1 DEF RunTypes
  <2>3. mine' = [mine EXCEPT ![p] = @ \cup {Len(made')}] /\ mine'[p] # {}
    BY <1>1, <1>3 DEF Published, RunTypes
  <2>4. PlaceInv(p)'
    <3>1. /\ IsLambda(p)' /\ IsNumbered(p)' /\ ~IsCloudRun(p)' /\ backTo'[p] = 0
      BY <1>1, OnePlatform DEF IsLambda, IsNumbered, IsCloudRun
    <3> QED
      BY <1>1, <2>1, <2>2, <2>3, <3>1 DEF PlaceInv
  <2>5. CASE Len(made) \notin mine[p]
    <3>1. made' = Append(made, "ready")
      BY <1>3, <2>5 DEF Published
    <3>2. ServiceInv' /\ Grows
      BY <1>1, <2>3, <3>1, ReadyAdded
    <3> QED
      BY <1>1, <2>1, <2>3, <2>4, <3>1, <3>2, AddedStep
  <2>6. CASE Len(made) \in mine[p]
    <3>1. made' = made /\ mine' = mine
      BY <1>1, <1>3, <2>3, <2>6 DEF Published, RunTypes
    <3>2. VersionsInv(p)'
      BY <1>1, <2>1, <2>2, <3>1, MovedVersions DEF serviceVars
    <3>3. DeployedInv(p)'
      BY <1>1, <2>1 DEF DeployedInv, Settled
    <3>4. /\ backTo' = [backTo EXCEPT ![p] = backTo[p]] /\ backTo[p] \in 0..Len(made)
          /\ handle'[p] \in 0..Len(made) /\ handle' = [handle EXCEPT ![p] = handle'[p]]
          /\ UNCHANGED <<serviceVars, kind, mine, unheard>>
      BY <1>1, <2>1, <2>2, <3>1, RunFacts DEF serviceVars
    <3>5. PICK h : h = handle'[p]
      OBVIOUS
    <3> QED
      BY <1>1, <2>1, <2>4, <3>2, <3>3, <3>4, <3>5, MoveStep
  <2> QED
    BY <2>5, <2>6
<1> QED
  BY <1>1, <1>2, <1>3 DEF PublishCode
(* A run sends traffic to a ready version, its own or one that another has *)
(* served before.                                                          *)
LEMMA RoutedStep ==
  ASSUME CloudInv, NEW p \in Pipeline, NEW r \in 1..Len(made), made[r] = "ready", Route(r),
         UNCHANGED <<made, kind, mine>>, Turn(p),
         \A q \in Pipeline \ {p} : IsLambda(q) /\ r \in mine[q] => r \in served,
         NEW h \in 0..Len(made), handle' = [handle EXCEPT ![p] = h], UNCHANGED backTo,
         retried' \in [Pipeline -> 0..(JobTries - 1)], unheard' \in {unheard, unheard \cup {p}},
         PlaceInv(p)', VersionsInv(p)', DeployedInv(p)'
  PROVE  CloudInv'
<1>1. ServiceInv' /\ Grows /\ RunTypes /\ served' = served \cup {r}
  BY RouteFacts DEF CloudInv
<1>2. RunTypes'
  BY <1>1 DEF RunTypes, Turn
<1>3. OnlyRuns(p)
  BY <1>1 DEF OnlyRuns, Turn, RunTypes
<1>4. \A q \in Pipeline \ {p} : IsLambda(q) => mine[q] \cap served' \subseteq served
  BY <1>1
<1> QED
  BY <1>1, <1>2, <1>3, <1>4, RunStep

LEMMA ShiftStep ==
  ASSUME CloudInv, NEW p \in Pipeline, ShiftAlias(p)
  PROVE  CloudInv'
<1>1. /\ IsLambda(p) /\ cpc[p] = "shift" /\ UNCHANGED <<made, kind, backTo, mine>>
      /\ ServiceInv /\ RunTypes /\ Apart /\ PlaceInv(p) /\ VersionsInv(p) /\ backTo[p] = 0
      /\ result[p] = "none" /\ handle[p] # 0 /\ IsNumbered(p) /\ mine[p] # {}
      /\ ~IsCloudRun(p) /\ ~IsEcs(p)
  BY RunFacts, OnePlatform DEF ShiftAlias, CloudAt, PlaceInv, IsNumbered, CloudInv
<1>2. CASE ActionFails(p) /\ UNCHANGED <<route, served, unheard>>
  BY <1>1, <1>2, FailStep DEF serviceVars
<1>3. ASSUME Route(NewestOf(p)),
             \/ CloudGoto(p, "verify") /\ UNCHANGED <<handle, retried, unheard>>
             \/ ActionFails(p) /\ unheard' = unheard \cup {p}
      PROVE  CloudInv'
  <2>1. /\ Turn(p) /\ handle' \in {handle, [handle EXCEPT ![p] = 0]}
        /\ retried' \in [Pipeline -> 0..(JobTries - 1)]
        /\ \/ cpc'[p] = "verify" /\ result' = result /\ handle' = handle /\ unheard' = unheard
           \/ cpc'[p] = "read" /\ result' = result /\ unheard' = unheard \cup {p}
           \/ cpc'[p] = "done" /\ result'[p] = "failed" /\ unheard' = unheard \cup {p}
    BY <1>1, <1>3, GotoFacts, FailFacts DEF Steps, RunTypes
  <2>2. handle'[p] \in {0, handle[p]} /\ (cpc'[p] = "verify" => handle'[p] = handle[p])
    BY <1>1, <2>1 DEF RunTypes
  <2>3. PICK r : r = NewestOf(p)
    OBVIOUS
  <2>4. r \in mine[p] /\ r \in 1..Len(made) /\ made[r] = "ready" /\ Route(r)
    BY <1>1, <1>3, <2>3, OwnFacts DEF VersionsInv
  <2>5. ServiceInv' /\ Grows /\ served' = served \cup {r}
    BY <1>1, <2>4, RouteFacts
  <2>6. PlaceInv(p)'
    BY <1>1, <2>1, <2>2, SameRun DEF PlaceInv
  <2>7. VersionsInv(p)'
    BY <1>1, <2>1, <2>2, <2>5, SameRun, RunFacts DEF VersionsInv
  <2>8. DeployedInv(p)'
    BY <1>1, <2>3, <2>5, SameRun DEF DeployedInv
  <2>9. \A q \in Pipeline \ {p} : r \notin mine[q]
    BY <1>1, <2>4 DEF Apart
  <2>10. PICK h : h = handle'[p]
    OBVIOUS
  <2>11. h \in 0..Len(made) /\ handle' = [handle EXCEPT ![p] = h]
    BY <1>1, <2>1, <2>2, <2>10, RunFacts
  <2>12. unheard' \in {unheard, unheard \cup {p}} /\ UNCHANGED backTo
    BY <1>1, <2>1
  <2> QED
    BY <1>1, <2>1, <2>4, <2>6, <2>7, <2>8, <2>9, <2>11, <2>12, RoutedStep
<1> QED
  BY <1>2, <1>3 DEF ShiftAlias

(* Without a captured version there is nothing to choose on Lambda or ECS. *)
LEMMA ChoosePriorStep ==
  ASSUME CloudInv, NEW p \in Pipeline, ChoosePriorVersion(p) \/ ChoosePriorDefinition(p)
  PROVE  CloudInv'
<1>1. /\ IsNumbered(p) /\ cpc[p] = "choose" /\ UNCHANGED <<serviceVars, kind, handle, retried, mine, unheard>>
      /\ backTo' = [backTo EXCEPT ![p] = handle[p]] /\ CloudGoto(p, "back")
      /\ RunTypes /\ PlaceInv(p) /\ VersionsInv(p) /\ handle[p] # 0 /\ result[p] = "none"
  BY RunFacts DEF ChoosePriorVersion, ChoosePriorDefinition, PriorVersion, CloudAt, PlaceInv, IsNumbered
<1>2. Turn(p) /\ cpc'[p] = "back" /\ result' = result /\ backTo'[p] = handle[p]
  BY <1>1, GotoFacts DEF Steps, RunTypes
<1>3. PlaceInv(p)'
  BY <1>1, <1>2, SameRun DEF PlaceInv
<1>4. VersionsInv(p)'
  BY <1>1, <1>2, MovedVersions
<1>5. DeployedInv(p)'
  BY <1>1, <1>2 DEF DeployedInv, Settled
<1> QED
  BY <1>1, <1>2, <1>3, <1>4, <1>5, RunFacts, MoveStep DEF RunTypes

LEMMA RegisterStep ==
  ASSUME CloudInv, NEW p \in Pipeline, RegisterRevision(p)
  PROVE  CloudInv'
<1>1. /\ IsEcs(p) /\ cpc[p] = "register" /\ UNCHANGED <<route, served, kind, handle, backTo, retried, unheard>>
      /\ ServiceInv /\ RunTypes /\ PlaceInv(p) /\ VersionsInv(p) /\ backTo[p] = 0
      /\ result[p] = "none" /\ handle[p] # 0 /\ IsNumbered(p) /\ ~IsCloudRun(p) /\ ~IsLambda(p)
      /\ retried' \in [Pipeline -> 0..(JobTries - 1)]
  BY RunFacts, OnePlatform DEF RegisterRevision, CloudAt, PlaceInv, IsNumbered, RunTypes
<1>2. /\ Turn(p)
      /\ \/ cpc'[p] = "update" /\ result' = result /\ Register(p)
         \/ cpc'[p] = "choose" /\ result' = result
         \/ cpc'[p] = "done" /\ result'[p] = "failed"
  BY <1>1, GotoFacts, EcsFailFacts DEF RegisterRevision, Steps
<1>3. CASE UNCHANGED <<made, mine>> /\ ~Register(p)
  <2>1. PlaceInv(p)'
    BY <1>1, <1>2, <1>3, SameRun DEF PlaceInv
  <2>2. VersionsInv(p)'
    BY <1>1, <1>2, <1>3, MovedVersions DEF serviceVars
  <2>3. DeployedInv(p)'
    BY <1>1, <1>2, <1>3 DEF DeployedInv, Settled
  <2> QED
    BY <1>1, <1>2, <1>3, <2>1, <2>2, <2>3, RunFacts, MoveStep DEF serviceVars
<1>4. CASE Register(p)
  <2>1. made' = Append(made, "ready") /\ mine' = [mine EXCEPT ![p] = @ \cup {Len(made')}] /\ mine'[p] # {}
    BY <1>1, <1>4 DEF Register, RunTypes
  <2>2. ServiceInv' /\ Grows
    BY <1>1, <2>1, ReadyAdded
  <2>3. /\ ~IsLambda(p)' /\ IsNumbered(p)' /\ ~IsCloudRun(p)'
    BY <1>1 DEF IsLambda, IsNumbered, IsEcs, IsCloudRun
  <2>4. PlaceInv(p)'
    BY <1>1, <1>2, <2>1, <2>3 DEF PlaceInv
  <2> QED
    BY <1>1, <1>2, <2>1, <2>2, <2>4, AddedStep
<1> QED
  BY <1>3, <1>4 DEF RegisterRevision

LEMMA UpdateStep ==
  ASSUME CloudInv, NEW p \in Pipeline, UpdateService(p)
  PROVE  CloudInv'
<1>1. /\ IsEcs(p) /\ cpc[p] = "update" /\ UNCHANGED <<made, kind, handle, backTo, retried, mine, unheard>>
      /\ ServiceInv /\ RunTypes /\ Apart /\ PlaceInv(p) /\ VersionsInv(p) /\ backTo[p] = 0
      /\ result[p] = "none" /\ handle[p] # 0 /\ IsNumbered(p) /\ mine[p] # {}
      /\ ~IsCloudRun(p) /\ ~IsLambda(p) /\ retried' \in [Pipeline -> 0..(JobTries - 1)]
  BY RunFacts, OnePlatform DEF UpdateService, CloudAt, PlaceInv, IsNumbered, CloudInv, RunTypes
<1>2. /\ Turn(p)
      /\ \/ cpc'[p] = "stabilize" /\ result' = result /\ Route(NewestOf(p))
         \/ cpc'[p] = "choose" /\ result' = result
         \/ cpc'[p] = "done" /\ result'[p] = "failed"
  BY <1>1, GotoFacts, EcsFailFacts DEF UpdateService, Steps
<1>3. PlaceInv(p)'
  BY <1>1, <1>2, SameRun DEF PlaceInv
<1>4. CASE UNCHANGED <<route, served>> /\ ~Route(NewestOf(p))
  <2>1. VersionsInv(p)'
    BY <1>1, <1>2, <1>4, MovedVersions DEF serviceVars
  <2>2. DeployedInv(p)'
    BY <1>1, <1>2, <1>4 DEF DeployedInv, Settled
  <2> QED
    BY <1>1, <1>2, <1>3, <1>4, <2>1, <2>2, RunFacts, MoveStep DEF serviceVars
<1>5. CASE Route(NewestOf(p))
  <2>1. PICK r : r = NewestOf(p)
    OBVIOUS
  <2>2. r \in mine[p] /\ r \in 1..Len(made) /\ made[r] = "ready" /\ Route(r)
    BY <1>1, <1>5, <2>1, OwnFacts DEF VersionsInv
  <2>3. ServiceInv' /\ Grows /\ served' = served \cup {r}
    BY <1>1, <2>2, RouteFacts
  <2>4. VersionsInv(p)'
    BY <1>1, <1>2, <2>3, SameRun, RunFacts DEF VersionsInv
  <2>5. DeployedInv(p)'
    BY <1>1, <2>1, <2>3, SameRun DEF DeployedInv
  <2>6. \A q \in Pipeline \ {p} : r \notin mine[q]
    BY <1>1, <2>2 DEF Apart
  <2>7. PICK h : h = handle[p]
    OBVIOUS
  <2>8. h \in 0..Len(made) /\ handle' = [handle EXCEPT ![p] = h]
    BY <1>1, <2>7, RunFacts
  <2>9. unheard' \in {unheard, unheard \cup {p}} /\ UNCHANGED backTo
    BY <1>1
  <2> QED
    BY <1>1, <1>2, <1>3, <2>2, <2>4, <2>5, <2>6, <2>8, <2>9, RoutedStep
<1> QED
  BY <1>4, <1>5 DEF UpdateService

LEMMA StabilizeStep ==
  ASSUME CloudInv, NEW p \in Pipeline, Stabilize(p)
  PROVE  CloudInv'
<1>1. /\ IsEcs(p) /\ cpc[p] = "stabilize" /\ UNCHANGED <<serviceVars, kind, handle, backTo, retried, mine, unheard>>
      /\ RunTypes /\ PlaceInv(p) /\ VersionsInv(p) /\ DeployedInv(p) /\ handle[p] # 0
      /\ result[p] = "none" /\ backTo[p] = 0 /\ IsNumbered(p) /\ ~IsCloudRun(p) /\ ~IsLambda(p)
      /\ served' = served
  BY RunFacts, OnePlatform DEF Stabilize, CloudAt, PlaceInv, IsNumbered, serviceVars
<1>2. /\ Turn(p)
      /\ \/ cpc'[p] = "verify" /\ result' = result
         \/ cpc'[p] = "choose" /\ result' = result
         \/ cpc'[p] = "done" /\ result'[p] = "failed"
  BY <1>1, GotoFacts, EcsFailFacts DEF Stabilize, Steps
<1>3. PlaceInv(p)'
  BY <1>1, <1>2, SameRun DEF PlaceInv
<1>4. VersionsInv(p)'
  BY <1>1, <1>2, MovedVersions
<1>5. DeployedInv(p)'
  BY <1>1, <1>2, SameRun DEF DeployedInv, Settled
<1> QED
  BY <1>1, <1>2, <1>3, <1>4, <1>5, RunFacts, MoveStep DEF RunTypes
LEMMA ReadPriorStep ==
  ASSUME CloudInv, NEW p \in Pipeline, ReadPrior(p)
  PROVE  CloudInv'
<1>1. /\ IsCloudRun(p) /\ cpc[p] = "read" /\ UNCHANGED <<serviceVars, kind, backTo, retried, mine, unheard>>
      /\ CloudGoto(p, "create") /\ UNCHANGED <<made, served>>
      /\ ServiceInv /\ RunTypes /\ PlaceInv(p) /\ backTo[p] = 0 /\ result[p] = "none"
      /\ ~IsEcs(p) /\ ~IsLambda(p) /\ ~IsNumbered(p) /\ mine[p] = {}
      /\ retried' \in [Pipeline -> 0..(JobTries - 1)]
  BY RunFacts, OnePlatform DEF ReadPrior, CloudAt, PlaceInv, IsNumbered, serviceVars, RunTypes
<1>2. PICK h \in {LatestReady, 0} : handle' = [handle EXCEPT ![p] = h]
  BY DEF ReadPrior
<1>3. h \in 0..Len(made) /\ handle'[p] = h /\ (h # 0 => made[h] = "ready")
  BY <1>1, <1>2, ServiceFacts DEF RunTypes
<1>4. Turn(p) /\ cpc'[p] = "create" /\ result' = result
  BY <1>1, GotoFacts DEF Steps
<1>5. PlaceInv(p)'
  BY <1>1, <1>4, SameRun DEF PlaceInv
<1>6. VersionsInv(p)'
  BY <1>1, <1>3, SameRun DEF VersionsInv
<1>7. DeployedInv(p)'
  BY <1>1, <1>4 DEF DeployedInv, Settled
<1>8. backTo[p] \in 0..Len(made) /\ backTo' = [backTo EXCEPT ![p] = backTo[p]]
  BY <1>1, RunFacts
<1> QED
  BY <1>1, <1>2, <1>3, <1>4, <1>5, <1>6, <1>7, <1>8, MoveStep

LEMMA CreateStep ==
  ASSUME CloudInv, NEW p \in Pipeline, CreateRevision(p)
  PROVE  CloudInv'
<1>1. /\ IsCloudRun(p) /\ cpc[p] = "create" /\ UNCHANGED <<served, kind, handle, backTo, retried, unheard>>
      /\ made' = Append(made, "pending") /\ mine' = [mine EXCEPT ![p] = @ \cup {Len(made')}]
      /\ route' \in {Serving, route} /\ mine'[p] # {}
      /\ RunTypes /\ PlaceInv(p) /\ backTo[p] = 0 /\ result[p] = "none"
      /\ ~IsEcs(p) /\ ~IsLambda(p) /\ ~IsNumbered(p)
      /\ retried' \in [Pipeline -> 0..(JobTries - 1)]
  BY RunFacts, OnePlatform DEF CreateRevision, CloudAt, PlaceInv, IsNumbered, RunTypes
<1>2. Turn(p) /\ cpc'[p] = "wait" /\ result' = result
  BY <1>1, GotoFacts DEF CreateRevision, Steps
<1>3. ServiceInv' /\ Grows
  BY <1>1, PendingAdded
<1>4. IsCloudRun(p)' /\ ~IsNumbered(p)' /\ ~IsLambda(p)'
  BY <1>1 DEF IsCloudRun, IsNumbered, IsLambda, IsEcs
<1>5. PlaceInv(p)'
  BY <1>1, <1>2, <1>4 DEF PlaceInv
<1> QED
  BY <1>1, <1>2, <1>3, <1>5, AddedStep

LEMMA ReturnStep ==
  ASSUME CloudInv, NEW p \in Pipeline, DeployReturns(p)
  PROVE  CloudInv'
<1>1. /\ IsCloudRun(p) /\ cpc[p] = "wait" /\ UNCHANGED <<serviceVars, kind, handle, backTo, retried, mine, unheard>>
      /\ RunTypes /\ PlaceInv(p) /\ backTo[p] = 0 /\ result[p] = "none" /\ mine[p] # {}
      /\ made[NewestOf(p)] = "ready" /\ made' = made
      /\ ~IsEcs(p) /\ ~IsLambda(p) /\ ~IsNumbered(p)
  BY RunFacts, OnePlatform DEF DeployReturns, RevisionDeployed, CloudAt, PlaceInv, IsNumbered, serviceVars
<1>2. Turn(p) /\ cpc'[p] = "verify" /\ result' = result
  BY <1>1, GotoFacts DEF DeployReturns, Steps
<1>3. PlaceInv(p)'
  BY <1>1, <1>2, SameRun DEF PlaceInv
<1>4. VersionsInv(p)'
  BY <1>1, <1>2, MovedVersions
<1>5. DeployedInv(p)'
  BY <1>1, <1>2, SameRun DEF DeployedInv
<1> QED
  BY <1>1, <1>2, <1>3, <1>4, <1>5, RunFacts, MoveStep DEF RunTypes

(* Discovery names a ready revision, whatever lies between.                *)
LEMMA DiscoveryFacts ==
  ASSUME ServiceInv
  PROVE  /\ PriorReadyRevision \in 0..Len(made)
         /\ PriorReadyRevision # 0 => made[PriorReadyRevision] = "ready"
<1>1. Len(made) \in Nat /\ DOMAIN made = 1..Len(made)
  BY ServiceFacts
<1>2. (Ready \ {Len(made)}) \cup {0} \subseteq 0..Len(made) /\ (Ready \ {Len(made)}) \cup {0} # {}
  BY <1>1 DEF Ready
<1>3. PriorReadyRevision \in (Ready \ {Len(made)}) \cup {0}
  BY <1>1, <1>2, MaxFacts DEF PriorReadyRevision
<1> QED
  BY <1>1, <1>2, <1>3 DEF Ready

LEMMA ChooseRevisionStep ==
  ASSUME CloudInv, NEW p \in Pipeline, ChooseRevision(p)
  PROVE  CloudInv'
<1>1. /\ IsCloudRun(p) /\ cpc[p] = "choose" /\ UNCHANGED <<serviceVars, kind, handle, retried, mine, unheard>>
      /\ UNCHANGED <<made, served>>
      /\ ServiceInv /\ RunTypes /\ PlaceInv(p) /\ VersionsInv(p) /\ backTo[p] = 0 /\ result[p] = "none"
      /\ ~IsEcs(p) /\ ~IsLambda(p) /\ ~IsNumbered(p)
      /\ retried' \in [Pipeline -> 0..(JobTries - 1)]
      /\ handle[p] \in 0..Len(made) /\ handle' = [handle EXCEPT ![p] = handle[p]]
  BY RunFacts, OnePlatform DEF ChooseRevision, CloudAt, PlaceInv, IsNumbered, serviceVars, RunTypes
<1>2. ASSUME NEW r \in {IF handle[p] # 0 THEN handle[p] ELSE PriorReadyRevision} \ {0},
             backTo' = [backTo EXCEPT ![p] = r], CloudGoto(p, "back")
      PROVE  CloudInv'
  <2>1. Turn(p) /\ cpc'[p] = "back" /\ result' = result
    BY <1>1, <1>2, GotoFacts DEF Steps
  <2>2. /\ r \in 0..Len(made) /\ r # 0 /\ made[r] = "ready" /\ (handle[p] # 0 => r = handle[p])
        /\ backTo'[p] = r
    BY <1>1, <1>2, DiscoveryFacts DEF VersionsInv, RunTypes
  <2>3. PlaceInv(p)'
    BY <1>1, <2>1, <2>2, SameRun DEF PlaceInv
  <2>4. VersionsInv(p)'
    BY <1>1, <2>1, <2>2, SameRun DEF VersionsInv
  <2>5. DeployedInv(p)'
    BY <1>1, <2>1 DEF DeployedInv, Settled
  <2> QED
    BY <1>1, <1>2, <2>1, <2>2, <2>3, <2>4, <2>5, MoveStep
<1>3. CASE End(p, "failed") /\ UNCHANGED backTo
  <2>1. Turn(p) /\ cpc'[p] = "done" /\ result'[p] = "failed"
    BY <1>1, <1>3, EndFacts DEF Results
  <2>2. PlaceInv(p)'
    BY <1>1, <1>3, <2>1, SameRun DEF PlaceInv
  <2>3. VersionsInv(p)'
    BY <1>1, <1>3, <2>1, MovedVersions
  <2>4. DeployedInv(p)'
    BY <1>1, <2>1 DEF DeployedInv, Settled
  <2> QED
    BY <1>1, <1>3, <2>1, <2>2, <2>3, <2>4, RunFacts, MoveStep
<1> QED
  BY <1>2, <1>3 DEF ChooseRevision

LEMMA RollBackStep ==
  ASSUME CloudInv, NEW p \in Pipeline, RollBack(p)
  PROVE  CloudInv'
<1>1. /\ cpc[p] = "back" /\ UNCHANGED <<made, kind, handle, backTo, retried, mine, unheard>>
      /\ ServiceInv /\ RunTypes /\ PlaceInv(p) /\ VersionsInv(p) /\ backTo[p] # 0
      /\ backTo[p] \in 1..Len(made) /\ made[backTo[p]] = "ready"
      /\ retried' \in [Pipeline -> 0..(JobTries - 1)]
  <2>1. /\ cpc[p] = "back" /\ UNCHANGED <<made, kind, handle, backTo, retried, mine, unheard>>
    BY DEF RollBack, CloudAt
  <2>2. /\ ServiceInv /\ RunTypes /\ PlaceInv(p) /\ VersionsInv(p) /\ backTo[p] \in 0..Len(made)
        /\ Len(made) \in Nat
    BY RunFacts
  <2>3. backTo[p] # 0 /\ made[backTo[p]] = "ready"
    BY <2>1, <2>2 DEF PlaceInv, VersionsInv
  <2>4. retried' \in [Pipeline -> 0..(JobTries - 1)]
    BY <2>1, <2>2 DEF RunTypes
  <2> QED
    BY <2>1, <2>2, <2>3, <2>4
<1>2. Turn(p) /\ cpc'[p] = "done" /\ result'[p] \in {"rolled back", "failed"}
  BY <1>1, EndFacts DEF RollBack, Results
<1>3. PlaceInv(p)'
  BY <1>1, <1>2, SameRun DEF PlaceInv
<1>4. DeployedInv(p)'
  BY <1>2 DEF DeployedInv, Settled
<1>5. CASE UNCHANGED <<route, served>> /\ ~Route(backTo[p])
  <2>1. VersionsInv(p)'
    BY <1>1, <1>2, <1>5, MovedVersions DEF serviceVars
  <2> QED
    BY <1>1, <1>2, <1>3, <1>4, <1>5, <2>1, RunFacts, MoveStep DEF serviceVars
<1>6. CASE Route(backTo[p])
  <2>1. PICK r : r = backTo[p]
    OBVIOUS
  <2>2. PICK h : h = handle[p]
    OBVIOUS
  <2>3. /\ r \in 1..Len(made) /\ made[r] = "ready" /\ Route(r)
        /\ h \in 0..Len(made) /\ handle' = [handle EXCEPT ![p] = h]
        /\ unheard' \in {unheard, unheard \cup {p}} /\ UNCHANGED backTo
    BY <1>1, <1>6, <2>1, <2>2, RunFacts
  <2>4. ServiceInv' /\ Grows /\ served' = served \cup {r}
    BY <1>1, <2>3, RouteFacts
  <2>5. VersionsInv(p)'
    BY <1>1, <1>2, <2>4, SameRun DEF VersionsInv
  <2>6. ASSUME NEW q \in Pipeline \ {p}, IsLambda(q), r \in mine[q]
        PROVE  r \in served
    <3>1. ~IsCloudRun(p) /\ ~IsEcs(p)
      BY <1>1, <2>6, OnePlatform
    <3>2. IsLambda(p) /\ backTo[p] = handle[p]
      BY <1>1, <3>1 DEF PlaceInv, IsNumbered
    <3> QED
      BY <1>1, <2>1, <3>2 DEF VersionsInv
  <2> QED
    BY <1>1, <1>2, <1>3, <1>4, <2>3, <2>5, <2>6, RoutedStep
<1> QED
  BY <1>5, <1>6 DEF RollBack
-------------------------------------------------------------------------------
LEMMA InitInv ==
  CloudInit => CloudInv
<1>1. SUFFICES ASSUME CloudInit
               PROVE  CloudInv
  OBVIOUS
<1>2. /\ OldCount \in Nat \ {0} /\ JobTries \in Nat \ {0}
      /\ made = [r \in 1..OldCount |-> "ready"] /\ served = {OldCount}
      /\ mine = [p \in Pipeline |-> {}]
  BY <1>1, CloudAssumption DEF CloudInit
<1>3. /\ made \in Seq(States) /\ Len(made) = OldCount
      /\ \A r \in 1..OldCount : made[r] = "ready"
  BY <1>2 DEF States
<1>4. RunTypes
  <2>1. /\ cpc \in [Pipeline -> Steps] /\ result \in [Pipeline -> Results]
    BY <1>1 DEF CloudInit, Steps, Results
  <2>2. retried \in [Pipeline -> 0..(JobTries - 1)]
    BY <1>1, <1>2 DEF CloudInit
  <2> QED
    BY <1>1, <1>2, <1>3, <2>1, <2>2 DEF CloudInit, RunTypes
<1>5. LatestReady = OldCount
  <2>1. /\ LatestReady \in 0..Len(made)
        /\ \A r \in 1..Len(made) : made[r] = "ready" => LatestReady >= r
    BY <1>3, LatestFacts DEF LatestReady, Ready, ReadyIn
  <2> QED
    BY <1>2, <1>3, <2>1
<1>6. route \in {0, OldCount} /\ Serving = OldCount
      /\ ((\E p \in Pipeline : IsNumbered(p)) => route # 0)
  BY <1>1, <1>2, <1>5 DEF CloudInit, Serving, IsNumbered, IsLambda, IsEcs
<1>7. ServiceInv
  BY <1>2, <1>3, <1>6 DEF ServiceInv, States
<1>8. Apart
  BY <1>2 DEF Apart
<1>9. ASSUME NEW p \in Pipeline
      PROVE  PlaceInv(p) /\ VersionsInv(p) /\ DeployedInv(p)
  <2>1. /\ handle[p] = 0 /\ backTo[p] = 0 /\ mine[p] = {} /\ result[p] = "none"
        /\ cpc[p] = IF kind[p] = "absent" THEN "done" ELSE "read"
    BY <1>1 DEF CloudInit
  <2>2. kind[p] = "absent" \/ IsNumbered(p) \/ IsCloudRun(p)
    BY <1>1, CloudAssumption DEF CloudInit, CloudPlatforms, IsNumbered, IsLambda, IsEcs, IsCloudRun
  <2> QED
    BY <2>1, <2>2 DEF PlaceInv, VersionsInv, DeployedInv, Settled
<1> QED
  BY <1>4, <1>7, <1>8, <1>9 DEF CloudInv

LEMMA StepInv ==
  CloudInv /\ [Next]_vars => CloudInv'
<1>1. SUFFICES ASSUME CloudInv, [Next]_vars
               PROVE  CloudInv'
  OBVIOUS
<1>2. ASSUME NEW p \in Pipeline, LambdaNext(p)
      PROVE  CloudInv'
  BY <1>1, <1>2, ReadAliasStep, PublishStep, ShiftStep, ChoosePriorStep DEF LambdaNext
<1>3. ASSUME NEW p \in Pipeline, EcsNext(p)
      PROVE  CloudInv'
  BY <1>1, <1>3, DescribeStep, RegisterStep, UpdateStep, StabilizeStep, ChoosePriorStep DEF EcsNext
<1>4. ASSUME NEW p \in Pipeline, CloudRunNext(p)
      PROVE  CloudInv'
  <2>1. CASE DeployFails(p)
    BY <1>1, <2>1, FailStep DEF DeployFails
  <2> QED
    BY <1>1, <1>4, <2>1, ReadPriorStep, CreateStep, ReturnStep, ChooseRevisionStep DEF CloudRunNext
<1>5. ASSUME NEW p \in Pipeline, Verify(p) \/ RollBack(p)
      PROVE  CloudInv'
  BY <1>1, <1>5, VerifyStep, RollBackStep
<1>6. CASE UNCHANGED vars
  <2>1. UNCHANGED <<serviceVars, kind, cpc, handle, backTo, retried, result, mine, unheard, served>>
    BY <1>6 DEF vars, runVars, serviceVars
  <2>2. ServiceInv' /\ Grows
    BY <1>1, <2>1, ServiceStays
  <2>3. RunTypes' /\ Apart'
    BY <1>1, <2>1 DEF CloudInv, RunTypes, Apart, serviceVars
  <2>4. \A p \in Pipeline : PlaceInv(p)' /\ VersionsInv(p)' /\ DeployedInv(p)'
    BY <1>1, <2>1, <2>2, OthersStay
  <2> QED
    BY <2>2, <2>3, <2>4 DEF CloudInv
<1> QED
  BY <1>1, <1>2, <1>3, <1>4, <1>5, <1>6, SettleStep DEF Next

LEMMA Invariance ==
  Spec => []CloudInv
BY InitInv, StepInv, PTL DEF Spec

(* Every variable keeps its type: traffic, handles and rollbacks name      *)
(* versions that exist, and no deploy is retried past its last attempt.    *)
THEOREM TypeCorrect ==
  Spec => []TypeOK
<1>1. CloudInv => TypeOK
  BY DEF CloudInv, ServiceInv, RunTypes, Steps, Results, TypeOK
<1> QED
  BY <1>1, Invariance, PTL

(* A rollback names a version that is ready, on every platform, captured   *)
(* or discovered.                                                          *)
THEOREM RollsBackToReady ==
  Spec => []RollbackTargetReady
<1>1. CloudInv => RollbackTargetReady
  BY DEF CloudInv, VersionsInv, RollbackTargetReady, Chosen
<1> QED
  BY <1>1, Invariance, PTL

(* A rollback to the captured version leaves the run's own versions, unless*)
(* an alias shift of the run landed unheard.                               *)
THEOREM RollsBackPastOwn ==
  Spec => []RollbackLeavesOwn
<1>1. CloudInv => RollbackLeavesOwn
  <2>1. SUFFICES ASSUME CloudInv, NEW p \in Pipeline, Chosen(p), handle[p] # 0, p \notin unheard
                 PROVE  backTo[p] \notin mine[p]
    BY DEF RollbackLeavesOwn
  <2>2. backTo[p] = handle[p]
    BY <2>1 DEF CloudInv, PlaceInv, Chosen
  <2> QED
    BY <2>1, <2>2 DEF CloudInv, VersionsInv
<1> QED
  BY <1>1, Invariance, PTL

(* A Lambda rollback names a version that has served; so does one of ECS   *)
(* when the other runs have put to service every revision they registered. *)
THEOREM RollsBackToServed ==
  Spec => []RollbackTargetServed
<1>1. CloudInv => RollbackTargetServed
  <2>1. SUFFICES ASSUME CloudInv, NEW p \in Pipeline, Chosen(p)
                 PROVE  /\ IsLambda(p) => backTo[p] \in served
                        /\ IsEcs(p) /\ (\A q \in Pipeline \ {p} : mine[q] \subseteq served)
                             => backTo[p] \in served
    BY DEF RollbackTargetServed
  <2>2. backTo[p] # 0 /\ PlaceInv(p) /\ VersionsInv(p) /\ RunTypes /\ OldCount \in served
    BY <2>1 DEF CloudInv, ServiceInv, Chosen
  <2>3. IsLambda(p) \/ IsEcs(p) => backTo[p] = handle[p]
    BY <2>2, OnePlatform DEF PlaceInv
  <2> QED
    BY <2>2, <2>3 DEF VersionsInv
<1> QED
  BY <1>1, Invariance, PTL

(* The newest version, deployed by a run that ended green, has taken       *)
(* production traffic, on Cloud Run as long as that follows LATEST.        *)
THEOREM GreenHasServed ==
  Spec => []GreenServesUnlessTied
<1>1. CloudInv => GreenServesUnlessTied
  <2>1. SUFFICES ASSUME CloudInv, NEW p \in Pipeline, Green(p), ~IsCloudRun(p) \/ route = 0
                 PROVE  NewestOf(p) \in served
    BY DEF GreenServesUnlessTied
  <2>2. /\ ServiceInv /\ RunTypes /\ PlaceInv(p) /\ DeployedInv(p) /\ Settled(p)
        /\ NewestOf(p) = Len(made)
    BY <2>1 DEF CloudInv, Green, Settled
  <2>3. CASE IsNumbered(p)
    BY <2>2, <2>3 DEF DeployedInv
  <2>4. CASE IsCloudRun(p)
    <3>1. route = 0 /\ made[Len(made)] = "ready" /\ Serving \in served
      BY <2>1, <2>2, <2>4 DEF DeployedInv, ServiceInv
    <3>2. LatestReady = Len(made)
      BY <2>2, <3>1, ServiceFacts
    <3> QED
      BY <2>2, <3>1, <3>2 DEF Serving
  <2>5. mine[p] # {}
    BY <2>2, OwnFacts, ServiceFacts
  <2> QED
    BY <2>2, <2>3, <2>4, <2>5 DEF PlaceInv
<1> QED
  BY <1>1, Invariance, PTL
===============================================================================

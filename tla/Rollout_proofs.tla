---------------------------- MODULE Rollout_proofs ----------------------------
(***************************************************************************)
(* Theorems about deploy.Run and rollback.Run waiting for ArgoCD, for any  *)
(* calls, images, versions and number of kicks, and any order of the       *)
(* controller's steps.                                                     *)
(***************************************************************************)
EXTENDS Rollout, TLAPS

MainType == main \in Seq(Tree) /\ Len(main) >= 2

(* The cluster runs, compares with and applies commits of main. *)
ArgoType ==
  /\ compared \in 0..Len(main)
  /\ live \in 1..Len(main)
  /\ operation \in 0..Len(main)

OperationType ==
  /\ phase \in {"", "Running", "Succeeded", "Failed"}
  /\ healthy \in BOOLEAN

(* The commit it last compared with is not older than the one it runs. *)
NeverBehind == compared # 0 => compared >= live

ControlType ==
  /\ job \in Jobs
  /\ pc \in [Runner -> Step]
  /\ result \in [Runner -> Result]
  /\ kicks \in [Runner -> 0..MaxKicks]

SightType ==
  /\ seen \in [Runner -> Status]
  /\ expected \in [Runner -> 0..Len(main)]
  /\ wrote \in [Runner -> 0..Len(main)]
  /\ accepted \in [Runner -> 0..Len(main)]

Waiting == {"loop", "kick", "post", "poll"}

(* A status that shows a deploy rolled out shows a commit with its tags.   *)
Trusted(r, s) ==
  s.ready /\ s.images /\ IsDeploy(r) =>
    s.revision \in 1..Len(main) /\ Carries(main[s.revision], job[r].request)

(* What a call knows while it waits: the revision it waits for, and once   *)
(* it has kicked, that the controller has compared since its write.        *)
Knows(r) ==
  /\ pc[r] # "done" => accepted[r] = 0
  /\ pc[r] = "write" => kicks[r] = 0
  /\ pc[r] = "kick" => kicks[r] < MaxKicks
  /\ pc[r] \in {"post", "poll"} => kicks[r] > 0
  /\ kicks[r] > 0 => compared >= wrote[r]
  /\ pc[r] \in Waiting /\ IsDeploy(r) => expected[r] # 0 /\ expected[r] >= wrote[r]
  /\ Trusted(r, seen[r])

(* What it was told when it returned. *)
Told(r) ==
  accepted[r] # 0 =>
    /\ accepted[r] >= wrote[r]
    /\ IsDeploy(r) => Carries(main[accepted[r]], job[r].request)

RolloutInv ==
  /\ MainType /\ ArgoType /\ OperationType /\ NeverBehind /\ ControlType /\ SightType
  /\ \A r \in Runner : Knows(r) /\ Told(r)

-------------------------------------------------------------------------------
(* Facts about main, and what a write makes of it. *)

LEMMA AppendFacts ==
  ASSUME NEW S, NEW m \in Seq(S), NEW t \in S
  PROVE  /\ Append(m, t) \in Seq(S)
         /\ Len(Append(m, t)) = Len(m) + 1
         /\ \A i \in 1..Len(m) : Append(m, t)[i] = m[i]
  OBVIOUS

LEMMA MainFacts ==
  ASSUME MainType
  PROVE  /\ Len(main) \in Nat /\ Len(main) >= 2
         /\ Tip(main) \in Tree
         /\ \A i \in 1..Len(main) : main[i] \in Tree
  BY DEF MainType, Tip

LEMMA JobFacts ==
  ASSUME ControlType, NEW r \in Runner
  PROVE  job[r].kind \in {"deploy", "rollback"} /\ job[r].request \in RequestSet
  BY RolloutAssumption DEF ControlType

(* The commits on main stay, and more may follow them. *)
MainGrows ==
  /\ MainType' /\ Len(main) \in Nat /\ Len(main') \in Nat /\ Len(main') >= Len(main)
  /\ \A i \in 1..Len(main) : main'[i] = main[i]

LEMMA MainStays ==
  ASSUME MainType, main' = main
  PROVE  MainGrows
  BY MainFacts DEF MainGrows, MainType

LEMMA WriteGrows ==
  ASSUME MainType, ControlType, NEW r \in Runner,
         main' = main \/ \E t \in Written(r) : main' = Append(main, t)
  PROVE  MainGrows
<1>1. ASSUME NEW t \in Written(r) PROVE t \in Tree
  <2>1. CASE t \in Patches(Tip(main), job[r].request)
    <3>1. PICK fs : t = Write(Tip(main), fs, job[r].request.tag)
      BY <2>1 DEF Patches
    <3> QED
      BY <3>1, MainFacts, JobFacts DEF Write, Tree, RequestSet
  <2>2. main[Len(main) - 1] \in Tree
    BY MainFacts
  <2> QED
    BY <1>1, <2>1, <2>2 DEF Written
<1>2. CASE main' = main
  BY <1>2, MainStays
<1>3. ASSUME NEW t \in Tree, main' = Append(main, t) PROVE MainGrows
  BY <1>3, AppendFacts, MainFacts DEF MainGrows, MainType
<1> QED
  BY <1>1, <1>2, <1>3

-------------------------------------------------------------------------------
(* The controller: no step of it, or of a call on it, takes the comparison *)
(* back.                                                                   *)

LEMMA ArgoStays ==
  ASSUME ArgoType, NeverBehind, MainGrows, UNCHANGED argoVars
  PROVE  ArgoType' /\ NeverBehind'
  BY DEF ArgoType, NeverBehind, MainGrows, argoVars

LEMMA RefreshFacts ==
  ASSUME MainType, ArgoType, NeverBehind, Refresh
  PROVE  ArgoType' /\ NeverBehind' /\ main' = main /\ compared' = Len(main) /\ compared' >= compared
  BY MainFacts DEF ArgoType, NeverBehind, Refresh

LEMMA StartFacts ==
  ASSUME MainType, ArgoType, NeverBehind, NEW p \in 1..Len(main), StartOperation(p)
  PROVE  ArgoType' /\ NeverBehind' /\ main' = main /\ compared' = compared /\ live' = live
  BY MainFacts DEF ArgoType, NeverBehind, StartOperation

LEMMA EndFacts ==
  ASSUME MainType, ArgoType, NeverBehind,
         OperationSucceeds \/ OperationFails \/ BecomeHealthy
  PROVE  ArgoType' /\ NeverBehind' /\ main' = main /\ compared' >= compared
<1>1. CASE OperationSucceeds
  BY <1>1, MainFacts DEF ArgoType, NeverBehind, OperationSucceeds
<1>2. CASE OperationFails
  BY <1>2, MainFacts DEF ArgoType, NeverBehind, OperationFails
<1>3. CASE BecomeHealthy
  BY <1>3, MainFacts DEF ArgoType, NeverBehind, BecomeHealthy
<1> QED
  BY <1>1, <1>2, <1>3

LEMMA ArgoStepFacts ==
  ASSUME MainType, ArgoType, NeverBehind, ArgoStep
  PROVE  ArgoType' /\ NeverBehind' /\ main' = main /\ compared' >= compared
<1>1. CASE AutomatedSync
  <2>1. compared \in 1..Len(main) /\ StartOperation(compared)
    BY <1>1, MainFacts DEF AutomatedSync, ArgoType
  <2>2. compared' >= compared
    BY <2>1, MainFacts DEF StartOperation
  <2> QED
    BY <2>1, <2>2, StartFacts
<1> QED
  BY <1>1, RefreshFacts, EndFacts DEF ArgoStep

(* A sync that a call starts names a commit of main. *)
LEMMA PostFacts ==
  ASSUME MainType, ArgoType, NeverBehind, SightType, NEW r \in Runner, PostStarts(r)
  PROVE  ArgoType' /\ NeverBehind' /\ main' = main /\ compared' = compared
<1>1. SyncRevision(r) \in 1..Len(main)
  BY MainFacts DEF SyncRevision, SightType
<1> QED
  BY <1>1, StartFacts DEF PostStarts

-------------------------------------------------------------------------------
(* The calls. *)

LEMMA TypesStay ==
  ASSUME SightType, MainGrows
  PROVE  /\ expected \in [Runner -> 0..Len(main')]
         /\ wrote \in [Runner -> 0..Len(main')]
         /\ accepted \in [Runner -> 0..Len(main')]
  BY DEF SightType, MainGrows

LEMMA GotoFacts ==
  ASSUME ControlType, NEW r \in Runner, NEW step \in Step, Goto(r, step)
  PROVE  /\ pc' \in [Runner -> Step] /\ result' \in [Runner -> Result] /\ accepted' = accepted
         /\ pc'[r] = step /\ \A d \in Runner \ {r} : pc'[d] = pc[d]
  BY DEF ControlType, Goto

LEMMA ReturnFacts ==
  ASSUME ControlType, NEW r \in Runner, NEW how \in Result, Return(r, how)
  PROVE  /\ pc' \in [Runner -> Step] /\ result' \in [Runner -> Result]
         /\ pc'[r] = "done" /\ \A d \in Runner \ {r} : pc'[d] = pc[d]
  BY DEF ControlType, Return, Step

LEMMA TrustStays ==
  ASSUME MainGrows, NEW r \in Runner, job' = job, NEW s, Trusted(r, s)
  PROVE  Trusted(r, s)'
  BY DEF MainGrows, Trusted, IsDeploy

LEMMA ToldStays ==
  ASSUME MainGrows, SightType, NEW r \in Runner, job' = job, Told(r),
         wrote'[r] = wrote[r], accepted'[r] = accepted[r]
  PROVE  Told(r)'
<1>1. accepted[r] \in 0..Len(main)
  BY DEF SightType
<1> QED
  BY <1>1 DEF MainGrows, Told, IsDeploy

(* What others and the controller do leaves a call what it knows. *)
LEMMA OthersStay ==
  ASSUME RolloutInv, MainGrows, compared' >= compared, ArgoType',
         NEW r \in Runner, job' = job, pc'[r] = pc[r], seen'[r] = seen[r],
         expected'[r] = expected[r], kicks'[r] = kicks[r],
         wrote'[r] = wrote[r], accepted'[r] = accepted[r]
  PROVE  Knows(r)' /\ Told(r)'
<1>1. /\ Knows(r) /\ Told(r) /\ SightType
      /\ wrote[r] \in Nat /\ compared \in Nat /\ compared' \in Nat
  BY DEF RolloutInv, SightType, ArgoType, MainGrows
<1>2. Trusted(r, seen[r])'
  <2>1. PICK s : s = seen[r]
    OBVIOUS
  <2> QED
    BY <1>1, <2>1, TrustStays DEF Knows, Trusted, IsDeploy, MainGrows
<1> QED
  BY <1>1, <1>2, ToldStays DEF Knows, IsDeploy

OnlyActs(r) ==
  /\ job' = job
  /\ \A d \in Runner \ {r} :
       /\ pc'[d] = pc[d] /\ seen'[d] = seen[d] /\ expected'[d] = expected[d]
       /\ kicks'[d] = kicks[d] /\ wrote'[d] = wrote[d] /\ accepted'[d] = accepted[d]

LEMMA CallStep ==
  ASSUME RolloutInv, NEW r \in Runner, OnlyActs(r), MainGrows, compared' >= compared,
         ArgoType', OperationType', NeverBehind', ControlType', SightType',
         Knows(r)', Told(r)'
  PROVE  RolloutInv'
<1>1. \A d \in Runner : Knows(d)' /\ Told(d)'
  <2>1. SUFFICES ASSUME NEW d \in Runner \ {r}
                 PROVE  Knows(d)' /\ Told(d)'
    OBVIOUS
  <2> QED
    BY OthersStay DEF OnlyActs
<1> QED
  BY <1>1 DEF RolloutInv, MainGrows

LEMMA InitInv ==
  Init => RolloutInv
<1>1. SUFFICES ASSUME Init
               PROVE  RolloutInv
  OBVIOUS
<1>2. MainType
  BY <1>1, RolloutAssumption DEF Init, MainType
<1>3. ArgoType
  <2>1. compared \in {0, Len(main)} /\ live = Len(main) /\ operation = 0
    BY <1>1, Zenon DEF Init, ArgoInit
  <2> QED
    BY <1>2, <2>1, MainFacts DEF ArgoType
<1>4. OperationType
  BY <1>1, Zenon DEF Init, ArgoInit, OperationType
<1>5. NeverBehind
  <2>1. compared \in {0, Len(main)} /\ live = Len(main) /\ operation = 0
    BY <1>1, Zenon DEF Init, ArgoInit
  <2> QED
    BY <1>2, <2>1, MainFacts DEF NeverBehind
<1>6. ControlType
  BY <1>1, RolloutAssumption DEF Init, ControlType, Step, Result
<1>7. SightType
  BY <1>1, <1>2, MainFacts DEF Init, SightType, Status
<1>8. ASSUME NEW r \in Runner
      PROVE  Knows(r) /\ Told(r)
  BY <1>1 DEF Init, Knows, Told, Trusted, Waiting
<1> QED
  BY <1>2, <1>3, <1>4, <1>5, <1>6, <1>7, <1>8 DEF RolloutInv

-------------------------------------------------------------------------------
(* What a GET shows, and what a call makes of it. *)

LEMMA ShownFacts ==
  ASSUME RolloutInv, NEW r \in Runner
  PROVE  /\ Shown(r) \in Status /\ Shown(r).revision = compared
         /\ Trusted(r, Shown(r))
<1>1. ArgoType /\ OperationType /\ MainType
  BY DEF RolloutInv
<1>2. Ready \in BOOLEAN
  BY Zenon DEF Ready
<1>3. (IsDeploy(r) => Carries(main[live], job[r].request)) \in BOOLEAN
  BY Zenon
<1>4. compared \in Nat
  BY <1>1, MainFacts DEF ArgoType
<1>5. Shown(r) \in Status
  BY <1>2, <1>3, <1>4, Zenon DEF Shown, Status
<1>6. /\ Shown(r).revision = compared /\ Shown(r).ready = Ready
      /\ Shown(r).images = (IsDeploy(r) => Carries(main[live], job[r].request))
  BY Zenon DEF Shown
<1>7. ASSUME Ready, IsDeploy(r), Carries(main[live], job[r].request)
      PROVE  compared \in 1..Len(main) /\ Carries(main[compared], job[r].request)
  <2>1. compared # 0 /\ main[live] = main[compared]
    BY <1>7 DEF Ready, Synced
  <2> QED
    BY <2>1, <1>1, <1>7, MainFacts DEF ArgoType
<1>8. Trusted(r, Shown(r))
  <2>1. SUFFICES ASSUME Shown(r).ready, Shown(r).images, IsDeploy(r)
                 PROVE  /\ Shown(r).revision \in 1..Len(main)
                        /\ Carries(main[Shown(r).revision], job[r].request)
    BY Zenon DEF Trusted
  <2>2. compared \in 1..Len(main) /\ Carries(main[compared], job[r].request)
    BY <1>6, <1>7, <2>1, Zenon
  <2> QED
    BY <1>6, <2>2, Zenon
<1> QED
  BY <1>5, <1>6, <1>8

LEMMA JudgeFacts ==
  ASSUME RolloutInv, NEW r \in Runner, pc[r] # "done",
         NEW s \in Status, NEW e \in Nat, Judge(r, s, e)
  PROVE  /\ pc' \in [Runner -> Step] /\ result' \in [Runner -> Result]
         /\ \A d \in Runner \ {r} : pc'[d] = pc[d] /\ accepted'[d] = accepted[d]
         /\ \/ /\ Deployed(s, e, seen[r].revision)
               /\ pc'[r] = "done"
               /\ accepted' = [accepted EXCEPT ![r] = s.revision]
            \/ /\ pc'[r] = "loop" /\ accepted' = accepted /\ accepted[r] = 0
<1>1. ControlType /\ SightType /\ Knows(r)
  BY DEF RolloutInv
<1>2. CASE Deployed(s, e, seen[r].revision)
  <2>1. Return(r, "ok") /\ accepted' = [accepted EXCEPT ![r] = s.revision]
    BY <1>2 DEF Judge
  <2>2. \A d \in Runner \ {r} : accepted'[d] = accepted[d]
    BY <1>1, <2>1 DEF SightType
  <2> QED
    BY <1>1, <1>2, <2>1, <2>2, ReturnFacts DEF Result
<1>3. CASE ~Deployed(s, e, seen[r].revision)
  <2>1. Goto(r, "loop")
    BY <1>3 DEF Judge
  <2> QED
    BY <1>1, <2>1, GotoFacts DEF Step, Knows
<1> QED
  BY <1>2, <1>3
(* phase and healthy keep their types. *)
LEMMA OperationStays ==
  ASSUME OperationType
  PROVE  /\ UNCHANGED argoVars => OperationType'
         /\ Refresh => OperationType'
         /\ \A p : StartOperation(p) => OperationType'
         /\ ArgoStep => OperationType'
<1>1. UNCHANGED argoVars => OperationType'
  BY Zenon DEF OperationType, argoVars
<1>2. Refresh => OperationType'
  BY Zenon DEF OperationType, Refresh
<1>3. \A p : StartOperation(p) => OperationType'
  BY Zenon DEF OperationType, StartOperation
<1>4. AutomatedSync => OperationType'
  BY <1>3, Zenon DEF AutomatedSync
<1>5. OperationSucceeds => OperationType'
  <2>1. (healthy /\ main[operation] = main[live]) \in BOOLEAN
    BY Zenon
  <2> QED
    BY <2>1, Zenon DEF OperationType, OperationSucceeds
<1>6. OperationFails => OperationType'
  BY Zenon DEF OperationType, OperationFails
<1>7. BecomeHealthy => OperationType'
  BY Zenon DEF OperationType, BecomeHealthy
<1> QED
  BY <1>1, <1>2, <1>3, <1>4, <1>5, <1>6, <1>7, Zenon DEF ArgoStep

(* What the steps of a call that leave the controller alone have in common. *)
LEMMA QuietFacts ==
  ASSUME RolloutInv, UNCHANGED argoVars, MainGrows
  PROVE  ArgoType' /\ OperationType' /\ NeverBehind' /\ compared' = compared /\ compared' >= compared
<1>1. compared' = compared /\ compared \in Nat
  BY DEF RolloutInv, ArgoType, argoVars, MainGrows
<1> QED
  BY <1>1, ArgoStays, OperationStays DEF RolloutInv

(* The write, however it ends. *)
LEMMA WriteStep ==
  ASSUME RolloutInv, NEW r \in Runner, WriteDeploy(r) \/ WriteRollback(r) \/ WriteUnheard(r)
  PROVE  RolloutInv'
<1>1. /\ MainType /\ ControlType /\ SightType /\ ArgoType /\ Knows(r) /\ Told(r)
      /\ At(r, "write") /\ pc[r] = "write"
      /\ main' = main \/ \E t \in Written(r) : main' = Append(main, t)
      /\ UNCHANGED <<argoVars, job, seen, expected, kicks>>
  BY DEF RolloutInv, WriteDeploy, WriteRollback, WriteUnheard, At
<1>2. MainGrows
  BY <1>1, WriteGrows
<1>3. ArgoType' /\ OperationType' /\ NeverBehind' /\ compared' = compared /\ compared' >= compared
  BY <1>1, <1>2, QuietFacts
<1>4. /\ pc' \in [Runner -> Step] /\ result' \in [Runner -> Result] /\ accepted' = accepted
      /\ pc'[r] \in {"write", "get", "done"} /\ \A d \in Runner \ {r} : pc'[d] = pc[d]
  <2>1. CASE Goto(r, "get") \/ Goto(r, "write")
    BY <1>1, <2>1, GotoFacts DEF Step
  <2>2. CASE (Return(r, "ok") \/ Return(r, "failed")) /\ UNCHANGED accepted
    BY <1>1, <2>2, ReturnFacts DEF Result
  <2> QED
    BY <2>1, <2>2 DEF WriteDeploy, WriteRollback, WriteUnheard
<1>5. wrote' = [wrote EXCEPT ![r] = Len(main')] \/ wrote' = wrote
  BY DEF WriteDeploy, WriteRollback, WriteUnheard
<1>6. /\ ControlType' /\ SightType'
  <2>1. ControlType'
    BY <1>1, <1>4 DEF ControlType
  <2>2. /\ expected \in [Runner -> 0..Len(main')] /\ accepted \in [Runner -> 0..Len(main')]
        /\ wrote \in [Runner -> 0..Len(main')]
    BY <1>1, <1>2, TypesStay
  <2>3. Len(main') \in 0..Len(main')
    BY <1>2 DEF MainGrows
  <2>4. wrote' \in [Runner -> 0..Len(main')]
    BY <1>5, <2>2, <2>3
  <2> QED
    BY <1>1, <1>4, <2>1, <2>2, <2>4 DEF SightType
<1>7. OnlyActs(r)
  BY <1>1, <1>4, <1>5 DEF OnlyActs, SightType
<1>8. accepted'[r] = 0 /\ kicks'[r] = 0
  BY <1>1, <1>4 DEF Knows
<1>9. Trusted(r, seen[r])'
  <2>1. PICK s : s = seen[r]
    OBVIOUS
  <2> QED
    BY <1>1, <1>2, <2>1, TrustStays DEF Knows, Trusted, IsDeploy, MainGrows
<1>10. Knows(r)' /\ Told(r)'
  BY <1>4, <1>8, <1>9 DEF Knows, Told, Waiting
<1> QED
  BY <1>2, <1>3, <1>6, <1>7, <1>10, CallStep

(* The first GET. *)
LEMMA FirstGetStep ==
  ASSUME RolloutInv, NEW r \in Runner, FirstGet(r)
  PROVE  RolloutInv'
<1>1. /\ MainType /\ ControlType /\ SightType /\ ArgoType /\ Knows(r) /\ Told(r)
      /\ pc[r] = "get" /\ UNCHANGED <<main, argoVars, job, expected, kicks, wrote>>
      /\ seen' = [seen EXCEPT ![r] = Shown(r)]
  BY DEF RolloutInv, FirstGet, At
<1>2. MainGrows
  BY <1>1, MainStays
<1>3. ArgoType' /\ OperationType' /\ NeverBehind' /\ compared' = compared /\ compared' >= compared
  BY <1>1, <1>2, QuietFacts
<1>4. /\ pc' \in [Runner -> Step] /\ result' \in [Runner -> Result] /\ accepted' = accepted
      /\ pc'[r] = IF IsDeploy(r) THEN "resolve" ELSE "loop"
      /\ \A d \in Runner \ {r} : pc'[d] = pc[d]
  BY <1>1, GotoFacts DEF FirstGet, Step
<1>5. Shown(r) \in Status /\ Trusted(r, Shown(r))
  BY ShownFacts
<1>6. ControlType' /\ SightType'
  BY <1>1, <1>4, <1>5 DEF ControlType, SightType
<1>7. OnlyActs(r)
  BY <1>1, <1>4 DEF OnlyActs, SightType
<1>8. Trusted(r, seen[r])'
  <2>1. seen'[r] = Shown(r)
    BY <1>1 DEF SightType
  <2>2. PICK s : s = Shown(r)
    OBVIOUS
  <2> QED
    BY <1>1, <1>2, <1>5, <2>1, <2>2, TrustStays DEF Trusted, IsDeploy, MainGrows
<1>9. Knows(r)' /\ Told(r)'
  <2>1. accepted'[r] = 0 /\ kicks'[r] = kicks[r] /\ wrote'[r] = wrote[r] /\ IsDeploy(r)' = IsDeploy(r)
    BY <1>1, <1>4 DEF Knows, IsDeploy
  <2> QED
    BY <1>1, <1>3, <1>4, <1>8, <2>1 DEF Knows, Told, Waiting
<1> QED
  BY <1>2, <1>3, <1>6, <1>7, <1>9, CallStep
(* A status is judged: at once after ls-remote, or later by a poll. *)
LEMMA JudgeStep ==
  ASSUME RolloutInv, NEW r \in Runner, pc[r] \in {"resolve", "poll"},
         NEW s \in Status, NEW e \in 0..Len(main), Judge(r, s, e), Trusted(r, s),
         Deployed(s, e, seen[r].revision) =>
           s.revision \in 0..Len(main) /\ s.revision >= wrote[r],
         expected' = [expected EXCEPT ![r] = e],
         IsDeploy(r) => e # 0 /\ e >= wrote[r],
         UNCHANGED <<main, argoVars, job, seen, kicks, wrote>>
  PROVE  RolloutInv'
<1>1. /\ MainType /\ ControlType /\ SightType /\ ArgoType /\ Knows(r) /\ Told(r)
      /\ Len(main) \in Nat /\ e \in Nat
  BY MainFacts DEF RolloutInv
<1>2. MainGrows
  BY <1>1, MainStays
<1>3. ArgoType' /\ OperationType' /\ NeverBehind' /\ compared' = compared /\ compared' >= compared
  BY <1>1, <1>2, QuietFacts
<1>4. /\ pc' \in [Runner -> Step] /\ result' \in [Runner -> Result]
      /\ \A d \in Runner \ {r} : pc'[d] = pc[d] /\ accepted'[d] = accepted[d]
      /\ \/ /\ Deployed(s, e, seen[r].revision)
            /\ pc'[r] = "done"
            /\ accepted' = [accepted EXCEPT ![r] = s.revision]
         \/ /\ pc'[r] = "loop" /\ accepted' = accepted /\ accepted[r] = 0
  BY <1>1, JudgeFacts
<1>5. ControlType' /\ SightType'
  BY <1>1, <1>4 DEF ControlType, SightType
<1>6. OnlyActs(r)
  BY <1>1, <1>4 DEF OnlyActs, SightType
<1>7. /\ expected'[r] = e /\ wrote'[r] = wrote[r] /\ kicks'[r] = kicks[r]
      /\ IsDeploy(r)' = IsDeploy(r)
  BY <1>1 DEF SightType, IsDeploy
<1>8. Trusted(r, seen[r])'
  BY <1>1 DEF Knows, Trusted, IsDeploy
<1>9. Knows(r)'
  BY <1>1, <1>3, <1>4, <1>7, <1>8 DEF Knows, Waiting
<1>10. Told(r)'
  <2>1. CASE Deployed(s, e, seen[r].revision) /\ accepted' = [accepted EXCEPT ![r] = s.revision]
    <3>1. accepted'[r] = s.revision /\ s.revision >= wrote[r] /\ s.ready /\ s.images
      BY <1>1, <2>1 DEF SightType, Deployed
    <3>2. IsDeploy(r) => Carries(main[s.revision], job[r].request)
      BY <3>1 DEF Trusted
    <3> QED
      BY <1>7, <3>1, <3>2 DEF Told, IsDeploy
  <2>2. CASE accepted' = accepted /\ accepted[r] = 0
    BY <2>2 DEF Told
  <2> QED
    BY <1>4, <2>1, <2>2
<1> QED
  BY <1>2, <1>3, <1>5, <1>6, <1>9, <1>10, CallStep

LEMMA ResolveStep ==
  ASSUME RolloutInv, NEW r \in Runner, Resolve(r)
  PROVE  RolloutInv'
<1>1. /\ MainType /\ SightType /\ Knows(r)
      /\ Len(main) \in Nat /\ Len(main) >= 2
  BY MainFacts DEF RolloutInv
<1>2. PICK s : s = seen[r]
  OBVIOUS
<1>3. PICK e : e = Len(main)
  OBVIOUS
<1>4. pc[r] \in {"resolve", "poll"} /\ s \in Status /\ e \in 0..Len(main) /\ wrote[r] \in 0..Len(main)
  BY <1>1, <1>2, <1>3 DEF Resolve, At, SightType
<1>5. Judge(r, s, e) /\ Trusted(r, s)
  BY <1>1, <1>2, <1>3 DEF Resolve, Knows
<1>6. Deployed(s, e, seen[r].revision) => s.revision \in 0..Len(main) /\ s.revision >= wrote[r]
  BY <1>1, <1>3, <1>4 DEF Deployed
<1>7. IsDeploy(r) => e # 0 /\ e >= wrote[r]
  BY <1>1, <1>3, <1>4
<1>8. /\ expected' = [expected EXCEPT ![r] = e]
      /\ UNCHANGED <<main, argoVars, job, seen, kicks, wrote>>
  BY <1>3 DEF Resolve
<1> QED
  BY <1>4, <1>5, <1>6, <1>7, <1>8, JudgeStep

LEMMA PollStep ==
  ASSUME RolloutInv, NEW r \in Runner, Poll(r)
  PROVE  RolloutInv'
<1>1. /\ MainType /\ SightType /\ ArgoType /\ Knows(r) /\ pc[r] = "poll"
      /\ Len(main) \in Nat
  BY MainFacts DEF RolloutInv, Poll, At
<1>2. PICK s : s = Shown(r)
  OBVIOUS
<1>3. PICK e : e = expected[r]
  OBVIOUS
<1>4. s \in Status /\ s.revision = compared /\ Trusted(r, s)
  BY <1>2, ShownFacts
<1>5. e \in 0..Len(main) /\ wrote[r] \in 0..Len(main) /\ kicks[r] > 0 /\ compared >= wrote[r]
  BY <1>1, <1>3 DEF SightType, Knows
<1>6. Deployed(s, e, seen[r].revision) => s.revision \in 0..Len(main) /\ s.revision >= wrote[r]
  BY <1>1, <1>4, <1>5 DEF ArgoType
<1>7. IsDeploy(r) => e # 0 /\ e >= wrote[r]
  BY <1>1, <1>3 DEF Knows, Waiting
<1>8. /\ Judge(r, s, e)
      /\ UNCHANGED <<main, argoVars, job, seen, kicks, wrote>>
  BY <1>2, <1>3 DEF Poll
<1>9. expected' = [expected EXCEPT ![r] = e]
  BY <1>1, <1>3 DEF Poll, SightType
<1> QED
  BY <1>1, <1>4, <1>5, <1>6, <1>7, <1>8, <1>9, JudgeStep

(* Steps that change nothing but where a call stands. *)
LEMMA TurnStep ==
  ASSUME RolloutInv, NEW r \in Runner, Loop(r) \/ PostIgnored(r) \/ Fail(r) \/ Timeout(r)
  PROVE  RolloutInv'
<1>1. /\ MainType /\ ControlType /\ SightType /\ ArgoType /\ Knows(r) /\ Told(r)
      /\ UNCHANGED <<main, argoVars, job, seen, expected, kicks, wrote>>
  BY DEF RolloutInv, Loop, PostIgnored, Fail, Timeout
<1>2. MainGrows
  BY <1>1, MainStays
<1>3. ArgoType' /\ OperationType' /\ NeverBehind' /\ compared' = compared /\ compared' >= compared
  BY <1>1, <1>2, QuietFacts
<1>4. /\ pc' \in [Runner -> Step] /\ result' \in [Runner -> Result] /\ accepted' = accepted
      /\ pc[r] # "done"
      /\ \/ pc'[r] = "kick" /\ pc[r] = "loop" /\ kicks[r] < MaxKicks
         \/ pc'[r] = "poll" /\ pc[r] \in {"loop", "post"} /\ kicks[r] > 0
         \/ pc'[r] = "done"
      /\ \A d \in Runner \ {r} : pc'[d] = pc[d]
  <2>1. CASE Loop(r)
    BY <1>1, <2>1, GotoFacts DEF Loop, At, Step
  <2>2. CASE PostIgnored(r)
    BY <1>1, <2>2, GotoFacts DEF PostIgnored, At, Step, Knows
  <2>3. CASE Fail(r) \/ Timeout(r)
    BY <1>1, <2>3, ReturnFacts DEF Fail, Timeout, Result
  <2> QED
    BY <2>1, <2>2, <2>3
<1>5. ControlType' /\ SightType'
  BY <1>1, <1>4 DEF ControlType, SightType
<1>6. OnlyActs(r)
  BY <1>1, <1>4 DEF OnlyActs
<1>7. Trusted(r, seen[r])' /\ IsDeploy(r)' = IsDeploy(r)
  BY <1>1 DEF Knows, Trusted, IsDeploy
<1>8. Knows(r)'
  BY <1>1, <1>3, <1>4, <1>7 DEF Knows, Waiting
<1>9. Told(r)'
  BY <1>1, <1>4 DEF Told, IsDeploy
<1> QED
  BY <1>2, <1>3, <1>5, <1>6, <1>8, <1>9, CallStep

(* A kick makes the controller compare with all that was written so far. *)
LEMMA KickStep ==
  ASSUME RolloutInv, NEW r \in Runner, Kick(r)
  PROVE  RolloutInv'
<1>1. /\ MainType /\ ControlType /\ SightType /\ ArgoType /\ NeverBehind /\ OperationType
      /\ Knows(r) /\ Told(r) /\ pc[r] = "kick" /\ Refresh
      /\ kicks' = [kicks EXCEPT ![r] = @ + 1]
      /\ UNCHANGED <<job, seen, expected, wrote>>
  BY DEF RolloutInv, Kick, At
<1>2. ArgoType' /\ NeverBehind' /\ main' = main /\ compared' = Len(main) /\ compared' >= compared
  BY <1>1, RefreshFacts
<1>3. MainGrows /\ OperationType'
  BY <1>1, <1>2, MainStays, OperationStays, Zenon
<1>4. /\ pc' \in [Runner -> Step] /\ result' \in [Runner -> Result] /\ accepted' = accepted
      /\ pc'[r] = "post" /\ \A d \in Runner \ {r} : pc'[d] = pc[d]
  BY <1>1, GotoFacts DEF Kick, Step
<1>5. kicks[r] \in 0..MaxKicks /\ kicks[r] < MaxKicks /\ kicks'[r] = kicks[r] + 1
  BY <1>1 DEF ControlType, Knows
<1>6. ControlType' /\ SightType'
  <2>1. MaxKicks \in Nat
    BY RolloutAssumption
  <2>2. kicks' \in [Runner -> 0..MaxKicks]
    BY <1>1, <1>5, <2>1 DEF ControlType
  <2> QED
    BY <1>1, <1>2, <1>4, <2>2 DEF ControlType, SightType
<1>7. OnlyActs(r)
  BY <1>1, <1>4 DEF OnlyActs, ControlType
<1>8. Trusted(r, seen[r])' /\ IsDeploy(r)' = IsDeploy(r)
  BY <1>1, <1>2 DEF Knows, Trusted, IsDeploy
<1>9. wrote'[r] = wrote[r] /\ wrote[r] \in 0..Len(main) /\ compared' >= wrote[r]
  BY <1>1, <1>2, MainFacts DEF SightType
<1>10. Knows(r)'
  BY <1>1, <1>4, <1>5, <1>8, <1>9, RolloutAssumption DEF Knows, Waiting
<1>11. Told(r)'
  BY <1>1, <1>2, <1>4 DEF Told, IsDeploy
<1> QED
  BY <1>2, <1>3, <1>6, <1>7, <1>10, <1>11, CallStep

LEMMA PostStep ==
  ASSUME RolloutInv, NEW r \in Runner, PostStarts(r)
  PROVE  RolloutInv'
<1>1. /\ MainType /\ ControlType /\ SightType /\ ArgoType /\ NeverBehind /\ OperationType
      /\ Knows(r) /\ Told(r) /\ pc[r] = "post" /\ kicks[r] > 0
      /\ UNCHANGED <<job, seen, expected, kicks, wrote>>
  BY DEF RolloutInv, PostStarts, At, Knows
<1>2. ArgoType' /\ NeverBehind' /\ main' = main /\ compared' = compared
  BY <1>1, PostFacts
<1>3. MainGrows /\ compared' >= compared
  BY <1>1, <1>2, MainStays, MainFacts DEF ArgoType
<1>4. OperationType'
  BY <1>1, OperationStays, Zenon DEF PostStarts
<1>5. /\ pc' \in [Runner -> Step] /\ result' \in [Runner -> Result] /\ accepted' = accepted
      /\ pc'[r] = "poll" /\ \A d \in Runner \ {r} : pc'[d] = pc[d]
  BY <1>1, GotoFacts DEF PostStarts, Step
<1>6. ControlType' /\ SightType'
  BY <1>1, <1>2, <1>5 DEF ControlType, SightType
<1>7. OnlyActs(r)
  BY <1>1, <1>5 DEF OnlyActs
<1>8. Trusted(r, seen[r])' /\ IsDeploy(r)' = IsDeploy(r)
  BY <1>1, <1>2 DEF Knows, Trusted, IsDeploy
<1>9. Knows(r)'
  BY <1>1, <1>2, <1>5, <1>8 DEF Knows, Waiting
<1>10. Told(r)'
  BY <1>1, <1>2, <1>5 DEF Told, IsDeploy
<1> QED
  BY <1>2, <1>3, <1>4, <1>6, <1>7, <1>9, <1>10, CallStep

(* The controller's own steps, and stuttering, leave every call what it knows. *)
LEMMA ControllerStep ==
  ASSUME RolloutInv, ArgoStep \/ UNCHANGED <<main, argoVars>>, UNCHANGED runVars
  PROVE  RolloutInv'
<1>1. /\ MainType /\ ControlType /\ SightType /\ ArgoType /\ NeverBehind /\ OperationType
      /\ UNCHANGED <<job, pc, seen, expected, kicks, result, wrote, accepted>>
  BY DEF RolloutInv, runVars
<1>2. ArgoType' /\ NeverBehind' /\ OperationType' /\ main' = main /\ compared' >= compared /\ MainGrows
  <2>1. CASE ArgoStep
    BY <1>1, <2>1, ArgoStepFacts, OperationStays, MainStays
  <2>2. CASE UNCHANGED <<main, argoVars>>
    BY <1>1, <2>2, QuietFacts, MainStays
  <2> QED
    BY <2>1, <2>2
<1>3. ControlType' /\ SightType'
  BY <1>1, <1>2 DEF ControlType, SightType
<1>4. \A r \in Runner : Knows(r)' /\ Told(r)'
  BY <1>1, <1>2, OthersStay
<1> QED
  BY <1>2, <1>3, <1>4 DEF RolloutInv, MainGrows

-------------------------------------------------------------------------------
LEMMA StepInv ==
  RolloutInv /\ [Next]_vars => RolloutInv'
<1>1. SUFFICES ASSUME RolloutInv, [Next]_vars
               PROVE  RolloutInv'
  OBVIOUS
<1>2. ASSUME NEW r \in Runner, Advance(r)
      PROVE  RolloutInv'
  BY <1>1, <1>2, WriteStep, FirstGetStep, ResolveStep, TurnStep, KickStep, PostStep, PollStep
     DEF Advance
<1>3. ASSUME NEW r \in Runner, WriteUnheard(r) \/ Fail(r) \/ Timeout(r)
      PROVE  RolloutInv'
  BY <1>1, <1>3, WriteStep, TurnStep
<1>4. CASE ArgoStep /\ UNCHANGED runVars
  BY <1>1, <1>4, ControllerStep
<1>5. CASE UNCHANGED vars
  BY <1>1, <1>5, ControllerStep DEF vars
<1> QED
  BY <1>1, <1>2, <1>3, <1>4, <1>5 DEF Next

LEMMA Invariance ==
  Spec => []RolloutInv
BY InitInv, StepInv, PTL DEF Spec

(* Every call keeps its state within its type: in particular, what it      *)
(* waits for, wrote and accepted are commits of main, and it never kicks   *)
(* more often than the timer lets it.                                      *)
THEOREM TypeCorrect ==
  Spec => []TypeOK
<1>1. RolloutInv => TypeOK
  BY Zenon DEF RolloutInv, MainType, ArgoType, OperationType, ControlType, SightType, TypeOK
<1> QED
  BY <1>1, Invariance, PTL

(* Success is never declared on a revision older than the call's own       *)
(* write: a deploy waits for what ls-remote showed after it, and a         *)
(* rollback, which knows no revision, looks only after it has kicked.      *)
THEOREM SuccessNotBeforeWrite ==
  Spec => []AcceptedAtOrAfterWrite
<1>1. RolloutInv => AcceptedAtOrAfterWrite
  BY DEF RolloutInv, Told, AcceptedAtOrAfterWrite
<1> QED
  BY <1>1, Invariance, PTL

(* The commit a deploy was declared successful on carries its tags,        *)
(* whoever else wrote to main before or after ls-remote.                   *)
THEOREM SuccessCarriesTags ==
  Spec => []AcceptedCommitCarriesTag
<1>1. RolloutInv => AcceptedCommitCarriesTag
  BY DEF RolloutInv, Told, AcceptedCommitCarriesTag
<1> QED
  BY <1>1, Invariance, PTL

(* What a call has written and resolved stays, once it waits. *)
Resolved(r) ==
  pc[r] \in Waiting \cup {"done"} /\ IsDeploy(r) /\ wrote[r] # 0 /\ wrote[r] <= expected[r]

(* Only deploys resolve a revision, and no call goes past its write without *)
(* one.                                                                     *)
HasWritten(r) ==
  /\ pc[r] \in {"get", "resolve"} \cup Waiting => wrote[r] # 0
  /\ pc[r] = "resolve" \/ expected[r] # 0 => IsDeploy(r)

(* An operation that is older than what the cluster runs applies what a    *)
(* deploy waits for, or has waited for.                                    *)
Pinned ==
  operation # 0 =>
    operation >= live \/ \E r \in Runner : Resolved(r) /\ operation = expected[r]

LEMMA CallMoves ==
  ASSUME RolloutInv, NEW d \in Runner, Advance(d) \/ WriteUnheard(d) \/ Fail(d) \/ Timeout(d)
  PROVE  /\ job' = job
         /\ \A r \in Runner \ {d} :
              pc'[r] = pc[r] /\ wrote'[r] = wrote[r] /\ expected'[r] = expected[r]
         /\ \/ /\ pc[d] \in Waiting /\ pc'[d] \in Waiting \cup {"done"}
               /\ wrote'[d] = wrote[d] /\ expected'[d] = expected[d]
            \/ /\ pc'[d] = "done" \/ (pc[d] = "write" /\ pc'[d] = "write")
               /\ wrote'[d] = wrote[d] /\ expected'[d] = expected[d]
            \/ /\ pc[d] = "write" /\ pc'[d] \in {"get", "done"}
               /\ wrote'[d] = Len(main') /\ expected'[d] = expected[d]
            \/ /\ pc[d] = "get" /\ pc'[d] = IF IsDeploy(d) THEN "resolve" ELSE "loop"
               /\ wrote'[d] = wrote[d] /\ expected'[d] = expected[d]
            \/ /\ pc[d] = "resolve" /\ pc'[d] \in {"loop", "done"}
               /\ wrote'[d] = wrote[d]
<1> USE DEF At, Goto, Return
<1>1. pc \in [Runner -> Step] /\ wrote \in [Runner -> 0..Len(main)] /\ expected \in [Runner -> 0..Len(main)]
  BY DEF RolloutInv, ControlType, SightType
<1>2. CASE WriteDeploy(d) \/ WriteRollback(d) \/ WriteUnheard(d)
  BY <1>1, <1>2 DEF WriteDeploy, WriteRollback, WriteUnheard
<1>3. CASE FirstGet(d)
  BY <1>1, <1>3 DEF FirstGet
<1>4. CASE Resolve(d)
  BY <1>1, <1>4 DEF Resolve, Judge
<1>5. CASE Loop(d) \/ Kick(d) \/ PostStarts(d) \/ PostIgnored(d) \/ Timeout(d)
  BY <1>1, <1>5 DEF Loop, Kick, PostStarts, PostIgnored, Timeout, Waiting
<1>6. CASE Poll(d)
  BY <1>1, <1>6 DEF Poll, Judge, Waiting
<1>7. CASE Fail(d)
  BY <1>1, <1>7 DEF Fail, Waiting
<1> QED
  BY <1>2, <1>3, <1>4, <1>5, <1>6, <1>7 DEF Advance

LEMMA WrittenStep ==
  ASSUME RolloutInv, RolloutInv', [Next]_vars, NEW r \in Runner, HasWritten(r)
  PROVE  HasWritten(r)' /\ (Resolved(r) => Resolved(r)' /\ expected'[r] = expected[r])
<1>1. Len(main') # 0
  BY DEF RolloutInv, MainType
<1>2. ASSUME NEW d \in Runner, Advance(d) \/ WriteUnheard(d) \/ Fail(d) \/ Timeout(d)
      PROVE  HasWritten(r)' /\ (Resolved(r) => Resolved(r)' /\ expected'[r] = expected[r])
  <2>1. CASE r # d
    BY <1>2, <2>1, CallMoves DEF HasWritten, Resolved, IsDeploy
  <2>2. CASE r = d
    <3>1. job' = job
      BY <1>2, CallMoves
    <3>2. Resolved(r) => Resolved(r)' /\ expected'[r] = expected[r]
      BY <1>2, <2>2, CallMoves DEF Resolved, IsDeploy, Waiting
    <3>3. HasWritten(r)'
      BY <1>1, <1>2, <2>2, <3>1, CallMoves, Zenon DEF HasWritten, IsDeploy, Waiting
    <3> QED
      BY <3>2, <3>3
  <2> QED
    BY <2>1, <2>2
<1>3. CASE UNCHANGED runVars
  BY <1>3 DEF runVars, HasWritten, Resolved, IsDeploy
<1> QED
  BY <1>2, <1>3 DEF Next, vars

(* Who starts an operation, and what becomes of one that runs. *)
LEMMA OperationMoves ==
  ASSUME RolloutInv, [Next]_vars
  PROVE  \/ operation' = operation /\ live' = live
         \/ operation' = 0
         \/ operation' = compared /\ compared # 0 /\ live' = live
         \/ \E r \in Runner : PostStarts(r) /\ operation' = SyncRevision(r) /\ live' = live
<1>1. ASSUME NEW r \in Runner, Advance(r) \/ WriteUnheard(r) \/ Fail(r) \/ Timeout(r)
      PROVE  \/ operation' = operation /\ live' = live
             \/ PostStarts(r) /\ operation' = SyncRevision(r) /\ live' = live
  BY <1>1, Zenon DEF Advance, WriteDeploy, WriteRollback, WriteUnheard, FirstGet, Resolve, Loop,
     Kick, Refresh, PostStarts, StartOperation, PostIgnored, Poll, Fail, Timeout, argoVars
<1>2. ASSUME ArgoStep
      PROVE  \/ operation' = operation /\ live' = live
             \/ operation' = 0
             \/ operation' = compared /\ compared # 0 /\ live' = live
  BY <1>2, Zenon DEF ArgoStep, Refresh, AutomatedSync, StartOperation, OperationSucceeds,
     OperationFails, BecomeHealthy
<1>3. CASE UNCHANGED vars
  BY <1>3, Zenon DEF vars, argoVars
<1> QED
  BY <1>1, <1>2, <1>3 DEF Next

LEMMA PinnedStep ==
  ASSUME RolloutInv, RolloutInv', \A r \in Runner : HasWritten(r), Pinned, [Next]_vars
  PROVE  Pinned'
<1>1. /\ ArgoType /\ MainType /\ NeverBehind /\ SightType /\ Len(main) \in Nat
  BY MainFacts DEF RolloutInv
<1>2. CASE operation' = operation /\ live' = live
  BY <1>2, WrittenStep DEF Pinned
<1>3. CASE operation' = 0
  BY <1>3 DEF Pinned
<1>4. CASE operation' = compared /\ compared # 0 /\ live' = live
  BY <1>1, <1>4 DEF Pinned, NeverBehind
<1>5. ASSUME NEW r \in Runner, PostStarts(r), operation' = SyncRevision(r), live' = live
      PROVE  Pinned'
  <2>1. CASE expected[r] = 0
    BY <1>1, <1>5, <2>1 DEF SyncRevision, ArgoType, Pinned
  <2>2. CASE expected[r] # 0
    <3>1. pc[r] = "post" /\ HasWritten(r) /\ Knows(r)
      BY <1>5 DEF PostStarts, At, RolloutInv
    <3>2. Resolved(r)
      BY <1>1, <2>2, <3>1 DEF HasWritten, Knows, Waiting, Resolved, SightType
    <3>3. Resolved(r)' /\ expected'[r] = expected[r]
      BY <3>1, <3>2, WrittenStep
    <3> QED
      BY <1>5, <2>2, <3>3 DEF SyncRevision, Pinned
  <2> QED
    BY <2>1, <2>2
<1> QED
  BY <1>2, <1>3, <1>4, <1>5, OperationMoves

LEMMA PinnedAlways ==
  Spec => [](Pinned /\ \A r \in Runner : HasWritten(r))
<1>1. Init => Pinned /\ \A r \in Runner : HasWritten(r)
  BY DEF Init, ArgoInit, Pinned, HasWritten, Waiting
<1>2. /\ RolloutInv /\ RolloutInv' /\ [Next]_vars
      /\ Pinned /\ \A r \in Runner : HasWritten(r)
      => (Pinned /\ \A r \in Runner : HasWritten(r))'
  BY PinnedStep, WrittenStep
<1> QED
  BY <1>1, <1>2, Invariance, PTL DEF Spec

(* The cluster goes back to an older commit only when a deploy's kick pins *)
(* it, and then to what that deploy resolved after its own write: a        *)
(* rollback, which pins nothing, and the controller itself only go         *)
(* forward.                                                                *)
THEOREM SetBackOnlyByAWaiter ==
  Spec => GoesBackOnlyToAWaitedRevision
<1>1. ASSUME RolloutInv, Pinned, [Next]_vars
      PROVE  [live' < live =>
                \E r \in Runner : /\ IsDeploy(r) /\ live' = expected[r]
                                  /\ wrote[r] # 0 /\ wrote[r] <= live']_vars
  <2>1. ArgoType /\ MainType /\ Len(main) \in Nat
    BY <1>1, MainFacts DEF RolloutInv
  <2>2. CASE live' = live
    BY <2>1, <2>2 DEF ArgoType
  <2>3. CASE OperationSucceeds
    BY <1>1, <2>1, <2>3 DEF OperationSucceeds, Pinned, Resolved, ArgoType
  <2>4. live' = live \/ OperationSucceeds
    <3>1. ASSUME NEW r \in Runner, Advance(r) \/ WriteUnheard(r) \/ Fail(r) \/ Timeout(r)
          PROVE  live' = live
      BY <3>1 DEF Advance, WriteDeploy, WriteRollback, WriteUnheard, FirstGet, Resolve, Loop,
         Kick, Refresh, PostStarts, StartOperation, PostIgnored, Poll, Fail, Timeout, argoVars
    <3>2. ASSUME ArgoStep
          PROVE  live' = live \/ OperationSucceeds
      BY <3>2, Zenon DEF ArgoStep, Refresh, AutomatedSync, StartOperation, OperationFails, BecomeHealthy
    <3> QED
      BY <1>1, <3>1, <3>2 DEF Next, vars, argoVars
  <2> QED
    BY <2>2, <2>3, <2>4
<1> QED
  BY <1>1, Invariance, PinnedAlways, PTL DEF Spec, GoesBackOnlyToAWaitedRevision
===============================================================================

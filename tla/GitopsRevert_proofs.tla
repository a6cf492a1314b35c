------------------------- MODULE GitopsRevert_proofs -------------------------
(***************************************************************************)
(* Theorems about concurrent calls of gitops.Revert among the deploys of   *)
(* other pipelines, for any calls, images, versions, retries and faults.   *)
(***************************************************************************)
EXTENDS GitopsRevert, TLAPS

ControlType ==
  /\ pc \in [Reverter -> Step]
  /\ result \in [Reverter -> Result]
  /\ attempt \in [Reverter -> 0..MaxRetries]

CheckoutType ==
  /\ base \in [Reverter -> 1..Len(main)]
  /\ tree \in [Reverter -> Tree]
  /\ aim \in [Reverter -> 0..Len(main)]
  /\ changed \in [Reverter -> BOOLEAN]
  /\ faults \in [Reverter -> Nat]

MainType ==
  /\ main \in Seq(Tree) /\ Len(main) >= Len(Start)
  /\ why \in Seq(Nat) /\ Len(why) = Len(main)
  /\ landed \in [Reverter -> SUBSET (1..Len(main))]

(* What is in the checkout: the base, or the base with the target undone.  *)
InCheckout(r) ==
  /\ pc[r] = "revert" => base[r] >= 2 /\ tree[r] = main[base[r]]
  /\ pc[r] \in {"commit", "push"} =>
       /\ aim[r] \in 2..base[r] /\ aim[r] = Aim(r)
       /\ tree[r] = Undone(main, main[base[r]], aim[r])

(* What a call has landed. *)
OnMain(r) ==
  \A p \in landed[r] : p >= 3 /\ (Commit[r] = HEAD => main[p] = main[p - 2])

(* What each revert on main has taken back. *)
Reverts ==
  \A p \in 1..Len(main) : why[p] # 0 =>
    why[p] \in 2..(p - 1) /\ main[p] = Undone(main, main[p - 1], why[p])

RevertInv ==
  /\ ControlType /\ CheckoutType /\ MainType
  /\ Reverts
  /\ \A r \in Reverter : InCheckout(r) /\ OnMain(r)

-----------------------------------------------------------------------------
(* Facts about main and about undoing one of its commits. *)

LEMMA AppendFacts ==
  ASSUME NEW S, NEW m \in Seq(S), NEW t \in S
  PROVE  /\ Append(m, t) \in Seq(S)
         /\ Len(Append(m, t)) = Len(m) + 1
         /\ \A i \in 1..Len(m) : Append(m, t)[i] = m[i]
         /\ Append(m, t)[Len(m) + 1] = t
  OBVIOUS

LEMMA PatchIsTree ==
  ASSUME NEW t \in Tree, NEW q \in RequestSet, NEW p \in Patches(t, q)
  PROVE  p \in Tree
<1>1. PICK ks \in SUBSET {k \in q.keys : t[k] # Absent} : p = Write(t, q.images \cup ks, q.tag)
  BY DEF Patches
<1> QED
  BY <1>1 DEF Write, Tree, RequestSet

LEMMA TreesOnMain ==
  ASSUME MainType
  PROVE  /\ Len(main) \in Nat /\ Len(main) >= 2
         /\ \A i \in 1..Len(main) : main[i] \in Tree /\ why[i] \in Nat
         /\ Tip(main) = main[Len(main)]
  BY RevertAssumption DEF MainType, Tip

(* What a call reverts is on main: its checkout may lack it. *)
LEMMA AimOnMain ==
  ASSUME MainType, NEW r \in Reverter, base[r] \in 2..Len(main)
  PROVE  Aim(r) \in 2..Len(main)
  BY TreesOnMain, RevertAssumption DEF MainType, Aim

LEMMA UndoneIsTree ==
  ASSUME MainType, NEW t \in Tree, NEW c \in 2..Len(main)
  PROVE  Undone(main, t, c) \in Tree
<1>1. main[c - 1] \in Tree
  BY TreesOnMain
<1> QED
  BY <1>1 DEF Undone, Touched, Tree

LEMMA UndoneTipIsParent ==
  ASSUME MainType, NEW c \in 2..Len(main)
  PROVE  Undone(main, main[c], c) = main[c - 1]
<1>1. main[c] \in [Field -> Version \cup {Absent}] /\ main[c - 1] \in [Field -> Version \cup {Absent}]
  BY TreesOnMain DEF Tree
<1>2. \A f \in Field : Undone(main, main[c], c)[f] = main[c - 1][f]
  BY DEF Undone, Touched
<1> QED
  BY <1>1, <1>2 DEF Undone, Touched

(* What undoing a commit does rests on that commit and the one before it.  *)
LEMMA UndoneStays ==
  ASSUME NEW m, NEW n, NEW t, NEW c, m[c] = n[c], m[c - 1] = n[c - 1]
  PROVE  Undone(m, t, c) = Undone(n, t, c)
  BY DEF Undone, Touched

(* Commits that are on main stay there: later ones change nothing that the *)
(* earlier are said to be.                                                 *)
LEMMA Grown ==
  ASSUME MainType, NEW t \in Tree, NEW cause \in Nat,
         main' = Append(main, t), why' = Append(why, cause)
  PROVE  /\ main' \in Seq(Tree) /\ Len(main') = Len(main) + 1
         /\ why' \in Seq(Nat) /\ Len(why') = Len(main')
         /\ \A i \in 1..Len(main) : main'[i] = main[i] /\ why'[i] = why[i]
         /\ main'[Len(main) + 1] = t /\ why'[Len(main) + 1] = cause
  BY AppendFacts DEF MainType

LEMMA RevertsStay ==
  ASSUME MainType, Reverts, NEW t \in Tree, NEW cause \in Nat,
         Len(main') = Len(main) + 1,
         \A i \in 1..Len(main) : main'[i] = main[i] /\ why'[i] = why[i],
         main'[Len(main) + 1] = t, why'[Len(main) + 1] = cause,
         cause # 0 => cause \in 2..Len(main) /\ t = Undone(main, main[Len(main)], cause)
  PROVE  Reverts'
<1>1. Len(main) \in Nat /\ Len(main) >= 2
  BY TreesOnMain
<1> SUFFICES ASSUME NEW p \in 1..Len(main'), why'[p] # 0
             PROVE  why'[p] \in 2..(p - 1) /\ main'[p] = Undone(main', main'[p - 1], why'[p])
  BY DEF Reverts
<1>2. ASSUME NEW c \in 2..Len(main), NEW s
      PROVE  Undone(main', s, c) = Undone(main, s, c)
  BY <1>1, <1>2, UndoneStays
<1>3. CASE p \in 1..Len(main)
  <2>1. why'[p] = why[p] /\ main'[p] = main[p]
    BY <1>3
  <2>2. why[p] \in 2..(p - 1) /\ main[p] = Undone(main, main[p - 1], why[p])
    BY <1>3, <2>1 DEF Reverts
  <2>3. main'[p - 1] = main[p - 1] /\ why[p] \in 2..Len(main)
    BY <1>1, <1>3, <2>2
  <2> QED
    BY <1>2, <2>1, <2>2, <2>3
<1>4. CASE p = Len(main) + 1
  <2>1. p - 1 = Len(main) /\ main'[p - 1] = main[Len(main)] /\ why'[p] = cause /\ main'[p] = t
    BY <1>1, <1>4
  <2>2. cause \in 2..Len(main) /\ t = Undone(main, main[Len(main)], cause)
    BY <2>1
  <2> QED
    BY <1>2, <2>1, <2>2
<1> QED
  BY <1>1, <1>3, <1>4

-----------------------------------------------------------------------------
(* How the control part of an action types, and whom it concerns. *)

LEMMA GotoFacts ==
  ASSUME ControlType, NEW r \in Reverter, NEW step \in Step, Goto(r, step)
  PROVE  /\ pc' \in [Reverter -> Step] /\ result' \in [Reverter -> Result]
         /\ pc'[r] = step /\ \A d \in Reverter \ {r} : pc'[d] = pc[d]
  BY DEF ControlType, Goto

LEMMA ReturnFacts ==
  ASSUME ControlType, NEW r \in Reverter, NEW how \in Result, Return(r, how)
  PROVE  /\ pc' \in [Reverter -> Step] /\ result' \in [Reverter -> Result]
         /\ pc'[r] = "done" /\ \A d \in Reverter \ {r} : pc'[d] = pc[d]
  BY DEF ControlType, Return, Step

LEMMA RetryFacts ==
  ASSUME ControlType, NEW r \in Reverter, Retry(r)
  PROVE  /\ ControlType' /\ pc'[r] \in {"fetch", "done"}
         /\ \A d \in Reverter \ {r} : pc'[d] = pc[d]
<1>1. "fetch" \in Step /\ "exhausted" \in Result
  BY DEF Step, Result
<1>2. CASE attempt[r] < MaxRetries
  <2>1. Goto(r, "fetch") /\ attempt' = [attempt EXCEPT ![r] = @ + 1]
    BY <1>2 DEF Retry
  <2>2. attempt' \in [Reverter -> 0..MaxRetries]
    BY <1>2, <2>1, RevertAssumption DEF ControlType
  <2> QED
    BY <1>1, <2>1, <2>2, GotoFacts DEF ControlType
<1>3. CASE ~(attempt[r] < MaxRetries)
  <2>1. Return(r, "exhausted") /\ attempt' = attempt
    BY <1>3 DEF Retry
  <2> QED
    BY <1>1, <2>1, ReturnFacts DEF ControlType
<1> QED
  BY <1>2, <1>3

(* A step of one call, without a commit, leaves the others where they are. *)
LEMMA OthersStay ==
  ASSUME NEW d \in Reverter, InCheckout(d), OnMain(d),
         pc'[d] = pc[d], base'[d] = base[d], tree'[d] = tree[d], aim'[d] = aim[d],
         landed'[d] = landed[d], main' = main
  PROVE  InCheckout(d)' /\ OnMain(d)'
  BY DEF InCheckout, OnMain, Aim

LEMMA RevertsKept ==
  ASSUME Reverts, UNCHANGED <<main, why>>
  PROVE  Reverts'
  BY DEF Reverts

(* A commit on main leaves every checkout as it is. *)
LEMMA StaysWhenGrown ==
  ASSUME RevertInv, NEW d \in Reverter,
         Len(main') = Len(main) + 1, \A i \in 1..Len(main) : main'[i] = main[i],
         pc'[d] \in {pc[d], "fetch", "done"},
         base'[d] = base[d], tree'[d] = tree[d], aim'[d] = aim[d]
  PROVE  InCheckout(d)'
<1>1. MainType /\ InCheckout(d) /\ base[d] \in 1..Len(main) /\ Len(main) \in Nat
  BY TreesOnMain DEF RevertInv, CheckoutType
<1>2. main'[base[d]] = main[base[d]]
  BY <1>1
<1>3. CASE pc'[d] \in {"commit", "push"}
  <2>1. /\ aim[d] \in 2..base[d] /\ aim[d] = Aim(d)
        /\ tree[d] = Undone(main, main[base[d]], aim[d])
    BY <1>1, <1>3 DEF InCheckout
  <2>2. main'[aim[d]] = main[aim[d]] /\ main'[aim[d] - 1] = main[aim[d] - 1]
    BY <1>1, <2>1
  <2>3. Undone(main', main'[base[d]], aim[d]) = Undone(main, main[base[d]], aim[d])
    BY <1>2, <2>2, UndoneStays
  <2> QED
    BY <1>3, <2>1, <2>3 DEF InCheckout, Aim
<1>4. CASE pc'[d] \notin {"commit", "push"}
  BY <1>1, <1>2, <1>4 DEF InCheckout
<1> QED
  BY <1>3, <1>4

LEMMA LandedWhenGrown ==
  ASSUME RevertInv, NEW d \in Reverter, \A i \in 1..Len(main) : main'[i] = main[i]
  PROVE  \A p \in landed[d] : p >= 3 /\ (Commit[d] = HEAD => main'[p] = main'[p - 2])
<1>1. landed[d] \subseteq 1..Len(main) /\ OnMain(d) /\ Len(main) \in Nat
  BY TreesOnMain DEF RevertInv, MainType
<1>2. \A p \in landed[d] : p >= 3 /\ main'[p] = main[p] /\ main'[p - 2] = main[p - 2]
  BY <1>1 DEF OnMain
<1> QED
  BY <1>1, <1>2 DEF OnMain

-----------------------------------------------------------------------------
LEMMA InitInv == Init => RevertInv
<1> SUFFICES ASSUME Init PROVE RevertInv
  OBVIOUS
<1> DEFINE N == Len(Start)
<1>1. Start \in Seq(Tree) /\ N \in Nat /\ N >= 2 /\ Start[1] \in Tree /\ MaxRetries \in Nat
  BY RevertAssumption
<1>2. ControlType
  BY <1>1 DEF Init, ControlType, Step, Result
<1>3. MainType /\ \A i \in 1..Len(main) : why[i] = 0
  <2>1. why = [i \in 1..N |-> 0] /\ main = Start /\ landed = [r \in Reverter |-> {}]
    BY DEF Init
  <2>2. why \in Seq(Nat) /\ Len(why) = N
    BY <1>1, <2>1
  <2> QED
    BY <1>1, <2>1, <2>2 DEF MainType
<1>4. CheckoutType
  BY <1>1 DEF Init, CheckoutType
<1>5. Reverts
  BY <1>3 DEF Reverts
<1>6. \A r \in Reverter : InCheckout(r) /\ OnMain(r)
  BY DEF Init, InCheckout, OnMain
<1> QED
  BY <1>2, <1>3, <1>4, <1>5, <1>6 DEF RevertInv

(* Steps of a call that put nothing on main. *)
LEMMA QuietInv ==
  ASSUME RevertInv, NEW r \in Reverter, UNCHANGED <<main, why, landed>>,
         ControlType', CheckoutType', InCheckout(r)',
         \A d \in Reverter \ {r} :
           pc'[d] = pc[d] /\ base'[d] = base[d] /\ tree'[d] = tree[d] /\ aim'[d] = aim[d]
  PROVE  RevertInv'
<1>1. MainType'
  BY DEF RevertInv, MainType
<1>2. Reverts'
  BY RevertsKept DEF RevertInv
<1>3. \A d \in Reverter \ {r} : InCheckout(d)' /\ OnMain(d)'
  BY OthersStay DEF RevertInv
<1>4. OnMain(r)'
  BY DEF RevertInv, OnMain
<1> QED
  BY <1>1, <1>2, <1>3, <1>4 DEF RevertInv

(* A call's commit lands: its parent is the base the call reverted on.     *)
LEMMA LandInv ==
  ASSUME RevertInv, NEW r \in Reverter, pc[r] = "push", FastForward(r), Land(r),
         ControlType', pc'[r] \in {"fetch", "done"},
         \A d \in Reverter \ {r} : pc'[d] = pc[d],
         UNCHANGED <<base, tree, aim, changed>>, faults' \in [Reverter -> Nat]
  PROVE  RevertInv'
<1> DEFINE n == Len(main)
<1>1. /\ MainType /\ CheckoutType /\ Reverts /\ InCheckout(r) /\ n \in Nat /\ n >= 2
      /\ base[r] = n
  BY TreesOnMain DEF RevertInv, FastForward
<1>2. aim[r] \in 2..n /\ aim[r] = Aim(r) /\ tree[r] = Undone(main, main[n], aim[r])
  BY <1>1 DEF InCheckout
<1>3. tree[r] \in Tree /\ aim[r] \in Nat
  BY <1>1, <1>2 DEF CheckoutType
<1>4. /\ main' \in Seq(Tree) /\ Len(main') = n + 1 /\ why' \in Seq(Nat) /\ Len(why') = Len(main')
      /\ \A i \in 1..n : main'[i] = main[i] /\ why'[i] = why[i]
      /\ main'[n + 1] = tree[r] /\ why'[n + 1] = aim[r]
  BY <1>1, <1>3, Grown DEF Land
<1>5. /\ landed' \in [Reverter -> SUBSET (1..Len(main'))] /\ landed'[r] = landed[r] \cup {n + 1}
      /\ \A d \in Reverter \ {r} : landed'[d] = landed[d]
  <2>1. landed' = [landed EXCEPT ![r] = @ \cup {n + 1}] /\ landed \in [Reverter -> SUBSET (1..n)]
    BY <1>1, <1>4 DEF Land, MainType
  <2>2. 1..n \subseteq 1..(n + 1) /\ n + 1 \in 1..(n + 1)
    BY <1>1
  <2>3. landed' \in [Reverter -> SUBSET (1..(n + 1))]
    BY <2>1, <2>2
  <2> QED
    BY <1>4, <2>1, <2>3
<1>6. MainType'
  BY <1>1, <1>4, <1>5 DEF MainType
<1>7. CheckoutType'
  <2>1. 1..n \subseteq 1..(n + 1) /\ 0..n \subseteq 0..(n + 1)
    BY <1>1
  <2> QED
    BY <1>1, <1>4, <2>1 DEF CheckoutType
<1>8. Reverts'
  BY <1>1, <1>2, <1>3, <1>4, RevertsStay
<1>9. \A d \in Reverter : InCheckout(d)'
  BY <1>4, StaysWhenGrown
<1>10. \A d \in Reverter \ {r} : OnMain(d)'
  BY <1>4, <1>5, LandedWhenGrown DEF OnMain
<1>11. OnMain(r)'
  <2>1. \A p \in landed[r] : p >= 3 /\ (Commit[r] = HEAD => main'[p] = main'[p - 2])
    BY <1>4, LandedWhenGrown
  <2>2. CASE Commit[r] = HEAD
    <3>1. tree[r] = main[n - 1]
      BY <1>1, <1>2, <2>2, UndoneTipIsParent DEF Aim
    <3>2. n - 1 \in 1..n /\ (n + 1) - 2 = n - 1 /\ n + 1 >= 3
      BY <1>1
    <3>3. main'[n - 1] = main[n - 1]
      BY <1>4, <3>2
    <3> QED
      BY <1>4, <1>5, <2>1, <3>1, <3>2, <3>3 DEF OnMain
  <2>3. CASE Commit[r] # HEAD
    BY <1>1, <1>5, <2>1, <2>3 DEF OnMain
  <2> QED
    BY <2>2, <2>3
<1> QED
  BY <1>6, <1>7, <1>8, <1>9, <1>10, <1>11 DEF RevertInv

LEMMA OtherDeployInv ==
  ASSUME RevertInv, OtherDeploy
  PROVE  RevertInv'
<1>1. /\ ControlType /\ CheckoutType /\ MainType /\ Reverts /\ Len(main) \in Nat /\ Len(main) >= 2
      /\ UNCHANGED <<pc, attempt, base, tree, aim, changed, result, landed, faults>>
      /\ why' = Append(why, 0)
  BY TreesOnMain DEF RevertInv, OtherDeploy, local
<1>q. PICK q \in Deploys : \E t \in Patches(Tip(main), q) : main' = Append(main, t)
  BY DEF OtherDeploy
<1>2. PICK t \in Patches(Tip(main), q) : main' = Append(main, t)
  BY <1>q
<1>3. t \in Tree
  <2>1. q \in RequestSet /\ Tip(main) \in Tree
    BY <1>1, TreesOnMain, RevertAssumption
  <2> QED
    BY <2>1, PatchIsTree
<1>4. /\ main' \in Seq(Tree) /\ Len(main') = Len(main) + 1
      /\ why' \in Seq(Nat) /\ Len(why') = Len(main')
      /\ \A i \in 1..Len(main) : main'[i] = main[i] /\ why'[i] = why[i]
      /\ main'[Len(main) + 1] = t /\ why'[Len(main) + 1] = 0
  BY <1>1, <1>2, <1>3, Grown
<1>5. 1..Len(main) \subseteq 1..Len(main') /\ 0..Len(main) \subseteq 0..Len(main')
  BY <1>1, <1>4
<1>6. MainType'
  BY <1>1, <1>4, <1>5 DEF MainType
<1>7. ControlType' /\ CheckoutType'
  BY <1>1, <1>5 DEF ControlType, CheckoutType
<1>8. Reverts'
  BY <1>1, <1>3, <1>4, RevertsStay
<1>9. \A d \in Reverter : InCheckout(d)' /\ OnMain(d)'
  BY <1>1, <1>4, StaysWhenGrown, LandedWhenGrown DEF OnMain
<1> QED
  BY <1>6, <1>7, <1>8, <1>9 DEF RevertInv

LEMMA StepInv == RevertInv /\ [Next]_vars => RevertInv'
<1> SUFFICES ASSUME RevertInv, [Next]_vars PROVE RevertInv'
  OBVIOUS
<1>t. /\ ControlType /\ CheckoutType /\ MainType
      /\ \A r \in Reverter : InCheckout(r) /\ OnMain(r)
  BY DEF RevertInv
<1>m. /\ Len(main) \in Nat /\ Len(main) >= 2 /\ Tip(main) = main[Len(main)]
      /\ \A i \in 1..Len(main) : main[i] \in Tree
  BY <1>t, TreesOnMain
<1>1. ASSUME NEW r \in Reverter, Call(r) PROVE RevertInv'
  <2>1. Goto(r, "clone") /\ "clone" \in Step
        /\ UNCHANGED <<main, attempt, base, tree, aim, changed, why, landed, faults>>
    BY <1>1 DEF Call, Step
  <2>2. /\ pc' \in [Reverter -> Step] /\ result' \in [Reverter -> Result] /\ pc'[r] = "clone"
        /\ \A d \in Reverter \ {r} : pc'[d] = pc[d]
    BY <1>t, <2>1, GotoFacts
  <2>3. ControlType' /\ CheckoutType' /\ InCheckout(r)'
    BY <1>t, <2>1, <2>2 DEF ControlType, CheckoutType, InCheckout
  <2> QED
    BY <2>1, <2>2, <2>3, QuietInv
<1>2. ASSUME NEW r \in Reverter, Clone(r) PROVE RevertInv'
  <2>1. /\ Goto(r, "revert") /\ "revert" \in Step /\ attempt' = [attempt EXCEPT ![r] = 1]
        /\ UNCHANGED <<main, aim, changed, why, landed, faults>>
    BY <1>2 DEF Clone, Step
  <2>2. PICK p \in 2..Len(main) : /\ base' = [base EXCEPT ![r] = p]
                                  /\ tree' = [tree EXCEPT ![r] = main[p]]
    BY <1>2 DEF Clone
  <2>3. /\ pc' \in [Reverter -> Step] /\ result' \in [Reverter -> Result] /\ pc'[r] = "revert"
        /\ \A d \in Reverter \ {r} : pc'[d] = pc[d]
    BY <1>t, <2>1, GotoFacts
  <2>4. /\ base' \in [Reverter -> 1..Len(main)] /\ tree' \in [Reverter -> Tree]
        /\ base'[r] = p /\ tree'[r] = main[p]
        /\ \A d \in Reverter \ {r} : base'[d] = base[d] /\ tree'[d] = tree[d]
    BY <1>t, <1>m, <2>2 DEF CheckoutType
  <2>5. ControlType'
    <3>1. 1 \in 0..MaxRetries
      BY RevertAssumption
    <3>2. attempt' \in [Reverter -> 0..MaxRetries]
      BY <1>t, <2>1, <3>1 DEF ControlType
    <3> QED
      BY <2>3, <3>2 DEF ControlType
  <2>6. CheckoutType' /\ InCheckout(r)'
    BY <1>t, <2>1, <2>3, <2>4 DEF CheckoutType, InCheckout
  <2> QED
    BY <2>1, <2>3, <2>4, <2>5, <2>6, QuietInv
<1>3. ASSUME NEW r \in Reverter, Revert(r) PROVE RevertInv'
  <2>1. /\ aim' = [aim EXCEPT ![r] = Aim(r)] /\ pc[r] = "revert"
        /\ UNCHANGED <<main, attempt, base, changed, why, landed, faults>>
    BY <1>3 DEF Revert, At
  <2>2. base[r] \in 2..Len(main) /\ tree[r] = main[base[r]] /\ tree[r] \in Tree
    BY <1>t, <1>m, <2>1 DEF InCheckout, CheckoutType
  <2>3. Aim(r) \in 2..Len(main)
    BY <1>t, <2>2, AimOnMain
  <2>4. CASE Return(r, "failed") /\ UNCHANGED tree
    <3>1. /\ pc' \in [Reverter -> Step] /\ result' \in [Reverter -> Result] /\ pc'[r] = "done"
          /\ \A d \in Reverter \ {r} : pc'[d] = pc[d]
      BY <1>t, <2>4, ReturnFacts DEF Result
    <3>2. aim' \in [Reverter -> 0..Len(main)] /\ \A d \in Reverter \ {r} : aim'[d] = aim[d]
      BY <1>m, <1>t, <2>1, <2>3 DEF CheckoutType
    <3>3. ControlType' /\ CheckoutType' /\ InCheckout(r)'
      BY <1>t, <2>1, <2>4, <3>1, <3>2 DEF ControlType, CheckoutType, InCheckout
    <3> QED
      BY <2>1, <2>4, <3>1, <3>2, <3>3, QuietInv
  <2>5. CASE /\ Aim(r) <= base[r] /\ Goto(r, "commit")
             /\ tree' = [tree EXCEPT ![r] = Undone(main, @, Aim(r))]
    <3>1. /\ pc' \in [Reverter -> Step] /\ result' \in [Reverter -> Result] /\ pc'[r] = "commit"
          /\ \A d \in Reverter \ {r} : pc'[d] = pc[d]
      BY <1>t, <2>5, GotoFacts DEF Step
    <3>2. Aim(r) \in 2..base[r] /\ Aim(r) \in 2..Len(main) /\ Aim(r)' = Aim(r)
      BY <1>m, <2>1, <2>2, <2>3, <2>5 DEF Aim
    <3>3. /\ aim' \in [Reverter -> 0..Len(main)] /\ aim'[r] = Aim(r)
          /\ \A d \in Reverter \ {r} : aim'[d] = aim[d]
      BY <1>t, <2>1, <3>2 DEF CheckoutType
    <3>4. /\ tree' \in [Reverter -> Tree] /\ tree'[r] = Undone(main, main[base[r]], Aim(r))
          /\ \A d \in Reverter \ {r} : tree'[d] = tree[d]
      <4>1. Undone(main, tree[r], Aim(r)) \in Tree
        BY <1>t, <2>2, <3>2, UndoneIsTree
      <4>2. tree' = [tree EXCEPT ![r] = Undone(main, tree[r], Aim(r))]
        BY <2>5
      <4> QED
        BY <1>t, <2>2, <4>1, <4>2 DEF CheckoutType
    <3>5. ControlType' /\ CheckoutType'
      BY <1>t, <2>1, <3>1, <3>3, <3>4 DEF ControlType, CheckoutType
    <3>6. InCheckout(r)'
      BY <2>1, <3>1, <3>2, <3>3, <3>4 DEF InCheckout
    <3> QED
      BY <2>1, <3>1, <3>3, <3>4, <3>5, <3>6, QuietInv
  <2>6. ~(Aim(r) > base[r]) => Aim(r) <= base[r]
    BY <1>m, <2>2, <2>3
  <2> QED
    BY <1>3, <2>4, <2>5, <2>6 DEF Revert
<1>4. ASSUME NEW r \in Reverter, CommitRevert(r) PROVE RevertInv'
  <2>1. /\ pc[r] = "commit" /\ UNCHANGED <<main, attempt, base, tree, aim, why, landed, faults>>
        /\ changed' \in [Reverter -> BOOLEAN]
        /\ Return(r, "failed") \/ Goto(r, "push")
    BY <1>4, <1>t DEF CommitRevert, At, CheckoutType
  <2>2. /\ pc' \in [Reverter -> Step] /\ result' \in [Reverter -> Result] /\ pc'[r] \in {"done", "push"}
        /\ \A d \in Reverter \ {r} : pc'[d] = pc[d]
    BY <1>t, <2>1, GotoFacts, ReturnFacts DEF Step, Result
  <2>3. ControlType' /\ CheckoutType'
    BY <1>t, <2>1, <2>2 DEF ControlType, CheckoutType
  <2>4. InCheckout(r)'
    BY <1>t, <2>1, <2>2 DEF InCheckout, Aim
  <2> QED
    BY <2>1, <2>2, <2>3, <2>4, QuietInv
<1>5. ASSUME NEW r \in Reverter, PushAcked(r) PROVE RevertInv'
  <2>1. /\ pc[r] = "push" /\ FastForward(r) /\ Land(r) /\ Return(r, "ok") /\ "ok" \in Result
        /\ UNCHANGED <<attempt, base, tree, aim, changed, faults>>
    BY <1>5 DEF PushAcked, At, Result
  <2>2. /\ ControlType' /\ pc'[r] = "done" /\ \A d \in Reverter \ {r} : pc'[d] = pc[d]
    BY <1>t, <2>1, ReturnFacts DEF ControlType
  <2>3. faults' \in [Reverter -> Nat]
    BY <1>t, <2>1 DEF CheckoutType
  <2> QED
    BY <2>1, <2>2, <2>3, LandInv
<1>6. ASSUME NEW r \in Reverter, PushRejected(r) \/ PushFault(r) PROVE RevertInv'
  <2>1. /\ pc[r] = "push" /\ Retry(r) /\ UNCHANGED <<base, tree, aim, changed>>
        /\ faults' \in [Reverter -> Nat]
        /\ (FastForward(r) /\ Land(r)) \/ UNCHANGED <<main, why, landed>>
    BY <1>6, <1>t DEF PushRejected, PushFault, At, CheckoutType
  <2>2. /\ ControlType' /\ pc'[r] \in {"fetch", "done"}
        /\ \A d \in Reverter \ {r} : pc'[d] = pc[d]
    BY <1>t, <2>1, RetryFacts
  <2>3. CASE FastForward(r) /\ Land(r)
    BY <2>1, <2>2, <2>3, LandInv
  <2>4. CASE UNCHANGED <<main, why, landed>>
    <3>1. CheckoutType' /\ InCheckout(r)'
      BY <1>t, <2>1, <2>2, <2>4 DEF CheckoutType, InCheckout
    <3> QED
      BY <2>1, <2>2, <2>4, <3>1, QuietInv
  <2> QED
    BY <2>1, <2>3, <2>4
<1>7. ASSUME NEW r \in Reverter, Fetch(r) PROVE RevertInv'
  <2>1. /\ base' = [base EXCEPT ![r] = Len(main)] /\ tree' = [tree EXCEPT ![r] = Tip(main)]
        /\ Goto(r, "revert") /\ "revert" \in Step
        /\ UNCHANGED <<main, attempt, aim, changed, why, landed, faults>>
    BY <1>7 DEF Fetch, Step
  <2>2. /\ pc' \in [Reverter -> Step] /\ result' \in [Reverter -> Result] /\ pc'[r] = "revert"
        /\ \A d \in Reverter \ {r} : pc'[d] = pc[d]
    BY <1>t, <2>1, GotoFacts
  <2>3. /\ base' \in [Reverter -> 1..Len(main)] /\ tree' \in [Reverter -> Tree]
        /\ base'[r] = Len(main) /\ tree'[r] = main[Len(main)]
        /\ \A d \in Reverter \ {r} : base'[d] = base[d] /\ tree'[d] = tree[d]
    BY <1>t, <1>m, <2>1 DEF CheckoutType
  <2>4. ControlType' /\ CheckoutType'
    BY <1>t, <2>1, <2>2, <2>3 DEF ControlType, CheckoutType
  <2>5. InCheckout(r)'
    BY <1>m, <2>1, <2>2, <2>3 DEF InCheckout
  <2> QED
    BY <2>1, <2>2, <2>3, <2>4, <2>5, QuietInv
<1>8. ASSUME NEW r \in Reverter, Fail(r) PROVE RevertInv'
  <2>1. /\ Return(r, "failed") /\ "failed" \in Result
        /\ UNCHANGED <<main, attempt, base, tree, aim, changed, why, landed, faults>>
    BY <1>8 DEF Fail, Result
  <2>2. /\ pc' \in [Reverter -> Step] /\ result' \in [Reverter -> Result] /\ pc'[r] = "done"
        /\ \A d \in Reverter \ {r} : pc'[d] = pc[d]
    BY <1>t, <2>1, ReturnFacts
  <2>3. ControlType' /\ CheckoutType' /\ InCheckout(r)'
    BY <1>t, <2>1, <2>2 DEF ControlType, CheckoutType, InCheckout
  <2> QED
    BY <2>1, <2>2, <2>3, QuietInv
<1>9. CASE UNCHANGED vars
  <2>1. UNCHANGED <<main, pc, attempt, base, tree, aim, changed, result, why, landed, faults>>
    BY <1>9 DEF vars, local
  <2>2. ControlType' /\ CheckoutType' /\ MainType'
    BY <1>t, <2>1 DEF ControlType, CheckoutType, MainType
  <2>3. Reverts' /\ \A d \in Reverter : InCheckout(d)' /\ OnMain(d)'
    BY <1>t, <2>1, OthersStay, RevertsKept DEF RevertInv
  <2> QED
    BY <2>2, <2>3 DEF RevertInv
<1> QED
  BY <1>1, <1>2, <1>3, <1>4, <1>5, <1>6, <1>7, <1>8, <1>9, OtherDeployInv DEF Next, Advance

-----------------------------------------------------------------------------
(* What a running call is about to push: a revert that nothing in its base *)
(* stands against, and no empty commit.                                    *)

Applied(r) ==
  /\ pc[r] # "done" => result[r] = "none"
  /\ pc[r] \in {"commit", "push"} => ~Conflicts(main, main[base[r]], aim[r])
  /\ pc[r] = "push" => tree[r] # main[base[r]]

AppliedInv == \A r \in Reverter : Applied(r)

(* A call that pins its commit: each commit it has landed took back        *)
(* something that its parent still held.                                   *)

Holds(t, r, c) == \E f \in Touched(main, Commit[r]) : t[f] = main[c][f]

PinnedLanding(r, p) ==
  /\ ~Holds(main[p], r, Commit[r])
  /\ Holds(main[p - 1], r, Commit[r])

PinnedInv ==
  \A r \in Reverter : Commit[r] # HEAD => \A p \in landed[r] : PinnedLanding(r, p)

(* A commit that took back what its target changed holds none of it, and   *)
(* its parent held some, or it would have been empty.                      *)
LEMMA EffectOfUndoing ==
  ASSUME MainType, NEW t \in Tree, NEW c \in 2..Len(main), ~Conflicts(main, t, c)
  PROVE  /\ \A f \in Touched(main, c) : Undone(main, t, c)[f] # main[c][f]
         /\ Undone(main, t, c) # t => \E f \in Touched(main, c) : t[f] = main[c][f]
<1> DEFINE u == Undone(main, t, c)
<1>1. t \in [Field -> Version \cup {Absent}] /\ Touched(main, c) \subseteq Field
  BY DEF Tree, Touched
<1>2. \A f \in Field : u[f] = IF f \in Touched(main, c) THEN main[c - 1][f] ELSE t[f]
  BY DEF Undone, Touched
<1>3. \A f \in Touched(main, c) : u[f] # main[c][f]
  BY <1>1, <1>2 DEF Touched
<1>4. ASSUME u # t PROVE \E f \in Touched(main, c) : t[f] = main[c][f]
  <2>1. PICK f \in Field : u[f] # t[f]
    BY <1>1, <1>4 DEF Undone, Touched
  <2>2. f \in Touched(main, c) /\ t[f] # main[c - 1][f]
    BY <1>2, <2>1
  <2> QED
    BY <2>2 DEF Conflicts
<1> QED
  BY <1>3, <1>4

(* Whatever happens, the commits on main stay as they are. *)
LEMMA MainGrows ==
  ASSUME RevertInv, [Next]_vars
  PROVE  Len(main') >= Len(main) /\ \A i \in 1..Len(main) : main'[i] = main[i]
<1>1. MainType /\ Len(main) \in Nat /\ \A r \in Reverter : tree[r] \in Tree
  BY TreesOnMain DEF RevertInv, CheckoutType
<1>2. ASSUME NEW r \in Reverter, Land(r)
      PROVE  Len(main') >= Len(main) /\ \A i \in 1..Len(main) : main'[i] = main[i]
  BY <1>1, <1>2, AppendFacts DEF Land, MainType
<1>3. CASE OtherDeploy
  <2>q. PICK q \in Deploys : \E t \in Patches(Tip(main), q) : main' = Append(main, t)
    BY <1>3 DEF OtherDeploy
  <2>1. PICK t \in Patches(Tip(main), q) : main' = Append(main, t)
    BY <2>q
  <2>2. t \in Tree
    <3>1. q \in RequestSet /\ Tip(main) \in Tree
      BY <1>1, TreesOnMain, RevertAssumption
    <3> QED
      BY <3>1, PatchIsTree
  <2> QED
    BY <1>1, <2>1, <2>2, AppendFacts DEF MainType
<1>4. ASSUME NEW r \in Reverter, Advance(r) PROVE Land(r) \/ main' = main
  BY <1>4 DEF Advance, Call, Clone, Revert, CommitRevert, PushAcked, PushRejected,
              PushFault, Fetch, Fail
<1>5. CASE UNCHANGED vars
  BY <1>1, <1>5 DEF vars
<1> QED
  BY <1>1, <1>2, <1>3, <1>4, <1>5 DEF Next

(* A call whose checkout stays, or that has nothing of its own to push.    *)
LEMMA AppliedStays ==
  ASSUME RevertInv, [Next]_vars, NEW r \in Reverter, Applied(r),
         \/ pc'[r] = "done"
         \/ pc[r] # "done" /\ result'[r] = result[r],
         \/ pc'[r] \notin {"commit", "push"}
         \/ pc'[r] = pc[r] /\ base'[r] = base[r] /\ tree'[r] = tree[r] /\ aim'[r] = aim[r]
  PROVE  Applied(r)'
<1>1. CASE pc'[r] \notin {"commit", "push"}
  BY <1>1 DEF Applied
<1>2. CASE /\ pc[r] \in {"commit", "push"}
           /\ pc'[r] = pc[r] /\ base'[r] = base[r] /\ tree'[r] = tree[r] /\ aim'[r] = aim[r]
  <2>1. base[r] \in 1..Len(main) /\ aim[r] \in 2..base[r] /\ Len(main) \in Nat
    BY <1>2, TreesOnMain DEF RevertInv, CheckoutType, InCheckout
  <2>2. /\ main'[base[r]] = main[base[r]] /\ main'[aim[r]] = main[aim[r]]
        /\ main'[aim[r] - 1] = main[aim[r] - 1]
    BY <2>1, MainGrows
  <2>3. Conflicts(main', main'[base[r]], aim[r]) = Conflicts(main, main[base[r]], aim[r])
    BY <2>2 DEF Conflicts, Touched
  <2> QED
    BY <1>2, <2>2, <2>3 DEF Applied
<1> QED
  BY <1>1, <1>2

LEMMA AppliedStep == RevertInv /\ AppliedInv /\ [Next]_vars => AppliedInv'
<1> SUFFICES ASSUME RevertInv, AppliedInv, [Next]_vars, NEW r \in Reverter
             PROVE  Applied(r)'
  BY DEF AppliedInv
<1>t. /\ ControlType /\ CheckoutType /\ MainType /\ InCheckout(r) /\ Applied(r)
      /\ pc \in [Reverter -> Step] /\ result \in [Reverter -> Result]
  BY DEF RevertInv, ControlType, AppliedInv
<1>1. ASSUME NEW d \in Reverter \ {r}, Advance(d)
      PROVE  /\ pc'[r] = pc[r] /\ base'[r] = base[r] /\ tree'[r] = tree[r] /\ aim'[r] = aim[r]
             /\ result'[r] = result[r]
  BY <1>1, <1>t DEF Advance, Call, Clone, Revert, CommitRevert, PushAcked, PushRejected, PushFault,
     Fetch, Fail, Goto, Return, Retry, ControlType, CheckoutType
<1>2. CASE Revert(r)
  <2>1. pc[r] = "revert" /\ base' = base /\ main' = main /\ tree[r] = main[base[r]]
    BY <1>2, <1>t DEF Revert, At, InCheckout
  <2>2. CASE Return(r, "failed")
    BY <1>t, <2>2 DEF Return, Applied
  <2>3. CASE ~Conflicts(main, tree[r], Aim(r)) /\ Goto(r, "commit")
    <3>1. aim'[r] = Aim(r) /\ pc'[r] = "commit" /\ result' = result
      BY <1>2, <1>t, <2>3 DEF Revert, Goto, CheckoutType
    <3>2. Conflicts(main, main[base[r]], aim[r])' = Conflicts(main, tree[r], Aim(r))
      BY <2>1, <3>1 DEF Conflicts, Touched
    <3> QED
      BY <1>t, <2>1, <2>3, <3>1, <3>2 DEF Applied
  <2> QED
    BY <1>2, <2>2, <2>3 DEF Revert
<1>3. CASE CommitRevert(r)
  <2>1. pc[r] = "commit" /\ UNCHANGED <<base, main, tree, aim>>
    BY <1>3 DEF CommitRevert, At
  <2>2. pc'[r] = "done" \/ (pc'[r] = "push" /\ result' = result /\ tree[r] # main[base[r]])
    BY <1>3, <1>t DEF CommitRevert, Return, Goto
  <2>3. Conflicts(main, main[base[r]], aim[r])' = Conflicts(main, main[base[r]], aim[r])
    BY <2>1 DEF Conflicts, Touched
  <2> QED
    BY <1>t, <2>1, <2>2, <2>3 DEF Applied
<1>4. CASE Call(r) \/ Clone(r) \/ Fetch(r) \/ Fail(r) \/ PushAcked(r) \/ PushRejected(r) \/ PushFault(r)
  <2>1. /\ pc'[r] \in {"clone", "revert", "fetch", "done"}
        /\ pc'[r] = "done" \/ (pc[r] # "done" /\ result'[r] = result[r])
    BY <1>4, <1>t DEF Call, Clone, Fetch, Fail, PushAcked, PushRejected, PushFault, Retry,
       At, Goto, Return
  <2> QED
    BY <1>t, <2>1, AppliedStays
<1>5. CASE OtherDeploy \/ UNCHANGED vars
  <2>1. UNCHANGED <<pc, base, tree, aim, result>>
    BY <1>5 DEF OtherDeploy, vars, local
  <2> QED
    BY <1>t, <2>1, AppliedStays DEF Applied
<1> QED
  BY <1>t, <1>1, <1>2, <1>3, <1>4, <1>5, AppliedStays DEF Next, Advance, Applied

(* Both together. *)
CallInv == RevertInv /\ AppliedInv

LEMMA CallInvariance == Spec => []CallInv
<1>1. Init => CallInv
  BY InitInv DEF Init, CallInv, AppliedInv, Applied
<1>2. CallInv /\ [Next]_vars => CallInv'
  BY StepInv, AppliedStep DEF CallInv
<1> QED
  BY <1>1, <1>2, PTL DEF Spec

(* What a pinned call and its target are to each other does not change.    *)
LEMMA TargetStays ==
  ASSUME RevertInv, [Next]_vars, NEW r \in Reverter, Commit[r] # HEAD
  PROVE  /\ Commit[r] \in 2..Len(main)
         /\ Touched(main, Commit[r])' = Touched(main, Commit[r])
         /\ \A i \in 1..Len(main) :
              /\ Conflicts(main, main[i], Commit[r])' = Conflicts(main, main[i], Commit[r])
              /\ Holds(main[i], r, Commit[r])' = Holds(main[i], r, Commit[r])
<1>1. Commit[r] \in 2..Len(main) /\ Len(main) \in Nat
  BY TreesOnMain, RevertAssumption DEF RevertInv, MainType
<1>2. main'[Commit[r]] = main[Commit[r]] /\ main'[Commit[r] - 1] = main[Commit[r] - 1]
  BY <1>1, MainGrows
<1>3. Touched(main, Commit[r])' = Touched(main, Commit[r])
  BY <1>2 DEF Touched
<1>4. ASSUME NEW i \in 1..Len(main)
      PROVE  /\ Conflicts(main, main[i], Commit[r])' = Conflicts(main, main[i], Commit[r])
             /\ Holds(main[i], r, Commit[r])' = Holds(main[i], r, Commit[r])
  <2>1. main'[i] = main[i]
    BY <1>4, MainGrows
  <2> QED
    BY <1>2, <1>3, <2>1 DEF Conflicts, Holds
<1> QED
  BY <1>1, <1>3, <1>4

LEMMA LandingsStay ==
  ASSUME RevertInv, [Next]_vars, NEW r \in Reverter, Commit[r] # HEAD,
         NEW p \in landed[r], PinnedLanding(r, p)
  PROVE  PinnedLanding(r, p)'
<1>1. p \in 1..Len(main) /\ p - 1 \in 1..Len(main)
  BY TreesOnMain DEF RevertInv, MainType, OnMain
<1> QED
  BY <1>1, TargetStays DEF PinnedLanding

(* The revert that a pinned call lands: it undoes its commit on the tip.   *)
LEMMA PinnedLands ==
  ASSUME RevertInv, AppliedInv, PinnedInv, [Next]_vars, NEW r \in Reverter, Commit[r] # HEAD,
         pc[r] = "push", FastForward(r), Land(r)
  PROVE  \A p \in landed'[r] : PinnedLanding(r, p)'
<1> DEFINE c == Commit[r]
<1>n. PICK n \in Nat : n = Len(main) /\ n >= 2
  BY TreesOnMain DEF RevertInv
<1>1. /\ MainType /\ CheckoutType /\ InCheckout(r) /\ base[r] = n /\ main[n] \in Tree
  BY <1>n, TreesOnMain DEF RevertInv, FastForward
<1>2. aim[r] = c /\ c \in 2..n /\ tree[r] = Undone(main, main[n], c)
  BY <1>n, <1>1, RevertAssumption DEF InCheckout, Aim
<1>3. ~Conflicts(main, main[n], c) /\ tree[r] # main[n]
  BY <1>1, <1>2 DEF AppliedInv, Applied
<1>4. /\ \A f \in Touched(main, c) : tree[r][f] # main[c][f]
      /\ Holds(main[n], r, c)
  BY <1>n, <1>1, <1>2, <1>3, EffectOfUndoing DEF Holds
<1>5. /\ main' = Append(main, tree[r]) /\ tree[r] \in Tree
      /\ main'[n + 1] = tree[r] /\ Len(main') = n + 1
      /\ \A i \in 1..n : main'[i] = main[i]
  BY <1>n, <1>1, AppendFacts DEF Land, CheckoutType, MainType
<1>6. landed'[r] = landed[r] \cup {n + 1}
  BY <1>n, <1>1, <1>5 DEF Land, MainType
<1>7. PinnedLanding(r, n + 1)'
  <2>1. ~Holds(main[n + 1], r, c)'
    <3>1. Touched(main, c)' = Touched(main, c) /\ main'[c] = main[c]
      BY <1>n, <1>1, <1>2, <1>5, TargetStays
    <3> QED
      BY <1>4, <1>5, <3>1 DEF Holds
  <2>2. Holds(main[n], r, c)'
    BY <1>n, <1>4, TargetStays
  <2>3. (n + 1) - 1 = n
    OBVIOUS
  <2> QED
    BY <2>1, <2>2, <2>3 DEF PinnedLanding
<1>8. \A p \in landed[r] : PinnedLanding(r, p)'
  BY LandingsStay DEF PinnedInv
<1> QED
  BY <1>6, <1>7, <1>8

LEMMA PinnedStep == RevertInv /\ AppliedInv /\ PinnedInv /\ [Next]_vars => PinnedInv'
<1> SUFFICES ASSUME RevertInv, AppliedInv, PinnedInv, [Next]_vars,
                    NEW r \in Reverter, Commit[r] # HEAD
             PROVE  \A p \in landed'[r] : PinnedLanding(r, p)'
  BY DEF PinnedInv
<1>1. \/ pc[r] = "push" /\ FastForward(r) /\ Land(r)
      \/ landed'[r] = landed[r]
  BY DEF RevertInv, MainType, Next, Advance, Call, Clone, Revert, CommitRevert, PushAcked,
     PushRejected, PushFault, Fetch, Fail, OtherDeploy, Land, At, vars
<1>2. CASE pc[r] = "push" /\ FastForward(r) /\ Land(r)
  BY <1>2, PinnedLands
<1>3. CASE landed'[r] = landed[r]
  BY <1>3, LandingsStay DEF PinnedInv
<1> QED
  BY <1>1, <1>2, <1>3

-----------------------------------------------------------------------------
(* Every variable of concurrent Revert calls keeps its type: the checkout  *)
(* is at a commit of main, and the attempts stay within MaxRetries.        *)
THEOREM TypeCorrect == Spec => []TypeOK
<1>1. RevertInv => TypeOK
  BY DEF RevertInv, ControlType, CheckoutType, MainType, TypeOK
<1> QED
  BY <1>1, InitInv, StepInv, PTL DEF Spec

(* A revert commit takes back exactly what its target changed, and names a *)
(* target that was on main before it.                                      *)
THEOREM RevertsAreExact == Spec => []RevertsExactlyItsTarget
<1>1. RevertInv => RevertsExactlyItsTarget
  <2> SUFFICES ASSUME RevertInv, NEW p \in 1..Len(main), why[p] # 0
               PROVE  why[p] < p /\ main[p] = Undone(main, main[p - 1], why[p])
    BY DEF RevertsExactlyItsTarget
  <2>1. why[p] \in 2..(p - 1) /\ main[p] = Undone(main, main[p - 1], why[p])
    BY DEF RevertInv, Reverts
  <2> QED
    BY <2>1
<1> QED
  BY <1>1, InitInv, StepInv, PTL DEF Spec

(* A revert of HEAD restores the tree before the commit it lands on, among *)
(* any deploys and reverts by others and after any retries.                *)
THEOREM HeadRevertIsUndo == Spec => []HeadRevertRestoresParent
<1>1. RevertInv => HeadRevertRestoresParent
  BY DEF RevertInv, OnMain, HeadRevertRestoresParent
<1> QED
  BY <1>1, InitInv, StepInv, PTL DEF Spec

(* A pinned call that lands a second commit does so only because somebody  *)
(* has reinstalled, since the first, what it had taken back: the parent of *)
(* each of its commits holds what its target installed, and the commit     *)
(* itself does not.                                                        *)
THEOREM RepeatsOnlyReinstalled == Spec => []PinnedRepeatsOnlyAfterReinstall
<1>1. RevertInv /\ PinnedInv => PinnedRepeatsOnlyAfterReinstall
  <2> SUFFICES ASSUME RevertInv, PinnedInv, NEW r \in Reverter, Commit[r] # HEAD,
                      NEW p \in landed[r], NEW q \in landed[r], p < q
               PROVE  \E i \in p + 1..q - 1 : \E f \in Touched(main, Commit[r]) :
                        main[i][f] = main[Commit[r]][f]
    BY DEF PinnedRepeatsOnlyAfterReinstall
  <2>1. p \in Nat /\ q \in Nat
    BY DEF RevertInv, MainType
  <2>2. Holds(main[q - 1], r, Commit[r]) /\ ~Holds(main[p], r, Commit[r])
    BY DEF PinnedInv, PinnedLanding
  <2>3. q - 1 # p
    BY <2>2
  <2>4. q - 1 \in p + 1..q - 1
    BY <2>1, <2>3
  <2> QED
    BY <2>2, <2>4 DEF Holds
<1>2. Init => PinnedInv
  BY DEF Init, PinnedInv
<1>3. CallInv /\ PinnedInv /\ [Next]_vars => PinnedInv'
  BY PinnedStep DEF CallInv
<1>4. CallInv => RevertInv
  BY DEF CallInv
<1> QED
  BY <1>1, <1>2, <1>3, <1>4, CallInvariance, PTL DEF Spec

-----------------------------------------------------------------------------
(* The refinement: seen from main, concurrent calls are atomic reverts of  *)
(* its tip. What a call does to its clone is a stutter, a push that lands  *)
(* undoes, every error return refuses.                                     *)

Outcome == [r \in Reverter |-> Told(r)]

LEMMA OutcomeKept ==
  ASSUME UNCHANGED result
  PROVE  Outcome' = Outcome
  BY DEF Outcome, Told

LEMMA OutcomeReturned ==
  ASSUME ControlType, NEW r \in Reverter, NEW how \in Result, how # "none", Return(r, how)
  PROVE  Outcome' = [Outcome EXCEPT ![r] = IF how = "ok" THEN "ok" ELSE "error"]
<1>1. result' = [result EXCEPT ![r] = how] /\ result \in [Reverter -> Result]
  BY Zenon DEF Return, ControlType
<1>2. \A e \in Reverter : Told(e)' = IF e = r THEN IF how = "ok" THEN "ok" ELSE "error"
                                     ELSE Told(e)
  BY <1>1 DEF Told
<1> QED
  BY <1>2 DEF Outcome

LEMMA RetryOutcome ==
  ASSUME ControlType, NEW r \in Reverter, Retry(r)
  PROVE  \/ Outcome' = Outcome
         \/ Outcome' = [Outcome EXCEPT ![r] = "error"]
<1>1. CASE attempt[r] < MaxRetries
  <2>1. UNCHANGED result
    BY <1>1 DEF Retry, Goto
  <2> QED
    BY <2>1, OutcomeKept
<1>2. CASE ~(attempt[r] < MaxRetries)
  <2>1. Return(r, "exhausted") /\ "exhausted" \in Result
    BY <1>2 DEF Retry, Result
  <2> QED
    BY <2>1, OutcomeReturned
<1> QED
  BY <1>1, <1>2

LEMMA Running ==
  ASSUME CallInv, NEW r \in Reverter, pc[r] # "done"
  PROVE  Outcome[r] = "none"
  BY DEF CallInv, AppliedInv, Applied, Outcome, Told

LEMMA Refusal ==
  ASSUME CallInv, NEW r \in Reverter, pc[r] # "done", UNCHANGED main,
         Outcome' = [Outcome EXCEPT ![r] = "error"]
  PROVE  Atomic!Refuse(r)
  BY Running, Zenon DEF Atomic!Refuse, Outcome

(* What a push lands is the target undone in the tip it lands on, which    *)
(* for HEAD is the tip itself.                                             *)
LEMMA Undoing ==
  ASSUME CallInv, NEW r \in Reverter, pc[r] = "push", FastForward(r),
         main' = Append(main, tree[r]),
         \E o \in {"none", "ok", "error"} : Outcome' = [Outcome EXCEPT ![r] = o]
  PROVE  Atomic!Undo(r)
<1>1. Outcome[r] = "none"
  BY Running
<1>2. main[base[r]] = Tip(main) /\ base[r] = Len(main)
  BY DEF FastForward, Tip
<1>3. /\ ~Conflicts(main, Tip(main), aim[r])
      /\ tree[r] = Undone(main, Tip(main), aim[r])
      /\ tree[r] # Tip(main)
      /\ aim[r] = Aim(r)
  BY <1>2 DEF CallInv, RevertInv, InCheckout, AppliedInv, Applied
<1>4. Atomic!Target(r) = aim[r]
  BY <1>2, <1>3, Zenon DEF Atomic!Target, Atomic!HEAD, Aim, HEAD
<1>5. /\ ~Atomic!Conflicts(main, Atomic!Tip(main), aim[r])
      /\ Atomic!Undone(main, Atomic!Tip(main), aim[r]) = tree[r]
      /\ tree[r] # Atomic!Tip(main)
  BY <1>3, Zenon DEF Tip, Atomic!Tip, Touched, Atomic!Touched, Conflicts, Atomic!Conflicts,
     Undone, Atomic!Undone, Field, Atomic!Field
<1> QED
  BY <1>1, <1>4, <1>5, Zenon DEF Atomic!Undo, Outcome

(* Each step of a call is a step of GitopsUndo, or none at all. *)
LEMMA StepRefines ==
  ASSUME CallInv, NEW r \in Reverter, Advance(r)
  PROVE  Atomic!Undo(r) \/ Atomic!Refuse(r) \/ UNCHANGED <<main, Outcome>>
<1> USE DEF At
<1>0. ControlType /\ "failed" \in Result /\ "ok" \in Result
  BY DEF CallInv, RevertInv, Result
<1>1. CASE Call(r) \/ Clone(r) \/ Fetch(r)
  <2>1. UNCHANGED <<main, result>>
    BY <1>1 DEF Call, Clone, Fetch, Goto
  <2> QED
    BY <2>1, OutcomeKept
<1>2. CASE Revert(r) \/ CommitRevert(r) \/ Fail(r)
  <2>1. /\ pc[r] # "done" /\ UNCHANGED main
        /\ Return(r, "failed") \/ UNCHANGED result
    BY <1>2 DEF Revert, CommitRevert, Fail, Goto
  <2> QED
    BY <1>0, <2>1, OutcomeKept, OutcomeReturned, Refusal
<1>3. CASE PushAcked(r)
  <2>1. pc[r] = "push" /\ FastForward(r) /\ main' = Append(main, tree[r]) /\ Return(r, "ok")
    BY <1>3, Zenon DEF PushAcked, Land
  <2>2. Outcome' = [Outcome EXCEPT ![r] = "ok"]
    BY <1>0, <2>1, OutcomeReturned
  <2> QED
    BY <2>1, <2>2, Undoing
<1>4. CASE PushRejected(r) \/ PushFault(r)
  <2>1. /\ pc[r] = "push" /\ Retry(r)
        /\ (FastForward(r) /\ main' = Append(main, tree[r])) \/ UNCHANGED main
    BY <1>4, Zenon DEF PushRejected, PushFault, Land
  <2>2. Outcome[r] = "none"
    BY <2>1, Running
  <2>3. Outcome' = Outcome \/ Outcome' = [Outcome EXCEPT ![r] = "error"]
    BY <1>0, <2>1, RetryOutcome
  <2>4. CASE FastForward(r) /\ main' = Append(main, tree[r])
    <3>1. Outcome' = [Outcome EXCEPT ![r] = "none"] \/ Outcome' = [Outcome EXCEPT ![r] = "error"]
      BY <2>2, <2>3 DEF Outcome
    <3> QED
      BY <2>1, <2>4, <3>1, Undoing
  <2>5. CASE UNCHANGED main
    BY <2>1, <2>3, <2>5, Refusal
  <2> QED
    BY <2>1, <2>4, <2>5
<1> QED
  BY <1>1, <1>2, <1>3, <1>4 DEF Advance

(* Every commit of a call is its target undone in the tip it lands on, no  *)
(* empty commit and over no conflict, and a success has landed one: Revert *)
(* implements the atomic reverts of GitopsUndo.                            *)
THEOREM Refinement == Spec => RefinesGitopsUndo
<1>1. Init => Atomic!Init
  <2> SUFFICES ASSUME Init PROVE Atomic!Init
    OBVIOUS
  <2>1. main = Start /\ \A r \in Reverter : Told(r) = "none"
    BY DEF Init, Told
  <2> QED
    BY <2>1 DEF Atomic!Init
<1>2. CallInv /\ [Next]_vars => [Atomic!Next]_(Atomic!vars)
  <2> SUFFICES ASSUME CallInv, [Next]_vars
               PROVE  Atomic!Next \/ UNCHANGED <<main, Outcome>>
    BY Zenon DEF Atomic!vars, Outcome
  <2>1. ASSUME NEW r \in Reverter, Advance(r)
        PROVE  Atomic!Next \/ UNCHANGED <<main, Outcome>>
    BY <2>1, StepRefines, Zenon DEF Atomic!Next
  <2>2. CASE OtherDeploy
    <3>1. PICK q \in Deploys :
            /\ Patchable(Tip(main), q)
            /\ \E t \in Patches(Tip(main), q) \ {Tip(main)} : main' = Append(main, t)
      BY <2>2 DEF OtherDeploy
    <3>2. /\ Atomic!Patchable(Atomic!Tip(main), q)
          /\ \E t \in Atomic!Patches(Atomic!Tip(main), q) \ {Atomic!Tip(main)} :
               main' = Append(main, t)
      BY <3>1, Zenon DEF Patchable, Atomic!Patchable, Tip, Atomic!Tip, Patches,
         Atomic!Patches, Write, Atomic!Write, Field, Atomic!Field
    <3>3. Outcome' = Outcome
      BY <2>2, OutcomeKept, Zenon DEF OtherDeploy, local
    <3>4. Atomic!Install
      BY <3>2, <3>3, Zenon DEF Atomic!Install, Outcome
    <3> QED
      BY <3>4, Zenon DEF Atomic!Next
  <2>3. CASE UNCHANGED vars
    BY <2>3, OutcomeKept DEF vars, local
  <2> QED
    BY <2>1, <2>2, <2>3 DEF Next
<1> QED
  BY <1>1, <1>2, CallInvariance, PTL DEF Spec, RefinesGitopsUndo, Atomic!Spec

-----------------------------------------------------------------------------
(* When HEAD is a deploy. Main begins with deploys, a revert on main is    *)
(* some call's, and that of a pinned call has reverted what it pins.       *)

CausesInv ==
  /\ \A i \in 1..Len(Start) : why[i] = 0
  /\ \A p \in 1..Len(main) : why[p] # 0 => \E r \in Reverter : p \in landed[r]
  /\ \A r \in Reverter : Commit[r] # HEAD => \A p \in landed[r] : why[p] = Commit[r]

(* A step puts one commit on main, a call's or somebody's deploy, or none. *)
LEMMA StepOnMain ==
  ASSUME RevertInv, [Next]_vars
  PROVE  \/ UNCHANGED <<main, why, landed>>
         \/ /\ Len(main') = Len(main) + 1 /\ why'[Len(main) + 1] = 0 /\ landed' = landed
            /\ \A i \in 1..Len(main) : why'[i] = why[i]
         \/ \E r \in Reverter :
              /\ pc[r] = "push" /\ (PushAcked(r) \/ PushFault(r))
              /\ Len(main') = Len(main) + 1 /\ why'[Len(main) + 1] = Aim(r)
              /\ landed' = [landed EXCEPT ![r] = @ \cup {Len(main) + 1}]
              /\ \A i \in 1..Len(main) : why'[i] = why[i]
<1>1. /\ MainType /\ Len(main) \in Nat /\ main \in Seq(Tree) /\ why \in Seq(Nat)
      /\ Len(why) = Len(main)
  BY TreesOnMain DEF RevertInv, MainType
<1>2. CASE OtherDeploy
  BY <1>1, <1>2 DEF OtherDeploy
<1>3. ASSUME NEW r \in Reverter, Land(r), pc[r] = "push", PushAcked(r) \/ PushFault(r)
      PROVE  /\ Len(main') = Len(main) + 1 /\ why'[Len(main) + 1] = Aim(r)
             /\ landed' = [landed EXCEPT ![r] = @ \cup {Len(main) + 1}]
             /\ \A i \in 1..Len(main) : why'[i] = why[i]
  <2>1. tree[r] \in Tree /\ aim[r] \in Nat /\ aim[r] = Aim(r)
    BY <1>1, <1>3 DEF RevertInv, CheckoutType, InCheckout
  <2> QED
    BY <1>1, <1>3, <2>1, Grown DEF Land
<1>4. ASSUME NEW r \in Reverter, Advance(r)
      PROVE  \/ UNCHANGED <<main, why, landed>>
             \/ pc[r] = "push" /\ Land(r) /\ (PushAcked(r) \/ PushFault(r))
  BY <1>4 DEF Advance, Call, Clone, Revert, CommitRevert, PushAcked, PushRejected, PushFault,
     Fetch, Fail, At
<1>5. CASE UNCHANGED vars
  BY <1>5 DEF vars
<1> QED
  BY <1>2, <1>3, <1>4, <1>5 DEF Next

LEMMA CausesStep == RevertInv /\ CausesInv /\ [Next]_vars => CausesInv'
<1> SUFFICES ASSUME RevertInv, CausesInv, [Next]_vars PROVE CausesInv'
  OBVIOUS
<1>1. /\ Len(main) \in Nat /\ Len(main) >= Len(Start) /\ Len(Start) \in Nat
      /\ landed \in [Reverter -> SUBSET (1..Len(main))]
  BY TreesOnMain, RevertAssumption DEF RevertInv, MainType
<1>2. CASE UNCHANGED <<main, why, landed>>
  BY <1>2 DEF CausesInv
<1>3. CASE /\ Len(main') = Len(main) + 1 /\ why'[Len(main) + 1] = 0 /\ landed' = landed
           /\ \A i \in 1..Len(main) : why'[i] = why[i]
  BY <1>1, <1>3 DEF CausesInv
<1>4. ASSUME NEW r \in Reverter,
             Len(main') = Len(main) + 1, why'[Len(main) + 1] = Aim(r),
             landed' = [landed EXCEPT ![r] = @ \cup {Len(main) + 1}],
             \A i \in 1..Len(main) : why'[i] = why[i]
      PROVE  CausesInv'
  <2>1. /\ landed'[r] = landed[r] \cup {Len(main) + 1}
        /\ \A d \in Reverter \ {r} : landed'[d] = landed[d]
    BY <1>1, <1>4
  <2>2. \A i \in 1..Len(Start) : why'[i] = 0
    BY <1>1, <1>4 DEF CausesInv
  <2>3. \A p \in 1..Len(main') : why'[p] # 0 => \E d \in Reverter : p \in landed'[d]
    <3> SUFFICES ASSUME NEW p \in 1..Len(main'), why'[p] # 0
                 PROVE  \E d \in Reverter : p \in landed'[d]
      OBVIOUS
    <3>1. CASE p = Len(main) + 1
      BY <2>1, <3>1
    <3>2. CASE p \in 1..Len(main)
      <4>1. PICK d \in Reverter : p \in landed[d]
        BY <1>4, <3>2 DEF CausesInv
      <4> QED
        BY <2>1, <4>1
    <3> QED
      BY <1>1, <1>4, <3>1, <3>2
  <2>4. \A d \in Reverter : Commit[d] # HEAD => \A p \in landed'[d] : why'[p] = Commit[d]
    BY <1>1, <1>4, <2>1 DEF CausesInv, Aim
  <2> QED
    BY <2>2, <2>3, <2>4 DEF CausesInv
<1> QED
  BY <1>2, <1>3, <1>4, StepOnMain

LEMMA CausesInit == Init => CausesInv
  BY RevertAssumption DEF Init, CausesInv

(* Callers that pin the commit they revert, among those on main when the   *)
(* calls begin, never revert a revert, whatever they overlap with.         *)
THEOREM PinnedCallsRevertDeploys ==
  ASSUME \A r \in Reverter : Commit[r] # HEAD
  PROVE  Spec => []HeadIsADeploy
<1>1. RevertInv /\ CausesInv => HeadIsADeploy
  <2> SUFFICES ASSUME CausesInv, NEW p \in 1..Len(main), why[p] # 0
               PROVE  why[why[p]] = 0
    BY DEF HeadIsADeploy
  <2>1. PICK r \in Reverter : p \in landed[r]
    BY DEF CausesInv
  <2>2. why[p] = Commit[r] /\ Commit[r] \in 2..Len(Start)
    BY <2>1, RevertAssumption DEF CausesInv
  <2> QED
    BY <2>2, RevertAssumption DEF CausesInv
<1> QED
  BY <1>1, InitInv, StepInv, CausesInit, CausesStep, PTL DEF Spec

(* A single call whose pushes are all answered reverts a deploy, also when *)
(* it asks for HEAD: each of the two ways in which HEAD is somebody's      *)
(* revert needs a second call, or a push that landed unheard.              *)
THEOREM LoneCallRevertsADeploy ==
  ASSUME \A r, s \in Reverter : r = s, MaxFaults = 0
  PROVE  Spec => []HeadIsADeploy
<1> DEFINE OneCommit == \A r \in Reverter : pc[r] # "done" => landed[r] = {}
<1>1. Init => OneCommit /\ HeadIsADeploy
  BY RevertAssumption DEF Init, HeadIsADeploy
<1>2. RevertInv /\ CausesInv /\ OneCommit /\ HeadIsADeploy /\ [Next]_vars
        => OneCommit' /\ HeadIsADeploy'
  <2> SUFFICES ASSUME RevertInv, CausesInv, OneCommit, HeadIsADeploy, [Next]_vars
               PROVE  OneCommit' /\ HeadIsADeploy'
    OBVIOUS
  <2>1. /\ Len(main) \in Nat /\ pc \in [Reverter -> Step]
        /\ landed \in [Reverter -> SUBSET (1..Len(main))]
        /\ \A p \in 1..Len(main) : why[p] # 0 => why[p] \in 1..Len(main)
    <3>1. \A p \in 1..Len(main) : why[p] # 0 => why[p] \in 2..(p - 1)
      BY DEF RevertInv, Reverts
    <3> QED
      BY <3>1, TreesOnMain DEF RevertInv, ControlType, MainType
  <2>2. \A r \in Reverter : pc[r] = "done" => pc'[r] = "done"
    BY <2>1 DEF Next, Advance, Call, Clone, Revert, CommitRevert, PushAcked, PushRejected,
       PushFault, Fetch, Fail, OtherDeploy, At, vars, local
  <2>3. CASE UNCHANGED <<main, why, landed>>
    BY <2>2, <2>3 DEF HeadIsADeploy
  <2>4. CASE /\ Len(main') = Len(main) + 1 /\ why'[Len(main) + 1] = 0 /\ landed' = landed
             /\ \A i \in 1..Len(main) : why'[i] = why[i]
    <3>1. \A p \in 1..Len(main') : why'[p] # 0 => p \in 1..Len(main) /\ why'[p] = why[p]
      BY <2>1, <2>4
    <3> QED
      BY <2>1, <2>2, <2>4, <3>1 DEF HeadIsADeploy
  <2>5. ASSUME NEW r \in Reverter, pc[r] = "push", PushAcked(r) \/ PushFault(r),
               Len(main') = Len(main) + 1, why'[Len(main) + 1] = Aim(r),
               landed' = [landed EXCEPT ![r] = @ \cup {Len(main) + 1}],
               \A i \in 1..Len(main) : why'[i] = why[i]
        PROVE  OneCommit' /\ HeadIsADeploy'
    <3>1. pc'[r] = "done"
      <4>1. faults[r] \in Nat
        BY DEF RevertInv, CheckoutType
      <4> QED
        BY <2>1, <2>5, <4>1 DEF PushAcked, PushFault, FaultsLeft, Return
    <3>2. \A p \in 1..Len(main) : why'[p] = 0
      BY <2>5 DEF CausesInv
    <3>3. Aim(r) \in 1..Len(main)
      BY <2>1, <2>5 DEF RevertInv, CheckoutType, InCheckout
    <3>4. \A p \in 1..Len(main') : why'[p] # 0 => why'[why'[p]] = 0
      BY <2>1, <2>5, <3>2, <3>3
    <3> QED
      BY <3>1, <3>4 DEF HeadIsADeploy
  <2> QED
    BY <2>3, <2>4, <2>5, StepOnMain
<1> QED
  BY <1>1, <1>2, InitInv, StepInv, CausesInit, CausesStep, PTL DEF Spec

-----------------------------------------------------------------------------
(* The steps a call has left: three in each round of revert, commit and    *)
(* push, and a fetch before the next round.                                *)

Ahead ==
  [idle |-> 1, clone |-> 0, fetch |-> 4, revert |-> 3, commit |-> 2, push |-> 1]

Rounds(r) ==
  IF pc[r] \in {"idle", "clone"} THEN MaxRetries ELSE MaxRetries - attempt[r]

StepsLeft(r) == IF pc[r] = "done" THEN 0 ELSE 4 * Rounds(r) + Ahead[pc[r]]

(* A call has at most 4 * MaxRetries + 1 of them before it, and none only  *)
(* when it has returned.                                                   *)
Countdown ==
  \A r \in Reverter :
    /\ StepsLeft(r) \in Nat
    /\ pc[r] = "idle" => StepsLeft(r) = 4 * MaxRetries + 1
    /\ StepsLeft(r) = 0 => pc[r] = "done"

(* A step of one call, which comes nearer its end. *)
Nearer(r) ==
  /\ StepsLeft(r)' < StepsLeft(r)
  /\ \A e \in Reverter \ {r} : StepsLeft(e)' = StepsLeft(e)

LEMMA CountdownFacts == ControlType => Countdown
<1> SUFFICES ASSUME ControlType, NEW r \in Reverter
             PROVE  /\ StepsLeft(r) \in Nat
                    /\ pc[r] = "idle" => StepsLeft(r) = 4 * MaxRetries + 1
                    /\ StepsLeft(r) = 0 => pc[r] = "done"
  BY DEF Countdown
<1>1. pc[r] \in Step /\ attempt[r] \in 0..MaxRetries /\ MaxRetries \in Nat /\ MaxRetries >= 1
  BY RevertAssumption DEF ControlType
<1>2. CASE pc[r] \in {"idle", "clone"}
  <2>1. Ahead[pc[r]] \in 0..1 /\ Rounds(r) = MaxRetries /\ (pc[r] = "idle" => Ahead[pc[r]] = 1)
    BY <1>2 DEF Ahead, Rounds
  <2> QED
    BY <1>1, <1>2, <2>1 DEF StepsLeft
<1>3. CASE pc[r] \in {"fetch", "revert", "commit", "push"}
  <2>1. Ahead[pc[r]] \in 1..4 /\ Rounds(r) = MaxRetries - attempt[r] /\ pc[r] # "idle"
    BY <1>3 DEF Ahead, Rounds
  <2>2. Rounds(r) \in Nat
    BY <1>1, <2>1
  <2> QED
    BY <1>3, <2>1, <2>2 DEF StepsLeft
<1>4. CASE pc[r] = "done"
  BY <1>4 DEF StepsLeft
<1> QED
  BY <1>1, <1>2, <1>3, <1>4 DEF Step

(* Where a step of a call leads, and what it does to the attempts.         *)
LEMMA StepGoes ==
  ASSUME ControlType, NEW r \in Reverter, Advance(r)
  PROVE  \/ /\ <<pc[r], pc'[r]>> \in {<<"idle", "clone">>, <<"revert", "commit">>,
                 <<"commit", "push">>, <<"fetch", "revert">>}
            /\ attempt'[r] = attempt[r]
         \/ pc[r] = "clone" /\ pc'[r] = "revert" /\ attempt'[r] = 1
         \/ pc[r] = "push" /\ pc'[r] = "fetch" /\ attempt'[r] = attempt[r] + 1
         \/ pc[r] # "done" /\ pc'[r] = "done"
<1>1. pc \in [Reverter -> Step] /\ attempt \in [Reverter -> 0..MaxRetries]
  BY DEF ControlType
<1>2. CASE Call(r) \/ Clone(r) \/ Revert(r) \/ CommitRevert(r) \/ Fetch(r) \/ Fail(r)
  BY <1>1, <1>2 DEF Call, Clone, Revert, CommitRevert, Fetch, Fail, At, Goto, Return
<1>3. CASE PushAcked(r) \/ PushRejected(r) \/ PushFault(r)
  BY <1>1, <1>3 DEF PushAcked, PushRejected, PushFault, Retry, At, Goto, Return
<1> QED
  BY <1>2, <1>3 DEF Advance

LEMMA NearerStep ==
  ASSUME ControlType, ControlType', NEW r \in Reverter, Advance(r)
  PROVE  Nearer(r)
<1>1. /\ attempt[r] \in 0..MaxRetries /\ attempt'[r] \in 0..MaxRetries
      /\ MaxRetries \in Nat /\ MaxRetries >= 1
  BY RevertAssumption DEF ControlType
<1>2. StepsLeft(r)' < StepsLeft(r)
  <2> DEFINE left == StepsLeft(r)
             next == StepsLeft(r)'
  <2>1. CASE <<pc[r], pc'[r]>> = <<"idle", "clone">>
    BY <1>1, <2>1 DEF StepsLeft, Rounds, Ahead
  <2>2. CASE /\ <<pc[r], pc'[r]>> \in {<<"revert", "commit">>, <<"commit", "push">>, <<"fetch", "revert">>}
             /\ attempt'[r] = attempt[r]
    BY <1>1, <2>2 DEF StepsLeft, Rounds, Ahead
  <2>3. CASE pc[r] = "clone" /\ pc'[r] = "revert" /\ attempt'[r] = 1
    <3>1. left = 4 * MaxRetries /\ next = 4 * (MaxRetries - 1) + 3
      BY <1>1, <2>3 DEF StepsLeft, Rounds, Ahead
    <3> QED
      BY <1>1, <3>1
  <2>4. CASE pc[r] = "push" /\ pc'[r] = "fetch" /\ attempt'[r] = attempt[r] + 1
    <3>1. left = 4 * (MaxRetries - attempt[r]) + 1 /\ next = 4 * (MaxRetries - (attempt[r] + 1)) + 4
      BY <1>1, <2>4 DEF StepsLeft, Rounds, Ahead
    <3> QED
      BY <1>1, <3>1
  <2>5. CASE pc[r] # "done" /\ pc'[r] = "done"
    BY <2>5, CountdownFacts DEF Countdown, StepsLeft
  <2> QED
    BY <2>1, <2>2, <2>3, <2>4, <2>5, StepGoes
<1>3. \A e \in Reverter \ {r} : pc'[e] = pc[e] /\ attempt'[e] = attempt[e]
  BY DEF ControlType, Advance, Call, Clone, Revert, CommitRevert, PushAcked, PushRejected,
     PushFault, Fetch, Fail, Retry, Goto, Return
<1>4. \A e \in Reverter \ {r} : StepsLeft(e)' = StepsLeft(e)
  BY <1>3 DEF StepsLeft, Rounds
<1> QED
  BY <1>2, <1>4 DEF Nearer

(* No call goes round forever: each of its steps leaves it fewer to take,  *)
(* whatever beats its pushes, so that it returns within 4 * MaxRetries + 1 *)
(* steps of its own if only it is scheduled. Other calls cannot set it     *)
(* back.                                                                   *)
THEOREM CallsAreBounded ==
  Spec => []Countdown /\ [][OtherDeploy \/ \E r \in Reverter : Nearer(r)]_vars
<1>1. ControlType /\ ControlType' /\ [Next]_vars => [OtherDeploy \/ \E r \in Reverter : Nearer(r)]_vars
  BY NearerStep DEF Next
<1>2. RevertInv => ControlType
  BY DEF RevertInv
<1> QED
  BY <1>1, <1>2, CountdownFacts, InitInv, StepInv, PTL DEF Spec
=============================================================================

------------------------- MODULE GitopsDeploy_proofs -------------------------
(***************************************************************************)
(* Theorems about concurrent calls of gitops.Deploy, for any number of     *)
(* calls, images, versions, retries and faults.                            *)
(***************************************************************************)
EXTENDS GitopsDeploy, TLAPS

-----------------------------------------------------------------------------
(* Facts about trees and about the growth of main. *)

LEMMA PatchFacts ==
  ASSUME NEW t \in Tree, NEW r \in RequestSet, NEW p \in Patches(t, r)
  PROVE  p \in Tree /\ Carries(p, r)
<1>1. PICK ks \in SUBSET {k \in r.keys : t[k] # Absent} : p = Write(t, r.images \cup ks, r.tag)
  BY DEF Patches
<1> QED
  BY <1>1 DEF Tree, Field, RequestSet, Write, Carries

(* What a patch sets that was not set before is an image, or a key that an *)
(* earlier patch may have left out.                                        *)
LEMMA PatchSets ==
  ASSUME NEW t \in Tree, NEW r \in RequestSet, NEW p \in Patches(t, r), p # t
  PROVE  \E f \in Field : /\ p[f] = r.tag /\ t[f] # r.tag
                          /\ f \in r.images \/ f \in Key
<1>1. PICK ks \in SUBSET {k \in r.keys : t[k] # Absent} : p = Write(t, r.images \cup ks, r.tag)
  BY DEF Patches
<1>2. p = [f \in Field |-> IF f \in r.images \cup ks THEN r.tag ELSE t[f]]
  BY <1>1 DEF Write
<1>3. PICK f \in Field : p[f] # t[f]
  <2>1. t = [f \in Field |-> t[f]]
    BY DEF Tree
  <2>2. ASSUME \A f \in Field : p[f] = t[f] PROVE FALSE
    <3>1. p = [f \in Field |-> p[f]]
      BY <1>2
    <3> QED
      BY <2>1, <2>2, <3>1
  <2> QED
    BY <2>2
<1>4. f \in r.images \cup ks /\ p[f] = r.tag
  BY <1>2, <1>3
<1>5. f \in r.images \/ f \in Key
  BY <1>4 DEF RequestSet
<1> QED
  BY <1>3, <1>4, <1>5

LEMMA RewrittenIsTree ==
  ASSUME NEW t \in Tree, NEW f \in Field, NEW v \in Version \cup {Absent}
  PROVE  [t EXCEPT ![f] = v] \in Tree
  BY DEF Tree

LEMMA AppendFacts ==
  ASSUME NEW S, NEW m \in Seq(S), NEW t \in S
  PROVE  /\ Append(m, t) \in Seq(S)
         /\ Len(Append(m, t)) = Len(m) + 1
         /\ \A i \in 1..Len(m) : Append(m, t)[i] = m[i]
         /\ Append(m, t)[Len(m) + 1] = t
  OBVIOUS

LEMMA TipIsTree ==
  ASSUME NEW m \in Seq(Tree), Len(m) >= 1
  PROVE  /\ Tip(m) \in Tree
         /\ \A i \in 1..Len(m) : m[i] \in Tree
  BY DEF Tip

LEMMA Wider ==
  ASSUME NEW m \in Nat, NEW n \in Nat, m <= n, NEW l \in [Deployer -> SUBSET (1..m)]
  PROVE  l \in [Deployer -> SUBSET (1..n)]
<1>1. 1..m \subseteq 1..n
  OBVIOUS
<1> QED
  BY <1>1

LEMMA LandedType ==
  ASSUME NEW m \in Seq(Tree), NEW t \in Tree, NEW l \in [Deployer -> SUBSET (1..Len(m))],
         NEW d \in Deployer
  PROVE  [l EXCEPT ![d] = @ \cup {Len(Append(m, t))}]
           \in [Deployer -> SUBSET (1..Len(Append(m, t)))]
<1>1. Len(m) \in Nat /\ Len(Append(m, t)) = Len(m) + 1
  BY AppendFacts
<1>2. l \in [Deployer -> SUBSET (1..Len(Append(m, t)))]
  BY <1>1, Wider
<1>3. Len(Append(m, t)) \in 1..Len(Append(m, t))
  BY <1>1
<1> QED
  BY <1>2, <1>3

-----------------------------------------------------------------------------
(* How the control part of an action types. *)

ControlType == pc \in [Deployer -> Step] /\ result \in [Deployer -> Result]

LEMMA GotoType ==
  ASSUME ControlType, NEW d \in Deployer, NEW step \in Step, Goto(d, step)
  PROVE  ControlType'
  BY DEF ControlType, Goto

LEMMA ReturnType ==
  ASSUME ControlType, NEW d \in Deployer, NEW how \in Result, Return(d, how)
  PROVE  ControlType'
  BY DEF ControlType, Return, Step

LEMMA RetryType ==
  ASSUME ControlType, attempt \in [Deployer -> 0..MaxRetries],
         NEW d \in Deployer, Retry(d)
  PROVE  ControlType' /\ attempt' \in [Deployer -> 0..MaxRetries]
<1>1. "fetch" \in Step /\ "exhausted" \in Result
  BY DEF Step, Result
<1>2. CASE attempt[d] < MaxRetries
  <2>1. Goto(d, "fetch") /\ attempt' = [attempt EXCEPT ![d] = @ + 1]
    BY <1>2 DEF Retry
  <2> QED
    BY <1>1, <1>2, <2>1, GotoType, DeployAssumption
<1>3. CASE ~(attempt[d] < MaxRetries)
  <2>1. Return(d, "exhausted") /\ attempt' = attempt
    BY <1>3 DEF Retry
  <2> QED
    BY <1>1, <2>1, ReturnType
<1> QED
  BY <1>2, <1>3

-----------------------------------------------------------------------------
(* Every variable keeps its type: in particular what reaches main is a     *)
(* whole tree, and the loop counter stays within MaxRetries.               *)
THEOREM TypeCorrect == Spec => []TypeOK
<1> USE DeployAssumption
<1>1. Init => TypeOK
  <2> SUFFICES ASSUME Init PROVE TypeOK
    OBVIOUS
  <2>1. PICK t \in Start : main = <<t>>
    BY DEF Init
  <2>2. t \in Tree
    BY <2>1
  <2> QED
    BY <2>1, <2>2 DEF Init, TypeOK, Step, Result
<1>2. TypeOK /\ [Next]_vars => TypeOK'
  <2> SUFFICES ASSUME TypeOK, [Next]_vars PROVE TypeOK'
    OBVIOUS
  <2>0. ControlType
    BY DEF TypeOK, ControlType
  <2> USE DEF TypeOK, At, aux
  <2>1. ASSUME NEW d \in Deployer, Call(d) PROVE TypeOK'
    <3>1. Goto(d, "authorize") \/ Return(d, "failed")
      BY <2>1 DEF Call
    <3>2. ControlType'
      BY <2>0, <3>1, GotoType, ReturnType DEF Step, Result
    <3>3. /\ begun' = [begun EXCEPT ![d] = Len(main)]
          /\ UNCHANGED <<main, attempt, base, tree, changed, cloned, landed, lost, faults>>
      BY <2>1, Zenon DEF Call
    <3>4. begun' \in [Deployer -> Nat]
      BY <3>3
    <3> QED
      BY <3>2, <3>3, <3>4 DEF ControlType
  <2>2. ASSUME NEW d \in Deployer, Authorize(d) PROVE TypeOK'
    <3>1. Goto(d, "clone") \/ Return(d, "failed")
      BY <2>2 DEF Authorize
    <3>2. ControlType'
      BY <2>0, <3>1, GotoType, ReturnType DEF Step, Result
    <3> QED
      BY <2>2, <3>2 DEF Authorize, ControlType
  <2>3. ASSUME NEW d \in Deployer, Clone(d) PROVE TypeOK'
    <3>1. PICK p \in {q \in 1..Len(main) : q + CacheLag >= Len(main)} :
            /\ base' = [base EXCEPT ![d] = p]
            /\ cloned' = [cloned EXCEPT ![d] = p]
            /\ tree' = [tree EXCEPT ![d] = main[p]]
      BY <2>3 DEF Clone
    <3>2. /\ base' \in [Deployer -> Nat \ {0}]
          /\ cloned' \in [Deployer -> Nat \ {0}]
          /\ tree' \in [Deployer -> Tree]
      <4>1. p \in Nat \ {0} /\ main[p] \in Tree
        BY TipIsTree
      <4> QED
        BY <3>1, <4>1
    <3>3. Goto(d, "patch") /\ attempt' = [attempt EXCEPT ![d] = 1]
      BY <2>3 DEF Clone
    <3>4. ControlType' /\ attempt' \in [Deployer -> 0..MaxRetries]
      BY <2>0, <3>3, GotoType DEF Step
    <3> QED
      BY <2>3, <3>2, <3>4 DEF Clone, ControlType
  <2>4. ASSUME NEW d \in Deployer, Patch(d) PROVE TypeOK'
    <3>1. Patches(tree[d], Request[d]) \subseteq Tree
      BY PatchFacts
    <3>2. Goto(d, "commit") \/ Return(d, "ok") \/ Return(d, "failed")
      BY <2>4 DEF Patch
    <3>3. ControlType'
      <4>1. "commit" \in Step /\ "ok" \in Result /\ "failed" \in Result
        BY DEF Step, Result
      <4>2. CASE Goto(d, "commit")
        BY <2>0, <4>1, <4>2, GotoType
      <4>3. CASE Return(d, "ok") \/ Return(d, "failed")
        BY <2>0, <4>1, <4>3, ReturnType
      <4> QED
        BY <3>2, <4>2, <4>3
    <3>4. tree' \in [Deployer -> Tree] /\ changed' \in [Deployer -> BOOLEAN]
      <4>1. \/ UNCHANGED <<tree, changed>>
            \/ /\ \E p \in Patches(tree[d], Request[d]) : tree' = [tree EXCEPT ![d] = p]
               /\ changed' = [changed EXCEPT ![d] = TRUE]
        BY <2>4, Zenon DEF Patch
      <4> QED
        BY <3>1, <4>1
    <3>5. UNCHANGED <<main, attempt, base, begun, cloned, landed, lost, faults>>
      BY <2>4, Zenon DEF Patch
    <3> QED
      BY <3>3, <3>4, <3>5 DEF ControlType
  <2>5. ASSUME NEW d \in Deployer, Commit(d) PROVE TypeOK'
    BY <2>5 DEF Commit, Goto, Step
  <2>6. ASSUME NEW d \in Deployer, PushAcked(d) PROVE TypeOK'
    <3>1. main' \in Seq(Tree) /\ Len(main') >= 1
      BY <2>6, AppendFacts DEF PushAcked
    <3>2. ControlType'
      BY <2>0, <2>6, ReturnType DEF PushAcked, Result
    <3>3. landed' \in [Deployer -> SUBSET (1..Len(main'))]
      <4>1. landed' = [landed EXCEPT ![d] = @ \cup {Len(main')}] /\ main' = Append(main, tree[d])
        BY <2>6, Zenon DEF PushAcked
      <4> QED
        BY <4>1, LandedType
    <3> QED
      BY <2>6, <3>1, <3>2, <3>3 DEF PushAcked, ControlType
  <2>7. ASSUME NEW d \in Deployer, PushLost(d) PROVE TypeOK'
    <3>1. main' \in Seq(Tree) /\ Len(main') >= 1
      BY <2>7, AppendFacts DEF PushLost
    <3>2. ControlType' /\ attempt' \in [Deployer -> 0..MaxRetries]
      BY <2>0, <2>7, RetryType DEF PushLost
    <3>3. /\ landed' = [landed EXCEPT ![d] = @ \cup {Len(main')}]
          /\ main' = Append(main, tree[d])
          /\ lost' = [lost EXCEPT ![d] = @ + 1]
          /\ UNCHANGED <<base, tree, changed, begun, cloned, faults>>
      BY <2>7, Zenon DEF PushLost
    <3>4. landed' \in [Deployer -> SUBSET (1..Len(main'))] /\ lost' \in [Deployer -> Nat]
      BY <3>3, LandedType
    <3> QED
      BY <3>1, <3>2, <3>3, <3>4 DEF ControlType
  <2>8. ASSUME NEW d \in Deployer, PushRejected(d) PROVE TypeOK'
    BY <2>0, <2>8, RetryType DEF PushRejected, ControlType
  <2>9. ASSUME NEW d \in Deployer, PushFault(d) PROVE TypeOK'
    <3>1. ControlType' /\ attempt' \in [Deployer -> 0..MaxRetries]
      BY <2>0, <2>9, RetryType DEF PushFault
    <3>2. faults' \in [Deployer -> Nat]
      BY <2>9 DEF PushFault
    <3> QED
      BY <2>9, <3>1, <3>2 DEF PushFault, ControlType
  <2>10. ASSUME NEW d \in Deployer, Fetch(d) PROVE TypeOK'
    BY <2>10, TipIsTree DEF Fetch, Goto, Step
  <2>11. ASSUME NEW d \in Deployer, Fail(d) PROVE TypeOK'
    BY <2>11 DEF Fail, Return, Step, Result
  <2>12. CASE External
    <3>1. PICK f \in Field, v \in Foreign : main' = Append(main, [Tip(main) EXCEPT ![f] = v])
      BY <2>12 DEF External
    <3>2. [Tip(main) EXCEPT ![f] = v] \in Tree
      BY TipIsTree, RewrittenIsTree
    <3>3. main' \in Seq(Tree) /\ Len(main') >= 1
      BY <3>1, <3>2, AppendFacts
    <3>4. landed' \in [Deployer -> SUBSET (1..Len(main'))]
      <4>1. Len(main) <= Len(main')
        BY <3>1, <3>2, AppendFacts
      <4>2. Len(main) \in Nat /\ Len(main') \in Nat /\ landed' = landed
        BY <2>12, <3>3 DEF External, aux
      <4> QED
        BY <4>1, <4>2, Wider
    <3> QED
      BY <2>12, <3>3, <3>4 DEF External, local
  <2>13. CASE UNCHANGED vars
    BY <2>13 DEF vars, local
  <2> QED
    BY <2>1, <2>2, <2>3, <2>4, <2>5, <2>6, <2>7, <2>8, <2>9, <2>10, <2>11,
       <2>12, <2>13 DEF Next, Advance
<1> QED
  BY <1>1, <1>2, PTL DEF Spec

-----------------------------------------------------------------------------
(***************************************************************************)
(* The inductive invariant. For each call: what its checkout is relative   *)
(* to main, what its failed attempts are owed to, what its counters say,   *)
(* and what its return value promises.                                     *)
(***************************************************************************)

CheckoutInv(d) ==
  /\ cloned[d] <= base[d]
  /\ base[d] <= Len(main)
  /\ pc[d] = "patch" => tree[d] = main[base[d]]
  /\ pc[d] \in {"commit", "push"} =>
       /\ Patchable(main[base[d]], Request[d])
       /\ tree[d] \in Patches(main[base[d]], Request[d])
       /\ tree[d] # main[base[d]]

RetryInv(d) ==
  /\ pc[d] \in {"patch", "commit", "push"} =>
       attempt[d] <= (base[d] - cloned[d]) + faults[d] + 1
  /\ pc[d] = "fetch" => attempt[d] <= (Len(main) - cloned[d]) + faults[d] + 1
  /\ result[d] = "exhausted" => MaxRetries <= (Len(main) - cloned[d]) + faults[d]

CountInv(d) ==
  /\ landed[d] # {} => changed[d]
  /\ pc[d] \in {"commit", "push"} => changed[d]

OutcomeInv(d) ==
  /\ result[d] = "none" <=> pc[d] # "done"
  /\ result[d] = "ok" => \E i \in cloned[d]..Len(main) : Carries(main[i], Request[d])
  /\ begun[d] = 0 <=> pc[d] = "idle"
  /\ begun[d] <= Len(main)
  /\ pc[d] \in {"patch", "commit", "push", "fetch"} \/ result[d] = "ok"
       => begun[d] <= cloned[d] + CacheLag

CallInv(d) == CheckoutInv(d) /\ RetryInv(d) /\ CountInv(d) /\ OutcomeInv(d)

IInv == TypeOK /\ \A d \in Deployer : CallInv(d)

(* Everything the specification keeps for the call d. *)
Mine(d) == <<pc[d], attempt[d], base[d], tree[d], changed[d], result[d],
             begun[d], cloned[d], landed[d], lost[d], faults[d]>>

Grown ==
  /\ Len(main) <= Len(main')
  /\ \A i \in 1..Len(main) : main'[i] = main[i]

(* No action takes a commit off main or rewrites one. *)
LEMMA Growth ==
  ASSUME TypeOK, [Next]_vars
  PROVE  Grown
<1> USE DeployAssumption
<1>1. CASE main' = main
  BY <1>1 DEF Grown, TypeOK
<1>2. ASSUME NEW t \in Tree, main' = Append(main, t)
      PROVE  Grown
  BY <1>2, AppendFacts DEF Grown, TypeOK
<1>3. main' = main \/ \E t \in Tree : main' = Append(main, t)
  <2>1. CASE External
    <3>1. PICK f \in Field, v \in Foreign : main' = Append(main, [Tip(main) EXCEPT ![f] = v])
      BY <2>1 DEF External
    <3>2. [Tip(main) EXCEPT ![f] = v] \in Tree
      BY TipIsTree, RewrittenIsTree DEF TypeOK
    <3> QED
      BY <3>1, <3>2
  <2>2. ASSUME NEW d \in Deployer, Advance(d)
        PROVE  main' = main \/ \E t \in Tree : main' = Append(main, t)
    <3>1. main' = main \/ main' = Append(main, tree[d])
      BY <2>2, Zenon DEF Advance, Call, Authorize, Clone, Patch, Commit, PushAcked,
         PushLost, PushRejected, PushFault, Fetch, Fail
    <3> QED
      BY <3>1 DEF TypeOK
  <2>3. CASE UNCHANGED vars
    BY <2>3 DEF vars
  <2> QED
    BY <2>1, <2>2, <2>3 DEF Next
<1> QED
  BY <1>1, <1>2, <1>3

(* A step of one call leaves every other call alone. *)
LEMMA Frame ==
  ASSUME TypeOK, NEW d \in Deployer, NEW e \in Deployer, d # e, Advance(e)
  PROVE  Mine(d)' = Mine(d)
<1> USE DEF TypeOK, Mine, aux
<1>1. ASSUME NEW step, Goto(e, step) PROVE pc'[d] = pc[d] /\ result'[d] = result[d]
  BY <1>1 DEF Goto
<1>2. ASSUME NEW how, Return(e, how) PROVE pc'[d] = pc[d] /\ result'[d] = result[d]
  BY <1>2 DEF Return
<1>3. ASSUME Retry(e)
      PROVE  pc'[d] = pc[d] /\ result'[d] = result[d] /\ attempt'[d] = attempt[d]
  <2>1. CASE attempt[e] < MaxRetries
    BY <1>3, <2>1 DEF Retry, Goto
  <2>2. CASE ~(attempt[e] < MaxRetries)
    BY <1>3, <2>2 DEF Retry, Return
  <2> QED
    BY <2>1, <2>2
<1>4. CASE Call(e)
  <2>1. pc'[d] = pc[d] /\ result'[d] = result[d]
    BY <1>1, <1>2, <1>4 DEF Call
  <2>2. UNCHANGED <<attempt, base, tree, changed, cloned, landed, lost, faults>>
    BY <1>4, Zenon DEF Call
  <2>3. begun' = [begun EXCEPT ![e] = Len(main)]
    BY <1>4, Zenon DEF Call
  <2> QED
    BY <2>1, <2>2, <2>3
<1>5. CASE Authorize(e)
  <2>1. pc'[d] = pc[d] /\ result'[d] = result[d]
    BY <1>1, <1>2, <1>5 DEF Authorize
  <2> QED
    BY <1>5, <2>1 DEF Authorize
<1>6. CASE Clone(e)
  BY <1>6 DEF Clone, Goto
<1>7. CASE Patch(e)
  BY <1>7 DEF Patch, Goto, Return
<1>8. CASE Commit(e)
  BY <1>8 DEF Commit, Goto
<1>9. CASE PushAcked(e)
  BY <1>9 DEF PushAcked, Return
<1>10. CASE PushLost(e)
  <2>1. /\ landed' = [landed EXCEPT ![e] = @ \cup {Len(main')}]
        /\ lost' = [lost EXCEPT ![e] = @ + 1]
        /\ UNCHANGED <<base, tree, changed, begun, cloned, faults>>
        /\ Retry(e)
    BY <1>10, Zenon DEF PushLost
  <2> QED
    BY <1>3, <2>1
<1>11. CASE PushRejected(e)
  BY <1>3, <1>11 DEF PushRejected
<1>12. CASE PushFault(e)
  <2>1. /\ faults' = [faults EXCEPT ![e] = @ + 1]
        /\ UNCHANGED <<base, tree, changed, begun, cloned, landed, lost>>
        /\ Retry(e)
    BY <1>12, Zenon DEF PushFault
  <2> QED
    BY <1>3, <2>1
<1>13. CASE Fetch(e)
  BY <1>13 DEF Fetch, Goto
<1>14. CASE Fail(e)
  BY <1>14 DEF Fail, Return
<1> QED
  BY <1>4, <1>5, <1>6, <1>7, <1>8, <1>9, <1>10, <1>11, <1>12, <1>13, <1>14 DEF Advance

(* The arithmetic of attempts that commits of others account for. *)
LEMMA Grows ==
  ASSUME NEW a \in Nat, NEW c \in Nat, NEW f \in Nat, NEW m \in Nat, NEW n \in Nat,
         m <= n
  PROVE  /\ a <= (m - c) + f => a <= (n - c) + f
         /\ a <= (m - c) + f + 1 => a <= (n - c) + f + 1
  OBVIOUS

LEMMA CallTypes ==
  ASSUME TypeOK, NEW d \in Deployer
  PROVE  /\ attempt[d] \in Nat /\ MaxRetries \in Nat /\ CacheLag \in Nat
         /\ base[d] \in Nat /\ cloned[d] \in Nat /\ begun[d] \in Nat
         /\ lost[d] \in Nat /\ faults[d] \in Nat
         /\ Len(main) \in Nat /\ Len(main) >= 1
         /\ base[d] >= 1 /\ cloned[d] >= 1
         /\ tree[d] \in Tree /\ Request[d] \in RequestSet
  BY DeployAssumption DEF TypeOK

(* What a call's invariant says survives the commits of others. *)
LEMMA Stable ==
  ASSUME TypeOK, Grown, NEW d \in Deployer, CallInv(d), Mine(d)' = Mine(d),
         TypeOK'
  PROVE  CallInv(d)'
<1>1. /\ pc'[d] = pc[d] /\ attempt'[d] = attempt[d] /\ base'[d] = base[d]
      /\ tree'[d] = tree[d] /\ changed'[d] = changed[d] /\ result'[d] = result[d]
      /\ begun'[d] = begun[d] /\ cloned'[d] = cloned[d] /\ landed'[d] = landed[d]
      /\ lost'[d] = lost[d] /\ faults'[d] = faults[d]
  BY Zenon DEF Mine
<1>2. cloned[d] <= base[d] /\ base[d] <= Len(main)
  BY DEF CallInv, CheckoutInv
<1>3. base[d] \in 1..Len(main)
  BY <1>2, CallTypes
<1>4. main'[base[d]] = main[base[d]]
  BY <1>3 DEF Grown
<1>5. Len(main') \in Nat /\ Len(main) <= Len(main')
  BY DEF Grown, TypeOK
<1>6. CheckoutInv(d)'
  <2>1. base[d] <= Len(main')
    BY <1>2, <1>5, CallTypes
  <2> QED
    BY <1>1, <1>4, <2>1 DEF CallInv, CheckoutInv
<1>7. RetryInv(d)'
  <2>1. \A a \in Nat :
          /\ a <= (Len(main) - cloned[d]) + faults[d]
               => a <= (Len(main') - cloned[d]) + faults[d]
          /\ a <= (Len(main) - cloned[d]) + faults[d] + 1
               => a <= (Len(main') - cloned[d]) + faults[d] + 1
    BY <1>5, CallTypes, Grows
  <2> QED
    BY <1>1, <2>1, CallTypes DEF CallInv, RetryInv
<1>8. CountInv(d)'
  BY <1>1 DEF CallInv, CountInv
<1>9. OutcomeInv(d)'
  <2>1. begun[d] <= Len(main')
    BY <1>5, CallTypes DEF CallInv, OutcomeInv
  <2>2. \A i \in cloned[d]..Len(main) :
          i \in cloned[d]..Len(main') /\ main'[i] = main[i]
    <3> SUFFICES ASSUME NEW i \in cloned[d]..Len(main)
                 PROVE  i \in cloned[d]..Len(main') /\ main'[i] = main[i]
      OBVIOUS
    <3>1. i \in 1..Len(main)
      BY CallTypes
    <3> QED
      BY <1>5, <3>1 DEF Grown
  <2> QED
    BY <1>1, <2>1, <2>2 DEF CallInv, OutcomeInv
<1> QED
  BY <1>6, <1>7, <1>8, <1>9 DEF CallInv

(* What each call's own step does to its part of the state. *)

LEMMA GotoHere ==
  ASSUME ControlType, NEW d \in Deployer, NEW step, Goto(d, step)
  PROVE  pc'[d] = step /\ result'[d] = result[d]
  BY DEF ControlType, Goto

LEMMA ReturnHere ==
  ASSUME ControlType, NEW d \in Deployer, NEW how, Return(d, how)
  PROVE  pc'[d] = "done" /\ result'[d] = how
  BY DEF ControlType, Return

LEMMA RetryHere ==
  ASSUME TypeOK, NEW d \in Deployer, Retry(d)
  PROVE  \/ /\ attempt[d] < MaxRetries
            /\ pc'[d] = "fetch" /\ result'[d] = result[d]
            /\ attempt'[d] = attempt[d] + 1
         \/ /\ attempt[d] = MaxRetries
            /\ pc'[d] = "done" /\ result'[d] = "exhausted"
            /\ attempt'[d] = attempt[d]
<1> USE DeployAssumption
<1>1. ControlType
  BY DEF TypeOK, ControlType
<1>2. CASE attempt[d] < MaxRetries
  <2>1. Goto(d, "fetch") /\ attempt' = [attempt EXCEPT ![d] = @ + 1]
    BY <1>2 DEF Retry
  <2> QED
    BY <1>1, <1>2, <2>1, GotoHere DEF TypeOK
<1>3. CASE ~(attempt[d] < MaxRetries)
  <2>1. Return(d, "exhausted") /\ attempt' = attempt
    BY <1>3 DEF Retry
  <2>2. attempt[d] = MaxRetries
    BY <1>3 DEF TypeOK
  <2> QED
    BY <1>1, <2>1, <2>2, ReturnHere
<1> QED
  BY <1>2, <1>3

(* A call that gives up with an error owes nobody anything any more. *)
LEMMA FailHere ==
  ASSUME TypeOK, TypeOK', NEW d \in Deployer, CallInv(d), pc[d] \notin {"done"},
         Return(d, "failed"), begun'[d] # 0, begun'[d] <= Len(main),
         UNCHANGED <<main, base, changed, cloned, landed, lost, faults>>
  PROVE  CallInv(d)'
<1>1. pc'[d] = "done" /\ result'[d] = "failed"
  BY ReturnHere DEF TypeOK, ControlType
<1>2. result[d] = "none"
  BY DEF CallInv, OutcomeInv
<1>3. CheckoutInv(d)'
  BY <1>1 DEF CallInv, CheckoutInv
<1>4. RetryInv(d)'
  BY <1>1 DEF RetryInv
<1>5. CountInv(d)'
  BY <1>1, <1>2 DEF CallInv, CountInv
<1>6. OutcomeInv(d)'
  BY <1>1 DEF OutcomeInv
<1> QED
  BY <1>3, <1>4, <1>5, <1>6 DEF CallInv

(* The arithmetic of an attempt that a commit or a fault beat. *)
LEMMA Beaten ==
  ASSUME NEW a \in Nat, NEW b \in Nat, NEW c \in Nat, NEW f \in Nat,
         NEW g \in Nat, NEW n \in Nat,
         a <= (b - c) + f + 1, n - b + g >= f + 1
  PROVE  a <= (n - c) + g /\ a + 1 <= (n - c) + g + 1
  OBVIOUS

(* A push that reported an error, whether or not it landed, leaves the call *)
(* with a beaten attempt that main's growth or a fault accounts for.       *)
LEMMA FailedPush ==
  ASSUME TypeOK, TypeOK', NEW d \in Deployer, CallInv(d), At(d, "push"),
         Retry(d), Grown, UNCHANGED <<base, changed, begun, cloned>>,
         Len(main') - base[d] + faults'[d] >= faults[d] + 1
  PROVE  CallInv(d)'
<1> USE DEF At
<1>0. pc[d] = "push" /\ result[d] = "none" /\ changed[d] /\ begun[d] # 0
  BY DEF CallInv, CountInv, OutcomeInv
<1>1. \/ /\ pc'[d] = "fetch" /\ result'[d] = "none"
         /\ attempt'[d] = attempt[d] + 1
      \/ /\ attempt[d] = MaxRetries
         /\ pc'[d] = "done" /\ result'[d] = "exhausted"
         /\ attempt'[d] = attempt[d]
  BY <1>0, RetryHere
<1>2. /\ attempt[d] \in Nat /\ MaxRetries \in Nat /\ base[d] \in Nat
      /\ cloned[d] \in Nat /\ begun[d] \in Nat
      /\ faults[d] \in Nat /\ Len(main) \in Nat
  BY CallTypes
<1>3. /\ faults'[d] \in Nat
      /\ Len(main') \in Nat
  BY DEF TypeOK
<1>4. CheckoutInv(d)'
  <2>1. cloned[d] <= base[d] /\ base[d] <= Len(main) /\ Len(main) <= Len(main')
    BY DEF CallInv, CheckoutInv, Grown
  <2>2. cloned'[d] <= base'[d] /\ base[d] <= Len(main')
    BY <1>2, <1>3, <2>1
  <2>3. base'[d] <= Len(main')
    BY <2>2
  <2> QED
    BY <1>1, <2>2, <2>3 DEF CheckoutInv
<1>5. RetryInv(d)'
  <2>1. attempt[d] <= (base[d] - cloned[d]) + faults[d] + 1
    BY <1>0 DEF CallInv, RetryInv
  <2>2. /\ attempt[d] <= (Len(main') - cloned[d]) + faults'[d]
        /\ attempt[d] + 1 <= (Len(main') - cloned[d]) + faults'[d] + 1
    BY <1>2, <1>3, <2>1, Beaten
  <2>3. cloned'[d] = cloned[d]
    OBVIOUS
  <2>4. pc'[d] = "fetch" => attempt'[d] <= (Len(main') - cloned[d]) + faults'[d] + 1
    BY <1>1, <2>2
  <2>5. result'[d] = "exhausted" => MaxRetries <= (Len(main') - cloned[d]) + faults'[d]
    BY <1>1, <2>2
  <2> QED
    BY <1>1, <2>3, <2>4, <2>5 DEF RetryInv
<1>6. CountInv(d)'
  BY <1>0, <1>1 DEF CountInv
<1>7. OutcomeInv(d)'
  <2>1. begun[d] <= Len(main) /\ Len(main) <= Len(main')
    BY DEF CallInv, OutcomeInv, Grown
  <2>2. begun[d] <= cloned[d] + CacheLag
    BY <1>0 DEF CallInv, OutcomeInv
  <2>3. begun'[d] = begun[d] /\ cloned'[d] = cloned[d]
    OBVIOUS
  <2>4. begun[d] <= Len(main')
    BY <1>2, <1>3, <2>1
  <2> QED
    BY <1>0, <1>1, <2>2, <2>3, <2>4 DEF OutcomeInv
<1> QED
  BY <1>4, <1>5, <1>6, <1>7 DEF CallInv

(* Each step of a call keeps what its invariant says of it. *)
LEMMA OwnStep ==
  ASSUME TypeOK, TypeOK', Grown, NEW d \in Deployer, CallInv(d), Advance(d)
  PROVE  CallInv(d)'
<1> USE DEF At, aux
<1>0. ControlType
  BY DEF TypeOK, ControlType
<1>1. CASE Call(d)
  <2>0. pc[d] = "idle" /\ begun' = [begun EXCEPT ![d] = Len(main)]
    BY <1>1, Zenon DEF Call
  <2>1. /\ pc[d] = "idle" /\ result[d] = "none" /\ begun'[d] = Len(main)
        /\ begun'[d] # 0 /\ begun'[d] <= Len(main)
    BY <2>0, CallTypes DEF CallInv, OutcomeInv, TypeOK
  <2>2. UNCHANGED <<main, attempt, base, tree, changed, cloned, landed, lost, faults>>
    BY <1>1, Zenon DEF Call
  <2>3. CASE Return(d, "failed")
    BY <2>1, <2>2, <2>3, FailHere
  <2>4. CASE Goto(d, "authorize")
    <3>1. pc'[d] = "authorize" /\ result'[d] = "none"
      BY <1>0, <2>1, <2>4, GotoHere
    <3>2. CheckoutInv(d)' /\ RetryInv(d)'
      BY <2>2, <3>1 DEF CallInv, CheckoutInv, RetryInv
    <3>3. CountInv(d)' /\ OutcomeInv(d)'
      BY <2>1, <2>2, <3>1 DEF CallInv, CountInv, OutcomeInv
    <3> QED
      BY <3>2, <3>3 DEF CallInv
  <2> QED
    BY <1>1, <2>3, <2>4 DEF Call
<1>2. CASE Authorize(d)
  <2>0. pc[d] = "authorize"
    BY <1>2, Zenon DEF Authorize
  <2>1. result[d] = "none" /\ begun[d] # 0 /\ begun[d] <= Len(main)
    BY <2>0 DEF CallInv, OutcomeInv
  <2>2. UNCHANGED <<main, attempt, base, tree, changed, begun, cloned, landed, lost, faults>>
    BY <1>2, Zenon DEF Authorize
  <2>3. CASE Return(d, "failed")
    BY <2>0, <2>1, <2>2, <2>3, FailHere
  <2>4. CASE Goto(d, "clone")
    <3>1. pc'[d] = "clone" /\ result'[d] = "none"
      BY <1>0, <2>1, <2>4, GotoHere
    <3>2. CheckoutInv(d)' /\ RetryInv(d)'
      BY <2>2, <3>1 DEF CallInv, CheckoutInv, RetryInv
    <3>3. CountInv(d)' /\ OutcomeInv(d)'
      BY <2>0, <2>1, <2>2, <3>1 DEF CallInv, CountInv, OutcomeInv
    <3> QED
      BY <3>2, <3>3 DEF CallInv
  <2> QED
    BY <1>2, <2>3, <2>4 DEF Authorize
<1>3. CASE Clone(d)
  <2>1. PICK p \in {q \in 1..Len(main) : q + CacheLag >= Len(main)} :
          /\ base' = [base EXCEPT ![d] = p]
          /\ cloned' = [cloned EXCEPT ![d] = p]
          /\ tree' = [tree EXCEPT ![d] = main[p]]
    BY <1>3 DEF Clone
  <2>2. /\ base'[d] = p /\ cloned'[d] = p /\ tree'[d] = main[p]
        /\ p \in 1..Len(main) /\ p + CacheLag >= Len(main)
    BY <2>1 DEF TypeOK
  <2>3. /\ pc[d] = "clone" /\ attempt'[d] = 1 /\ Goto(d, "patch")
        /\ UNCHANGED <<main, changed, begun, landed, lost, faults>>
    BY <1>3 DEF Clone, TypeOK
  <2>4. pc'[d] = "patch" /\ result'[d] = "none"
    BY <1>0, <2>3, GotoHere DEF CallInv, OutcomeInv
  <2>5. CheckoutInv(d)' /\ RetryInv(d)'
    BY <2>2, <2>3, <2>4, CallTypes DEF CheckoutInv, RetryInv
  <2>6. CountInv(d)'
    BY <2>3, <2>4 DEF CallInv, CountInv, OutcomeInv
  <2>7. OutcomeInv(d)'
    BY <2>2, <2>3, <2>4, CallTypes DEF CallInv, OutcomeInv
  <2> QED
    BY <2>5, <2>6, <2>7 DEF CallInv
<1>4. CASE Patch(d)
  <2>0. /\ pc[d] = "patch" /\ result[d] = "none" /\ begun[d] # 0
        /\ begun[d] <= Len(main) /\ tree[d] = main[base[d]]
        /\ UNCHANGED <<main, attempt, base, begun, cloned, landed, lost, faults>>
    BY <1>4, Zenon DEF Patch, CallInv, OutcomeInv, CheckoutInv
  <2>1. CASE Return(d, "failed") /\ UNCHANGED <<tree, changed>>
    BY <2>0, <2>1, FailHere
  <2>2. CASE /\ tree[d] \in Patches(tree[d], Request[d])
             /\ Return(d, "ok") /\ UNCHANGED <<tree, changed>>
    <3>1. pc'[d] = "done" /\ result'[d] = "ok"
      BY <1>0, <2>2, ReturnHere
    <3>2. Carries(main[base[d]], Request[d])
      BY <2>0, <2>2, PatchFacts, CallTypes
    <3>3. base[d] \in cloned[d]..Len(main)
      BY CallTypes DEF CallInv, CheckoutInv
    <3>4. CheckoutInv(d)' /\ RetryInv(d)'
      BY <2>0, <2>2, <3>1 DEF CallInv, CheckoutInv, RetryInv
    <3>5. CountInv(d)'
      BY <2>0, <2>2, <3>1, CallTypes DEF CallInv, CountInv
    <3>6. OutcomeInv(d)'
      BY <2>0, <2>2, <3>1, <3>2, <3>3 DEF CallInv, OutcomeInv
    <3> QED
      BY <3>4, <3>5, <3>6 DEF CallInv
  <2>3. CASE /\ Patchable(tree[d], Request[d])
             /\ \E p \in Patches(tree[d], Request[d]) \ {tree[d]} :
                  tree' = [tree EXCEPT ![d] = p]
             /\ changed' = [changed EXCEPT ![d] = TRUE]
             /\ Goto(d, "commit")
    <3>1. pc'[d] = "commit" /\ result'[d] = "none"
      BY <1>0, <2>0, <2>3, GotoHere
    <3>2. /\ tree'[d] \in Patches(tree[d], Request[d]) /\ tree'[d] # tree[d]
          /\ changed'[d] = TRUE
      BY <2>3 DEF TypeOK
    <3>3. CheckoutInv(d)'
      BY <2>0, <2>3, <3>1, <3>2 DEF CallInv, CheckoutInv
    <3>4. RetryInv(d)' /\ OutcomeInv(d)'
      BY <2>0, <3>1 DEF CallInv, RetryInv, OutcomeInv
    <3>5. CountInv(d)'
      BY <2>0, <3>1, <3>2 DEF CallInv, CountInv
    <3> QED
      BY <3>3, <3>4, <3>5 DEF CallInv
  <2> QED
    BY <1>4, <2>1, <2>2, <2>3 DEF Patch
<1>5. CASE Commit(d)
  <2>1. /\ pc[d] = "commit" /\ Goto(d, "push")
        /\ UNCHANGED <<main, attempt, base, tree, changed, begun, cloned, landed, lost, faults>>
    BY <1>5 DEF Commit
  <2>2. pc'[d] = "push" /\ result'[d] = "none"
    BY <1>0, <2>1, GotoHere DEF CallInv, OutcomeInv
  <2>3. CheckoutInv(d)' /\ RetryInv(d)'
    BY <2>1, <2>2 DEF CallInv, CheckoutInv, RetryInv
  <2>4. CountInv(d)' /\ OutcomeInv(d)'
    BY <2>1, <2>2 DEF CallInv, CountInv, OutcomeInv
  <2> QED
    BY <2>3, <2>4 DEF CallInv
<1>6. CASE PushAcked(d)
  <2>1. /\ pc[d] = "push" /\ base[d] = Len(main) /\ main' = Append(main, tree[d])
        /\ Return(d, "ok")
        /\ UNCHANGED <<attempt, base, tree, changed, begun, cloned, lost, faults>>
    BY <1>6 DEF PushAcked, FastForward, TypeOK
  <2>2. pc'[d] = "done" /\ result'[d] = "ok"
    BY <1>0, <2>1, ReturnHere
  <2>3. Len(main') = Len(main) + 1 /\ main'[Len(main) + 1] = tree[d]
    BY <2>1, AppendFacts DEF TypeOK
  <2>4. Carries(main'[Len(main')], Request[d])
    <3>1. tree[d] \in Patches(main[base[d]], Request[d])
      BY <2>1 DEF CallInv, CheckoutInv
    <3>2. main[base[d]] \in Tree
      BY <2>1, TipIsTree, CallTypes DEF TypeOK
    <3> QED
      BY <2>3, <3>1, <3>2, PatchFacts, CallTypes
  <2>5. cloned[d] <= Len(main) /\ cloned'[d] = cloned[d] /\ base'[d] = base[d]
    BY <2>1 DEF CallInv, CheckoutInv
  <2>6. CheckoutInv(d)' /\ RetryInv(d)'
    BY <2>1, <2>2, <2>3, <2>5, CallTypes DEF CheckoutInv, RetryInv
  <2>7. CountInv(d)'
    <3>1. changed[d]
      BY <2>1 DEF CallInv, CountInv
    <3> QED
      BY <2>1, <2>2, <3>1 DEF CountInv
  <2>8. OutcomeInv(d)'
    <3>1. Len(main') \in cloned[d]..Len(main')
      BY <2>3, <2>5, CallTypes
    <3>2. begun[d] # 0 /\ begun[d] <= Len(main') /\ begun[d] <= cloned[d] + CacheLag
      BY <2>1, <2>3, CallTypes DEF CallInv, OutcomeInv
    <3> QED
      BY <2>1, <2>2, <2>4, <2>5, <3>1, <3>2 DEF OutcomeInv
  <2> QED
    BY <2>6, <2>7, <2>8 DEF CallInv
<1>7. CASE PushLost(d)
  <2>1. /\ pc[d] = "push" /\ base[d] = Len(main) /\ main' = Append(main, tree[d])
        /\ Retry(d)
        /\ UNCHANGED <<base, tree, changed, begun, cloned, faults>>
    BY <1>7, Zenon DEF PushLost, FastForward
  <2>2. Len(main') - base[d] + faults'[d] >= faults[d] + 1
    BY <2>1, AppendFacts, CallTypes DEF TypeOK
  <2> QED
    BY <2>1, <2>2, FailedPush
<1>8. CASE PushRejected(d)
  <2>1. /\ pc[d] = "push" /\ base[d] # Len(main) /\ Retry(d)
        /\ UNCHANGED <<main, base, tree, changed, begun, cloned, landed, lost, faults>>
    BY <1>8, Zenon DEF PushRejected, FastForward
  <2>2. Len(main') - base[d] + faults'[d] >= faults[d] + 1
    BY <2>1, CallTypes DEF CallInv, CheckoutInv
  <2> QED
    BY <2>1, <2>2, FailedPush
<1>9. CASE PushFault(d)
  <2>1. /\ pc[d] = "push" /\ Retry(d)
        /\ faults' = [faults EXCEPT ![d] = @ + 1]
        /\ UNCHANGED <<main, base, tree, changed, begun, cloned, landed, lost>>
    BY <1>9, Zenon DEF PushFault
  <2>2. faults'[d] = faults[d] + 1
    BY <2>1 DEF TypeOK
  <2>3. Len(main') - base[d] + faults'[d] >= faults[d] + 1
    BY <2>1, <2>2, CallTypes DEF CallInv, CheckoutInv
  <2> QED
    BY <2>1, <2>3, FailedPush
<1>10. CASE Fetch(d)
  <2>1. /\ pc[d] = "fetch" /\ base'[d] = Len(main) /\ tree'[d] = main[Len(main)]
        /\ Goto(d, "patch")
        /\ UNCHANGED <<main, attempt, changed, begun, cloned, landed, lost, faults>>
    BY <1>10 DEF Fetch, Tip, TypeOK
  <2>2. pc'[d] = "patch" /\ result'[d] = "none"
    BY <1>0, <2>1, GotoHere DEF CallInv, OutcomeInv
  <2>3. CheckoutInv(d)'
    BY <2>1, <2>2, CallTypes DEF CallInv, CheckoutInv
  <2>4. RetryInv(d)'
    BY <2>1, <2>2 DEF CallInv, RetryInv
  <2>5. CountInv(d)' /\ OutcomeInv(d)'
    BY <2>1, <2>2 DEF CallInv, CountInv, OutcomeInv
  <2> QED
    BY <2>3, <2>4, <2>5 DEF CallInv
<1>11. CASE Fail(d)
  <2>1. /\ pc[d] \in {"clone", "patch", "commit", "fetch"} /\ Return(d, "failed")
        /\ UNCHANGED <<main, attempt, base, tree, changed, begun, cloned, landed, lost, faults>>
    BY <1>11, Zenon DEF Fail
  <2>2. begun'[d] # 0 /\ begun'[d] <= Len(main)
    BY <2>1 DEF CallInv, OutcomeInv
  <2> QED
    BY <2>1, <2>2, FailHere
<1> QED
  BY <1>1, <1>2, <1>3, <1>4, <1>5, <1>6, <1>7, <1>8, <1>9, <1>10, <1>11 DEF Advance

(* The invariant holds of every reachable state. *)
THEOREM Inductive == Spec => []IInv
<1> USE DeployAssumption
<1>1. Init => IInv
  <2> SUFFICES ASSUME Init PROVE IInv
    OBVIOUS
  <2>1. PICK t \in Start : main = <<t>>
    BY DEF Init
  <2>2. TypeOK
    BY <2>1 DEF Init, TypeOK, Step, Result
  <2>3. ASSUME NEW d \in Deployer PROVE CallInv(d)
    BY <2>1 DEF Init, CallInv, CheckoutInv, RetryInv, CountInv, OutcomeInv
  <2> QED
    BY <2>2, <2>3 DEF IInv
<1>2. TypeOK' /\ IInv /\ [Next]_vars => IInv'
  <2> SUFFICES ASSUME TypeOK', IInv, [Next]_vars PROVE IInv'
    OBVIOUS
  <2>1. TypeOK /\ Grown
    BY Growth DEF IInv
  <2>2. ASSUME NEW d \in Deployer PROVE CallInv(d)'
    <3>1. CASE Advance(d)
      BY <2>1, <3>1, OwnStep DEF IInv
    <3>2. ASSUME NEW e \in Deployer, d # e, Advance(e) PROVE CallInv(d)'
      BY <2>1, <3>2, Frame, Stable DEF IInv
    <3>3. CASE External \/ UNCHANGED vars
      <4>1. Mine(d)' = Mine(d)
        BY <3>3, Zenon DEF External, vars, local, aux, Mine
      <4> QED
        BY <2>1, <4>1, Stable DEF IInv
    <3> QED
      BY <3>1, <3>2, <3>3 DEF Next
  <2> QED
    BY <2>2 DEF IInv
<1>3. Spec => []TypeOK
  BY TypeCorrect
<1> QED
  BY <1>1, <1>2, <1>3, PTL DEF Spec

-----------------------------------------------------------------------------
(* What the runs check, for every value of the constants. *)

(* A call that returns without error saw its tag on main, in a commit that *)
(* was at most CacheLag commits old when the call began.                   *)
LEMMA CarriedSoon ==
  ASSUME IInv, NEW d \in Deployer, result[d] = "ok"
  PROVE  \E i \in 1..Len(main) : i + CacheLag >= begun[d] /\ Carries(main[i], Request[d])
<1>1. PICK i \in cloned[d]..Len(main) : Carries(main[i], Request[d])
  BY DEF IInv, CallInv, OutcomeInv
<1>2. begun[d] <= cloned[d] + CacheLag
  BY DEF IInv, CallInv, OutcomeInv
<1>3. i \in 1..Len(main) /\ i + CacheLag >= begun[d]
  BY <1>1, <1>2, CallTypes DEF IInv
<1> QED
  BY <1>1, <1>3

THEOREM SuccessIsCarried == Spec => []OkWasCarried
<1>1. IInv => OkWasCarried
  BY CarriedSoon DEF OkWasCarried
<1> QED
  BY <1>1, Inductive, PTL

(* When first clones are not stale, it saw it there during the call. *)
THEOREM FreshSuccessIsCarried ==
  ASSUME CacheLag = 0
  PROVE  Spec => []OkCarriedSinceCall
<1>1. IInv => OkCarriedSinceCall
  <2> SUFFICES ASSUME IInv, NEW d \in Deployer, result[d] = "ok"
               PROVE  \E i \in begun[d]..Len(main) : Carries(main[i], Request[d])
    BY DEF OkCarriedSinceCall
  <2>1. PICK i \in 1..Len(main) : i + CacheLag >= begun[d] /\ Carries(main[i], Request[d])
    BY CarriedSoon
  <2>2. i \in begun[d]..Len(main)
    BY <2>1, CallTypes DEF IInv
  <2> QED
    BY <2>1, <2>2
<1> QED
  BY <1>1, Inductive, PTL

(* Retries run out only because main moved or the transport failed. *)
THEOREM ExhaustionIsConflict == Spec => []ExhaustedOnlyByConflict
<1>1. IInv => ExhaustedOnlyByConflict
  BY DEF IInv, CallInv, RetryInv, ExhaustedOnlyByConflict
<1> QED
  BY <1>1, Inductive, PTL

(* Each commit of a call on main is a patch of the tip it landed on, and   *)
(* not an empty one.                                                       *)
LandingInv(d) ==
  \A p \in landed[d] :
    /\ p \in 2..Len(main)
    /\ main[p] \in Patches(main[p - 1], Request[d])
    /\ main[p] # main[p - 1]

(* What is on main stays there, so a call's commits stay what they were. *)
LEMMA LandingsStay ==
  ASSUME TypeOK, Grown, NEW d \in Deployer, LandingInv(d), NEW p \in landed[d]
  PROVE  /\ p \in 2..Len(main')
         /\ main'[p] \in Patches(main'[p - 1], Request[d])
         /\ main'[p] # main'[p - 1]
<1>1. p \in 2..Len(main) /\ Len(main) \in Nat /\ Len(main') >= Len(main)
  BY DEF LandingInv, Grown, TypeOK
<1>2. p \in 1..Len(main) /\ p - 1 \in 1..Len(main)
  BY <1>1
<1>3. main'[p] = main[p] /\ main'[p - 1] = main[p - 1]
  BY <1>2 DEF Grown
<1>4. Len(main') \in Nat => p \in 2..Len(main')
  BY <1>1
<1> QED
  BY <1>1, <1>3, <1>4 DEF LandingInv, TypeOK

(* A push that lands puts the patched checkout on the tip it was made from. *)
LEMMA LandingLands ==
  ASSUME IInv, NEW d \in Deployer, pc[d] = "push", FastForward(d),
         main' = Append(main, tree[d])
  PROVE  /\ Len(main') \in 2..Len(main')
         /\ main'[Len(main')] \in Patches(main'[Len(main') - 1], Request[d])
         /\ main'[Len(main')] # main'[Len(main') - 1]
<1>1. /\ tree[d] \in Patches(main[Len(main)], Request[d])
      /\ tree[d] # main[Len(main)]
  BY DEF IInv, CallInv, CheckoutInv, FastForward
<1>2. Len(main) \in Nat /\ Len(main) >= 1 /\ tree[d] \in Tree
  BY CallTypes DEF IInv
<1>3. /\ Len(main') = Len(main) + 1 /\ main'[Len(main) + 1] = tree[d]
      /\ main'[Len(main)] = main[Len(main)]
  BY <1>2, AppendFacts DEF IInv, TypeOK
<1>4. Len(main') - 1 = Len(main) /\ Len(main') \in 2..Len(main')
  BY <1>2, <1>3
<1> QED
  BY <1>1, <1>3, <1>4

LEMMA LandingsArePatches == Spec => [](\A d \in Deployer : LandingInv(d))
<1>1. Init => \A d \in Deployer : LandingInv(d)
  BY DEF Init, LandingInv
<1>2. IInv /\ (\A d \in Deployer : LandingInv(d)) /\ [Next]_vars
        => (\A d \in Deployer : LandingInv(d))'
  <2> SUFFICES ASSUME IInv, [Next]_vars, NEW d \in Deployer, LandingInv(d)
               PROVE  LandingInv(d)'
    OBVIOUS
  <2>0. TypeOK /\ Grown
    BY Growth DEF IInv
  <2>1. CASE landed'[d] = landed[d]
    BY <2>0, <2>1, LandingsStay DEF LandingInv
  <2>2. ASSUME At(d, "push"), FastForward(d), main' = Append(main, tree[d]),
               landed' = [landed EXCEPT ![d] = @ \cup {Len(main')}]
        PROVE  LandingInv(d)'
    <3>1. landed'[d] = landed[d] \cup {Len(main')}
      BY <2>0, <2>2 DEF TypeOK
    <3> QED
      BY <2>0, <2>2, <3>1, LandingsStay, LandingLands DEF LandingInv, At
  <2>3. \/ landed'[d] = landed[d]
        \/ /\ At(d, "push") /\ FastForward(d) /\ main' = Append(main, tree[d])
           /\ landed' = [landed EXCEPT ![d] = @ \cup {Len(main')}]
    <3>1. CASE External \/ UNCHANGED vars
      BY <3>1, Zenon DEF External, vars, aux
    <3>2. ASSUME NEW e \in Deployer, d # e, Advance(e) PROVE landed'[d] = landed[d]
      BY <2>0, <3>2, Frame, Zenon DEF Mine
    <3>3. CASE Advance(d)
      BY <3>3, Zenon DEF Advance, Call, Authorize, Clone, Patch, Commit, PushAcked,
         PushLost, PushRejected, PushFault, Fetch, Fail, aux
    <3> QED
      BY <3>1, <3>2, <3>3 DEF Next
  <2> QED
    BY <2>1, <2>2, <2>3
<1> QED
  BY <1>1, <1>2, Inductive, PTL DEF Spec

(* A retry writes again only what somebody has set back, or what an earlier *)
(* commit of the call had left out.                                         *)
THEOREM LandsAgainForCause == Spec => []LandsAgainOnlyIfNeeded
<1>1. IInv /\ (\A d \in Deployer : LandingInv(d)) => LandsAgainOnlyIfNeeded
  <2> SUFFICES ASSUME IInv, NEW d \in Deployer, LandingInv(d),
                      NEW p \in landed[d], NEW q \in landed[d], p < q
               PROVE  \E f \in Field :
                        /\ main[q][f] = Request[d].tag /\ main[q - 1][f] # Request[d].tag
                        /\ main[p][f] = Request[d].tag \/ f \in Key
    BY DEF LandsAgainOnlyIfNeeded
  <2>1. /\ p \in 2..Len(main) /\ q \in 2..Len(main)
        /\ main[p] \in Patches(main[p - 1], Request[d])
        /\ main[q] \in Patches(main[q - 1], Request[d]) /\ main[q] # main[q - 1]
    BY DEF LandingInv
  <2>2. main[p - 1] \in Tree /\ main[q - 1] \in Tree /\ Request[d] \in RequestSet
    <3>1. p - 1 \in 1..Len(main) /\ q - 1 \in 1..Len(main)
      BY <2>1, CallTypes DEF IInv
    <3> QED
      BY <3>1, TipIsTree, CallTypes DEF IInv, TypeOK
  <2>3. PICK f \in Field : /\ main[q][f] = Request[d].tag /\ main[q - 1][f] # Request[d].tag
                           /\ f \in Request[d].images \/ f \in Key
    BY <2>1, <2>2, PatchSets
  <2>4. Carries(main[p], Request[d])
    BY <2>1, <2>2, PatchFacts
  <2> QED
    BY <2>3, <2>4 DEF Carries
<1> QED
  BY <1>1, LandingsArePatches, Inductive, PTL

(* No commit of a call goes unreported. *)
THEOREM LandingIsReported == Spec => []LandedReportsChanged
<1>1. IInv => LandedReportsChanged
  BY DEF IInv, CallInv, CountInv, LandedReportsChanged
<1> QED
  BY <1>1, Inductive, PTL

-----------------------------------------------------------------------------
(***************************************************************************)
(* The refinement: seen from main, concurrent calls are atomic installs.   *)
(* What a call does to its clone is a stutter; a push that lands installs; *)
(* "nothing to push" confirms; every error return refuses.                 *)
(***************************************************************************)

Outcome == [d \in Deployer |-> Told(d)]

LEMMA OutcomeKept ==
  ASSUME UNCHANGED result
  PROVE  Outcome' = Outcome
  BY DEF Outcome, Told

LEMMA OutcomeReturned ==
  ASSUME TypeOK, NEW d \in Deployer, NEW how \in Result, how # "none", Return(d, how)
  PROVE  Outcome' = [Outcome EXCEPT ![d] = IF how = "ok" THEN "ok" ELSE "error"]
<1>1. result' = [result EXCEPT ![d] = how] /\ result \in [Deployer -> Result]
  BY Zenon DEF Return, TypeOK
<1>2. \A e \in Deployer : Told(e)' = IF e = d THEN IF how = "ok" THEN "ok" ELSE "error"
                                     ELSE Told(e)
  BY <1>1 DEF Told
<1> QED
  BY <1>2 DEF Outcome

LEMMA RetryOutcome ==
  ASSUME TypeOK, NEW d \in Deployer, Retry(d)
  PROVE  \/ Outcome' = Outcome
         \/ Outcome' = [Outcome EXCEPT ![d] = "error"]
<1>1. CASE attempt[d] < MaxRetries
  <2>1. UNCHANGED result
    BY <1>1 DEF Retry, Goto
  <2> QED
    BY <2>1, OutcomeKept
<1>2. CASE ~(attempt[d] < MaxRetries)
  <2>1. Return(d, "exhausted") /\ "exhausted" \in Result
    BY <1>2 DEF Retry, Result
  <2> QED
    BY <2>1, OutcomeReturned
<1> QED
  BY <1>1, <1>2

(* While a call runs its outcome is "none" and, once begun, it may write. *)
LEMMA Running ==
  ASSUME IInv, NEW d \in Deployer, pc[d] # "done"
  PROVE  Outcome[d] = "none" /\ (pc[d] # "idle" => begun[d] # 0)
  BY DEF IInv, CallInv, OutcomeInv, Outcome, Told

LEMMA Refusal ==
  ASSUME IInv, NEW d \in Deployer, pc[d] # "done", UNCHANGED <<main, begun>>,
         Outcome' = [Outcome EXCEPT ![d] = "error"]
  PROVE  Abstract!Refuse(d)
  BY Running, Zenon DEF Abstract!Refuse, Outcome

(* A push of a checkout that is main's tip installs the patch of that tip. *)
LEMMA Installation ==
  ASSUME IInv, NEW d \in Deployer, pc[d] = "push", FastForward(d),
         main' = Append(main, tree[d]), UNCHANGED begun,
         \E o \in {"none", "ok", "error"} : Outcome' = [Outcome EXCEPT ![d] = o]
  PROVE  Abstract!Install(d)
<1>1. Outcome[d] = "none" /\ begun[d] # 0
  BY Running
<1>2. main[base[d]] = Tip(main)
  BY DEF FastForward, Tip
<1>3. /\ Patchable(Tip(main), Request[d])
      /\ tree[d] \in Patches(Tip(main), Request[d])
      /\ tree[d] # Tip(main)
  BY <1>2 DEF IInv, CallInv, CheckoutInv
<1>4. /\ Abstract!Patchable(Abstract!Tip(main), Request[d])
      /\ tree[d] \in Abstract!Patches(Abstract!Tip(main), Request[d])
      /\ tree[d] # Abstract!Tip(main)
  BY <1>3, Zenon DEF Patchable, Abstract!Patchable, Tip, Abstract!Tip, Patches,
     Abstract!Patches, Write, Abstract!Write, Field, Abstract!Field
<1> QED
  BY <1>1, <1>4, Zenon DEF Abstract!Install, Outcome

LEMMA Confirmation ==
  ASSUME IInv, IInv', NEW d \in Deployer, pc[d] # "done", pc[d] # "idle",
         result'[d] = "ok", UNCHANGED <<main, begun, cloned>>,
         Outcome' = [Outcome EXCEPT ![d] = "ok"]
  PROVE  Abstract!Confirm(d)
<1>1. Outcome[d] = "none" /\ begun[d] # 0
  BY Running
<1>2. PICK i \in cloned'[d]..Len(main') : Carries(main'[i], Request[d])
  BY DEF IInv, CallInv, OutcomeInv
<1>3. i \in 1..Len(main) /\ i + CacheLag >= begun[d] /\ Carries(main[i], Request[d])
  <2>1. begun'[d] <= cloned'[d] + CacheLag
    BY DEF IInv, CallInv, OutcomeInv
  <2>2. begun[d] <= cloned[d] + CacheLag /\ i \in cloned[d]..Len(main)
    BY <1>2, <2>1
  <2>3. i \in 1..Len(main) /\ i + CacheLag >= begun[d]
    BY <2>2, CallTypes DEF IInv
  <2> QED
    BY <1>2, <2>3
<1>4. Abstract!Carries(main[i], Request[d])
  BY <1>3 DEF Carries, Abstract!Carries
<1> QED
  BY <1>1, <1>3, <1>4, Zenon DEF Abstract!Confirm, Outcome

(* Each step of a call is a step of GitopsMain, or none at all. *)
LEMMA StepRefines ==
  ASSUME IInv, IInv', NEW d \in Deployer, Advance(d)
  PROVE  (\/ Abstract!Begin(d) \/ Abstract!Install(d)
          \/ Abstract!Confirm(d) \/ Abstract!Refuse(d))
         \/ UNCHANGED <<main, begun, Outcome>>
<1> USE DEF At, aux
<1>0. TypeOK /\ "failed" \in Result /\ "ok" \in Result
  BY DEF IInv, Result
<1>1. CASE Call(d)
  <2>1. pc[d] = "idle" /\ begun' = [begun EXCEPT ![d] = Len(main)] /\ main' = main
    BY <1>1, Zenon DEF Call
  <2>2. begun[d] = 0
    BY <2>1 DEF IInv, CallInv, OutcomeInv
  <2>3. Outcome' = [Outcome EXCEPT ![d] = "none"] \/ Outcome' = [Outcome EXCEPT ![d] = "error"]
    <3>1. CASE Goto(d, "authorize")
      <4>1. Outcome' = Outcome /\ Outcome[d] = "none"
        BY <2>1, <3>1, OutcomeKept, Running DEF Goto
      <4> QED
        BY <4>1 DEF Outcome
    <3>2. CASE Return(d, "failed")
      BY <1>0, <3>2, OutcomeReturned
    <3> QED
      BY <1>1, <3>1, <3>2 DEF Call
  <2> QED
    BY <2>1, <2>2, <2>3, Zenon DEF Abstract!Begin, Outcome
<1>2. CASE Authorize(d)
  <2>1. pc[d] = "authorize" /\ UNCHANGED <<main, begun>>
    BY <1>2, Zenon DEF Authorize
  <2>2. CASE Goto(d, "clone")
    BY <2>1, <2>2, OutcomeKept DEF Goto
  <2>3. CASE Return(d, "failed")
    BY <1>0, <2>1, <2>3, OutcomeReturned, Refusal
  <2> QED
    BY <1>2, <2>2, <2>3 DEF Authorize
<1>3. CASE Clone(d) \/ Commit(d) \/ Fetch(d)
  <2>1. UNCHANGED <<main, begun, result>>
    BY <1>3 DEF Clone, Commit, Fetch, Goto
  <2> QED
    BY <2>1, OutcomeKept
<1>4. CASE Patch(d)
  <2>1. pc[d] = "patch" /\ UNCHANGED <<main, begun, cloned>>
    BY <1>4, Zenon DEF Patch
  <2>2. CASE Goto(d, "commit")
    BY <2>1, <2>2, OutcomeKept DEF Goto
  <2>3. CASE Return(d, "ok")
    <3>1. Outcome' = [Outcome EXCEPT ![d] = "ok"] /\ result'[d] = "ok"
      BY <1>0, <2>3, OutcomeReturned DEF Return, TypeOK
    <3> QED
      BY <2>1, <3>1, Confirmation
  <2>4. CASE Return(d, "failed")
    BY <1>0, <2>1, <2>4, OutcomeReturned, Refusal
  <2> QED
    BY <1>4, <2>2, <2>3, <2>4 DEF Patch
<1>5. CASE PushAcked(d)
  <2>1. /\ pc[d] = "push" /\ FastForward(d) /\ main' = Append(main, tree[d])
        /\ begun' = begun /\ Return(d, "ok")
    BY <1>5, Zenon DEF PushAcked
  <2>2. Outcome' = [Outcome EXCEPT ![d] = "ok"]
    BY <1>0, <2>1, OutcomeReturned
  <2> QED
    BY <2>1, <2>2, Installation
<1>6. CASE PushLost(d)
  <2>1. /\ pc[d] = "push" /\ FastForward(d) /\ main' = Append(main, tree[d])
        /\ begun' = begun /\ Retry(d)
    BY <1>6, Zenon DEF PushLost
  <2>2. Outcome[d] = "none"
    BY <2>1, Running
  <2>3. Outcome' = [Outcome EXCEPT ![d] = "none"] \/ Outcome' = [Outcome EXCEPT ![d] = "error"]
    BY <1>0, <2>1, <2>2, RetryOutcome DEF Outcome
  <2> QED
    BY <2>1, <2>3, Installation
<1>7. CASE PushRejected(d) \/ PushFault(d)
  <2>1. pc[d] = "push" /\ UNCHANGED <<main, begun>> /\ Retry(d)
    BY <1>7, Zenon DEF PushRejected, PushFault
  <2> QED
    BY <1>0, <2>1, RetryOutcome, Refusal
<1>8. CASE Fail(d)
  <2>1. pc[d] # "done" /\ UNCHANGED <<main, begun>> /\ Return(d, "failed")
    BY <1>8 DEF Fail
  <2> QED
    BY <1>0, <2>1, OutcomeReturned, Refusal
<1> QED
  BY <1>1, <1>2, <1>3, <1>4, <1>5, <1>6, <1>7, <1>8 DEF Advance

(* No lost update and no false success: Deploy implements the atomic       *)
(* installs of GitopsMain, whose Lag is the staleness of the gitcache.     *)
THEOREM Refinement == Spec => RefinesGitopsMain
<1>1. Init => Abstract!Init
  <2> SUFFICES ASSUME Init PROVE Abstract!Init
    OBVIOUS
  <2>1. PICK t \in Start : main = <<t>>
    BY DEF Init
  <2>2. t \in Abstract!Tree
    BY <2>1, DeployAssumption DEF Tree, Abstract!Tree, Field, Abstract!Field
  <2>3. \A d \in Deployer : Told(d) = "none"
    BY DEF Init, Told
  <2> QED
    BY <2>1, <2>2, <2>3 DEF Init, Abstract!Init
<1>2. IInv /\ IInv' /\ [Next]_vars => [Abstract!Next]_(Abstract!vars)
  <2> SUFFICES ASSUME IInv, IInv', [Next]_vars
               PROVE  Abstract!Next \/ UNCHANGED <<main, begun, Outcome>>
    BY Zenon DEF Abstract!vars, Outcome
  <2>1. ASSUME NEW d \in Deployer, Advance(d)
        PROVE  Abstract!Next \/ UNCHANGED <<main, begun, Outcome>>
    BY <2>1, StepRefines, Zenon DEF Abstract!Next
  <2>2. CASE External
    <3>1. PICK f \in Field, v \in Foreign : main' = Append(main, [Tip(main) EXCEPT ![f] = v])
      BY <2>2 DEF External
    <3>2. [Tip(main) EXCEPT ![f] = v] \in Abstract!Tree
      BY TipIsTree, RewrittenIsTree, DeployAssumption
         DEF IInv, TypeOK, Tree, Abstract!Tree, Field, Abstract!Field
    <3>3. UNCHANGED <<begun, Outcome>>
      BY <2>2, OutcomeKept, Zenon DEF External, local, aux
    <3>4. Abstract!External
      BY <3>1, <3>2, <3>3, Zenon DEF Abstract!External, Outcome
    <3> QED
      BY <3>4, Zenon DEF Abstract!Next
  <2>3. CASE UNCHANGED vars
    BY <2>3, OutcomeKept DEF vars, local, aux
  <2> QED
    BY <2>1, <2>2, <2>3 DEF Next
<1> QED
  BY <1>1, <1>2, Inductive, PTL DEF Spec, RefinesGitopsMain, Abstract!Spec

-----------------------------------------------------------------------------
(* The steps a call has left: three in each round of patch, commit and     *)
(* push, and a fetch before the next round.                                *)

Ahead ==
  [idle |-> 2, authorize |-> 1, clone |-> 0, fetch |-> 4, patch |-> 3, commit |-> 2, push |-> 1]

Rounds(d) ==
  IF pc[d] \in {"idle", "authorize", "clone"} THEN MaxRetries ELSE MaxRetries - attempt[d]

StepsLeft(d) == IF pc[d] = "done" THEN 0 ELSE 4 * Rounds(d) + Ahead[pc[d]]

(* A call has at most 4 * MaxRetries + 2 of them before it, and none only  *)
(* when it has returned.                                                   *)
Countdown ==
  \A d \in Deployer :
    /\ StepsLeft(d) \in Nat
    /\ pc[d] = "idle" => StepsLeft(d) = 4 * MaxRetries + 2
    /\ StepsLeft(d) = 0 => pc[d] = "done"

(* A step of one call, which comes nearer its end. *)
Nearer(d) ==
  /\ StepsLeft(d)' < StepsLeft(d)
  /\ \A e \in Deployer \ {d} : StepsLeft(e)' = StepsLeft(e)

LEMMA CountdownFacts == TypeOK => Countdown
<1> SUFFICES ASSUME TypeOK, NEW d \in Deployer
             PROVE  /\ StepsLeft(d) \in Nat
                    /\ pc[d] = "idle" => StepsLeft(d) = 4 * MaxRetries + 2
                    /\ StepsLeft(d) = 0 => pc[d] = "done"
  BY DEF Countdown
<1>1. pc[d] \in Step /\ attempt[d] \in 0..MaxRetries /\ MaxRetries \in Nat /\ MaxRetries >= 1
  BY DeployAssumption DEF TypeOK
<1>2. CASE pc[d] \in {"idle", "authorize", "clone"}
  <2>1. Ahead[pc[d]] \in 0..2 /\ Rounds(d) = MaxRetries /\ (pc[d] = "idle" => Ahead[pc[d]] = 2)
    BY <1>2 DEF Ahead, Rounds
  <2> QED
    BY <1>1, <1>2, <2>1 DEF StepsLeft
<1>3. CASE pc[d] \in {"fetch", "patch", "commit", "push"}
  <2>1. Ahead[pc[d]] \in 1..4 /\ Rounds(d) = MaxRetries - attempt[d] /\ pc[d] # "idle"
    BY <1>3 DEF Ahead, Rounds
  <2>2. Rounds(d) \in Nat
    BY <1>1, <2>1
  <2> QED
    BY <1>3, <2>1, <2>2 DEF StepsLeft
<1>4. CASE pc[d] = "done"
  BY <1>4 DEF StepsLeft
<1> QED
  BY <1>1, <1>2, <1>3, <1>4 DEF Step

(* Where a step of a call leads, and what it does to the attempts.         *)
LEMMA StepGoes ==
  ASSUME TypeOK, NEW d \in Deployer, Advance(d)
  PROVE  \/ /\ <<pc[d], pc'[d]>> \in {<<"idle", "authorize">>, <<"authorize", "clone">>,
                 <<"patch", "commit">>, <<"commit", "push">>, <<"fetch", "patch">>}
            /\ attempt'[d] = attempt[d]
         \/ pc[d] = "clone" /\ pc'[d] = "patch" /\ attempt'[d] = 1
         \/ pc[d] = "push" /\ pc'[d] = "fetch" /\ attempt'[d] = attempt[d] + 1
         \/ pc[d] # "done" /\ pc'[d] = "done"
<1>1. pc \in [Deployer -> Step] /\ attempt \in [Deployer -> 0..MaxRetries]
  BY DEF TypeOK
<1>2. CASE Call(d) \/ Authorize(d) \/ Clone(d)
  BY <1>1, <1>2 DEF Call, Authorize, Clone, At, Goto, Return
<1>3. CASE Patch(d) \/ Commit(d) \/ Fetch(d) \/ Fail(d)
  BY <1>1, <1>3 DEF Patch, Commit, Fetch, Fail, At, Goto, Return
<1>4. CASE PushAcked(d) \/ PushLost(d) \/ PushRejected(d) \/ PushFault(d)
  BY <1>1, <1>4 DEF PushAcked, PushLost, PushRejected, PushFault, Retry, At, Goto, Return
<1> QED
  BY <1>2, <1>3, <1>4 DEF Advance

LEMMA NearerStep ==
  ASSUME TypeOK, TypeOK', NEW d \in Deployer, Advance(d)
  PROVE  Nearer(d)
<1>1. /\ attempt[d] \in 0..MaxRetries /\ attempt'[d] \in 0..MaxRetries
      /\ MaxRetries \in Nat /\ MaxRetries >= 1
  BY DeployAssumption DEF TypeOK
<1>2. StepsLeft(d)' < StepsLeft(d)
  <2> DEFINE left == StepsLeft(d)
             next == StepsLeft(d)'
  <2>1. CASE <<pc[d], pc'[d]>> \in {<<"idle", "authorize">>, <<"authorize", "clone">>}
    BY <1>1, <2>1 DEF StepsLeft, Rounds, Ahead
  <2>2. CASE /\ <<pc[d], pc'[d]>> \in {<<"patch", "commit">>, <<"commit", "push">>, <<"fetch", "patch">>}
             /\ attempt'[d] = attempt[d]
    BY <1>1, <2>2 DEF StepsLeft, Rounds, Ahead
  <2>3. CASE pc[d] = "clone" /\ pc'[d] = "patch" /\ attempt'[d] = 1
    <3>1. left = 4 * MaxRetries /\ next = 4 * (MaxRetries - 1) + 3
      BY <1>1, <2>3 DEF StepsLeft, Rounds, Ahead
    <3> QED
      BY <1>1, <3>1
  <2>4. CASE pc[d] = "push" /\ pc'[d] = "fetch" /\ attempt'[d] = attempt[d] + 1
    <3>1. left = 4 * (MaxRetries - attempt[d]) + 1 /\ next = 4 * (MaxRetries - (attempt[d] + 1)) + 4
      BY <1>1, <2>4 DEF StepsLeft, Rounds, Ahead
    <3> QED
      BY <1>1, <3>1
  <2>5. CASE pc[d] # "done" /\ pc'[d] = "done"
    BY <2>5, CountdownFacts DEF Countdown, StepsLeft
  <2> QED
    BY <2>1, <2>2, <2>3, <2>4, <2>5, StepGoes
<1>3. \A e \in Deployer \ {d} : pc'[e] = pc[e] /\ attempt'[e] = attempt[e]
  BY Frame DEF Mine
<1>4. \A e \in Deployer \ {d} : StepsLeft(e)' = StepsLeft(e)
  BY <1>3 DEF StepsLeft, Rounds
<1> QED
  BY <1>2, <1>4 DEF Nearer

(* No call goes round forever: each of its steps leaves it fewer to take,  *)
(* whatever beats its pushes, so that it returns within 4 * MaxRetries + 2 *)
(* steps of its own if only it is scheduled. Other calls cannot set it     *)
(* back.                                                                   *)
THEOREM CallsAreBounded ==
  Spec => []Countdown /\ [][External \/ \E d \in Deployer : Nearer(d)]_vars
<1>1. TypeOK /\ TypeOK' /\ [Next]_vars => [External \/ \E d \in Deployer : Nearer(d)]_vars
  BY NearerStep DEF Next
<1> QED
  BY <1>1, CountdownFacts, TypeCorrect, PTL DEF Spec
=============================================================================

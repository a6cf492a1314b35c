----------------------------- MODULE GitopsMain -----------------------------
(***************************************************************************)
(* What gitops.Deploy promises, seen from the branch main: however many    *)
(* calls run at once, each commit is one call's patch applied to the tip   *)
(* it lands on, and a call that reports success is telling the truth about *)
(* some tip main had while the call ran, or at most Lag commits before.    *)
(***************************************************************************)
EXTENDS GitopsRepo

CONSTANTS
  Deployer,   \* the calls of Deploy
  Request,    \* what each call is asked to write
  Lag         \* how many commits old a call's first view of main may be

VARIABLES
  main,       \* the trees of main's commits, oldest first
  begun,      \* Len(main) when the call began, 0 before
  outcome     \* what the call has returned

vars == <<main, begun, outcome>>

Init ==
  /\ main \in {<<t>> : t \in Tree}
  /\ begun = [d \in Deployer |-> 0]
  /\ outcome = [d \in Deployer |-> "none"]

(* The call is made, and possibly refused at once. *)
Begin(d) ==
  /\ begun[d] = 0
  /\ begun' = [begun EXCEPT ![d] = Len(main)]
  /\ \E o \in {"none", "error"} : outcome' = [outcome EXCEPT ![d] = o]
  /\ UNCHANGED main

(* A call that has begun and not returned adds its patch of the tip. The   *)
(* caller may learn of it at once, later, or be told that it failed.       *)
Install(d) ==
  /\ begun[d] # 0
  /\ outcome[d] = "none"
  /\ Patchable(Tip(main), Request[d])
  /\ \E t \in Patches(Tip(main), Request[d]) \ {Tip(main)} : main' = Append(main, t)
  /\ \E o \in {"none", "ok", "error"} : outcome' = [outcome EXCEPT ![d] = o]
  /\ UNCHANGED begun

Confirm(d) ==
  /\ begun[d] # 0
  /\ outcome[d] = "none"
  /\ \E i \in 1..Len(main) : i + Lag >= begun[d] /\ Carries(main[i], Request[d])
  /\ outcome' = [outcome EXCEPT ![d] = "ok"]
  /\ UNCHANGED <<main, begun>>

Refuse(d) ==
  /\ outcome[d] = "none"
  /\ outcome' = [outcome EXCEPT ![d] = "error"]
  /\ UNCHANGED <<main, begun>>

(* Anything else that writes the gitops repository. *)
External ==
  /\ \E t \in Tree : main' = Append(main, t)
  /\ UNCHANGED <<begun, outcome>>

Next ==
  \/ \E d \in Deployer : Begin(d) \/ Install(d) \/ Confirm(d) \/ Refuse(d)
  \/ External

Spec == Init /\ [][Next]_vars
=============================================================================

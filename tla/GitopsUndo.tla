----------------------------- MODULE GitopsUndo -----------------------------
(***************************************************************************)
(* What gitops.Revert promises, seen from the branch main: however many    *)
(* calls run at once and whatever others deploy meanwhile, each commit of  *)
(* a call is its target undone in the very tip it lands on, never empty    *)
(* and never over a conflict, and success is the landing of such a commit. *)
(***************************************************************************)
EXTENDS GitopsRepo

CONSTANTS
  Reverter,   \* the calls of Revert
  Commit,     \* what each call reverts: a position in main, or HEAD
  Deploys,    \* requests that other pipelines may install
  Start       \* main when the calls begin

VARIABLES
  main,       \* the trees of main's commits, oldest first
  outcome     \* what each call has returned

vars == <<main, outcome>>

HEAD == 0

Init ==
  /\ main = Start
  /\ outcome = [r \in Reverter |-> "none"]

(* HEAD is whatever is the tip when the commit lands. *)
Target(r) == IF Commit[r] = HEAD THEN Len(main) ELSE Commit[r]

(* A call takes its target back. The caller may learn of it at once, or be *)
(* told that it failed, or the call goes on without having heard of it.    *)
Undo(r) ==
  /\ outcome[r] = "none"
  /\ ~Conflicts(main, Tip(main), Target(r))
  /\ Undone(main, Tip(main), Target(r)) # Tip(main)
  /\ main' = Append(main, Undone(main, Tip(main), Target(r)))
  /\ \E o \in {"none", "ok", "error"} : outcome' = [outcome EXCEPT ![r] = o]

Refuse(r) ==
  /\ outcome[r] = "none"
  /\ outcome' = [outcome EXCEPT ![r] = "error"]
  /\ UNCHANGED main

(* Another pipeline's deploy lands. *)
Install ==
  /\ \E q \in Deploys :
       /\ Patchable(Tip(main), q)
       /\ \E t \in Patches(Tip(main), q) \ {Tip(main)} : main' = Append(main, t)
  /\ UNCHANGED outcome

Next ==
  \/ \E r \in Reverter : Undo(r) \/ Refuse(r)
  \/ Install

Spec == Init /\ [][Next]_vars
=============================================================================

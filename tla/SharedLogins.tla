---------------------------- MODULE SharedLogins ----------------------------
(***************************************************************************)
(* What the shared registry logins promise: a registry is logged in to     *)
(* once, when the first call gets to it, and what the login answered then  *)
(* holds for every call: a refusal ends each of them, and is not retried.  *)
(***************************************************************************)
EXTENDS Sequences

CONSTANTS
  Thread,       \* concurrent calls
  Host,         \* registries
  Registries    \* the registries each call logs in to, in order

VARIABLES
  answer,    \* what the login to each host answered
  left,      \* the registries each call has yet to go past
  result     \* how each call returned

vars == <<answer, left, result>>

Init ==
  /\ answer = [h \in Host |-> "none"]
  /\ left = Registries
  /\ result = [t \in Thread |-> "none"]

AtHost(t, h) ==
  /\ result[t] = "none"
  /\ left[t] # << >>
  /\ Head(left[t]) = h

(* The one login to a host, in some call that has come to it. *)
Authenticate(h) ==
  /\ answer[h] = "none"
  /\ \E t \in Thread : AtHost(t, h)
  /\ \E o \in {"nil", "refused"} : answer' = [answer EXCEPT ![h] = o]
  /\ UNCHANGED <<left, result>>

Pass(t) ==
  /\ \E h \in Host : AtHost(t, h) /\ answer[h] = "nil"
  /\ left' = [left EXCEPT ![t] = Tail(@)]
  /\ UNCHANGED <<answer, result>>

GiveUp(t) ==
  /\ \E h \in Host : AtHost(t, h) /\ answer[h] = "refused"
  /\ result' = [result EXCEPT ![t] = "failed"]
  /\ UNCHANGED <<answer, left>>

Proceed(t) ==
  /\ result[t] = "none"
  /\ left[t] = << >>
  /\ result' = [result EXCEPT ![t] = "ok"]
  /\ UNCHANGED <<answer, left>>

Next ==
  \/ \E h \in Host : Authenticate(h)
  \/ \E t \in Thread : Pass(t) \/ GiveUp(t) \/ Proceed(t)

Spec == Init /\ [][Next]_vars
=============================================================================

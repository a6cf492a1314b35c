------------------------------ MODULE HealthProbe ------------------------------
(***************************************************************************)
(* probe: what one exchange says about the health of a deployment. Check   *)
(* repeats it, and its last verdict decides.                               *)
(***************************************************************************)
EXTENDS Naturals

NoAnswer == [status |-> 0, body |-> "none"]

(* What the caller expects: an exact status or, with 0, any success, and   *)
(* possibly values in a JSON body.                                         *)
Expectation == [code: {0, 200, 401, 503}, json: BOOLEAN]

Reply == [status: {200, 302, 401, 403, 503},
          body: {"undecodable", "lacks path", "differs", "matches"}]

AsExpected(e, status) == IF e.code = 0 THEN status \in 200..299 ELSE status = e.code

(* Broken variant: a refused credential counts as an unhealthy answer. *)
OnceIgnoringAuth(e, a) ==
  IF a = NoAnswer THEN "indeterminate"
  ELSE IF ~AsExpected(e, a.status) THEN "unhealthy"
  ELSE IF e.json /\ a.body = "undecodable" THEN "indeterminate"
  ELSE IF e.json /\ a.body # "matches" THEN "unhealthy"
  ELSE "healthy"

(* once: the checks in their order. A transport that fails at any point,   *)
(* or a credential that cannot be made, is no answer.                      *)
Once(e, a) ==
  IF a = NoAnswer \/ a.status \in {401, 403} THEN "indeterminate"
  ELSE IF ~AsExpected(e, a.status) THEN "unhealthy"
  ELSE IF e.json /\ a.body = "undecodable" THEN "indeterminate"
  ELSE IF e.json /\ a.body # "matches" THEN "unhealthy"
  ELSE "healthy"

Indeterminate(verdict) == verdict = "indeterminate"
===============================================================================

----------------------------- MODULE MCLoginOnce -----------------------------
(* Three builds that push to two registries, in different orders. *)
EXTENDS LoginOnce, TLC

CONSTANTS east, west, t1, t2, t3

LoginOrders == [t \in Thread |-> CASE t = t1 -> <<east, west>>
                              [] t = t2 -> <<west, east>>
                              [] OTHER -> <<east>>]
=============================================================================

----------------------------- MODULE MCCheckout -----------------------------
(***************************************************************************)
(* A session with two orders, one after the other, and two threads that    *)
(* may run requests for the same order.  The session has two coupons for   *)
(* one product, one of them with an unusable discount, and may also ask    *)
(* for the coupon of another session.                                      *)
(***************************************************************************)
EXTENDS Checkout, TLC

CONSTANTS s1, s2, o1, o2, k1, k2, k3, bread, milk

MCHolder == k1 :> s1 @@ k2 :> s1 @@ k3 :> s2

MCProductOf == k1 :> bread @@ k2 :> bread @@ k3 :> milk

MCShopper == o1 :> s1 @@ o2 :> s1

MCBaskets ==
  {[cart |-> {bread}, coupons |-> {k1}],
   [cart |-> {bread, milk}, coupons |-> {k1, k2, k3}],
   [cart |-> {milk}, coupons |-> {k1, k3}]}
=============================================================================

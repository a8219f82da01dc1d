--------------------------- MODULE MCActivityFeed ----------------------------
(***************************************************************************)
(* A room and a storefront.  The session of the storefront gets coupons,   *)
(* another one is only observed.                                           *)
(***************************************************************************)
EXTENDS ActivityFeed, TLC

CONSTANTS shop, mine, other

MCOwner == shop :> mine

MCTraffic == {[kind |-> "coupon_issued", session |-> mine],
              [kind |-> "event_received", session |-> other]}
=============================================================================

-------------------------- MODULE MCCouponPipeline --------------------------
(* Small instances of CouponPipeline.  bread and milk both support tea,    *)
(* milk with the larger lift; the rule from tea to bread is too weak.      *)
EXTENDS CouponPipeline

CONSTANTS s1, s2, s3, part, bread, milk, tea, c1, c2

Rated(l, c, s) == [lift |-> l, confidence |-> c, support |-> s]

MCRule ==
  [pair \in {<<bread, tea>>, <<milk, tea>>, <<tea, bread>>}
              \cap (Products \X Products) |->
     CASE pair = <<bread, tea>> -> Rated(2, 1, 1)
       [] pair = <<milk, tea>> -> Rated(3, 1, 1)
       [] pair = <<tea, bread>> -> Rated(1, 1, 1)]

OnePartition == [s \in Sessions |-> part]

Act(kind, s, p) == [kind |-> kind, session |-> s, product |-> p, dwelt |-> FALSE]
LongView(s, p) ==
  [kind |-> "product_view_ended", session |-> s, product |-> p, dwelt |-> TRUE]

(* One session that puts bread into its basket and looks at tea. *)
HesitatingTraffic ==
  {Act("cart_item_added", s1, bread), LongView(s1, tea)}

(* Three sessions; the first does everything a shopper can do. *)
MixedTraffic ==
  {Act("cart_item_added", s1, p) : p \in {bread, milk, tea}}
  \cup {LongView(s1, tea), Act("product_view_ended", s1, tea),
        Act("cart_item_removed", s1, bread), Act("coupon_applied", s1, tea),
        Act("checkout_completed", s1, bread), Act("cart_item_added", s2, bread),
        LongView(s2, tea), Act("product_view_started", s3, tea)}

(* One session that adds and takes back units of tea. *)
QuantityTraffic ==
  HesitatingTraffic
  \cup {Act("cart_item_added", s1, tea), Act("cart_item_removed", s1, tea)}
=============================================================================

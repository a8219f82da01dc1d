------------------------- MODULE MCAdaptiveFeedback -------------------------
(***************************************************************************)
(* One session, one product.  added and bought update its matrix, garbled  *)
(* does not validate.                                                      *)
(***************************************************************************)
EXTENDS AdaptiveFeedback, TLC

CONSTANTS added, bought, garbled, shopper, p1

MCKind ==
  [e \in Events |-> CASE e = added   -> "cart_item_added"
                      [] e = bought  -> "checkout_completed"
                      [] OTHER       -> "product_view_ended"]

MCAbout == [e \in Events |-> {p1}]

MCSessionOf == [e \in Events |-> shopper]
=============================================================================

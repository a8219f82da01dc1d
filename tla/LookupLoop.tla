----------------------------- MODULE LookupLoop -----------------------------
(***************************************************************************)
(* The loop of CouponEngine.evaluate that looks every cart item up in the  *)
(* rule snapshot.  state.cart is a Python set of strings, so the order of  *)
(* the iteration differs from one process to the next: Examine takes any   *)
(* item not yet visited.  The loop is shown to compute the order-free      *)
(* operators of CouponPolicy.                                              *)
(***************************************************************************)
EXTENDS CouponPolicy

CONSTANT NoItem

ASSUME NoItemAssumption == NoItem \notin Products

VARIABLES
  cart,        \* state.cart
  product,     \* the product whose view ended, not in the cart
  unvisited,   \* cart items the iterator has still to yield
  best,        \* supporting item of the best candidate, NoItem for None
  rejectedForConfidence, rejectedForSupport,
  reason       \* "looping" until the loop ends, then the reason returned

vars == <<cart, product, unvisited, best, rejectedForConfidence,
          rejectedForSupport, reason>>

Reasons == {"looping", "qualified", "below_confidence_threshold",
            "below_support_threshold", "no_qualifying_rule"}

TypeOK ==
  /\ cart \subseteq Products
  /\ product \in Products
  /\ unvisited \subseteq cart
  /\ best \in cart \cup {NoItem}
  /\ rejectedForConfidence \in BOOLEAN
  /\ rejectedForSupport \in BOOLEAN
  /\ reason \in Reasons

(* A wrong variant keeps the latest candidate instead of comparing lifts.  *)
BeatsLatest(item) == TRUE

(* candidate[0] > best[0]: a tie keeps the candidate met first. *)
Beats(item) ==
  \/ best = NoItem
  \/ Rule[<<item, product>>].lift > Rule[<<best, product>>].lift

(* The iterator yields an item. *)
Visit(item) == item \in unvisited /\ unvisited' = unvisited \ {item}

(* No rule, or a lift below the threshold: continue. *)
SkipUnassociated(item) ==
  /\ Visit(item)
  /\ ~Associated(item, product)
  /\ UNCHANGED <<cart, product, best, rejectedForConfidence, rejectedForSupport, reason>>

RejectConfidence(item) ==
  /\ Visit(item)
  /\ Associated(item, product) /\ ~Confident(item, product)
  /\ rejectedForConfidence' = TRUE
  /\ UNCHANGED <<cart, product, best, rejectedForSupport, reason>>

RejectSupport(item) ==
  /\ Visit(item)
  /\ Confident(item, product) /\ ~Qualifies(item, product)
  /\ rejectedForSupport' = TRUE
  /\ UNCHANGED <<cart, product, best, rejectedForConfidence, reason>>

Consider(item) ==
  /\ Visit(item)
  /\ Qualifies(item, product)
  /\ best' = IF Beats(item) THEN item ELSE best
  /\ UNCHANGED <<cart, product, rejectedForConfidence, rejectedForSupport, reason>>

Examine(item) ==
  \/ SkipUnassociated(item)
  \/ RejectConfidence(item)
  \/ RejectSupport(item)
  \/ Consider(item)

(* A wrong variant reports the support rejection first. *)
SupportFirstReason ==
  IF best # NoItem THEN "qualified"
  ELSE IF rejectedForSupport THEN "below_support_threshold"
  ELSE IF rejectedForConfidence THEN "below_confidence_threshold"
  ELSE "no_qualifying_rule"

LoopReason ==
  IF best # NoItem THEN "qualified"
  ELSE IF rejectedForConfidence THEN "below_confidence_threshold"
  ELSE IF rejectedForSupport THEN "below_support_threshold"
  ELSE "no_qualifying_rule"

Finish ==
  /\ reason = "looping"
  /\ unvisited = {}
  /\ reason' = LoopReason
  /\ UNCHANGED <<cart, product, unvisited, best, rejectedForConfidence, rejectedForSupport>>

Next == (\E item \in Products : Examine(item)) \/ Finish

-----------------------------------------------------------------------------
(* Whatever the order of iteration, the loop ends with a supporting item   *)
(* exactly when some cart item qualifies, and it is one of largest lift    *)
(* ("The strongest qualifying supporting cart item wins").                 *)
StrongestSupportWins ==
  reason # "looping" =>
    IF Strongest(cart, product) = {}
      THEN best = NoItem /\ reason # "qualified"
      ELSE best \in Strongest(cart, product) /\ reason = "qualified"

(* The suppression reason shown in the Signal Room does not depend on the  *)
(* order of iteration either: a confidence rejection of any cart item      *)
(* takes precedence over a support rejection of any other.                 *)
ReasonIsOrderFree ==
  reason \notin {"looping", "qualified"} => reason = Suppression(cart, product)

(* The inductive form: the loop variables summarise the visited items. *)
Visited == cart \ unvisited

LoopInvariant ==
  /\ TypeOK
  /\ IF best = NoItem
       THEN \A item \in Visited : ~Qualifies(item, product)
       ELSE best \in Visited /\ best \in Strongest(Visited, product)
  /\ rejectedForConfidence <=>
       \E item \in Visited : Associated(item, product) /\ ~Confident(item, product)
  /\ rejectedForSupport <=>
       \E item \in Visited : Confident(item, product) /\ ~Qualifies(item, product)
  /\ reason # "looping" => unvisited = {} /\ reason = LoopReason
=============================================================================

---------------------------- MODULE CouponPolicy ----------------------------
(***************************************************************************)
(* The coupon policy of pipeline/coupon_engine.py as operators: which cart *)
(* item supports an offer for a viewed product, and why a view is          *)
(* suppressed.  The rule snapshot is the constant Rule, a partial function *)
(* on ordered pairs <<antecedent, consequent>>; a pair outside its domain  *)
(* is a lookup that returns None.  Metrics are scaled to naturals, only    *)
(* their order against the thresholds and against each other matters.      *)
(***************************************************************************)
EXTENDS Naturals

CONSTANTS
  Products,       \* product identities of the catalog
  Rule,           \* the Redis rule snapshot
  MinLift, MinConfidence, MinSupport

Metrics == [lift : Nat, confidence : Nat, support : Nat]

ASSUME PolicyAssumption ==
  /\ DOMAIN Rule \subseteq Products \X Products
  /\ \A pair \in DOMAIN Rule : Rule[pair] \in Metrics
  /\ MinLift \in Nat /\ MinConfidence \in Nat /\ MinSupport \in Nat

-----------------------------------------------------------------------------
(* The filters of the lookup loop, in the order in which they are applied. *)

Associated(item, product) ==
  /\ <<item, product>> \in DOMAIN Rule
  /\ Rule[<<item, product>>].lift >= MinLift

Confident(item, product) ==
  Associated(item, product) /\ Rule[<<item, product>>].confidence >= MinConfidence

Qualifies(item, product) ==
  Confident(item, product) /\ Rule[<<item, product>>].support >= MinSupport

(* Cart items whose rule qualifies and has the largest lift.  There are    *)
(* several when lifts tie; the loop keeps the first one it meets.          *)
Strongest(cart, product) ==
  {item \in cart :
     /\ Qualifies(item, product)
     /\ \A other \in cart :
          Qualifies(other, product) =>
            Rule[<<other, product>>].lift =< Rule[<<item, product>>].lift}

(* The reason recorded when no cart item qualifies. *)
Suppression(cart, product) ==
  IF \E item \in cart : Associated(item, product) /\ ~Confident(item, product)
    THEN "below_confidence_threshold"
  ELSE IF \E item \in cart : Confident(item, product) /\ ~Qualifies(item, product)
    THEN "below_support_threshold"
  ELSE "no_qualifying_rule"
=============================================================================

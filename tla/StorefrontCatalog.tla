------------------------- MODULE StorefrontCatalog --------------------------
(***************************************************************************)
(* The catalog of the storefront and the candidate lists it offers for     *)
(* ranking (app/main.py).  rows is the rule artifact that load_data read;  *)
(* a product and its name are one value here, so the look-up of a rule's   *)
(* product by name or by catalog id is the same.                           *)
(***************************************************************************)
EXTENDS Integers, Sequences, SequencesExt, RuleArtifact

CONSTANTS
  Inventory,    \* the rows of products.csv: a sequence of [product, aisle]
  Limits        \* per page: the candidates asked for, how many are shown

ASSUME CatalogAssumption ==
  /\ Inventory \in Seq(ToSet(Inventory))
  /\ Limits.product \in Nat /\ Limits.recommend \in Nat
  /\ Limits.each \in Nat /\ Limits.basket \in Nat

(* The first n of a sequence. *)
Upto(s, n) == SubSeq(s, 1, IF Len(s) < n THEN Len(s) ELSE n)

(* A finite set in an order, where before[x] is what comes before x. *)
Ranked(S, before) ==
  [k \in 1..Cardinality(S) |-> CHOOSE x \in S : Cardinality(before[x]) = k - 1]

(* The entries of s at some of its places, in the order of s. *)
Picked(s, places) ==
  LET order == Ranked(places, [i \in places |-> {j \in places : j < i}])
  IN  [k \in DOMAIN order |-> s[order[k]]]

(* _analysis_product_ids and load_data: products that no rule names are    *)
(* not sold.                                                               *)
Catalog(rows) ==
  Picked(Inventory, {i \in DOMAIN Inventory : Inventory[i].product \in ProductsOf(rows)})

Sold(rows) == {entry.product : entry \in ToSet(Catalog(rows))}

AisleOf(product) == (CHOOSE entry \in ToSet(Inventory) : entry.product = product).aisle

(* The rules of a product, the largest lift first; of rules with the same  *)
(* consequent the first one counts.                                        *)
Pairings(rows, product) ==
  LET strongest == StrongestOf({w \in rows : /\ w.antecedent = product
                                             /\ w.consequent \in Sold(rows) \ {product}})
  IN  Ranked(strongest, [w \in strongest |->
                           {v \in strongest : \/ v.lift > w.lift
                                              \/ v.lift = w.lift /\ v.line < w.line}])

(* What is left of the aisle, each product once, in the catalog's order.   *)
AisleRest(rows, product, taken) ==
  LET catalog == Catalog(rows)
      places  == {i \in DOMAIN catalog : /\ catalog[i].aisle = AisleOf(product)
                                         /\ catalog[i].product \notin taken}
  IN  Picked(catalog,
             {i \in places : \A j \in places : j < i => catalog[j].product # catalog[i].product})

(* _related_products: paired products, then the rest of the aisle.  lift 0 *)
(* stands for a missing one.                                               *)
Related(rows, product, limit) ==
  LET rules  == Pairings(rows, product)
      paired == [k \in DOMAIN rules |-> [product |-> rules[k].consequent, lift |-> rules[k].lift]]
      rest   == AisleRest(rows, product, {product} \cup {c.product : c \in ToSet(paired)})
  IN  Upto(paired \o [k \in DOMAIN rest |-> [product |-> rest[k].product, lift |-> 0]], limit)

(* A product that is not sold has no page and counts for no basket.        *)
RelatedOfSold(rows, product, limit) ==
  IF product \in Sold(rows) THEN Related(rows, product, limit) ELSE <<>>

(* A wrong variant only leaves out what is in the basket.                  *)
OutsideOf(candidates, basket) ==
  SelectSeq(FlattenSeq(candidates), LAMBDA c : c.product \notin basket)

(* Of lists of candidates those outside a basket, each once, in its first  *)
(* place <<list, index>>.                                                  *)
FirstOutside(candidates, basket) ==
  LET At(p)  == candidates[p[1]][p[2]]
      Precedes(p, q) == p[1] < q[1] \/ (p[1] = q[1] /\ p[2] < q[2])
      places == {p \in UNION {{i} \X DOMAIN candidates[i] : i \in DOMAIN candidates} :
                   At(p).product \notin basket}
      first  == {p \in places :
                   \A q \in places : Precedes(q, p) => At(q).product # At(p).product}
      order  == Ranked(first, [p \in first |-> {q \in first : Precedes(q, p)}])
  IN  [k \in DOMAIN order |-> At(order[k])]

(* get_cart_recommendations: what goes with each product of the basket.    *)
WithBasket(rows, basket) ==
  Upto(FirstOutside([i \in DOMAIN basket |-> RelatedOfSold(rows, basket[i], Limits.each)],
                    ToSet(basket)),
       Limits.basket)

(* The list of a view: of a product page, of an answer of /api/recommend,  *)
(* of the pairings of a basket.                                            *)
ListOf(rows, view) ==
  CASE view.page = "product"   -> RelatedOfSold(rows, view.product, Limits.product)
    [] view.page = "recommend" -> RelatedOfSold(rows, view.product, Limits.recommend)
    [] view.page = "basket"    -> WithBasket(rows, view.basket)

ShownOf(view) == IF view.page = "recommend" THEN Limits.few ELSE Limits.shown

(* The prior score of a candidate: its lift or, without one, its place.    *)
Prior(list, i) == IF list[i].lift > 0 THEN list[i].lift ELSE 100 \div i
=============================================================================

--------------------------- MODULE MCRuleRelease ----------------------------
(* Three products, four orders of two shoppers, of which a sample keeps     *)
(* three.  The first source pairs 1 with 2 and 3, the second 2 with 3, and  *)
(* the third has a line of a product that no row names.                     *)
EXTENDS RuleRelease, TLC

CONSTANTS p1, p2, a, b

Product(i) == [row |-> i, product_id |-> i, aisle_id |-> 1, department_id |-> 1, sound |-> TRUE]
Order(i, user, set) ==
  [row |-> i, order_id |-> i, user_id |-> user, eval_set |-> set, sound |-> TRUE]
Line(order, product) ==
  [row |-> 1, order_id |-> order, product_id |-> product, sound |-> TRUE]

Source(prior, train) ==
  [aisles |-> {[row |-> 1, aisle_id |-> 1, sound |-> TRUE]},
   departments |-> {[row |-> 1, department_id |-> 1, sound |-> TRUE]},
   products |-> {Product(i) : i \in 1..3},
   orders |-> {Order(1, 1, "prior"), Order(2, 2, "train"), Order(3, 1, "prior"),
               Order(4, 2, "prior")},
   prior |-> prior, train |-> train]

MCTables ==
  <<Source({Line(1, 1), Line(1, 2), Line(3, 1), Line(3, 3), Line(4, 2)}, {Line(2, 2), Line(2, 1)}),
    Source({Line(1, 2), Line(1, 3), Line(3, 3), Line(4, 1)}, {Line(2, 2), Line(2, 3)}),
    Source({Line(1, 1), Line(1, 4), Line(3, 1), Line(3, 4)}, {Line(2, 2), Line(2, 1)})>>

MCViews == {<<{1, 3}, 2>>, <<{1, 2}, 3>>}

(* Nothing tells processes and run identifiers apart. *)
MCSymmetry == Permutations({p1, p2}) \cup Permutations({a, b})
=============================================================================

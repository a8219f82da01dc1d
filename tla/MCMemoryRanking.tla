-------------------------- MODULE MCMemoryRanking ---------------------------
(* Five products on two aisles, of which no artifact names the last.  The   *)
(* lists of the two views overlap, and so do those of the basket's items.   *)
EXTENDS MemoryRanking, TLC

CONSTANTS s, t, e, f

Row(line, antecedent, consequent, lift) ==
  [line |-> line, antecedent |-> antecedent, consequent |-> consequent, lift |-> lift]

MCInventory == <<[product |-> 1, aisle |-> 1], [product |-> 2, aisle |-> 2],
                 [product |-> 3, aisle |-> 1], [product |-> 4, aisle |-> 2],
                 [product |-> 5, aisle |-> 1]>>

MCArtifacts == {{Row(1, 1, 2, 300), Row(2, 1, 2, 250), Row(3, 3, 2, 200), Row(4, 2, 1, 150),
                 Row(5, 4, 2, 120)},
                {Row(1, 1, 3, 200), Row(2, 2, 3, 300), Row(3, 2, 4, 90)}}

MCLimits == [product |-> 2, recommend |-> 2, each |-> 2, basket |-> 2, shown |-> 2, few |-> 1]

MCViews == {[page |-> "product", product |-> 3, basket |-> <<>>],
            [page |-> "basket", product |-> None, basket |-> <<1, 2>>]}

MCClicks == {[kind |-> "removed", products |-> <<3>>], [kind |-> "added", products |-> <<3>>],
             [kind |-> "bought", products |-> <<3, 4>>]}

MCSymmetry == Permutations({s, t}) \cup Permutations({e, f})
=============================================================================

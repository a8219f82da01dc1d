------------------------- MODULE MCSimulatedSession -------------------------
(* Five products, numbered in the order of their names.  The rules towards *)
(* 5 and 4 hold every case of the loop: a tie of the largest lift, a       *)
(* stronger lift rejected for confidence, one rejected for support, a lift *)
(* below the threshold and a missing pair; 1, 2 and 3 also go together.    *)
EXTENDS SimulatedSession

Row(line, a, c, l, k, s) ==
  [line |-> line, antecedent |-> a, consequent |-> c, lift |-> l, confidence |-> k, support |-> s]

MCRows ==
  {Row(1, 1, 5, 3, 2, 2), Row(2, 2, 5, 3, 2, 2), Row(3, 3, 5, 5, 1, 2), Row(4, 4, 5, 2, 2, 2),
   Row(5, 1, 4, 4, 2, 1), Row(6, 2, 4, 4, 1, 2), Row(7, 3, 4, 1, 2, 2), Row(8, 5, 3, 2, 2, 2),
   Row(9, 1, 2, 2, 2, 2), Row(10, 1, 3, 2, 2, 2), Row(11, 5, 1, 2, 2, 3)}

MCRule == Loaded(MCRows, [lift |-> 2, confidence |-> 2, support |-> 2])
=============================================================================

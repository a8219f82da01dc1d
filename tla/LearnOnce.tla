----------------------------- MODULE LearnOnce ------------------------------
(***************************************************************************)
(* What the adaptive service promises of feedback (docs/architecture.md,   *)
(* "Shared feedback mutations and their event claim commit atomically"):   *)
(* an event is applied in one step, at most once, and that step adds it to *)
(* the matrices of some products.  The promise ends when it is broken.     *)
(***************************************************************************)
EXTENDS Naturals

CONSTANTS Events, Products

VARIABLES
  applied,        \* events that were applied
  model,          \* how often the matrix of a product contains an event
  broken          \* the promise does not hold any more

vars == <<applied, model, broken>>

Init ==
  /\ applied = {}
  /\ model = [p \in Products |-> [e \in Events |-> 0]]
  /\ broken = FALSE

Learn(e, attributed) ==
  /\ ~broken /\ e \notin applied
  /\ applied' = applied \cup {e}
  /\ model' = [p \in Products |-> IF p \in attributed
                 THEN [model[p] EXCEPT ![e] = @ + 1] ELSE model[p]]
  /\ broken' = FALSE

Break == broken' = TRUE

Next == (\E e \in Events, attributed \in SUBSET Products : Learn(e, attributed)) \/ Break

Spec == Init /\ [][Next]_vars
=============================================================================

---------------------------- MODULE RuleArtifact ----------------------------
(***************************************************************************)
(* The rule artifact (app/rules.csv, or rules_serving.csv of a batch run)  *)
(* and what its readers make of it: load_rules for Redis, the simulator    *)
(* and the scripted producer for the sessions they publish.  A row is a    *)
(* record of names and metrics, line is its place in the file; limits are  *)
(* the least lift, confidence and support that a reader was given.         *)
(***************************************************************************)
EXTENDS Naturals, FiniteSets

Pair(w) == <<w.antecedent, w.consequent>>

Antecedents(rows) == {w.antecedent : w \in rows}
ProductsOf(rows)  == {w.antecedent : w \in rows} \cup {w.consequent : w \in rows}

(* Of each pair of names the row with the largest lift, the first of them. *)
StrongestOf(rows) ==
  {w \in rows :
     \A v \in rows : Pair(v) = Pair(w) =>
       v.lift < w.lift \/ (v.lift = w.lift /\ w.line =< v.line)}

(* A wrong variant looks at the lift alone. *)
WithinLift(w, limits) == w.lift >= limits.lift

WithinLimits(w, limits) ==
  w.lift >= limits.lift /\ w.confidence >= limits.confidence /\ w.support >= limits.support

(* load_rules: the strongest row of a pair, whatever its other metrics. *)
StrongestRows(rows, limits) ==
  StrongestOf({w \in rows : w.antecedent # w.consequent /\ w.lift >= limits.lift})

-----------------------------------------------------------------------------
(* SimulationCatalog. *)

(* from_csv: of the rows within all limits, the strongest of each pair. *)
SamplePairs(rows, limits) ==
  {Pair(w) : w \in
     StrongestOf({w \in rows : w.antecedent # w.consequent /\ WithinLimits(w, limits)})}

(* A wrong variant may choose a product that goes with the cart. *)
AnyOther(rows, limits, item) == ProductsOf(rows) \ {item}

(* choose_non_match: any product, when every other one is blocked. *)
NonMatches(rows, limits, item) ==
  LET blocked == {pair[2] : pair \in {q \in SamplePairs(rows, limits) : q[1] = item}} \cup {item}
      free    == ProductsOf(rows) \ blocked
  IN  IF free = {} THEN ProductsOf(rows) ELSE free

(* Cart and product before a decoy: a sampled pair, or a pair of no_match. *)
Chosen(rows, limits, scenario) ==
  IF scenario # "no_match" THEN SamplePairs(rows, limits)
  ELSE {pair \in ProductsOf(rows) \X ProductsOf(rows) :
          pair[2] \in NonMatches(rows, limits, pair[1])}

Scenarios == {"eligible", "short_view", "already_in_cart", "no_match"}

(* plan_session.  A decoy is added unless it is in the cart or the product *)
(* to view; only a short view ends below the dwell threshold.  Without any *)
(* pair nothing can be planned: choose_pair raises, in every scenario.     *)
Plans(rows, limits) ==
  IF SamplePairs(rows, limits) = {} THEN {}
  ELSE UNION {
    {[scenario |-> scenario, dwells |-> scenario # "short_view", viewed |-> pair[2],
      pair |-> pair[1],
      cart |-> {pair[1]} \cup (decoy \ {pair[2]})
                 \cup (IF scenario = "already_in_cart" THEN {pair[2]} ELSE {})] :
       pair \in Chosen(rows, limits, scenario),
       decoy \in {{}} \cup {{p} : p \in ProductsOf(rows)}} : scenario \in Scenarios}

-----------------------------------------------------------------------------
(* producer.qualifying_pair: the row within the limits with the largest    *)
(* lift, confidence and support, in this order; a product with itself is   *)
(* not excluded.  Rows that tie in all three are compared by their names,  *)
(* which leaves any of them.                                               *)
Exceeds(v, w) ==
  \/ v.lift > w.lift
  \/ v.lift = w.lift /\ v.confidence > w.confidence
  \/ v.lift = w.lift /\ v.confidence = w.confidence /\ v.support > w.support

(* The session of hesitation_scenario, if some row is within the limits. *)
Scripted(rows, limits) ==
  LET within == {w \in rows : WithinLimits(w, limits)}
  IN  {[scenario |-> "hesitation", dwells |-> TRUE, viewed |-> w.consequent,
        pair |-> w.antecedent, cart |-> {w.antecedent}] :
         w \in {v \in within : \A u \in within : ~Exceeds(u, v)}}
=============================================================================

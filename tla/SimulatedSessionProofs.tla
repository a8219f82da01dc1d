----------------------- MODULE SimulatedSessionProofs -----------------------
(***************************************************************************)
(* For every catalog, artifact, thresholds and session, and for every      *)
(* order of iteration: the lookup loop computes the order-free policy, and *)
(* the sessions of the simulator end as they were planned.                 *)
(***************************************************************************)
EXTENDS SimulatedSession, TLAPS

(* The metrics that are compared are numbers. *)
LEMMA LiftIsNumber ==
  ASSUME NEW item, NEW p, Qualifies(item, p)
  PROVE  Rule[<<item, p>>].lift \in Nat
BY PolicyAssumption DEF Qualifies, Confident, Associated, Metrics

(* Visiting one more item. *)
LEMMA VisitedGrows ==
  ASSUME TypeOK, NEW item, Visit(item), UNCHANGED cart
  PROVE  item \in cart /\ Visited' = Visited \cup {item}
BY DEF TypeOK, Visit, Visited

(* Each action of the loop preserves the invariant. *)
LEMMA LoopStep == LoopInvariant /\ [Next]_vars => LoopInvariant'
<1> SUFFICES ASSUME LoopInvariant, [Next]_vars PROVE LoopInvariant'
  OBVIOUS
<1> USE NoItemAssumption
<1>0. TypeOK
  BY DEF LoopInvariant
<1>1. ASSUME NEW item \in Products, SkipUnassociated(item) PROVE LoopInvariant'
  <2>1. Visited' = Visited \cup {item} /\ item \in unvisited /\ item \in cart
    BY <1>0, <1>1, VisitedGrows DEF SkipUnassociated, Visit
  <2>2. ~Confident(item, product) /\ ~Qualifies(item, product)
    BY <1>1 DEF SkipUnassociated, Confident, Qualifies
  <2>3. TypeOK'
    BY <1>0, <1>1 DEF SkipUnassociated, Visit, TypeOK
  <2>4. best # NoItem => best \in Visited' /\ best \in Strongest(Visited, product)'
    BY <1>1, <2>1, <2>2 DEF SkipUnassociated, LoopInvariant, Strongest
  <2>5. QED
    BY <1>1, <2>1, <2>2, <2>3, <2>4 DEF SkipUnassociated, LoopInvariant
<1>2. ASSUME NEW item \in Products, RejectConfidence(item) PROVE LoopInvariant'
  <2>1. Visited' = Visited \cup {item} /\ item \in unvisited /\ item \in cart
    BY <1>0, <1>2, VisitedGrows DEF RejectConfidence, Visit
  <2>2. ~Qualifies(item, product)
    BY <1>2 DEF RejectConfidence, Qualifies
  <2>3. TypeOK'
    BY <1>0, <1>2 DEF RejectConfidence, Visit, TypeOK
  <2>4. best # NoItem => best \in Visited' /\ best \in Strongest(Visited, product)'
    BY <1>2, <2>1, <2>2 DEF RejectConfidence, LoopInvariant, Strongest
  <2>5. QED
    BY <1>2, <2>1, <2>2, <2>3, <2>4 DEF RejectConfidence, LoopInvariant
<1>3. ASSUME NEW item \in Products, RejectSupport(item) PROVE LoopInvariant'
  <2>1. Visited' = Visited \cup {item} /\ item \in unvisited /\ item \in cart
    BY <1>0, <1>3, VisitedGrows DEF RejectSupport, Visit
  <2>2. Associated(item, product)
    BY <1>3 DEF RejectSupport, Confident
  <2>3. TypeOK'
    BY <1>0, <1>3 DEF RejectSupport, Visit, TypeOK
  <2>4. best # NoItem => best \in Visited' /\ best \in Strongest(Visited, product)'
    BY <1>3, <2>1 DEF RejectSupport, LoopInvariant, Strongest
  <2>5. QED
    BY <1>3, <2>1, <2>2, <2>3, <2>4 DEF RejectSupport, LoopInvariant
<1>4. ASSUME NEW item \in Products, Consider(item) PROVE LoopInvariant'
  <2>1. Visited' = Visited \cup {item} /\ item \in unvisited /\ item \in cart
    BY <1>0, <1>4, VisitedGrows DEF Consider, Visit
  <2>2. Associated(item, product) /\ Confident(item, product) /\ item # NoItem
    BY <1>4 DEF Consider, Qualifies, Confident
  <2>3. TypeOK'
    BY <1>0, <1>4, <2>1 DEF Consider, Visit, TypeOK
  <2>4. best' # NoItem
    BY <1>4, <2>2 DEF Consider, Beats
  <2>5. best' \in Visited' /\ best' \in Strongest(Visited, product)'
    <3> DEFINE lift(x) == Rule[<<x, product>>].lift
    <3>1. \A x \in Visited \cup {item} : Qualifies(x, product) => lift(x) \in Nat
      BY LiftIsNumber
    <3>2. product' = product /\ Qualifies(item, product)
      BY <1>4 DEF Consider
    <3>3. CASE best = NoItem
      <4>1. best' = item /\ \A x \in Visited : ~Qualifies(x, product)
        BY <1>4, <3>3 DEF Consider, Beats, LoopInvariant
      <4>2. QED
        BY <2>1, <3>1, <3>2, <4>1 DEF Strongest
    <3>4. CASE best # NoItem /\ lift(item) > lift(best)
      <4>1. best' = item
        BY <1>4, <3>4 DEF Consider, Beats
      <4>2. best \in Visited /\ Qualifies(best, product)
            /\ \A x \in Visited : Qualifies(x, product) => lift(x) =< lift(best)
        BY <3>4 DEF LoopInvariant, Strongest
      <4>3. \A x \in Visited \cup {item} : Qualifies(x, product) => lift(x) =< lift(item)
        BY <3>1, <3>2, <3>4, <4>2
      <4>4. QED
        BY <2>1, <3>2, <4>1, <4>3 DEF Strongest
    <3>5. CASE best # NoItem /\ ~(lift(item) > lift(best))
      <4>1. best' = best
        BY <1>4, <3>5 DEF Consider, Beats
      <4>2. best \in Visited /\ Qualifies(best, product)
            /\ \A x \in Visited : Qualifies(x, product) => lift(x) =< lift(best)
        BY <3>5 DEF LoopInvariant, Strongest
      <4>3. \A x \in Visited \cup {item} : Qualifies(x, product) => lift(x) =< lift(best)
        BY <3>1, <3>2, <3>5, <4>2
      <4>4. QED
        BY <2>1, <3>2, <4>1, <4>2, <4>3 DEF Strongest
    <3>6. QED
      BY <3>3, <3>4, <3>5
  <2>6. reason' = reason /\ reason = "looping"
    BY <1>4, <2>1 DEF Consider, LoopInvariant
  <2>7. QED
    BY <1>4, <2>1, <2>2, <2>3, <2>4, <2>5, <2>6 DEF Consider, LoopInvariant
<1>5. CASE Finish
  <2>1. Visited' = Visited /\ TypeOK'
    BY <1>0, <1>5 DEF Finish, Visited, TypeOK, Reasons, LoopReason
  <2>2. Strongest(Visited, product)' = Strongest(Visited, product)
    BY <1>5, <2>1 DEF Finish, Strongest
  <2>3. LoopReason' = LoopReason
    BY <1>5 DEF Finish, LoopReason
  <2>4. QED
    BY <1>5, <2>1, <2>2, <2>3 DEF Finish, LoopInvariant
<1>6. CASE UNCHANGED vars
  BY <1>6 DEF vars, LoopInvariant, TypeOK, Visited, Strongest, LoopReason
<1>7. QED
  BY <1>1, <1>2, <1>3, <1>4, <1>5, <1>6 DEF Next, Examine

-----------------------------------------------------------------------------
(* What the artifact gives the simulator and what it gives the engine.     *)

LEMMA RowsAreRows ==
  ASSUME NEW w \in Rows
  PROVE  /\ w.line \in Nat /\ w.lift \in Nat /\ w.confidence \in Nat /\ w.support \in Nat
         /\ w.antecedent \in Products /\ w.consequent \in Products
BY LoadedAssumption

LEMMA ArtifactProducts == ProductsOf(Rows) \subseteq Products
BY RowsAreRows DEF ProductsOf

(* The rule the engine finds is one of the rows kept by load_rules. *)
LEMMA RuleComesFromRow ==
  ASSUME NEW pair \in DOMAIN Rule
  PROVE  \E w \in StrongestRows(Rows, Limits) :
           /\ Pair(w) = pair
           /\ Rule[pair] = [lift |-> w.lift, confidence |-> w.confidence, support |-> w.support]
<1> DEFINE kept == StrongestRows(Rows, Limits)
           row  == CHOOSE w \in kept : Pair(w) = pair
<1>1. Rule = Loaded(Rows, Limits)
  BY LoadedAssumption
<1>2. pair \in {Pair(w) : w \in kept}
  BY <1>1 DEF Loaded
<1>3. row \in kept /\ Pair(row) = pair
  BY <1>2
<1>4. Rule[pair] = [lift |-> row.lift, confidence |-> row.confidence, support |-> row.support]
  BY <1>1, <1>2 DEF Loaded
<1>5. QED
  BY <1>3, <1>4

(* A row that load_rules keeps is found under its pair. *)
LEMMA KeptRowIsFound ==
  ASSUME NEW w \in StrongestRows(Rows, Limits)
  PROVE  Pair(w) \in DOMAIN Rule
<1>1. Rule = Loaded(Rows, Limits)
  BY LoadedAssumption
<1>2. QED
  BY <1>1 DEF Loaded

(* What the engine accepts, the simulator samples. *)
LEMMA QualifyingIsSampled ==
  ASSUME NEW item, NEW p, Qualifies(item, p)
  PROVE  <<item, p>> \in SamplePairs(Rows, Limits)
<1>1. <<item, p>> \in DOMAIN Rule
  BY DEF Qualifies, Confident, Associated
<1>2. PICK w \in StrongestRows(Rows, Limits) :
        /\ Pair(w) = <<item, p>>
        /\ Rule[<<item, p>>] = [lift |-> w.lift, confidence |-> w.confidence, support |-> w.support]
  BY <1>1, RuleComesFromRow
<1> DEFINE within == {v \in Rows : v.antecedent # v.consequent /\ WithinLimits(v, Limits)}
<1>3. WithinLimits(w, Limits)
  BY <1>2 DEF Qualifies, Confident, Associated, WithinLimits, Limits
<1>4. w \in within
  BY <1>2, <1>3 DEF StrongestRows, StrongestOf
<1>5. \A v \in within : v.lift >= Limits.lift
  BY DEF WithinLimits
<1>6. w \in StrongestOf(within)
  BY <1>2, <1>4, <1>5 DEF StrongestRows, StrongestOf
<1>7. QED
  BY <1>2, <1>6 DEF SamplePairs

(* With one row for a pair, what is within the limits qualifies. *)
LEMMA RowWithinLimitsQualifies ==
  ASSUME OneRowPerPair, NEW w \in Rows, WithinLimits(w, Limits)
  PROVE  w.antecedent # w.consequent /\ Qualifies(w.antecedent, w.consequent)
<1>1. w.antecedent # w.consequent
  BY DEF OneRowPerPair
<1>2. w \in StrongestRows(Rows, Limits)
  BY <1>1, RowsAreRows DEF StrongestRows, StrongestOf, OneRowPerPair, WithinLimits
<1>3. Pair(w) \in DOMAIN Rule
  BY <1>2, KeptRowIsFound
<1>4. PICK v \in StrongestRows(Rows, Limits) :
        /\ Pair(v) = Pair(w)
        /\ Rule[Pair(w)] = [lift |-> v.lift, confidence |-> v.confidence, support |-> v.support]
  BY <1>3, RuleComesFromRow
<1>5. v = w
  BY <1>4 DEF OneRowPerPair, StrongestRows, StrongestOf
<1>6. QED
  BY <1>1, <1>3, <1>4, <1>5
  DEF Pair, Qualifies, Confident, Associated, WithinLimits, Limits

-----------------------------------------------------------------------------
(* The loop of a session looks at the planned cart and product, and a      *)
(* session that is decided before the loop never runs it.                  *)
SessionInvariant ==
  /\ LoopInvariant
  /\ plan \in Sessions
  /\ cart = plan.cart /\ product = plan.viewed
  /\ decided = BeforeLoop(plan)
  /\ decided # "loop" => reason = "looping"

(* A planned session, taken apart. *)
LEMMA PlanShape ==
  ASSUME NEW s \in Plans(Rows, Limits)
  PROVE  /\ s.scenario \in Scenarios
         /\ s.dwells = (s.scenario # "short_view")
         /\ \E pair \in Chosen(Rows, Limits, s.scenario) :
            \E decoy \in {{}} \cup {{p} : p \in ProductsOf(Rows)} :
              /\ s.viewed = pair[2] /\ s.pair = pair[1]
              /\ s.cart = {pair[1]} \cup (decoy \ {pair[2]})
                            \cup (IF s.scenario = "already_in_cart" THEN {pair[2]} ELSE {})
<1> DEFINE
      Planned(scenario) ==
        {[scenario |-> scenario, dwells |-> scenario # "short_view", viewed |-> pair[2],
          pair |-> pair[1],
          cart |-> {pair[1]} \cup (decoy \ {pair[2]})
                     \cup (IF scenario = "already_in_cart" THEN {pair[2]} ELSE {})] :
           pair \in Chosen(Rows, Limits, scenario),
           decoy \in {{}} \cup {{p} : p \in ProductsOf(Rows)}}
<1>1. s \in UNION {Planned(scenario) : scenario \in Scenarios}
  BY DEF Plans
<1>2. PICK scenario \in Scenarios : s \in Planned(scenario)
  BY <1>1
<1>3. PICK pair \in Chosen(Rows, Limits, scenario),
           decoy \in {{}} \cup {{p} : p \in ProductsOf(Rows)} :
        s = [scenario |-> scenario, dwells |-> scenario # "short_view", viewed |-> pair[2],
             pair |-> pair[1],
             cart |-> {pair[1]} \cup (decoy \ {pair[2]})
                        \cup (IF scenario = "already_in_cart" THEN {pair[2]} ELSE {})]
  BY <1>2
<1>4. s.scenario = scenario
  BY <1>3
<1>5. QED
  BY <1>3, <1>4

(* Every session is about products of the catalog. *)
LEMMA SessionsAreTyped ==
  ASSUME NEW s \in Sessions
  PROVE  s.cart \subseteq Products /\ s.viewed \in Products
<1> USE ArtifactProducts
<1>1. \A pair \in SamplePairs(Rows, Limits) : pair[1] \in Products /\ pair[2] \in Products
  BY RowsAreRows DEF SamplePairs, StrongestOf, Pair
<1>2. \A item : NonMatches(Rows, Limits, item) \subseteq Products
  BY DEF NonMatches
<1>3. \A scenario : \A pair \in Chosen(Rows, Limits, scenario) :
        pair[1] \in Products /\ pair[2] \in Products
  BY <1>1 DEF Chosen
<1>4. CASE s \in Plans(Rows, Limits)
  <2>1. PICK pair \in Chosen(Rows, Limits, s.scenario),
             decoy \in {{}} \cup {{p} : p \in ProductsOf(Rows)} :
          /\ s.viewed = pair[2] /\ s.pair = pair[1]
          /\ s.cart = {pair[1]} \cup (decoy \ {pair[2]})
                        \cup (IF s.scenario = "already_in_cart" THEN {pair[2]} ELSE {})
    BY <1>4, PlanShape
  <2>2. pair[1] \in Products /\ pair[2] \in Products
    BY <1>3
  <2>3. decoy \subseteq Products
    OBVIOUS
  <2>4. QED
    BY <2>1, <2>2, <2>3
<1>5. CASE s \in Scripted(Rows, Limits)
  BY <1>5, RowsAreRows DEF Scripted
<1>6. CASE s \in ShopperSessions
  BY <1>6 DEF ShopperSessions
<1>7. QED
  BY <1>4, <1>5, <1>6 DEF Sessions

LEMMA SessionInit == FeedInit => SessionInvariant
<1> SUFFICES ASSUME FeedInit PROVE SessionInvariant
  OBVIOUS
<1>1. cart \subseteq Products /\ product \in Products
  BY SessionsAreTyped DEF FeedInit
<1>2. Visited = {}
  BY DEF FeedInit, Visited
<1>3. TypeOK
  BY <1>1 DEF FeedInit, TypeOK, Reasons
<1>4. LoopInvariant
  BY <1>2, <1>3 DEF FeedInit, LoopInvariant
<1>5. QED
  BY <1>4 DEF FeedInit, SessionInvariant

LEMMA SessionStep == SessionInvariant /\ [FeedNext]_feedVars => SessionInvariant'
<1> SUFFICES ASSUME SessionInvariant, [FeedNext]_feedVars PROVE SessionInvariant'
  OBVIOUS
<1>1. LoopInvariant'
  BY LoopStep DEF SessionInvariant, FeedNext, feedVars
<1>2. CASE FeedNext
  <2>1. cart' = cart /\ product' = product
    BY <1>2 DEF FeedNext, Next, Examine, SkipUnassociated, RejectConfidence, RejectSupport,
                Consider, Finish
  <2>2. QED
    BY <1>1, <1>2, <2>1 DEF FeedNext, SessionInvariant
<1>3. CASE UNCHANGED feedVars
  BY <1>1, <1>3 DEF SessionInvariant, feedVars, vars
<1>4. QED
  BY <1>2, <1>3

(* In every session the loop variables summarise the visited items.        *)
THEOREM LoopIsCorrect == FeedSpec => []SessionInvariant
BY SessionInit, SessionStep, PTL DEF FeedSpec

LEMMA InvariantGivesSupport == LoopInvariant => StrongestSupportWins
<1> SUFFICES ASSUME LoopInvariant, reason # "looping"
             PROVE  IF Strongest(cart, product) = {}
                      THEN best = NoItem /\ reason # "qualified"
                      ELSE best \in Strongest(cart, product) /\ reason = "qualified"
  BY DEF StrongestSupportWins
<1>1. Visited = cart /\ reason = LoopReason
  BY DEF LoopInvariant, Visited
<1>2. CASE best = NoItem
  <2>1. Strongest(cart, product) = {}
    BY <1>1, <1>2 DEF LoopInvariant, Strongest
  <2>2. QED
    BY <1>1, <1>2, <2>1 DEF LoopReason
<1>3. CASE best # NoItem
  BY <1>1, <1>3 DEF LoopInvariant, LoopReason
<1>4. QED
  BY <1>2, <1>3

(* evaluate ends with the strongest qualifying supporting item of the cart *)
(* if there is one, and with none otherwise, in every order of iteration.  *)
THEOREM SupportIsStrongest == FeedSpec => []StrongestSupportWins
<1>1. SessionInvariant => StrongestSupportWins
  BY InvariantGivesSupport DEF SessionInvariant
<1>2. QED
  BY <1>1, LoopIsCorrect, PTL

LEMMA InvariantGivesReason == LoopInvariant => ReasonIsOrderFree
<1> SUFFICES ASSUME LoopInvariant, reason \notin {"looping", "qualified"}
             PROVE  reason = Suppression(cart, product)
  BY DEF ReasonIsOrderFree
<1>1. Visited = cart /\ reason = LoopReason
  BY DEF LoopInvariant, Visited
<1>2. QED
  BY <1>1 DEF LoopInvariant, LoopReason, Suppression

(* The suppression reason is a function of the cart and the product, not   *)
(* of the order of iteration.                                              *)
THEOREM ReasonIsDetermined == FeedSpec => []ReasonIsOrderFree
<1>1. SessionInvariant => ReasonIsOrderFree
  BY InvariantGivesReason DEF SessionInvariant
<1>2. QED
  BY <1>1, LoopIsCorrect, PTL

-----------------------------------------------------------------------------
(* The planned pair of an eligible or a scripted session qualifies. *)
LEMMA PlannedPairQualifies ==
  ASSUME OneRowPerPair, NEW s \in Sessions, s.scenario \in {"eligible", "hesitation"}
  PROVE  /\ s.dwells /\ s.pair \in s.cart /\ s.viewed \notin s.cart
         /\ Qualifies(s.pair, s.viewed)
<1>1. \A pair \in SamplePairs(Rows, Limits) : pair[1] # pair[2] /\ Qualifies(pair[1], pair[2])
  <2> SUFFICES ASSUME NEW w \in Rows, WithinLimits(w, Limits)
               PROVE  Pair(w)[1] # Pair(w)[2] /\ Qualifies(Pair(w)[1], Pair(w)[2])
    BY DEF SamplePairs, StrongestOf
  <2>1. QED
    BY RowWithinLimitsQualifies DEF Pair
<1>2. CASE s \in Plans(Rows, Limits)
  <2>1. s.scenario = "eligible"
    BY <1>2, PlanShape DEF Scenarios
  <2>2. PICK pair \in Chosen(Rows, Limits, s.scenario),
             decoy \in {{}} \cup {{p} : p \in ProductsOf(Rows)} :
          /\ s.viewed = pair[2] /\ s.pair = pair[1]
          /\ s.cart = {pair[1]} \cup (decoy \ {pair[2]})
                        \cup (IF s.scenario = "already_in_cart" THEN {pair[2]} ELSE {})
    BY <1>2, PlanShape
  <2>3. pair[1] # pair[2] /\ Qualifies(pair[1], pair[2])
    BY <1>1, <2>1 DEF Chosen
  <2>4. s.dwells
    BY <1>2, <2>1, PlanShape
  <2>5. QED
    BY <2>1, <2>2, <2>3, <2>4
<1>3. CASE s \in Scripted(Rows, Limits)
  <2>1. PICK w \in Rows :
          /\ WithinLimits(w, Limits)
          /\ s.dwells = TRUE /\ s.viewed = w.consequent /\ s.pair = w.antecedent
          /\ s.cart = {w.antecedent}
    BY <1>3 DEF Scripted
  <2>2. w.antecedent # w.consequent /\ Qualifies(w.antecedent, w.consequent)
    BY <2>1, RowWithinLimitsQualifies
  <2>3. QED
    BY <2>1, <2>2
<1>4. s \notin ShopperSessions
  BY DEF ShopperSessions
<1>5. QED
  BY <1>2, <1>3, <1>4 DEF Sessions

(* With one row for a pair in the artifact, every session planned to show  *)
(* an offer ends with one, whatever decoy lies in the cart.                *)
THEOREM EligibleSessionsGetOffers == FeedSpec => []EligibleGetsOffer
<1>1. SessionInvariant => EligibleGetsOffer
  <2> SUFFICES ASSUME SessionInvariant, OneRowPerPair, Decided,
                      plan.scenario \in {"eligible", "hesitation"}
               PROVE  Offers
    BY DEF EligibleGetsOffer
  <2>1. plan.dwells /\ plan.pair \in plan.cart /\ plan.viewed \notin plan.cart
        /\ Qualifies(plan.pair, plan.viewed)
    BY PlannedPairQualifies DEF SessionInvariant
  <2>2. decided = "loop"
    BY <2>1 DEF SessionInvariant, BeforeLoop
  <2>3. reason # "looping" /\ unvisited = {} /\ reason = LoopReason
    BY <2>2 DEF Decided, SessionInvariant, LoopInvariant
  <2>4. plan.pair \in Visited /\ Qualifies(plan.pair, product)
    BY <2>1, <2>3 DEF SessionInvariant, Visited
  <2>5. best # NoItem
    BY <2>4 DEF SessionInvariant, LoopInvariant
  <2>6. QED
    BY <2>3, <2>5 DEF LoopReason, Offers
<1>2. QED
  BY <1>1, LoopIsCorrect, PTL

(* A session of no_match views a product that the simulator did not pair   *)
(* with the cart product, if there is such a product.                      *)
LEMMA NonMatchIsUnpaired ==
  ASSUME NEW item \in ProductsOf(Rows), NEW viewed \in NonMatches(Rows, Limits, item),
         <<item, viewed>> \in SamplePairs(Rows, Limits), NEW other \in ProductsOf(Rows) \ {item}
  PROVE  <<item, other>> \in SamplePairs(Rows, Limits)
<1> DEFINE sampled == {q \in SamplePairs(Rows, Limits) : q[1] = item}
           blocked == {pair[2] : pair \in sampled} \cup {item}
           free    == ProductsOf(Rows) \ blocked
<1>1. \A q \in SamplePairs(Rows, Limits) : q = <<q[1], q[2]>>
  BY DEF SamplePairs, StrongestOf, Pair
<1>2. viewed \in blocked
  <2>1. <<item, viewed>> \in sampled
    OBVIOUS
  <2>2. QED
    BY <2>1
<1>3. free = {}
  BY <1>2 DEF NonMatches
<1>4. other \in {pair[2] : pair \in sampled}
  BY <1>3
<1>5. PICK q \in sampled : q[2] = other
  BY <1>4
<1>6. QED
  BY <1>1, <1>5

(* A session planned to show a suppression ends without an offer: always   *)
(* for a short view or a product in the cart, and for no_match unless a    *)
(* decoy supports one or every product goes with the cart product.         *)
THEOREM SuppressedSessionsGetNone == FeedSpec => []SuppressedGetsNone
<1>1. SessionInvariant => SuppressedGetsNone
  <2> SUFFICES ASSUME SessionInvariant PROVE SuppressedGetsNone
    OBVIOUS
  <2>1. ASSUME plan.scenario \in {"short_view", "already_in_cart"} PROVE ~Offers
    <3>1. plan \in Plans(Rows, Limits)
      BY <2>1 DEF SessionInvariant, Sessions, Scripted, ShopperSessions
    <3>2. ~plan.dwells \/ plan.viewed \in plan.cart
      BY <2>1, <3>1, PlanShape
    <3>3. decided # "loop"
      BY <3>2 DEF SessionInvariant, BeforeLoop
    <3>4. QED
      BY <3>3 DEF SessionInvariant, Offers
  <2>2. ASSUME plan.scenario = "no_match", plan.cart = {plan.pair}, Offers,
               NEW other \in ProductsOf(Rows) \ {plan.pair}
        PROVE  <<plan.pair, other>> \in SamplePairs(Rows, Limits)
    <3>1. plan \in Plans(Rows, Limits)
      BY <2>2 DEF SessionInvariant, Sessions, Scripted, ShopperSessions
    <3>2. plan.pair \in ProductsOf(Rows)
          /\ plan.viewed \in NonMatches(Rows, Limits, plan.pair)
      BY <2>2, <3>1, PlanShape DEF Chosen
    <3>3. best # NoItem /\ unvisited = {}
      BY <2>2 DEF SessionInvariant, LoopInvariant, LoopReason, Offers
    <3>4. best \in cart /\ Qualifies(best, product)
      BY <3>3 DEF SessionInvariant, LoopInvariant, Visited, Strongest
    <3>5. Qualifies(plan.pair, plan.viewed)
      BY <2>2, <3>4 DEF SessionInvariant
    <3>6. <<plan.pair, plan.viewed>> \in SamplePairs(Rows, Limits)
      BY <3>5, QualifyingIsSampled
    <3>7. QED
      BY <3>2, <3>6, NonMatchIsUnpaired
  <2>3. QED
    BY <2>1, <2>2 DEF SuppressedGetsNone
<1>2. QED
  BY <1>1, LoopIsCorrect, PTL
=============================================================================

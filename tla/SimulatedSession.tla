-------------------------- MODULE SimulatedSession --------------------------
(***************************************************************************)
(* A session that reaches the coupon engine: one of the live simulator     *)
(* (pipeline/live_simulator.py), the scripted one of pipeline/producer.py, *)
(* or a shopper's, with any cart.  The simulator reads the same artifact   *)
(* as load_rules, but for itself; what it means to show is compared with   *)
(* what the engine decides.  The events of a session have one key, so the  *)
(* engine receives the cart before the view.                               *)
(***************************************************************************)
EXTENDS LookupLoop, RuleArtifact

CONSTANT Rows       \* the artifact

Limits == [lift |-> MinLift, confidence |-> MinConfidence, support |-> MinSupport]

(* What RedisRuleLookup finds once the artifact is loaded. *)
Loaded(rows, limits) ==
  LET kept == StrongestRows(rows, limits)
  IN  [pair \in {Pair(w) : w \in kept} |->
         LET w == CHOOSE w \in kept : Pair(w) = pair
         IN  [lift |-> w.lift, confidence |-> w.confidence, support |-> w.support]]

ASSUME LoadedAssumption ==
  /\ Rows \subseteq [line : Nat, antecedent : Products, consequent : Products,
                     lift : Nat, confidence : Nat, support : Nat]
  /\ Rule = Loaded(Rows, Limits)

VARIABLES
  plan,       \* the session
  decided     \* the reason when evaluate returns before its loop, or "loop"

feedVars == <<vars, plan, decided>>

ShopperSessions ==
  {[scenario |-> "shopper", dwells |-> dwells, viewed |-> viewed, pair |-> viewed, cart |-> c] :
     dwells \in BOOLEAN, viewed \in Products, c \in SUBSET Products}

Sessions == Plans(Rows, Limits) \cup Scripted(Rows, Limits) \cup ShopperSessions

(* The returns of evaluate before the loop. *)
BeforeLoop(session) ==
  CASE ~session.dwells -> "below_dwell_threshold"
    [] session.dwells /\ session.viewed \in session.cart -> "product_in_cart"
    [] OTHER -> "loop"

FeedInit ==
  /\ plan \in Sessions
  /\ decided = BeforeLoop(plan)
  /\ cart = plan.cart /\ product = plan.viewed /\ unvisited = cart
  /\ best = NoItem /\ reason = "looping"
  /\ rejectedForConfidence = FALSE /\ rejectedForSupport = FALSE

FeedNext == decided = "loop" /\ Next /\ UNCHANGED <<plan, decided>>

FeedSpec == FeedInit /\ [][FeedNext]_feedVars

-----------------------------------------------------------------------------
Decided == decided # "loop" \/ reason # "looping"
Offers  == reason = "qualified"

(* Of every pair of names the artifact has one row, and none of a product  *)
(* with itself: the rules of a batch run, whose names are unique.          *)
OneRowPerPair ==
  /\ \A v, w \in Rows : Pair(v) = Pair(w) => v = w
  /\ \A w \in Rows : w.antecedent # w.consequent

(* With such an artifact the sessions that are to show an offer get one,   *)
(* with any decoy in the cart: sampling and the engine agree on the rules. *)
EligibleGetsOffer ==
  OneRowPerPair /\ Decided /\ plan.scenario \in {"eligible", "hesitation"} => Offers

(* With any artifact, the scenarios that are to show a suppression get no  *)
(* offer; in no_match unless a decoy supports one, or every product goes   *)
(* with the cart product.                                                  *)
SuppressedGetsNone ==
  /\ plan.scenario \in {"short_view", "already_in_cart"} => ~Offers
  /\ plan.scenario = "no_match" /\ plan.cart = {plan.pair} /\ Offers =>
       \A other \in ProductsOf(Rows) \ {plan.pair} :
         <<plan.pair, other>> \in SamplePairs(Rows, Limits)
=============================================================================

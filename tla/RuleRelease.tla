---------------------------- MODULE RuleRelease -----------------------------
(***************************************************************************)
(* From a batch run to the offers: pipeline.load_rules publishes the       *)
(* serving artifact of a run in Redis, while the coupon engine looks rules *)
(* up one cart item at a time.  A snapshot is released in two steps: the   *)
(* keys of the last catalog are deleted, then the new ones are written in  *)
(* one transaction; an engine that decides meanwhile sees both snapshots,  *)
(* or none.  One load is at work at a time.                                *)
(***************************************************************************)
EXTENDS BatchRun, RuleArtifact

CONSTANTS
  Views,                     \* evaluations: pairs of a cart and a product not in it
  MinLift, LowestConfidence, LowestSupport,   \* thresholds of the engine
  NoRule                     \* a lookup that returns None

ASSUME ReleaseAssumption ==
  /\ MinLift \in Nat /\ LowestConfidence \in Nat /\ LowestSupport \in Nat
  /\ \A view \in Views : view[2] \notin view[1]

VARIABLES
  rules, catalog,     \* Redis: the rows under the rule keys, the antecedents
  loader,             \* what a load does next: "delete", "publish", or "idle"
  stale, loading,     \* the antecedents it looked up, the run it was given
  engine,             \* the evaluation under way, or the last one
  steady              \* history: Redis is as it was when the evaluation began

releaseVars == <<rules, catalog, loader, stale, loading, engine, steady>>
vars == <<batchVars, releaseVars>>

Init ==
  /\ BatchInit
  /\ rules = {} /\ catalog = {}
  /\ loader = "idle" /\ stale = {} /\ loading = NoRun
  /\ engine = [cart |-> {}, product |-> NoRule, unvisited |-> {}, best |-> NoRule]
  /\ steady = TRUE

Batch(p) == BatchStep(p) /\ UNCHANGED releaseVars

-----------------------------------------------------------------------------
(* The artifact of a run and what load_rules makes of it. *)

Artifact == [source \in Sources |->
               MineRules(Baskets(Facts[source]), Slice[source].products)]

Snapshot == [source \in Sources |-> StrongestRows(Artifact[source], [lift |-> MinLift])]

(* A lookup that finds nothing is told apart from every row. *)
ASSUME RowAssumption == \A source \in Sources : NoRule \notin Artifact[source]

HasCsv(r) == "rules_serving_csv" \in disk[r]

-----------------------------------------------------------------------------
(* pipeline.load_rules. *)

(* A wrong variant does not look for the keys of the last snapshot. *)
LookAtNothing(r) ==
  /\ loader = "idle" /\ r \in taken
  /\ loading' = r
  /\ loader' = "publish"
  /\ UNCHANGED <<batchVars, stale, rules, catalog, engine, steady>>

(* SMEMBERS of the catalog. *)
LookUpCatalog(r) ==
  /\ loader = "idle" /\ r \in taken
  /\ loading' = r
  /\ stale' = catalog
  /\ loader' = IF catalog = {} THEN "publish" ELSE "delete"
  /\ UNCHANGED <<batchVars, rules, catalog, engine, steady>>

(* The old keys go before the new artifact is even opened. *)
DeleteStale ==
  /\ loader = "delete"
  /\ rules' = {w \in rules : w.antecedent \notin stale}
  /\ steady' = (steady /\ rules' = rules)
  /\ loader' = "publish" /\ stale' = {}
  /\ UNCHANGED <<batchVars, catalog, loading, engine>>

(* One transaction replaces the keys of the artifact and the catalog; a    *)
(* missing file raises instead.                                            *)
Publish ==
  /\ loader = "publish"
  /\ loader' = "idle" /\ loading' = NoRun
  /\ IF HasCsv(loading)
       THEN LET new == Snapshot[mined[loading]]
            IN  /\ rules' = new \cup {w \in rules : w.antecedent \notin Antecedents(new)}
                /\ catalog' = Antecedents(new)
                /\ steady' = (steady /\ rules' = rules)
       ELSE UNCHANGED <<rules, catalog, steady>>
  /\ UNCHANGED <<batchVars, stale, engine>>

LoadRaises ==
  /\ Fault
  /\ loader # "idle"
  /\ loader' = "idle" /\ stale' = {} /\ loading' = NoRun
  /\ UNCHANGED <<run, input, stage, status, listed, exit, taken, disk, torn, mined, manifest>>
  /\ UNCHANGED <<rules, catalog, engine, steady>>

-----------------------------------------------------------------------------
(* CouponEngine.evaluate, one HGET at a time. *)

Begin(cart, product) ==
  /\ engine.unvisited = {}
  /\ engine' = [cart |-> cart, product |-> product, unvisited |-> cart, best |-> NoRule]
  /\ steady' = TRUE
  /\ UNCHANGED <<batchVars, rules, catalog, loader, stale, loading>>

(* A wrong variant takes the rules of the other direction. *)
CandidateReversed(w, item) ==
  /\ w.consequent = item /\ w.antecedent = engine.product
  /\ w.lift >= MinLift
  /\ w.confidence >= LowestConfidence /\ w.support >= LowestSupport
  /\ engine.best = NoRule \/ w.lift > engine.best.lift

Candidate(w, item) ==
  /\ w.antecedent = item /\ w.consequent = engine.product
  /\ w.lift >= MinLift
  /\ w.confidence >= LowestConfidence /\ w.support >= LowestSupport
  /\ engine.best = NoRule \/ w.lift > engine.best.lift

LookUp(item) ==
  LET found == {w \in rules : Candidate(w, item)}
  IN  /\ engine' = [engine EXCEPT !.unvisited = @ \ {item},
                                  !.best = IF found = {} THEN @ ELSE CHOOSE w \in found : TRUE]
      /\ UNCHANGED <<batchVars, rules, catalog, loader, stale, loading, steady>>

-----------------------------------------------------------------------------
Load ==
  \/ \E r \in RunIds : LookUpCatalog(r)
  \/ DeleteStale
  \/ Publish
  \/ LoadRaises

Decide ==
  \/ \E view \in Views : Begin(view[1], view[2])
  \/ \E item \in engine.unvisited : LookUp(item)

Next == (\E p \in Processes : Batch(p)) \/ Load \/ Decide

Spec == Init /\ [][Next]_vars

-----------------------------------------------------------------------------
Engine == INSTANCE CouponPolicy WITH
  Products <- Column(rules, "antecedent") \cup Column(rules, "consequent"), MinConfidence <- LowestConfidence, MinSupport <- LowestSupport,
  Rule <- [pair \in {Pair(w) : w \in rules} |->
             CHOOSE w \in rules : Pair(w) = pair]

(* Redis holds the rules of one artifact, all of them, or none, whatever   *)
(* loads were cut off or given a run without an artifact: "Remove stale    *)
(* rule keys from the previous snapshot before publishing the current one" *)
(* (load_rules.py:20).                                                     *)
SnapshotIsOneArtifact ==
  \/ rules = {}
  \/ /\ catalog = Antecedents(rules)
     /\ \E r \in RunIds : HasCsv(r) /\ rules = Snapshot[mined[r]]

(* A rule that is served, and a rule that supports an offer, even one      *)
(* decided while snapshots change, was mined from an input that passed     *)
(* validation and names products of the catalog.                           *)
RulesAreMined ==
  Policy = "fail" =>
    \A w \in rules \cup ({engine.best} \ {NoRule}) :
      /\ Blank \notin {w.antecedent, w.consequent}
      /\ \E r \in RunIds : /\ HasCsv(r) /\ w \in Artifact[mined[r]]
                          /\ Passes[mined[r]]

(* A decision during which Redis did not change is the one of CouponPolicy *)
(* on that snapshot, although the engine looks cart items up one by one.   *)
DecisionFollowsSnapshot ==
  steady /\ engine.unvisited = {} /\ engine.product # NoRule =>
    IF Engine!Strongest(engine.cart, engine.product) = {}
      THEN engine.best = NoRule
      ELSE /\ engine.best \in rules
           /\ engine.best.antecedent \in Engine!Strongest(engine.cart, engine.product)
=============================================================================

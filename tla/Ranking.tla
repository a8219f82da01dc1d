------------------------------ MODULE Ranking -------------------------------
(***************************************************************************)
(* rank of the shared adaptive service (pipeline/adaptive_redis.py and     *)
(* pipeline/adaptive.py), as the recommendation endpoints of several       *)
(* processes call it.  A decision takes a number from Redis, reads the     *)
(* live cart and the matrices, suppresses candidates, records the          *)
(* impression in several writes and only then answers.  Any Redis call may *)
(* raise with or without its effect: then rank answers with the historical *)
(* order, which touches nothing in Redis.                                  *)
(*                                                                         *)
(* Feedback goes on meanwhile (AdaptiveFeedback), so the live cart and the *)
(* estimates that a decision reads may be anything.  Keys do not expire.   *)
(***************************************************************************)
EXTENDS Naturals, FiniteSets

CONSTANTS
  Processes,      \* each ranks under its _adaptive_lock
  Sessions,
  Products,       \* product_ids, numbers in their order
  Prior,          \* prior_score of a candidate
  Coupons,        \* candidates whose offer_type is coupon
  Support,        \* supporting_product_id of a coupon
  Weak,           \* coupons below a minimum
  Carts,          \* carts that requests send, live carts that feedback makes
  Estimates,      \* learned estimates plus exploration, per candidate
  Limit,
  MaxRequests, MaxFaults      \* bounds

ASSUME RankingAssumption ==
  /\ Products \subseteq Nat
  /\ Prior \in [Products -> Nat]
  /\ Coupons \subseteq Products /\ Weak \subseteq Coupons
  /\ Support \in [Coupons -> Products]
  /\ Carts \subseteq SUBSET Products
  /\ Estimates \subseteq [Products -> Nat]
  /\ Limit \in Nat \ {0}
  /\ MaxRequests \in Nat /\ MaxFaults \in Nat

VARIABLES
  (* Redis *)
  sequence,       \* decision-sequence
  impressions,    \* recorded decisions: id, session and products
  latest,         \* impression-latest: session and product to an id, 0 if absent
  (* the processes *)
  local,          \* _decision_sequence
  issued,         \* CouponGuardrails._issued
  pc, session, cart,      \* the request
  selected,       \* products to show
  id,             \* impression_id, 0 for one of a fallback
  unindexed,      \* selected products without an index entry yet
  (* history *)
  shown,          \* answers with a recorded impression
  life,           \* how often a process was started again
  offers,         \* every offer of a coupon, over all processes and their lives
  requests, faults

redisVars == <<sequence, impressions, latest>>
processVars == <<local, issued, life, offers>>
requestVars == <<session, cart, selected, id, unindexed>>

vars == <<sequence, impressions, latest, local, issued, pc, session, cart,
          selected, id, unindexed, shown, life, offers, requests, faults>>

Steps == {"idle", "number", "guard", "record", "index", "fallback", "answer"}

(* The steps at which rank calls Redis. *)
Calling == {"number", "guard", "record", "index"}

Decisions == [id : Nat, session : Sessions, items : SUBSET Products]

Offers == [process : Processes, life : Nat, session : Sessions, product : Products,
           request : Nat]

TypeOK ==
  /\ sequence \in Nat
  /\ impressions \subseteq Decisions
  /\ latest \in [Sessions -> [Products -> Nat]]
  /\ local \in [Processes -> Nat]
  /\ issued \in [Processes -> SUBSET (Sessions \X Products)]
  /\ pc \in [Processes -> Steps]
  /\ session \in [Processes -> Sessions]
  /\ cart \in [Processes -> SUBSET Products]
  /\ selected \in [Processes -> SUBSET Products]
  /\ id \in [Processes -> Nat]
  /\ unindexed \in [Processes -> SUBSET Products]
  /\ shown \subseteq Decisions
  /\ life \in [Processes -> Nat]
  /\ offers \subseteq Offers
  /\ requests \in Nat /\ faults \in Nat

Init ==
  /\ sequence = 0
  /\ impressions = {}
  /\ latest = [s \in Sessions |-> [p \in Products |-> 0]]
  /\ local = [r \in Processes |-> 0]
  /\ issued = [r \in Processes |-> {}]
  /\ pc = [r \in Processes |-> "idle"]
  /\ session \in [Processes -> Sessions]
  /\ cart = [r \in Processes |-> {}]
  /\ selected = [r \in Processes |-> {}]
  /\ id = [r \in Processes |-> 0]
  /\ unindexed = [r \in Processes |-> {}]
  /\ shown = {}
  /\ life = [r \in Processes |-> 0]
  /\ offers = {}
  /\ requests = 0 /\ faults = 0

Fault == faults < MaxFaults /\ faults' = faults + 1

-----------------------------------------------------------------------------
(* The decision.                                                           *)

(* suppression_reason finds one. *)
Suppressed(r, p, content) ==
  \/ p \in content
  \/ /\ p \in Coupons
     /\ \/ Support[p] \notin content
        \/ p \in Weak
        \/ <<session[r], p>> \in issued[r]

(* The order of the sort: score, then product_id. *)
Before(score, p, q) == score[p] > score[q] \/ (score[p] = score[q] /\ p < q)

(* The first Limit of the candidates that are not suppressed. *)
Best(r, content, score) ==
  LET safe == {p \in Products : ~Suppressed(r, p, content)}
  IN  {p \in safe : Cardinality({q \in safe : Before(score, q, p)}) < Limit}

-----------------------------------------------------------------------------

(* The locals of a decision end with it, and _adaptive_lock is free. *)
Leave(r) ==
  /\ pc' = [pc EXCEPT ![r] = "idle"]
  /\ cart' = [cart EXCEPT ![r] = {}]
  /\ selected' = [selected EXCEPT ![r] = {}]
  /\ id' = [id EXCEPT ![r] = 0]
  /\ unindexed' = [unindexed EXCEPT ![r] = {}]

(* A request obtains _adaptive_lock. *)
Ask(r, s, content) ==
  /\ pc[r] = "idle" /\ requests < MaxRequests
  /\ requests' = requests + 1
  /\ pc' = [pc EXCEPT ![r] = "number"]
  /\ session' = [session EXCEPT ![r] = s]
  /\ cart' = [cart EXCEPT ![r] = content]
  /\ UNCHANGED <<redisVars, processVars, selected, id, unindexed, shown, faults>>

-----------------------------------------------------------------------------
(* rank, one action per group of Redis calls.                              *)

(* A wrong variant goes on with the number of its own process. *)
TakeOwnNumber(r) ==
  /\ pc[r] = "number"
  /\ sequence' = sequence + 1
  /\ pc' = [pc EXCEPT ![r] = "guard"]
  /\ UNCHANGED <<impressions, latest, processVars, requestVars,
                 shown, requests, faults>>

(* A wrong variant is one off. *)
TakeEarlierNumber(r) ==
  /\ pc[r] = "number"
  /\ sequence' = sequence + 1
  /\ local' = [local EXCEPT ![r] = sequence - 1]
  /\ pc' = [pc EXCEPT ![r] = "guard"]
  /\ UNCHANGED <<impressions, latest, issued, life, offers, requestVars,
                 shown, requests, faults>>

(* INCR of the sequence; rank sets _decision_sequence to the number before. *)
TakeNumber(r) ==
  /\ pc[r] = "number"
  /\ sequence' = sequence + 1
  /\ local' = [local EXCEPT ![r] = sequence]
  /\ pc' = [pc EXCEPT ![r] = "guard"]
  /\ UNCHANGED <<impressions, latest, issued, life, offers, requestVars,
                 shown, requests, faults>>

(* The live cart joins the cart of the request, the guardrails suppress,   *)
(* features and matrices are read, the candidates sorted and cut; the      *)
(* decision has its id.  Before any observation the estimates are 0, which *)
(* is the historical cold start.                                           *)
Decide(r) ==
  /\ pc[r] = "guard"
  /\ \E live \in Carts, estimate \in Estimates :
       selected' = [selected EXCEPT ![r] =
         Best(r, cart[r] \cup live, [p \in Products |-> Prior[p] + estimate[p]])]
  /\ unindexed' = [unindexed EXCEPT ![r] = selected'[r]]
  /\ local' = [local EXCEPT ![r] = @ + 1]
  /\ id' = [id EXCEPT ![r] = local'[r]]
  /\ pc' = [pc EXCEPT ![r] = "record"]
  /\ UNCHANGED <<redisVars, issued, life, offers, session, cart, shown,
                 requests, faults>>

(* SET of the impression replaces one of the same id. *)
Recorded(r) ==
  {d \in impressions : d.id # id[r]}
    \cup {[id |-> id[r], session |-> session[r], items |-> selected[r]]}

(* A wrong variant answers as soon as the impression itself is written. *)
RecordOnly(r) ==
  /\ pc[r] = "record"
  /\ impressions' = Recorded(r)
  /\ pc' = [pc EXCEPT ![r] = "answer"]
  /\ UNCHANGED <<sequence, latest, processVars, requestVars,
                 shown, requests, faults>>

(* The impression is written before its index. *)
Record(r) ==
  /\ pc[r] = "record"
  /\ impressions' = Recorded(r)
  /\ pc' = [pc EXCEPT ![r] = "index"]
  /\ UNCHANGED <<sequence, latest, processVars, requestVars,
                 shown, requests, faults>>

(* One SET per selected product; the order of the products is theirs in    *)
(* the ranking, which the selection leaves open.                           *)
Index(r, p) ==
  /\ pc[r] = "index" /\ p \in unindexed[r]
  /\ latest' = [latest EXCEPT ![session[r]][p] = id[r]]
  /\ unindexed' = [unindexed EXCEPT ![r] = @ \ {p}]
  /\ UNCHANGED <<sequence, impressions, processVars, pc, session,
                 cart, selected, id, shown, requests, faults>>

Indexed(r) ==
  /\ pc[r] = "index" /\ unindexed[r] = {}
  /\ pc' = [pc EXCEPT ![r] = "answer"]
  /\ UNCHANGED <<redisVars, processVars, requestVars, shown, requests, faults>>

(* A wrong variant answers with the decision at hand when recording it     *)
(* raises.                                                                 *)
RaisesUnnoticed(r) ==
  /\ pc[r] \in Calling
  /\ pc' = [pc EXCEPT ![r] = "answer"]
  /\ Fault
  /\ UNCHANGED <<redisVars, processVars, requestVars, shown, requests>>

(* A wrong variant does not catch an error of the sequence, and the lock   *)
(* stays with the request that ended.                                      *)
RaisesLocked(r) ==
  /\ pc[r] \in Calling
  /\ pc' = [pc EXCEPT ![r] = IF pc[r] = "number" THEN "lost" ELSE "fallback"]
  /\ Fault
  /\ UNCHANGED <<redisVars, processVars, requestVars, shown, requests>>

(* A call raises a RedisError, which ends in _historical_fallback; what    *)
(* was written stays.                                                      *)
Raises(r) ==
  /\ pc[r] \in Calling
  /\ \/ UNCHANGED redisVars
     \/ /\ pc[r] = "number" /\ sequence' = sequence + 1
        /\ UNCHANGED <<impressions, latest>>
     \/ /\ pc[r] = "record" /\ impressions' = Recorded(r)
        /\ UNCHANGED <<sequence, latest>>
     \/ /\ pc[r] = "index"
        /\ \E p \in unindexed[r] : latest' = [latest EXCEPT ![session[r]][p] = id[r]]
        /\ UNCHANGED <<sequence, impressions>>
  /\ pc' = [pc EXCEPT ![r] = "fallback"]
  /\ Fault
  /\ UNCHANGED <<processVars, requestVars, shown, requests>>

(* The historical order, guarded by the cart of the request only.  Its id  *)
(* (historical-fallback-unavailable-...) is no impression.                 *)
Fallback(r) ==
  /\ pc[r] = "fallback"
  /\ selected' = [selected EXCEPT ![r] = Best(r, cart[r], Prior)]
  /\ local' = [local EXCEPT ![r] = @ + 1]
  /\ id' = [id EXCEPT ![r] = 0]
  /\ unindexed' = [unindexed EXCEPT ![r] = {}]
  /\ pc' = [pc EXCEPT ![r] = "answer"]
  /\ UNCHANGED <<redisVars, issued, life, offers, session, cart, shown,
                 requests, faults>>

(* A wrong variant claims nothing when the historical order is the answer. *)
ClaimsOfDecision(r) ==
  {<<session[r], p>> : p \in IF id[r] = 0 THEN {} ELSE selected[r] \cap Coupons}

(* The coupons among the selected products count as issued. *)
Claims(r) == {<<session[r], p>> : p \in selected[r] \cap Coupons}

(* Each request has a number, and with it each offer. *)
Offer(r, p) ==
  [process |-> r, life |-> life[r], session |-> session[r], product |-> p,
   request |-> requests]

Answer(r) ==
  /\ pc[r] = "answer"
  /\ issued' = [issued EXCEPT ![r] = @ \cup Claims(r)]
  /\ offers' = offers \cup {Offer(r, p) : p \in selected[r] \cap Coupons}
  /\ shown' = IF id[r] = 0 THEN shown
              ELSE shown \cup {[id |-> id[r], session |-> session[r], items |-> selected[r]]}
  /\ Leave(r)
  /\ UNCHANGED <<redisVars, local, life, session, requests, faults>>

(* A process is killed and started again: its counters and its claims are  *)
(* in its memory, the offers that shoppers saw are not.                    *)
Kill(r) ==
  /\ Leave(r)
  /\ local' = [local EXCEPT ![r] = 0]
  /\ issued' = [issued EXCEPT ![r] = {}]
  /\ life' = [life EXCEPT ![r] = @ + 1]
  /\ Fault
  /\ UNCHANGED <<redisVars, session, shown, offers, requests>>

-----------------------------------------------------------------------------

Works(r) ==
  \/ TakeNumber(r) \/ Decide(r) \/ Record(r) \/ (\E p \in Products : Index(r, p))
  \/ Indexed(r) \/ Fallback(r) \/ Answer(r)

Next ==
  \/ \E r \in Processes, s \in Sessions, content \in Carts : Ask(r, s, content)
  \/ \E r \in Processes : Works(r) \/ Raises(r) \/ Kill(r)

Spec == Init /\ [][Next]_vars

(* A request that is being served goes on; nothing makes anyone ask. *)
Fairness == \A r \in Processes : WF_vars(Works(r))

FairSpec == Spec /\ Fairness

-----------------------------------------------------------------------------
(* The inductive invariant.                                                *)

(* The decision r is making, or recording. *)
Own(r) == [id |-> id[r], session |-> session[r], items |-> selected[r]]

(* The number of a decision is in the process only until it is recorded.   *)
NumberInv ==
  /\ \A d \in impressions : 0 < d.id /\ d.id <= sequence
  /\ \A r \in Processes : pc[r] = "guard" =>
       /\ local[r] < sequence
       /\ \A d \in impressions : d.id # local[r] + 1
  /\ \A r \in Processes : pc[r] = "record" =>
       /\ 0 < id[r] /\ id[r] <= sequence
       /\ \A d \in impressions : d.id # id[r]

(* The number r has taken, if it has recorded nothing yet. *)
Number(r) == IF pc[r] = "guard" THEN local[r] + 1 ELSE id[r]

(* No two processes have the same one. *)
OwnNumberInv ==
  \A r, q \in Processes :
    r # q /\ pc[r] \in {"guard", "record"} /\ pc[q] \in {"guard", "record"}
      => Number(r) # Number(q)

(* The index refers to decisions that are recorded. *)
IndexInv ==
  \A s \in Sessions, p \in Products :
    latest[s][p] # 0 =>
      \E d \in impressions : d.id = latest[s][p] /\ d.session = s /\ p \in d.items

(* A decision is recorded while it is indexed, and indexed when it is      *)
(* answered.                                                               *)
ProgressInv ==
  \A r \in Processes :
    /\ pc[r] = "record" => unindexed[r] = selected[r]
    /\ pc[r] = "index" => unindexed[r] \subseteq selected[r]
    /\ pc[r] = "index" => id[r] # 0 /\ Own(r) \in impressions
    /\ pc[r] = "answer" /\ id[r] # 0 => Own(r) \in impressions
    /\ pc[r] = "index" \/ (pc[r] = "answer" /\ id[r] # 0) =>
         \A p \in selected[r] \ (IF pc[r] = "index" THEN unindexed[r] ELSE {}) :
           latest[session[r]][p] # 0

(* A process remembers what it offered in its present life, and what was   *)
(* selected may be offered.                                                *)
OfferInv ==
  /\ \A o \in offers :
       /\ o.life <= life[o.process]
       /\ o.life = life[o.process] => <<o.session, o.product>> \in issued[o.process]
  /\ \A r \in Processes : pc[r] \in {"record", "index", "answer"} =>
       \A p \in selected[r] \cap Coupons : <<session[r], p>> \notin issued[r]

(* Every answer that names an impression was recorded under this name, for *)
(* its session and with exactly the products shown: no other process, and  *)
(* no decision that was cut off, ever takes its place.                     *)
ShownIsRecorded == shown \subseteq impressions

(* Feedback on a shown product that does not name an impression finds one  *)
(* of its session that contains the product, however the writes of several *)
(* decisions mix.                                                          *)
ShownIsAttributable ==
  \A a \in shown : \A p \in a.items :
    \E d \in impressions :
      d.id = latest[a.session][p] /\ d.session = a.session /\ p \in d.items

(* Of two offers of a coupon to a session, one is by another process, or   *)
(* the process was killed in between: decisions and fallbacks, with Redis  *)
(* or without, never repeat an offer as long as the process lives.  The    *)
(* claims of CouponGuardrails are no more than its memory, so other lives  *)
(* and other processes do repeat it.                                       *)
RepeatedOfferIsOfAnotherLife ==
  \A a, b \in offers :
    a # b /\ a.session = b.session /\ a.product = b.product
      => a.process # b.process \/ a.life # b.life

ShownInv == \A a \in shown : \A p \in a.items : latest[a.session][p] # 0

RankingInvariant ==
  /\ NumberInv /\ OwnNumberInv /\ IndexInv /\ ProgressInv /\ OfferInv
  /\ ShownInv /\ ShownIsRecorded /\ ShownIsAttributable /\ RepeatedOfferIsOfAnotherLife

(* Every request is answered, Redis or not, unless its process is killed,  *)
(* and the lock is free again.                                             *)
AnswersAlways == \A r \in Processes : pc[r] # "idle" ~> pc[r] = "idle"
=============================================================================

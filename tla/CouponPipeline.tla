--------------------------- MODULE CouponPipeline ---------------------------
(***************************************************************************)
(* From a shopper's clicks to a redeemable coupon: the browser publishes   *)
(* events to a partitioned Kafka topic, the consumers of one group         *)
(* (pipeline/consumer.py) evaluate each event with the in-memory carts of  *)
(* their CouponEngine, claim the offer in Redis, deliver it (coupon topic, *)
(* ledger, activity stream) and commit the offset.                         *)
(*                                                                         *)
(* A coupon is identified by the view event that caused it (the code's     *)
(* coupon_id is "coupon:" + event_id + product), and an event by its place *)
(* in the log, <<partition, index>>.                                       *)
(*                                                                         *)
(* Calls to Kafka and Redis may raise, with or without their effect; a     *)
(* process may be killed at any point; the group may rebalance while a     *)
(* consumer is in the middle of a message.                                 *)
(***************************************************************************)
EXTENDS CouponPolicy, Sequences, FiniteSets, SequencesExt

CONSTANTS
  Sessions,       \* (user_id, session_id) pairs, the key of CouponEngine._users
  Partitions,     \* partitions of the clickstream topic
  PartitionOf,    \* the partition the Kafka key (user_id) selects
  Consumers,      \* processes of the consumer group
  MaxUsers,       \* sessions an engine remembers, 500 in the code
  NoId, NoProduct, NoConsumer

CONSTANTS         \* bounds of the model
  Traffic,        \* what shoppers may do
  MaxQuantity,    \* units of one product in a basket, 99 in the code
  MaxEvents,      \* events per partition
  MaxFaults       \* calls that raise, processes killed, members evicted, groups abandoned

Kinds == {"cart_item_added", "cart_item_removed", "product_view_started",
          "product_view_ended", "coupon_applied", "checkout_completed"}

EngineKinds == {"cart_item_added", "cart_item_removed", "product_view_started",
                "product_view_ended"}

(* What a shopper does: dwelt says that the dwell time of a view reached   *)
(* the threshold.                                                          *)
Stimuli == [kind : Kinds, session : Sessions, product : Products, dwelt : BOOLEAN]

(* An event of the log.  told and held are not in the message, they record *)
(* the shopper's side when it was published: the products whose latest     *)
(* cart event of this session added them, and the products in the basket.  *)
Events == [kind : Kinds, session : Sessions, product : Products, dwelt : BOOLEAN,
           told : SUBSET Products, held : SUBSET Products]

Ids == Partitions \X (Nat \ {0})

Offers == Sessions \X Products

ASSUME PipelineAssumption ==
  /\ IsFiniteSet(Sessions)
  /\ PartitionOf \in [Sessions -> Partitions]
  /\ MaxUsers \in Nat \ {0}
  /\ Traffic \subseteq Stimuli
  /\ NoId \notin Ids
  /\ NoProduct \notin Products
  /\ NoConsumer \notin Consumers
  /\ MaxQuantity \in Nat \ {0} /\ MaxEvents \in Nat /\ MaxFaults \in Nat

VARIABLES
  (* the browsers *)
  basket,         \* units of each product in a session's basket
  told,           \* products of a session whose latest cart event added them
  (* Kafka *)
  log,            \* events of each partition
  committed,      \* events of each partition the group has committed
  owner,          \* consumer a partition is assigned to
  couponTopic,    \* coupon.issued messages: coupon and supporting item
  (* Redis *)
  claims,         \* claim key of each offer; its value says who set it
  ledger,         \* coupons in the ledger
  activity,       \* ids recorded in the activity stream, by kind
  (* the consumer processes *)
  pc,             \* next step of a consumer, "down" when it does not run
  at,             \* the event it is processing
  support,        \* supporting item of its coupon decision, NoProduct without one
  users,          \* sessions its engine remembers, least recently used first
  carts,          \* its engine's carts
  fenced,         \* consumers the group went on without
  (* the history of deliveries *)
  aborted,        \* coupons whose latest delivery released its claim
  abandoned,      \* coupons whose delivery ended without releasing its claim
  faults          \* exceptions, kills, rebalances and new groups so far

shopperVars == <<basket, told, log>>
groupVars == <<committed, owner, fenced>>
redisVars == <<claims, ledger, activity>>
engineVars == <<users, carts>>
historyVars == <<aborted, abandoned>>

vars == <<basket, told, log, committed, owner, couponTopic, claims, ledger,
          activity, pc, at, support, users, carts, fenced, aborted, abandoned,
          faults>>

Steps == {"down", "poll", "evaluate", "receive", "send", "issue", "announce",
          "release", "suppress", "commit"}

Event(id) == log[id[1]][id[2]]

OfferOf(id) == <<Event(id).session, Event(id).product>>

Published == UNION {{<<p, i>> : i \in 1..Len(log[p])} : p \in Partitions}

TypeOK ==
  /\ basket \in [Sessions -> [Products -> Nat]]
  /\ told \in [Sessions -> SUBSET Products]
  /\ log \in [Partitions -> Seq(Events)]
  /\ committed \in [Partitions -> Nat]
  /\ owner \in [Partitions -> Consumers \cup {NoConsumer}]
  /\ couponTopic \subseteq [coupon : Published, support : Products]
  /\ claims \in [Offers -> Published \cup {NoId}]
  /\ ledger \subseteq Published
  /\ activity \in [received : SUBSET Published, announced : SUBSET Published,
                   suppressed : SUBSET Published]
  /\ pc \in [Consumers -> Steps]
  /\ at \in [Consumers -> Published \cup {NoId}]
  /\ support \in [Consumers -> Products \cup {NoProduct}]
  /\ users \in [Consumers -> Seq(Sessions)]
  /\ carts \in [Consumers -> [Sessions -> SUBSET Products]]
  /\ fenced \subseteq Consumers
  /\ aborted \subseteq Published
  /\ abandoned \subseteq Published
  /\ faults \in Nat

Init ==
  /\ basket = [s \in Sessions |-> [p \in Products |-> 0]]
  /\ told = [s \in Sessions |-> {}]
  /\ log = [p \in Partitions |-> <<>>]
  /\ committed = [p \in Partitions |-> 0]
  /\ owner = [p \in Partitions |-> NoConsumer]
  /\ couponTopic = {}
  /\ claims = [o \in Offers |-> NoId]
  /\ ledger = {}
  /\ activity = [received |-> {}, announced |-> {}, suppressed |-> {}]
  /\ pc = [c \in Consumers |-> "down"]
  /\ at = [c \in Consumers |-> NoId]
  /\ support = [c \in Consumers |-> NoProduct]
  /\ users = [c \in Consumers |-> <<>>]
  /\ carts = [c \in Consumers |-> [s \in Sessions |-> {}]]
  /\ fenced = {}
  /\ aborted = {}
  /\ abandoned = {}
  /\ faults = 0

-----------------------------------------------------------------------------
(* The browser: marketplace.js, product.js and checkout.js.                *)

(* Units of the basket after an action.  An addition is capped, a removal  *)
(* takes one unit, an applied coupon puts its product into the basket if   *)
(* it is not there, and a completed checkout empties the basket.           *)
Basket(units, e) ==
  CASE e.kind = "cart_item_added" ->
         [units EXCEPT ![e.product] = IF @ < MaxQuantity THEN @ + 1 ELSE @]
    [] e.kind = "cart_item_removed" ->
         [units EXCEPT ![e.product] = @ - 1]
    [] e.kind = "coupon_applied" ->
         [units EXCEPT ![e.product] = IF @ = 0 THEN 1 ELSE @]
    [] e.kind = "checkout_completed" -> [p \in Products |-> 0]
    [] OTHER -> units

(* What the stream alone says of the basket: only these two kinds speak of *)
(* it, and neither says how many units remain.                             *)
Told(products, e) ==
  CASE e.kind = "cart_item_added" -> products \cup {e.product}
    [] e.kind = "cart_item_removed" -> products \ {e.product}
    [] OTHER -> products

(* changeQuantity works on a line of the basket, applyCoupon on an offer   *)
(* the activity stream showed, and checkout on a basket with something in. *)
CanDo(e) ==
  CASE e.kind = "cart_item_removed" -> basket[e.session][e.product] > 0
    [] e.kind = "coupon_applied" ->
         \E id \in activity.announced : OfferOf(id) = <<e.session, e.product>>
    [] e.kind = "checkout_completed" ->
         \E p \in Products : basket[e.session][p] > 0
    [] OTHER -> TRUE

(* A shopper acts and the event reaches Kafka. *)
Publish(e) ==
  LET s == e.session
      p == PartitionOf[s]
      units == Basket(basket[s], e)
  IN  /\ Len(log[p]) < MaxEvents
      /\ CanDo(e)
      /\ basket' = [basket EXCEPT ![s] = units]
      /\ told' = [told EXCEPT ![s] = Told(@, e)]
      /\ log' = [log EXCEPT ![p] = Append(@,
                   [kind |-> e.kind, session |-> s, product |-> e.product,
                    dwelt |-> e.dwelt, told |-> Told(told[s], e),
                    held |-> {q \in Products : units[q] > 0}])]
      /\ UNCHANGED <<groupVars, couponTopic, redisVars, pc, at, support,
                     engineVars, historyVars, faults>>

-----------------------------------------------------------------------------
(* The consumer group.                                                     *)

Fault == faults < MaxFaults /\ faults' = faults + 1

Joined == {c \in Consumers : pc[c] = "poll"}
Busy == {c \in Consumers : pc[c] \notin {"down", "poll"}}

(* The ordinary assignment: a partition is free and every member polls. *)
Assign ==
  /\ Busy = {}
  /\ \E p \in Partitions : owner[p] = NoConsumer
  /\ owner' \in [Partitions -> Joined]
  /\ UNCHANGED <<shopperVars, committed, fenced, couponTopic, redisVars, pc, at,
                 support, engineVars, historyVars, faults>>

(* A new generation of the group at any other time.  Its members are the   *)
(* consumers that are polling; one in the middle of a message is left out. *)
Rebalance ==
  /\ Fault
  /\ owner' \in [Partitions -> Joined]
  /\ fenced' = fenced \cup Busy
  /\ UNCHANGED <<shopperVars, committed, couponTopic, redisVars, pc, at, support,
                 engineVars, historyVars>>

(* The consumers ended and are run again with another --group-id, as the   *)
(* README and the scripts do: the new group has committed nothing and      *)
(* reads the topic from its start, Redis keeps what the old one did.       *)
FreshGroup ==
  /\ \A c \in Consumers : pc[c] = "down"
  /\ Fault
  /\ committed' = [p \in Partitions |-> 0]
  /\ UNCHANGED <<shopperVars, owner, fenced, couponTopic, redisVars, pc, at, support,
                 engineVars, historyVars>>

(* main: a new process with an empty engine joins the group. *)
Start(c) ==
  /\ pc[c] = "down"
  /\ pc' = [pc EXCEPT ![c] = "poll"]
  /\ UNCHANGED <<shopperVars, groupVars, couponTopic, redisVars, at, support,
                 engineVars, historyVars, faults>>

(* The process ends: what it held in memory is gone, its partitions are    *)
(* free.                                                                   *)
Exit(c) ==
  /\ pc' = [pc EXCEPT ![c] = "down"]
  /\ at' = [at EXCEPT ![c] = NoId]
  /\ support' = [support EXCEPT ![c] = NoProduct]
  /\ users' = [users EXCEPT ![c] = <<>>]
  /\ carts' = [carts EXCEPT ![c] = [s \in Sessions |-> {}]]
  /\ fenced' = fenced \ {c}
  /\ owner' = [p \in Partitions |-> IF owner[p] = c THEN NoConsumer ELSE owner[p]]

Abandon(c) ==
  abandoned' = IF support[c] # NoProduct /\ pc[c] # "commit"
                 THEN abandoned \cup {at[c]} ELSE abandoned

(* Kill, interrupt, power loss: no handler runs. *)
Kill(c) ==
  /\ pc[c] # "down"
  /\ Fault
  /\ Exit(c)
  /\ Abandon(c)
  /\ UNCHANGED <<shopperVars, committed, couponTopic, redisVars, aborted>>

-----------------------------------------------------------------------------
(* One message: "for message in consumer".                                 *)

(* A wrong variant: a consumer polls past the end of the log. *)
PollPastEnd(c) ==
  /\ pc[c] = "poll"
  /\ \E p \in Partitions :
       /\ owner[p] = c
       /\ at' = [at EXCEPT ![c] = <<p, committed[p] + 1>>]
  /\ pc' = [pc EXCEPT ![c] = "evaluate"]
  /\ UNCHANGED <<shopperVars, groupVars, couponTopic, redisVars, support,
                 engineVars, historyVars, faults>>

(* The next event of an assigned partition, starting after the committed   *)
(* ones (auto_offset_reset is earliest).                                   *)
Poll(c) ==
  /\ pc[c] = "poll"
  /\ \E p \in Partitions :
       /\ owner[p] = c
       /\ committed[p] < Len(log[p])
       /\ at' = [at EXCEPT ![c] = <<p, committed[p] + 1>>]
  /\ pc' = [pc EXCEPT ![c] = "evaluate"]
  /\ UNCHANGED <<shopperVars, groupVars, couponTopic, redisVars, support,
                 engineVars, historyVars, faults>>

(* A wrong variant forgets the most recent session instead of the oldest.  *)
EvictNewest(seq) ==
  IF Len(seq) > MaxUsers THEN SubSeq(seq, 1, MaxUsers) ELSE seq

EvictOldest(seq) ==
  IF Len(seq) > MaxUsers THEN Tail(seq) ELSE seq

(* setdefault, move_to_end and popitem(last=False) on _users. *)
Touch(seq, s) ==
  LET others == IF \E i \in 1..Len(seq) : seq[i] = s
                  THEN RemoveAt(seq, CHOOSE i \in 1..Len(seq) : seq[i] = s)
                  ELSE seq
  IN  EvictOldest(Append(others, s))

(* A wrong variant never removes. *)
CartAfterAddsOnly(cart, e) ==
  IF e.kind = "cart_item_added" THEN cart \cup {e.product} ELSE cart

(* The engine's cart for the session of an event once it is applied. *)
CartAfter(cart, e) ==
  CASE e.kind = "cart_item_added" -> cart \cup {e.product}
    [] e.kind = "cart_item_removed" -> cart \ {e.product}
    [] OTHER -> cart

(* The carts of the sessions the engine remembers. *)
Remember(c, e) ==
  LET kept == Touch(users[c], e.session)
      applied == [carts[c] EXCEPT ![e.session] = CartAfter(@, e)]
  IN  IF e.kind \in EngineKinds
        THEN /\ users' = [users EXCEPT ![c] = kept]
             /\ carts' = [carts EXCEPT ![c] =
                  [s \in Sessions |-> IF s \in ToSet(kept) THEN applied[s] ELSE {}]]
        ELSE UNCHANGED engineVars

(* The supporting items a view can be decided on: none unless it was long  *)
(* enough and its product is not in the engine's cart.                     *)
SupportFor(cart, e) ==
  IF e.kind = "product_view_ended" /\ e.dwelt /\ e.product \notin cart
    THEN Strongest(cart, e.product)
    ELSE {}

(* A wrong variant: the claim key is set without NX. *)
EvaluateOverwritesClaim(c) ==
  LET e == Event(at[c])
      supports == SupportFor(carts[c][e.session], e)
  IN  /\ pc[c] = "evaluate"
      /\ Remember(c, e)
      /\ IF supports # {}
           THEN /\ claims' = [claims EXCEPT ![OfferOf(at[c])] = at[c]]
                /\ \E item \in supports : support' = [support EXCEPT ![c] = item]
                /\ aborted' = aborted \ {at[c]}
           ELSE UNCHANGED <<claims, support, aborted>>
      /\ pc' = [pc EXCEPT ![c] = "receive"]
      /\ UNCHANGED <<shopperVars, groupVars, couponTopic, ledger, activity, at,
                     abandoned, faults>>

(* evaluate: update the engine and decide.  SET NX on the claim key        *)
(* decides between consumers; a claim already there suppresses the offer.  *)
Evaluate(c) ==
  LET e == Event(at[c])
      o == OfferOf(at[c])
      supports == SupportFor(carts[c][e.session], e)
  IN  /\ pc[c] = "evaluate"
      /\ Remember(c, e)
      /\ IF supports # {} /\ claims[o] = NoId
           THEN /\ claims' = [claims EXCEPT ![o] = at[c]]
                /\ \E item \in supports : support' = [support EXCEPT ![c] = item]
                /\ aborted' = aborted \ {at[c]}
           ELSE UNCHANGED <<claims, support, aborted>>
      /\ pc' = [pc EXCEPT ![c] = "receive"]
      /\ UNCHANGED <<shopperVars, groupVars, couponTopic, ledger, activity, at,
                     abandoned, faults>>

Recorded(kind, id) == activity' = [activity EXCEPT ![kind] = @ \cup {id}]

(* A wrong variant commits a view without an offer at once. *)
ReceiveForgetsSuppression(c) ==
  /\ pc[c] = "receive"
  /\ Recorded("received", at[c])
  /\ pc' = [pc EXCEPT ![c] = IF support[c] # NoProduct THEN "send" ELSE "commit"]
  /\ UNCHANGED <<shopperVars, groupVars, couponTopic, claims, ledger, at, support,
                 engineVars, historyVars, faults>>

(* activity.record("event_received"), before and outside the try block. *)
Receive(c) ==
  /\ pc[c] = "receive"
  /\ Recorded("received", at[c])
  /\ pc' = [pc EXCEPT ![c] =
       IF support[c] # NoProduct THEN "send"
       ELSE IF Event(at[c]).kind = "product_view_ended" THEN "suppress"
       ELSE "commit"]
  /\ UNCHANGED <<shopperVars, groupVars, couponTopic, claims, ledger, at, support,
                 engineVars, historyVars, faults>>

(* A wrong variant announces before the ledger is written. *)
SendThenAnnounce(c) ==
  /\ pc[c] = "send"
  /\ couponTopic' = couponTopic \cup {[coupon |-> at[c], support |-> support[c]]}
  /\ pc' = [pc EXCEPT ![c] = "announce"]
  /\ UNCHANGED <<shopperVars, groupVars, redisVars, at, support, engineVars,
                 historyVars, faults>>

(* producer.send(...).get(timeout=10) *)
Send(c) ==
  /\ pc[c] = "send"
  /\ couponTopic' = couponTopic \cup {[coupon |-> at[c], support |-> support[c]]}
  /\ pc' = [pc EXCEPT ![c] = "issue"]
  /\ UNCHANGED <<shopperVars, groupVars, redisVars, at, support, engineVars,
                 historyVars, faults>>

(* coupon_ledger.issue(decision) *)
Issue(c) ==
  /\ pc[c] = "issue"
  /\ ledger' = ledger \cup {at[c]}
  /\ pc' = [pc EXCEPT ![c] = "announce"]
  /\ UNCHANGED <<shopperVars, groupVars, couponTopic, claims, activity, at, support,
                 engineVars, historyVars, faults>>

(* activity.record("coupon_issued", decision): the storefront shows it. *)
Announce(c) ==
  /\ pc[c] = "announce"
  /\ Recorded("announced", at[c])
  /\ pc' = [pc EXCEPT ![c] = "commit"]
  /\ UNCHANGED <<shopperVars, groupVars, couponTopic, claims, ledger, at, support,
                 engineVars, historyVars, faults>>

(* activity.record("coupon_suppressed", ...) *)
Suppress(c) ==
  /\ pc[c] = "suppress"
  /\ Recorded("suppressed", at[c])
  /\ pc' = [pc EXCEPT ![c] = "commit"]
  /\ UNCHANGED <<shopperVars, groupVars, couponTopic, claims, ledger, at, support,
                 engineVars, historyVars, faults>>

(* A wrong variant: the broker accepts the offset of an evicted member. *)
CommitUnfenced(c) ==
  /\ pc[c] = "commit"
  /\ committed' = [committed EXCEPT ![at[c][1]] = at[c][2]]
  /\ pc' = [pc EXCEPT ![c] = "poll"]
  /\ at' = [at EXCEPT ![c] = NoId]
  /\ support' = [support EXCEPT ![c] = NoProduct]
  /\ UNCHANGED <<shopperVars, owner, fenced, couponTopic, redisVars, engineVars,
                 historyVars, faults>>

(* A wrong variant goes on without committing. *)
CommitForgotten(c) ==
  /\ pc[c] = "commit"
  /\ c \notin fenced
  /\ pc' = [pc EXCEPT ![c] = "poll"]
  /\ at' = [at EXCEPT ![c] = NoId]
  /\ support' = [support EXCEPT ![c] = NoProduct]
  /\ UNCHANGED <<shopperVars, groupVars, couponTopic, redisVars, engineVars,
                 historyVars, faults>>

(* consumer.commit(): the group accepts it from a current member. *)
Commit(c) ==
  /\ pc[c] = "commit"
  /\ c \notin fenced
  /\ committed' = [committed EXCEPT ![at[c][1]] = at[c][2]]
  /\ pc' = [pc EXCEPT ![c] = "poll"]
  /\ at' = [at EXCEPT ![c] = NoId]
  /\ support' = [support EXCEPT ![c] = NoProduct]
  /\ UNCHANGED <<shopperVars, owner, fenced, couponTopic, redisVars, engineVars,
                 historyVars, faults>>

(* A member the group went on without gets CommitFailedError and exits. *)
CommitRefused(c) ==
  /\ pc[c] = "commit"
  /\ c \in fenced
  /\ Exit(c)
  /\ UNCHANGED <<shopperVars, committed, couponTopic, redisVars, historyVars, faults>>

-----------------------------------------------------------------------------
(* Calls that raise.  The exception may come after the effect: the server  *)
(* did the work and the answer was lost.                                   *)

(* A rule lookup or the claim raises.  evaluate has no handler, so a claim *)
(* that was set stays.                                                     *)
EvaluateRaises(c) ==
  LET e == Event(at[c])
      o == OfferOf(at[c])
  IN  /\ pc[c] = "evaluate"
      /\ Fault
      /\ \/ UNCHANGED <<claims, aborted, abandoned>>
         \/ /\ SupportFor(carts[c][e.session], e) # {}
            /\ claims[o] = NoId
            /\ claims' = [claims EXCEPT ![o] = at[c]]
            /\ aborted' = aborted \ {at[c]}
            /\ abandoned' = abandoned \cup {at[c]}
      /\ Exit(c)
      /\ UNCHANGED <<shopperVars, committed, couponTopic, ledger, activity>>

(* Recording event_received or coupon_suppressed, or the commit, raises:   *)
(* these are outside the try block.                                        *)
StepRaises(c) ==
  /\ \/ /\ pc[c] = "receive"
        /\ \/ Recorded("received", at[c])
           \/ UNCHANGED activity
        /\ Abandon(c)
        /\ UNCHANGED committed
     \/ /\ pc[c] = "suppress"
        /\ \/ Recorded("suppressed", at[c])
           \/ UNCHANGED activity
        /\ UNCHANGED <<abandoned, committed>>
     \/ /\ pc[c] = "commit"
        /\ \/ c \notin fenced /\ committed' = [committed EXCEPT ![at[c][1]] = at[c][2]]
           \/ UNCHANGED committed
        /\ UNCHANGED <<abandoned, activity>>
  /\ Fault
  /\ Exit(c)
  /\ UNCHANGED <<shopperVars, couponTopic, claims, ledger, aborted>>

(* A wrong variant: the handler covers only the send, so an exception of   *)
(* the ledger ends the process with the claim set.                         *)
DeliveryRaisesUnhandled(c) ==
  /\ pc[c] = "issue"
  /\ Fault
  /\ Exit(c)
  /\ UNCHANGED <<shopperVars, committed, couponTopic, redisVars, historyVars>>

(* One of the three deliveries raises inside the try block.  Sending may   *)
(* have put the message on the topic, or the flush of the finally block    *)
(* will.                                                                   *)
DeliveryRaises(c) ==
  /\ \/ /\ pc[c] = "send"
        /\ couponTopic' \in {couponTopic,
             couponTopic \cup {[coupon |-> at[c], support |-> support[c]]}}
        /\ UNCHANGED <<ledger, activity>>
     \/ /\ pc[c] = "issue"
        /\ ledger' \in {ledger, ledger \cup {at[c]}}
        /\ UNCHANGED <<couponTopic, activity>>
     \/ /\ pc[c] = "announce"
        /\ \/ Recorded("announced", at[c])
           \/ UNCHANGED activity
        /\ UNCHANGED <<couponTopic, ledger>>
  /\ Fault
  /\ pc' = [pc EXCEPT ![c] = "release"]
  /\ UNCHANGED <<shopperVars, groupVars, claims, at, support, engineVars, historyVars>>

(* engine.release_claim(decision), then the exception goes on. *)
Release(c) ==
  /\ pc[c] = "release"
  /\ claims' = [claims EXCEPT ![OfferOf(at[c])] = NoId]
  /\ aborted' = aborted \cup {at[c]}
  /\ Exit(c)
  /\ UNCHANGED <<shopperVars, committed, couponTopic, ledger, activity, abandoned,
                 faults>>

(* The DEL itself raises, the same Redis may just have failed. *)
ReleaseRaises(c) ==
  /\ pc[c] = "release"
  /\ Fault
  /\ \/ /\ claims' = [claims EXCEPT ![OfferOf(at[c])] = NoId]
        /\ aborted' = aborted \cup {at[c]}
        /\ UNCHANGED abandoned
     \/ /\ Abandon(c)
        /\ UNCHANGED <<claims, aborted>>
  /\ Exit(c)
  /\ UNCHANGED <<shopperVars, committed, couponTopic, ledger, activity>>

-----------------------------------------------------------------------------
Works(c) ==
  \/ Poll(c) \/ Evaluate(c) \/ Receive(c) \/ Send(c) \/ Issue(c) \/ Announce(c)
  \/ Suppress(c) \/ Commit(c) \/ CommitRefused(c) \/ Release(c)

Fails(c) ==
  \/ Kill(c) \/ EvaluateRaises(c) \/ StepRaises(c) \/ DeliveryRaises(c)
  \/ ReleaseRaises(c)

Next ==
  \/ \E e \in Traffic : Publish(e)
  \/ Assign \/ Rebalance \/ FreshGroup
  \/ \E c \in Consumers : Start(c) \/ Works(c) \/ Fails(c)

Spec == Init /\ [][Next]_vars

(* A consumer that ended is started again (by its operator: run_live.sh    *)
(* notices that it stopped and says so), the broker assigns free           *)
(* partitions, and a running consumer goes on.  Nothing forces shoppers to *)
(* act or calls to fail.                                                   *)
Fairness ==
  /\ WF_vars(Assign)
  /\ \A c \in Consumers : WF_vars(Start(c)) /\ WF_vars(Works(c))

FairSpec == Spec /\ Fairness
-----------------------------------------------------------------------------
(* The inductive invariant, in the parts its proof uses.                   *)

Idle(c) == pc[c] \in {"down", "poll"}

Delivering(c) == support[c] # NoProduct

(* What a consumer carries at each of its steps. *)
ControlInv ==
  \A c \in Consumers :
    /\ Idle(c) <=> at[c] = NoId
    /\ Delivering(c) => pc[c] \in {"receive", "send", "issue", "announce", "release",
                                   "commit"}
    /\ pc[c] \in {"send", "issue", "announce", "release"} => Delivering(c)

(* A delivery in progress holds the claim of its offer, and is the only    *)
(* one for it.                                                             *)
ClaimInv ==
  \A c \in Consumers : Delivering(c) =>
    /\ claims[OfferOf(at[c])] = at[c]
    /\ \A d \in Consumers \ {c} : Delivering(d) => at[d] # at[c]

(* A coupon whose latest delivery was not released still holds its claim.  *)
LiveInv == \A id \in ledger \ aborted : claims[OfferOf(id)] = id

(* How far the delivery of a coupon has come. *)
OrderInv ==
  \A c \in Consumers :
    /\ pc[c] \in {"issue", "announce"} => \E m \in couponTopic : m.coupon = at[c]
    /\ pc[c] = "announce" => at[c] \in ledger

(* The group has committed nothing that is not in the log, and a member of *)
(* its current generation works on the first uncommitted event of a        *)
(* partition it owns.                                                      *)
OffsetInv ==
  /\ \A p \in Partitions : committed[p] <= Len(log[p])
  /\ \A c \in Consumers : ~Idle(c) /\ c \notin fenced =>
       owner[at[c][1]] = c /\ at[c][2] = committed[at[c][1]] + 1

(* What has been recorded of an event by the time it can be committed.     *)
AnswerInv ==
  \A c \in Consumers :
    /\ ~Idle(c) /\ pc[c] \notin {"evaluate", "receive"} => at[c] \in activity.received
    /\ pc[c] = "commit" /\ Event(at[c]).kind = "product_view_ended" =>
         at[c] \in activity.announced \cup activity.suppressed

(* A claim names a coupon of its own offer, and a delivery that is about   *)
(* to be committed is in the ledger.                                       *)
AccountInv ==
  /\ \A o \in Offers : claims[o] # NoId => OfferOf(claims[o]) = o
  /\ \A c \in Consumers : Delivering(c) /\ pc[c] = "commit" => at[c] \in ledger

DeliveryInvariant ==
  ControlInv /\ ClaimInv /\ LiveInv /\ OrderInv /\ OffsetInv /\ AnswerInv /\ AccountInv

-----------------------------------------------------------------------------
(* Properties.                                                             *)

(* Among the coupons of one shopper, session and product at most one has a *)
(* latest delivery that was not given up by releasing its claim, whatever  *)
(* raises, is killed or is evicted from the group: apart from the release  *)
(* path, the claim makes a second offer impossible.                        *)
OneLiveCoupon ==
  \A i, j \in ledger \ aborted : OfferOf(i) = OfferOf(j) => i = j

(* A coupon the storefront has been shown can be redeemed: announcing      *)
(* follows the ledger, which follows the coupon topic, on every path.      *)
ShownCouponIsRedeemable ==
  /\ activity.announced \subseteq ledger
  /\ ledger \subseteq {m.coupon : m \in couponTopic}

(* At least once: no crash, eviction or exception lets the group commit an *)
(* event it has not recorded, or a view it has neither answered with a     *)
(* coupon nor recorded as suppressed.                                      *)
CommittedEventsAnswered ==
  \A id \in Published : id[2] <= committed[id[1]] =>
    /\ id \in activity.received
    /\ Event(id).kind = "product_view_ended" =>
         id \in activity.announced \cup activity.suppressed

(* A claim that stands for no coupon and no delivery in progress exists    *)
(* only where a process ended outside the handler that releases claims.    *)
ClaimIsAccountedFor ==
  \A o \in Offers : claims[o] # NoId =>
    \/ claims[o] \in ledger \cup abandoned
    \/ \E c \in Consumers : at[c] = claims[o] /\ support[c] # NoProduct

(* No message is skipped and no committed one is taken back, even when a   *)
(* consumer the group evicted finishes its message late.  Only a new group *)
(* starts over.                                                            *)
OffsetsAdvanceByOne ==
  [][\/ FreshGroup
     \/ \A p \in Partitions : committed'[p] \in {committed[p], committed[p] + 1}]_vars

(* Every published event is processed and committed in the end.            *)
EventuallyCommitted ==
  \A p \in Partitions : \A i \in 1..MaxEvents :
    Len(log[p]) >= i ~> committed[p] >= i

(* The sessions an engine that loses nothing still remembers at an event:  *)
(* those for which fewer than MaxUsers others may have been touched        *)
(* between any two of their engine events so far.  Those are the sessions  *)
(* active there and every session of another partition, since one engine   *)
(* reads all the partitions of its consumer in an order of its own.        *)
Active(p, first, last) ==
  {Event(<<p, i>>).session :
     i \in {n \in first..last : Event(<<p, n>>).kind \in EngineKinds}}

Rivals(p, first, last) ==
  Active(p, first, last) \cup {s \in Sessions : PartitionOf[s] # p}

Remembered(id) ==
  LET s == Event(id).session
      Mine(i) == Event(<<id[1], i>>).session = s /\ Event(<<id[1], i>>).kind \in EngineKinds
  IN  \A i, j \in 1..id[2] :
        i < j /\ Mine(i) /\ Mine(j) /\ s \notin Active(id[1], i + 1, j - 1)
          => Cardinality(Rivals(id[1], i + 1, j - 1)) < MaxUsers

(* When no process is lost, an offer is exactly what the policy says of    *)
(* the events the session published, provided the least recently used      *)
(* sessions are the ones the engine forgets: the product is not one the    *)
(* session added, and the supporting item is the strongest of those.       *)
OffersFollowTheStream ==
  \A m \in couponTopic :
    Remembered(m.coupon) =>
      m.support \in SupportFor(Event(m.coupon).told, Event(m.coupon))

(* ... and no shopper is passed over: a committed view the policy favours  *)
(* has a coupon for its product shown to that session.                     *)
FavouredViewsGetOffers ==
  \A id \in Published :
    /\ id[2] <= committed[id[1]]
    /\ SupportFor(Event(id).told, Event(id)) # {}
    /\ Remembered(id)
    => \E j \in activity.announced : OfferOf(j) = OfferOf(id) /\ j[2] <= id[2]

(* What docs/architecture.md says of the offers.  Both are violated.       *)

(* "A shopper/session/product combination receives at most one coupon      *)
(* while the seven-day Redis claim is active, including across consumer    *)
(* restarts."                                                              *)
AtMostOneCoupon ==
  \A i, j \in ledger : OfferOf(i) = OfferOf(j) => i = j

(* "A coupon is issued only when the viewed product is not already in the  *)
(* cart."                                                                  *)
NoOfferForBasketItem ==
  \A id \in ledger : Event(id).product \notin Event(id).held
=============================================================================

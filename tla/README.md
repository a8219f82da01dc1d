# MBA_Analysis: a TLA+ development

This directory holds a TLA+ model of this repository: the batch job that mines
association rules from past orders, the loader that publishes them, the stream
consumer that turns a shopper's clicks into coupons by them, the Redis stores
behind it, the checkout that redeems coupons, the ranking of recommendations, the
feedback it learns from, and the pages that follow all this live. The modules
are translated from `src/`. TLC checks them on small instances, TLAPS proves the
main results for every value of the constants. `PROJECT.json` lists the parts,
the runs, what each definition stands for, the wrong variants each property
rejects, and the hazards of the code.

Contents: [inventory](#1-the-system), [modules](#2-the-modules),
[what is abstracted](#3-what-the-model-abstracts), [runs](#4-the-runs),
[proofs](#5-the-proofs), [disagreements](#6-where-the-code-and-its-documents-disagree),
[what is left out](#7-what-is-not-modelled), [plan](#8-plan).

## 1. The system

```
 spark_bootstrap.py --- run directory, manifest --- rules_serving.csv
                                                      |        |
                              load_rules.py (Redis) <-+        +-> live_simulator.py,
                                    |                          |   producer.py
 browser (marketplace.js,           |                          v
   product.js, checkout.js)         |              main.py: catalog, lists
    | POST /api/events              |                      | POST /api/checkout
    v                               v                      v
 Flask (app/main.py) --- Kafka --- consumer.py:   create_order -- orders.jsonl
    |   adaptive_service   |         CouponEngine          |
    |   (memory or Redis)  |          claim, issue, record v redeem
    |                      |             Redis: rules, claims, ledger,
    |                      v                    activity, adaptive state
    |              adaptive_streaming.py (Spark) --> adaptive state
    +-- SSE /api/activity/stream  <-- activity stream
```

### Components

**Coupon engine** (`pipeline/coupon_engine.py`).
State: per `(user, session)` a cart and the open views, in an OrderedDict of at
most 500 sessions, in process memory. Operation: `evaluate(event)`, which
updates the cart or, at the end of a view that was long enough, looks up the
rule from every cart item to the viewed product, takes the qualifying item of
largest lift and claims the offer. Hard: the cart is a set of strings and its
iteration order changes between processes; the state disappears with the
process; sessions are evicted. Correct when: the outcome is a function of the
cart, not of the iteration; the engine's cart is what the stream says; the
session evicted is the least recently used.

**Consumer** (`pipeline/consumer.py`). State: its place in the topic, held by
the Kafka group. For each message: evaluate (with the claim), record
`event_received`, then either send the coupon to Kafka, write it to the ledger
and announce it in the activity stream, or record the suppression, then commit.
An exception of the three deliveries frees the claim; every exception ends the
process. Hard: the claim, three stores and the offset are written one after
another with nothing atomic over them; every call may raise with or without its
effect; processes are killed and restarted, also with a new group; the group
rebalances under a consumer in the middle of a message. Correct when: a
shopper, session and product gets one coupon; a coupon is shown only when it
can be redeemed; no event is skipped; nothing is committed unanswered; every
event is processed in the end.

**Ledger, claim store, activity log** (`pipeline/observability.py`), all in
Redis. Ledger: a hash per coupon, `issue` (HSET, may come again), `redeem` (a
filter by product, then a Lua script that marks the coupon with the order id).
Claims: SET NX with seven days. Activity: XADD and HINCRBY in one transaction, a
bounded stream that the storefront and the Signal Room read. Correct when: a
redeemed coupon stays with its order whatever is issued or redeemed again.

**Checkout** (`app/main.py`, `create_order`; `checkout.js`). State: the order
file, one JSON line per order, and `_order_lock`; in the browser the pending
order id, kept until a 201. Operation: under the lock, refuse an order id that
is in the file, redeem the coupons, append the order. Hard: the ledger and the
file are two stores; requests run in threads and are retried with the same
order id and perhaps another basket; replies get lost; writes fail or tear.
Correct when: an order id is stored once, a coupon discounts one order, a retry
gets the coupons an earlier attempt bound, and every request leaves the lock.

**Event publication** (`app/main.py`, `contracts.py`). State: the producer and
the moment until which events are refused after a Kafka error. Validates, sends
to the partition of the `user_id`, then feeds the adaptive service under
`_adaptive_lock`. Hard: an event reported as failed may be on the topic; requests
get the lock in any order; a consumption that fails is answered with 202 and not
repeated. Correct when: the stream makes up for what the handler missed.

**Storefront** (`marketplace.js`, `product.js`, `catalog.js`, `order.js`).
State: basket in localStorage, coupons in sessionStorage, the offers the
activity feed brought. Publishes an event per basket operation. Hard: answers of
old requests, several tabs, events lost or out of order.

**Rule snapshot** (`rules.py`, `load_rules.py`). State: a Redis hash per
antecedent and a set that names the antecedents. A load deletes the keys of the
last set, opens the artifact, keeps the strongest row of every pair and writes
the keys and the set in one transaction. Hard: deleting comes first, another
process looks rules up one by one meanwhile, the artifact may be missing.
Correct when: Redis holds one artifact or none, and the engine decides by it.

**Recommendation lists** (`main.py`). State: the catalog, which follows from
`products.csv` and the rule artifact when the server starts. Operations: the list of a
product page, of an answer, of a basket. Hard: the lists of a basket's products
overlap, artifacts hold several rows of a pair. Correct when: the ranking
accepts every list.

**Adaptive ranking** (`adaptive.py`, `adaptive_redis.py`). State: feature
counters, LinUCB matrices, impressions and their indexes, deduplication keys,
a decision sequence; shared in Redis, or in the memory of one process, where every
store is bounded. Operations: `rank` (guardrails, scores, records the impression
before it answers), `consume_feedback` (in Redis under a lock with a time limit,
queued writes in one transaction). Hard, in Redis: the lock can expire under its
holder, EXEC can fail with its effect, recording an impression is many writes,
keys expire at different times. Hard, in memory: stores evict while they are
used, numbers start over with the process while pages live on. Correct when: an
event is learned once, from an impression that was recorded for that session;
what a page shows under an id is what was recorded under it; a process that goes
on living does not offer a coupon to a session again; every request is answered,
with Redis or without.

**Adaptive stream** (`adaptive_streaming.py`). Spark micro-batches, replayed
until they succeed, rejected rows in a dead-letter file, rows behind the
watermark dropped. Hard: poison rows, replays after a part of a batch was
applied, by itself or by a server. Correct when: it passes no event that was not
applied, rejected or late.

**Signal Room and live offers** (`viewer.js`, `marketplace.js`, `/api/activity*`).
State: in the page its rows, the counters and the EventSource with its
Last-Event-ID; on the server the place of each open stream. A snapshot, then a
stream from its cursor. Hard: the log is trimmed between the two, the snapshot is two reads,
connections break and open again with another cursor, Redis goes away. Correct
when: nothing is shown twice or out of order, only what was trimmed is missed,
counters cover the rows, and pages catch up.

**Historical bootstrap** (`spark_bootstrap.py`). State: a run directory per run
id with its artifacts, and the manifest, kept in memory and written at the end.
A run takes its directory, reads a slice of the source, checks it, writes the
artifacts one after the other, and leaves a manifest in a finally block. Hard:
exceptions, interrupts and kills anywhere; the same run id twice; checks that
are made partly on the slice and partly on the source; a number of candidates
to ask of ALS before those already bought are taken out. Correct when: a manifest
never claims what is not there; what is served was validated; users get as many
candidates as there are.

**Producers for demos** (`live_simulator.py`, `producer.py`). They read the same
artifact as the loader, plan sessions that are to end in an offer or in a
suppression, and publish them. Hard: two readers of one artifact with rules of
their own. Correct when: sessions end as planned.

**Maintenance**: `reset_demo.py`, `topics.py`, `adaptive_replay.py`, the shell
scripts.

Everything this code is exposed to, with its line and the properties that cover
it, is in `PROJECT.json` under "hazards".

## 2. The modules

| module | models | state and actions |
|---|---|---|
| `RuleArtifact` | the rows of a rule artifact and what its readers make of them: `load_rules`, the simulator's catalog, plans and non-matches, the scripted producer's pair | operators over a set of rows and the thresholds of a reader |
| `BasketMining` | the computations of the batch job: slice, checks across rows, transactions, baskets, rules, ALS candidate pool | operators over the source tables; constants for the command line |
| `BatchRun` | the batch job as a program, several processes at once | below |
| `RuleRelease` | a load of a run's artifact between the look-ups of the engine | below |
| `CouponPolicy` | the decision of `evaluate` without an order: which cart items qualify, the strongest, the suppression reason | operators over the constants `Rule`, `MinLift`, `MinConfidence`, `MinSupport` |
| `LookupLoop` | the loop of `evaluate`, item by item, in any order | `best`, the two rejection flags; one action per way through the loop body |
| `SimulatedSession` | the loop on the sessions of the simulator, of the scripted producer and of shoppers | `plan` and what `evaluate` decides before its loop |
| `CouponPipeline` | browser to announced coupon: publication, consumer group, engine carts, claim, deliveries, commit | below |
| `Checkout` | submission, lock, duplicate check, redemption, order file, reply | below |
| `StorefrontCatalog` | the catalog of the server and its candidate lists | operators over an artifact |
| `MemoryRanking` | the ranking and its bounded stores in one process without Redis, with restarts | below |
| `Ranking` | `rank` on the shared state, called by several server processes: guardrails, order, recording, fallback | below |
| `LearnOnce` | what the shared adaptive state promises of feedback: an event is applied in one step, at most once | `applied`, `model`, `broken`; `Learn`, `Break` |
| `AdaptiveFeedback` | `consume_feedback` as the Flask servers and the Spark stream run it, call by call; shown to implement `LearnOnce` | below |
| `ActivityFeed` | the activity log, snapshot and stream endpoints, and the pages that follow them | below |
| `MC...` | the instances for TLC: tables, artifacts, traffic, baskets, events, candidates | |
| `...Proofs` | the theorems, see section 5 | |

`RuleRelease` EXTENDS `BatchRun` and `RuleArtifact`: runs, loads and the engine
in one specification, in which the engine's decision is compared with an
INSTANCE of `CouponPolicy` on what Redis holds. `SimulatedSession` EXTENDS
`LookupLoop` and `RuleArtifact`: the constant `Rule` of the loop is what the loader
makes of the artifact the sessions are planned from. `CouponPipeline` EXTENDS
`CouponPolicy`, so the consumer decides by the operators that `LookupLoop` shows the
loop to compute. `Checkout` stands alone: its interface to the pipeline is
`Issue`, which may happen at any time and again, because `CouponPipeline` delivers
at least once. `AdaptiveFeedback` reads the same topic for another purpose and
shares no state with the consumer; it instantiates `LearnOnce` under a refinement
mapping. `Ranking` and `AdaptiveFeedback` share the Redis state and are composed by
assumption: `AdaptiveFeedback` takes impressions as they come (`Record`), `Ranking`
takes whatever live cart and estimates the feedback makes (`Decide`).
`MemoryRanking`, where one process does both, has ranking and feedback in one
specification, over the lists of `StorefrontCatalog`. `ActivityFeed` takes the
entries of the consumer in any order and number (`Record`); what they mean is
`CouponPipeline`'s business.

Where code is followed by an operator named as a wrong variant (`EvaluateOverwritesClaim`,
`EnterUnchecked`, ...), that operator is a plausible mistake in the definition
after it. No specification uses it; it documents what the properties are able to
tell apart.

### BatchRun and RuleRelease

| variable | in the code |
|---|---|
| `run`, `input`, `stage`, `exit` | a process: its `--run-id`, the state of its input directory, where `run` is, how it ended |
| `status`, `listed` | `manifest["status"]` and `manifest["outputs"]` in its memory |
| `taken`, `disk`, `torn`, `manifest` | run directories, complete and cut-off outputs in them, `manifest.json` |
| `mined` | history: the input that the files of a run directory come from |
| `rules`, `catalog` | Redis: the rows under the rule keys, `CATALOG_KEY` |
| `loader`, `stale`, `loading` | `load_rules.main`: its next step, the antecedents it looked up, the run it was given |
| `engine`, `steady` | the evaluation under way; history: Redis is as it was when it began |

Actions of a run: `Launch` (the check that the directory is new), `MakeDirectory`,
`Write` (one output, with the validation and the empty slice that raise after
it), `Succeed`, `Raise` (an exception, or an interrupt, which the code does not
record), `WriteManifest` and `ManifestRaises`, `Stop` and `StopRaises`, `Kill`. Of
a load: `LookUpCatalog`, `DeleteStale`, `Publish`, `LoadRaises`. Of the engine:
`Begin`, `LookUp`.

### CouponPipeline

A coupon is named by the event that caused it, as in the code
(`coupon:<event_id>:<product>`), and an event by its partition and offset.

| variable | in the code |
|---|---|
| `basket`, `told` | the basket in localStorage; the products whose last cart event of the session was an addition (a history of the stream, used by properties only) |
| `log`, `committed`, `owner`, `couponTopic` | the clickstream topic, the offsets and assignment of the group, the coupon topic |
| `claims` | `mba:coupon-claim:*`; the value says which event claimed, the code stores a constant |
| `ledger`, `activity` | `mba:coupon:*`; what has been recorded, per kind |
| `pc`, `at`, `support` | where the message loop is, its message, its decision |
| `users`, `carts` | `CouponEngine._users`: the LRU order and the carts |
| `fenced` | members the group went on without |
| `aborted`, `abandoned` | history: coupons whose latest delivery freed its claim, or ended without doing so |

Actions: `Publish`; `Assign`, `Rebalance`, `FreshGroup` (the broker and the
`--group-id` option); `Start`, `Kill`; and for a message `Poll`, `Evaluate`,
`Receive`, then `Send`, `Issue`, `Announce` or `Suppress`, then `Commit` or
`CommitRefused`. `EvaluateRaises`, `StepRaises`, `DeliveryRaises`, `Release` and
`ReleaseRaises` are the exception paths, with the call's effect present or
absent. Each is one call to a store, so another process may act between any two.

### Checkout

| variable | in the code |
|---|---|
| `pending`, `made`, `listening`, `confirmed` | the browser: pending order id, ids made so far, the request whose reply the page waits for, orders it saw confirmed |
| `issued`, `redeemer` | the ledger and its `redeemed_order_id` |
| `store`, `torn` | `orders.jsonl`, and whether it contains a partial line |
| `lock`, `pc`, `job`, `obtained` | `_order_lock`, the threads and what `redeem` gave them |

Actions: `Issue`, `Submit`, `Enter` (lock, read, duplicate check), `Redeem`,
`Append_`, `Reply`, the failing forms `RedeemRaises`, `AppendRaises`,
`ReplyLost`, and `Crash` of the server.

### AdaptiveFeedback

| variable | in the code |
|---|---|
| `log`, `inbox` | the clickstream topic; requests whose event is on it and that wait for `_adaptive_lock` |
| `offset`, `upto`, `row`, `rejected` | the checkpoint, the range of the planned micro-batch, the row at hand, the dead-letter file |
| `lock`, `claimed` | `feedback-commit-lock` with its holder's token; the deduplication keys |
| `learned`, `observed`, `carts`, `impressions` | per product, how often the LinUCB matrix contains an event; how often the feature counters contain it; `cart:*`; products with a live impression in a session |
| `pc`, `event`, `targets`, `read`, `status` | a consumption: its step, event, attributed products, matrices as read, result |
| `credited`, `overran` | history: products whose matrices an event's transactions set; events written by a worker whose lock had expired |

Actions: `Post`, `Produce` (an event only the stream sees), `Take` and `Answer`
of a request; `StartBatch`, `DropLate`, `NextRow`, `Reject`, `Advance`, `EndBatch`
and `Restart` of the stream; `Record` and `Expire` of impressions; the consumption
`Acquire` or `TimesOut`, `Duplicate` or `Check`, `Attribute`, `Load`, `Exec`,
`Release`, with `AcquireRaises`, `Raises` (EXEC with or without effect),
`ReleaseRaises` and `Kill`. `Abandoned` is the expiry of a lock nobody works
under, `Overrun` the expiry under a working holder, which counts as a fault.

The refinement maps `claimed` to `applied`, `learned` to `model` and
`overran # {}` to `broken`. Every action implements a stutter except a
transaction, in `Exec` or in a `Raises` that had its effect: it implements `Learn`
when its worker has the lock and `Break` when it has not.

### Ranking

| variable | in the code |
|---|---|
| `sequence`, `impressions`, `latest` | `decision-sequence`, `impression:*`, `impression-latest:*` in Redis |
| `local`, `issued` | `_decision_sequence` and `CouponGuardrails._issued` of a process |
| `pc`, `session`, `cart`, `selected`, `id`, `unindexed` | the request under `_adaptive_lock`: its step, what it asks for, its decision, the products whose index entry is not written |
| `shown`, `life`, `offers` | history: answers that name an impression; how often a process was started again; every offer of a coupon with its process, the life of it, the session and the request. A `Kill` leaves the history alone |

Actions: `Ask` (a request gets the lock), `TakeNumber` (INCR), `Decide` (live
cart, guardrails, scores, order, cut), `Record` (the decision), `Index` (an entry
per product, one SET each), `Indexed`, `Answer` (the claims of its coupons are remembered);
`Raises` at any of the Redis calls, with or without effect, then `Fallback`;
`Kill`.

### MemoryRanking

| variable | in the code |
|---|---|
| `rows`, `lists` | the artifact that `load_data` read; the list of every view |
| `sequence` | `_decision_sequence` |
| `items`, `latest` | `InMemoryImpressionStore._items`, oldest first, and `_latest` |
| `actions`, `weights`, `learning` | `InMemoryLinUCBState._actions` in the order of use; the events each state learned from; whether anything was learned |
| `carts` | `LiveFeatureStore._carts`, oldest first |
| `processed` | `_processed_events`, oldest first |
| `events`, `pages` | browsers: the events they made, the answers they hold, with the start of the server they come from (`boot`) |
| `uses`, `lessons`, `applied` | history: the order in which products were used, which event was rewarded through which decision, the events applied since the start |

Actions: `Rank` (list, guardrails, choice, recording: one step under
`_adaptive_lock`), `Click` (a browser makes an event, with or without the id of a
decision), `Consume` (`consume_feedback`; the same event may come again at any
time), `Restart` (everything in memory is gone, the artifact may be another).

### ActivityFeed

| variable | in the code |
|---|---|
| `up`, `log`, `trimmed`, `counts` | Redis: whether it answers, `mba:observer:activity` from its beginning, how much of it was dropped, `mba:observer:counts` |
| `step` | where a page is: before its snapshot, between the two reads of it, connecting, open, without a stream |
| `tape`, `metrics` | the entries the page was given since it was loaded, and `counts` of the room |
| `since`, `lastEvent` | the cursor in the address of the EventSource, and the Last-Event-ID the browser keeps |
| `follow`, `batch` | `last_id` of `follow` and the rows it has read and not sent |

Actions: `Record`; `Stop` and `Resume` of Redis; `List` (XREVRANGE), `Count`
(HGETALL), `SnapshotRefused`, `SnapshotLost`; `Connect` and `Refuse`; `Read` (XREAD),
`Skip` of other sessions' rows, `Deliver`; `Broken` (XREAD raised, the stream
ends), `Lose` (the connection breaks), `Load` (the page is visited anew).

## 3. What the model abstracts

* Events, products, coupons are model values; metrics are small numbers, a
  dwell time is only long enough or not (`dwelt`), discounts are usable (above 0,
  at most 50) or not, prices are absent.
* Time: the seven-day expiry of claims and coupons is absent, so every result
  speaks of the time in which the claim is active.
* `active_views` is left out (written, never read), so are the in-memory
  claim store (tests only) and the wording of recorded payloads.
* Kafka and Redis are what the client sees of them: an ordered log per
  partition, a group that accepts the commit of its current members and refuses
  that of others, atomic single commands and transactions, and exceptions that
  leave it open whether the call took effect.
* Artifacts: a product is one value for its name, its identifier and its catalog
  entry; names with commas, which the CSV quotes, and the representative rows
  `load_data` takes from artifacts of an older schema are left out. Metrics are
  percentages rounded down in `BasketMining`, small numbers elsewhere.
* Batch job: a table is a set of rows and `sound` stands for the checks of a row
  on its own (required values, domains). FP-Growth is what it yields, the frequent
  and confident rules. ALS is any order of the products, a new one for every user.
  A JSON or CSV file appears by renaming and is never seen in part, a Parquet
  directory may be. The metrics files and row counts are not told apart from the
  outputs they accompany. A `--run-id` the command line refuses starts nothing.
* Loads: one at a time. Of two at once the second may look up the catalog before
  the first replaces it, and leave the rules of antecedents that no catalog names;
  `SnapshotIsOneArtifact` holds of loads that do not overlap, as the scripts run them.
* Candidate lists: the product page, `/api/recommend` and the basket, with limits
  of two or so for the candidates the endpoints ask for: 12, 8 (`main.py:545`) and
  12. An empty list is answered without a decision.
* Ranking in memory: a session stands for a user and a session. The ranking is a
  choice: without feedback the candidates of largest prior, after any feedback any
  candidates, since scores are left out. Live features other than carts, which
  only enter scores, are left out, and so are coupon offers, which the endpoints do
  not send. Requests without a user use one shared session and are like others.
* `Publish` always succeeds and events reach a partition in the order of the
  actions. The 503 path of the publisher and reordered requests are left out.
* The basket belongs to a session; in the browser it is in localStorage, which
  the tabs of one browser share.
* The filter, the script and the reading back of `CouponLedger.redeem` are one
  step: what the filter reads never changes once a coupon exists, and a coupon
  issued between filter and script is like one issued after the call.
* One server process: `_order_lock` is a `threading.Lock`, and the repository
  runs a single `flask run`. With several worker processes nothing would protect
  the order file.
* Requests are valid ones; validation changes no state.
* Adaptive state: a matrix is the number of times it contains each event (the
  update of `_update_unlocked` adds one event to what was read), the feature
  counters of an event move together in one transaction and are one number, the
  counter of updates is left out. An impression is a product with a live entry
  for the session, whether found by its id or by the index; recording it is one
  step here. Keys do not expire, except impressions and the lock.
* `AdaptiveFeedback` has the Redis service on both sides, as `run_live.sh`
  configures the server; a Flask process without `ADAPTIVE_REDIS_URL` is
  `MemoryRanking`. An event id is published once (the stream's own
  `dropDuplicates` is not needed for the results). Valid events are those the
  service can consume; `product_ids: null`, which it cannot, is left out.
* Ranking over Redis: a session stands for a user and session; scores are numbers, `Prior`
  weighted as it is; the matrices and features are read in one step, since
  nothing but the order of the candidates depends on them and `Estimates` allows
  any order that feedback in between could give. The entries of the index are
  written in any order, the code's being that of the scores. Keys do not expire,
  and the 50,000 offers a process remembers are not exceeded. The handlers of
  `RuntimeError`, `ConnectionError` and `TimeoutError` inside the inherited `rank`
  are not taken: those of redis-py derive from `RedisError`, and end in the
  fallback of the shared service. The endpoints send no coupons as candidates
  today; the service and its tests do, and so does the model.
* Activity feed: the id of an entry is its place in the log. Redis keeps its
  data while it is away. The EventSource is modelled after its standard, as the
  pages use it: it connects again, with its Last-Event-ID, after a connection that
  broke, and never after an answer that is not 200. An attempt that does not reach
  Flask only delays, so it is no action. The 60 rows a room keeps on the screen,
  its list of available coupons and what a storefront does with an offer are left out.
* Which events the stream finds behind its watermark depends on client clocks:
  `Late` is any set of events.

## 4. The runs

| run | instance | what it shows |
|---|---|---|
| `simulated_sessions` | 11 rows of 5 products: a tie, a stronger lift that fails confidence, one that fails support, a weak lift, a missing pair; every plan of the simulator with every decoy, the scripted pairs, shoppers with every cart; every order | the strongest qualifying item wins, the reason depends on the cart only, planned sessions end as planned |
| `pipeline_faults` | 2 consumers, 1 partition, 1 session, 4 events of hesitating traffic, 2 faults | the delivery invariant, one live coupon, shown implies redeemable, commits answered and in order, claims accounted for, every event committed in the end |
| `pipeline_steady` | 1 consumer that remembers 2 of 3 sessions, 3 products, every kind of event, 5 events, no faults | offers are exactly those the policy asks for on the published stream |
| `rule_release` | 2 processes, 2 run ids, 3 sources of 4 orders (one with a line of an unknown product), a sample of 3 orders, `TopK` 1, 2 views, 1 fault | manifests and exit codes are true, Redis holds one validated artifact or none, the engine decides by it, every user gets candidates |
| `checkout` | 2 threads, a session with two orders, 3 coupons (one unusable, one of another session), 3 submissions with any of 3 baskets, 2 faults | coupons are used once, orders stored once, bound coupons applied, redemptions final, requests end |
| `feedback` | 1 server and the stream, two rewarded events of one product, one of them late, and one that does not validate; impressions come and go, 1 fault, which may be a lock that expires early | each event applied once, no update lost, the lock kept, nothing passed over, `LearnOnce` implemented, every event in time applied in the end |
| `ranking` | 2 processes, 1 session, 3 candidates of which one is a coupon with the best prior, 2 are shown, 3 requests, 1 fault | shown decisions are recorded and attributable, offers repeated only by another process or a later life, every request answered |
| `storefront_memory` | 5 products on 2 aisles, 2 artifacts (repeated pairs, a product without rules), 2 sessions, a product page and a basket, 2 events; 2 impressions, 3 product states, 1 live cart and 1 event id are kept; 3 decisions, 3 events applied per start, 1 restart | the ranking accepts every list, the index is exact, rewards meet decisions that were displayed, no event is applied twice within the horizon, learning about recently used products survives |
| `activity_feed` | 1 room, 1 storefront, 3 entries of its session or another, a log that keeps at least 1, snapshots and batches of 2, 1 fault | rows in order and once, only trimmed ones missed, a storefront sees its session, counters not behind the rows, pages catch up |
| `two_coupons` | 1 consumer, 1 fault | violation, see section 6 |
| `basket_item` | 1 consumer, no fault | violation, see section 6 |
| `feed_resumes` | the same pages, 1 entry, 1 fault | violation, see section 6 |

Why the bounds are enough to be interesting. With four events a session can put
an item into its basket and view twice after it, so there are two offers for one
claim; with two consumers one can be evicted while the other replays its message
and a third decision is made; two faults allow a failed delivery followed by a
failed release or a kill during the replay, and a new group after a kill. Three
submissions allow a failed one, its retry and another order with the same
coupons; two threads allow the same order twice at the same time. Each property
is violated by its wrong variant under these very bounds. In the feedback run
two workers and two events of one product are what a lost update or a double
application needs, and the fault is an EXEC that raised after its effect, a
kill, or a lock that expires under its holder.
In the release run two processes may have the same run id or different ones, a
second artifact replaces a first one while the engine is between two cart items,
and the fault falls on any output, on the manifest or on a load. The sample cuts
one order off, so that slice and source differ; the third source has a dangling
line that the slice contains. One shopper has bought all but one product, which
is where a pool that is too small loses candidates.
In the memory run every store is at its limit after two or three steps: the third
decision evicts the first impression, a list of two candidates evicts product
states of the other page, the second session's live cart evicts the first one's,
and the second event id evicts the first. A restart leaves pages whose decision
numbers are given out again.
In the ranking run two processes and three requests let a decision of one process fall
between number and record of another, a fallback advance the counter of a process
before its next decision, and a coupon be offered before, in and after a fallback.
In the feed run three entries with a retention of one let the log drop an entry
before, between or after snapshot and stream, and the cursor of a page point to a dropped
entry; the fault is a lost connection, an outage or a new visit at any of these moments.
Consumers, pages, products and threads beyond these are covered by the proofs, as are
events without a reward in time, which differ by skipping the attribution.

`CHECK_DEADLOCK FALSE` is set where a run ends because its bound of events is
used up, or of requests; the checkout instance never stops, since a coupon may always be issued
again.

### Fairness

`CouponPipeline`: the broker assigns a free partition when every member polls
(`Assign`), a consumer that ended is started again (`Start`; `run_live.sh`
notices that the consumer stopped, its operator acts), and a consumer that can
go on does (`Works`: its own steps that do not fail). No fairness on
publication, on faults or on a new group. `EventuallyCommitted` needs the first
two because every exception ends the process; without `Start` one exception
would stop the partition for good, which is what the code does.

`Checkout`: each thread goes on when it can. Weak fairness is enough although
threads compete for the lock, because submissions are finitely many in the
model; a `threading.Lock` promises no more either.

`AdaptiveFeedback`: a server goes on with its requests, the stream goes on and is
started again when its query ended (nothing in the repository does that but its
operator, and without it one failed consumption stops the stream for good), and
Redis expires abandoned locks. No fairness on publication, impressions or faults.
Weak fairness is enough: a stream that times out on the lock restarts and tries
again, and the holder it waits for goes on or its lock expires.

`Ranking`: a request that is being served goes on; nobody has to ask, and no
fault has to end. A Redis call returns or raises, which is what a client with
the default socket settings does once the connection is lost.

`ActivityFeed`: Redis is started again after an outage, and a page and the server
behind it go on by themselves. No fairness on recording, on outages or visits.
`PagesFollow` speaks of a page with a snapshot only while Redis stays up, since an
outage ends it (section 6).

### Properties worth a second look

* `OneLiveCoupon` is what the claim achieves; `AtMostOneCoupon`, which the
  architecture document states, is stronger and false (section 6).
* `ClaimIsAccountedFor`: a claim without a coupon and without a delivery in
  progress exists only where a process ended outside the handler that frees it.
  Such a claim blocks the product for the session for seven days. The property
  says that this is the only way to get one.
* `OffersFollowTheStream` and `FavouredViewsGetOffers` compare the engine, with
  its LRU list, to the published stream. `Remembered` says when the
  engine has not forgotten the session: between any two of its events fewer than
  `MaxUsers` sessions were active in the partition or belong to another partition.
  Those of other partitions all count, since one consumer may own several
  and reads them in any order, so the place of their events in the log says nothing.
* `BoundCouponIsApplied` is the recoverability that `docs/architecture.md` claims
  for repeated order ids: a coupon an attempt redeemed is given by the attempt
  that is stored, if it still asks for it. A coupon it no longer asks for is
  used up without a discount, which the model shows and no document excludes.
* `AppliedOnce` and `ModelKeepsFeedback` except events written by a worker whose
  lock had expired (`overran`), and their products. `LockIsKept` says that only
  time takes a lock away: without the exception the first two are false (a worker
  held up for more than 30 seconds between look and transaction applies an event
  that another one has applied), although `docs/architecture.md:75-76` and 93-94 state
  them without it.
* `ShownIsRecorded` reads in one direction. The other one is false: a failure
  between the writes of a decision leaves it in `impressions`, with some of its
  index entries, although the shopper saw the fallback. Feedback on a fallback
  product can then be attributed to that decision. `docs/architecture.md:74` asks
  for the written impression to come first, not for the answer to follow.
* `RepeatedOfferIsOfAnotherLife` is what remains of "one offer per shopper/product"
  (section 6): `_issued` is in the memory of a process, so a second offer of a
  coupon to a session needs a second process or a kill after the first offer. All
  offers are kept over kills, so a life that repeats itself after a restart, or
  because a fallback forgot its claims, breaks it; the run has behaviours with an
  offer, a kill, the repeated offer and then a third request of the new life.
* `ShownIsAttributable` says that some decision of the session with the product
  is found through the index, not that it is the one shown: the index keeps the
  latest.

* `RunRecordsAreTrue` says nothing of a run that was killed: it leaves a directory
  without a manifest, or with outputs no manifest lists, and its run id is refused
  from then on. A load given such a directory publishes its artifact if the CSV is
  there; `RulesAreMined` says that it was validated all the same, because the
  validation comes before every output.
* `RulesAreMined` speaks of `--validation-policy fail`. With `warn` a line of an
  unknown product yields a rule without a name, as intended by that option.
* Under `warn` a repeated row of `products.csv` is accepted too, and the joins that
  name the products (`spark_bootstrap.py:356-376`) then write a rule row several
  times, and a recommendation row likewise. The artifacts of `BatchRun` are sets of
  rows, so these copies are not in the model; no property counts rows of an artifact,
  and a load keeps one row of a pair.
* `DecisionFollowsSnapshot` is about an evaluation during which Redis did not
  change (`steady`). In the others the engine may see rules of two snapshots, or
  none; `RulesAreMined` still holds of the rule it decides by.
* `EligibleGetsOffer` needs an artifact with one row per pair. The batch job
  writes such artifacts. In the one that is shipped (`app/rules.csv`, of an older
  schema) 25 of the 123 pairs the simulator samples do not qualify in the engine,
  because the loader keeps the strongest row of a pair and that row fails
  another threshold; such a session is suppressed although it was planned to show
  an offer. No document promises more.
* `SuppressedGetsNone` leaves `no_match` two ways to an offer: a decoy that
  supports the viewed product, and a cart product that goes with every other one.
* `RewardMeetsDecision` has two halves because impression numbers start over with
  a restart. `docs/architecture.md:61` attributes a reward to the exact displayed
  decision, which holds while the server that displayed it runs. Feedback of a page that was rendered before may be credited to
  a later decision with the same number, but only within the session and for a
  product that decision showed.
* `LearningSurvives` is weaker than one would like: scoring creates a state for every candidate,
  so a decision with many candidates drops what was learned about others, and even
  about a candidate it is about to score. What is used last is
  kept, up to the number of products one decision uses.

* `CountersCoverTape` is an inequality because equality is false: the counters are
  read after the rows, so an entry recorded in between is counted in the snapshot
  and again when the stream delivers it. It says the error has this direction only;
  entries that were trimmed before the page saw them do not count against it.

## 5. The proofs

Assumptions: those the modules state (`PolicyAssumption`, `PipelineAssumption`,
`CheckoutAssumption`, ...): the shape of the constants, and that the null values
are none of the others. Nothing is assumed of the number of sessions, products,
partitions, consumers, threads or faults, except that there are finitely many
sessions (`PipelineAssumption`) where they are counted. `SourceAssumption` says of a
source that its tables are finite, that product ids are integers, as `TABLE_SCHEMAS`
(`spark_bootstrap.py:44-90`) reads them, and that no id is the value of a missing name;
`RowAssumption`, that the answer to a look-up without a rule is no rule;
`ArtifactAssumption`, that an artifact has finitely many rows, each with its place in the
file and a lift that compares; `CatalogAssumption` and `ViewAssumption` give the shape
of the catalog, the limits and the pages. That `products.csv` names a product once is not assumed.

* **`SimulatedSessionProofs`.** `LoopInvariant` is inductive: `best` is a strongest
  qualifying item of the visited ones and the flags say which rejections
  occurred among them. When nothing is left to visit this is
  `StrongestSupportWins` and `ReasonIsOrderFree`. `SessionInvariant` adds what
  the session was planned from. With one row per pair, a pair that was sampled is
  the row the loader keeps, hence qualifies (`EligibleGetsOffer`); in a suppressed
  session the loop is not reached, or no cart item is paired with the product
  (`SuppressedGetsNone`).
* **`RuleReleaseProofs`.** `RunRecordsAreTrue` is not inductive: a manifest is
  written from what a process remembers. `InOrder` says that what is listed in
  memory is on disk and whole, for every stage what is listed and what is half
  written; `OwnsItsRun` that no other process is in the same directory after
  `mkdir`, which makes it stable; `Untaken` that a directory nobody took is empty.
  Each action moves one process and touches its own directory (`Local`), so the
  others keep their part. `ReleaseInvariant` adds `LoadInvariant` (a load that is
  about to publish has left no rule of the catalog it read) and `MinedAgrees`,
  from which an artifact never changes once its CSV exists (`CsvIsStable`): what
  Redis holds stays one artifact.
  `ServedRulesAreMined` follows the rows: `Checked` says that a run past its
  validation read a source that passed, hence so does every CSV, and `ServedInv` that every row
  in Redis, and the one the engine holds, is a row of such a CSV, also after the next load
  replaced it. `RowNames` gives them names: a mined product was bought, what was bought is a
  product of the source unless validation says otherwise.
  `DecisionIsOfSnapshot` needs that a snapshot has one row for a pair of names
  (`OneRowPerPair`), so that looking up a pair is a function; while Redis stays as it was
  (`steady`), `DecisionInv` keeps the row met so far a strongest qualifying one of
  the cart items that were looked up.
  `TopKAreFound` is about tables, not steps: the pool has as many products as the user
  with the most purchases bought and `TopK` more, so taking out any user's purchases leaves
  `TopK` of them, and the best of the rest are the best over all (`BestOfTheRest`).
* **`CouponPipelineProofs`.** `TypeCorrect` is proved with `ControlInv` (what a
  consumer carries at each step), because the types of the stores depend on it.
  `OneOfferOneCoupon` is not inductive: a coupon enters the ledger long
  after its claim was set. The strengthening is `ClaimInv` (a delivery in progress
  holds the claim of its offer and is alone with it) and `LiveInv` (so does every
  coupon of the ledger whose claim was not freed). Two live coupons of one offer
  would be two values of one claim key.
  On top of these `OrderInv` (how far a delivery has come) gives
  `ShownIsRedeemable`. `OffsetInv` (a member of the current generation works on
  the first uncommitted event of a partition it owns, so no two do on the same)
  gives `NoMessageSkipped`, the action property, and with `AnswerInv` (what has
  been recorded of the message at hand) `CommittedIsAnswered`.
  `ClaimsAreAccountedFor` needs `AccountInv`: a claim names a coupon of its own offer, and
  a delivery that is about to be committed is in the ledger, so its claim is accounted for
  when it ends. `DeliveryIsCorrect` collects the whole invariant.

  `CalmOffersFollowTheStream` and `CalmViewsGetOffers` are about a group that has lost
  nothing: their hypothesis is `faults = 0`, which the instance of `pipeline_steady` makes
  true throughout (`MaxFaults = 0`), and with faults they are false, since a restarted
  engine has no carts. The first offer of a session depends on all its earlier events, on
  every other session of the engine, and on the order in which one consumer reads several
  partitions. The argument has four parts. `StreamInv`: what an event says of the
  cart (`told`) follows from the latest earlier event of the session. `CalmInv`:
  partitions are assigned once, before anything is read, so each is read by one engine
  from its start; `Seen` is how far. `EngineInv`: the list holds no session twice; when event
  `i` is the latest of a session, the sessions behind it on the list are among
  the `Rivals` since `i`, its cart is `told` of `i`, and if it is not on the list there
  were `MaxUsers` rivals, so that with `Remembered` it is (`CartIsTold`). `OfferInv`: a
  delivery in progress fits the stream, and for every favoured view that was read a coupon
  of its offer is announced or on its way, because a claim that was found names one.
* **`CheckoutProofs`.** `CheckoutInvariant` is inductive: `LockInv` makes the
  duplicate check and the append one step, `ObtainedInv` carries what was
  redeemed to the file across them, `AppliedInv` relates the file to the ledger.
  `CouponsAreUsedOnce` follows because one redeemer names one order and an order
  has one record. `OrdersAreStoredOnce` and `BoundCouponsAreApplied` are parts of it:
  the second holds at the append because what an earlier attempt redeemed for the order is
  among what `redeem` gives this one (`ObtainedInv`), and later because redemptions
  stay. `RedemptionsAreFinal` is the action property.
* **`AdaptiveFeedbackProofs`.** `AppliedOnce` is not inductive: that a transaction
  may set the key depends on a look some steps earlier. `FreshInv` (the holder of
  the lock still finds no key, or the event was written without the lock) and
  `LoadedInv` (what it read is what is there, if no transaction without the lock
  touched the product) carry the look and the read to the transaction,
  `CreditInv` ties the history to the keys. `AnswerInv` and `RowInv` say that a
  status other than `state_unavailable` means the row at hand is applied, which
  gives `StreamLeavesNothing`. `FeedbackKeepsPromise` maps every step to a step of
  `LearnOnce` or a stutter: a transaction under the lock writes what it read plus
  one, hence `Learn`. `LocksAreKept` is an action property.
* **`RankingProofs`.** `RankingInvariant` is inductive with the types. `ShownIsRecorded`
  would break if a decision replaced another of the same id, so `NumberInv` and
  `OwnNumberInv` say that a number which is taken and not yet recorded is no id of a
  record and of no other process; hence records only grow (`Monotone`).
  `ProgressInv` carries the record and the entries written so far to the answer,
  `IndexInv` says that the index names recorded decisions: together they give
  `ShownIsAttributable`. `OfferInv` says that a process has claims for the offers of its
  present life, that no offer is of a life still to come, and that what was selected
  has no claim yet: hence a new offer differs from every earlier one in its process or
  its life.

* **`ActivityFeedProofs`.** `FeedInvariant` is inductive with the types. Its part
  `StreamInv` says where a page is: its cursor is the last entry of its tape,
  whether the cursor comes from the snapshot or from Last-Event-ID, and what lies between the cursor and
  the server's place is in the batch, in order, or was trimmed or of another
  session. Delivering the head of the batch then extends the tape upwards
  (`TapesAscend`) without leaving out what the log still has
  (`NothingElseIsMissed`). The argument is made for one page at a time, since
  pages share only the log, which grows at one end and shrinks at the other.
  `CountersCover` needs `CountInv`, which bounds the entries before a page's snapshot
  together with those it was given by its counters, and says that those of
  Redis count the log; the bound moves with the tape, not with the server's place.

* **`MemoryRankingProofs`.** One `MemoryInvariant` for three of the four properties.
  `LatestIsNewest` needs `StoreInv`: numbers grow along the store and none is
  ahead of `_decision_sequence`, so a new impression is the newest of every key
  it shows, and the one that is dropped is the oldest, which the index leads to
  only when no other shows the product. `PageInv` keeps, for every impression, the
  page that was answered with it, and makes the pair of a server and a number name
  one answer: hence `RewardMeetsDecision`, also after `Restart` starts the numbers
  over. `MarkInv` says that the remembered ids are the last ones applied, which
  gives `AppliedOnceInHorizon`.
  `ListsAreAccepted` is about the lists, not the steps: `ListInv` says that they are those
  of the artifact at hand. An order is a rank (`Ranked`): in a finite set whose elements
  come strictly one after the other the number of predecessors is an injection into
  `0..n-1`, hence onto (`RankedOnce`), so that sorting and picking lose and repeat
  nothing, without induction over a list. The lemmas follow the code from there:
  the strongest rules of a product, the rest of its aisle, both, those of a basket.

Only model-checked: the liveness properties (`EventuallyCommitted`,
`RequestsEnd`, `EventuallyApplied`, `AnswersAlways`, `PagesFollow`), which are out of the
prover's reach, and `LearningSurvives`, which rests on a fold over the products of a
decision and needs induction over data. The violations are TLC's as well.

## 6. Where the code and its documents disagree

* `two_coupons`: `docs/architecture.md:122` promises at most one coupon per
  shopper, session and product while the claim is active, across restarts. The
  handler at `consumer.py:63-68` frees the claim when the activity record raises
  after the ledger write; the coupon stays redeemable. The comment there relies on
  the replay giving the same coupon id, but the replay may decide
  otherwise: the restarted engine has no carts, so the repeated view is
  suppressed, and a later view of the same product, after a cart event, gets a
  second coupon. `OneLiveCoupon` is what remains true.
* `basket_item`: `docs/architecture.md:120` says a coupon is issued only when the
  viewed product is not in the cart. `cart_item_removed` is published for every
  unit taken away (`marketplace.js:145`) and makes the engine forget the product
  (`coupon_engine.py:108`), so with a quantity reduced from two to one a coupon is
  issued for a product that is in the basket. It needs no fault.
* `feed_resumes`: `README.md:43-45` says that live offers and the evidence of the
  Signal Room resume when the stack is available. The stream endpoint answers 503
  while Redis is away (`main.py:454-458`), and the EventSource of an open page, which
  asks again when its stream ended, gives up on that answer. `viewer.js:132` shows
  "Reconnecting" from then on and nothing connects. A storefront whose snapshot is refused does not
  ask again (`marketplace.js:275`). `PagesFollow` is what remains true.
* One offer per shopper and product. `docs/architecture.md:80-83` says: "Coupon
  controls do not form part of the reward model. Minimum lift, confidence, and
  support; supporting-cart membership; target-not-in-cart; and one offer per
  shopper/product are enforced before ranking." The last of these is not enforced:
  `CouponGuardrails._issued` (`adaptive.py:408`) is the memory of one process, also in the
  service that shares everything else in Redis, and its claims name the session
  too (`adaptive.py:428` and 436). The instance of the run `ranking` contains the
  violations. Two processes each rank the candidates for the same session and both
  show the coupon, one of them perhaps in its fallback: neither knows of the other's
  claim. One process shows it, is killed, and shows it to the same session
  after its restart; the shortest such behaviour has two requests and one kill. With
  `FALSE` as the conclusion of `RepeatedOfferIsOfAnotherLife`, which is the documents'
  statement for a session, TLC reports the first in this instance, and the second in
  the instance with one process. A further session of the shopper is
  offered the coupon again even by the same process. The endpoints send no coupon
  candidates today, so no page shows it yet; the tests that do
  (`tests/test_shared_adaptive.py:264-283`) use one service object and one session.

## 7. What is not modelled

* The browser's storage, the order of its requests and the rendering of answers:
  two tabs overwrite each other's basket, and answers arrive late. The repository
  states nothing about them that a property could check; the model takes whatever
  events and submissions result.
* The publisher's pause after a Kafka error, and invalid or unconsumable events on
  the topic: they stop a consumer or the stream for good, which the hazards list.
* The numbers of LinUCB and the features they are computed from, and FP-Growth and
  ALS beyond what they yield: computations over data, not protocols.
* Expiry of claims, coupons and learned state: the results speak of the time in
  which they live.
* `reset_demo.py`, which is run while the pipeline stands still; `adaptive_replay.py`,
  a fixture for the ranking; `topics.py`; catalog pages (read-only); scripts,
  templates, styles, the report generator and the notebook, which have no state.

## 8. Plan

Done, in this order: `CouponPolicy`, `LookupLoop`, `CouponPipeline`, `Checkout`,
`LearnOnce`, `AdaptiveFeedback`, `Ranking`, `ActivityFeed` and their proofs: the
coupon from click to redemption, the part the program is about, the ranking with
what it learns from the same clicks, and the pages that show both. Then the
origin of the rules and the service without Redis: `RuleArtifact`,
`BasketMining`, `BatchRun`, `RuleRelease`, `SimulatedSession`, `StorefrontCatalog`,
`MemoryRanking`, and the proofs `RuleReleaseProofs`, `SimulatedSessionProofs` and
`MemoryRankingProofs`.

What would be next, by importance:

1. The event that validates and cannot be consumed, as a violation of "every
   event of the topic is dealt with", in `AdaptiveFeedback`.
2. The offers of a group that has lost something: which of them still follow the stream
   (`CalmOffersFollowTheStream` says nothing after the first fault).
3. Two loads at once in `RuleRelease`.
4. `Ranking` with keys that expire, and feedback on a decision that was recorded
   and not shown.

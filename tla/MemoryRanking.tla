--------------------------- MODULE MemoryRanking ----------------------------
(***************************************************************************)
(* The adaptive ranking service as one Flask process keeps it without      *)
(* ADAPTIVE_REDIS_URL (pipeline/adaptive.py): bounded stores in memory,    *)
(* every call under _adaptive_lock and so one step.  Pages outlive the     *)
(* process: their feedback may arrive late, twice, or after a restart.     *)
(* Scores are left out; once something was learned any order is possible.  *)
(***************************************************************************)
EXTENDS StorefrontCatalog

CONSTANTS
  Artifacts,        \* rule artifacts a server may be started with
  Sessions,         \* pairs of a shopper and a session
  Views,            \* what pages ask for: a list (see ListOf) and a basket
  EventIds, Clicks, \* feedback events: ids, and pairs of a kind and products
  MaxImpressions, MaxActions, MaxSessions, Horizon,   \* sizes of the stores
  MaxUsed,          \* the most products that a decision or an event uses
  None,             \* no value
  MaxDecisions, MaxApplied, MaxRestarts               \* bounds of a behaviour

ASSUME MemoryAssumption ==
  /\ MaxImpressions \in Nat \ {0} /\ MaxActions \in Nat \ {0}
  /\ MaxSessions \in Nat \ {0} /\ Horizon \in Nat \ {0}
  /\ MaxUsed \in 0..MaxActions
  /\ Limits.product =< MaxUsed /\ Limits.recommend =< MaxUsed /\ Limits.basket =< MaxUsed
  /\ \A click \in Clicks : Len(click.products) =< MaxUsed

(* Rows of a file have places, and metrics that compare.                   *)
ASSUME ArtifactAssumption ==
  \A artifact \in Artifacts :
    /\ IsFiniteSet(artifact)
    /\ \A w \in artifact : w.lift \in Nat /\ w.line \in Nat
    /\ \A v, w \in artifact : v.line = w.line => v = w

ASSUME ViewAssumption ==
  \A view \in Views : /\ view.page \in {"product", "recommend", "basket"}
                      /\ view.basket \in Seq(ToSet(view.basket))

VARIABLES
  rows, lists,   \* the artifact that load_data read, the lists that follow from it
  sequence,      \* _decision_sequence
  items, latest, \* InMemoryImpressionStore: impressions oldest first; the index
  actions,       \* InMemoryLinUCBState: products, least recently used first
  weights,       \* the events that the state of a product has learned from
  learning,      \* _update_count > 0
  carts,         \* LiveFeatureStore._carts: entries oldest first
  processed,     \* _processed_events, oldest first
  events, pages, \* browsers: the events they made, the answers they received
  uses,          \* history: products in the order of their last use since the start
  boot,          \* history: how often the server was started before
  lessons,       \* history: which event was rewarded through which decision
  applied        \* history: event ids applied since the start

service == <<rows, lists, sequence, items, latest, actions, weights, learning, carts, processed>>
vars == <<service, events, pages, uses, boot, lessons, applied>>

Products == {entry.product : entry \in ToSet(Inventory)}

Rewarded == {"clicked", "added", "removed", "bought"}

NoIndex == [key \in Sessions \X Products |-> None]

Init ==
  /\ rows \in Artifacts /\ lists = [view \in Views |-> ListOf(rows, view)]
  /\ sequence = 0 /\ items = <<>> /\ latest = NoIndex
  /\ actions = <<>> /\ weights = [p \in Products |-> {}] /\ learning = FALSE
  /\ carts = <<>> /\ processed = <<>>
  /\ events = [e \in EventIds |-> None] /\ pages = {}
  /\ uses = <<>> /\ boot = 0 /\ lessons = {} /\ applied = <<>>

(* The newest n of a store. *)
Newest(s, n) == IF Len(s) > n THEN SubSeq(s, Len(s) - n + 1, Len(s)) ELSE s

-----------------------------------------------------------------------------
(* The stores. *)

Shows(im, key) == im.session = key[1] /\ key[2] \in im.products

Indexed(impression) ==
  [key \in Sessions \X Products |->
     IF Shows(impression, key) THEN impression.id ELSE latest[key]]

(* The impressions that are dropped to make room for one more. *)
Expired == IF Len(items) = MaxImpressions THEN {items[1]} ELSE {}

(* A wrong variant drops the index of what an expired impression showed.   *)
RecordForgets(impression) ==
  /\ items' = Newest(Append(items, impression), MaxImpressions)
  /\ latest' = [key \in Sessions \X Products |->
       IF \E im \in Expired : Shows(im, key) THEN None ELSE Indexed(impression)[key]]

(* InMemoryImpressionStore.record: of an expired impression, the entries   *)
(* that still lead to it are dropped.                                      *)
Record(impression) ==
  /\ items' = Newest(Append(items, impression), MaxImpressions)
  /\ latest' = [key \in Sessions \X Products |->
       IF \E im \in Expired : Shows(im, key) /\ Indexed(impression)[key] = im.id
         THEN None ELSE Indexed(impression)[key]]

(* A wrong variant drops the state that was created first.                 *)
TouchedInPlace(store, p, lesson) ==
  LET kept == IF Contains(store.order, p) THEN store.order
              ELSE Newest(Append(store.order, p), MaxActions)
  IN  [order   |-> kept,
       weights |-> [q \in Products |-> IF ~Contains(kept, q) THEN {}
                                       ELSE store.weights[q] \cup (IF q = p THEN lesson ELSE {})]]

(* _state: a product becomes the most recently used one, and the least     *)
(* recently used beyond MaxActions is dropped with all it learned, even    *)
(* when the same decision or event is about to use it.                     *)
Touched(store, p, lesson) ==
  LET kept == Newest(Append(Remove(store.order, p), p), MaxActions)
  IN  [order   |-> kept,
       weights |-> [q \in Products |-> IF ~Contains(kept, q) THEN {}
                                       ELSE store.weights[q] \cup (IF q = p THEN lesson ELSE {})]]

(* score or _update_one for each of some products in turn. *)
Use(products, lesson) ==
  LET store == FoldLeft(LAMBDA st, p : Touched(st, p, lesson),
                        [order |-> actions, weights |-> weights], products)
  IN  /\ actions' = store.order /\ weights' = store.weights
      /\ uses' = FoldLeft(LAMBDA u, p : Append(Remove(u, p), p), uses, products)

LiveCart(session) ==
  UNION {carts[i].products : i \in {j \in DOMAIN carts : carts[j].session = session}}

(* LiveFeatureStore.observe, as far as carts go: only an addition creates  *)
(* one, and the oldest ones are dropped, however active their sessions.    *)
CartsAfter(event) ==
  LET session == event.session
      known   == \E i \in DOMAIN carts : carts[i].session = session
      opened  == IF known \/ event.kind # "added" THEN carts
                 ELSE Newest(Append(carts, [session |-> session, products |-> {}]), MaxSessions)
      Changed(products) == CASE event.kind = "added"   -> products \cup ToSet(event.products)
                             [] event.kind = "removed" -> products \ ToSet(event.products)
                             [] OTHER -> products
  IN  [i \in DOMAIN opened |->
         IF opened[i].session # session THEN opened[i]
         ELSE [opened[i] EXCEPT !.products = Changed(@)]]

-----------------------------------------------------------------------------
(* rank_candidates for a page. *)

(* The candidates that the guardrails leave, in the order of the list. *)
Safe(session, view) ==
  SelectSeq(lists[view],
            LAMBDA c : c.product \notin ToSet(view.basket) \cup LiveCart(session))

(* The cold start shows the largest priors; later every choice is possible. *)
Selections(session, view) ==
  LET list  == lists[view]
      safe  == {i \in DOMAIN list : Contains(Safe(session, view), list[i])}
      count == IF Cardinality(safe) < ShownOf(view) THEN Cardinality(safe) ELSE ShownOf(view)
      Above(i, j) == \/ Prior(list, i) > Prior(list, j)
                     \/ Prior(list, i) = Prior(list, j) /\ list[i].product < list[j].product
  IN  {{list[i].product : i \in chosen} :
         chosen \in {c \in kSubset(count, safe) :
                       learning \/ \A i \in c, j \in safe \ c : Above(i, j)}}

(* A list that from_records refuses would be answered with an error, an    *)
(* empty one is answered without a decision.                               *)
Rank(session, view) ==
  /\ Cardinality(pages) < MaxDecisions
  /\ lists[view] # <<>>
  /\ sequence' = sequence + 1
  /\ \E shown \in Selections(session, view) :
       /\ Record([id |-> sequence', session |-> session, products |-> shown])
       /\ pages' = pages \cup {[boot |-> boot, id |-> sequence', session |-> session,
                                products |-> shown]}
  /\ IF learning
       THEN Use([i \in DOMAIN Safe(session, view) |-> Safe(session, view)[i].product], {})
       ELSE UNCHANGED <<actions, weights, uses>>
  /\ UNCHANGED <<rows, lists, learning, carts, processed, events, boot, lessons, applied>>

-----------------------------------------------------------------------------
(* Feedback. *)

(* A browser makes an event: about a product that a page of its session    *)
(* shows, with the id of the decision, or about any products without.      *)
Click(e, session, click, page) ==
  /\ events[e] = None
  /\ page # None => /\ click.kind \in {"clicked", "added"}
                    /\ page.session = session /\ ToSet(click.products) \subseteq page.products
  /\ page = None => click.kind # "clicked"
  /\ events' = [events EXCEPT ![e] = [session |-> session, kind |-> click.kind,
                                      products |-> click.products, page |-> page]]
  /\ UNCHANGED <<service, pages, uses, boot, lessons, applied>>

(* A wrong variant trusts the id of an impression.                         *)
FindById(event, product) ==
  LET number == IF event.page # None THEN event.page.id
                ELSE latest[<<event.session, product>>]
  IN  {im \in ToSet(items) : im.id = number}

(* _find_impression, and the search for the product in it. *)
Find(event, product) ==
  LET number == IF event.page # None THEN event.page.id
                ELSE latest[<<event.session, product>>]
  IN  {im \in ToSet(items) : /\ im.id = number
                             /\ im.session = event.session /\ product \in im.products}

Updates(event) ==
  IF event.kind \in Rewarded
    THEN SelectSeq(event.products, LAMBDA p : Find(event, p) # {})
    ELSE <<>>

(* A wrong variant drops the newest event id.                              *)
MarkedFull(e) == Upto(Append(processed, e), Horizon)

Marked(e) == Newest(Append(processed, e), Horizon)

(* consume_feedback of an event whose id is not remembered; one whose id   *)
(* is changes nothing.                                                     *)
Consume(e) ==
  /\ events[e] # None /\ ~Contains(processed, e)
  /\ Len(applied) < MaxApplied
  /\ Use(Updates(events[e]), {e})
  /\ learning' = (learning \/ Updates(events[e]) # <<>>)
  /\ carts' = CartsAfter(events[e])
  /\ processed' = Marked(e)
  /\ lessons' = lessons \cup
       UNION {{[event |-> e, product |-> p, boot |-> boot, id |-> im.id, shown |-> im.products] :
                 im \in Find(events[e], p)} : p \in ToSet(Updates(events[e]))}
  /\ applied' = Append(applied, e)
  /\ UNCHANGED <<rows, lists, sequence, items, latest, events, pages, boot>>

-----------------------------------------------------------------------------
(* The server is started again, perhaps with another artifact. *)
Restart ==
  /\ boot < MaxRestarts
  /\ boot' = boot + 1
  /\ rows' \in Artifacts /\ lists' = [view \in Views |-> ListOf(rows', view)]
  /\ sequence' = 0 /\ items' = <<>> /\ latest' = NoIndex
  /\ actions' = <<>> /\ weights' = [p \in Products |-> {}] /\ learning' = FALSE
  /\ carts' = <<>> /\ processed' = <<>> /\ applied' = <<>> /\ uses' = <<>>
  /\ UNCHANGED <<events, pages, lessons>>

Next ==
  \/ \E session \in Sessions, view \in Views : Rank(session, view)
  \/ \E e \in EventIds, session \in Sessions, click \in Clicks, page \in pages \cup {None} :
       Click(e, session, click, page)
  \/ \E e \in EventIds : Consume(e)
  \/ Restart

Spec == Init /\ [][Next]_vars

-----------------------------------------------------------------------------
(* from_records accepts every list that a page can ask for, whatever the   *)
(* artifact: no product twice (the page would be answered with 500), none  *)
(* that is not sold, not the viewed one and nothing of the basket.         *)
ListsAreAccepted ==
  \A view \in Views :
    LET products == {c.product : c \in ToSet(lists[view])}
    IN  /\ Cardinality(products) = Len(lists[view])
        /\ products \subseteq Sold(rows)
        /\ view.page = "basket" => products \cap ToSet(view.basket) = {}
        /\ view.page # "basket" => view.product \notin products

(* "latest" of a session and product is the newest impression that is kept *)
(* and shows it, through any number of evictions; feedback without an id   *)
(* is attributed to what the shopper saw last.                             *)
LatestIsNewest ==
  \A key \in Sessions \X Products :
    LET ids == {im.id : im \in {x \in ToSet(items) : Shows(x, key)}}
    IN  IF ids = {} THEN latest[key] = None
        ELSE latest[key] \in ids /\ \A id \in ids : id =< latest[key]

(* "The reward is attributed to the exact displayed decision"              *)
(* (docs/architecture.md:61), as long as the server that displayed it      *)
(* runs, and always to a decision of this session that showed the product: *)
(* numbers start over with a restart, so a page rendered before may be     *)
(* rewarded through another decision, never through another shopper's.     *)
RewardMeetsDecision ==
  \A lesson \in lessons :
    LET event == events[lesson.event]
    IN  /\ \E page \in pages : /\ page.boot = lesson.boot /\ page.id = lesson.id
                              /\ page.session = event.session
                              /\ lesson.product \in page.products
        /\ event.page # None /\ event.page.boot = lesson.boot =>
             event.page.id = lesson.id /\ event.page.products = lesson.shown

(* An event id is applied again only after Horizon other events: "It       *)
(* rejects ... duplicate IDs within the local 50,000-event ... retention   *)
(* horizon" (docs/architecture.md:75).                                     *)
AppliedOnceInHorizon ==
  \A i, j \in DOMAIN applied : i < j /\ applied[i] = applied[j] => j - i > Horizon

(* A decision or a reward makes room in the store while it uses it, and    *)
(* may drop what was learned about a product, even one it uses itself; but *)
(* never about one of the products used last, but for as many as it uses.  *)
LearningSurvives ==
  [][boot' = boot =>
       \A p \in ToSet(Newest(uses, MaxActions - MaxUsed)) : weights[p] \subseteq weights'[p]]_vars
=============================================================================

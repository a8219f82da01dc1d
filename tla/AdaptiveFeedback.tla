-------------------------- MODULE AdaptiveFeedback --------------------------
(***************************************************************************)
(* How the adaptive ranking learns: every event is handed to               *)
(* consume_feedback of the shared service (pipeline/adaptive_redis.py)     *)
(* twice, inline by the Flask handler that published it (app/main.py) and  *)
(* by the Spark stream that reads the topic                                *)
(* (pipeline/adaptive_streaming.py).                                       *)
(*                                                                         *)
(* A consumption holds a Redis lock that expires after 30 seconds, looks   *)
(* for the event's deduplication key, reads impressions and matrices,      *)
(* queues its writes and executes them in one transaction together with    *)
(* the key.  Any call may raise with or without its effect; a handler that *)
(* fails answers state_unavailable and forgets the event, the stream       *)
(* replays its micro-batch.                                                *)
(***************************************************************************)
EXTENDS Naturals, Sequences, FiniteSets

CONSTANTS
  Servers,        \* Flask processes, each consumes under its _adaptive_lock
  Stream,         \* the Spark driver
  Events,
  Valid,          \* events that validate_event accepts
  Late,           \* events behind the watermark when the stream reads them
  Kind, About, SessionOf,     \* event_type, products and session of an event
  Sessions, Products,
  NoWorker, NoEvent,
  MaxFaults       \* bound: calls that raise, kills, locks that expire early

(* _EVENT_REWARDS *)
RewardedKinds == {"recommendation_clicked", "cart_item_added", "cart_item_removed",
                  "coupon_applied", "checkout_completed"}

(* recommendation_impression and product_view_ended move counters only, the *)
(* remaining types change nothing but their deduplication key.              *)
Kinds == RewardedKinds \cup {"product_view_ended"}

Workers == Servers \cup {Stream}

ASSUME FeedbackAssumption ==
  /\ Stream \notin Servers
  /\ Valid \subseteq Events /\ Late \subseteq Events
  /\ Kind \in [Events -> Kinds]
  /\ About \in [Events -> SUBSET Products]
  /\ SessionOf \in [Events -> Sessions]
  /\ NoWorker \notin Workers /\ NoEvent \notin Events
  /\ MaxFaults \in Nat

VARIABLES
  (* Kafka and the Flask processes *)
  log,            \* the clickstream topic
  inbox,          \* published events whose request waits for _adaptive_lock
  (* the stream: checkpoint, micro-batch, dead letters *)
  offset,         \* events of finished micro-batches
  upto,           \* last event of the planned one, offset if there is none
  row,            \* its next event
  rejected,       \* events in the dead-letter file
  (* Redis *)
  lock,           \* feedback-commit-lock: the worker whose token it holds
  claimed,        \* events that have a deduplication key
  learned,        \* matrix of a product: how often it contains an event
  observed,       \* feature counters: how often they contain an event
  carts,          \* live cart of a session
  impressions,    \* products of a session with a live impression
  (* the workers *)
  pc, event,
  targets,        \* products the event is attributed to
  read,           \* the matrices read for them
  status,         \* FeedbackResult.status
  (* history *)
  credited,       \* products whose matrices the transactions of an event set
  overran,        \* events written by a worker whose lock had expired
  faults

topicVars == <<log, inbox>>
streamVars == <<offset, upto, row, rejected>>
stateVars == <<claimed, learned, observed, carts, credited, overran>>
workerVars == <<pc, event, targets, read, status>>

vars == <<log, inbox, offset, upto, row, rejected, lock, claimed, learned,
          observed, carts, impressions, pc, event, targets, read, status,
          credited, overran, faults>>

Matrices == [Products -> [Events -> Nat]]

Steps == {"idle", "lock", "check", "attribute", "load", "exec", "release",
          "done", "stopped"}

(* The steps inside "with self.redis_client.lock(...)". *)
Critical == {"check", "attribute", "load", "exec", "release"}

Statuses == {"learned", "ignored_no_impression", "observed_no_reward",
             "duplicate_event", "state_unavailable"}

TypeOK ==
  /\ log \in Seq(Events)
  /\ inbox \in [Servers -> SUBSET Valid]
  /\ offset \in Nat /\ upto \in Nat /\ row \in Nat
  /\ offset <= upto /\ upto <= Len(log)
  /\ row \in offset + 1..upto + 1
  /\ pc[Stream] \notin {"idle", "stopped"} => row <= upto
  /\ rejected \subseteq Events \ Valid
  /\ lock \in Workers \cup {NoWorker}
  /\ claimed \subseteq Valid
  /\ learned \in Matrices
  /\ observed \in [Events -> Nat]
  /\ carts \in [Sessions -> SUBSET Products]
  /\ impressions \in [Sessions -> SUBSET Products]
  /\ pc \in [Workers -> Steps]
  /\ event \in [Workers -> Valid \cup {NoEvent}]
  /\ \A w \in Workers : pc[w] \notin {"idle", "stopped"} => event[w] \in Valid
  /\ targets \in [Workers -> SUBSET Products]
  /\ read \in [Workers -> Matrices]
  /\ status \in [Workers -> Statuses]
  /\ credited \in [Events -> SUBSET Products]
  /\ overran \subseteq Valid
  /\ faults \in Nat

NoMatrices == [p \in Products |-> [e \in Events |-> 0]]

Init ==
  /\ log = <<>>
  /\ inbox = [s \in Servers |-> {}]
  /\ offset = 0 /\ upto = 0 /\ row = 1
  /\ rejected = {}
  /\ lock = NoWorker
  /\ claimed = {}
  /\ learned = NoMatrices
  /\ observed = [e \in Events |-> 0]
  /\ carts = [s \in Sessions |-> {}]
  /\ impressions = [s \in Sessions |-> {}]
  /\ pc = [w \in Workers |-> "idle"]
  /\ event = [w \in Workers |-> NoEvent]
  /\ targets = [w \in Workers |-> {}]
  /\ read = [w \in Workers |-> NoMatrices]
  /\ status = [w \in Workers |-> "state_unavailable"]
  /\ credited = [e \in Events |-> {}]
  /\ overran = {}
  /\ faults = 0

Fault == faults < MaxFaults /\ faults' = faults + 1

Published == {log[i] : i \in 1..Len(log)}

(* The locals of a consumption end with it. *)
Forget(w) ==
  /\ event' = [event EXCEPT ![w] = NoEvent]
  /\ targets' = [targets EXCEPT ![w] = {}]
  /\ read' = [read EXCEPT ![w] = NoMatrices]
  /\ status' = [status EXCEPT ![w] = "state_unavailable"]

-----------------------------------------------------------------------------
(* The topic, the requests and the impressions.                            *)

(* publish_storefront_event: a valid event is on the topic before the      *)
(* request waits for _adaptive_lock.                                       *)
Post(s, e) ==
  /\ e \in Valid \ Published
  /\ log' = Append(log, e)
  /\ inbox' = [inbox EXCEPT ![s] = @ \cup {e}]
  /\ UNCHANGED <<streamVars, lock, stateVars, impressions, workerVars, faults>>

(* An event only the stream will see: from a producer that writes to the   *)
(* topic, or one whose acknowledgement the handler did not wait for (503). *)
(* Only such a producer writes an event that does not validate.            *)
Produce(e) ==
  /\ e \in Events \ Published
  /\ log' = Append(log, e)
  /\ UNCHANGED <<inbox, streamVars, lock, stateVars, impressions, workerVars, faults>>

(* rank records an impression that shows p to the session; it takes no     *)
(* part in the lock.                                                       *)
Record(s, p) ==
  /\ impressions' = [impressions EXCEPT ![s] = @ \cup {p}]
  /\ UNCHANGED <<topicVars, streamVars, lock, stateVars, workerVars, faults>>

(* The impression expires after a day. *)
Expire(s, p) ==
  /\ impressions' = [impressions EXCEPT ![s] = @ \ {p}]
  /\ UNCHANGED <<topicVars, streamVars, lock, stateVars, workerVars, faults>>

(* A thread of server s obtains _adaptive_lock; threads get it in any      *)
(* order.                                                                  *)
Take(s, e) ==
  /\ pc[s] = "idle"
  /\ e \in inbox[s]
  /\ inbox' = [inbox EXCEPT ![s] = @ \ {e}]
  /\ pc' = [pc EXCEPT ![s] = "lock"]
  /\ event' = [event EXCEPT ![s] = e]
  /\ UNCHANGED <<log, streamVars, lock, stateVars, impressions, targets, read,
                 status, faults>>

(* The handler answers 202 with the status, whatever it is: nothing is     *)
(* retried here.                                                           *)
Answer(s) ==
  /\ pc[s] = "done"
  /\ pc' = [pc EXCEPT ![s] = "idle"]
  /\ Forget(s)
  /\ UNCHANGED <<topicVars, streamVars, lock, stateVars, impressions, faults>>

-----------------------------------------------------------------------------
(* The stream: AdaptiveForeachBatch over the micro-batches of Spark.       *)

(* Spark writes the range of the next micro-batch to the checkpoint before *)
(* it runs it, so a replay has the same range.                             *)
StartBatch ==
  /\ pc[Stream] = "idle" /\ upto = offset /\ offset < Len(log)
  /\ upto' \in offset + 1..Len(log)
  /\ row' = offset + 1
  /\ UNCHANGED <<topicVars, offset, rejected, lock, stateVars, impressions, workerVars, faults>>

(* The next event is late: it is not among the rows of the micro-batch.    *)
(* dropDuplicates behind withWatermark removes it without a trace.         *)
DropLate ==
  /\ pc[Stream] = "idle" /\ row <= upto /\ log[row] \in Late
  /\ row' = row + 1
  /\ UNCHANGED <<topicVars, offset, upto, rejected, lock, stateVars, impressions, workerVars, faults>>

(* The next row validates and goes to the service. *)
NextRow ==
  /\ pc[Stream] = "idle" /\ row <= upto /\ log[row] \in Valid \ Late
  /\ pc' = [pc EXCEPT ![Stream] = "lock"]
  /\ event' = [event EXCEPT ![Stream] = log[row]]
  /\ UNCHANGED <<topicVars, streamVars, lock, stateVars, impressions, targets,
                 read, status, faults>>

(* It does not validate and goes to the dead-letter file. *)
Reject ==
  /\ pc[Stream] = "idle" /\ row <= upto /\ log[row] \notin Valid \cup Late
  /\ rejected' = rejected \cup {log[row]}
  /\ row' = row + 1
  /\ UNCHANGED <<topicVars, offset, upto, lock, stateVars, impressions, workerVars, faults>>

(* A wrong variant takes a row off the batch whatever its status. *)
AdvanceAlways ==
  /\ pc[Stream] = "done"
  /\ row' = row + 1
  /\ pc' = [pc EXCEPT ![Stream] = "idle"]
  /\ Forget(Stream)
  /\ UNCHANGED <<topicVars, offset, upto, rejected, lock, stateVars, impressions, faults>>

(* consume_with: state_unavailable raises RuntimeError, which ends the     *)
(* query; every other status is an answer.                                 *)
Advance ==
  /\ pc[Stream] = "done"
  /\ IF status[Stream] = "state_unavailable"
     THEN /\ pc' = [pc EXCEPT ![Stream] = "stopped"]
          /\ UNCHANGED row
     ELSE /\ row' = row + 1
          /\ pc' = [pc EXCEPT ![Stream] = "idle"]
  /\ Forget(Stream)
  /\ UNCHANGED <<topicVars, offset, upto, rejected, lock, stateVars, impressions, faults>>

(* A wrong variant commits what is on the topic by now. *)
EndBatchAtLatest ==
  /\ pc[Stream] = "idle" /\ upto > offset /\ row > upto
  /\ offset' = Len(log)
  /\ UNCHANGED <<topicVars, upto, row, rejected, lock, stateVars, impressions,
                 workerVars, faults>>

(* The micro-batch is committed to the checkpoint. *)
EndBatch ==
  /\ pc[Stream] = "idle" /\ upto > offset /\ row > upto
  /\ offset' = upto
  /\ UNCHANGED <<topicVars, upto, row, rejected, lock, stateVars, impressions,
                 workerVars, faults>>

(* A wrong variant goes on where the query stopped instead of replaying.   *)
RestartBehind ==
  /\ pc[Stream] = "stopped"
  /\ pc' = [pc EXCEPT ![Stream] = "idle"]
  /\ row' = upto + 1
  /\ UNCHANGED <<topicVars, offset, upto, rejected, lock, stateVars, impressions,
                 event, targets, read, status, faults>>

(* The query is started again: the planned micro-batch from its beginning. *)
Restart ==
  /\ pc[Stream] = "stopped"
  /\ pc' = [pc EXCEPT ![Stream] = "idle"]
  /\ row' = offset + 1
  /\ UNCHANGED <<topicVars, offset, upto, rejected, lock, stateVars, impressions,
                 event, targets, read, status, faults>>

-----------------------------------------------------------------------------
(* consume_feedback, one action per group of Redis calls.                  *)

(* A worker goes on with its consumption; the state in Redis is as it was. *)
Proceed(w, step) ==
  /\ pc' = [pc EXCEPT ![w] = step]
  /\ UNCHANGED <<topicVars, streamVars, stateVars, impressions, event>>

Acquire(w) ==
  /\ pc[w] = "lock" /\ lock = NoWorker
  /\ lock' = w
  /\ Proceed(w, "check")
  /\ UNCHANGED <<targets, read, status, faults>>

(* blocking_timeout: five seconds without the lock are a LockError. *)
TimesOut(w) ==
  /\ pc[w] = "lock" /\ lock # NoWorker
  /\ status' = [status EXCEPT ![w] = "state_unavailable"]
  /\ Proceed(w, "done")
  /\ UNCHANGED <<lock, targets, read, faults>>

(* The SET of the lock raises, perhaps with effect: then the key holds a   *)
(* token that nobody will release.                                         *)
AcquireRaises(w) ==
  /\ pc[w] = "lock"
  /\ lock' \in {lock} \cup (IF lock = NoWorker THEN {w} ELSE {})
  /\ status' = [status EXCEPT ![w] = "state_unavailable"]
  /\ Proceed(w, "done")
  /\ Fault
  /\ UNCHANGED <<targets, read>>

(* A wrong variant trusts the lock alone. *)
CheckNothing(w) ==
  /\ pc[w] = "check"
  /\ Proceed(w, IF Kind[event[w]] \in RewardedKinds THEN "attribute" ELSE "exec")
  /\ targets' = [targets EXCEPT ![w] = {}]
  /\ UNCHANGED <<lock, read, status, faults>>

(* The event has been applied by an earlier consumption. *)
Duplicate(w) ==
  /\ pc[w] = "check" /\ event[w] \in claimed
  /\ status' = [status EXCEPT ![w] = "duplicate_event"]
  /\ Proceed(w, "release")
  /\ UNCHANGED <<lock, targets, read, faults>>

(* It has not; only rewarded events are attributed. *)
Check(w) ==
  /\ pc[w] = "check" /\ event[w] \notin claimed
  /\ Proceed(w, IF Kind[event[w]] \in RewardedKinds THEN "attribute" ELSE "exec")
  /\ targets' = [targets EXCEPT ![w] = {}]
  /\ UNCHANGED <<lock, read, status, faults>>

(* _find_impression for every product of the event. *)
Attribute(w) ==
  /\ pc[w] = "attribute"
  /\ LET found == About[event[w]] \cap impressions[SessionOf[event[w]]]
     IN  /\ targets' = [targets EXCEPT ![w] = found]
         /\ Proceed(w, IF found = {} THEN "exec" ELSE "load")
  /\ UNCHANGED <<lock, read, status, faults>>

(* update_many reads the matrix of every target and queues the new one. *)
Load(w) ==
  /\ pc[w] = "load"
  /\ read' = [read EXCEPT ![w] = [p \in Products |->
               IF p \in targets[w] THEN learned[p] ELSE NoMatrices[p]]]
  /\ Proceed(w, "exec")
  /\ UNCHANGED <<lock, targets, status, faults>>

(* What an event makes of the live cart of its session. *)
CartAfter(e, cart) ==
  CASE Kind[e] = "cart_item_added"   -> cart \cup About[e]
    [] Kind[e] = "cart_item_removed" -> cart \ About[e]
    [] OTHER                         -> cart

(* A wrong variant executes the writes without the deduplication key. *)
TransactionWithoutKey(w) ==
  LET e == event[w]
  IN  /\ learned' = [p \in Products |-> IF p \in targets[w]
                       THEN [read[w][p] EXCEPT ![e] = @ + 1] ELSE learned[p]]
      /\ observed' = [observed EXCEPT ![e] = @ + 1]
      /\ carts' = [carts EXCEPT ![SessionOf[e]] = CartAfter(e, @)]
      /\ credited' = [credited EXCEPT ![e] = @ \cup targets[w]]
      /\ overran' = IF lock = w THEN overran ELSE overran \cup {e}
      /\ UNCHANGED claimed

(* The queued writes: SET of the new matrices, computed from what was      *)
(* read, INCRBYFLOAT of the counters, SADD or SREM of the cart, and SET of *)
(* the deduplication key.  MULTI and EXEC apply all of them, whoever holds *)
(* the lock by now: there is no WATCH on anything that was read.           *)
Transaction(w) ==
  LET e == event[w]
  IN  /\ learned' = [p \in Products |-> IF p \in targets[w]
                       THEN [read[w][p] EXCEPT ![e] = @ + 1] ELSE learned[p]]
      /\ observed' = [observed EXCEPT ![e] = @ + 1]
      /\ carts' = [carts EXCEPT ![SessionOf[e]] = CartAfter(e, @)]
      /\ claimed' = claimed \cup {e}
      /\ credited' = [credited EXCEPT ![e] = @ \cup targets[w]]
      /\ overran' = IF lock = w THEN overran ELSE overran \cup {e}

Outcome(w) ==
  CASE Kind[event[w]] \notin RewardedKinds -> "observed_no_reward"
    [] targets[w] = {} /\ Kind[event[w]] \in RewardedKinds -> "ignored_no_impression"
    [] OTHER -> "learned"

Exec(w) ==
  /\ pc[w] = "exec"
  /\ Transaction(w)
  /\ pc' = [pc EXCEPT ![w] = "release"]
  /\ status' = [status EXCEPT ![w] = Outcome(w)]
  /\ UNCHANGED <<topicVars, streamVars, lock, impressions, event, targets, read, faults>>

(* A wrong variant pipelines without MULTI: the connection is lost after   *)
(* the matrices were set.                                                  *)
RaisesHalfway(w) ==
  /\ pc[w] = "exec"
  /\ learned' = [p \in Products |-> IF p \in targets[w]
                   THEN [read[w][p] EXCEPT ![event[w]] = @ + 1] ELSE learned[p]]
  /\ credited' = [credited EXCEPT ![event[w]] = @ \cup targets[w]]
  /\ pc' = [pc EXCEPT ![w] = "release"]
  /\ status' = [status EXCEPT ![w] = "state_unavailable"]
  /\ Fault
  /\ UNCHANGED <<topicVars, streamVars, lock, claimed, observed, carts, overran,
                 impressions, event, targets, read>>

(* A call under the lock raises a RedisError; EXEC may have run. *)
Raises(w) ==
  /\ \/ pc[w] \in {"check", "attribute", "load", "exec"} /\ UNCHANGED stateVars
     \/ pc[w] = "exec" /\ Transaction(w)
  /\ pc' = [pc EXCEPT ![w] = "release"]
  /\ status' = [status EXCEPT ![w] = "state_unavailable"]
  /\ Fault
  /\ UNCHANGED <<topicVars, streamVars, lock, impressions, event, targets, read>>

(* A wrong variant deletes the lock without comparing tokens. *)
ReleaseBlindly(w) ==
  /\ pc[w] = "release"
  /\ lock' = NoWorker
  /\ Proceed(w, "done")
  /\ UNCHANGED <<targets, read, status, faults>>

(* The lock is deleted if it still has this worker's token.  If not,       *)
(* LockNotOwnedError replaces the result, also that of an executed         *)
(* transaction.                                                            *)
Release(w) ==
  /\ pc[w] = "release"
  /\ IF lock = w
     THEN lock' = NoWorker /\ UNCHANGED status
     ELSE status' = [status EXCEPT ![w] = "state_unavailable"] /\ UNCHANGED lock
  /\ Proceed(w, "done")
  /\ UNCHANGED <<targets, read, faults>>

ReleaseRaises(w) ==
  /\ pc[w] = "release"
  /\ lock' \in {lock} \cup (IF lock = w THEN {NoWorker} ELSE {})
  /\ status' = [status EXCEPT ![w] = "state_unavailable"]
  /\ Proceed(w, "done")
  /\ Fault
  /\ UNCHANGED <<targets, read>>

(* The process of a worker is killed.  The stream is started again; the    *)
(* requests of a server are lost.                                          *)
Kill(w) ==
  /\ pc[w] # "stopped"
  /\ IF w = Stream
     THEN pc' = [pc EXCEPT ![w] = "stopped"] /\ UNCHANGED inbox
     ELSE pc' = [pc EXCEPT ![w] = "idle"] /\ inbox' = [inbox EXCEPT ![w] = {}]
  /\ Forget(w)
  /\ Fault
  /\ UNCHANGED <<log, streamVars, lock, stateVars, impressions>>

(* Thirty seconds after a worker that does not need it any more left it.   *)
Abandoned ==
  /\ lock # NoWorker /\ pc[lock] \notin Critical
  /\ lock' = NoWorker
  /\ UNCHANGED <<topicVars, streamVars, stateVars, impressions, workerVars, faults>>

(* Thirty seconds pass while its holder works on. *)
Overrun ==
  /\ lock # NoWorker /\ pc[lock] \in Critical
  /\ lock' = NoWorker
  /\ Fault
  /\ UNCHANGED <<topicVars, streamVars, stateVars, impressions, workerVars>>

-----------------------------------------------------------------------------

Consumes(w) ==
  \/ Acquire(w) \/ TimesOut(w) \/ Duplicate(w) \/ Check(w) \/ Attribute(w)
  \/ Load(w) \/ Exec(w) \/ Release(w)

Serves(s) == (\E e \in Valid : Take(s, e)) \/ Consumes(s) \/ Answer(s)

Streams ==
  \/ StartBatch \/ DropLate \/ NextRow \/ Reject \/ Consumes(Stream)
  \/ Advance \/ EndBatch \/ Restart

Fails(w) == AcquireRaises(w) \/ Raises(w) \/ ReleaseRaises(w) \/ Kill(w)

Next ==
  \/ \E s \in Servers, e \in Events : Post(s, e)
  \/ \E e \in Events : Produce(e)
  \/ \E s \in Sessions, p \in Products : Record(s, p) \/ Expire(s, p)
  \/ \E s \in Servers : Serves(s)
  \/ Streams
  \/ \E w \in Workers : Fails(w)
  \/ Abandoned \/ Overrun

Spec == Init /\ [][Next]_vars

(* The processes run, an operator starts the query again, Redis expires    *)
(* keys.  Nothing makes shoppers act or impressions appear.                *)
Fairness ==
  /\ \A s \in Servers : WF_vars(Serves(s))
  /\ WF_vars(Streams)
  /\ WF_vars(Abandoned)

FairSpec == Spec /\ Fairness

-----------------------------------------------------------------------------
(* The inductive invariant.                                                *)

(* The deduplication key was absent when the worker looked, and still is   *)
(* as long as it has the lock: only a worker without it can write.         *)
FreshInv ==
  \A w \in Workers :
    lock = w /\ pc[w] \in {"attribute", "load", "exec"} /\ event[w] \in claimed
      => event[w] \in overran

(* No transaction for p was executed outside the lock. *)
Undisturbed(p) == \A e \in overran : p \notin credited[e]

(* The matrices read under the lock are still the current ones. *)
LoadedInv ==
  \A w \in Workers, p \in Products :
    lock = w /\ pc[w] = "exec" /\ p \in targets[w] /\ Undisturbed(p)
      => read[w][p] = learned[p]

(* The key is set with the matrices. *)
CreditInv == \A e \in Events : credited[e] # {} => e \in claimed

(* Every status but state_unavailable means that the event was applied. *)
AnswerInv ==
  \A w \in Workers :
    pc[w] \in {"release", "done"} /\ status[w] # "state_unavailable"
      => event[w] \in claimed

(* The stream consumes the next row of its micro-batch. *)
RowInv == pc[Stream] \notin {"idle", "stopped"} => event[Stream] = log[row]

(* An event has a deduplication key if and only if its counters, cart and  *)
(* model updates were applied, once: neither the two consumers, nor a      *)
(* replay, nor an EXEC that raised after it ran apply it again or in part. *)
(* Only a worker whose lock has expired can do otherwise.                  *)
AppliedOnce ==
  \A e \in Events \ overran : observed[e] = IF e \in claimed THEN 1 ELSE 0

(* No update of a matrix is lost or made twice, although it is read and    *)
(* written back whole: a matrix is made of exactly the events that were    *)
(* attributed to its product.                                              *)
ModelKeepsFeedback ==
  \A p \in Products : Undisturbed(p) =>
    \A e \in Events :
      learned[p][e] = IF e \in claimed /\ p \in credited[e] THEN 1 ELSE 0

(* What the stream has passed was applied, by it or by a server, or is in  *)
(* the dead-letter file, or was late.                                      *)
StreamLeavesNothing ==
  \A i \in 1..row - 1 : log[i] \in claimed \cup rejected \cup Late

FeedbackInvariant ==
  /\ FreshInv /\ LoadedInv /\ CreditInv /\ AnswerInv /\ RowInv
  /\ AppliedOnce /\ ModelKeepsFeedback /\ StreamLeavesNothing

(* A consumption is disturbed by nothing but time: no other worker, not    *)
(* even one that releases a lock it has lost, takes the lock of a worker   *)
(* in the middle of its consumption.                                       *)
LockIsKept ==
  [][\A w \in Workers :
       lock = w /\ pc[w] \in Critical /\ pc'[w] = pc[w] /\ faults' = faults
         => lock' = w]_vars

(* Every valid event that reaches the topic in time is applied in the end, *)
(* although the servers retry nothing.                                     *)
EventuallyApplied == \A e \in Valid \ Late : e \in Published ~> e \in claimed

(* The promise of LearnOnce, as long as no worker writes after its lock    *)
(* has expired: every other step of every worker, failing calls included,  *)
(* applies one event completely or changes nothing.                        *)
Promise == INSTANCE LearnOnce WITH applied <- claimed, model <- learned, broken <- overran # {}

KeepsPromise == Promise!Spec
=============================================================================

------------------------------ MODULE Checkout ------------------------------
(***************************************************************************)
(* Checkout: a browser submits the order it keeps pending (checkout.js),   *)
(* the threads of the Flask server store it (create_order of app/main.py)  *)
(* and redeem its coupons in the Redis ledger (CouponLedger of             *)
(* pipeline/observability.py).                                             *)
(*                                                                         *)
(* The order file and the ledger are two stores with no transaction over   *)
(* both.  A call to Redis may raise with or without its effect, a write of *)
(* the file may fail or leave part of a line, a reply may be lost, the     *)
(* process may be killed; the browser then submits the same order again,   *)
(* perhaps while the first request is still running, perhaps with another  *)
(* basket.                                                                 *)
(***************************************************************************)
EXTENDS Naturals, Sequences, FiniteSets

CONSTANTS
  Sessions,       \* (user_id, session_id) pairs
  Products,
  Coupons, Holder, ProductOf,   \* coupons, the session and product each is for
  Usable,         \* coupons with a discount above 0 and at most 50 percent
  Orders, Shopper,              \* order ids, and the session that makes each
  Threads,        \* threads of the server
  NoOrder, NoThread, NoJob

CONSTANTS         \* bounds of the model
  Baskets,        \* what a shopper may submit
  MaxRequests,    \* submissions
  MaxFaults       \* calls and writes that fail, lost replies, kills

Contents == [cart : SUBSET Products, coupons : SUBSET Coupons]

Jobs == [order : Orders, cart : SUBSET Products, coupons : SUBSET Coupons]

(* A line of orders.jsonl.  requested is not in it, it records what the    *)
(* request asked for.                                                      *)
Records == [order : Orders, cart : SUBSET Products, requested : SUBSET Coupons,
            applied : SUBSET Coupons]

ASSUME CheckoutAssumption ==
  /\ Holder \in [Coupons -> Sessions]
  /\ ProductOf \in [Coupons -> Products]
  /\ Shopper \in [Orders -> Sessions]
  /\ Usable \subseteq Coupons
  /\ Baskets \subseteq Contents
  /\ NoOrder \notin Orders /\ NoThread \notin Threads /\ NoJob \notin Jobs
  /\ MaxRequests \in Nat /\ MaxFaults \in Nat

VARIABLES
  (* the browsers *)
  pending,        \* order a session keeps in sessionStorage
  made,           \* order ids made so far
  listening,      \* thread whose reply the page of a session waits for
  confirmed,      \* orders a browser knows to be confirmed
  (* Redis *)
  issued,         \* coupons in the ledger
  redeemer,       \* redeemed_order_id of a coupon
  (* the order file *)
  store,          \* its lines
  torn,           \* it holds a part of a line, which does not parse
  (* the server process *)
  lock,           \* holder of _order_lock
  pc,             \* next step of a thread
  job,            \* its request
  obtained,       \* coupons its redeem returned
  (* bounds *)
  requests, faults

browserVars == <<pending, made, listening, confirmed>>
ledgerVars == <<issued, redeemer>>
fileVars == <<store, torn>>
serverVars == <<lock, pc, job, obtained>>

vars == <<pending, made, listening, confirmed, issued, redeemer, store, torn,
          lock, pc, job, obtained, requests, faults>>

Steps == {"idle", "enter", "redeem", "append", "created", "refused"}

TypeOK ==
  /\ pending \in [Sessions -> Orders \cup {NoOrder}]
  /\ made \subseteq Orders
  /\ listening \in [Sessions -> Threads \cup {NoThread}]
  /\ confirmed \subseteq Orders
  /\ issued \subseteq Coupons
  /\ redeemer \in [Coupons -> Orders \cup {NoOrder}]
  /\ store \in Seq(Records)
  /\ torn \in BOOLEAN
  /\ lock \in Threads \cup {NoThread}
  /\ pc \in [Threads -> Steps]
  /\ job \in [Threads -> Jobs \cup {NoJob}]
  /\ \A t \in Threads : pc[t] # "idle" => job[t] \in Jobs
  /\ obtained \in [Threads -> SUBSET Coupons]
  /\ requests \in Nat /\ faults \in Nat

Init ==
  /\ pending = [s \in Sessions |-> NoOrder]
  /\ made = {}
  /\ listening = [s \in Sessions |-> NoThread]
  /\ confirmed = {}
  /\ issued = {}
  /\ redeemer = [k \in Coupons |-> NoOrder]
  /\ store = <<>>
  /\ torn = FALSE
  /\ lock = NoThread
  /\ pc = [t \in Threads |-> "idle"]
  /\ job = [t \in Threads |-> NoJob]
  /\ obtained = [t \in Threads |-> {}]
  /\ requests = 0
  /\ faults = 0

Fault == faults < MaxFaults /\ faults' = faults + 1

-----------------------------------------------------------------------------
(* The ledger and the browser.                                             *)

(* A wrong variant replaces the whole record of the coupon. *)
IssueReplaces(k) ==
  /\ issued' = issued \cup {k}
  /\ redeemer' = [redeemer EXCEPT ![k] = NoOrder]
  /\ UNCHANGED <<browserVars, fileVars, serverVars, requests, faults>>

(* CouponLedger.issue: HSET of the coupon's fields.  The consumer delivers *)
(* at least once, so a coupon may be issued again at any time, also after  *)
(* it was redeemed; redeemed_order_id is not among the fields.             *)
Issue(k) ==
  /\ issued' = issued \cup {k}
  /\ UNCHANGED <<redeemer, browserVars, fileVars, serverVars, requests, faults>>

(* The shopper submits the basket: the page keeps one order id until it is *)
(* confirmed.  A page that was reloaded does not hear the reply to its     *)
(* earlier request any more.                                               *)
Submit(s, basket, t) ==
  /\ requests < MaxRequests
  /\ pc[t] = "idle"
  /\ \E o \in IF pending[s] # NoOrder THEN {pending[s]}
              ELSE {id \in Orders \ made : Shopper[id] = s} :
       /\ pending' = [pending EXCEPT ![s] = o]
       /\ made' = made \cup {o}
       /\ job' = [job EXCEPT ![t] =
            [order |-> o, cart |-> basket.cart, coupons |-> basket.coupons]]
  /\ pc' = [pc EXCEPT ![t] = "enter"]
  /\ listening' = [listening EXCEPT ![s] = t]
  /\ requests' = requests + 1
  /\ UNCHANGED <<confirmed, ledgerVars, fileVars, lock, obtained, faults>>

-----------------------------------------------------------------------------
(* create_order, the part under _order_lock.                               *)

Stored == {store[i].order : i \in 1..Len(store)}

(* A thread leaves the block, normally or by an exception. *)
Leave(t, step) ==
  /\ lock' = NoThread
  /\ pc' = [pc EXCEPT ![t] = step]

(* A wrong variant does not look for the order in the file. *)
EnterUnchecked(t) ==
  /\ pc[t] = "enter"
  /\ lock = NoThread
  /\ IF torn THEN Leave(t, "refused")
       ELSE /\ lock' = t
            /\ pc' = [pc EXCEPT ![t] = "redeem"]
  /\ UNCHANGED <<browserVars, ledgerVars, fileVars, job, obtained, requests, faults>>

(* A wrong variant looks for the order before it takes the lock. *)
EnterUnlocked(t) ==
  /\ pc[t] = "enter"
  /\ IF torn \/ job[t].order \in Stored
       THEN Leave(t, "refused")
       ELSE /\ lock' = t
            /\ pc' = [pc EXCEPT ![t] = "redeem"]
  /\ UNCHANGED <<browserVars, ledgerVars, fileVars, job, obtained, requests, faults>>

(* Take the lock and read the file: a line that does not parse raises, and *)
(* an order that is there is refused with 409.                             *)
Enter(t) ==
  /\ pc[t] = "enter"
  /\ lock = NoThread
  /\ IF torn \/ job[t].order \in Stored
       THEN Leave(t, "refused")
       ELSE /\ lock' = t
            /\ pc' = [pc EXCEPT ![t] = "redeem"]
  /\ UNCHANGED <<browserVars, ledgerVars, fileVars, job, obtained, requests, faults>>

(* A wrong variant: an order does not get back what it redeemed before. *)
RedeemableOnce(j) ==
  {k \in j.coupons \cap issued :
     /\ ProductOf[k] \in j.cart
     /\ Holder[k] = Shopper[j.order]
     /\ redeemer[k] = NoOrder}

(* A wrong variant does not look at the order a coupon was redeemed for. *)
RedeemableAgain(j) ==
  {k \in j.coupons \cap issued :
     /\ ProductOf[k] \in j.cart
     /\ Holder[k] = Shopper[j.order]}

(* What the filter and the script of CouponLedger.redeem let through.      *)
Redeemable(j) ==
  {k \in j.coupons \cap issued :
     /\ ProductOf[k] \in j.cart
     /\ Holder[k] = Shopper[j.order]
     /\ redeemer[k] \in {NoOrder, j.order}}

RedeemFor(j) ==
  redeemer' = [k \in Coupons |-> IF k \in Redeemable(j) THEN j.order ELSE redeemer[k]]

Redeem(t) ==
  /\ pc[t] = "redeem"
  /\ RedeemFor(job[t])
  /\ obtained' = [obtained EXCEPT ![t] = Redeemable(job[t])]
  /\ pc' = [pc EXCEPT ![t] = "append"]
  /\ UNCHANGED <<browserVars, issued, fileVars, lock, job, requests, faults>>

(* A wrong variant returns the 503 without leaving the block. *)
RedeemRaisesLocked(t) ==
  /\ pc[t] = "redeem"
  /\ Fault
  /\ pc' = [pc EXCEPT ![t] = "refused"]
  /\ UNCHANGED <<browserVars, ledgerVars, fileVars, lock, job, obtained, requests>>

(* RedisError in one of the three calls, made if there is a coupon: 503.   *)
(* The coupons are redeemed if the script ran.                             *)
RedeemRaises(t) ==
  /\ pc[t] = "redeem" /\ job[t].coupons # {}
  /\ Fault
  /\ \/ RedeemFor(job[t])
     \/ UNCHANGED redeemer
  /\ Leave(t, "refused")
  /\ UNCHANGED <<browserVars, issued, fileVars, job, obtained, requests>>

(* coupon_by_product: of the usable coupons of a product one is applied,   *)
(* the last of the request.                                                *)
Applicable(coupons) ==
  {applied \in SUBSET (coupons \cap Usable) :
     \A k \in coupons \cap Usable :
       \E one \in applied : \A j \in applied : ProductOf[j] = ProductOf[k] <=> j = one}

Append_(t) ==
  /\ pc[t] = "append"
  /\ \E applied \in Applicable(obtained[t]) :
       store' = Append(store, [order |-> job[t].order, cart |-> job[t].cart,
                               requested |-> job[t].coupons, applied |-> applied])
  /\ Leave(t, "created")
  /\ UNCHANGED <<browserVars, ledgerVars, torn, job, obtained, requests, faults>>

(* The disk is full, say.  What was written of the line stays. *)
AppendRaises(t) ==
  /\ pc[t] = "append"
  /\ Fault
  /\ \/ torn' = TRUE
     \/ UNCHANGED torn
  /\ Leave(t, "refused")
  /\ UNCHANGED <<browserVars, ledgerVars, store, job, obtained, requests>>

-----------------------------------------------------------------------------
(* The reply.                                                              *)

(* A wrong variant drops the request before the thread has answered it. *)
DoneEarly(t) ==
  /\ pc' = [pc EXCEPT ![t] = "refused"]
  /\ job' = [job EXCEPT ![t] = NoJob]
  /\ obtained' = [obtained EXCEPT ![t] = {}]

Done(t) ==
  /\ pc' = [pc EXCEPT ![t] = "idle"]
  /\ job' = [job EXCEPT ![t] = NoJob]
  /\ obtained' = [obtained EXCEPT ![t] = {}]

(* 201 confirms the order and ends its being pending; whatever else the    *)
(* page hears leaves the order pending.                                    *)
Reply(t) ==
  LET o == job[t].order
      s == Shopper[o]
  IN  /\ pc[t] \in {"created", "refused"}
      /\ IF listening[s] = t
           THEN /\ listening' = [listening EXCEPT ![s] = NoThread]
                /\ IF pc[t] = "created"
                     THEN /\ confirmed' = confirmed \cup {o}
                          /\ pending' = [pending EXCEPT ![s] = NoOrder]
                     ELSE UNCHANGED <<confirmed, pending>>
           ELSE UNCHANGED <<listening, confirmed, pending>>
      /\ Done(t)
      /\ UNCHANGED <<made, ledgerVars, fileVars, lock, requests, faults>>

ReplyLost(t) ==
  LET s == Shopper[job[t].order]
  IN  /\ pc[t] \in {"created", "refused"}
      /\ Fault
      /\ listening' = [listening EXCEPT ![s] = IF @ = t THEN NoThread ELSE @]
      /\ Done(t)
      /\ UNCHANGED <<pending, made, confirmed, ledgerVars, fileVars, lock, requests>>

(* The server process is killed and started again.  It may die while it    *)
(* writes a line.                                                          *)
Crash ==
  /\ Fault
  /\ \/ torn' = TRUE /\ \E t \in Threads : pc[t] = "append"
     \/ UNCHANGED torn
  /\ lock' = NoThread
  /\ pc' = [t \in Threads |-> "idle"]
  /\ job' = [t \in Threads |-> NoJob]
  /\ obtained' = [t \in Threads |-> {}]
  /\ listening' = [s \in Sessions |-> NoThread]
  /\ UNCHANGED <<pending, made, confirmed, ledgerVars, store, requests>>

-----------------------------------------------------------------------------
Works(t) == Enter(t) \/ Redeem(t) \/ Append_(t) \/ Reply(t)

Fails(t) == RedeemRaises(t) \/ AppendRaises(t) \/ ReplyLost(t)

Next ==
  \/ \E k \in Coupons : Issue(k)
  \/ \E s \in Sessions, b \in Baskets, t \in Threads : Submit(s, b, t)
  \/ \E t \in Threads : Works(t) \/ Fails(t)
  \/ Crash

Spec == Init /\ [][Next]_vars

(* A thread of the server goes on when it can.  Shoppers need not submit,  *)
(* and nothing needs to fail.                                              *)
Fairness == \A t \in Threads : WF_vars(Works(t))

FairSpec == Spec /\ Fairness
-----------------------------------------------------------------------------
(* The inductive invariant.                                                *)

(* The lock is held exactly between the duplicate check and the append.    *)
LockInv == \A t \in Threads : pc[t] \in {"redeem", "append"} <=> lock = t

(* The order of the thread in there is not in the file.                    *)
FreshInv == \A t \in Threads : lock = t => job[t].order \notin Stored

(* A coupon is redeemed for an order of the session it was issued to.      *)
RedeemerInv ==
  \A k \in Coupons : redeemer[k] # NoOrder =>
    k \in issued /\ Holder[k] = Shopper[redeemer[k]]

(* What a thread is about to apply is redeemed for its order, for a        *)
(* product of its cart, and is all it asked for and has redeemed.          *)
ObtainedInv ==
  \A t \in Threads : pc[t] = "append" =>
    obtained[t] = {k \in job[t].coupons : /\ ProductOf[k] \in job[t].cart
                                          /\ redeemer[k] = job[t].order}

(* The same of what the file says was applied. *)
AppliedInv ==
  \A i \in 1..Len(store) : \A k \in store[i].applied :
    redeemer[k] = store[i].order /\ ProductOf[k] \in store[i].cart

(* Every order file has each order once: _order_lock makes the duplicate   *)
(* check and the append one step, whatever requests run at the same time.  *)
OneRecordPerOrder ==
  \A i, j \in 1..Len(store) : store[i].order = store[j].order => i = j

(* "Repeating the same order ID is recoverable": when an attempt redeemed  *)
(* a coupon and then failed, the attempt that is stored in the end gives   *)
(* its discount (or that of another coupon of the product), if it still    *)
(* asks for it.                                                            *)
BoundCouponIsApplied ==
  \A i \in 1..Len(store) : \A k \in store[i].requested \cap Usable :
    /\ redeemer[k] = store[i].order
    /\ ProductOf[k] \in store[i].cart
    => \E j \in store[i].applied : ProductOf[j] = ProductOf[k]

CheckoutInvariant ==
  /\ LockInv /\ FreshInv /\ RedeemerInv /\ ObtainedInv /\ AppliedInv
  /\ OneRecordPerOrder /\ BoundCouponIsApplied

-----------------------------------------------------------------------------
(* Properties.                                                             *)

(* A coupon gives its discount in one order at most, an order of the       *)
(* session it was issued to, although redeeming it and storing the order   *)
(* are two writes that can fail one without the other.                     *)
CouponUsedOnce ==
  \A i, j \in 1..Len(store) : \A k \in store[i].applied :
    /\ Holder[k] = Shopper[store[i].order]
    /\ k \in store[j].applied => i = j

(* A redeemed coupon stays redeemed for the same order: no retry, other    *)
(* order or redelivery of the coupon frees it or moves it.                 *)
RedemptionIsFinal ==
  [][\A k \in Coupons : redeemer[k] # NoOrder => redeemer'[k] = redeemer[k]]_vars

(* Every request ends: no path leaves the block with the lock held.        *)
RequestsEnd ==
  \A t \in Threads : pc[t] # "idle" ~> pc[t] = "idle"
=============================================================================

--------------------------- MODULE CheckoutProofs ---------------------------
(***************************************************************************)
(* What holds of checkout for every number of sessions, orders, coupons,   *)
(* threads, requests and faults.                                           *)
(***************************************************************************)
EXTENDS Checkout, SequenceTheorems, TLAPS

USE DEF browserVars, ledgerVars, fileVars, serverVars

-----------------------------------------------------------------------------
(* Operators.                                                              *)

(* What is applied is usable and among what was obtained, and no product   *)
(* with a usable coupon goes without.                                      *)
LEMMA ApplicableProperties ==
  ASSUME NEW coupons \in SUBSET Coupons, NEW applied \in Applicable(coupons)
  PROVE  /\ applied \subseteq coupons \cap Usable
         /\ \A k \in coupons \cap Usable : \E j \in applied : ProductOf[j] = ProductOf[k]
<1>1. applied \subseteq coupons \cap Usable
  BY DEF Applicable
<1>2. ASSUME NEW k \in coupons \cap Usable
      PROVE  \E j \in applied : ProductOf[j] = ProductOf[k]
  <2>1. PICK one \in applied : \A j \in applied : ProductOf[j] = ProductOf[k] <=> j = one
    BY DEF Applicable
  <2>2. ProductOf[one] = ProductOf[k]
    BY <2>1
  <2>3. QED
    BY <2>2
<1>3. QED
  BY <1>1, <1>2

LEMMA AppendedRecord ==
  ASSUME store \in Seq(Records), NEW rec \in Records, store' = Append(store, rec)
  PROVE  /\ store' \in Seq(Records)
         /\ Len(store) \in Nat /\ Len(store') = Len(store) + 1
         /\ store'[Len(store) + 1] = rec
         /\ \A i \in 1..Len(store) : store'[i] = store[i]
BY AppendProperties, LenProperties

LEMMA StoredRecord ==
  ASSUME TypeOK, NEW i \in 1..Len(store)
  PROVE  /\ store[i] \in Records /\ store[i].order \in Orders
         /\ store[i].order # NoOrder
         /\ store[i].applied \subseteq Coupons /\ store[i].requested \subseteq Coupons
<1>1. store[i] \in Records
  BY ElementOfSeq DEF TypeOK
<1>2. QED
  BY <1>1, CheckoutAssumption DEF Records

LEMMA JobType ==
  ASSUME TypeOK, NEW t \in Threads, pc[t] # "idle"
  PROVE  /\ job[t] \in Jobs
         /\ job[t].order \in Orders /\ job[t].order # NoOrder
         /\ job[t].cart \subseteq Products /\ job[t].coupons \subseteq Coupons
         /\ Redeemable(job[t]) \subseteq Coupons
         /\ Shopper[job[t].order] \in Sessions
BY CheckoutAssumption DEF TypeOK, Jobs, Redeemable

-----------------------------------------------------------------------------
(* Types.                                                                  *)

LEMMA TypeInit == Init => TypeOK
<1> SUFFICES ASSUME Init PROVE TypeOK
  OBVIOUS
<1>1. store \in Seq(Records)
  BY EmptySeq DEF Init
<1>2. torn \in BOOLEAN /\ requests \in Nat /\ faults \in Nat
  BY DEF Init
<1>3. QED
  BY <1>1, <1>2 DEF Init, TypeOK, Steps

LEMMA RecordAppended ==
  ASSUME TypeOK, NEW t \in Threads, Append_(t)
  PROVE  \E applied \in Applicable(obtained[t]) :
           LET rec == [order |-> job[t].order, cart |-> job[t].cart,
                       requested |-> job[t].coupons, applied |-> applied]
           IN  rec \in Records /\ store' = Append(store, rec)
<1>1. PICK applied \in Applicable(obtained[t]) :
        store' = Append(store, [order |-> job[t].order, cart |-> job[t].cart,
                                requested |-> job[t].coupons, applied |-> applied])
  BY DEF Append_
<1>2. applied \subseteq Coupons
  BY ApplicableProperties DEF TypeOK
<1>3. job[t].order \in Orders /\ job[t].cart \subseteq Products /\ job[t].coupons \subseteq Coupons
  BY JobType DEF Append_
<1>4. QED
  BY <1>1, <1>2, <1>3 DEF Records

LEMMA TypeStep == TypeOK /\ [Next]_vars => TypeOK'
<1> SUFFICES ASSUME TypeOK, [Next]_vars PROVE TypeOK'
  OBVIOUS
<1> USE DEF Steps
<1>1. ASSUME NEW k \in Coupons, Issue(k) PROVE TypeOK'
  BY <1>1 DEF Issue, TypeOK
<1>2. ASSUME NEW s \in Sessions, NEW b \in Baskets, NEW t \in Threads, Submit(s, b, t)
      PROVE  TypeOK'
  <2>1. b.cart \subseteq Products /\ b.coupons \subseteq Coupons
    BY CheckoutAssumption DEF Contents
  <2>2. PICK o \in Orders :
          /\ pending' = [pending EXCEPT ![s] = o]
          /\ made' = made \cup {o}
          /\ job' = [job EXCEPT ![t] = [order |-> o, cart |-> b.cart, coupons |-> b.coupons]]
    BY <1>2 DEF Submit, TypeOK
  <2>3. [order |-> o, cart |-> b.cart, coupons |-> b.coupons] \in Jobs
    BY <2>1 DEF Jobs
  <2>4. QED
    BY <1>2, <2>2, <2>3 DEF Submit, TypeOK
<1>3. ASSUME NEW t \in Threads, Enter(t) PROVE TypeOK'
  BY <1>3 DEF Enter, Leave, TypeOK
<1>4. ASSUME NEW t \in Threads, Redeem(t) PROVE TypeOK'
  <2>1. Redeemable(job[t]) \subseteq Coupons /\ job[t].order \in Orders
    BY <1>4, JobType DEF Redeem
  <2>2. redeemer' \in [Coupons -> Orders \cup {NoOrder}]
    BY <1>4, <2>1 DEF Redeem, RedeemFor, TypeOK
  <2>3. QED
    BY <1>4, <2>1, <2>2 DEF Redeem, TypeOK
<1>5. ASSUME NEW t \in Threads, Append_(t) PROVE TypeOK'
  <2>1. store' \in Seq(Records)
    BY <1>5, RecordAppended, AppendedRecord DEF TypeOK
  <2>2. QED
    BY <1>5, <2>1 DEF Append_, Leave, TypeOK
<1>6. ASSUME NEW t \in Threads, Reply(t) PROVE TypeOK'
  <2>1. job[t].order \in Orders
    BY <1>6, JobType DEF Reply
  <2>2. /\ pending' \in [Sessions -> Orders \cup {NoOrder}]
        /\ listening' \in [Sessions -> Threads \cup {NoThread}]
        /\ confirmed' \subseteq Orders
    BY <1>6, <2>1 DEF Reply, TypeOK
  <2>3. QED
    BY <1>6, <2>2 DEF Reply, Done, TypeOK
<1>7. ASSUME NEW t \in Threads, RedeemRaises(t) PROVE TypeOK'
  <2>1. Redeemable(job[t]) \subseteq Coupons /\ job[t].order \in Orders
    BY <1>7, JobType DEF RedeemRaises
  <2>2. redeemer' \in [Coupons -> Orders \cup {NoOrder}]
    BY <1>7, <2>1 DEF RedeemRaises, RedeemFor, TypeOK
  <2>3. QED
    BY <1>7, <2>2 DEF RedeemRaises, Leave, Fault, TypeOK
<1>8. ASSUME NEW t \in Threads, AppendRaises(t) PROVE TypeOK'
  <2>1. torn' \in BOOLEAN
    BY <1>8, Zenon DEF AppendRaises, TypeOK
  <2>2. QED
    BY <1>8, <2>1 DEF AppendRaises, Leave, Fault, TypeOK
<1>9. ASSUME NEW t \in Threads, ReplyLost(t) PROVE TypeOK'
  <2>1. listening' \in [Sessions -> Threads \cup {NoThread}]
    BY <1>9 DEF ReplyLost, TypeOK
  <2>2. QED
    BY <1>9, <2>1 DEF ReplyLost, Done, Fault, TypeOK
<1>10. CASE Crash
  <2>1. torn' \in BOOLEAN
    BY <1>10, Zenon DEF Crash, TypeOK
  <2>2. QED
    BY <1>10, <2>1 DEF Crash, Fault, TypeOK
<1>11. CASE UNCHANGED vars
  BY <1>11 DEF vars, TypeOK
<1>12. QED
  BY <1>1, <1>2, <1>3, <1>4, <1>5, <1>6, <1>7, <1>8, <1>9, <1>10, <1>11
  DEF Next, Works, Fails

(* Every variable keeps its type; a thread that works has a request. *)
THEOREM CheckoutTypeCorrect == Spec => []TypeOK
BY TypeInit, TypeStep, PTL DEF Spec

-----------------------------------------------------------------------------
(* The inductive invariant.                                                *)

(* A step that leaves the ledger, the file and the requests in the block   *)
(* as they are.                                                            *)
LEMMA OutsideStep ==
  ASSUME TypeOK, CheckoutInvariant, UNCHANGED <<redeemer, store, lock>>, issued \subseteq issued',
         \A t \in Threads : pc[t] \in {"redeem", "append"} \/ pc'[t] \in {"redeem", "append"}
           => pc'[t] = pc[t] /\ job'[t] = job[t] /\ obtained'[t] = obtained[t]
  PROVE  CheckoutInvariant'
<1>1. LockInv'
  BY DEF CheckoutInvariant, LockInv
<1>2. FreshInv'
  BY DEF CheckoutInvariant, FreshInv, LockInv, Stored
<1>3. RedeemerInv'
  BY DEF CheckoutInvariant, RedeemerInv
<1>4. ObtainedInv'
  BY DEF CheckoutInvariant, ObtainedInv
<1>5. AppliedInv' /\ OneRecordPerOrder' /\ BoundCouponIsApplied'
  BY DEF CheckoutInvariant, AppliedInv, OneRecordPerOrder, BoundCouponIsApplied
<1>6. QED
  BY <1>1, <1>2, <1>3, <1>4, <1>5 DEF CheckoutInvariant

(* A thread leaves the block; the file is as it was. *)
LEMMA LeaveStep ==
  ASSUME TypeOK, CheckoutInvariant, NEW t \in Threads, NEW step \in {"refused", "created"},
         lock \in {NoThread, t}, Leave(t, step),
         UNCHANGED <<redeemer, issued, store, job, obtained>>
  PROVE  CheckoutInvariant'
<1>1. /\ lock' = NoThread /\ pc'[t] = step
      /\ \A u \in Threads \ {t} : pc'[u] = pc[u] /\ pc[u] \notin {"redeem", "append"}
  BY CheckoutAssumption DEF Leave, CheckoutInvariant, LockInv, TypeOK
<1>2. LockInv' /\ FreshInv' /\ ObtainedInv'
  BY <1>1, CheckoutAssumption DEF LockInv, FreshInv, ObtainedInv
<1>3. RedeemerInv' /\ AppliedInv' /\ OneRecordPerOrder' /\ BoundCouponIsApplied'
  BY DEF CheckoutInvariant, RedeemerInv, AppliedInv, OneRecordPerOrder, BoundCouponIsApplied
<1>4. QED
  BY <1>2, <1>3 DEF CheckoutInvariant

(* What redeeming for a fresh order does to the ledger and to what the     *)
(* file says.                                                              *)
LEMMA RedeemLedger ==
  ASSUME TypeOK, CheckoutInvariant, NEW t \in Threads, lock = t, pc[t] # "idle",
         RedeemFor(job[t]), UNCHANGED <<issued, store>>
  PROVE  /\ RedeemerInv' /\ AppliedInv' /\ OneRecordPerOrder' /\ BoundCouponIsApplied'
         /\ \A k \in Coupons : redeemer[k] # NoOrder => redeemer'[k] = redeemer[k]
         /\ \A k \in Coupons : redeemer'[k] = job[t].order =>
              redeemer[k] = job[t].order \/ k \in Redeemable(job[t])
         /\ \A k \in Redeemable(job[t]) : redeemer'[k] = job[t].order
<1> DEFINE o == job[t].order
<1>1. o \in Orders /\ o # NoOrder /\ o \notin Stored
  BY JobType DEF CheckoutInvariant, FreshInv
<1>2. \A k \in Coupons : redeemer'[k] = IF k \in Redeemable(job[t]) THEN o ELSE redeemer[k]
  BY DEF RedeemFor
<1>3. \A k \in Redeemable(job[t]) :
        k \in Coupons /\ k \in issued /\ Holder[k] = Shopper[o] /\ redeemer[k] \in {NoOrder, o}
  BY DEF Redeemable, TypeOK
<1> HIDE DEF o
<1>4. \A k \in Coupons : redeemer[k] # NoOrder => redeemer'[k] = redeemer[k]
  BY <1>2, <1>3
<1>5. RedeemerInv'
  BY <1>2, <1>3 DEF CheckoutInvariant, RedeemerInv
<1>6. \A i \in 1..Len(store) : store[i].order # o /\ store[i].order # NoOrder
                               /\ store[i].applied \subseteq Coupons
                               /\ store[i].requested \subseteq Coupons
  BY <1>1, StoredRecord DEF Stored
<1>7. AppliedInv'
  BY <1>4, <1>6 DEF CheckoutInvariant, AppliedInv
<1>8. OneRecordPerOrder'
  BY DEF CheckoutInvariant, OneRecordPerOrder
<1>9. BoundCouponIsApplied'
  BY <1>2, <1>6 DEF CheckoutInvariant, BoundCouponIsApplied
<1>10. QED
  BY <1>2, <1>3, <1>4, <1>5, <1>7, <1>8, <1>9 DEF o

LEMMA RedeemStep ==
  ASSUME TypeOK, CheckoutInvariant, NEW t \in Threads, Redeem(t)
  PROVE  CheckoutInvariant'
<1>1. lock = t /\ pc[t] # "idle" /\ RedeemFor(job[t]) /\ UNCHANGED <<issued, store, lock, job>>
  BY DEF Redeem, CheckoutInvariant, LockInv
<1>2. /\ pc'[t] = "append" /\ obtained'[t] = Redeemable(job[t])
      /\ \A u \in Threads \ {t} : pc'[u] = pc[u] /\ pc[u] \notin {"redeem", "append"}
  BY <1>1 DEF Redeem, CheckoutInvariant, LockInv, TypeOK
<1>3. LockInv'
  BY <1>1, <1>2 DEF LockInv
<1>4. FreshInv'
  BY <1>1 DEF CheckoutInvariant, FreshInv, Stored
<1>5. ObtainedInv'
  <2>1. job[t].coupons \subseteq Coupons /\ job[t].order # NoOrder /\ job[t].order \in Orders
    BY <1>1, JobType
  <2>2. \A k \in job[t].coupons :
          k \in Redeemable(job[t]) <=>
            ProductOf[k] \in job[t].cart /\ redeemer'[k] = job[t].order
    BY <1>1, <2>1, RedeemLedger DEF Redeemable, CheckoutInvariant, RedeemerInv
  <2>3. Redeemable(job[t]) \subseteq job[t].coupons
    BY DEF Redeemable
  <2>4. obtained'[t] = {k \in job'[t].coupons : /\ ProductOf[k] \in job'[t].cart
                                                /\ redeemer'[k] = job'[t].order}
    BY <1>1, <1>2, <2>2, <2>3
  <2>5. QED
    BY <1>2, <2>4 DEF ObtainedInv
<1>6. QED
  BY <1>1, <1>3, <1>4, <1>5, RedeemLedger DEF CheckoutInvariant

LEMMA RedeemRaisesStep ==
  ASSUME TypeOK, CheckoutInvariant, NEW t \in Threads, RedeemRaises(t)
  PROVE  CheckoutInvariant'
<1>1. /\ lock = t /\ pc[t] # "idle" /\ Leave(t, "refused")
      /\ UNCHANGED <<issued, store, job, obtained>>
  BY DEF RedeemRaises, CheckoutInvariant, LockInv
<1>2. CASE UNCHANGED redeemer
  BY <1>1, <1>2, LeaveStep
<1>3. CASE RedeemFor(job[t])
  <2>1. RedeemerInv' /\ AppliedInv' /\ OneRecordPerOrder' /\ BoundCouponIsApplied'
    BY <1>1, <1>3, RedeemLedger
  <2>2. /\ lock' = NoThread /\ pc'[t] = "refused"
        /\ \A u \in Threads \ {t} : pc'[u] = pc[u] /\ pc[u] \notin {"redeem", "append"}
    BY <1>1 DEF Leave, CheckoutInvariant, LockInv, TypeOK
  <2>3. LockInv' /\ FreshInv' /\ ObtainedInv'
    BY <2>2, CheckoutAssumption DEF LockInv, FreshInv, ObtainedInv
  <2>4. QED
    BY <2>1, <2>3 DEF CheckoutInvariant
<1>4. QED
  BY <1>2, <1>3 DEF RedeemRaises

LEMMA AppendStep ==
  ASSUME TypeOK, CheckoutInvariant, NEW t \in Threads, Append_(t)
  PROVE  CheckoutInvariant'
<1> DEFINE n == Len(store)
<1>1. /\ lock = t /\ pc[t] = "append" /\ Leave(t, "created")
      /\ UNCHANGED <<redeemer, issued, job, obtained>>
  BY DEF Append_, CheckoutInvariant, LockInv
<1>2. PICK applied \in Applicable(obtained[t]), rec \in Records :
        /\ rec = [order |-> job[t].order, cart |-> job[t].cart,
                  requested |-> job[t].coupons, applied |-> applied]
        /\ store' = Append(store, rec)
  BY RecordAppended
<1>3. /\ n \in Nat /\ Len(store') = n + 1 /\ store'[n + 1] = rec
      /\ \A i \in 1..n : store'[i] = store[i]
  BY <1>2, AppendedRecord DEF TypeOK
<1>4. 1..Len(store') = (1..n) \cup {n + 1}
  BY <1>3
<1>5. obtained[t] = {k \in job[t].coupons : /\ ProductOf[k] \in job[t].cart
                                            /\ redeemer[k] = job[t].order}
  BY <1>1 DEF CheckoutInvariant, ObtainedInv
<1>6. /\ applied \subseteq obtained[t]
      /\ \A k \in obtained[t] \cap Usable : \E j \in applied : ProductOf[j] = ProductOf[k]
  BY ApplicableProperties DEF TypeOK
<1>7. \A i \in 1..n : store[i].order # rec.order
  BY <1>1, <1>2 DEF CheckoutInvariant, FreshInv, Stored
<1> HIDE DEF n
<1>8. /\ lock' = NoThread /\ pc'[t] = "created"
      /\ \A u \in Threads \ {t} : pc'[u] = pc[u] /\ pc[u] \notin {"redeem", "append"}
  BY <1>1 DEF Leave, CheckoutInvariant, LockInv, TypeOK
<1>9. LockInv' /\ FreshInv' /\ ObtainedInv'
  BY <1>8, CheckoutAssumption DEF LockInv, FreshInv, ObtainedInv
<1>10. RedeemerInv'
  BY <1>1 DEF CheckoutInvariant, RedeemerInv
<1>11. AppliedInv'
  <2>1. \A k \in rec.applied : redeemer[k] = rec.order /\ ProductOf[k] \in rec.cart
    BY <1>2, <1>5, <1>6
  <2>2. QED
    BY <1>1, <1>3, <1>4, <2>1 DEF CheckoutInvariant, AppliedInv, n
<1>12. OneRecordPerOrder'
  BY <1>3, <1>4, <1>7 DEF CheckoutInvariant, OneRecordPerOrder, n
<1>13. BoundCouponIsApplied'
  <2>1. \A k \in rec.requested \cap Usable :
          redeemer[k] = rec.order /\ ProductOf[k] \in rec.cart
            => \E j \in rec.applied : ProductOf[j] = ProductOf[k]
    BY <1>2, <1>5, <1>6
  <2>2. QED
    BY <1>1, <1>3, <1>4, <2>1 DEF CheckoutInvariant, BoundCouponIsApplied, n
<1>14. QED
  BY <1>9, <1>10, <1>11, <1>12, <1>13 DEF CheckoutInvariant

LEMMA EnterStep ==
  ASSUME TypeOK, CheckoutInvariant, NEW t \in Threads, Enter(t)
  PROVE  CheckoutInvariant'
<1>1. /\ lock = NoThread /\ pc[t] = "enter"
      /\ UNCHANGED <<redeemer, issued, store, job, obtained>>
  BY DEF Enter
<1>2. CASE torn \/ job[t].order \in Stored
  BY <1>1, <1>2, LeaveStep DEF Enter
<1>3. CASE ~(torn \/ job[t].order \in Stored)
  <2>1. lock' = t /\ pc' = [pc EXCEPT ![t] = "redeem"]
    BY <1>3 DEF Enter
  <2>2. \A u \in Threads : pc[u] \notin {"redeem", "append"}
    BY <1>1, CheckoutAssumption DEF CheckoutInvariant, LockInv
  <2>3. pc'[t] = "redeem" /\ \A u \in Threads \ {t} : pc'[u] = pc[u]
    BY <2>1 DEF TypeOK
  <2>4. LockInv' /\ ObtainedInv'
    BY <2>1, <2>2, <2>3 DEF LockInv, ObtainedInv
  <2>5. FreshInv'
    BY <1>1, <1>3, <2>1 DEF FreshInv, Stored
  <2>6. RedeemerInv' /\ AppliedInv' /\ OneRecordPerOrder' /\ BoundCouponIsApplied'
    BY <1>1 DEF CheckoutInvariant, RedeemerInv, AppliedInv, OneRecordPerOrder,
                BoundCouponIsApplied
  <2>7. QED
    BY <2>4, <2>5, <2>6 DEF CheckoutInvariant
<1>4. QED
  BY <1>2, <1>3

LEMMA CrashStep ==
  ASSUME TypeOK, CheckoutInvariant, Crash
  PROVE  CheckoutInvariant'
<1>1. /\ lock' = NoThread /\ \A t \in Threads : pc'[t] = "idle"
      /\ UNCHANGED <<redeemer, issued, store>>
  BY DEF Crash
<1>2. LockInv' /\ FreshInv' /\ ObtainedInv'
  BY <1>1, CheckoutAssumption DEF LockInv, FreshInv, ObtainedInv
<1>3. RedeemerInv' /\ AppliedInv' /\ OneRecordPerOrder' /\ BoundCouponIsApplied'
  BY <1>1 DEF CheckoutInvariant, RedeemerInv, AppliedInv, OneRecordPerOrder,
              BoundCouponIsApplied
<1>4. QED
  BY <1>2, <1>3 DEF CheckoutInvariant

LEMMA InvariantInit == Init => CheckoutInvariant
<1> SUFFICES ASSUME Init PROVE CheckoutInvariant
  OBVIOUS
<1>1. 1..Len(store) = {}
  BY EmptySeq DEF Init
<1>2. LockInv /\ FreshInv /\ RedeemerInv /\ ObtainedInv
  BY CheckoutAssumption DEF Init, LockInv, FreshInv, RedeemerInv, ObtainedInv
<1>3. AppliedInv /\ OneRecordPerOrder /\ BoundCouponIsApplied
  BY <1>1 DEF AppliedInv, OneRecordPerOrder, BoundCouponIsApplied
<1>4. QED
  BY <1>2, <1>3 DEF CheckoutInvariant

LEMMA InvariantStep == TypeOK /\ CheckoutInvariant /\ [Next]_vars => CheckoutInvariant'
<1> SUFFICES ASSUME TypeOK, CheckoutInvariant, [Next]_vars PROVE CheckoutInvariant'
  OBVIOUS
<1>1. ASSUME NEW k \in Coupons, Issue(k) PROVE CheckoutInvariant'
  BY <1>1, OutsideStep DEF Issue
<1>2. ASSUME NEW s \in Sessions, NEW b \in Baskets, NEW t \in Threads, Submit(s, b, t)
      PROVE  CheckoutInvariant'
  <2>1. /\ pc[t] = "idle" /\ pc'[t] = "enter"
        /\ \A u \in Threads \ {t} : pc'[u] = pc[u] /\ job'[u] = job[u]
    BY <1>2 DEF Submit, TypeOK
  <2>2. UNCHANGED <<redeemer, issued, store, lock, obtained>>
    BY <1>2 DEF Submit
  <2>3. QED
    BY <2>1, <2>2, OutsideStep
<1>3. ASSUME NEW t \in Threads, Enter(t) PROVE CheckoutInvariant'
  BY <1>3, EnterStep
<1>4. ASSUME NEW t \in Threads, Redeem(t) PROVE CheckoutInvariant'
  BY <1>4, RedeemStep
<1>5. ASSUME NEW t \in Threads, Append_(t) PROVE CheckoutInvariant'
  BY <1>5, AppendStep
<1>6. ASSUME NEW t \in Threads, Reply(t) \/ ReplyLost(t) PROVE CheckoutInvariant'
  <2>1. /\ pc[t] \notin {"redeem", "append"} /\ pc'[t] = "idle"
        /\ \A u \in Threads \ {t} : /\ pc'[u] = pc[u] /\ job'[u] = job[u]
                                    /\ obtained'[u] = obtained[u]
    BY <1>6 DEF Reply, ReplyLost, Done, TypeOK
  <2>2. UNCHANGED <<redeemer, issued, store, lock>>
    BY <1>6 DEF Reply, ReplyLost
  <2>3. QED
    BY <2>1, <2>2, OutsideStep
<1>7. ASSUME NEW t \in Threads, RedeemRaises(t) PROVE CheckoutInvariant'
  BY <1>7, RedeemRaisesStep
<1>8. ASSUME NEW t \in Threads, AppendRaises(t) PROVE CheckoutInvariant'
  <2>1. lock = t /\ Leave(t, "refused") /\ UNCHANGED <<redeemer, issued, store, job, obtained>>
    BY <1>8 DEF AppendRaises, CheckoutInvariant, LockInv
  <2>2. QED
    BY <2>1, LeaveStep
<1>9. CASE Crash
  BY <1>9, CrashStep
<1>10. CASE UNCHANGED vars
  BY <1>10, OutsideStep DEF vars
<1>11. QED
  BY <1>1, <1>2, <1>3, <1>4, <1>5, <1>6, <1>7, <1>8, <1>9, <1>10
  DEF Next, Works, Fails

LEMMA AppliedOnce == TypeOK /\ CheckoutInvariant => CouponUsedOnce
<1> SUFFICES ASSUME TypeOK, CheckoutInvariant PROVE CouponUsedOnce
  OBVIOUS
<1>1. ASSUME NEW i \in 1..Len(store), NEW j \in 1..Len(store), NEW k \in store[i].applied
      PROVE  /\ Holder[k] = Shopper[store[i].order]
             /\ k \in store[j].applied => i = j
  <2>1. k \in Coupons /\ redeemer[k] = store[i].order /\ store[i].order # NoOrder
    BY <1>1, StoredRecord DEF CheckoutInvariant, AppliedInv
  <2>2. Holder[k] = Shopper[store[i].order]
    BY <2>1 DEF CheckoutInvariant, RedeemerInv
  <2>3. k \in store[j].applied => store[j].order = store[i].order
    BY <2>1 DEF CheckoutInvariant, AppliedInv
  <2>4. QED
    BY <2>2, <2>3 DEF CheckoutInvariant, OneRecordPerOrder
<1>2. QED
  BY <1>1 DEF CouponUsedOnce

-----------------------------------------------------------------------------
(* Theorems.                                                               *)

(* The lock, the file and the ledger agree at every step; in particular    *)
(* the file has each order once, and a coupon an earlier attempt redeemed  *)
(* for the order gives its discount in the attempt that is stored.         *)
THEOREM CheckoutIsCorrect == Spec => []CheckoutInvariant
<1>1. Init => TypeOK /\ CheckoutInvariant
  BY TypeInit, InvariantInit
<1>2. TypeOK /\ CheckoutInvariant /\ [Next]_vars => (TypeOK /\ CheckoutInvariant)'
  BY TypeStep, InvariantStep
<1>3. QED
  BY <1>1, <1>2, PTL DEF Spec

(* However often an order is submitted, and wherever a request fails, the  *)
(* file has one record of it.                                              *)
THEOREM OrdersAreStoredOnce == Spec => []OneRecordPerOrder
<1>1. CheckoutInvariant => OneRecordPerOrder
  BY DEF CheckoutInvariant
<1>2. QED
  BY <1>1, CheckoutIsCorrect, PTL

(* A requested coupon that any attempt of the order redeemed gives its     *)
(* product the discount in the record, also when the attempt that stored   *)
(* the order is a later one.                                               *)
THEOREM BoundCouponsAreApplied == Spec => []BoundCouponIsApplied
<1>1. CheckoutInvariant => BoundCouponIsApplied
  BY DEF CheckoutInvariant
<1>2. QED
  BY <1>1, CheckoutIsCorrect, PTL

(* No coupon gives its discount twice or to another session, although      *)
(* redeeming it and storing the order may fail one without the other and   *)
(* the same order may be submitted again at any time.                      *)
THEOREM CouponsAreUsedOnce == Spec => []CouponUsedOnce
<1>1. Init => TypeOK /\ CheckoutInvariant
  BY TypeInit, InvariantInit
<1>2. TypeOK /\ CheckoutInvariant /\ [Next]_vars => (TypeOK /\ CheckoutInvariant)'
  BY TypeStep, InvariantStep
<1>3. QED
  BY <1>1, <1>2, AppliedOnce, PTL DEF Spec

LEMMA RedeemerKept ==
  TypeOK /\ CheckoutInvariant /\ [Next]_vars
    => \A k \in Coupons : redeemer[k] # NoOrder => redeemer'[k] = redeemer[k]
<1> SUFFICES ASSUME TypeOK, CheckoutInvariant, [Next]_vars
             PROVE  \A k \in Coupons : redeemer[k] # NoOrder => redeemer'[k] = redeemer[k]
  OBVIOUS
<1>1. ASSUME NEW t \in Threads, Redeem(t) \/ RedeemRaises(t), RedeemFor(job[t])
      PROVE  \A k \in Coupons : redeemer[k] # NoOrder => redeemer'[k] = redeemer[k]
  <2>1. lock = t /\ pc[t] # "idle" /\ UNCHANGED <<issued, store>>
    BY <1>1 DEF Redeem, RedeemRaises, CheckoutInvariant, LockInv
  <2>2. QED
    BY <1>1, <2>1, RedeemLedger
<1>2. \/ UNCHANGED redeemer
      \/ \E t \in Threads : (Redeem(t) \/ RedeemRaises(t)) /\ RedeemFor(job[t])
  BY DEF Next, Works, Fails, Issue, Submit, Enter, Redeem, Append_, Reply, RedeemRaises,
         AppendRaises, ReplyLost, Crash, vars
<1>3. QED
  BY <1>1, <1>2

(* Once redeemed for an order a coupon is redeemed for that order for good *)
(* (until the ledger is reset).                                            *)
THEOREM RedemptionsAreFinal == Spec => RedemptionIsFinal
<1>1. Init => TypeOK /\ CheckoutInvariant
  BY TypeInit, InvariantInit
<1>2. TypeOK /\ CheckoutInvariant /\ [Next]_vars => (TypeOK /\ CheckoutInvariant)'
  BY TypeStep, InvariantStep
<1>3. TypeOK /\ CheckoutInvariant /\ [Next]_vars
        => [\A k \in Coupons : redeemer[k] # NoOrder => redeemer'[k] = redeemer[k]]_vars
  BY RedeemerKept
<1>4. QED
  BY <1>1, <1>2, <1>3, PTL DEF Spec, RedemptionIsFinal
=============================================================================

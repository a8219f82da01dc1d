------------------------ MODULE CouponPipelineProofs ------------------------
(***************************************************************************)
(* What holds of the coupon pipeline for every number of sessions,         *)
(* products, partitions, consumers, events and faults; and what its offers *)
(* are as long as there was no fault.                                      *)
(***************************************************************************)
EXTENDS CouponPipeline, SequenceTheorems, FiniteSetTheorems, TLAPS

-----------------------------------------------------------------------------
(* The engine's sequence of remembered sessions.                           *)

LEMMA EvictType ==
  ASSUME NEW seq \in Seq(Sessions), seq # <<>>
  PROVE  EvictOldest(seq) \in Seq(Sessions)
BY HeadTailProperties DEF EvictOldest

LEMMA TouchType ==
  ASSUME NEW seq \in Seq(Sessions), NEW s \in Sessions
  PROVE  Touch(seq, s) \in Seq(Sessions)
<1> DEFINE others == IF \E i \in 1..Len(seq) : seq[i] = s
                       THEN RemoveAt(seq, CHOOSE i \in 1..Len(seq) : seq[i] = s)
                       ELSE seq
<1>1. ASSUME NEW i \in 1..Len(seq) PROVE RemoveAt(seq, i) \in Seq(Sessions)
  <2>1. Len(seq) \in Nat /\ \A j \in 1..Len(seq) : seq[j] \in Sessions
    BY LenProperties, ElementOfSeq
  <2>2. SubSeq(seq, 1, i - 1) \in Seq(Sessions)
    BY <2>1, SubSeqProperties
  <2>3. SubSeq(seq, i + 1, Len(seq)) \in Seq(Sessions)
    BY <2>1, SubSeqProperties
  <2>4. QED
    BY <2>2, <2>3, ConcatProperties DEF RemoveAt
<1>2. others \in Seq(Sessions)
  BY <1>1
<1> HIDE DEF others
<1>3. Append(others, s) \in Seq(Sessions) /\ Append(others, s) # <<>>
  BY <1>2, AppendProperties
<1>4. EvictOldest(Append(others, s)) \in Seq(Sessions)
  BY <1>3, EvictType
<1>5. QED
  BY <1>4 DEF Touch, others

-----------------------------------------------------------------------------
(* The log only grows, and an event never changes.                         *)

LEMMA PublishedIsId ==
  ASSUME TypeOK, NEW id \in Published
  PROVE  /\ id[1] \in Partitions /\ id[2] \in 1..Len(log[id[1]])
         /\ id = <<id[1], id[2]>>
         /\ id \in Ids /\ id # NoId
         /\ Event(id) \in Events
         /\ OfferOf(id) \in Offers
<1>1. id[1] \in Partitions /\ id[2] \in 1..Len(log[id[1]]) /\ id = <<id[1], id[2]>>
  BY DEF Published
<1>2. log[id[1]] \in Seq(Events)
  BY <1>1 DEF TypeOK
<1>3. Event(id) \in Events
  BY <1>1, <1>2, ElementOfSeq DEF Event
<1>4. id \in Ids
  BY <1>1, <1>2, LenProperties DEF Ids
<1>5. OfferOf(id) \in Offers
  BY <1>3 DEF OfferOf, Offers, Events
<1>6. QED
  BY <1>1, <1>3, <1>4, <1>5, PipelineAssumption

LEMMA SameLog ==
  ASSUME UNCHANGED log
  PROVE  /\ Published' = Published
         /\ \A id : Event(id)' = Event(id) /\ OfferOf(id)' = OfferOf(id)
BY DEF Published, Event, OfferOf

(* What a stimulus is, and what publishing it appends. *)
LEMMA PublishedEvent ==
  ASSUME TypeOK, NEW e \in Traffic, Publish(e)
  PROVE  /\ e \in Stimuli /\ e.session \in Sessions
         /\ PartitionOf[e.session] \in Partitions
         /\ \E ev \in Events :
              log' = [log EXCEPT ![PartitionOf[e.session]] = Append(@, ev)]
<1>1. /\ e \in Stimuli /\ e.session \in Sessions /\ e.kind \in Kinds
      /\ e.product \in Products /\ e.dwelt \in BOOLEAN
  BY PipelineAssumption DEF Stimuli
<1>2. PartitionOf[e.session] \in Partitions
  BY <1>1, PipelineAssumption
<1>3. told[e.session] \subseteq Products
  BY <1>1 DEF TypeOK
<1>4. Told(told[e.session], e) \subseteq Products
  BY <1>1, <1>3 DEF Told
<1> DEFINE units == Basket(basket[e.session], e)
           ev == [kind |-> e.kind, session |-> e.session, product |-> e.product,
                  dwelt |-> e.dwelt, told |-> Told(told[e.session], e),
                  held |-> {q \in Products : units[q] > 0}]
<1>5. ev \in Events
  BY <1>1, <1>4 DEF Events
<1>6. log' = [log EXCEPT ![PartitionOf[e.session]] = Append(@, ev)]
  BY DEF Publish
<1>7. QED
  BY <1>1, <1>2, <1>5, <1>6

LEMMA LogGrows ==
  ASSUME TypeOK, NEW e \in Traffic, Publish(e)
  PROVE  /\ log' \in [Partitions -> Seq(Events)]
         /\ \A p \in Partitions : Len(log'[p]) >= Len(log[p])
         /\ Published \subseteq Published'
         /\ \A id \in Published : Event(id)' = Event(id) /\ OfferOf(id)' = OfferOf(id)
<1> DEFINE q == PartitionOf[e.session]
<1>1. PICK ev \in Events : log' = [log EXCEPT ![q] = Append(@, ev)]
  BY PublishedEvent
<1>2. q \in Partitions /\ log \in [Partitions -> Seq(Events)]
  BY PublishedEvent DEF TypeOK
<1> HIDE DEF q
<1>3. /\ Append(log[q], ev) \in Seq(Events)
      /\ Len(Append(log[q], ev)) = Len(log[q]) + 1
      /\ \A i \in 1..Len(log[q]) : Append(log[q], ev)[i] = log[q][i]
  BY <1>2, AppendProperties
<1>4. log' \in [Partitions -> Seq(Events)]
  BY <1>1, <1>2, <1>3
<1>5. \A p \in Partitions : /\ Len(log[p]) \in Nat /\ Len(log'[p]) \in Nat
                            /\ Len(log'[p]) >= Len(log[p])
                            /\ \A i \in 1..Len(log[p]) : log'[p][i] = log[p][i]
  <2> SUFFICES ASSUME NEW p \in Partitions
               PROVE  /\ Len(log[p]) \in Nat /\ Len(log'[p]) \in Nat
                      /\ Len(log'[p]) >= Len(log[p])
                      /\ \A i \in 1..Len(log[p]) : log'[p][i] = log[p][i]
    OBVIOUS
  <2>1. Len(log[p]) \in Nat
    BY <1>2, LenProperties
  <2>2. CASE p = q
    BY <1>1, <1>2, <1>3, <2>1, <2>2
  <2>3. CASE p # q
    BY <1>1, <1>2, <2>1, <2>3
  <2>4. QED
    BY <2>2, <2>3
<1>6. \A id \in Published : id[1] \in Partitions /\ id[2] \in 1..Len(log[id[1]])
                            /\ id = <<id[1], id[2]>>
  BY DEF Published
<1>7. Published \subseteq Published'
  BY <1>5 DEF Published
<1>8. \A id \in Published : Event(id)' = Event(id)
  BY <1>5, <1>6 DEF Event
<1>9. QED
  BY <1>4, <1>5, <1>7, <1>8 DEF OfferOf

-----------------------------------------------------------------------------
(* Type correctness, with what a consumer carries at each of its steps.    *)

USE DEF shopperVars, groupVars, redisVars, engineVars, historyVars

LEMMA TypeInit == Init => TypeOK /\ ControlInv
<1> SUFFICES ASSUME Init PROVE TypeOK /\ ControlInv
  OBVIOUS
<1>1. TypeOK
  <2>1. log \in [Partitions -> Seq(Events)] /\ users \in [Consumers -> Seq(Sessions)]
    BY EmptySeq DEF Init
  <2>2. pc \in [Consumers -> Steps]
    BY DEF Init, Steps
  <2>3. QED
    BY <2>1, <2>2 DEF Init, TypeOK
<1>2. ControlInv
  BY DEF Init, ControlInv, Idle, Delivering
<1>3. QED
  BY <1>1, <1>2

LEMMA ExitType ==
  ASSUME TypeOK, ControlInv, NEW c \in Consumers, Exit(c), UNCHANGED log
  PROVE  /\ pc' \in [Consumers -> Steps]
         /\ at' \in [Consumers -> Published' \cup {NoId}]
         /\ support' \in [Consumers -> Products \cup {NoProduct}]
         /\ users' \in [Consumers -> Seq(Sessions)]
         /\ carts' \in [Consumers -> [Sessions -> SUBSET Products]]
         /\ fenced' \subseteq Consumers
         /\ owner' \in [Partitions -> Consumers \cup {NoConsumer}]
         /\ ControlInv'
<1>1. Published' = Published
  BY SameLog
<1>2. <<>> \in Seq(Sessions)
  BY EmptySeq
<1>3. ControlInv'
  BY DEF Exit, TypeOK, ControlInv, Idle, Delivering, Steps
<1>4. QED
  BY <1>1, <1>2, <1>3 DEF Exit, TypeOK, Steps

(* The event a busy consumer works on. *)
LEMMA BusyEvent ==
  ASSUME TypeOK, ControlInv, NEW c \in Consumers, ~Idle(c)
  PROVE  /\ at[c] \in Published
         /\ Event(at[c]) \in Events /\ OfferOf(at[c]) \in Offers
<1>1. at[c] \in Published
  BY DEF TypeOK, ControlInv
<1>2. QED
  BY <1>1, PublishedIsId

LEMMA RecordedType ==
  ASSUME TypeOK, NEW id \in Published, NEW kind \in {"received", "announced", "suppressed"},
         Recorded(kind, id)
  PROVE  activity' \in [received : SUBSET Published, announced : SUBSET Published,
                        suppressed : SUBSET Published]
BY DEF TypeOK, Recorded

LEMMA AbandonType ==
  ASSUME TypeOK, ControlInv, NEW c \in Consumers, Abandon(c)
  PROVE  abandoned' \subseteq Published
<1>1. CASE Delivering(c)
  <2>1. at[c] \in Published
    BY <1>1, BusyEvent DEF ControlInv, Idle
  <2>2. QED
    BY <2>1 DEF Abandon, TypeOK
<1>2. CASE ~Delivering(c)
  BY <1>2 DEF Abandon, TypeOK, Delivering
<1>3. QED
  BY <1>1, <1>2

LEMMA PublishType ==
  ASSUME TypeOK, ControlInv, NEW e \in Traffic, Publish(e)
  PROVE  TypeOK' /\ ControlInv'
<1>1. /\ e.session \in Sessions /\ e.product \in Products
  BY PublishedEvent DEF Stimuli
<1>2. basket' \in [Sessions -> [Products -> Nat]]
  <2>1. basket[e.session] \in [Products -> Nat]
    BY <1>1 DEF TypeOK
  <2>2. Basket(basket[e.session], e) \in [Products -> Nat]
    <3>1. MaxQuantity \in Nat
      BY PipelineAssumption
    <3>2. e.kind = "cart_item_removed" => basket[e.session][e.product] - 1 \in Nat
      BY <1>1, <2>1 DEF Publish, CanDo
    <3>3. QED
      BY <1>1, <2>1, <3>1, <3>2 DEF Basket
  <2>3. basket' = [basket EXCEPT ![e.session] = Basket(basket[e.session], e)]
    BY DEF Publish
  <2>4. QED
    BY <1>1, <2>2, <2>3 DEF TypeOK
<1>3. told' \in [Sessions -> SUBSET Products]
  BY <1>1 DEF Publish, TypeOK, Told
<1>4. log' \in [Partitions -> Seq(Events)] /\ Published \subseteq Published'
  BY LogGrows
<1>5. TypeOK'
  BY <1>2, <1>3, <1>4 DEF Publish, TypeOK
<1>6. ControlInv'
  BY DEF Publish, ControlInv, Idle, Delivering
<1>7. QED
  BY <1>5, <1>6

(* The two outcomes of an evaluation: the offer is claimed, or nothing but *)
(* the engine changes.                                                     *)
LEMMA EvaluateOutcome ==
  ASSUME TypeOK, ControlInv, NEW c \in Consumers, Evaluate(c)
  PROVE  \/ /\ claims[OfferOf(at[c])] = NoId
            /\ claims' = [claims EXCEPT ![OfferOf(at[c])] = at[c]]
            /\ \E item \in Products : support' = [support EXCEPT ![c] = item]
            /\ aborted' = aborted \ {at[c]}
         \/ UNCHANGED <<claims, support, aborted>>
<1> DEFINE supports == SupportFor(carts[c][Event(at[c]).session], Event(at[c]))
<1>1. Event(at[c]).session \in Sessions
  BY BusyEvent DEF Evaluate, Idle, Events
<1>2. supports \subseteq Products
  BY <1>1 DEF SupportFor, Strongest, TypeOK
<1> HIDE DEF supports
<1>3. IF supports # {} /\ claims[OfferOf(at[c])] = NoId
        THEN /\ claims' = [claims EXCEPT ![OfferOf(at[c])] = at[c]]
             /\ \E item \in supports : support' = [support EXCEPT ![c] = item]
             /\ aborted' = aborted \ {at[c]}
        ELSE UNCHANGED <<claims, support, aborted>>
  BY DEF Evaluate, supports
<1>4. QED
  BY <1>2, <1>3

LEMMA EvaluateType ==
  ASSUME TypeOK, ControlInv, NEW c \in Consumers, Evaluate(c)
  PROVE  TypeOK' /\ ControlInv'
<1> DEFINE e == Event(at[c])
<1>1. /\ at[c] \in Published /\ OfferOf(at[c]) \in Offers
      /\ e.session \in Sessions /\ e.product \in Products
  BY BusyEvent DEF Evaluate, Idle, Events
<1>2. Published' = Published
  BY SameLog DEF Evaluate
<1> HIDE DEF e
<1>3. users' \in [Consumers -> Seq(Sessions)]
  <2>1. Touch(users[c], e.session) \in Seq(Sessions)
    BY <1>1, TouchType DEF TypeOK
  <2>2. users' = [users EXCEPT ![c] = Touch(users[c], e.session)] \/ users' = users
    BY DEF Evaluate, Remember, e
  <2>3. QED
    BY <2>1, <2>2 DEF TypeOK
<1>4. carts' \in [Consumers -> [Sessions -> SUBSET Products]]
  <2> DEFINE kept == Touch(users[c], e.session)
             applied == [carts[c] EXCEPT ![e.session] = CartAfter(@, e)]
             cart == [s \in Sessions |-> IF s \in ToSet(kept) THEN applied[s] ELSE {}]
  <2>1. carts[c] \in [Sessions -> SUBSET Products]
    BY DEF TypeOK
  <2>2. CartAfter(carts[c][e.session], e) \subseteq Products
    BY <1>1, <2>1 DEF CartAfter
  <2>3. applied \in [Sessions -> SUBSET Products]
    BY <2>1, <2>2
  <2>4. cart \in [Sessions -> SUBSET Products]
    BY <2>3
  <2>5. carts' = [carts EXCEPT ![c] = cart] \/ carts' = carts
    BY DEF Evaluate, Remember, e
  <2>6. QED
    BY <2>4, <2>5 DEF TypeOK
<1>5. /\ claims' \in [Offers -> Published \cup {NoId}]
      /\ support' \in [Consumers -> Products \cup {NoProduct}]
      /\ aborted' \subseteq Published
  BY <1>1, EvaluateOutcome DEF TypeOK
<1>6. pc' = [pc EXCEPT ![c] = "receive"] /\ at' = at /\ pc[c] = "evaluate"
  BY DEF Evaluate
<1>7. \A d \in Consumers \ {c} : support'[d] = support[d]
  BY EvaluateOutcome DEF TypeOK
<1>8. TypeOK'
  BY <1>2, <1>3, <1>4, <1>5, <1>6 DEF Evaluate, TypeOK, Steps
<1>9. ControlInv'
  BY <1>6, <1>7 DEF TypeOK, ControlInv, Idle, Delivering
<1>10. QED
  BY <1>8, <1>9

LEMMA TypeStep == TypeOK /\ ControlInv /\ [Next]_vars => TypeOK' /\ ControlInv'
<1> SUFFICES ASSUME TypeOK, ControlInv, [Next]_vars PROVE TypeOK' /\ ControlInv'
  OBVIOUS
<1> USE DEF Idle, Delivering
<1>1. ASSUME NEW e \in Traffic, Publish(e) PROVE TypeOK' /\ ControlInv'
  BY <1>1, PublishType
<1>2. CASE Assign
  <2>1. Published' = Published
    BY <1>2, SameLog DEF Assign
  <2>2. owner' \in [Partitions -> Consumers \cup {NoConsumer}]
    BY <1>2 DEF Assign, Joined
  <2>3. QED
    BY <1>2, <2>1, <2>2 DEF Assign, TypeOK, ControlInv
<1>3. CASE Rebalance
  <2>1. Published' = Published
    BY <1>3, SameLog DEF Rebalance
  <2>2. owner' \in [Partitions -> Consumers \cup {NoConsumer}]
    BY <1>3 DEF Rebalance, Joined
  <2>3. fenced' \subseteq Consumers /\ faults' \in Nat
    BY <1>3 DEF Rebalance, Busy, Fault, TypeOK
  <2>4. QED
    BY <1>3, <2>1, <2>2, <2>3 DEF Rebalance, TypeOK, ControlInv
<1>4. CASE FreshGroup
  <2>1. Published' = Published
    BY <1>4, SameLog DEF FreshGroup
  <2>2. committed' \in [Partitions -> Nat] /\ faults' \in Nat
    BY <1>4 DEF FreshGroup, Fault, TypeOK
  <2>3. QED
    BY <1>4, <2>1, <2>2 DEF FreshGroup, TypeOK, ControlInv
<1>5. ASSUME NEW c \in Consumers, Start(c) PROVE TypeOK' /\ ControlInv'
  <2>1. Published' = Published
    BY <1>5, SameLog DEF Start
  <2>2. QED
    BY <1>5, <2>1 DEF Start, TypeOK, ControlInv, Steps
<1>6. ASSUME NEW c \in Consumers, Poll(c) PROVE TypeOK' /\ ControlInv'
  <2>1. Published' = Published
    BY <1>6, SameLog DEF Poll
  <2>2. PICK p \in Partitions : /\ committed[p] < Len(log[p])
                                /\ at' = [at EXCEPT ![c] = <<p, committed[p] + 1>>]
    BY <1>6 DEF Poll
  <2>3. <<p, committed[p] + 1>> \in Published
    <3>1. committed[p] \in Nat /\ Len(log[p]) \in Nat
      BY LenProperties DEF TypeOK
    <3>2. committed[p] + 1 \in 1..Len(log[p])
      BY <2>2, <3>1
    <3>3. QED
      BY <3>2 DEF Published
  <2>4. <<p, committed[p] + 1>> # NoId
    BY <2>3, PublishedIsId
  <2>5. QED
    BY <1>6, <2>1, <2>2, <2>3, <2>4 DEF Poll, TypeOK, ControlInv, Steps
<1>7. ASSUME NEW c \in Consumers, Evaluate(c) PROVE TypeOK' /\ ControlInv'
  BY <1>7, EvaluateType
<1>8. ASSUME NEW c \in Consumers, Receive(c) PROVE TypeOK' /\ ControlInv'
  <2>1. Published' = Published /\ at[c] \in Published
    BY <1>8, SameLog, BusyEvent DEF Receive
  <2>2. activity' \in [received : SUBSET Published, announced : SUBSET Published,
                       suppressed : SUBSET Published]
    BY <1>8, <2>1, RecordedType DEF Receive
  <2>3. QED
    BY <1>8, <2>1, <2>2 DEF Receive, TypeOK, ControlInv, Steps
<1>9. ASSUME NEW c \in Consumers, Send(c) PROVE TypeOK' /\ ControlInv'
  <2>1. Published' = Published /\ at[c] \in Published
    BY <1>9, SameLog, BusyEvent DEF Send
  <2>2. support[c] \in Products
    BY <1>9 DEF Send, TypeOK, ControlInv
  <2>3. QED
    BY <1>9, <2>1, <2>2 DEF Send, TypeOK, ControlInv, Steps
<1>10. ASSUME NEW c \in Consumers, Issue(c) PROVE TypeOK' /\ ControlInv'
  <2>1. Published' = Published /\ at[c] \in Published
    BY <1>10, SameLog, BusyEvent DEF Issue
  <2>2. QED
    BY <1>10, <2>1 DEF Issue, TypeOK, ControlInv, Steps
<1>11. ASSUME NEW c \in Consumers, Announce(c) PROVE TypeOK' /\ ControlInv'
  <2>1. Published' = Published /\ at[c] \in Published
    BY <1>11, SameLog, BusyEvent DEF Announce
  <2>2. activity' \in [received : SUBSET Published, announced : SUBSET Published,
                       suppressed : SUBSET Published]
    BY <1>11, <2>1, RecordedType DEF Announce
  <2>3. QED
    BY <1>11, <2>1, <2>2 DEF Announce, TypeOK, ControlInv, Steps
<1>12. ASSUME NEW c \in Consumers, Suppress(c) PROVE TypeOK' /\ ControlInv'
  <2>1. Published' = Published /\ at[c] \in Published
    BY <1>12, SameLog, BusyEvent DEF Suppress
  <2>2. activity' \in [received : SUBSET Published, announced : SUBSET Published,
                       suppressed : SUBSET Published]
    BY <1>12, <2>1, RecordedType DEF Suppress
  <2>3. QED
    BY <1>12, <2>1, <2>2 DEF Suppress, TypeOK, ControlInv, Steps
<1>13. ASSUME NEW c \in Consumers, Commit(c) PROVE TypeOK' /\ ControlInv'
  <2>1. Published' = Published /\ at[c] \in Published
    BY <1>13, SameLog, BusyEvent DEF Commit
  <2>2. committed' \in [Partitions -> Nat]
    BY <1>13, <2>1, PublishedIsId DEF Commit, TypeOK, Ids
  <2>3. QED
    BY <1>13, <2>1, <2>2 DEF Commit, TypeOK, ControlInv, Steps
<1>14. ASSUME NEW c \in Consumers, CommitRefused(c) PROVE TypeOK' /\ ControlInv'
  <2>1. Published' = Published
    BY <1>14, SameLog DEF CommitRefused
  <2>2. Exit(c) /\ UNCHANGED log
    BY <1>14 DEF CommitRefused
  <2>3. QED
    BY <1>14, <2>1, <2>2, ExitType DEF CommitRefused, TypeOK
<1>15. ASSUME NEW c \in Consumers, Release(c) PROVE TypeOK' /\ ControlInv'
  <2>1. Published' = Published /\ at[c] \in Published
    BY <1>15, SameLog, BusyEvent DEF Release
  <2>2. Exit(c) /\ UNCHANGED log
    BY <1>15 DEF Release
  <2>3. QED
    BY <1>15, <2>1, <2>2, ExitType DEF Release, TypeOK
<1>16. ASSUME NEW c \in Consumers, Kill(c) PROVE TypeOK' /\ ControlInv'
  <2>1. Published' = Published
    BY <1>16, SameLog DEF Kill
  <2>2. Exit(c) /\ UNCHANGED log
    BY <1>16 DEF Kill
  <2>3. abandoned' \subseteq Published /\ faults' \in Nat
    BY <1>16, AbandonType DEF Kill, Fault, TypeOK
  <2>4. QED
    BY <1>16, <2>1, <2>2, <2>3, ExitType DEF Kill, TypeOK
<1>17. ASSUME NEW c \in Consumers, EvaluateRaises(c) PROVE TypeOK' /\ ControlInv'
  <2>1. /\ Published' = Published
        /\ at[c] \in Published /\ OfferOf(at[c]) \in Offers
    BY <1>17, SameLog, BusyEvent DEF EvaluateRaises
  <2>2. Exit(c) /\ UNCHANGED log
    BY <1>17 DEF EvaluateRaises
  <2>3. /\ claims' \in [Offers -> Published \cup {NoId}]
        /\ aborted' \subseteq Published /\ abandoned' \subseteq Published
        /\ faults' \in Nat
    <3>1. /\ claims' = claims \/ claims' = [claims EXCEPT ![OfferOf(at[c])] = at[c]]
          /\ aborted' = aborted \/ aborted' = aborted \ {at[c]}
          /\ abandoned' = abandoned \/ abandoned' = abandoned \cup {at[c]}
          /\ faults' = faults + 1
      BY <1>17 DEF EvaluateRaises, Fault
    <3>2. claims' \in [Offers -> Published \cup {NoId}]
      BY <2>1, <3>1 DEF TypeOK
    <3>3. QED
      BY <2>1, <3>1, <3>2 DEF TypeOK
  <2>4. QED
    BY <1>17, <2>1, <2>2, <2>3, ExitType DEF EvaluateRaises, TypeOK
<1>18. ASSUME NEW c \in Consumers, StepRaises(c) PROVE TypeOK' /\ ControlInv'
  <2>1. Published' = Published /\ at[c] \in Published
    BY <1>18, SameLog, BusyEvent DEF StepRaises
  <2>2. Exit(c) /\ UNCHANGED log
    BY <1>18 DEF StepRaises
  <2>3. activity' \in [received : SUBSET Published, announced : SUBSET Published,
                       suppressed : SUBSET Published]
    <3>1. \/ Recorded("received", at[c]) \/ Recorded("suppressed", at[c])
          \/ UNCHANGED activity
      BY <1>18 DEF StepRaises
    <3>2. QED
      BY <2>1, <3>1, RecordedType DEF TypeOK
  <2>4. abandoned' \subseteq Published
    BY <1>18, AbandonType DEF StepRaises, TypeOK
  <2>5. committed' \in [Partitions -> Nat] /\ faults' \in Nat
    BY <1>18, <2>1, PublishedIsId DEF StepRaises, Fault, TypeOK, Ids
  <2>6. QED
    BY <1>18, <2>1, <2>2, <2>3, <2>4, <2>5, ExitType DEF StepRaises, TypeOK
<1>19. ASSUME NEW c \in Consumers, DeliveryRaises(c) PROVE TypeOK' /\ ControlInv'
  <2>1. Published' = Published /\ at[c] \in Published
    BY <1>19, SameLog, BusyEvent DEF DeliveryRaises
  <2>2. activity' \in [received : SUBSET Published, announced : SUBSET Published,
                       suppressed : SUBSET Published]
    <3>1. Recorded("announced", at[c]) \/ UNCHANGED activity
      BY <1>19 DEF DeliveryRaises
    <3>2. QED
      BY <2>1, <3>1, RecordedType DEF TypeOK
  <2>3. support[c] \in Products
    BY <1>19 DEF DeliveryRaises, TypeOK, ControlInv
  <2>4. /\ couponTopic' \subseteq [coupon : Published, support : Products]
        /\ ledger' \subseteq Published /\ faults' \in Nat
    BY <1>19, <2>1, <2>3 DEF DeliveryRaises, Fault, TypeOK
  <2>5. QED
    BY <1>19, <2>1, <2>2, <2>4 DEF DeliveryRaises, TypeOK, ControlInv, Steps
<1>20. ASSUME NEW c \in Consumers, ReleaseRaises(c) PROVE TypeOK' /\ ControlInv'
  <2>1. Published' = Published /\ at[c] \in Published
    BY <1>20, SameLog, BusyEvent DEF ReleaseRaises
  <2>2. Exit(c) /\ UNCHANGED log
    BY <1>20 DEF ReleaseRaises
  <2>3. /\ claims' \in [Offers -> Published \cup {NoId}]
        /\ aborted' \subseteq Published /\ abandoned' \subseteq Published
        /\ faults' \in Nat
    <3>1. /\ claims' = claims \/ claims' = [claims EXCEPT ![OfferOf(at[c])] = NoId]
          /\ aborted' = aborted \/ aborted' = aborted \cup {at[c]}
          /\ abandoned' = abandoned \/ Abandon(c)
          /\ faults' = faults + 1
      BY <1>20 DEF ReleaseRaises, Fault
    <3>2. claims' \in [Offers -> Published \cup {NoId}]
      BY <3>1 DEF TypeOK
    <3>3. abandoned' \subseteq Published
      BY <3>1, AbandonType DEF TypeOK
    <3>4. QED
      BY <2>1, <3>1, <3>2, <3>3 DEF TypeOK
  <2>4. QED
    BY <1>20, <2>1, <2>2, <2>3, ExitType DEF ReleaseRaises, TypeOK
<1>21. CASE UNCHANGED vars
  <2>1. Published' = Published
    BY <1>21, SameLog DEF vars
  <2>2. QED
    BY <1>21, <2>1 DEF vars, TypeOK, ControlInv
<1>22. QED
  BY <1>1, <1>2, <1>3, <1>4, <1>5, <1>6, <1>7, <1>8, <1>9, <1>10, <1>11, <1>12, <1>13,
     <1>14, <1>15, <1>16, <1>17, <1>18, <1>19, <1>20, <1>21
  DEF Next, Works, Fails

(* Every variable keeps its type: in particular no consumer works on, and  *)
(* no store holds, an event that was never published.                      *)
THEOREM TypeCorrect == Spec => []TypeOK
<1>1. Init => TypeOK /\ ControlInv
  BY TypeInit
<1>2. TypeOK /\ ControlInv /\ [Next]_vars => (TypeOK /\ ControlInv)'
  BY TypeStep
<1>3. QED
  BY <1>1, <1>2, PTL DEF Spec

-----------------------------------------------------------------------------
(* The claim protects the offer: ClaimInv and LiveInv.                     *)

(* A step that leaves the claims alone, starts no delivery, and adds to    *)
(* the ledger only coupons being delivered.                                *)
LEMMA QuietStep ==
  ASSUME TypeOK, ControlInv, ClaimInv, LiveInv,
         UNCHANGED <<log, claims, aborted>>,
         \A id \in ledger' : id \in ledger \/ \E c \in Consumers : Delivering(c) /\ at[c] = id,
         \A c \in Consumers : Delivering(c)' => Delivering(c) /\ at'[c] = at[c]
  PROVE  ClaimInv' /\ LiveInv'
<1>1. \A id : OfferOf(id)' = OfferOf(id)
  BY SameLog
<1>2. ClaimInv'
  BY <1>1 DEF ClaimInv
<1>3. LiveInv'
  BY <1>1 DEF ClaimInv, LiveInv
<1>4. QED
  BY <1>2, <1>3

(* A free claim is set for the event a consumer works on. *)
LEMMA ClaimStep ==
  ASSUME TypeOK, ControlInv, ClaimInv, LiveInv, UNCHANGED <<log, ledger>>,
         NEW c \in Consumers, ~Idle(c),
         claims[OfferOf(at[c])] = NoId,
         claims' = [claims EXCEPT ![OfferOf(at[c])] = at[c]],
         aborted' = aborted \ {at[c]},
         \A d \in Consumers : Delivering(d)' => (Delivering(d) \/ d = c) /\ at'[d] = at[d]
  PROVE  ClaimInv' /\ LiveInv'
<1>1. \A id : OfferOf(id)' = OfferOf(id)
  BY SameLog
<1>2. at[c] \in Published /\ OfferOf(at[c]) \in Offers
  BY BusyEvent
<1>3. claims'[OfferOf(at[c])] = at[c]
  BY <1>2 DEF TypeOK
<1>4. \A o \in Offers : o # OfferOf(at[c]) => claims'[o] = claims[o]
  BY DEF TypeOK
<1>5. \A d \in Consumers : Delivering(d) =>
        at[d] \in Published /\ at[d] # NoId /\ OfferOf(at[d]) \in Offers
  BY BusyEvent, PublishedIsId DEF ControlInv, Idle
<1>6. \A d \in Consumers : Delivering(d) => OfferOf(at[d]) # OfferOf(at[c])
  BY <1>5 DEF ClaimInv
<1>7. ClaimInv'
  BY <1>1, <1>3, <1>4, <1>5, <1>6 DEF ClaimInv
<1>8. \A id \in ledger : id \in Published /\ id # NoId /\ OfferOf(id) \in Offers
  BY PublishedIsId DEF TypeOK
<1>9. \A id \in ledger \ aborted : OfferOf(id) # OfferOf(at[c])
  BY <1>8 DEF LiveInv
<1>10. LiveInv'
  BY <1>1, <1>3, <1>4, <1>8, <1>9 DEF LiveInv
<1>11. QED
  BY <1>7, <1>10

(* A delivery is given up and its claim released. *)
LEMMA ReleaseStep ==
  ASSUME TypeOK, ControlInv, ClaimInv, LiveInv, UNCHANGED <<log, ledger>>,
         NEW c \in Consumers, Delivering(c),
         claims' = [claims EXCEPT ![OfferOf(at[c])] = NoId],
         aborted' = aborted \cup {at[c]},
         \A d \in Consumers : Delivering(d)' => d # c /\ Delivering(d) /\ at'[d] = at[d]
  PROVE  ClaimInv' /\ LiveInv'
<1>1. \A id : OfferOf(id)' = OfferOf(id)
  BY SameLog
<1>2. claims[OfferOf(at[c])] = at[c]
  BY DEF ClaimInv
<1>3. \A o \in Offers : o # OfferOf(at[c]) => claims'[o] = claims[o]
  BY DEF TypeOK
<1>4. \A d \in Consumers : Delivering(d) => OfferOf(at[d]) \in Offers
  BY BusyEvent DEF ControlInv, Idle
<1>5. \A d \in Consumers \ {c} : Delivering(d) => OfferOf(at[d]) # OfferOf(at[c])
  BY <1>2 DEF ClaimInv
<1>6. ClaimInv'
  BY <1>1, <1>3, <1>4, <1>5 DEF ClaimInv
<1>7. \A id \in ledger : OfferOf(id) \in Offers
  BY PublishedIsId DEF TypeOK
<1>8. \A id \in ledger \ aborted' : OfferOf(id) # OfferOf(at[c])
  BY <1>2 DEF LiveInv
<1>9. LiveInv'
  BY <1>1, <1>3, <1>7, <1>8 DEF LiveInv
<1>10. QED
  BY <1>6, <1>9

(* After Exit only the other consumers deliver. *)
LEMMA ExitEndsDelivery ==
  ASSUME TypeOK, NEW c \in Consumers, Exit(c)
  PROVE  \A d \in Consumers : Delivering(d)' => d # c /\ Delivering(d) /\ at'[d] = at[d]
BY DEF Exit, TypeOK, Delivering

LEMMA ClaimsInit == Init => ClaimInv /\ LiveInv
BY DEF Init, ClaimInv, LiveInv, Delivering

LEMMA ClaimsStep ==
  TypeOK /\ ControlInv /\ ClaimInv /\ LiveInv /\ [Next]_vars => ClaimInv' /\ LiveInv'
<1> SUFFICES ASSUME TypeOK, ControlInv, ClaimInv, LiveInv, [Next]_vars
             PROVE  ClaimInv' /\ LiveInv'
  OBVIOUS
<1>1. ASSUME NEW e \in Traffic, Publish(e) PROVE ClaimInv' /\ LiveInv'
  <2>1. \A id \in Published : OfferOf(id)' = OfferOf(id)
    BY <1>1, LogGrows
  <2>2. \A c \in Consumers : Delivering(c) => at[c] \in Published
    BY BusyEvent DEF ControlInv, Idle
  <2>3. UNCHANGED <<claims, ledger, aborted, at, support>>
    BY <1>1 DEF Publish
  <2>4. \A c \in Consumers : Delivering(c)' <=> Delivering(c)
    BY <2>3 DEF Delivering
  <2>5. ClaimInv'
    BY <2>1, <2>2, <2>3, <2>4 DEF ClaimInv
  <2>6. LiveInv'
    BY <2>1, <2>3 DEF LiveInv, TypeOK
  <2>7. QED
    BY <2>5, <2>6
<1>2. CASE Assign
  BY <1>2, QuietStep DEF Assign, Delivering
<1>3. CASE Rebalance
  BY <1>3, QuietStep DEF Rebalance, Delivering
<1>4. CASE FreshGroup
  BY <1>4, QuietStep DEF FreshGroup, Delivering
<1>5. ASSUME NEW c \in Consumers, Start(c) PROVE ClaimInv' /\ LiveInv'
  BY <1>5, QuietStep DEF Start, Delivering
<1>6. ASSUME NEW c \in Consumers, Poll(c) PROVE ClaimInv' /\ LiveInv'
  <2>1. ~Delivering(c)
    BY <1>6 DEF Poll, ControlInv
  <2>2. \A d \in Consumers : Delivering(d)' => Delivering(d) /\ at'[d] = at[d]
    BY <1>6, <2>1 DEF Poll, Delivering, TypeOK
  <2>3. UNCHANGED <<log, claims, aborted, ledger>>
    BY <1>6 DEF Poll
  <2>4. QED
    BY <2>2, <2>3, QuietStep
<1>7. ASSUME NEW c \in Consumers, Evaluate(c) PROVE ClaimInv' /\ LiveInv'
  <2>1. UNCHANGED <<log, ledger, at>> /\ ~Idle(c)
    BY <1>7 DEF Evaluate, Idle
  <2>2. CASE UNCHANGED <<claims, support, aborted>>
    BY <2>1, <2>2, QuietStep DEF Delivering
  <2>3. CASE /\ claims[OfferOf(at[c])] = NoId
             /\ claims' = [claims EXCEPT ![OfferOf(at[c])] = at[c]]
             /\ \E item \in Products : support' = [support EXCEPT ![c] = item]
             /\ aborted' = aborted \ {at[c]}
    <3>1. \A d \in Consumers : Delivering(d)' => (Delivering(d) \/ d = c) /\ at'[d] = at[d]
      BY <2>1, <2>3 DEF Delivering, TypeOK
    <3>2. QED
      BY <2>1, <2>3, <3>1, ClaimStep
  <2>4. QED
    BY <1>7, <2>2, <2>3, EvaluateOutcome
<1>8. ASSUME NEW c \in Consumers, Receive(c) PROVE ClaimInv' /\ LiveInv'
  BY <1>8, QuietStep DEF Receive, Delivering
<1>9. ASSUME NEW c \in Consumers, Send(c) PROVE ClaimInv' /\ LiveInv'
  BY <1>9, QuietStep DEF Send, Delivering
<1>10. ASSUME NEW c \in Consumers, Issue(c) PROVE ClaimInv' /\ LiveInv'
  <2>1. Delivering(c)
    BY <1>10 DEF Issue, ControlInv
  <2>2. UNCHANGED <<log, claims, aborted, at, support>> /\ ledger' = ledger \cup {at[c]}
    BY <1>10 DEF Issue
  <2>3. \A d \in Consumers : Delivering(d)' => Delivering(d) /\ at'[d] = at[d]
    BY <2>2 DEF Delivering
  <2>4. QED
    BY <2>1, <2>2, <2>3, QuietStep
<1>11. ASSUME NEW c \in Consumers, Announce(c) PROVE ClaimInv' /\ LiveInv'
  BY <1>11, QuietStep DEF Announce, Delivering
<1>12. ASSUME NEW c \in Consumers, Suppress(c) PROVE ClaimInv' /\ LiveInv'
  BY <1>12, QuietStep DEF Suppress, Delivering
<1>13. ASSUME NEW c \in Consumers, Commit(c) PROVE ClaimInv' /\ LiveInv'
  <2>1. \A d \in Consumers : Delivering(d)' => Delivering(d) /\ at'[d] = at[d]
    BY <1>13 DEF Commit, Delivering, TypeOK
  <2>2. UNCHANGED <<log, claims, aborted, ledger>>
    BY <1>13 DEF Commit
  <2>3. QED
    BY <2>1, <2>2, QuietStep
<1>14. ASSUME NEW c \in Consumers, CommitRefused(c) PROVE ClaimInv' /\ LiveInv'
  <2>1. Exit(c) /\ UNCHANGED <<log, claims, aborted, ledger>>
    BY <1>14 DEF CommitRefused
  <2>2. QED
    BY <2>1, ExitEndsDelivery, QuietStep
<1>15. ASSUME NEW c \in Consumers, Release(c) PROVE ClaimInv' /\ LiveInv'
  <2>1. /\ Exit(c) /\ UNCHANGED <<log, ledger>>
        /\ claims' = [claims EXCEPT ![OfferOf(at[c])] = NoId]
        /\ aborted' = aborted \cup {at[c]}
    BY <1>15 DEF Release
  <2>2. Delivering(c)
    BY <1>15 DEF Release, ControlInv
  <2>3. QED
    BY <2>1, <2>2, ExitEndsDelivery, ReleaseStep
<1>16. ASSUME NEW c \in Consumers, Kill(c) PROVE ClaimInv' /\ LiveInv'
  <2>1. Exit(c) /\ UNCHANGED <<log, claims, aborted, ledger>>
    BY <1>16 DEF Kill
  <2>2. QED
    BY <2>1, ExitEndsDelivery, QuietStep
<1>17. ASSUME NEW c \in Consumers, EvaluateRaises(c) PROVE ClaimInv' /\ LiveInv'
  <2>1. Exit(c) /\ UNCHANGED <<log, ledger>> /\ ~Idle(c)
    BY <1>17 DEF EvaluateRaises, Idle
  <2>2. CASE UNCHANGED <<claims, aborted, abandoned>>
    BY <2>1, <2>2, ExitEndsDelivery, QuietStep
  <2>3. CASE /\ claims[OfferOf(at[c])] = NoId
             /\ claims' = [claims EXCEPT ![OfferOf(at[c])] = at[c]]
             /\ aborted' = aborted \ {at[c]}
    BY <2>1, <2>3, ExitEndsDelivery, ClaimStep
  <2>4. QED
    BY <1>17, <2>2, <2>3 DEF EvaluateRaises
<1>18. ASSUME NEW c \in Consumers, StepRaises(c) PROVE ClaimInv' /\ LiveInv'
  <2>1. Exit(c) /\ UNCHANGED <<log, claims, aborted, ledger>>
    BY <1>18 DEF StepRaises
  <2>2. QED
    BY <2>1, ExitEndsDelivery, QuietStep
<1>19. ASSUME NEW c \in Consumers, DeliveryRaises(c) PROVE ClaimInv' /\ LiveInv'
  <2>1. Delivering(c)
    BY <1>19 DEF DeliveryRaises, ControlInv
  <2>2. /\ UNCHANGED <<log, claims, aborted, at, support>>
        /\ ledger' \in {ledger, ledger \cup {at[c]}}
    BY <1>19 DEF DeliveryRaises
  <2>3. \A d \in Consumers : Delivering(d)' => Delivering(d) /\ at'[d] = at[d]
    BY <2>2 DEF Delivering
  <2>4. QED
    BY <2>1, <2>2, <2>3, QuietStep
<1>20. ASSUME NEW c \in Consumers, ReleaseRaises(c) PROVE ClaimInv' /\ LiveInv'
  <2>1. Exit(c) /\ UNCHANGED <<log, ledger>>
    BY <1>20 DEF ReleaseRaises
  <2>2. Delivering(c)
    BY <1>20 DEF ReleaseRaises, ControlInv
  <2>3. CASE UNCHANGED <<claims, aborted>>
    BY <2>1, <2>3, ExitEndsDelivery, QuietStep
  <2>4. CASE /\ claims' = [claims EXCEPT ![OfferOf(at[c])] = NoId]
             /\ aborted' = aborted \cup {at[c]}
    BY <2>1, <2>2, <2>4, ExitEndsDelivery, ReleaseStep
  <2>5. QED
    BY <1>20, <2>3, <2>4 DEF ReleaseRaises
<1>21. CASE UNCHANGED vars
  BY <1>21, QuietStep DEF vars, Delivering
<1>22. QED
  BY <1>1, <1>2, <1>3, <1>4, <1>5, <1>6, <1>7, <1>8, <1>9, <1>10, <1>11, <1>12, <1>13,
     <1>14, <1>15, <1>16, <1>17, <1>18, <1>19, <1>20, <1>21
  DEF Next, Works, Fails

LEMMA LiveIsOne == LiveInv => OneLiveCoupon
BY DEF LiveInv, OneLiveCoupon

(* One offer, one live coupon: whatever interleaving of consumers, lost    *)
(* answers, exceptions, kills and rebalances, two coupons of the same      *)
(* shopper, session and product are never both undelivered-and-unreleased  *)
(* or delivered: at least one of them had its claim released.              *)
THEOREM OneOfferOneCoupon == Spec => []OneLiveCoupon
<1>1. Init => TypeOK /\ ControlInv /\ ClaimInv /\ LiveInv
  BY TypeInit, ClaimsInit
<1>2. TypeOK /\ ControlInv /\ ClaimInv /\ LiveInv /\ [Next]_vars
        => (TypeOK /\ ControlInv /\ ClaimInv /\ LiveInv)'
  BY TypeStep, ClaimsStep
<1>3. QED
  BY <1>1, <1>2, LiveIsOne, PTL DEF Spec

-----------------------------------------------------------------------------
(* From here on: the order of a delivery, and of the offsets.              *)
USE DEF shopperVars, groupVars, redisVars, engineVars, historyVars

-----------------------------------------------------------------------------
(* Topic, then ledger, then activity stream.                               *)

Sent == {m.coupon : m \in couponTopic}

(* A step that loses nothing, moves the consumers that deliver no further  *)
(* than what they sent and wrote, and adds nothing else to the stores.     *)
LEMMA OrderStep ==
  ASSUME OrderInv, ShownCouponIsRedeemable,
         Sent \subseteq Sent', ledger \subseteq ledger',
         ledger' \subseteq Sent', activity'.announced \subseteq ledger',
         \A d \in Consumers :
           \/ pc'[d] \notin {"issue", "announce"}
           \/ pc'[d] = pc[d] /\ at'[d] = at[d]
           \/ /\ at'[d] \in Sent'
              /\ pc'[d] = "announce" => at'[d] \in ledger'
  PROVE  OrderInv' /\ ShownCouponIsRedeemable'
<1>1. \A d \in Consumers : pc[d] \in {"issue", "announce"} => at[d] \in Sent
  BY DEF OrderInv, Sent
<1>2. \A d \in Consumers : pc'[d] \in {"issue", "announce"} => at'[d] \in Sent'
  BY <1>1
<1>3. \A d \in Consumers : pc'[d] = "announce" => at'[d] \in ledger'
  BY DEF OrderInv
<1>4. QED
  BY <1>2, <1>3 DEF OrderInv, ShownCouponIsRedeemable, Sent

(* A consumer takes a step that touches none of the three stores and does  *)
(* not bring it to the ledger or to the stream.                            *)
LEMMA OtherStep ==
  ASSUME TypeOK, OrderInv, ShownCouponIsRedeemable,
         UNCHANGED <<couponTopic, ledger>>,
         activity'.announced = activity.announced,
         \A d \in Consumers :
           \/ pc'[d] \notin {"issue", "announce"}
           \/ pc'[d] = pc[d] /\ at'[d] = at[d]
  PROVE  OrderInv' /\ ShownCouponIsRedeemable'
<1>1. Sent' = Sent
  BY DEF Sent
<1>2. QED
  BY <1>1, OrderStep DEF ShownCouponIsRedeemable, Sent

LEMMA ExitStops ==
  ASSUME TypeOK, NEW c \in Consumers, Exit(c)
  PROVE  \A d \in Consumers :
           \/ pc'[d] = "down"
           \/ d # c /\ pc'[d] = pc[d] /\ at'[d] = at[d] /\ support'[d] = support[d]
BY DEF Exit, TypeOK

LEMMA OthersUnmoved ==
  ASSUME TypeOK, NEW c \in Consumers, NEW step,
         pc' = [pc EXCEPT ![c] = step], \A d \in Consumers \ {c} : at'[d] = at[d]
  PROVE  /\ pc'[c] = step
         /\ \A d \in Consumers \ {c} : pc'[d] = pc[d] /\ at'[d] = at[d]
BY DEF TypeOK

LEMMA OrderInit == Init => OrderInv /\ ShownCouponIsRedeemable
BY DEF Init, OrderInv, ShownCouponIsRedeemable

LEMMA OrderNext ==
  TypeOK /\ OrderInv /\ ShownCouponIsRedeemable /\ [Next]_vars
    => OrderInv' /\ ShownCouponIsRedeemable'
<1> SUFFICES ASSUME TypeOK, OrderInv, ShownCouponIsRedeemable, [Next]_vars
             PROVE  OrderInv' /\ ShownCouponIsRedeemable'
  OBVIOUS
<1> DEFINE Kept == OrderInv' /\ ShownCouponIsRedeemable'
<1>1. ASSUME NEW e \in Traffic, Publish(e) PROVE Kept
  BY <1>1, OtherStep DEF Publish
<1>2. CASE Assign \/ Rebalance \/ FreshGroup
  BY <1>2, OtherStep DEF Assign, Rebalance, FreshGroup
<1>3. ASSUME NEW c \in Consumers, Start(c) PROVE Kept
  BY <1>3, OthersUnmoved, OtherStep DEF Start
<1>4. ASSUME NEW c \in Consumers, Poll(c) PROVE Kept
  <2>1. \A d \in Consumers \ {c} : at'[d] = at[d]
    BY <1>4 DEF Poll, TypeOK
  <2>2. QED
    BY <1>4, <2>1, OthersUnmoved, OtherStep DEF Poll
<1>5. ASSUME NEW c \in Consumers, Evaluate(c) PROVE Kept
  BY <1>5, OthersUnmoved, OtherStep DEF Evaluate
<1>6. ASSUME NEW c \in Consumers, Receive(c) PROVE Kept
  <2>1. activity'.announced = activity.announced
    BY <1>6 DEF Receive, Recorded, TypeOK
  <2>2. /\ pc'[c] \notin {"issue", "announce"}
        /\ \A d \in Consumers \ {c} : pc'[d] = pc[d] /\ at'[d] = at[d]
    BY <1>6 DEF Receive, TypeOK
  <2>3. QED
    BY <1>6, <2>1, <2>2, OtherStep DEF Receive
<1>7. ASSUME NEW c \in Consumers, Send(c) PROVE Kept
  <2> DEFINE message == [coupon |-> at[c], support |-> support[c]]
  <2>1. Sent' = Sent \cup {at[c]}
    <3>1. couponTopic' = couponTopic \cup {message} /\ message.coupon = at[c]
      BY <1>7 DEF Send
    <3> HIDE DEF message
    <3>2. QED
      BY <3>1, Zenon DEF Sent
  <2>2. pc'[c] = "issue" /\ \A d \in Consumers \ {c} : pc'[d] = pc[d] /\ at'[d] = at[d]
    BY <1>7 DEF Send, TypeOK
  <2>3. UNCHANGED <<ledger, activity, at>>
    BY <1>7 DEF Send
  <2>4. QED
    BY <2>1, <2>2, <2>3, OrderStep DEF ShownCouponIsRedeemable, Sent
<1>8. ASSUME NEW c \in Consumers, Issue(c) PROVE Kept
  <2>1. at[c] \in Sent
    BY <1>8 DEF Issue, OrderInv, Sent
  <2>2. pc'[c] = "announce" /\ \A d \in Consumers \ {c} : pc'[d] = pc[d] /\ at'[d] = at[d]
    BY <1>8 DEF Issue, TypeOK
  <2>3. UNCHANGED <<couponTopic, activity, at>> /\ ledger' = ledger \cup {at[c]}
    BY <1>8 DEF Issue
  <2>4. Sent' = Sent
    BY <2>3 DEF Sent
  <2>5. QED
    BY <2>1, <2>2, <2>3, <2>4, OrderStep DEF ShownCouponIsRedeemable, Sent
<1>9. ASSUME NEW c \in Consumers, Announce(c) PROVE Kept
  <2>1. at[c] \in ledger
    BY <1>9 DEF Announce, OrderInv
  <2>2. pc'[c] = "commit" /\ \A d \in Consumers \ {c} : pc'[d] = pc[d] /\ at'[d] = at[d]
    BY <1>9 DEF Announce, TypeOK
  <2>3. /\ UNCHANGED <<couponTopic, ledger, at>>
        /\ activity'.announced = activity.announced \cup {at[c]}
    BY <1>9 DEF Announce, Recorded, TypeOK
  <2>4. Sent' = Sent
    BY <2>3 DEF Sent
  <2>5. QED
    BY <2>1, <2>2, <2>3, <2>4, OrderStep DEF ShownCouponIsRedeemable, Sent
<1>10. ASSUME NEW c \in Consumers, Suppress(c) PROVE Kept
  <2>1. activity'.announced = activity.announced
    BY <1>10 DEF Suppress, Recorded, TypeOK
  <2>2. QED
    BY <1>10, <2>1, OthersUnmoved, OtherStep DEF Suppress
<1>11. ASSUME NEW c \in Consumers, Commit(c) PROVE Kept
  <2>1. \A d \in Consumers \ {c} : at'[d] = at[d]
    BY <1>11 DEF Commit, TypeOK
  <2>2. QED
    BY <1>11, <2>1, OthersUnmoved, OtherStep DEF Commit
<1>12. ASSUME NEW c \in Consumers, CommitRefused(c) PROVE Kept
  BY <1>12, ExitStops, OtherStep DEF CommitRefused
<1>13. ASSUME NEW c \in Consumers, Release(c) \/ ReleaseRaises(c) PROVE Kept
  BY <1>13, ExitStops, OtherStep DEF Release, ReleaseRaises
<1>14. ASSUME NEW c \in Consumers, Kill(c) PROVE Kept
  BY <1>14, ExitStops, OtherStep DEF Kill
<1>15. ASSUME NEW c \in Consumers, EvaluateRaises(c) PROVE Kept
  BY <1>15, ExitStops, OtherStep DEF EvaluateRaises
<1>16. ASSUME NEW c \in Consumers, StepRaises(c) PROVE Kept
  <2>1. activity'.announced = activity.announced
    BY <1>16 DEF StepRaises, Recorded, TypeOK
  <2>2. Exit(c) /\ UNCHANGED <<couponTopic, ledger>>
    BY <1>16 DEF StepRaises
  <2>3. QED
    BY <2>1, <2>2, ExitStops, OtherStep
<1>17. ASSUME NEW c \in Consumers, DeliveryRaises(c) PROVE Kept
  <2>1. pc'[c] = "release" /\ \A d \in Consumers \ {c} : pc'[d] = pc[d] /\ at'[d] = at[d]
    BY <1>17 DEF DeliveryRaises, TypeOK
  <2>2. CASE /\ pc[c] = "send" /\ UNCHANGED <<ledger, activity>>
             /\ couponTopic' \in {couponTopic,
                  couponTopic \cup {[coupon |-> at[c], support |-> support[c]]}}
    <3>1. Sent \subseteq Sent'
      BY <2>2 DEF Sent
    <3>2. QED
      BY <2>1, <2>2, <3>1, OrderStep DEF ShownCouponIsRedeemable, Sent
  <2>3. CASE /\ pc[c] = "issue" /\ UNCHANGED <<couponTopic, activity>>
             /\ ledger' \in {ledger, ledger \cup {at[c]}}
    <3>1. at[c] \in Sent /\ Sent' = Sent
      BY <2>3 DEF Sent, OrderInv
    <3>2. QED
      BY <2>1, <2>3, <3>1, OrderStep DEF ShownCouponIsRedeemable, Sent
  <2>4. CASE /\ pc[c] = "announce" /\ UNCHANGED <<couponTopic, ledger>>
             /\ Recorded("announced", at[c]) \/ UNCHANGED activity
    <3>1. at[c] \in ledger /\ Sent' = Sent
      BY <2>4 DEF Sent, OrderInv
    <3>2. activity'.announced \subseteq activity.announced \cup {at[c]}
      BY <2>4 DEF Recorded, TypeOK
    <3>3. QED
      BY <2>1, <2>4, <3>1, <3>2, OrderStep DEF ShownCouponIsRedeemable, Sent
  <2>5. QED
    BY <1>17, <2>2, <2>3, <2>4 DEF DeliveryRaises
<1>18. CASE UNCHANGED vars
  BY <1>18, OtherStep DEF vars
<1>19. QED
  BY <1>1, <1>2, <1>3, <1>4, <1>5, <1>6, <1>7, <1>8, <1>9, <1>10, <1>11, <1>12,
     <1>13, <1>14, <1>15, <1>16, <1>17, <1>18
  DEF Next, Works, Fails

(* What the storefront shows can be redeemed: an announced coupon is in    *)
(* the ledger and on the coupon topic, whatever raises and whenever a      *)
(* process is killed in the middle of a delivery.                          *)
THEOREM ShownIsRedeemable == Spec => []ShownCouponIsRedeemable
<1>1. Init => (TypeOK /\ ControlInv) /\ (OrderInv /\ ShownCouponIsRedeemable)
  BY TypeInit, OrderInit
<1>2. (TypeOK /\ ControlInv) /\ (OrderInv /\ ShownCouponIsRedeemable) /\ [Next]_vars
        => (TypeOK /\ ControlInv)' /\ (OrderInv /\ ShownCouponIsRedeemable)'
  BY TypeStep, OrderNext
<1>3. QED
  BY <1>1, <1>2, PTL DEF Spec

-----------------------------------------------------------------------------
(* Offsets: OffsetInv and OffsetsAdvanceByOne.                             *)

Working(c) == ~Idle(c) /\ c \notin fenced

LEMMA WorkingAt ==
  ASSUME TypeOK, ControlInv, OffsetInv, NEW c \in Consumers, Working(c)
  PROVE  /\ at[c] \in Published /\ at[c] = <<at[c][1], at[c][2]>>
         /\ at[c][1] \in Partitions /\ at[c][2] \in 1..Len(log[at[c][1]])
         /\ owner[at[c][1]] = c /\ at[c][2] = committed[at[c][1]] + 1
BY BusyEvent, PublishedIsId DEF Working, OffsetInv

LEMMA LogLengths == TypeOK => \A p \in Partitions : Len(log[p]) \in Nat
BY LenProperties DEF TypeOK

(* A step that commits nothing and leaves the consumers that go on working *)
(* their event and their partitions.                                       *)
LEMMA OffsetKept ==
  ASSUME TypeOK, ControlInv, OffsetInv, UNCHANGED <<log, committed>>,
         \A d \in Consumers : Working(d)' =>
           /\ Working(d) /\ at'[d] = at[d]
           /\ \A p \in Partitions : owner[p] = d => owner'[p] = d
  PROVE  OffsetInv'
<1>1. \A d \in Consumers : Working(d)' =>
        owner'[at'[d][1]] = d /\ at'[d][2] = committed'[at'[d][1]] + 1
  BY WorkingAt
<1>2. QED
  BY <1>1 DEF OffsetInv, Working

(* The offset of a working consumer's event is committed: no other works   *)
(* on that partition.                                                      *)
LEMMA OffsetCommitted ==
  ASSUME TypeOK, ControlInv, OffsetInv, UNCHANGED log,
         NEW c \in Consumers, Working(c),
         committed' = [committed EXCEPT ![at[c][1]] = at[c][2]],
         \A d \in Consumers : Working(d)' =>
           /\ d # c /\ Working(d) /\ at'[d] = at[d]
           /\ \A p \in Partitions : owner[p] = d => owner'[p] = d
  PROVE  /\ OffsetInv'
         /\ \A p \in Partitions : committed'[p] \in {committed[p], committed[p] + 1}
<1>1. /\ at[c][1] \in Partitions /\ at[c][2] \in 1..Len(log[at[c][1]])
      /\ owner[at[c][1]] = c /\ at[c][2] = committed[at[c][1]] + 1
  BY WorkingAt
<1>2. /\ committed'[at[c][1]] = at[c][2]
      /\ \A p \in Partitions : p # at[c][1] => committed'[p] = committed[p]
  BY <1>1 DEF TypeOK
<1>3. \A d \in Consumers : Working(d)' =>
        owner'[at'[d][1]] = d /\ at'[d][2] = committed'[at'[d][1]] + 1
  <2> SUFFICES ASSUME NEW d \in Consumers, Working(d)'
               PROVE  owner'[at'[d][1]] = d /\ at'[d][2] = committed'[at'[d][1]] + 1
    OBVIOUS
  <2>1. /\ d # c /\ at'[d] = at[d]
        /\ at[d][1] \in Partitions
        /\ owner[at[d][1]] = d /\ at[d][2] = committed[at[d][1]] + 1
        /\ owner'[at[d][1]] = d
    BY WorkingAt
  <2>2. at[d][1] # at[c][1]
    BY <1>1, <2>1
  <2>3. QED
    BY <1>2, <2>1, <2>2
<1>4. \A p \in Partitions : committed'[p] <= Len(log[p])
  BY <1>1, <1>2, LogLengths DEF OffsetInv
<1>5. QED
  BY <1>1, <1>2, <1>3, <1>4 DEF OffsetInv, Working

LEMMA ExitEndsWork ==
  ASSUME TypeOK, NEW c \in Consumers, Exit(c)
  PROVE  \A d \in Consumers : Working(d)' =>
           /\ d # c /\ Working(d) /\ at'[d] = at[d]
           /\ \A p \in Partitions : owner[p] = d => owner'[p] = d
BY DEF Exit, TypeOK, Working, Idle

(* A consumer goes on to its next step within a message. *)
LEMMA OffsetGoesOn ==
  ASSUME TypeOK, ControlInv, OffsetInv, NEW c \in Consumers, ~Idle(c), NEW step,
         pc' = [pc EXCEPT ![c] = step], UNCHANGED <<log, committed, owner, fenced, at>>
  PROVE  OffsetInv'
<1>1. \A d \in Consumers : Working(d)' => Working(d)
  BY DEF Working, Idle, TypeOK
<1>2. QED
  BY <1>1, OffsetKept

LEMMA OffsetInit == Init => OffsetInv
BY LenProperties, EmptySeq DEF Init, OffsetInv, Idle

LEMMA OffsetNext ==
  TypeOK /\ ControlInv /\ OffsetInv /\ [Next]_vars
    => /\ OffsetInv'
       /\ FreshGroup \/ \A p \in Partitions : committed'[p] \in {committed[p], committed[p] + 1}
<1> SUFFICES ASSUME TypeOK, ControlInv, OffsetInv, [Next]_vars
             PROVE  /\ OffsetInv'
                    /\ \/ FreshGroup
                       \/ \A p \in Partitions : committed'[p] \in {committed[p], committed[p] + 1}
  OBVIOUS
<1> DEFINE Kept == OffsetInv'
           ByOne == \A p \in Partitions : committed'[p] \in {committed[p], committed[p] + 1}
<1>1. ASSUME NEW e \in Traffic, Publish(e) PROVE Kept /\ ByOne
  <2>1. UNCHANGED <<committed, owner, fenced, pc, at>>
    BY <1>1 DEF Publish
  <2>2. \A p \in Partitions : Len(log'[p]) \in Nat /\ committed[p] <= Len(log'[p])
    BY <1>1, LogGrows, LogLengths, LenProperties DEF OffsetInv, TypeOK
  <2>3. QED
    BY <2>1, <2>2 DEF OffsetInv, Idle
<1>2. CASE Assign
  <2>1. \A d \in Consumers : ~Working(d)'
    BY <1>2 DEF Assign, Working, Idle, Busy
  <2>2. QED
    BY <1>2, <2>1, OffsetKept DEF Assign
<1>3. CASE Rebalance
  <2>1. \A d \in Consumers : ~Working(d)'
    BY <1>3 DEF Rebalance, Working, Idle, Busy
  <2>2. QED
    BY <1>3, <2>1, OffsetKept DEF Rebalance
<1>4. CASE FreshGroup
  <2>1. \A c \in Consumers : Idle(c)'
    BY <1>4 DEF FreshGroup, Idle
  <2>2. \A p \in Partitions : committed'[p] <= Len(log'[p])
    BY <1>4, LogLengths DEF FreshGroup
  <2>3. QED
    BY <1>4, <2>1, <2>2 DEF OffsetInv
<1>5. ASSUME NEW c \in Consumers, Start(c) PROVE Kept /\ ByOne
  <2>1. \A d \in Consumers : Working(d)' => Working(d)
    BY <1>5 DEF Start, Working, Idle, TypeOK
  <2>2. QED
    BY <1>5, <2>1, OffsetKept DEF Start
<1>6. ASSUME NEW c \in Consumers, Poll(c) PROVE Kept /\ ByOne
  <2>1. PICK p \in Partitions : /\ owner[p] = c /\ committed[p] < Len(log[p])
                                /\ at' = [at EXCEPT ![c] = <<p, committed[p] + 1>>]
    BY <1>6 DEF Poll
  <2>2. /\ UNCHANGED <<log, committed, owner, fenced>>
        /\ pc' = [pc EXCEPT ![c] = "evaluate"]
    BY <1>6 DEF Poll
  <2>3. at'[c] = <<p, committed[p] + 1>>
    BY <2>1 DEF TypeOK
  <2>4. \A d \in Consumers \ {c} : Working(d)' => Working(d) /\ at'[d] = at[d]
    BY <2>1, <2>2 DEF Working, Idle, TypeOK
  <2>5. \A d \in Consumers : Working(d)' =>
          owner'[at'[d][1]] = d /\ at'[d][2] = committed'[at'[d][1]] + 1
    BY <2>1, <2>2, <2>3, <2>4, WorkingAt
  <2>6. QED
    BY <2>2, <2>5 DEF OffsetInv, Working
<1>7. ASSUME NEW c \in Consumers, Evaluate(c) PROVE Kept /\ ByOne
  BY <1>7, OffsetGoesOn DEF Evaluate, Idle
<1>8. ASSUME NEW c \in Consumers, Receive(c) PROVE Kept /\ ByOne
  BY <1>8, OffsetGoesOn DEF Receive, Idle
<1>9. ASSUME NEW c \in Consumers, Send(c) PROVE Kept /\ ByOne
  BY <1>9, OffsetGoesOn DEF Send, Idle
<1>10. ASSUME NEW c \in Consumers, Issue(c) PROVE Kept /\ ByOne
  BY <1>10, OffsetGoesOn DEF Issue, Idle
<1>11. ASSUME NEW c \in Consumers, Announce(c) PROVE Kept /\ ByOne
  BY <1>11, OffsetGoesOn DEF Announce, Idle
<1>12. ASSUME NEW c \in Consumers, Suppress(c) PROVE Kept /\ ByOne
  BY <1>12, OffsetGoesOn DEF Suppress, Idle
<1>13. ASSUME NEW c \in Consumers, Commit(c) PROVE Kept /\ ByOne
  <2>1. /\ Working(c) /\ UNCHANGED log
        /\ committed' = [committed EXCEPT ![at[c][1]] = at[c][2]]
    BY <1>13 DEF Commit, Working, Idle
  <2>2. \A d \in Consumers : Working(d)' =>
          /\ d # c /\ Working(d) /\ at'[d] = at[d]
          /\ \A p \in Partitions : owner[p] = d => owner'[p] = d
    BY <1>13 DEF Commit, TypeOK, Working, Idle
  <2>3. QED
    BY <2>1, <2>2, OffsetCommitted
<1>14. ASSUME NEW c \in Consumers,
              CommitRefused(c) \/ Release(c) \/ ReleaseRaises(c) \/ Kill(c) \/ EvaluateRaises(c)
       PROVE  Kept /\ ByOne
  <2>1. Exit(c) /\ UNCHANGED <<log, committed>>
    BY <1>14 DEF CommitRefused, Release, ReleaseRaises, Kill, EvaluateRaises
  <2>2. QED
    BY <2>1, ExitEndsWork, OffsetKept
<1>15. ASSUME NEW c \in Consumers, StepRaises(c) PROVE Kept /\ ByOne
  <2>1. Exit(c) /\ UNCHANGED log
    BY <1>15 DEF StepRaises
  <2>2. CASE UNCHANGED committed
    BY <2>1, <2>2, ExitEndsWork, OffsetKept
  <2>3. CASE /\ pc[c] = "commit" /\ c \notin fenced
             /\ committed' = [committed EXCEPT ![at[c][1]] = at[c][2]]
    BY <2>1, <2>3, ExitEndsWork, OffsetCommitted DEF Working, Idle
  <2>4. QED
    BY <1>15, <2>2, <2>3 DEF StepRaises
<1>16. ASSUME NEW c \in Consumers, DeliveryRaises(c) PROVE Kept /\ ByOne
  BY <1>16, OffsetGoesOn DEF DeliveryRaises, Idle
<1>17. CASE UNCHANGED vars
  BY <1>17, OffsetKept DEF vars, Working, Idle
<1>18. QED
  BY <1>1, <1>2, <1>3, <1>4, <1>5, <1>6, <1>7, <1>8, <1>9, <1>10, <1>11, <1>12, <1>13,
     <1>14, <1>15, <1>16, <1>17
  DEF Next, Works, Fails

(* No message of a partition is skipped and no commit is taken back, also  *)
(* when a consumer the group went on without finishes late: the broker     *)
(* refuses its offset.  Only a new group starts over.                      *)
THEOREM NoMessageSkipped == Spec => OffsetsAdvanceByOne
<1>1. Init => TypeOK /\ ControlInv /\ OffsetInv
  BY TypeInit, OffsetInit
<1>2. TypeOK /\ ControlInv /\ OffsetInv /\ [Next]_vars
        => (TypeOK /\ ControlInv /\ OffsetInv)'
  BY TypeStep, OffsetNext
<1>3. TypeOK /\ ControlInv /\ OffsetInv /\ [Next]_vars
        => [\/ FreshGroup
            \/ \A p \in Partitions : committed'[p] \in {committed[p], committed[p] + 1}]_vars
  BY OffsetNext
<1>4. QED
  BY <1>1, <1>2, <1>3, PTL DEF Spec, OffsetsAdvanceByOne

-----------------------------------------------------------------------------
(* At least once: AnswerInv and CommittedEventsAnswered.                   *)

Answered == activity.announced \cup activity.suppressed

ViewEnd(id) == Event(id).kind = "product_view_ended"

Unanswered(c) == pc[c] \in {"down", "poll", "evaluate", "receive"}

(* A step that commits nothing, records what it records, and brings a      *)
(* consumer past its recording steps only with the record made.            *)
LEMMA AnswerStep ==
  ASSUME AnswerInv, CommittedEventsAnswered, UNCHANGED <<log, committed>>,
         activity.received \subseteq activity'.received, Answered \subseteq Answered',
         \A d \in Consumers :
           \/ Unanswered(d)'
           \/ pc'[d] = pc[d] /\ at'[d] = at[d]
           \/ /\ at'[d] \in activity'.received
              /\ pc'[d] = "commit" /\ ViewEnd(at'[d]) => at'[d] \in Answered'
  PROVE  AnswerInv' /\ CommittedEventsAnswered'
<1>1. /\ Published' = Published
      /\ \A id : Event(id)' = Event(id) /\ (ViewEnd(id)' <=> ViewEnd(id))
  BY SameLog DEF ViewEnd
<1>2. AnswerInv'
  <2> SUFFICES ASSUME NEW d \in Consumers, ~Unanswered(d)'
               PROVE  /\ at'[d] \in activity'.received
                      /\ pc'[d] = "commit" /\ ViewEnd(at'[d]) => at'[d] \in Answered'
    BY <1>1 DEF AnswerInv, Answered, ViewEnd, Unanswered, Idle
  <2>1. CASE pc'[d] = pc[d] /\ at'[d] = at[d]
    BY <2>1 DEF AnswerInv, Answered, ViewEnd, Unanswered, Idle
  <2>2. QED
    BY <2>1
<1>3. CommittedEventsAnswered'
  BY <1>1 DEF CommittedEventsAnswered, Answered
<1>4. QED
  BY <1>2, <1>3

(* The event of a working consumer is committed. *)
LEMMA AnswerCommitted ==
  ASSUME TypeOK, ControlInv, OffsetInv, AnswerInv, CommittedEventsAnswered,
         UNCHANGED <<log, activity>>, NEW c \in Consumers, Working(c), pc[c] = "commit",
         committed' = [committed EXCEPT ![at[c][1]] = at[c][2]],
         \A d \in Consumers : Unanswered(d)' \/ (pc'[d] = pc[d] /\ at'[d] = at[d])
  PROVE  AnswerInv' /\ CommittedEventsAnswered'
<1>1. /\ Published' = Published
      /\ \A id : Event(id)' = Event(id)
  BY SameLog
<1>2. AnswerInv'
  BY <1>1 DEF AnswerInv, Unanswered, Idle
<1>3. /\ at[c] = <<at[c][1], at[c][2]>> /\ at[c][1] \in Partitions
      /\ at[c][2] = committed[at[c][1]] + 1
  BY WorkingAt
<1>4. /\ at[c] \in activity.received
      /\ Event(at[c]).kind = "product_view_ended" =>
           at[c] \in activity.announced \cup activity.suppressed
  BY DEF AnswerInv, Idle
<1>5. ASSUME NEW id \in Published, id[2] <= committed'[id[1]], id # at[c]
      PROVE  id[2] <= committed[id[1]]
  <2>1. id = <<id[1], id[2]>> /\ id[1] \in Partitions /\ id[2] \in Nat
    BY PublishedIsId, LogLengths
  <2>2. committed[id[1]] \in Nat
    BY <2>1 DEF TypeOK
  <2>3. CASE id[1] = at[c][1]
    <3>1. committed'[id[1]] = committed[id[1]] + 1
      BY <1>3, <2>3 DEF TypeOK
    <3>2. id[2] # at[c][2]
      BY <1>3, <1>5, <2>1, <2>3
    <3>3. QED
      BY <1>3, <1>5, <2>1, <2>2, <2>3, <3>1, <3>2
  <2>4. CASE id[1] # at[c][1]
    BY <1>3, <1>5, <2>1, <2>4 DEF TypeOK
  <2>5. QED
    BY <2>3, <2>4
<1>6. CommittedEventsAnswered'
  BY <1>1, <1>4, <1>5 DEF CommittedEventsAnswered
<1>7. QED
  BY <1>2, <1>6

LEMMA ExitAnswersNothing ==
  ASSUME TypeOK, NEW c \in Consumers, Exit(c)
  PROVE  \A d \in Consumers : Unanswered(d)' \/ (pc'[d] = pc[d] /\ at'[d] = at[d])
BY DEF Exit, TypeOK, Unanswered

(* Recording adds to one kind and leaves the others. *)
LEMMA RecordedAdds ==
  ASSUME TypeOK, NEW id, NEW kind \in {"received", "announced", "suppressed"},
         Recorded(kind, id)
  PROVE  /\ activity.received \subseteq activity'.received
         /\ Answered \subseteq Answered'
         /\ kind = "received" => id \in activity'.received
         /\ kind # "received" => id \in Answered'
BY DEF Recorded, TypeOK, Answered

LEMMA AnswersInit == Init => AnswerInv /\ CommittedEventsAnswered
<1> SUFFICES ASSUME Init PROVE AnswerInv /\ CommittedEventsAnswered
  OBVIOUS
<1>1. AnswerInv
  BY DEF Init, AnswerInv, Idle
<1>2. Published = {}
  BY EmptySeq DEF Init, Published
<1>3. QED
  BY <1>1, <1>2 DEF CommittedEventsAnswered

LEMMA AnswersNext ==
  /\ TypeOK /\ ControlInv /\ OffsetInv /\ AnswerInv /\ CommittedEventsAnswered
  /\ [Next]_vars
  => AnswerInv' /\ CommittedEventsAnswered'
<1> SUFFICES ASSUME TypeOK, ControlInv, OffsetInv, AnswerInv, CommittedEventsAnswered,
                    [Next]_vars
             PROVE  AnswerInv' /\ CommittedEventsAnswered'
  OBVIOUS
<1> DEFINE Kept == AnswerInv' /\ CommittedEventsAnswered'
<1>1. ASSUME NEW e \in Traffic, Publish(e) PROVE Kept
  <2>1. UNCHANGED <<committed, activity, pc, at>>
    BY <1>1 DEF Publish
  <2>2. \A id \in Published : id \in Published' /\ Event(id)' = Event(id)
    BY <1>1, LogGrows
  <2>3. AnswerInv'
    BY <2>1, <2>2, BusyEvent DEF AnswerInv, Idle
  <2>4. ASSUME NEW id \in Published', id[2] <= committed[id[1]] PROVE id \in Published
    <3>1. /\ id[1] \in Partitions /\ id[2] \in 1..Len(log'[id[1]])
          /\ id = <<id[1], id[2]>>
      BY DEF Published
    <3>2. log'[id[1]] \in Seq(Events) /\ Len(log'[id[1]]) \in Nat
      BY <1>1, <3>1, LogGrows, LenProperties
    <3>3. committed[id[1]] \in Nat /\ committed[id[1]] <= Len(log[id[1]])
      BY <3>1 DEF OffsetInv, TypeOK
    <3>4. id[2] \in 1..Len(log[id[1]])
      BY <2>4, <3>1, <3>2, <3>3, LogLengths
    <3>5. QED
      BY <3>1, <3>4 DEF Published
  <2>5. CommittedEventsAnswered'
    BY <2>1, <2>2, <2>4 DEF CommittedEventsAnswered
  <2>6. QED
    BY <2>3, <2>5
<1>2. CASE Assign \/ Rebalance
  BY <1>2, AnswerStep DEF Assign, Rebalance, Answered
<1>3. ASSUME NEW c \in Consumers, Start(c) PROVE Kept
  BY <1>3, AnswerStep DEF Start, Answered, Unanswered, TypeOK
<1>4. ASSUME NEW c \in Consumers, Poll(c) PROVE Kept
  <2>1. \A d \in Consumers : Unanswered(d)' \/ (pc'[d] = pc[d] /\ at'[d] = at[d])
    BY <1>4 DEF Poll, Unanswered, TypeOK
  <2>2. QED
    BY <1>4, <2>1, AnswerStep DEF Poll, Answered
<1>5. ASSUME NEW c \in Consumers, Evaluate(c) PROVE Kept
  BY <1>5, AnswerStep DEF Evaluate, Answered, Unanswered, TypeOK
<1>6. ASSUME NEW c \in Consumers, Receive(c) PROVE Kept
  <2>1. Recorded("received", at[c]) /\ UNCHANGED <<log, committed, at>>
    BY <1>6 DEF Receive
  <2>2. pc'[c] # "commit" \/ ~ViewEnd(at[c])
    BY <1>6 DEF Receive, ViewEnd, TypeOK
  <2>3. \A d \in Consumers \ {c} : pc'[d] = pc[d]
    BY <1>6 DEF Receive, TypeOK
  <2>4. QED
    BY <2>1, <2>2, <2>3, RecordedAdds, AnswerStep
<1>7. ASSUME NEW c \in Consumers, Send(c) \/ Issue(c) \/ DeliveryRaises(c) PROVE Kept
  <2>1. at[c] \in activity.received
    BY <1>7 DEF AnswerInv, Idle, Send, Issue, DeliveryRaises
  <2>2. activity.received \subseteq activity'.received /\ Answered \subseteq Answered'
    BY <1>7, RecordedAdds DEF Send, Issue, DeliveryRaises, Answered
  <2>3. /\ UNCHANGED <<log, committed, at>> /\ pc'[c] # "commit"
        /\ \A d \in Consumers \ {c} : pc'[d] = pc[d]
    BY <1>7 DEF Send, Issue, DeliveryRaises, TypeOK
  <2>4. QED
    BY <2>1, <2>2, <2>3, AnswerStep
<1>8. ASSUME NEW c \in Consumers, Announce(c) \/ Suppress(c) PROVE Kept
  <2>1. at[c] \in activity.received
    BY <1>8 DEF AnswerInv, Idle, Announce, Suppress
  <2>2. Recorded("announced", at[c]) \/ Recorded("suppressed", at[c])
    BY <1>8 DEF Announce, Suppress
  <2>3. /\ activity.received \subseteq activity'.received /\ Answered \subseteq Answered'
        /\ at[c] \in Answered'
    BY <2>2, RecordedAdds
  <2>4. /\ UNCHANGED <<log, committed, at>>
        /\ \A d \in Consumers \ {c} : pc'[d] = pc[d]
    BY <1>8 DEF Announce, Suppress, TypeOK
  <2>5. QED
    BY <2>1, <2>3, <2>4, AnswerStep
<1>9. ASSUME NEW c \in Consumers, Commit(c) PROVE Kept
  <2>1. /\ Working(c) /\ pc[c] = "commit" /\ UNCHANGED <<log, activity>>
        /\ committed' = [committed EXCEPT ![at[c][1]] = at[c][2]]
    BY <1>9 DEF Commit, Working, Idle
  <2>2. \A d \in Consumers : Unanswered(d)' \/ (pc'[d] = pc[d] /\ at'[d] = at[d])
    BY <1>9 DEF Commit, TypeOK, Unanswered
  <2>3. QED
    BY <2>1, <2>2, AnswerCommitted
<1>10. ASSUME NEW c \in Consumers,
              CommitRefused(c) \/ Release(c) \/ ReleaseRaises(c) \/ Kill(c) \/ EvaluateRaises(c)
       PROVE  Kept
  <2>1. Exit(c) /\ UNCHANGED <<log, committed, activity>>
    BY <1>10 DEF CommitRefused, Release, ReleaseRaises, Kill, EvaluateRaises
  <2>2. QED
    BY <2>1, ExitAnswersNothing, AnswerStep DEF Answered
<1>11. ASSUME NEW c \in Consumers, StepRaises(c) PROVE Kept
  <2>1. Exit(c) /\ UNCHANGED log
    BY <1>11 DEF StepRaises
  <2>2. CASE UNCHANGED committed
    <3>1. activity.received \subseteq activity'.received /\ Answered \subseteq Answered'
      BY <1>11, RecordedAdds DEF StepRaises, Answered
    <3>2. QED
      BY <2>1, <2>2, <3>1, ExitAnswersNothing, AnswerStep
  <2>3. CASE /\ pc[c] = "commit" /\ c \notin fenced /\ UNCHANGED activity
             /\ committed' = [committed EXCEPT ![at[c][1]] = at[c][2]]
    BY <2>1, <2>3, ExitAnswersNothing, AnswerCommitted DEF Working, Idle
  <2>4. QED
    BY <1>11, <2>2, <2>3 DEF StepRaises
<1>12. CASE UNCHANGED vars
  BY <1>12, AnswerStep DEF vars, Answered
<1>13. CASE FreshGroup
  <2>1. /\ Published' = Published
        /\ \A id : Event(id)' = Event(id)
    BY <1>13, SameLog DEF FreshGroup
  <2>2. \A c \in Consumers : Idle(c)'
    BY <1>13 DEF FreshGroup, Idle
  <2>3. AnswerInv'
    BY <2>2 DEF AnswerInv, Idle
  <2>4. \A id \in Published : ~(id[2] <= committed'[id[1]])
    <3>1. \A id \in Published : id[1] \in Partitions /\ id[2] \in Nat \ {0}
      BY PublishedIsId DEF Ids
    <3>2. QED
      BY <1>13, <3>1 DEF FreshGroup
  <2>5. CommittedEventsAnswered'
    BY <2>1, <2>4 DEF CommittedEventsAnswered
  <2>6. QED
    BY <2>3, <2>5
<1>14. QED
  BY <1>1, <1>2, <1>3, <1>4, <1>5, <1>6, <1>7, <1>8, <1>9, <1>10, <1>11, <1>12, <1>13
  DEF Next, Works, Fails

(* At least once: an event the group has committed was recorded, and a     *)
(* view among them was answered with an announced coupon or a recorded     *)
(* suppression, whatever fails and whoever takes over the partition.       *)
THEOREM CommittedIsAnswered == Spec => []CommittedEventsAnswered
<1>1. Init => /\ TypeOK /\ ControlInv /\ OffsetInv
              /\ AnswerInv /\ CommittedEventsAnswered
  BY TypeInit, OffsetInit, AnswersInit
<1>2. /\ TypeOK /\ ControlInv /\ OffsetInv /\ AnswerInv /\ CommittedEventsAnswered
      /\ [Next]_vars
      => (TypeOK /\ ControlInv /\ OffsetInv /\ AnswerInv /\ CommittedEventsAnswered)'
  BY TypeStep, OffsetNext, AnswersNext
<1>3. QED
  BY <1>1, <1>2, PTL DEF Spec

-----------------------------------------------------------------------------
(* Claims are accounted for: AccountInv.                                   *)

(* A step that sets claims only for deliveries that go on or are given up, *)
(* and ends a delivery only with a coupon in the ledger, a record that it  *)
(* was given up, or its claim released.                                    *)
LEMMA AccountStep ==
  ASSUME TypeOK, AccountInv, ClaimIsAccountedFor, UNCHANGED log,
         ledger \subseteq ledger', abandoned \subseteq abandoned',
         \A o \in Offers : claims'[o] \notin {NoId, claims[o]} =>
           \E c \in Consumers : /\ o = OfferOf(at[c]) /\ claims'[o] = at[c]
                                /\ \/ Delivering(c)' /\ at'[c] = at[c]
                                   \/ at[c] \in abandoned',
         \A c \in Consumers : Delivering(c) =>
           \/ Delivering(c)' /\ at'[c] = at[c]
           \/ at[c] \in ledger' \cup abandoned'
           \/ claims'[OfferOf(at[c])] = NoId,
         \A c \in Consumers : Delivering(c)' /\ pc'[c] = "commit" => at'[c] \in ledger'
  PROVE  AccountInv' /\ ClaimIsAccountedFor'
<1>1. \A id : OfferOf(id)' = OfferOf(id)
  BY SameLog
<1>2. ASSUME NEW o \in Offers, claims'[o] # NoId PROVE OfferOf(claims'[o]) = o
  BY <1>2 DEF AccountInv
<1>3. ASSUME NEW o \in Offers, claims'[o] # NoId
      PROVE  \/ claims'[o] \in ledger' \cup abandoned'
             \/ \E c \in Consumers : at'[c] = claims'[o] /\ Delivering(c)'
  <2>1. CASE claims'[o] # claims[o]
    BY <1>3, <2>1
  <2>2. CASE claims'[o] = claims[o] /\ claims[o] \in ledger \cup abandoned
    BY <2>2
  <2>3. CASE claims'[o] = claims[o] /\ claims[o] \notin ledger \cup abandoned
    <3>1. PICK c \in Consumers : at[c] = claims[o] /\ Delivering(c)
      BY <1>3, <2>3 DEF ClaimIsAccountedFor, Delivering
    <3>2. OfferOf(at[c]) = o
      BY <1>3, <2>3, <3>1 DEF AccountInv
    <3>3. QED
      BY <1>3, <2>3, <3>1, <3>2
  <2>4. QED
    BY <2>1, <2>2, <2>3
<1>4. AccountInv'
  BY <1>1, <1>2 DEF AccountInv
<1>5. QED
  BY <1>3, <1>4 DEF ClaimIsAccountedFor, Delivering

(* A step that leaves the claims and the deliveries as they are. *)
LEMMA SteadyAccount ==
  ASSUME TypeOK, AccountInv, ClaimIsAccountedFor,
         UNCHANGED <<log, claims>>,
         ledger \subseteq ledger', abandoned \subseteq abandoned',
         \A c \in Consumers : Delivering(c) => Delivering(c)' /\ at'[c] = at[c],
         \A c \in Consumers : Delivering(c)' =>
           \/ pc'[c] # "commit"
           \/ at'[c] \in ledger'
           \/ Delivering(c) /\ pc[c] = "commit" /\ at'[c] = at[c]
  PROVE  AccountInv' /\ ClaimIsAccountedFor'
<1>1. \A c \in Consumers : Delivering(c)' /\ pc'[c] = "commit" => at'[c] \in ledger'
  BY DEF AccountInv
<1>2. QED
  BY <1>1, AccountStep

(* A process ends and its delivery, if any, is accounted for. *)
LEMMA ExitAccount ==
  ASSUME TypeOK, AccountInv, ClaimIsAccountedFor,
         NEW c \in Consumers, Exit(c), UNCHANGED <<log, ledger>>,
         abandoned \subseteq abandoned',
         \A o \in Offers : claims'[o] \notin {NoId, claims[o]} =>
           o = OfferOf(at[c]) /\ claims'[o] = at[c] /\ at[c] \in abandoned',
         Delivering(c) => \/ at[c] \in ledger \cup abandoned'
                          \/ claims'[OfferOf(at[c])] = NoId
  PROVE  AccountInv' /\ ClaimIsAccountedFor'
<1>1. \A d \in Consumers \ {c} : /\ pc'[d] = pc[d] /\ at'[d] = at[d]
                                 /\ Delivering(d)' <=> Delivering(d)
  BY DEF Exit, Delivering, TypeOK
<1>2. ~Delivering(c)'
  BY DEF Exit, Delivering, TypeOK
<1>3. \A d \in Consumers : Delivering(d) =>
        \/ Delivering(d)' /\ at'[d] = at[d]
        \/ at[d] \in ledger' \cup abandoned'
        \/ claims'[OfferOf(at[d])] = NoId
  BY <1>1
<1>4. \A d \in Consumers : Delivering(d)' /\ pc'[d] = "commit" => at'[d] \in ledger'
  BY <1>1, <1>2 DEF AccountInv
<1>5. \A o \in Offers : claims'[o] \notin {NoId, claims[o]} =>
        \E d \in Consumers : /\ o = OfferOf(at[d]) /\ claims'[o] = at[d]
                             /\ \/ Delivering(d)' /\ at'[d] = at[d]
                                \/ at[d] \in abandoned'
  OBVIOUS
<1>6. QED
  BY <1>3, <1>4, <1>5, AccountStep

LEMMA AbandonAdds ==
  ASSUME NEW c \in Consumers, Abandon(c)
  PROVE  /\ abandoned \subseteq abandoned'
         /\ Delivering(c) /\ pc[c] # "commit" => at[c] \in abandoned'
BY DEF Abandon, Delivering

LEMMA AccountInit == Init => AccountInv /\ ClaimIsAccountedFor
BY DEF Init, AccountInv, ClaimIsAccountedFor, Delivering

LEMMA AccountNext ==
  TypeOK /\ ControlInv /\ OrderInv /\ AccountInv /\ ClaimIsAccountedFor /\ [Next]_vars
    => AccountInv' /\ ClaimIsAccountedFor'
<1> SUFFICES ASSUME TypeOK, ControlInv, OrderInv, AccountInv, ClaimIsAccountedFor, [Next]_vars
             PROVE  AccountInv' /\ ClaimIsAccountedFor'
  OBVIOUS
<1> DEFINE Kept == AccountInv' /\ ClaimIsAccountedFor'
<1>1. ASSUME NEW e \in Traffic, Publish(e) PROVE Kept
  <2>1. \A id \in Published : OfferOf(id)' = OfferOf(id)
    BY <1>1, LogGrows
  <2>2. UNCHANGED <<claims, ledger, abandoned, pc, at, support>>
    BY <1>1 DEF Publish
  <2>3. \A o \in Offers : claims[o] \in Published \cup {NoId}
    BY DEF TypeOK
  <2>4. AccountInv'
    BY <2>1, <2>2, <2>3 DEF AccountInv, Delivering
  <2>5. ClaimIsAccountedFor'
    BY <2>2 DEF ClaimIsAccountedFor
  <2>6. QED
    BY <2>4, <2>5
<1>2. CASE Assign \/ Rebalance \/ FreshGroup
  <2>1. UNCHANGED <<log, claims, ledger, abandoned, pc, at, support>>
    BY <1>2 DEF Assign, Rebalance, FreshGroup
  <2>2. QED
    BY <2>1, SteadyAccount DEF Delivering
<1>3. ASSUME NEW c \in Consumers, Start(c) PROVE Kept
  <2>1. UNCHANGED <<log, claims, ledger, abandoned, at, support>>
    BY <1>3 DEF Start
  <2>2. \A d \in Consumers : pc'[d] = pc[d] \/ pc'[d] = "poll"
    BY <1>3 DEF Start, TypeOK
  <2>3. QED
    BY <2>1, <2>2, SteadyAccount DEF Delivering
<1>4. ASSUME NEW c \in Consumers, Poll(c) PROVE Kept
  <2>1. UNCHANGED <<log, claims, ledger, abandoned, support>> /\ ~Delivering(c)
    BY <1>4 DEF Poll, ControlInv
  <2>2. pc'[c] = "evaluate" /\ \A d \in Consumers \ {c} : pc'[d] = pc[d] /\ at'[d] = at[d]
    BY <1>4 DEF Poll, TypeOK
  <2>3. QED
    BY <2>1, <2>2, SteadyAccount DEF Delivering
<1>5. ASSUME NEW c \in Consumers, Evaluate(c) PROVE Kept
  <2>1. /\ UNCHANGED <<log, ledger, abandoned, at>>
        /\ pc' = [pc EXCEPT ![c] = "receive"]
    BY <1>5 DEF Evaluate
  <2>2. ~Delivering(c) /\ at[c] # NoId
    BY <1>5 DEF Evaluate, ControlInv, Idle
  <2>3. pc'[c] = "receive" /\ \A d \in Consumers \ {c} : pc'[d] = pc[d]
    BY <2>1 DEF TypeOK
  <2>4. CASE UNCHANGED <<claims, support, aborted>>
    BY <2>1, <2>3, <2>4, SteadyAccount DEF Delivering
  <2>5. CASE /\ claims' = [claims EXCEPT ![OfferOf(at[c])] = at[c]]
             /\ \E item \in Products : support' = [support EXCEPT ![c] = item]
    <3>1. \A o \in Offers : claims'[o] # claims[o] => o = OfferOf(at[c]) /\ claims'[o] = at[c]
      BY <2>5 DEF TypeOK
    <3>2. Delivering(c)' /\ \A d \in Consumers \ {c} : Delivering(d)' <=> Delivering(d)
      BY <2>5, PipelineAssumption DEF Delivering, TypeOK
    <3>3. \A d \in Consumers : Delivering(d) => Delivering(d)' /\ at'[d] = at[d]
      BY <2>1, <3>2
    <3>4. \A d \in Consumers : Delivering(d)' /\ pc'[d] = "commit" => at'[d] \in ledger'
      BY <2>1, <2>3, <3>2 DEF AccountInv
    <3>5. \A o \in Offers : claims'[o] \notin {NoId, claims[o]} =>
            \E d \in Consumers : /\ o = OfferOf(at[d]) /\ claims'[o] = at[d]
                                 /\ \/ Delivering(d)' /\ at'[d] = at[d]
                                    \/ at[d] \in abandoned'
      BY <2>1, <3>1, <3>2
    <3>6. QED
      BY <2>1, <3>3, <3>4, <3>5, AccountStep
  <2>6. QED
    BY <1>5, <2>4, <2>5, EvaluateOutcome
<1>6. ASSUME NEW c \in Consumers, Receive(c) PROVE Kept
  <2>1. UNCHANGED <<log, claims, ledger, abandoned, at, support>>
    BY <1>6 DEF Receive
  <2>2. /\ Delivering(c) => pc'[c] # "commit"
        /\ \A d \in Consumers \ {c} : pc'[d] = pc[d]
    BY <1>6 DEF Receive, TypeOK, Delivering
  <2>3. QED
    BY <2>1, <2>2, SteadyAccount DEF Delivering
<1>7. ASSUME NEW c \in Consumers, Send(c) \/ Issue(c) \/ DeliveryRaises(c) PROVE Kept
  <2>1. UNCHANGED <<log, claims, abandoned, at, support>> /\ ledger \subseteq ledger'
    BY <1>7 DEF Send, Issue, DeliveryRaises
  <2>2. pc'[c] # "commit" /\ \A d \in Consumers \ {c} : pc'[d] = pc[d]
    BY <1>7 DEF Send, Issue, DeliveryRaises, TypeOK
  <2>3. QED
    BY <2>1, <2>2, SteadyAccount DEF Delivering
<1>8. ASSUME NEW c \in Consumers, Announce(c) PROVE Kept
  <2>1. UNCHANGED <<log, claims, ledger, abandoned, at, support>> /\ at[c] \in ledger
    BY <1>8 DEF Announce, OrderInv
  <2>2. \A d \in Consumers \ {c} : pc'[d] = pc[d]
    BY <1>8 DEF Announce, TypeOK
  <2>3. QED
    BY <2>1, <2>2, SteadyAccount DEF Delivering
<1>9. ASSUME NEW c \in Consumers, Suppress(c) PROVE Kept
  <2>1. UNCHANGED <<log, claims, ledger, abandoned, at, support>> /\ ~Delivering(c)
    BY <1>9 DEF Suppress, ControlInv
  <2>2. \A d \in Consumers \ {c} : pc'[d] = pc[d]
    BY <1>9 DEF Suppress, TypeOK
  <2>3. QED
    BY <2>1, <2>2, SteadyAccount DEF Delivering
<1>10. ASSUME NEW c \in Consumers, Commit(c) PROVE Kept
  <2>1. UNCHANGED <<log, claims, ledger, abandoned>>
    BY <1>10 DEF Commit
  <2>2. /\ ~Delivering(c)' /\ (Delivering(c) => at[c] \in ledger)
        /\ \A d \in Consumers \ {c} : /\ pc'[d] = pc[d] /\ at'[d] = at[d]
                                      /\ Delivering(d)' <=> Delivering(d)
    BY <1>10 DEF Commit, AccountInv, Delivering, TypeOK
  <2>3. \A d \in Consumers : Delivering(d)' /\ pc'[d] = "commit" => at'[d] \in ledger'
    BY <2>1, <2>2 DEF AccountInv
  <2>4. QED
    BY <2>1, <2>2, <2>3, AccountStep
<1>11. ASSUME NEW c \in Consumers, CommitRefused(c) PROVE Kept
  BY <1>11, ExitAccount DEF CommitRefused, AccountInv
<1>12. ASSUME NEW c \in Consumers, Release(c) \/ ReleaseRaises(c) PROVE Kept
  <2>1. /\ pc[c] = "release" /\ Exit(c) /\ UNCHANGED <<log, ledger>>
        /\ at[c] \in Published /\ OfferOf(at[c]) \in Offers
    BY <1>12, BusyEvent DEF Release, ReleaseRaises, Idle
  <2>2. CASE claims' = [claims EXCEPT ![OfferOf(at[c])] = NoId] /\ UNCHANGED abandoned
    <3>1. claims'[OfferOf(at[c])] = NoId
          /\ \A o \in Offers : claims'[o] \in {NoId, claims[o]}
      BY <2>1, <2>2 DEF TypeOK
    <3>2. QED
      BY <2>1, <2>2, <3>1, ExitAccount
  <2>3. CASE Abandon(c) /\ UNCHANGED claims
    BY <2>1, <2>3, AbandonAdds, ExitAccount
  <2>4. QED
    BY <1>12, <2>2, <2>3 DEF Release, ReleaseRaises
<1>13. ASSUME NEW c \in Consumers, Kill(c) PROVE Kept
  <2>1. Exit(c) /\ Abandon(c) /\ UNCHANGED <<log, ledger, claims>>
    BY <1>13 DEF Kill
  <2>2. QED
    BY <2>1, AbandonAdds, ExitAccount DEF AccountInv
<1>14. ASSUME NEW c \in Consumers, EvaluateRaises(c) PROVE Kept
  <2>1. Exit(c) /\ UNCHANGED <<log, ledger>> /\ ~Delivering(c)
    BY <1>14 DEF EvaluateRaises, ControlInv
  <2>2. CASE UNCHANGED <<claims, aborted, abandoned>>
    BY <2>1, <2>2, ExitAccount
  <2>3. CASE /\ claims' = [claims EXCEPT ![OfferOf(at[c])] = at[c]]
             /\ abandoned' = abandoned \cup {at[c]}
    <3>1. \A o \in Offers : claims'[o] # claims[o] => o = OfferOf(at[c]) /\ claims'[o] = at[c]
      BY <2>3 DEF TypeOK
    <3>2. QED
      BY <2>1, <2>3, <3>1, ExitAccount
  <2>4. QED
    BY <1>14, <2>2, <2>3 DEF EvaluateRaises
<1>15. ASSUME NEW c \in Consumers, StepRaises(c) PROVE Kept
  <2>1. Exit(c) /\ UNCHANGED <<log, ledger, claims>>
    BY <1>15 DEF StepRaises
  <2>2. CASE pc[c] = "receive" /\ Abandon(c)
    BY <2>1, <2>2, AbandonAdds, ExitAccount
  <2>3. CASE pc[c] \in {"suppress", "commit"} /\ UNCHANGED abandoned
    BY <2>1, <2>3, ExitAccount DEF AccountInv, ControlInv
  <2>4. QED
    BY <1>15, <2>2, <2>3 DEF StepRaises
<1>16. CASE UNCHANGED vars
  BY <1>16, SteadyAccount DEF vars, Delivering
<1>17. QED
  BY <1>1, <1>2, <1>3, <1>4, <1>5, <1>6, <1>7, <1>8, <1>9, <1>10, <1>11, <1>12,
     <1>13, <1>14, <1>15, <1>16
  DEF Next, Works, Fails

(* A claim that keeps later offers away stands for a coupon in the ledger, *)
(* for a delivery in progress, or for a process that ended outside the     *)
(* handler that releases claims: no other path leaves one behind.          *)
THEOREM ClaimsAreAccountedFor == Spec => []ClaimIsAccountedFor
<1> DEFINE Inv == /\ TypeOK /\ ControlInv /\ OrderInv /\ ShownCouponIsRedeemable
                  /\ AccountInv /\ ClaimIsAccountedFor
<1>1. Init => Inv
  BY TypeInit, OrderInit, AccountInit
<1>2. Inv /\ [Next]_vars => Inv'
  BY TypeStep, OrderNext, AccountNext
<1>3. Inv => ClaimIsAccountedFor
  OBVIOUS
<1>4. QED
  BY <1>1, <1>2, <1>3, PTL DEF Spec

(* The whole inductive invariant: what each consumer carries at each step, *)
(* the claim it holds while it delivers, the order of its three writes,    *)
(* the offset it will commit, what it has recorded by then and what its    *)
(* claims stand for.                                                       *)
THEOREM DeliveryIsCorrect == Spec => []DeliveryInvariant
<1> DEFINE Inv == /\ TypeOK /\ ControlInv /\ ClaimInv /\ LiveInv
                  /\ OrderInv /\ ShownCouponIsRedeemable
                  /\ OffsetInv /\ AnswerInv /\ CommittedEventsAnswered
                  /\ AccountInv /\ ClaimIsAccountedFor
<1>1. Init => Inv
  BY TypeInit, ClaimsInit, OrderInit, OffsetInit, AnswersInit, AccountInit
<1>2. Inv /\ [Next]_vars => Inv'
  BY TypeStep, ClaimsStep, OrderNext, OffsetNext, AnswersNext, AccountNext
<1>3. Inv => DeliveryInvariant
  BY DEF DeliveryInvariant
<1>4. QED
  BY <1>1, <1>2, <1>3, PTL DEF Spec

-----------------------------------------------------------------------------
(* A group that has lost nothing: what it offers, in terms of the stream.  *)
(*                                                                         *)
(* The argument: an event of the stream says what the cart of its session  *)
(* holds given the session's event before it (StreamInv); while nothing    *)
(* fails every partition stays with one consumer, which reads it in order  *)
(* (CalmInv); so the engine's cart of a session it still lists is what the *)
(* stream says there, and it has dropped a session only for MaxUsers       *)
(* others (EngineInv); hence it decides a view of a remembered session as  *)
(* the stream does, and either claims the offer or finds it claimed by an  *)
(* earlier view whose coupon is on its way (OfferInv).                     *)

(* The list of an engine: no session twice, and no more than it may hold.  *)
Listed(seq) ==
  /\ seq \in Seq(Sessions)
  /\ Len(seq) <= MaxUsers
  /\ \A i, j \in 1..Len(seq) : seq[i] = seq[j] => i = j

Has(seq, s) == \E i \in 1..Len(seq) : seq[i] = s

(* The sessions touched after s. *)
Behind(seq, s) ==
  {x \in Sessions : \E k, l \in 1..Len(seq) : k < l /\ seq[k] = s /\ seq[l] = x}

LEMMA HasIsIn ==
  ASSUME NEW seq \in Seq(Sessions), NEW s
  PROVE  s \in ToSet(seq) <=> Has(seq, s)
<1>1. DOMAIN seq = 1..Len(seq)
  BY LenProperties
<1>2. QED
  BY <1>1 DEF ToSet, Has

(* Taking a session out of the list leaves the others in their order. *)
LEMMA TakenOut ==
  ASSUME NEW seq, Listed(seq), NEW i \in 1..Len(seq)
  PROVE  /\ RemoveAt(seq, i) \in Seq(Sessions)
         /\ Len(RemoveAt(seq, i)) = Len(seq) - 1
         /\ \A k \in 1..(Len(seq) - 1) :
              RemoveAt(seq, i)[k] = IF k < i THEN seq[k] ELSE seq[k + 1]
<1>1. Len(seq) \in Nat /\ \A j \in 1..Len(seq) : seq[j] \in Sessions
  BY LenProperties, ElementOfSeq DEF Listed
<1> DEFINE front == SubSeq(seq, 1, i - 1)
           back == SubSeq(seq, i + 1, Len(seq))
<1>2. /\ front \in Seq(Sessions) /\ Len(front) = i - 1
      /\ \A k \in 1..(i - 1) : front[k] = seq[k]
  <2>1. \A k \in 1..(i - 1) : seq[k] \in Sessions
    BY <1>1
  <2>2. 1 \in Int /\ i - 1 \in Int
    BY <1>1
  <2>3. /\ front \in Seq(Sessions)
        /\ Len(front) = IF 1 <= i - 1 THEN i - 1 - 1 + 1 ELSE 0
        /\ \A k \in 1..(i - 1 - 1 + 1) : front[k] = seq[1 + k - 1]
    BY <2>1, <2>2, SubSeqProperties
  <2> HIDE DEF front
  <2>4. QED
    BY <1>1, <2>3
<1>3. /\ back \in Seq(Sessions) /\ Len(back) = Len(seq) - i
      /\ \A k \in 1..(Len(seq) - i) : back[k] = seq[i + k]
  <2>1. \A k \in (i + 1)..Len(seq) : seq[k] \in Sessions
    BY <1>1
  <2>2. i + 1 \in Int /\ Len(seq) \in Int
    BY <1>1
  <2>3. /\ back \in Seq(Sessions)
        /\ Len(back) = IF i + 1 <= Len(seq) THEN Len(seq) - (i + 1) + 1 ELSE 0
        /\ \A k \in 1..(Len(seq) - (i + 1) + 1) : back[k] = seq[(i + 1) + k - 1]
    BY <2>1, <2>2, SubSeqProperties
  <2> HIDE DEF back
  <2>4. QED
    BY <1>1, <2>3
<1> HIDE DEF front, back
<1>4. /\ front \o back \in Seq(Sessions)
      /\ Len(front \o back) = Len(front) + Len(back)
      /\ \A k \in 1..(Len(front) + Len(back)) :
           (front \o back)[k] = IF k <= Len(front) THEN front[k] ELSE back[k - Len(front)]
  BY <1>2, <1>3, ConcatProperties
<1>5. RemoveAt(seq, i) = front \o back
  BY DEF RemoveAt, front, back
<1>6. Len(front \o back) = Len(seq) - 1
  BY <1>1, <1>2, <1>3, <1>4
<1>7. ASSUME NEW k \in 1..(Len(seq) - 1)
      PROVE  (front \o back)[k] = IF k < i THEN seq[k] ELSE seq[k + 1]
  <2>1. k \in 1..(Len(front) + Len(back))
    BY <1>1, <1>2, <1>3
  <2>2. CASE k < i
    BY <1>1, <1>2, <1>4, <2>1, <2>2
  <2>3. CASE ~(k < i)
    <3>1. k - Len(front) \in 1..(Len(seq) - i) /\ i + (k - Len(front)) = k + 1
      BY <1>1, <1>2, <2>3
    <3>2. (front \o back)[k] = back[k - Len(front)]
      BY <1>1, <1>2, <1>4, <2>1, <2>3
    <3>3. QED
      BY <1>3, <2>3, <3>1, <3>2
  <2>4. QED
    BY <2>2, <2>3
<1>8. QED
  BY <1>4, <1>5, <1>6, <1>7

(* What setdefault and move_to_end leave: the others in their order, and s *)
(* at the end.                                                             *)
LEMMA MovedToEnd ==
  ASSUME NEW seq, Listed(seq), NEW s \in Sessions
  PROVE  \E a \in Seq(Sessions), n \in Nat :
           /\ Touch(seq, s) = EvictOldest(a)
           /\ Len(a) = n + 1 /\ a[n + 1] = s
           /\ \A k \in 1..n : a[k] \in Sessions /\ a[k] # s
           /\ IF Has(seq, s)
                THEN /\ n = Len(seq) - 1
                     /\ \E i \in 1..Len(seq) : seq[i] = s /\ \A k \in 1..n :
                          a[k] = IF k < i THEN seq[k] ELSE seq[k + 1]
                ELSE n = Len(seq) /\ \A k \in 1..n : a[k] = seq[k]
<1>1. Len(seq) \in Nat /\ \A j \in 1..Len(seq) : seq[j] \in Sessions
  BY LenProperties, ElementOfSeq DEF Listed
<1> DEFINE others == IF \E i \in 1..Len(seq) : seq[i] = s
                       THEN RemoveAt(seq, CHOOSE i \in 1..Len(seq) : seq[i] = s)
                       ELSE seq
           a == Append(others, s)
<1>2. Touch(seq, s) = EvictOldest(a)
  BY DEF Touch
<1>3. CASE Has(seq, s)
  <2> DEFINE i == CHOOSE i \in 1..Len(seq) : seq[i] = s
  <2>1. i \in 1..Len(seq) /\ seq[i] = s
    BY <1>3 DEF Has
  <2>2. others = RemoveAt(seq, i)
    BY <1>3 DEF Has
  <2> HIDE DEF i
  <2>3. /\ others \in Seq(Sessions) /\ Len(others) = Len(seq) - 1
        /\ \A k \in 1..(Len(seq) - 1) :
             others[k] = IF k < i THEN seq[k] ELSE seq[k + 1]
    BY <2>1, <2>2, TakenOut
  <2> HIDE DEF others
  <2>4. /\ a \in Seq(Sessions) /\ Len(a) = Len(others) + 1 /\ a[Len(others) + 1] = s
        /\ \A k \in 1..Len(others) : a[k] = others[k]
    BY <2>3, AppendProperties
  <2> HIDE DEF a
  <2>5. Len(seq) - 1 \in Nat
    BY <1>1, <2>1
  <2>7. \A k \in 1..(Len(seq) - 1) : a[k] = IF k < i THEN seq[k] ELSE seq[k + 1]
    BY <2>3, <2>4
  <2>6. ASSUME NEW k \in 1..(Len(seq) - 1) PROVE a[k] \in Sessions /\ a[k] # s
    <3>1. \A j \in 1..Len(seq) : seq[j] = seq[i] => j = i
      BY <2>1 DEF Listed
    <3>2. CASE k < i
      BY <1>1, <2>1, <2>7, <3>1, <3>2
    <3>3. CASE ~(k < i)
      <4>1. k + 1 \in 1..Len(seq) /\ k + 1 # i
        BY <1>1, <2>1, <3>3
      <4>2. a[k] = seq[k + 1]
        BY <2>7, <3>3
      <4>3. QED
        BY <1>1, <2>1, <3>1, <4>1, <4>2
    <3>4. QED
      BY <3>2, <3>3
  <2>8. Len(a) = (Len(seq) - 1) + 1 /\ a[(Len(seq) - 1) + 1] = s
    BY <2>3, <2>4
  <2>9. QED
    BY <1>2, <1>3, <2>1, <2>4, <2>5, <2>6, <2>7, <2>8
<1>4. CASE ~Has(seq, s)
  <2>1. others = seq
    BY <1>4 DEF Has
  <2>2. seq \in Seq(Sessions)
    BY DEF Listed
  <2> HIDE DEF others
  <2>3. /\ a \in Seq(Sessions) /\ Len(a) = Len(seq) + 1 /\ a[Len(seq) + 1] = s
        /\ \A k \in 1..Len(seq) : a[k] = seq[k]
    BY <2>1, <2>2, AppendProperties
  <2> HIDE DEF a
  <2>4. QED
    BY <1>1, <1>2, <1>4, <2>3 DEF Has
<1>5. QED
  BY <1>3, <1>4

(* The list after an event of s. *)
LEMMA TouchListed ==
  ASSUME NEW seq, Listed(seq), NEW s \in Sessions
  PROVE  /\ Listed(Touch(seq, s))
         /\ Has(Touch(seq, s), s)
         /\ Behind(Touch(seq, s), s) = {}
         /\ \A x \in Sessions \ {s} : Has(Touch(seq, s), x) =>
              Has(seq, x) /\ Behind(Touch(seq, s), x) \subseteq Behind(seq, x) \cup {s}
         /\ \A x \in Sessions \ {s} : Has(seq, x) /\ ~Has(Touch(seq, s), x) =>
              Len(seq) = MaxUsers /\ seq[1] = x /\ ~Has(seq, s)
<1>1. Len(seq) \in Nat /\ \A j \in 1..Len(seq) : seq[j] \in Sessions
  BY LenProperties, ElementOfSeq DEF Listed
<1>2. MaxUsers \in Nat \ {0}
  BY PipelineAssumption
<1>3. PICK a \in Seq(Sessions), n \in Nat :
        /\ Touch(seq, s) = EvictOldest(a)
        /\ Len(a) = n + 1 /\ a[n + 1] = s
        /\ \A k \in 1..n : a[k] \in Sessions /\ a[k] # s
        /\ IF Has(seq, s)
             THEN /\ n = Len(seq) - 1
                  /\ \E i \in 1..Len(seq) : seq[i] = s /\ \A k \in 1..n :
                       a[k] = IF k < i THEN seq[k] ELSE seq[k + 1]
             ELSE n = Len(seq) /\ \A k \in 1..n : a[k] = seq[k]
  BY MovedToEnd
(* Every other element comes from seq, in the order of seq. *)
<1>4. PICK from \in [1..n -> 1..Len(seq)] :
        \A k, l \in 1..n : a[k] = seq[from[k]] /\ (k < l => from[k] < from[l])
  <2>1. CASE Has(seq, s)
    <3>1. PICK i \in 1..Len(seq) : seq[i] = s /\ \A k \in 1..n :
                       a[k] = IF k < i THEN seq[k] ELSE seq[k + 1]
      BY <1>3, <2>1
    <3> DEFINE g == [k \in 1..n |-> IF k < i THEN k ELSE k + 1]
    <3>2. g \in [1..n -> 1..Len(seq)]
      BY <1>1, <1>3, <2>1
    <3>3. \A k, l \in 1..n : a[k] = seq[g[k]] /\ (k < l => g[k] < g[l])
      BY <3>1
    <3> HIDE DEF g
    <3>4. QED
      BY <3>2, <3>3
  <2>2. CASE ~Has(seq, s)
    <3> DEFINE g == [k \in 1..n |-> k]
    <3>1. g \in [1..n -> 1..Len(seq)]
      BY <1>1, <1>3, <2>2
    <3>2. \A k, l \in 1..n : a[k] = seq[g[k]] /\ (k < l => g[k] < g[l])
      BY <1>3, <2>2
    <3> HIDE DEF g
    <3>3. QED
      BY <3>1, <3>2
  <2>3. QED
    BY <2>1, <2>2
<1>5. \A k \in 1..n : from[k] \in 1..Len(seq)
  OBVIOUS
<1>6. \A k, l \in 1..(n + 1) : a[k] = a[l] => k = l
  <2> SUFFICES ASSUME NEW k \in 1..(n + 1), NEW l \in 1..(n + 1), a[k] = a[l], k < l
               PROVE  FALSE
    OBVIOUS
  <2>1. k \in 1..n
    OBVIOUS
  <2>2. l \in 1..n
    <3>1. l # n + 1
      BY <1>3, <2>1
    <3>2. QED
      BY <3>1
  <2>3. from[k] < from[l] /\ seq[from[k]] = seq[from[l]]
    BY <1>4, <2>1, <2>2
  <2>4. from[k] = from[l]
    BY <1>5, <2>1, <2>2, <2>3 DEF Listed
  <2>5. QED
    BY <1>1, <1>5, <2>1, <2>2, <2>3, <2>4
(* The list itself, which begins d places later if one was evicted. *)
<1>7. PICK t \in Seq(Sessions), d \in {0, 1} :
        /\ Touch(seq, s) = t
        /\ Len(t) = n + 1 - d /\ Len(t) <= MaxUsers /\ Len(t) >= 1
        /\ \A k \in 1..Len(t) : t[k] = a[k + d]
        /\ d = 1 => n = MaxUsers /\ n = Len(seq) /\ ~Has(seq, s)
  <2>1. n <= MaxUsers /\ (Has(seq, s) => n < MaxUsers) /\ (~Has(seq, s) => n = Len(seq))
    BY <1>1, <1>2, <1>3 DEF Listed
  <2>2. CASE n + 1 > MaxUsers
    <3>1. n = MaxUsers /\ n = Len(seq) /\ ~Has(seq, s)
      BY <1>2, <2>1, <2>2
    <3>2. Touch(seq, s) = Tail(a)
      BY <1>3, <2>2 DEF EvictOldest
    <3>3. a # <<>>
      BY <1>3, EmptySeq
    <3>4. /\ Tail(a) \in Seq(Sessions) /\ Len(Tail(a)) = Len(a) - 1
          /\ \A i \in 1..Len(Tail(a)) : Tail(a)[i] = a[i + 1]
      BY <3>3, HeadTailProperties
    <3>5. Len(Tail(a)) = n + 1 - 1 /\ Len(Tail(a)) <= MaxUsers /\ Len(Tail(a)) >= 1
      BY <1>2, <1>3, <3>1, <3>4
    <3>6. QED
      BY <3>1, <3>2, <3>4, <3>5
  <2>3. CASE ~(n + 1 > MaxUsers)
    <3>1. Touch(seq, s) = a
      BY <1>3, <2>3 DEF EvictOldest
    <3>2. /\ Len(a) = n + 1 - 0 /\ Len(a) <= MaxUsers /\ Len(a) >= 1
          /\ \A k \in 1..Len(a) : a[k] = a[k + 0]
      BY <1>2, <1>3, <2>3
    <3>3. QED
      BY <3>1, <3>2
  <2>4. QED
    BY <2>2, <2>3
<1>14. /\ Len(t) \in Nat /\ d \in {0, 1} /\ Len(t) = n + 1 - d
       /\ \A k \in 1..Len(t) : k + d \in 1..(n + 1) /\ t[k] = a[k + d]
  BY <1>7
<1>8. Listed(t)
  <2>1. \A k, l \in 1..Len(t) : t[k] = t[l] => k = l
    <3> SUFFICES ASSUME NEW k \in 1..Len(t), NEW l \in 1..Len(t), t[k] = t[l]
                 PROVE  k = l
      OBVIOUS
    <3>1. k + d \in 1..(n + 1) /\ l + d \in 1..(n + 1) /\ a[k + d] = a[l + d]
      BY <1>14
    <3>2. k + d = l + d
      BY <1>6, <3>1
    <3>3. QED
      BY <1>14, <3>2
  <2>2. QED
    BY <1>7, <2>1 DEF Listed
<1>9. Len(t) + d = n + 1 /\ t[Len(t)] = s /\ Has(t, s)
  BY <1>3, <1>7 DEF Has
<1>10. Behind(t, s) = {}
  <2>1. \A k \in 1..Len(t) : t[k] = s => k = Len(t)
    BY <1>7, <1>8, <1>9 DEF Listed
  <2>2. \A k, l \in 1..Len(t) : ~(k < l /\ k = Len(t))
    BY <1>14
  <2>3. QED
    BY <2>1, <2>2 DEF Behind
<1>11. \A x \in Sessions \ {s} : Has(t, x) =>
         Has(seq, x) /\ Behind(t, x) \subseteq Behind(seq, x) \cup {s}
  <2> SUFFICES ASSUME NEW x \in Sessions \ {s}, NEW k \in 1..Len(t), t[k] = x
               PROVE  Has(seq, x) /\ Behind(t, x) \subseteq Behind(seq, x) \cup {s}
    BY DEF Has
  <2>1. k + d \in 1..n /\ a[k + d] = x
    <3>1. k + d \in 1..(n + 1) /\ a[k + d] = x
      BY <1>7
    <3>2. k + d # n + 1
      BY <1>3, <3>1
    <3>3. QED
      BY <3>1, <3>2
  <2>2. Has(seq, x)
    BY <1>4, <1>5, <2>1 DEF Has
  <2>3. ASSUME NEW y \in Behind(t, x), y # s PROVE y \in Behind(seq, x)
    <3>1. PICK i, l \in 1..Len(t) : i < l /\ t[i] = x /\ t[l] = y
      BY <2>3 DEF Behind
    <3>2. /\ i + d \in 1..(n + 1) /\ a[i + d] = x
          /\ l + d \in 1..(n + 1) /\ a[l + d] = y /\ i + d < l + d
      <4>1. i + d \in 1..(n + 1) /\ a[i + d] = x
        BY <1>14, <3>1
      <4>2. l + d \in 1..(n + 1) /\ a[l + d] = y
        BY <1>14, <3>1
      <4>3. i + d < l + d
        <5>1. i \in Nat /\ l \in Nat /\ d \in Nat /\ i < l
          BY <1>14, <3>1
        <5>2. QED
          BY <5>1
      <4>4. QED
        BY <4>1, <4>2, <4>3
    <3>3. i + d \in 1..n /\ l + d \in 1..n
      <4>1. i + d # n + 1 /\ l + d # n + 1
        BY <1>3, <2>3, <3>2
      <4>2. QED
        BY <3>2, <4>1
    <3>4. /\ from[i + d] \in 1..Len(seq) /\ from[l + d] \in 1..Len(seq)
          /\ from[i + d] < from[l + d]
          /\ seq[from[i + d]] = x /\ seq[from[l + d]] = y
      BY <1>4, <1>5, <3>2, <3>3
    <3>5. y \in Sessions
      BY <2>3 DEF Behind
    <3>6. QED
      BY <3>4, <3>5 DEF Behind
  <2>4. QED
    BY <2>2, <2>3
<1>12. \A x \in Sessions \ {s} : Has(seq, x) /\ ~Has(t, x) =>
         Len(seq) = MaxUsers /\ seq[1] = x /\ ~Has(seq, s)
  <2> SUFFICES ASSUME NEW x \in Sessions \ {s}, NEW j \in 1..Len(seq), seq[j] = x,
                      ~Has(t, x)
               PROVE  Len(seq) = MaxUsers /\ seq[1] = x /\ ~Has(seq, s)
    BY DEF Has
  <2>1. PICK k \in 1..n : a[k] = x
    <3>1. CASE Has(seq, s)
      <4>1. PICK i \in 1..Len(seq) : seq[i] = s /\ \A k \in 1..n :
                       a[k] = IF k < i THEN seq[k] ELSE seq[k + 1]
        BY <1>3, <3>1
      <4>2. n = Len(seq) - 1
        BY <1>3, <3>1
      <4>3. CASE j < i
        <5>1. j \in 1..n
          BY <1>1, <4>2, <4>3
        <5>2. a[j] = seq[j]
          BY <4>1, <4>3, <5>1
        <5>3. QED
          BY <5>1, <5>2
      <4>4. CASE j > i
        <5>1. j - 1 \in 1..n /\ ~(j - 1 < i) /\ (j - 1) + 1 = j
          BY <1>1, <4>2, <4>4
        <5>2. a[j - 1] = seq[(j - 1) + 1]
          BY <4>1, <5>1
        <5>3. QED
          BY <5>1, <5>2
      <4>5. QED
        BY <4>1, <4>3, <4>4
    <3>2. CASE ~Has(seq, s)
      BY <1>3, <3>2
    <3>3. QED
      BY <3>1, <3>2
  <2>2. ~(k - d \in 1..Len(t))
    <3> SUFFICES ASSUME k - d \in 1..Len(t) PROVE FALSE
      OBVIOUS
    <3>1. t[k - d] = a[(k - d) + d]
      BY <1>7
    <3>2. (k - d) + d = k
      OBVIOUS
    <3>3. QED
      BY <2>1, <3>1, <3>2 DEF Has
  <2>3. d = 1 /\ k = 1
    BY <1>14, <2>2
  <2>4. n = MaxUsers /\ n = Len(seq) /\ ~Has(seq, s)
    BY <1>7, <2>3
  <2>5. a[1] = seq[1]
    BY <1>3, <2>3, <2>4
  <2>6. QED
    BY <2>1, <2>3, <2>4, <2>5
<1>13. QED
  BY <1>7, <1>8, <1>9, <1>10, <1>11, <1>12

(* Who is forgotten has MaxUsers sessions behind it, s among them. *)
LEMMA ForgottenIsOldest ==
  ASSUME NEW seq, Listed(seq), NEW s \in Sessions, NEW x \in Sessions \ {s},
         Has(seq, x), ~Has(Touch(seq, s), x)
  PROVE  /\ IsFiniteSet(Behind(seq, x) \cup {s})
         /\ Cardinality(Behind(seq, x) \cup {s}) >= MaxUsers
<1>1. Len(seq) = MaxUsers /\ seq[1] = x /\ ~Has(seq, s)
  BY TouchListed
<1>2. MaxUsers \in Nat \ {0} /\ IsFiniteSet(Sessions)
  BY PipelineAssumption
<1>3. \A j \in 1..MaxUsers : seq[j] \in Sessions
  BY <1>1, ElementOfSeq DEF Listed
<1> DEFINE T == Behind(seq, x) \cup {s}
           f == [k \in 1..MaxUsers |-> IF k < MaxUsers THEN seq[k + 1] ELSE s]
<1>4. IsFiniteSet(T)
  <2>1. T \in SUBSET Sessions
    BY DEF Behind
  <2>2. QED
    BY <1>2, <2>1, FS_Subset
<1>5. \A k \in 1..MaxUsers : f[k] = IF k < MaxUsers THEN seq[k + 1] ELSE s
  OBVIOUS
<1>6. ASSUME NEW k \in 1..MaxUsers PROVE f[k] \in T
  <2>1. CASE k < MaxUsers
    <3>1. 1 \in 1..Len(seq) /\ k + 1 \in 1..Len(seq) /\ 1 < k + 1
      BY <1>1, <1>2, <2>1
    <3>2. seq[k + 1] \in Behind(seq, x)
      BY <1>1, <1>3, <3>1 DEF Behind
    <3>3. QED
      BY <1>5, <2>1, <3>2
  <2>2. CASE ~(k < MaxUsers)
    BY <1>5, <2>2
  <2>3. QED
    BY <2>1, <2>2
<1>7. ASSUME NEW k \in 1..MaxUsers, NEW l \in 1..MaxUsers, f[k] = f[l] PROVE k = l
  <2>1. \A j \in 1..MaxUsers : seq[j] # s
    BY <1>1 DEF Has
  <2>2. CASE k < MaxUsers /\ l < MaxUsers
    <3>1. k + 1 \in 1..Len(seq) /\ l + 1 \in 1..Len(seq) /\ seq[k + 1] = seq[l + 1]
      BY <1>1, <1>2, <1>5, <1>7, <2>2
    <3>2. k + 1 = l + 1
      BY <3>1 DEF Listed
    <3>3. QED
      BY <3>2
  <2>3. CASE k < MaxUsers /\ ~(l < MaxUsers)
    <3>1. k + 1 \in 1..MaxUsers /\ seq[k + 1] = s
      BY <1>2, <1>5, <1>7, <2>3
    <3>2. QED
      BY <2>1, <3>1
  <2>4. CASE ~(k < MaxUsers) /\ l < MaxUsers
    <3>1. l + 1 \in 1..MaxUsers /\ seq[l + 1] = s
      BY <1>2, <1>5, <1>7, <2>4
    <3>2. QED
      BY <2>1, <3>1
  <2>5. CASE ~(k < MaxUsers) /\ ~(l < MaxUsers)
    BY <1>2, <2>5
  <2>6. QED
    BY <2>2, <2>3, <2>4, <2>5
<1>8. f \in [1..MaxUsers -> T]
  BY <1>6
<1>9. DOMAIN f = 1..MaxUsers
  OBVIOUS
<1> HIDE DEF f, T
<1>10. f \in Injection(1..MaxUsers, T)
  BY <1>7, <1>8, <1>9 DEF Injection, IsInjective
<1>11. Cardinality(1..MaxUsers) <= Cardinality(T)
  BY <1>4, <1>10, FS_Injection
<1>12. Cardinality(1..MaxUsers) = MaxUsers
  <2>1. Cardinality(1..MaxUsers) = IF 1 > MaxUsers THEN 0 ELSE MaxUsers - 1 + 1
    BY <1>2, FS_Interval
  <2>2. QED
    BY <1>2, <2>1
<1>13. Cardinality(T) \in Nat
  BY <1>4, FS_CardinalityType
<1>14. QED
  BY <1>2, <1>4, <1>11, <1>12, <1>13 DEF T

(* The event i of the partition of s is one the engine reads for s. *)
Mine(s, i) ==
  LET e == Event(<<PartitionOf[s], i>>) IN e.session = s /\ e.kind \in EngineKinds

NoneOf(s, n) == \A i \in 1..n : ~Mine(s, i)

(* The latest of them among the first n events. *)
IsLast(s, i, n) == i \in 1..n /\ Mine(s, i) /\ \A j \in (i + 1)..n : ~Mine(s, j)

(* An event is in the partition of its session. *)
HomeInv ==
  \A p \in Partitions : \A i \in 1..Len(log[p]) : PartitionOf[Event(<<p, i>>).session] = p

(* What an event says of the cart follows from the event before it. *)
ToldInv ==
  \A s \in Sessions :
    LET p == PartitionOf[s]
        m == Len(log[p])
    IN  /\ NoneOf(s, m) => told[s] = {}
        /\ \A i \in 1..m : IsLast(s, i, m) => told[s] = Event(<<p, i>>).told
        /\ \A j \in 1..m : Mine(s, j) =>
             /\ NoneOf(s, j - 1) => Event(<<p, j>>).told = Told({}, Event(<<p, j>>))
             /\ \A i \in 1..(j - 1) : IsLast(s, i, j - 1) =>
                  Event(<<p, j>>).told = Told(Event(<<p, i>>).told, Event(<<p, j>>))

-----------------------------------------------------------------------------
LEMMA LastGrows ==
  ASSUME NEW s, NEW n \in Nat
  PROVE  /\ ~Mine(s, n + 1) =>
              /\ NoneOf(s, n + 1) <=> NoneOf(s, n)
              /\ \A i : IsLast(s, i, n + 1) <=> IsLast(s, i, n)
         /\ Mine(s, n + 1) =>
              /\ ~NoneOf(s, n + 1)
              /\ \A i : IsLast(s, i, n + 1) <=> i = n + 1
<1>1. \A i \in 1..(n + 1) : i \in 1..n \/ i = n + 1
  OBVIOUS
<1>2. \A i \in 1..n : i \in 1..(n + 1) /\ i # n + 1
  OBVIOUS
<1>3. n + 1 \in 1..(n + 1) /\ n + 1 \notin 1..n
  OBVIOUS
<1>4. \A i \in 1..(n + 1) : \A j \in (i + 1)..(n + 1) : j \in (i + 1)..n \/ j = n + 1
  OBVIOUS
<1>5. \A i \in 1..n : \A j \in (i + 1)..n : j \in (i + 1)..(n + 1)
  OBVIOUS
<1>6. \A i \in 1..n : n + 1 \in (i + 1)..(n + 1)
  OBVIOUS
<1>7. \A j \in ((n + 1) + 1)..(n + 1) : FALSE
  OBVIOUS
<1>8. ASSUME ~Mine(s, n + 1)
      PROVE  /\ NoneOf(s, n + 1) <=> NoneOf(s, n)
             /\ \A i : IsLast(s, i, n + 1) <=> IsLast(s, i, n)
  <2>1. NoneOf(s, n + 1) <=> NoneOf(s, n)
    BY <1>1, <1>2, <1>8 DEF NoneOf
  <2>2. ASSUME NEW i, IsLast(s, i, n + 1) PROVE IsLast(s, i, n)
    <3>1. i \in 1..n
      BY <1>1, <1>8, <2>2 DEF IsLast
    <3>2. \A j \in (i + 1)..n : ~Mine(s, j)
      BY <1>5, <2>2, <3>1 DEF IsLast
    <3>3. QED
      BY <2>2, <3>1, <3>2 DEF IsLast
  <2>3. ASSUME NEW i, IsLast(s, i, n) PROVE IsLast(s, i, n + 1)
    <3>1. i \in 1..n /\ i \in 1..(n + 1) /\ Mine(s, i)
      BY <1>2, <2>3 DEF IsLast
    <3>2. \A j \in (i + 1)..(n + 1) : ~Mine(s, j)
      BY <1>4, <1>8, <2>3, <3>1 DEF IsLast
    <3>3. QED
      BY <3>1, <3>2 DEF IsLast
  <2>4. QED
    BY <2>1, <2>2, <2>3
<1>9. ASSUME Mine(s, n + 1)
      PROVE  /\ ~NoneOf(s, n + 1)
             /\ \A i : IsLast(s, i, n + 1) <=> i = n + 1
  <2>1. ~NoneOf(s, n + 1)
    BY <1>3, <1>9 DEF NoneOf
  <2>2. ASSUME NEW i, IsLast(s, i, n + 1) PROVE i = n + 1
    BY <1>1, <1>6, <1>9, <2>2 DEF IsLast
  <2>3. IsLast(s, n + 1, n + 1)
    BY <1>3, <1>7, <1>9 DEF IsLast
  <2>4. QED
    BY <2>1, <2>2, <2>3
<1>10. QED
  BY <1>8, <1>9

(* The sessions active in a stretch of the log, and its next event. *)
LEMMA ActiveGrows ==
  ASSUME NEW p, NEW first \in Nat, NEW n \in Nat, first <= n + 1
  PROVE  Active(p, first, n + 1) =
           Active(p, first, n) \cup
             (IF Event(<<p, n + 1>>).kind \in EngineKinds
                THEN {Event(<<p, n + 1>>).session} ELSE {})
<1>1. first..(n + 1) = (first..n) \cup {n + 1}
  OBVIOUS
<1>2. QED
  BY <1>1 DEF Active

LEMMA RivalsGrow ==
  ASSUME NEW p, NEW first \in Nat, NEW n \in Nat, first <= n + 1
  PROVE  Rivals(p, first, n + 1) =
           Rivals(p, first, n) \cup
             (IF Event(<<p, n + 1>>).kind \in EngineKinds
                THEN {Event(<<p, n + 1>>).session} ELSE {})
BY ActiveGrows DEF Rivals

LEMMA RivalsAreSessions ==
  ASSUME TypeOK, NEW p \in Partitions, NEW first \in Nat \ {0}, NEW n \in Nat,
         n <= Len(log[p])
  PROVE  /\ Rivals(p, first, n) \subseteq Sessions
         /\ IsFiniteSet(Rivals(p, first, n))
         /\ Cardinality(Rivals(p, first, n)) \in Nat
<1>1. Len(log[p]) \in Nat
  BY LogLengths
<1>2. \A i \in first..n : i \in 1..Len(log[p])
  BY <1>1
<1>3. \A i \in first..n : Event(<<p, i>>).session \in Sessions
  <2>1. log[p] \in Seq(Events)
    BY DEF TypeOK
  <2>2. \A i \in 1..Len(log[p]) : log[p][i] \in Events
    BY <2>1, ElementOfSeq
  <2>3. QED
    BY <1>2, <2>2 DEF Event, Events
<1>4. Active(p, first, n) \subseteq Sessions
  BY <1>3 DEF Active
<1>5. Rivals(p, first, n) \in SUBSET Sessions
  BY <1>4 DEF Rivals
<1>6. IsFiniteSet(Sessions)
  BY PipelineAssumption
<1>7. IsFiniteSet(Rivals(p, first, n))
  BY <1>5, <1>6, FS_Subset
<1>8. QED
  BY <1>5, <1>7, FS_CardinalityType

(* Remembered, said of the events of one session. *)
LEMMA RememberedMeans ==
  ASSUME TypeOK, HomeInv, NEW s \in Sessions, NEW n \in 1..Len(log[PartitionOf[s]]),
         Mine(s, n)
  PROVE  Remembered(<<PartitionOf[s], n>>) <=>
           \A i, j \in 1..n : i < j /\ Mine(s, i) /\ IsLast(s, i, j - 1) /\ Mine(s, j) =>
             Cardinality(Rivals(PartitionOf[s], i + 1, j - 1)) < MaxUsers
<1> DEFINE p == PartitionOf[s]
<1>1. Event(<<p, n>>).session = s
  BY DEF Mine
<1>2. \A i : Mine(s, i) <=> /\ Event(<<p, i>>).session = s
                             /\ Event(<<p, i>>).kind \in EngineKinds
  BY DEF Mine
<1>3. \A a, b : s \notin Active(p, a, b) <=> \A k \in a..b : ~Mine(s, k)
  BY <1>2 DEF Active
<1> HIDE DEF p
<1>4. Remembered(<<p, n>>) <=>
        \A i, j \in 1..n :
          i < j /\ Mine(s, i) /\ Mine(s, j) /\ (\A k \in (i + 1)..(j - 1) : ~Mine(s, k)) =>
            Cardinality(Rivals(p, i + 1, j - 1)) < MaxUsers
  <2>1. Remembered(<<p, n>>) <=>
          \A i, j \in 1..n :
            /\ i < j
            /\ Event(<<p, i>>).session = s /\ Event(<<p, i>>).kind \in EngineKinds
            /\ Event(<<p, j>>).session = s /\ Event(<<p, j>>).kind \in EngineKinds
            /\ s \notin Active(p, i + 1, j - 1)
            => Cardinality(Rivals(p, i + 1, j - 1)) < MaxUsers
    BY <1>1 DEF Remembered
  <2>2. \A i, j :
          (/\ i < j
           /\ Event(<<p, i>>).session = s /\ Event(<<p, i>>).kind \in EngineKinds
           /\ Event(<<p, j>>).session = s /\ Event(<<p, j>>).kind \in EngineKinds
           /\ s \notin Active(p, i + 1, j - 1))
          <=> (i < j /\ Mine(s, i) /\ Mine(s, j) /\ (\A k \in (i + 1)..(j - 1) : ~Mine(s, k)))
    BY <1>2, <1>3
  <2>3. QED
    BY <2>1, <2>2
<1>5. n \in Nat
  BY LogLengths, PipelineAssumption DEF p
<1>6. \A i, j \in 1..n : i < j => i \in 1..(j - 1)
  BY <1>5
<1>7. \A i, j \in 1..n : i < j /\ Mine(s, i) =>
        (IsLast(s, i, j - 1) <=> \A k \in (i + 1)..(j - 1) : ~Mine(s, k))
  BY <1>6 DEF IsLast
<1>8. QED
  BY <1>4, <1>7 DEF p

-----------------------------------------------------------------------------
(* Events that are published stay what they are, and with them what is     *)
(* said of a stretch of the log.                                           *)

LEMMA LogSteps ==
  ASSUME [Next]_vars
  PROVE  (\E e \in Traffic : Publish(e)) \/ UNCHANGED <<told, log>>
<1>1. ASSUME NEW c \in Consumers, Start(c) \/ Works(c) \/ Fails(c)
      PROVE  UNCHANGED <<told, log>>
  BY <1>1 DEF Start, Works, Fails, Poll, Evaluate, Receive, Send, Issue, Announce, Suppress,
              Commit, CommitRefused, Release, Kill, EvaluateRaises, StepRaises,
              DeliveryRaises, ReleaseRaises
<1>2. QED
  <2>1. Assign \/ Rebalance \/ FreshGroup \/ UNCHANGED vars => UNCHANGED <<told, log>>
    BY DEF Assign, Rebalance, FreshGroup, vars
  <2>2. QED
    BY <1>1, <2>1 DEF Next

LEMMA EventsStay ==
  ASSUME TypeOK, [Next]_vars, NEW p \in Partitions
  PROVE  /\ Len(log[p]) \in Nat /\ Len(log'[p]) \in Nat /\ Len(log'[p]) >= Len(log[p])
         /\ \A i \in 1..Len(log[p]) : Event(<<p, i>>)' = Event(<<p, i>>)
<1>1. Len(log[p]) \in Nat
  BY LogLengths
<1>2. ASSUME NEW e \in Traffic, Publish(e)
      PROVE  /\ Len(log'[p]) \in Nat /\ Len(log'[p]) >= Len(log[p])
             /\ \A i \in 1..Len(log[p]) : Event(<<p, i>>)' = Event(<<p, i>>)
  <2>1. /\ log' \in [Partitions -> Seq(Events)]
        /\ Len(log'[p]) >= Len(log[p])
        /\ \A id \in Published : Event(id)' = Event(id)
    BY <1>2, LogGrows
  <2>2. \A i \in 1..Len(log[p]) : <<p, i>> \in Published
    BY DEF Published
  <2>3. Len(log'[p]) \in Nat
    BY <2>1, LenProperties
  <2>4. QED
    BY <2>1, <2>2, <2>3
<1>3. CASE UNCHANGED <<told, log>>
  BY <1>1, <1>3 DEF Event
<1>4. QED
  BY <1>1, <1>2, <1>3, LogSteps

LEMMA StretchStays ==
  ASSUME TypeOK, [Next]_vars, NEW s \in Sessions
  PROVE  LET p == PartitionOf[s]
             m == Len(log[p])
         IN  /\ \A i \in 1..m : Mine(s, i)' <=> Mine(s, i)
             /\ \A n \in 0..m : NoneOf(s, n)' <=> NoneOf(s, n)
             /\ \A n \in 0..m : \A i : IsLast(s, i, n)' <=> IsLast(s, i, n)
             /\ \A first \in Nat \ {0}, n \in 0..m :
                  Rivals(p, first, n)' = Rivals(p, first, n)
<1> DEFINE p == PartitionOf[s]
           m == Len(log[p])
<1>1. p \in Partitions
  BY PipelineAssumption
<1>2. m \in Nat /\ \A i \in 1..m : Event(<<p, i>>)' = Event(<<p, i>>)
  BY <1>1, EventsStay
<1>3. \A i \in 1..m : Mine(s, i)' <=> Mine(s, i)
  BY <1>2 DEF Mine
<1>4. \A n \in 0..m : \A i \in 1..n : i \in 1..m
  BY <1>2
<1>5. ASSUME NEW n \in 0..m PROVE NoneOf(s, n)' <=> NoneOf(s, n)
  BY <1>3, <1>4 DEF NoneOf
<1>6. ASSUME NEW n \in 0..m, NEW i PROVE IsLast(s, i, n)' <=> IsLast(s, i, n)
  <2>1. i \in 1..n => \A j \in (i + 1)..n : j \in 1..m
    BY <1>2
  <2>2. QED
    BY <1>3, <1>4, <2>1 DEF IsLast
<1>7. ASSUME NEW first \in Nat \ {0}, NEW n \in 0..m
      PROVE  Rivals(p, first, n)' = Rivals(p, first, n)
  <2>1. \A k \in first..n : k \in 1..m
    BY <1>2
  <2>2. \A k \in first..n : Event(<<p, k>>)' = Event(<<p, k>>)
    BY <1>2, <2>1
  <2>3. {k \in first..n : Event(<<p, k>>)'.kind \in EngineKinds}
          = {k \in first..n : Event(<<p, k>>).kind \in EngineKinds}
    BY <2>2
  <2> HIDE DEF p, m
  <2>4. Active(p, first, n)' = Active(p, first, n)
    BY <2>2, <2>3 DEF Active
  <2>5. QED
    BY <2>4 DEF Rivals
<1>8. QED
  BY <1>3, <1>5, <1>6, <1>7

LEMMA IdInLog ==
  ASSUME TypeOK, HomeInv, NEW id \in Published
  PROVE  LET s == Event(id).session IN
         /\ s \in Sessions /\ id = <<PartitionOf[s], id[2]>>
         /\ id[2] \in 1..Len(log[PartitionOf[s]])
<1>1. /\ id[1] \in Partitions /\ id[2] \in 1..Len(log[id[1]]) /\ id = <<id[1], id[2]>>
      /\ Event(id) \in Events
  BY PublishedIsId
<1>2. Event(id).session \in Sessions
  BY <1>1 DEF Events
<1>3. PartitionOf[Event(id).session] = id[1]
  BY <1>1 DEF HomeInv
<1>4. QED
  BY <1>1, <1>2, <1>3

LEMMA RememberedStays ==
  ASSUME TypeOK, [Next]_vars, NEW id \in Published
  PROVE  Remembered(id)' <=> Remembered(id)
<1>1. PICK p \in Partitions, n \in Nat : n \in 1..Len(log[p]) /\ id = <<p, n>>
  BY PublishedIsId, LogLengths
<1>2. /\ Len(log[p]) \in Nat
      /\ \A i \in 1..Len(log[p]) : Event(<<p, i>>)' = Event(<<p, i>>)
  BY EventsStay
<1>3. \A i \in 1..n : Event(<<p, i>>)' = Event(<<p, i>>)
  BY <1>1, <1>2
<1>4. ASSUME NEW i \in 1..n, NEW j \in 1..n
      PROVE  Active(p, i + 1, j - 1)' = Active(p, i + 1, j - 1)
  <2>1. \A k \in (i + 1)..(j - 1) : k \in 1..n
    OBVIOUS
  <2>2. \A k \in (i + 1)..(j - 1) : Event(<<p, k>>)' = Event(<<p, k>>)
    BY <1>3, <2>1
  <2>3. {k \in (i + 1)..(j - 1) : Event(<<p, k>>)'.kind \in EngineKinds}
          = {k \in (i + 1)..(j - 1) : Event(<<p, k>>).kind \in EngineKinds}
    BY <2>2
  <2>4. QED
    BY <2>2, <2>3 DEF Active
<1>5. \A i, j \in 1..n : Rivals(p, i + 1, j - 1)' = Rivals(p, i + 1, j - 1)
  BY <1>4 DEF Rivals
<1>6. n \in 1..n
  BY <1>1, <1>2
<1>7. PICK e : e = Event(<<p, n>>) /\ Event(<<p, n>>)' = e
  BY <1>3, <1>6
<1>8. Remembered(<<p, n>>) <=>
        \A i, j \in 1..n :
          /\ i < j
          /\ Event(<<p, i>>).session = e.session /\ Event(<<p, i>>).kind \in EngineKinds
          /\ Event(<<p, j>>).session = e.session /\ Event(<<p, j>>).kind \in EngineKinds
          /\ e.session \notin Active(p, i + 1, j - 1)
          => Cardinality(Rivals(p, i + 1, j - 1)) < MaxUsers
  BY <1>7 DEF Remembered
<1>9. Remembered(<<p, n>>)' <=>
        \A i, j \in 1..n :
          /\ i < j
          /\ Event(<<p, i>>)'.session = e.session /\ Event(<<p, i>>)'.kind \in EngineKinds
          /\ Event(<<p, j>>)'.session = e.session /\ Event(<<p, j>>)'.kind \in EngineKinds
          /\ e.session \notin Active(p, i + 1, j - 1)'
          => Cardinality(Rivals(p, i + 1, j - 1)') < MaxUsers
  BY <1>7 DEF Remembered
<1>10. Remembered(<<p, n>>)' <=> Remembered(<<p, n>>)
  BY <1>3, <1>4, <1>5, <1>8, <1>9
<1>11. QED
  BY <1>1, <1>10

StreamInv == HomeInv /\ ToldInv

LEMMA StreamInit == Init => StreamInv
<1> SUFFICES ASSUME Init PROVE StreamInv
  OBVIOUS
<1>1. \A p \in Partitions : Len(log[p]) = 0
  BY EmptySeq DEF Init
<1>2. HomeInv
  BY <1>1 DEF HomeInv
<1>3. \A s \in Sessions : PartitionOf[s] \in Partitions /\ told[s] = {}
  BY PipelineAssumption DEF Init
<1>4. ToldInv
  BY <1>1, <1>3 DEF ToldInv
<1>5. QED
  BY <1>2, <1>4 DEF StreamInv

(* What a shopper's action appends to the log of its partition. *)
LEMMA PublishedLast ==
  ASSUME TypeOK, NEW e \in Traffic, Publish(e),
         NEW m \in Nat, m = Len(log[PartitionOf[e.session]])
  PROVE  LET p == PartitionOf[e.session]
         IN  /\ p \in Partitions /\ e.session \in Sessions
             /\ Len(log'[p]) = m + 1
             /\ \A q \in Partitions : q # p => log'[q] = log[q]
             /\ Event(<<p, m + 1>>)'.kind = e.kind
             /\ Event(<<p, m + 1>>)'.session = e.session
             /\ Event(<<p, m + 1>>)'.product = e.product
             /\ Event(<<p, m + 1>>)'.told = Told(told[e.session], e)
<1> DEFINE p == PartitionOf[e.session]
           ev == [kind |-> e.kind, session |-> e.session, product |-> e.product,
                  dwelt |-> e.dwelt, told |-> Told(told[e.session], e),
                  held |-> {x \in Products : Basket(basket[e.session], e)[x] > 0}]
<1>1. p \in Partitions /\ e.session \in Sessions /\ e \in Stimuli
  BY PublishedEvent
<1>2. log' = [log EXCEPT ![p] = Append(@, ev)]
  BY DEF Publish
<1>3. log \in [Partitions -> Seq(Events)] /\ log[p] \in Seq(Events)
  BY <1>1 DEF TypeOK
<1>4. log'[p] = Append(log[p], ev)
  BY <1>1, <1>2, <1>3
<1>5. ev \in Events
  <2>1. told[e.session] \subseteq Products
    BY <1>1 DEF TypeOK
  <2>2. Told(told[e.session], e) \subseteq Products
    BY <1>1, <2>1 DEF Told, Stimuli
  <2>3. QED
    BY <1>1, <2>2 DEF Events, Stimuli
<1>6. /\ ev.kind = e.kind /\ ev.session = e.session /\ ev.product = e.product
      /\ ev.told = Told(told[e.session], e)
  OBVIOUS
<1> HIDE DEF ev
<1>7. Len(log'[p]) = m + 1 /\ log'[p][m + 1] = ev
  BY <1>3, <1>4, <1>5, AppendProperties
<1>8. Event(<<p, m + 1>>)' = ev
  BY <1>7 DEF Event
<1>9. \A q \in Partitions : q # p => log'[q] = log[q]
  BY <1>1, <1>2, <1>3
<1>10. QED
  BY <1>1, <1>6, <1>7, <1>8, <1>9

LEMMA SameTold ==
  ASSUME NEW e, NEW f, NEW x, e.kind = f.kind, e.product = f.product
  PROVE  Told(x, e) = Told(x, f)
BY DEF Told

LEMMA LastGrowsNext ==
  (\A s : \A n \in Nat :
     /\ ~Mine(s, n + 1) =>
          /\ NoneOf(s, n + 1) <=> NoneOf(s, n)
          /\ \A i : IsLast(s, i, n + 1) <=> IsLast(s, i, n)
     /\ Mine(s, n + 1) =>
          /\ ~NoneOf(s, n + 1)
          /\ \A i : IsLast(s, i, n + 1) <=> i = n + 1)'
<1>1. \A s : \A n \in Nat :
     /\ ~Mine(s, n + 1) =>
          /\ NoneOf(s, n + 1) <=> NoneOf(s, n)
          /\ \A i : IsLast(s, i, n + 1) <=> IsLast(s, i, n)
     /\ Mine(s, n + 1) =>
          /\ ~NoneOf(s, n + 1)
          /\ \A i : IsLast(s, i, n + 1) <=> i = n + 1
  BY LastGrows
<1>2. QED
  BY <1>1, PTL

LEMMA StreamStep == TypeOK /\ StreamInv /\ [Next]_vars => StreamInv'
<1> SUFFICES ASSUME TypeOK, HomeInv, ToldInv, [Next]_vars PROVE HomeInv' /\ ToldInv'
  BY DEF StreamInv
<1>1. CASE UNCHANGED <<told, log>>
  BY <1>1 DEF HomeInv, ToldInv, NoneOf, IsLast, Mine, Event
<1>2. ASSUME NEW e \in Traffic, Publish(e) PROVE HomeInv' /\ ToldInv'
  <2> DEFINE q == PartitionOf[e.session]
  <2>0. PICK m \in Nat : m = Len(log[q])
    BY <1>2, PublishedEvent, LogLengths
  <2>1. /\ q \in Partitions /\ e.session \in Sessions
        /\ Len(log'[q]) = m + 1
        /\ \A p \in Partitions : p # q => log'[p] = log[p]
        /\ Event(<<q, m + 1>>)'.kind = e.kind
        /\ Event(<<q, m + 1>>)'.session = e.session
        /\ Event(<<q, m + 1>>)'.product = e.product
        /\ Event(<<q, m + 1>>)'.told = Told(told[e.session], e)
    BY <1>2, <2>0, PublishedLast
  <2>2. /\ told' = [told EXCEPT ![e.session] = Told(@, e)]
        /\ told \in [Sessions -> SUBSET Products]
    BY <1>2 DEF Publish, TypeOK
  <2>3. \A p \in Partitions :
          /\ Len(log[p]) \in Nat
          /\ \A i \in 1..Len(log[p]) : Event(<<p, i>>)' = Event(<<p, i>>)
    BY EventsStay
  <2> HIDE DEF q
  <2>5. HomeInv'
    <3> SUFFICES ASSUME NEW p \in Partitions, NEW i \in 1..Len(log'[p])
                 PROVE  PartitionOf[Event(<<p, i>>)'.session] = p
      BY DEF HomeInv
    <3>1. CASE i \in 1..Len(log[p])
      BY <2>3, <3>1 DEF HomeInv
    <3>2. CASE i \notin 1..Len(log[p])
      <4>1. p = q
        BY <2>1, <3>2
      <4>2. i = m + 1
        BY <2>0, <2>1, <2>3, <3>2, <4>1
      <4>3. QED
        BY <2>1, <4>1, <4>2 DEF q
    <3>3. QED
      BY <3>1, <3>2
  <2>6. ToldInv'
    <3> SUFFICES ASSUME NEW s \in Sessions
                 PROVE  /\ NoneOf(s, Len(log[PartitionOf[s]]))' => told'[s] = {}
                        /\ \A i \in 1..Len(log'[PartitionOf[s]]) :
                             IsLast(s, i, Len(log[PartitionOf[s]]))' =>
                               told'[s] = Event(<<PartitionOf[s], i>>)'.told
                        /\ \A j \in 1..Len(log'[PartitionOf[s]]) : Mine(s, j)' =>
                             /\ NoneOf(s, j - 1)' =>
                                  Event(<<PartitionOf[s], j>>)'.told
                                    = Told({}, Event(<<PartitionOf[s], j>>)')
                             /\ \A i \in 1..(j - 1) : IsLast(s, i, j - 1)' =>
                                  Event(<<PartitionOf[s], j>>)'.told
                                    = Told(Event(<<PartitionOf[s], i>>)'.told,
                                           Event(<<PartitionOf[s], j>>)')
      BY DEF ToldInv
    <3> DEFINE p == PartitionOf[s]
    <3>1. p \in Partitions
      BY PipelineAssumption
    <3>2. PICK n \in Nat : n = Len(log[p])
      BY <2>3, <3>1
    <3>3. PICK l \in Nat : l = Len(log'[p])
      BY <2>1, <2>3, <3>1
    <3>4. /\ \A i \in 1..n : Mine(s, i)' <=> Mine(s, i)
          /\ \A x \in 0..n : NoneOf(s, x)' <=> NoneOf(s, x)
          /\ \A x \in 0..n : \A i : IsLast(s, i, x)' <=> IsLast(s, i, x)
      BY <3>2, StretchStays
    <3>5. /\ NoneOf(s, n) => told[s] = {}
          /\ \A i \in 1..n : IsLast(s, i, n) => told[s] = Event(<<p, i>>).told
          /\ \A j \in 1..n : Mine(s, j) =>
               /\ NoneOf(s, j - 1) => Event(<<p, j>>).told = Told({}, Event(<<p, j>>))
               /\ \A i \in 1..(j - 1) : IsLast(s, i, j - 1) =>
                    Event(<<p, j>>).told = Told(Event(<<p, i>>).told, Event(<<p, j>>))
      BY <3>2 DEF ToldInv
    <3>6. \A i \in 1..n : Event(<<p, i>>)' = Event(<<p, i>>)
      BY <2>3, <3>1, <3>2
    <3> HIDE DEF p
    <3>7. ASSUME NEW j \in 1..n, Mine(s, j)'
          PROVE  /\ NoneOf(s, j - 1)' => Event(<<p, j>>)'.told = Told({}, Event(<<p, j>>)')
                 /\ \A i \in 1..(j - 1) : IsLast(s, i, j - 1)' =>
                      Event(<<p, j>>)'.told = Told(Event(<<p, i>>)'.told, Event(<<p, j>>)')
      <4>1. j - 1 \in 0..n /\ \A i \in 1..(j - 1) : i \in 1..n
        OBVIOUS
      <4>2. Mine(s, j)
        BY <3>4, <3>7
      <4>3. Event(<<p, j>>)' = Event(<<p, j>>) /\ \A i \in 1..(j - 1) : Event(<<p, i>>)' = Event(<<p, i>>)
        BY <3>6, <4>1
      <4>4. /\ NoneOf(s, j - 1)' <=> NoneOf(s, j - 1)
            /\ \A i : IsLast(s, i, j - 1)' <=> IsLast(s, i, j - 1)
        BY <3>4, <4>1
      <4>5. QED
        BY <3>5, <4>2, <4>3, <4>4
    <3>8. CASE p # q
      <4>1. l = n /\ told'[s] = told[s]
        BY <2>1, <2>2, <3>1, <3>2, <3>3, <3>8 DEF p, q
      <4>2. n \in 0..n
        OBVIOUS
      <4>3. /\ NoneOf(s, n)' <=> NoneOf(s, n)
            /\ \A i : IsLast(s, i, n)' <=> IsLast(s, i, n)
        BY <3>4, <4>2
      <4>4. /\ NoneOf(s, n)' => told'[s] = {}
            /\ \A i \in 1..n : IsLast(s, i, n)' => told'[s] = Event(<<p, i>>)'.told
        BY <3>5, <3>6, <4>1, <4>3
      <4>5. NoneOf(s, Len(log[p]))' <=> NoneOf(s, l)'
        BY <3>3 DEF NoneOf
      <4>6. \A i : IsLast(s, i, Len(log[p]))' <=> IsLast(s, i, l)'
        BY <3>3 DEF IsLast
      <4>7. QED
        BY <3>3, <3>7, <4>1, <4>4, <4>5, <4>6 DEF p
    <3>9. CASE p = q
      <4>1. n = m /\ l = n + 1
        BY <2>0, <2>1, <3>2, <3>3, <3>9
      <4>2. /\ NoneOf(s, n)' <=> NoneOf(s, n)
            /\ \A i : IsLast(s, i, n)' <=> IsLast(s, i, n)
        BY <3>4
      <4>3. /\ NoneOf(s, Len(log[p]))' <=> NoneOf(s, l)'
            /\ \A i : IsLast(s, i, Len(log[p]))' <=> IsLast(s, i, l)'
        BY <3>3 DEF NoneOf, IsLast
      <4>4. /\ (~Mine(s, l))' =>
                 /\ NoneOf(s, l)' <=> NoneOf(s, n)'
                 /\ \A i : IsLast(s, i, l)' <=> IsLast(s, i, n)'
            /\ Mine(s, l)' =>
                 /\ ~NoneOf(s, l)'
                 /\ \A i : IsLast(s, i, l)' <=> i = l
        BY <4>1, LastGrowsNext
      <4>5. /\ Event(<<p, l>>)'.kind = e.kind /\ Event(<<p, l>>)'.session = e.session
            /\ Event(<<p, l>>)'.product = e.product
            /\ Event(<<p, l>>)'.told = Told(told[e.session], e)
        BY <2>1, <3>9, <4>1
      <4>6. \A x : Told(x, Event(<<p, l>>)') = Told(x, e)
        BY <4>5, SameTold
      <4>7. /\ NoneOf(s, l)' => told'[s] = {}
            /\ \A i \in 1..l : IsLast(s, i, l)' => told'[s] = Event(<<p, i>>)'.told
        <5>1. CASE Mine(s, l)'
          <6>1. e.session = s
            BY <4>5, <5>1 DEF Mine, p
          <6>2. told'[s] = Event(<<p, l>>)'.told
            BY <2>2, <4>5, <6>1
          <6>3. QED
            BY <4>4, <5>1, <6>2
        <5>2. CASE ~Mine(s, l)'
          <6>1. told'[s] = told[s]
            <7>1. CASE e.session = s
              <8>1. e.kind \notin EngineKinds
                BY <4>5, <5>2, <7>1 DEF Mine, p
              <8>2. Told(told[s], e) = told[s]
                BY <8>1 DEF Told, EngineKinds
              <8>3. QED
                BY <2>2, <7>1, <8>2
            <7>2. CASE e.session # s
              BY <2>1, <2>2, <7>2
            <7>3. QED
              BY <7>1, <7>2
          <6>2. ASSUME NEW i, IsLast(s, i, n)' PROVE i \in 1..n /\ IsLast(s, i, n)
            BY <4>2, <6>2 DEF IsLast
          <6>3. QED
            BY <3>5, <3>6, <4>2, <4>4, <5>2, <6>1, <6>2
        <5>3. QED
          BY <5>1, <5>2
      <4>8. ASSUME Mine(s, l)'
            PROVE  /\ NoneOf(s, l - 1)' =>
                        Event(<<p, l>>)'.told = Told({}, Event(<<p, l>>)')
                   /\ \A i \in 1..(l - 1) : IsLast(s, i, l - 1)' =>
                        Event(<<p, l>>)'.told
                          = Told(Event(<<p, i>>)'.told, Event(<<p, l>>)')
        <5>1. e.session = s
          BY <4>5, <4>8 DEF Mine, p
        <5>2. Event(<<p, l>>)'.told = Told(told[s], e)
          BY <4>5, <5>1
        <5>3. l - 1 = n
          BY <4>1
        <5>4. NoneOf(s, n)' => told[s] = {}
          BY <3>5, <4>2
        <5>5. \A i \in 1..n : IsLast(s, i, n)' => told[s] = Event(<<p, i>>)'.told
          BY <3>5, <3>6, <4>2
        <5>6. QED
          BY <4>6, <5>2, <5>3, <5>4, <5>5
      <4>9. \A j \in 1..l : j \in 1..n \/ j = l
        BY <4>1
      <4>10. QED
        BY <3>3, <3>7, <4>3, <4>7, <4>8, <4>9 DEF p
    <3>10. QED
      BY <3>8, <3>9
  <2>7. QED
    BY <2>5, <2>6
<1>3. QED
  BY <1>1, <1>2, LogSteps

-----------------------------------------------------------------------------
(* A group without faults.                                                 *)

(* No member is fenced, no delivery given up; the partitions are assigned  *)
(* once, and nothing happens before.                                       *)
CalmInv ==
  /\ fenced = {}
  /\ \A c \in Consumers : pc[c] # "release"
  /\ \A c \in Consumers : pc[c] = "commit" /\ Delivering(c) => at[c] \in activity.announced
  /\ \/ \A p \in Partitions : owner[p] \in Consumers
     \/ /\ \A p \in Partitions : owner[p] = NoConsumer /\ committed[p] = 0
        /\ \A c \in Consumers : Idle(c) /\ users[c] = <<>>

(* The events of a partition an engine has read: the committed ones, and   *)
(* the one being worked on once it is evaluated.                           *)
Reading(c, p) == pc[c] \notin {"down", "poll", "evaluate"} /\ at[c][1] = p

Seen(p) == IF \E c \in Consumers : Reading(c, p) THEN committed[p] + 1 ELSE committed[p]

LEMMA CalmSteps ==
  ASSUME TypeOK, CalmInv, [Next]_vars, faults = 0, faults' = 0
  PROVE  \/ \E e \in Traffic : Publish(e)
         \/ Assign
         \/ \E c \in Consumers :
              \/ Start(c) \/ Poll(c) \/ Evaluate(c) \/ Receive(c) \/ Send(c) \/ Issue(c)
              \/ Announce(c) \/ Suppress(c) \/ Commit(c)
         \/ UNCHANGED vars
<1>1. ~Rebalance /\ ~FreshGroup
  BY DEF Rebalance, FreshGroup, Fault
<1>2. ASSUME NEW c \in Consumers PROVE ~Fails(c) /\ ~CommitRefused(c) /\ ~Release(c)
  BY DEF Fails, Kill, EvaluateRaises, StepRaises, DeliveryRaises, ReleaseRaises, Fault,
         CommitRefused, Release, CalmInv
<1>3. QED
  BY <1>1, <1>2 DEF Next, Works

LEMMA CalmStep ==
  ASSUME TypeOK, ControlInv, CalmInv, [Next]_vars, faults = 0, faults' = 0
  PROVE  CalmInv'
<1> USE DEF TypeOK, Idle, Delivering
<1>1. ASSUME NEW e \in Traffic, Publish(e) PROVE CalmInv'
  BY <1>1 DEF Publish, CalmInv
<1>2. CASE Assign
  BY <1>2 DEF Assign, CalmInv, Joined
<1>3. ASSUME NEW c \in Consumers, Start(c) PROVE CalmInv'
  BY <1>3 DEF Start, CalmInv
<1>4. ASSUME NEW c \in Consumers, Poll(c) PROVE CalmInv'
  <2>1. PICK p \in Partitions : owner[p] = c
    BY <1>4 DEF Poll
  <2>2. \A q \in Partitions : owner[q] \in Consumers
    BY <2>1, PipelineAssumption DEF CalmInv
  <2>3. QED
    BY <1>4, <2>2 DEF Poll, CalmInv
<1>5. ASSUME NEW c \in Consumers, ~Idle(c) PROVE \A p \in Partitions : owner[p] \in Consumers
  BY <1>5 DEF CalmInv
<1>6. ASSUME NEW c \in Consumers, Evaluate(c) PROVE CalmInv'
  <2>1. pc' = [pc EXCEPT ![c] = "receive"] /\ at' = at /\ pc[c] = "evaluate"
        /\ UNCHANGED <<fenced, activity, owner, committed>>
    BY <1>6 DEF Evaluate
  <2>2. \A d \in Consumers \ {c} : support'[d] = support[d]
    BY <1>6, EvaluateOutcome
  <2>3. QED
    BY <1>5, <2>1, <2>2 DEF CalmInv
<1>7. ASSUME NEW c \in Consumers, Receive(c) PROVE CalmInv'
  BY <1>5, <1>7 DEF Receive, Recorded, CalmInv
<1>8. ASSUME NEW c \in Consumers, Send(c) \/ Issue(c) PROVE CalmInv'
  BY <1>5, <1>8 DEF Send, Issue, CalmInv
<1>9. ASSUME NEW c \in Consumers, Announce(c) PROVE CalmInv'
  BY <1>5, <1>9 DEF Announce, Recorded, CalmInv
<1>10. ASSUME NEW c \in Consumers, Suppress(c) PROVE CalmInv'
  BY <1>5, <1>10 DEF Suppress, Recorded, CalmInv, ControlInv
<1>11. ASSUME NEW c \in Consumers, Commit(c) PROVE CalmInv'
  BY <1>5, <1>11 DEF Commit, CalmInv
<1>12. CASE UNCHANGED vars
  BY <1>12 DEF vars, CalmInv
<1>13. QED
  BY <1>1, <1>2, <1>3, <1>4, <1>6, <1>7, <1>8, <1>9, <1>10, <1>11, <1>12, CalmSteps

(* At most one consumer works on a partition. *)
LEMMA OneWorker ==
  ASSUME TypeOK, ControlInv, OffsetInv, CalmInv, NEW c \in Consumers, ~Idle(c)
  PROVE  LET p == at[c][1]
         IN  /\ p \in Partitions /\ owner[p] = c
             /\ at[c] = <<p, committed[p] + 1>>
             /\ \A d \in Consumers : Reading(d, p) => d = c
             /\ Seen(p) = IF pc[c] = "evaluate" THEN committed[p] ELSE committed[p] + 1
<1> DEFINE p == at[c][1]
<1>1. at[c] \in Published
  BY BusyEvent
<1>2. p \in Partitions /\ at[c] = <<p, at[c][2]>>
  BY <1>1, PublishedIsId
<1>3. owner[p] = c /\ at[c][2] = committed[p] + 1
  BY DEF OffsetInv, CalmInv
<1>4. \A d \in Consumers : Reading(d, p) => d = c
  BY <1>3 DEF OffsetInv, CalmInv, Reading, Idle
<1>5. Reading(c, p) <=> pc[c] # "evaluate"
  BY DEF Reading, Idle
<1>6. Seen(p) = IF pc[c] = "evaluate" THEN committed[p] ELSE committed[p] + 1
  BY <1>4, <1>5 DEF Seen
<1>7. QED
  BY <1>2, <1>3, <1>4, <1>6

LEMMA SeenType ==
  ASSUME TypeOK, ControlInv, OffsetInv, CalmInv, NEW p \in Partitions
  PROVE  Seen(p) \in 0..Len(log[p])
<1>1. Len(log[p]) \in Nat /\ committed[p] \in Nat /\ committed[p] <= Len(log[p])
  BY LogLengths DEF TypeOK, OffsetInv
<1>2. CASE \E c \in Consumers : Reading(c, p)
  <2>1. PICK c \in Consumers : Reading(c, p)
    BY <1>2
  <2>2. ~Idle(c) /\ at[c][1] = p
    BY <2>1 DEF Reading, Idle
  <2>3. at[c] \in Published /\ at[c] = <<p, committed[p] + 1>>
    BY <2>2, OneWorker, BusyEvent
  <2>4. committed[p] + 1 \in 1..Len(log[p])
    BY <2>3, PublishedIsId
  <2>5. QED
    BY <1>1, <1>2, <2>4 DEF Seen
<1>3. CASE ~\E c \in Consumers : Reading(c, p)
  BY <1>1, <1>3 DEF Seen
<1>4. QED
  BY <1>2, <1>3

(* Only an evaluation moves Seen. *)
LEMMA SeenMoves ==
  ASSUME TypeOK, ControlInv, OffsetInv, CalmInv, TypeOK', ControlInv', OffsetInv', CalmInv',
         [Next]_vars, faults = 0, faults' = 0, NEW p \in Partitions
  PROVE  \/ Seen(p)' = Seen(p)
         \/ \E c \in Consumers : Evaluate(c) /\ at[c] = <<p, Seen(p) + 1>>
<1>1. ASSUME UNCHANGED committed, \A c \in Consumers : Reading(c, p)' <=> Reading(c, p)
      PROVE  Seen(p)' = Seen(p)
  BY <1>1 DEF Seen
<1>2. ASSUME NEW e \in Traffic, Publish(e) PROVE Seen(p)' = Seen(p)
  BY <1>1, <1>2 DEF Publish, Reading
<1>3. CASE Assign
  BY <1>1, <1>3 DEF Assign, Reading
<1>4. ASSUME NEW c \in Consumers, Start(c) PROVE Seen(p)' = Seen(p)
  BY <1>1, <1>4 DEF Start, Reading, TypeOK
<1>5. ASSUME NEW c \in Consumers, Poll(c) PROVE Seen(p)' = Seen(p)
  BY <1>1, <1>5 DEF Poll, Reading, TypeOK
<1>6. ASSUME NEW c \in Consumers, Evaluate(c)
      PROVE  \/ Seen(p)' = Seen(p)
             \/ at[c] = <<p, Seen(p) + 1>>
  <2>1. pc[c] = "evaluate" /\ pc' = [pc EXCEPT ![c] = "receive"] /\ UNCHANGED <<at, committed>>
    BY <1>6 DEF Evaluate
  <2>2. CASE at[c][1] = p
    BY <2>1, <2>2, OneWorker DEF Idle
  <2>3. CASE at[c][1] # p
    BY <1>1, <2>1, <2>3 DEF Reading, TypeOK
  <2>4. QED
    BY <2>2, <2>3
<1>7. ASSUME NEW c \in Consumers,
             Receive(c) \/ Send(c) \/ Issue(c) \/ Announce(c) \/ Suppress(c)
      PROVE Seen(p)' = Seen(p)
  BY <1>1, <1>7 DEF Receive, Send, Issue, Announce, Suppress, Reading, TypeOK
<1>8. ASSUME NEW c \in Consumers, Commit(c) PROVE Seen(p)' = Seen(p)
  <2>1. /\ pc[c] = "commit" /\ pc' = [pc EXCEPT ![c] = "poll"]
        /\ committed' = [committed EXCEPT ![at[c][1]] = at[c][2]]
        /\ at' = [at EXCEPT ![c] = NoId]
    BY <1>8 DEF Commit
  <2>2. /\ at[c] = <<at[c][1], committed[at[c][1]] + 1>> /\ at[c][1] \in Partitions
        /\ \A d \in Consumers : Reading(d, at[c][1]) => d = c
        /\ Seen(at[c][1]) = committed[at[c][1]] + 1
    BY <2>1, OneWorker DEF Idle
  <2>3. CASE at[c][1] = p
    <3>1. \A d \in Consumers : ~Reading(d, p)'
      BY <2>1, <2>2, <2>3 DEF Reading, TypeOK
    <3>2. committed'[p] = committed[p] + 1
      BY <2>1, <2>2, <2>3 DEF TypeOK
    <3>3. QED
      BY <2>2, <2>3, <3>1, <3>2 DEF Seen
  <2>4. CASE at[c][1] # p
    <3>1. \A d \in Consumers : Reading(d, p)' <=> Reading(d, p)
      BY <2>1, <2>4 DEF Reading, TypeOK
    <3>2. committed'[p] = committed[p]
      BY <2>1, <2>2, <2>4 DEF TypeOK
    <3>3. QED
      BY <3>1, <3>2 DEF Seen
  <2>5. QED
    BY <2>3, <2>4
<1>9. CASE UNCHANGED vars
  BY <1>1, <1>9 DEF vars, Reading
<1>10. QED
  BY <1>2, <1>3, <1>4, <1>5, <1>6, <1>7, <1>8, <1>9, CalmSteps

-----------------------------------------------------------------------------
(* What an engine knows of a session, in terms of the stream.              *)

(* What is known of a session when n events of its partition are read.     *)
(* An engine lists sessions of its partitions that it has read events of.  *)
(* When i is the latest of them, the sessions behind it on the list were   *)
(* touched since i, its cart is what the stream says at i unless it had    *)
(* been forgotten, and it was forgotten only for MaxUsers others.          *)
KeptAt(c, s, n) ==
  LET p == PartitionOf[s]
  IN  /\ Has(users[c], s) => owner[p] = c /\ ~NoneOf(s, n)
      /\ ~Has(users[c], s) => carts[c][s] = {}
      /\ owner[p] = c => \A i \in 1..n : IsLast(s, i, n) =>
           /\ Has(users[c], s) =>
                /\ Behind(users[c], s) \subseteq Rivals(p, i + 1, n)
                /\ Remembered(<<p, i>>) => carts[c][s] = Event(<<p, i>>).told
           /\ ~Has(users[c], s) => Cardinality(Rivals(p, i + 1, n)) >= MaxUsers

EngineInv ==
  /\ \A c \in Consumers : Listed(users[c])
  /\ \A s \in Sessions, n \in Nat : n = Seen(PartitionOf[s]) =>
       /\ NoneOf(s, n) \/ \E i \in 1..n : IsLast(s, i, n)
       /\ \A c \in Consumers : KeptAt(c, s, n)

(* What the engine's cart is worth when an event it reads is the next one. *)
LEMMA CartIsTold ==
  ASSUME TypeOK, ControlInv, OffsetInv, HomeInv, ToldInv, CalmInv, EngineInv,
         NEW c \in Consumers, NEW s \in Sessions, owner[PartitionOf[s]] = c,
         NEW n \in Nat, n = Seen(PartitionOf[s]), n + 1 <= Len(log[PartitionOf[s]]),
         Mine(s, n + 1), Remembered(<<PartitionOf[s], n + 1>>)
  PROVE  Event(<<PartitionOf[s], n + 1>>).told
           = Told(carts[c][s], Event(<<PartitionOf[s], n + 1>>))
<1> DEFINE p == PartitionOf[s]
<1>1. p \in Partitions /\ Len(log[p]) \in Nat /\ n + 1 \in 1..Len(log[p])
  BY PipelineAssumption, LogLengths
<1>2. (n + 1) - 1 = n
  OBVIOUS
<1>3. KeptAt(c, s, n) /\ (NoneOf(s, n) \/ \E i \in 1..n : IsLast(s, i, n))
  BY DEF EngineInv
<1>4. /\ NoneOf(s, n) => Event(<<p, n + 1>>).told = Told({}, Event(<<p, n + 1>>))
      /\ \A i \in 1..n : IsLast(s, i, n) =>
           Event(<<p, n + 1>>).told = Told(Event(<<p, i>>).told, Event(<<p, n + 1>>))
  BY <1>1, <1>2 DEF ToldInv
<1>5. CASE NoneOf(s, n)
  <2>1. ~Has(users[c], s)
    BY <1>3, <1>5 DEF KeptAt
  <2>2. carts[c][s] = {}
    BY <1>3, <2>1 DEF KeptAt
  <2>3. QED
    BY <1>4, <1>5, <2>2
<1>6. ASSUME NEW i \in 1..n, IsLast(s, i, n)
      PROVE  Event(<<p, n + 1>>).told = Told(carts[c][s], Event(<<p, n + 1>>))
  <2>1. Mine(s, i) /\ i \in 1..Len(log[p]) /\ i < n + 1 /\ i \in 1..(n + 1) /\ n + 1 \in 1..(n + 1)
    BY <1>1, <1>6 DEF IsLast
  <2>2. \A k, l \in 1..(n + 1) : k < l /\ Mine(s, k) /\ IsLast(s, k, l - 1) /\ Mine(s, l) =>
          Cardinality(Rivals(p, k + 1, l - 1)) < MaxUsers
    BY <1>1, RememberedMeans
  <2>3. Cardinality(Rivals(p, i + 1, n)) < MaxUsers
    BY <1>2, <1>6, <2>1, <2>2
  <2>4. Cardinality(Rivals(p, i + 1, n)) \in Nat /\ MaxUsers \in Nat
    <3>1. i + 1 \in Nat \ {0} /\ n <= Len(log[p])
      BY <1>1
    <3>2. QED
      BY <1>1, <3>1, RivalsAreSessions, PipelineAssumption
  <2>5. Has(users[c], s)
    <3>1. ~Has(users[c], s) => Cardinality(Rivals(p, i + 1, n)) >= MaxUsers
      BY <1>3, <1>6 DEF KeptAt
    <3>2. QED
      BY <2>3, <2>4, <3>1
  <2>6. \A k, l \in 1..i : k \in 1..(n + 1) /\ l \in 1..(n + 1)
    OBVIOUS
  <2>7. Remembered(<<p, i>>)
    BY <2>1, <2>2, <2>6, RememberedMeans
  <2>8. carts[c][s] = Event(<<p, i>>).told
    BY <1>3, <1>6, <2>5, <2>7 DEF KeptAt
  <2>9. QED
    BY <1>4, <1>6, <2>8
<1>7. QED
  BY <1>3, <1>5, <1>6

-----------------------------------------------------------------------------
(* A step that reads nothing. *)
LEMMA EngineKept ==
  ASSUME TypeOK, ControlInv, OffsetInv, CalmInv, EngineInv, [Next]_vars,
         UNCHANGED <<users, carts>>,
         \A p \in Partitions : Seen(p)' = Seen(p),
         UNCHANGED owner \/ \A p \in Partitions : owner[p] = NoConsumer
  PROVE  EngineInv'
<1>1. ASSUME NEW s \in Sessions, NEW n \in Nat, n = Seen(PartitionOf[s])
      PROVE  /\ Seen(PartitionOf[s])' = n
             /\ NoneOf(s, n)' <=> NoneOf(s, n)
             /\ \A i : IsLast(s, i, n)' <=> IsLast(s, i, n)
             /\ \A i \in 1..n : /\ Rivals(PartitionOf[s], i + 1, n)' = Rivals(PartitionOf[s], i + 1, n)
                                /\ Remembered(<<PartitionOf[s], i>>)' <=> Remembered(<<PartitionOf[s], i>>)
                                /\ Event(<<PartitionOf[s], i>>)' = Event(<<PartitionOf[s], i>>)
  <2> DEFINE p == PartitionOf[s]
  <2>1. p \in Partitions
    BY PipelineAssumption
  <2>2. Len(log[p]) \in Nat /\ n \in 0..Len(log[p])
    BY <1>1, <2>1, LogLengths, SeenType
  <2>3. \A i \in 1..n : i \in 1..Len(log[p]) /\ i + 1 \in Nat \ {0} /\ <<p, i>> \in Published
    BY <2>1, <2>2 DEF Published
  <2>4. /\ NoneOf(s, n)' <=> NoneOf(s, n)
        /\ \A i : IsLast(s, i, n)' <=> IsLast(s, i, n)
        /\ \A i \in 1..n : Rivals(p, i + 1, n)' = Rivals(p, i + 1, n)
    BY <2>2, <2>3, StretchStays
  <2>5. \A i \in 1..n : Remembered(<<p, i>>)' <=> Remembered(<<p, i>>)
    BY <2>3, RememberedStays
  <2>6. \A i \in 1..n : Event(<<p, i>>)' = Event(<<p, i>>)
    BY <2>1, <2>3, EventsStay
  <2>7. Seen(p)' = n
    BY <1>1, <2>1
  <2>8. QED
    BY <2>4, <2>5, <2>6, <2>7
<1>2. \A c \in Consumers : Listed(users[c])'
  BY DEF EngineInv, Listed
<1>3. ASSUME NEW s \in Sessions, NEW n \in Nat, n = Seen(PartitionOf[s])'
      PROVE  /\ (NoneOf(s, n) \/ \E i \in 1..n : IsLast(s, i, n))'
             /\ \A c \in Consumers : KeptAt(c, s, n)'
  <2>1. n = Seen(PartitionOf[s])
    BY <1>3, PipelineAssumption
  <2>2. /\ NoneOf(s, n) \/ \E i \in 1..n : IsLast(s, i, n)
        /\ \A c \in Consumers : KeptAt(c, s, n)
    BY <2>1 DEF EngineInv
  <2>3. /\ NoneOf(s, n)' <=> NoneOf(s, n)
        /\ \A i : IsLast(s, i, n)' <=> IsLast(s, i, n)
        /\ \A i \in 1..n :
             /\ Rivals(PartitionOf[s], i + 1, n)' = Rivals(PartitionOf[s], i + 1, n)
             /\ Remembered(<<PartitionOf[s], i>>)' <=> Remembered(<<PartitionOf[s], i>>)
             /\ Event(<<PartitionOf[s], i>>)' = Event(<<PartitionOf[s], i>>)
    BY <1>1, <2>1
  <2>4. ASSUME NEW c \in Consumers PROVE KeptAt(c, s, n)'
    <3> DEFINE p == PartitionOf[s]
    <3>1. p \in Partitions
      BY PipelineAssumption
    <3>2. /\ Has(users[c], s)' <=> Has(users[c], s)
          /\ Behind(users[c], s)' = Behind(users[c], s)
          /\ carts'[c][s] = carts[c][s]
      BY DEF Has, Behind
    <3>3. CASE UNCHANGED owner
      BY <2>2, <2>3, <3>2, <3>3 DEF KeptAt
    <3>4. CASE \A q \in Partitions : owner[q] = NoConsumer
      <4>1. Seen(p) = 0
        <5>1. \A q \in Partitions : owner[q] \notin Consumers
          BY <3>4, PipelineAssumption
        <5>2. \A d \in Consumers : ~Reading(d, p)
          BY <3>1, <5>1 DEF CalmInv, Reading, Idle
        <5>3. committed[p] = 0
          BY <3>1, <5>1 DEF CalmInv
        <5>4. QED
          BY <5>2, <5>3 DEF Seen
      <4>2. n = 0 /\ NoneOf(s, n)
        BY <2>1, <4>1 DEF NoneOf
      <4>3. ~Has(users[c], s)
        BY <2>2, <4>2 DEF KeptAt
      <4>4. \A i \in 1..n : FALSE
        BY <4>2
      <4>5. QED
        BY <2>2, <3>2, <4>3, <4>4 DEF KeptAt
    <3>5. QED
      BY <3>3, <3>4
  <2>5. QED
    BY <2>2, <2>3, <2>4
<1>4. QED
  BY <1>2, <1>3 DEF EngineInv

(* An engine reads an event of t: what it knows of another session s.      *)
LEMMA OthersAreKept ==
  ASSUME TypeOK, UNCHANGED <<log, owner>>,
         NEW c \in Consumers, NEW t \in Sessions, NEW s \in Sessions \ {t},
         Listed(users[c]), users'[c] = Touch(users[c], t),
         carts'[c][s] = IF Has(users'[c], s) THEN carts[c][s] ELSE {},
         NEW n \in Nat, NEW m \in Nat, m <= Len(log[PartitionOf[s]]),
         KeptAt(c, s, n),
         NoneOf(s, m) <=> NoneOf(s, n),
         \A i \in 1..m : IsLast(s, i, m) =>
           /\ i \in 1..n /\ IsLast(s, i, n)
           /\ Rivals(PartitionOf[s], i + 1, n) \cup {t} \subseteq Rivals(PartitionOf[s], i + 1, m)
  PROVE  KeptAt(c, s, m)'
<1> DEFINE p == PartitionOf[s]
<1>1. /\ NoneOf(s, m)' <=> NoneOf(s, m)
      /\ \A i : IsLast(s, i, m)' <=> IsLast(s, i, m)
      /\ \A i : Rivals(p, i + 1, m)' = Rivals(p, i + 1, m)
      /\ \A i : Remembered(<<p, i>>)' <=> Remembered(<<p, i>>)
      /\ \A i : Event(<<p, i>>)' = Event(<<p, i>>)
  <2>1. \A i : Event(<<p, i>>)' = Event(<<p, i>>)
    BY DEF Event
  <2>2. \A a, b : Active(p, a, b)' = Active(p, a, b)
    BY DEF Active, Event
  <2>3. \A a, b : Rivals(p, a, b)' = Rivals(p, a, b)
    BY <2>2 DEF Rivals
  <2>4. \A i : Remembered(<<p, i>>)' <=> Remembered(<<p, i>>)
    BY DEF Remembered, Rivals, Active, Event
  <2>5. \A i : Mine(s, i)' <=> Mine(s, i)
    BY <2>1 DEF Mine
  <2>6. QED
    BY <2>1, <2>3, <2>4, <2>5 DEF NoneOf, IsLast
<1>0. PICK u \in Seq(Sessions) : u = users[c]
  BY DEF TypeOK
<1>2. PICK v : u = users[c] /\ v = Touch(u, t) /\ users'[c] = v
  BY <1>0
<1>3. /\ Listed(u)
      /\ Has(v, s) => Has(u, s) /\ Behind(v, s) \subseteq Behind(u, s) \cup {t}
  BY <1>2, TouchListed
<1>4. /\ Has(users[c], s)' <=> Has(v, s)
      /\ Behind(users[c], s)' = Behind(v, s)
      /\ Has(users[c], s) <=> Has(u, s)
      /\ Behind(users[c], s) = Behind(u, s)
      /\ carts'[c][s] = IF Has(v, s) THEN carts[c][s] ELSE {}
  BY <1>2 DEF Has, Behind
<1>5. p \in Partitions
  BY PipelineAssumption
<1>6. Has(v, s) => owner'[p] = c /\ ~NoneOf(s, m)'
  BY <1>1, <1>3, <1>4 DEF KeptAt
<1>7. ~Has(v, s) => carts'[c][s] = {}
  BY <1>4
<1>8. ASSUME owner'[p] = c, NEW i \in 1..m, IsLast(s, i, m)
      PROVE  /\ Has(v, s) =>
                  /\ Behind(v, s) \subseteq Rivals(p, i + 1, m)
                  /\ Remembered(<<p, i>>) => carts'[c][s] = Event(<<p, i>>).told
             /\ ~Has(v, s) => Cardinality(Rivals(p, i + 1, m)) >= MaxUsers
  <2>1. /\ i \in 1..n /\ IsLast(s, i, n) /\ owner[p] = c
        /\ Rivals(p, i + 1, n) \cup {t} \subseteq Rivals(p, i + 1, m)
    BY <1>8
  <2>2. /\ Has(u, s) =>
             /\ Behind(u, s) \subseteq Rivals(p, i + 1, n)
             /\ Remembered(<<p, i>>) => carts[c][s] = Event(<<p, i>>).told
        /\ ~Has(u, s) => Cardinality(Rivals(p, i + 1, n)) >= MaxUsers
    BY <1>4, <2>1 DEF KeptAt
  <2>3. CASE Has(v, s)
    BY <1>3, <1>4, <2>1, <2>2, <2>3
  <2>4. CASE ~Has(v, s)
    <3>1. i + 1 \in Nat \ {0} /\ m <= Len(log[p])
      OBVIOUS
    <3>2. /\ Rivals(p, i + 1, m) \subseteq Sessions /\ IsFiniteSet(Rivals(p, i + 1, m))
          /\ Cardinality(Rivals(p, i + 1, m)) \in Nat
      BY <1>5, <3>1, RivalsAreSessions
    <3>3. CASE Has(u, s)
      <4>1. Cardinality(Behind(u, s) \cup {t}) >= MaxUsers
        BY <1>2, <1>3, <2>4, <3>3, ForgottenIsOldest
      <4>2. Behind(u, s) \cup {t} \in SUBSET Rivals(p, i + 1, m)
        BY <2>1, <2>2, <3>3
      <4>3. /\ IsFiniteSet(Behind(u, s) \cup {t})
            /\ Cardinality(Behind(u, s) \cup {t}) <= Cardinality(Rivals(p, i + 1, m))
        BY <3>2, <4>2, FS_Subset
      <4>4. Cardinality(Behind(u, s) \cup {t}) \in Nat /\ MaxUsers \in Nat
        BY <4>3, FS_CardinalityType, PipelineAssumption
      <4>5. QED
        BY <2>4, <3>2, <4>1, <4>3, <4>4
    <3>4. CASE ~Has(u, s)
      <4>1. Rivals(p, i + 1, n) \in SUBSET Rivals(p, i + 1, m)
        BY <2>1
      <4>2. /\ IsFiniteSet(Rivals(p, i + 1, n))
            /\ Cardinality(Rivals(p, i + 1, n)) <= Cardinality(Rivals(p, i + 1, m))
        BY <3>2, <4>1, FS_Subset
      <4>3. Cardinality(Rivals(p, i + 1, n)) \in Nat /\ MaxUsers \in Nat
        BY <4>2, FS_CardinalityType, PipelineAssumption
      <4>4. QED
        BY <2>2, <2>4, <3>2, <3>4, <4>2, <4>3
    <3>5. QED
      BY <3>3, <3>4
  <2>5. QED
    BY <2>3, <2>4
<1> HIDE DEF p
<1>9. /\ Has(users[c], s)' => owner'[p] = c /\ ~NoneOf(s, m)'
      /\ ~Has(users[c], s)' => carts'[c][s] = {}
  BY <1>4, <1>6, <1>7
<1>10. ASSUME owner'[p] = c, NEW i \in 1..m, IsLast(s, i, m)'
       PROVE  /\ Has(users[c], s)' =>
                   /\ Behind(users[c], s)' \subseteq Rivals(p, i + 1, m)'
                   /\ Remembered(<<p, i>>)' => carts'[c][s] = Event(<<p, i>>)'.told
              /\ ~Has(users[c], s)' => Cardinality(Rivals(p, i + 1, m)') >= MaxUsers
  BY <1>1, <1>4, <1>8, <1>10
<1>11. QED
  BY <1>9, <1>10 DEF KeptAt, p

(* An engine that did not read keeps what it knows of a session: of the    *)
(* partition read by the other it knows nothing.                           *)
LEMMA IdleEngineKept ==
  ASSUME UNCHANGED <<log, owner>>, NEW c, UNCHANGED <<users[c], carts[c]>>,
         NEW s \in Sessions, NEW n, NEW m, KeptAt(c, s, n),
         m = n \/ owner[PartitionOf[s]] # c
  PROVE  KeptAt(c, s, m)'
<1> DEFINE p == PartitionOf[s]
<1>1. /\ Has(users[c], s)' <=> Has(users[c], s)
      /\ Behind(users[c], s)' = Behind(users[c], s)
      /\ carts'[c][s] = carts[c][s]
  BY DEF Has, Behind
<1>2. CASE owner[p] # c
  BY <1>1, <1>2 DEF KeptAt
<1>3. CASE m = n
  <2>1. /\ \A i : Event(<<p, i>>)' = Event(<<p, i>>)
        /\ \A a, b : Rivals(p, a, b)' = Rivals(p, a, b)
        /\ \A i : Remembered(<<p, i>>)' <=> Remembered(<<p, i>>)
    BY DEF Rivals, Active, Event, Remembered
  <2>2. /\ NoneOf(s, n)' <=> NoneOf(s, n)
        /\ \A i : IsLast(s, i, n)' <=> IsLast(s, i, n)
    BY DEF NoneOf, IsLast, Mine, Event
  <2>3. QED
    BY <1>1, <1>3, <2>1, <2>2 DEF KeptAt
<1>4. QED
  BY <1>2, <1>3

LEMMA EngineReads ==
  ASSUME TypeOK, ControlInv, OffsetInv, HomeInv, ToldInv, CalmInv, EngineInv,
         NEW c \in Consumers, Evaluate(c), NEW q \in Partitions, NEW k \in Nat,
         at[c] = <<q, k + 1>>, Seen(q) = k, Seen(q)' = k + 1,
         \A p \in Partitions \ {q} : Seen(p)' = Seen(p)
  PROVE  EngineInv'
<1>1. /\ UNCHANGED <<log, owner>> /\ ~Idle(c)
      /\ Remember(c, Event(at[c]))
  BY DEF Evaluate, Idle
<1>2. at[c] \in Published /\ Event(at[c]) \in Events
  BY <1>1, BusyEvent
<1>3. k + 1 \in 1..Len(log[q]) /\ Len(log[q]) \in Nat
  BY <1>2, PublishedIsId, LogLengths
<1>4. PICK e \in Events, t \in Sessions :
        e = Event(<<q, k + 1>>) /\ t = e.session /\ PartitionOf[t] = q
  BY <1>2, <1>3 DEF Events, HomeInv
<1>5. owner[q] = c
  BY <1>1, OneWorker
<1>6. \A s \in Sessions : \A n : /\ NoneOf(s, n)' <=> NoneOf(s, n)
                                 /\ \A i : IsLast(s, i, n)' <=> IsLast(s, i, n)
  BY <1>1 DEF NoneOf, IsLast, Mine, Event
<1>7. ASSUME NEW s \in Sessions, PartitionOf[s] = q
      PROVE  /\ NoneOf(s, k) \/ \E i \in 1..k : IsLast(s, i, k)
             /\ \A d \in Consumers : KeptAt(d, s, k)
             /\ NoneOf(s, k + 1) \/ \E i \in 1..(k + 1) : IsLast(s, i, k + 1)
  <2>1. /\ NoneOf(s, k) \/ \E i \in 1..k : IsLast(s, i, k)
        /\ \A d \in Consumers : KeptAt(d, s, k)
    BY <1>7 DEF EngineInv
  <2>2. k + 1 \in 1..(k + 1) /\ \A i \in 1..k : i \in 1..(k + 1)
    OBVIOUS
  <2>3. QED
    BY <2>1, <2>2, LastGrows
<1>8. ASSUME NEW s \in Sessions, PartitionOf[s] # q, NEW n \in Nat, n = Seen(PartitionOf[s])
      PROVE  /\ NoneOf(s, n) \/ \E i \in 1..n : IsLast(s, i, n)
             /\ \A d \in Consumers : KeptAt(d, s, n)
  BY <1>8 DEF EngineInv
<1>9. \A s \in Sessions : PartitionOf[s] \in Partitions
  BY PipelineAssumption
(* It is enough to show what every engine knows of every session. *)
<1>10. SUFFICES /\ Listed(users'[c]) /\ \A d \in Consumers \ {c} : UNCHANGED <<users[d], carts[d]>>
                /\ \A s \in Sessions : PartitionOf[s] = q => KeptAt(c, s, k + 1)'
                /\ \A s \in Sessions, n \in Nat :
                     PartitionOf[s] # q /\ n = Seen(PartitionOf[s]) => KeptAt(c, s, n)'
  <2> SUFFICES ASSUME Listed(users'[c]), \A d \in Consumers \ {c} : UNCHANGED <<users[d], carts[d]>>,
                      \A s \in Sessions : PartitionOf[s] = q => KeptAt(c, s, k + 1)',
                      \A s \in Sessions, n \in Nat :
                        PartitionOf[s] # q /\ n = Seen(PartitionOf[s]) => KeptAt(c, s, n)'
               PROVE  EngineInv'
    OBVIOUS
  <2>1. \A d \in Consumers : Listed(users[d])'
    BY DEF EngineInv, Listed
  <2>2. ASSUME NEW s \in Sessions, NEW n \in Nat, n = Seen(PartitionOf[s])'
        PROVE  /\ (NoneOf(s, n) \/ \E i \in 1..n : IsLast(s, i, n))'
               /\ \A d \in Consumers : KeptAt(d, s, n)'
    <3>1. CASE PartitionOf[s] = q
      <4>1. n = k + 1
        BY <2>2, <3>1
      <4>2. \A d \in Consumers \ {c} : KeptAt(d, s, n)'
        BY <1>1, <1>5, <1>7, <3>1, IdleEngineKept
      <4>3. (NoneOf(s, n) \/ \E i \in 1..n : IsLast(s, i, n))'
        BY <1>6, <1>7, <3>1, <4>1
      <4>4. QED
        BY <3>1, <4>1, <4>2, <4>3
    <3>2. CASE PartitionOf[s] # q
      <4>1. n = Seen(PartitionOf[s])
        BY <1>9, <2>2, <3>2
      <4>2. \A d \in Consumers \ {c} : KeptAt(d, s, n)'
        BY <1>1, <1>8, <3>2, <4>1, IdleEngineKept
      <4>3. (NoneOf(s, n) \/ \E i \in 1..n : IsLast(s, i, n))'
        BY <1>6, <1>8, <3>2, <4>1
      <4>4. QED
        BY <3>2, <4>1, <4>2, <4>3
    <3>3. QED
      BY <3>1, <3>2
  <2>3. QED
    BY <2>1, <2>2 DEF EngineInv
<1>11. \A s \in Sessions : PartitionOf[s] = q =>
         (Mine(s, k + 1) <=> s = t /\ e.kind \in EngineKinds)
  BY <1>4 DEF Mine
<1>12. Event(at[c]) = e
  BY <1>4
<1>13. CASE e.kind \notin EngineKinds
  <2>1. UNCHANGED <<users, carts>>
    BY <1>1, <1>12, <1>13 DEF Remember
  <2>2. ASSUME NEW s \in Sessions, PartitionOf[s] = q PROVE KeptAt(c, s, k + 1)'
    <3>1. KeptAt(c, s, k)
      BY <1>7, <2>2
    <3>2. ~Mine(s, k + 1)
      BY <1>11, <1>13, <2>2
    <3>3. /\ NoneOf(s, k + 1) <=> NoneOf(s, k)
          /\ \A i : IsLast(s, i, k + 1) <=> IsLast(s, i, k)
      BY <3>2, LastGrows
    <3>4. \A i \in 1..(k + 1) : Rivals(q, i + 1, k + 1) = Rivals(q, i + 1, k)
      <4>2. \A i \in 1..k : Rivals(q, i + 1, k + 1) = Rivals(q, i + 1, k)
        <5> SUFFICES ASSUME NEW i \in 1..k
                     PROVE  Rivals(q, i + 1, k + 1) = Rivals(q, i + 1, k)
          OBVIOUS
        <5>1. i + 1 \in Nat /\ i + 1 <= k + 1
          OBVIOUS
        <5>2. Rivals(q, i + 1, k + 1) = Rivals(q, i + 1, k) \cup
                (IF Event(<<q, k + 1>>).kind \in EngineKinds
                   THEN {Event(<<q, k + 1>>).session} ELSE {})
          BY <5>1, RivalsGrow
        <5>3. QED
          BY <1>4, <1>13, <5>2
      <4>4. ((k + 1) + 1)..(k + 1) = {} /\ ((k + 1) + 1)..k = {}
        OBVIOUS
      <4>5. Rivals(q, (k + 1) + 1, k + 1) = Rivals(q, (k + 1) + 1, k)
        BY <4>4 DEF Rivals, Active
      <4>6. \A i \in 1..(k + 1) : i \in 1..k \/ i = k + 1
        OBVIOUS
      <4>7. QED
        BY <4>2, <4>5, <4>6
    <3>5. KeptAt(c, s, k + 1)
      <4>1. \A i \in 1..(k + 1) : IsLast(s, i, k + 1) => i \in 1..k /\ IsLast(s, i, k)
        BY <3>3 DEF IsLast
      <4>2. QED
        BY <2>2, <3>1, <3>3, <3>4, <4>1 DEF KeptAt
    <3>6. QED
      BY <1>1, <2>1, <3>5, IdleEngineKept
  <2>3. \A s \in Sessions, n \in Nat :
          PartitionOf[s] # q /\ n = Seen(PartitionOf[s]) => KeptAt(c, s, n)'
    BY <1>1, <1>8, <2>1, IdleEngineKept
  <2>4. Listed(users'[c])
    BY <2>1 DEF EngineInv
  <2>5. QED
    BY <2>1, <2>2, <2>3, <2>4
<1>14. CASE e.kind \in EngineKinds
  <2> DEFINE kept == Touch(users[c], t)
  <2>1. /\ users' = [users EXCEPT ![c] = kept]
        /\ carts' = [carts EXCEPT ![c] =
             [s \in Sessions |-> IF s \in ToSet(kept)
                THEN [carts[c] EXCEPT ![t] = CartAfter(@, e)][s] ELSE {}]]
    BY <1>1, <1>4, <1>12, <1>14 DEF Remember
  <2>2. Listed(users[c]) /\ users[c] \in Seq(Sessions)
    BY DEF EngineInv, Listed
  <2>3. /\ Listed(kept) /\ Has(kept, t) /\ Behind(kept, t) = {}
    BY <1>4, <2>2, TouchListed
  <2>4. \A x : x \in ToSet(kept) <=> Has(kept, x)
    BY <2>3, HasIsIn DEF Listed
  <2> HIDE DEF kept
  <2>5. /\ users'[c] = kept
        /\ \A s \in Sessions : carts'[c][s] =
             IF Has(kept, s) THEN (IF s = t THEN CartAfter(carts[c][t], e) ELSE carts[c][s]) ELSE {}
    BY <1>4, <2>1, <2>4 DEF TypeOK
  <2>6. \A d \in Consumers \ {c} : UNCHANGED <<users[d], carts[d]>>
    BY <2>1 DEF TypeOK
  <2>7. KeptAt(c, t, k + 1)'
    <3>1. Mine(t, k + 1)
      BY <1>4, <1>11, <1>14
    <3>2. /\ ~NoneOf(t, k + 1)
          /\ \A i : IsLast(t, i, k + 1) <=> i = k + 1
      BY <3>1, LastGrows
    <3>3. /\ Has(users[c], t)'
          /\ Behind(users[c], t)' = {}
      BY <2>3, <2>5 DEF Has, Behind
    <3>4. carts'[c][t] = CartAfter(carts[c][t], e)
      BY <1>4, <2>3, <2>5
    <3>5. CartAfter(carts[c][t], e) = Told(carts[c][t], e)
      BY DEF CartAfter, Told
    <3>6. Remembered(<<q, k + 1>>) => carts'[c][t] = e.told
      BY <1>3, <1>4, <1>5, <3>1, <3>4, <3>5, CartIsTold
    <3>7. /\ Remembered(<<q, k + 1>>)' <=> Remembered(<<q, k + 1>>)
          /\ Event(<<q, k + 1>>)' = e
      BY <1>1, <1>4 DEF Remembered, Rivals, Active, Event
    <3>8. owner'[q] = c
      BY <1>1, <1>5
    <3>9. \A i \in 1..(k + 1) : IsLast(t, i, k + 1)' => i = k + 1
      BY <1>6, <3>2
    <3>10. ~NoneOf(t, k + 1)'
      BY <1>6, <3>2
    <3>11. QED
      BY <1>4, <3>3, <3>6, <3>7, <3>8, <3>9, <3>10 DEF KeptAt
  <2>8. ASSUME NEW s \in Sessions \ {t}, PartitionOf[s] = q PROVE KeptAt(c, s, k + 1)'
    <3>1. KeptAt(c, s, k)
      BY <1>7, <2>8
    <3>2. ~Mine(s, k + 1)
      BY <1>11, <2>8
    <3>3. /\ NoneOf(s, k + 1) <=> NoneOf(s, k)
          /\ \A i : IsLast(s, i, k + 1) <=> IsLast(s, i, k)
      BY <3>2, LastGrows
    <3>4. ASSUME NEW i \in 1..(k + 1), IsLast(s, i, k + 1)
          PROVE  /\ i \in 1..k /\ IsLast(s, i, k)
                 /\ Rivals(q, i + 1, k) \cup {t} \subseteq Rivals(q, i + 1, k + 1)
      <4>1. i \in 1..k /\ IsLast(s, i, k)
        BY <3>3, <3>4 DEF IsLast
      <4>2. i + 1 \in Nat /\ i + 1 <= k + 1
        BY <4>1
      <4>3. Rivals(q, i + 1, k + 1) = Rivals(q, i + 1, k) \cup {t}
        BY <1>4, <1>14, <4>2, RivalsGrow
      <4>4. QED
        BY <4>1, <4>3
    <3>5. k + 1 \in Nat /\ k + 1 <= Len(log[PartitionOf[s]])
      BY <1>3, <2>8
    <3>6. carts'[c][s] = IF Has(users'[c], s) THEN carts[c][s] ELSE {}
      BY <2>5
    <3>7. users'[c] = Touch(users[c], t)
      BY <2>5 DEF kept
    <3>8. \A i \in 1..(k + 1) : IsLast(s, i, k + 1) =>
            /\ i \in 1..k /\ IsLast(s, i, k)
            /\ Rivals(PartitionOf[s], i + 1, k) \cup {t} \subseteq Rivals(PartitionOf[s], i + 1, k + 1)
      BY <2>8, <3>4
    <3>9. QED
      BY <1>1, <2>2, <3>1, <3>3, <3>5, <3>6, <3>7, <3>8, OthersAreKept
  <2>9. ASSUME NEW s \in Sessions, NEW n \in Nat, PartitionOf[s] # q, n = Seen(PartitionOf[s])
        PROVE  KeptAt(c, s, n)'
    <3>1. KeptAt(c, s, n)
      BY <1>8, <2>9
    <3>2. s \in Sessions \ {t} /\ PartitionOf[s] \in Partitions
      BY <1>4, <1>9, <2>9
    <3>3. \A i \in 1..n : IsLast(s, i, n) =>
            /\ i \in 1..n /\ IsLast(s, i, n)
            /\ Rivals(PartitionOf[s], i + 1, n) \cup {t} \subseteq Rivals(PartitionOf[s], i + 1, n)
      BY <1>4, <2>9 DEF Rivals
    <3>4. n <= Len(log[PartitionOf[s]])
      BY <2>9, <3>2, SeenType
    <3>5. carts'[c][s] = IF Has(users'[c], s) THEN carts[c][s] ELSE {}
      BY <2>5, <3>2
    <3>6. users'[c] = Touch(users[c], t)
      BY <2>5 DEF kept
    <3>7. QED
      BY <1>1, <2>2, <3>1, <3>2, <3>3, <3>4, <3>5, <3>6, OthersAreKept
  <2>10. \A s \in Sessions : PartitionOf[s] = q => KeptAt(c, s, k + 1)'
    BY <2>7, <2>8
  <2>11. \A s \in Sessions, n \in Nat :
           PartitionOf[s] # q /\ n = Seen(PartitionOf[s]) => KeptAt(c, s, n)'
    BY <2>9
  <2>12. Listed(users'[c])
    BY <2>3, <2>5
  <2>13. QED
    BY <2>6, <2>10, <2>11, <2>12
<1>15. QED
  BY <1>13, <1>14

-----------------------------------------------------------------------------
(* What becomes of the decisions.                                          *)

(* The stream supports the item for the coupon of event id. *)
Fits(item, id) == item \in SupportFor(Event(id).told, Event(id))

(* A coupon that was announced, or is being delivered. *)
OnItsWay(id) ==
  id \in activity.announced \/ \E c \in Consumers : Delivering(c) /\ at[c] = id

(* A delivery in progress fits the stream, a claim names a coupon on its   *)
(* way, and so does every favoured view an engine has read.                *)
OfferInv ==
  /\ \A c \in Consumers, id \in Published : \A item :
       Delivering(c) /\ at[c] = id /\ support[c] = item /\ Remembered(id) => Fits(item, id)
  /\ \A o \in Offers : claims[o] # NoId =>
       \E id \in Published : claims[o] = id /\ OnItsWay(id) /\ id[2] <= Seen(id[1])
  /\ \A id \in Published, n \in Nat :
       n = Seen(id[1]) /\ id[2] <= n /\ (\E item : Fits(item, id)) /\ Remembered(id) =>
         \E j \in Published : OnItsWay(j) /\ OfferOf(j) = OfferOf(id) /\ j[2] <= id[2]

LEMMA PublishedStays ==
  ASSUME TypeOK, [Next]_vars, NEW id \in Published
  PROVE  /\ id \in Published' /\ Event(id)' = Event(id) /\ OfferOf(id)' = OfferOf(id)
         /\ Remembered(id)' <=> Remembered(id)
         /\ \A item : Fits(item, id)' <=> Fits(item, id)
<1>1. PICK p \in Partitions, i \in Nat : id = <<p, i>> /\ i \in 1..Len(log[p])
  BY PublishedIsId, LogLengths
<1>2. /\ Len(log[p]) \in Nat /\ Len(log'[p]) \in Nat /\ Len(log'[p]) >= Len(log[p])
      /\ Event(<<p, i>>)' = Event(<<p, i>>)
  BY <1>1, EventsStay
<1>3. i \in 1..Len(log'[p])
  BY <1>1, <1>2
<1>4. id \in Published'
  BY <1>1, <1>3 DEF Published
<1>5. Event(id)' = Event(id)
  BY <1>1, <1>2
<1>6. QED
  BY <1>4, <1>5, RememberedStays DEF OfferOf, Fits

LEMMA OfferKept ==
  ASSUME TypeOK, ControlInv, OffsetInv, CalmInv, OfferInv, OffersFollowTheStream,
         [Next]_vars, UNCHANGED claims,
         \A p \in Partitions : Seen(p)' = Seen(p),
         \A m \in couponTopic' : m \in couponTopic
           \/ \E c \in Consumers : Delivering(c) /\ m = [coupon |-> at[c], support |-> support[c]],
         \A c \in Consumers : Delivering(c)' =>
           Delivering(c) /\ at'[c] = at[c] /\ support'[c] = support[c],
         \A id \in Published : OnItsWay(id) => OnItsWay(id)'
  PROVE  OfferInv' /\ OffersFollowTheStream'
<1>1. \A c \in Consumers : Delivering(c) => at[c] \in Published
  BY BusyEvent DEF ControlInv, Idle
<1>2. \A id \in Published : id[1] \in Partitions /\ id[2] \in Nat /\ id = <<id[1], id[2]>>
  BY PublishedIsId, LogLengths
<1>3. ASSUME NEW c \in Consumers, NEW id \in Published', NEW item,
             Delivering(c)', at'[c] = id, support'[c] = item, Remembered(id)'
      PROVE  Fits(item, id)'
  <2>1. Delivering(c) /\ at[c] = id /\ support[c] = item /\ id \in Published
    BY <1>1, <1>3
  <2>2. Remembered(id)
    BY <1>3, <2>1, PublishedStays
  <2>3. Fits(item, id)
    BY <2>1, <2>2 DEF OfferInv
  <2>4. QED
    BY <2>1, <2>3, PublishedStays
<1>4. ASSUME NEW o \in Offers, claims'[o] # NoId
      PROVE  \E id \in Published' : claims'[o] = id /\ OnItsWay(id)' /\ id[2] <= Seen(id[1])'
  <2>1. PICK id \in Published : claims[o] = id /\ OnItsWay(id) /\ id[2] <= Seen(id[1])
    BY <1>4 DEF OfferInv
  <2>2. Seen(id[1])' = Seen(id[1])
    BY <1>2
  <2>3. id \in Published' /\ OnItsWay(id)' /\ claims'[o] = id
    BY <2>1, PublishedStays
  <2>4. QED
    BY <2>1, <2>2, <2>3
<1>5. ASSUME NEW id \in Published', NEW n \in Nat, n = Seen(id[1])', id[2] <= n,
             \E item : Fits(item, id)', Remembered(id)'
      PROVE  \E j \in Published' : OnItsWay(j)' /\ OfferOf(j)' = OfferOf(id)' /\ j[2] <= id[2]
  <2>1. id[1] \in Partitions /\ id[2] \in Nat \ {0} /\ id = <<id[1], id[2]>>
    <3>1. id[1] \in Partitions /\ id[2] \in 1..Len(log'[id[1]]) /\ id = <<id[1], id[2]>>
      BY DEF Published
    <3>2. Len(log'[id[1]]) \in Nat
      BY <3>1, EventsStay
    <3>3. QED
      BY <3>1, <3>2
  <2>2. n = Seen(id[1]) /\ Seen(id[1]) \in 0..Len(log[id[1]]) /\ Len(log[id[1]]) \in Nat
    BY <1>5, <2>1, SeenType, LogLengths
  <2>3. id[2] \in 1..Len(log[id[1]])
    BY <1>5, <2>1, <2>2
  <2>4. id \in Published
    BY <2>1, <2>3 DEF Published
  <2>5. (\E item : Fits(item, id)) /\ Remembered(id)
    BY <1>5, <2>4, PublishedStays
  <2>6. PICK j \in Published : OnItsWay(j) /\ OfferOf(j) = OfferOf(id) /\ j[2] <= id[2]
    BY <1>5, <2>2, <2>4, <2>5 DEF OfferInv
  <2>7. j \in Published' /\ OnItsWay(j)' /\ OfferOf(j)' = OfferOf(j)
    BY <2>6, PublishedStays
  <2>8. OfferOf(id)' = OfferOf(id)
    BY <2>4, PublishedStays
  <2>9. QED
    BY <2>6, <2>7, <2>8
<1>6. ASSUME NEW m \in couponTopic', Remembered(m.coupon)'
      PROVE  m.support \in SupportFor(Event(m.coupon)'.told, Event(m.coupon)')
  <2>1. PICK id, item : /\ id \in Published /\ m.coupon = id /\ m.support = item
                        /\ Remembered(id) => Fits(item, id)
    <3>1. CASE m \in couponTopic
      BY <3>1 DEF TypeOK, OffersFollowTheStream, Fits
    <3>2. ASSUME NEW c \in Consumers, Delivering(c),
                 m = [coupon |-> at[c], support |-> support[c]]
          PROVE  \E id, item : /\ id \in Published /\ m.coupon = id /\ m.support = item
                               /\ Remembered(id) => Fits(item, id)
      BY <1>1, <3>2 DEF OfferInv
    <3>3. QED
      BY <3>1, <3>2
  <2>2. Fits(item, id)'
    BY <1>6, <2>1, PublishedStays
  <2>3. QED
    BY <2>1, <2>2 DEF Fits
<1>7. OfferInv'
  <2>1. \A c \in Consumers, id \in Published' : \A item :
          Delivering(c)' /\ at'[c] = id /\ support'[c] = item /\ Remembered(id)'
            => Fits(item, id)'
    BY <1>3
  <2>2. \A o \in Offers : claims'[o] # NoId =>
          \E id \in Published' : claims'[o] = id /\ OnItsWay(id)' /\ id[2] <= Seen(id[1])'
    BY <1>4
  <2>3. \A id \in Published', n \in Nat :
          n = Seen(id[1])' /\ id[2] <= n /\ (\E item : Fits(item, id)') /\ Remembered(id)' =>
            \E j \in Published' : OnItsWay(j)' /\ OfferOf(j)' = OfferOf(id)' /\ j[2] <= id[2]
    BY <1>5
  <2>4. QED
    BY <2>1, <2>2, <2>3 DEF OfferInv
<1>8. OffersFollowTheStream'
  BY <1>6 DEF OffersFollowTheStream
<1>9. QED
  BY <1>7, <1>8

(* An evaluation decides as the stream does, if the session is remembered. *)
LEMMA DecidesAsStream ==
  ASSUME TypeOK, ControlInv, OffsetInv, HomeInv, ToldInv, CalmInv, EngineInv,
         NEW c \in Consumers, pc[c] = "evaluate", NEW id \in Published, at[c] = id,
         Remembered(id)
  PROVE  SupportFor(carts[c][Event(id).session], Event(id)) = SupportFor(Event(id).told, Event(id))
<1> DEFINE e == Event(id)
           s == e.session
           p == id[1]
<1>1. /\ p \in Partitions /\ owner[p] = c /\ id = <<p, committed[p] + 1>>
      /\ Seen(p) = committed[p]
  BY OneWorker DEF Idle
<1>2. s \in Sessions /\ PartitionOf[s] = p
  BY <1>1, IdInLog
<1>3. PICK n \in Nat : n = Seen(p)
  BY <1>1, SeenType, LogLengths
<1>4. n + 1 <= Len(log[p]) /\ id = <<p, n + 1>>
  BY <1>1, <1>3, PublishedIsId, LogLengths
<1>5. CASE e.kind = "product_view_ended"
  <2>1. Mine(s, n + 1)
    BY <1>2, <1>4, <1>5 DEF Mine, EngineKinds
  <2>2. e.told = Told(carts[c][s], e)
    BY <1>1, <1>2, <1>3, <1>4, <2>1, CartIsTold
  <2>3. Told(carts[c][s], e) = carts[c][s]
    BY <1>5 DEF Told
  <2>4. QED
    BY <2>2, <2>3
<1>6. CASE e.kind # "product_view_ended"
  BY <1>6 DEF SupportFor
<1>7. QED
  BY <1>5, <1>6

LEMMA OfferDecided ==
  ASSUME TypeOK, ControlInv, OffsetInv, HomeInv, ToldInv, CalmInv, EngineInv, AccountInv,
         OfferInv, OffersFollowTheStream, TypeOK', [Next]_vars,
         NEW c \in Consumers, Evaluate(c), NEW q \in Partitions, NEW k \in Nat,
         at[c] = <<q, k + 1>>, Seen(q) = k, Seen(q)' = k + 1,
         \A p \in Partitions \ {q} : Seen(p)' = Seen(p)
  PROVE  OfferInv' /\ OffersFollowTheStream'
<1>1. /\ UNCHANGED <<log, couponTopic, activity, at>> /\ pc[c] = "evaluate" /\ ~Idle(c)
      /\ support[c] = NoProduct
  BY DEF Evaluate, ControlInv, Delivering, Idle
<1>2. PICK me \in Published : me = <<q, k + 1>>
  BY <1>1, BusyEvent
<1>3. PICK e \in Events, o \in Offers : e = Event(me) /\ o = OfferOf(me)
  BY <1>2, PublishedIsId
<1>4. at[c] = me /\ me[1] = q /\ me[2] = k + 1
  BY <1>2
<1>5. PICK supports : supports = SupportFor(carts[c][e.session], e)
  OBVIOUS
<1>6. /\ supports \subseteq Products
      /\ IF supports # {} /\ claims[o] = NoId
           THEN /\ claims' = [claims EXCEPT ![o] = me]
                /\ \E item \in supports : support' = [support EXCEPT ![c] = item]
           ELSE UNCHANGED <<claims, support>>
  <2>1. supports \subseteq Products
    BY <1>3, <1>5 DEF SupportFor, Strongest, TypeOK, Events
  <2>2. QED
    BY <1>3, <1>4, <1>5, <2>1 DEF Evaluate
<1>7. Remembered(me) => supports = SupportFor(e.told, e)
  BY <1>1, <1>3, <1>4, <1>5, DecidesAsStream
<1>8. Published' = Published
  BY <1>1, SameLog
<1>9. \A id \in Published : id[1] \in Partitions /\ id[2] \in Nat /\ id = <<id[1], id[2]>>
  BY PublishedIsId, LogLengths
<1>10. \A p \in Partitions : Seen(p) \in Nat /\ Seen(p)' \in Nat /\ Seen(p) <= Seen(p)'
  <2>1. \A p \in Partitions : Seen(p) \in Nat
    BY SeenType, LogLengths
  <2>2. QED
    BY <2>1
<1>11. \A id : OnItsWay(id) => OnItsWay(id)'
  BY <1>1, <1>6 DEF OnItsWay, Delivering, TypeOK
<1>13. /\ \A id \in Published : Remembered(id)' <=> Remembered(id)
       /\ \A id \in Published : \A item : Fits(item, id)' <=> Fits(item, id)
       /\ \A id \in Published : OfferOf(id)' = OfferOf(id)
  BY PublishedStays
<1>12. ASSUME NEW m \in couponTopic', Remembered(m.coupon)'
       PROVE  m.support \in SupportFor(Event(m.coupon)'.told, Event(m.coupon)')
  <2>1. PICK id, item : /\ id \in Published /\ m.coupon = id /\ m.support = item
                        /\ Remembered(id) => Fits(item, id)
    BY <1>1 DEF TypeOK, OffersFollowTheStream, Fits
  <2>2. Fits(item, id)'
    BY <1>12, <1>13, <2>1
  <2>3. QED
    BY <2>1, <2>2 DEF Fits
<1>14. ASSUME NEW d \in Consumers, NEW id \in Published', NEW item,
              Delivering(d)', at'[d] = id, support'[d] = item, Remembered(id)'
       PROVE  Fits(item, id)'
  <2>1. id \in Published /\ at[d] = id /\ Remembered(id)
    BY <1>1, <1>8, <1>13, <1>14
  <2>2. Fits(item, id)
    <3>1. CASE support'[d] = support[d]
      BY <1>14, <2>1, <3>1 DEF OfferInv, Delivering
    <3>2. CASE support'[d] # support[d]
      <4>1. d = c /\ item \in supports
        BY <1>6, <1>14, <3>2 DEF TypeOK
      <4>2. QED
        BY <1>3, <1>4, <1>7, <2>1, <4>1 DEF Fits
    <3>3. QED
      BY <3>1, <3>2
  <2>3. QED
    BY <1>13, <2>1, <2>2
<1>15. ASSUME NEW x \in Offers, claims'[x] # NoId
       PROVE  \E id \in Published' : claims'[x] = id /\ OnItsWay(id)' /\ id[2] <= Seen(id[1])'
  <2>1. CASE claims'[x] = claims[x]
    <3>1. PICK id \in Published : claims[x] = id /\ OnItsWay(id) /\ id[2] <= Seen(id[1])
      BY <1>15, <2>1 DEF OfferInv
    <3>2. id[2] <= Seen(id[1])'
      BY <1>9, <1>10, <3>1
    <3>3. QED
      BY <1>8, <1>11, <2>1, <3>1, <3>2
  <2>2. CASE claims'[x] # claims[x]
    <3>1. claims'[x] = me /\ support'[c] \in Products
      BY <1>6, <2>2 DEF TypeOK
    <3>2. OnItsWay(me)'
      BY <1>1, <1>4, <3>1, PipelineAssumption DEF OnItsWay, Delivering
    <3>3. me[2] <= Seen(me[1])'
      BY <1>4
    <3>4. QED
      BY <1>8, <3>1, <3>2, <3>3
  <2>3. QED
    BY <2>1, <2>2
<1>16. ASSUME Remembered(me), \E item : Fits(item, me)
       PROVE  \E j \in Published : OnItsWay(j)' /\ OfferOf(j) = OfferOf(me) /\ j[2] <= k + 1
  <2>1. supports # {}
    BY <1>3, <1>7, <1>16 DEF Fits
  <2>2. CASE claims[o] = NoId
    <3>1. support'[c] \in Products
      BY <1>6, <2>1, <2>2 DEF TypeOK
    <3>2. OnItsWay(me)'
      BY <1>1, <1>4, <3>1, PipelineAssumption DEF OnItsWay, Delivering
    <3>3. QED
      BY <1>4, <3>2
  <2>3. CASE claims[o] # NoId
    <3>1. PICK j \in Published : claims[o] = j /\ OnItsWay(j) /\ j[2] <= Seen(j[1])
      BY <2>3 DEF OfferInv
    <3>2. OfferOf(j) = OfferOf(me)
      BY <1>3, <2>3, <3>1 DEF AccountInv
    <3>3. Event(j).session = Event(me).session
      BY <3>2 DEF OfferOf
    <3>4. j[1] = q
      <4>1. j = <<PartitionOf[Event(j).session], j[2]>> /\ me = <<PartitionOf[Event(me).session], me[2]>>
        BY IdInLog
      <4>2. QED
        BY <1>4, <3>3, <4>1
    <3>5. j[2] <= k + 1
      BY <1>9, <3>1, <3>4
    <3>6. QED
      BY <1>11, <3>1, <3>2, <3>5
  <2>4. QED
    BY <2>2, <2>3
<1>17. ASSUME NEW id \in Published', NEW n \in Nat, n = Seen(id[1])', id[2] <= n,
              \E item : Fits(item, id)', Remembered(id)'
       PROVE  \E j \in Published' : OnItsWay(j)' /\ OfferOf(j)' = OfferOf(id)' /\ j[2] <= id[2]
  <2>1. id \in Published /\ Remembered(id) /\ \E item : Fits(item, id)
    BY <1>8, <1>13, <1>17
  <2>2. \E j \in Published : OnItsWay(j)' /\ OfferOf(j) = OfferOf(id) /\ j[2] <= id[2]
    <3>1. CASE id = me
      BY <1>4, <1>16, <2>1, <3>1
    <3>2. CASE id # me
      <4>1. id[2] <= Seen(id[1])
        <5>1. CASE id[1] = q
          <6>1. id[2] # k + 1
            BY <1>2, <1>9, <2>1, <3>2, <5>1
          <6>2. QED
            BY <1>9, <1>17, <2>1, <5>1, <6>1
        <5>2. CASE id[1] # q
          BY <1>9, <1>17, <2>1, <5>2
        <5>3. QED
          BY <5>1, <5>2
      <4>2. PICK x \in Nat : x = Seen(id[1])
        BY <1>9, <1>10, <2>1
      <4>3. PICK j \in Published : OnItsWay(j) /\ OfferOf(j) = OfferOf(id) /\ j[2] <= id[2]
        BY <2>1, <4>1, <4>2 DEF OfferInv
      <4>4. QED
        BY <1>11, <4>3
    <3>3. QED
      BY <3>1, <3>2
  <2>3. QED
    BY <1>8, <1>13, <2>1, <2>2
<1>18. OfferInv'
  <2>1. \A d \in Consumers, id \in Published' : \A item :
          Delivering(d)' /\ at'[d] = id /\ support'[d] = item /\ Remembered(id)'
            => Fits(item, id)'
    BY <1>14
  <2>2. \A x \in Offers : claims'[x] # NoId =>
          \E id \in Published' : claims'[x] = id /\ OnItsWay(id)' /\ id[2] <= Seen(id[1])'
    BY <1>15
  <2>3. \A id \in Published', n \in Nat :
          n = Seen(id[1])' /\ id[2] <= n /\ (\E item : Fits(item, id)') /\ Remembered(id)' =>
            \E j \in Published' : OnItsWay(j)' /\ OfferOf(j)' = OfferOf(id)' /\ j[2] <= id[2]
    BY <1>17
  <2>4. QED
    BY <2>1, <2>2, <2>3 DEF OfferInv
<1>19. OffersFollowTheStream'
  BY <1>12 DEF OffersFollowTheStream
<1>20. QED
  BY <1>18, <1>19

-----------------------------------------------------------------------------
(* A group that has lost nothing.                                          *)

CalmGroup == CalmInv /\ EngineInv /\ OfferInv /\ OffersFollowTheStream

LEMMA CalmInit == Init => CalmGroup
<1> SUFFICES ASSUME Init PROVE CalmGroup
  OBVIOUS
<1>1. /\ CalmInv /\ OffersFollowTheStream /\ Published = {}
      /\ \A c \in Consumers : users[c] = <<>> /\ ~Delivering(c)
  BY EmptySeq DEF Init, CalmInv, Idle, Delivering, OffersFollowTheStream, Published
<1>2. \A p \in Partitions : Seen(p) = 0
  BY DEF Init, Seen, Reading
<1>3. \A c \in Consumers : Listed(users[c]) /\ \A s : ~Has(users[c], s)
  <2>1. \A c \in Consumers : users[c] \in Seq(Sessions) /\ Len(users[c]) = 0
    BY <1>1, EmptySeq
  <2>2. \A i \in 1..0 : FALSE
    OBVIOUS
  <2>3. 0 <= MaxUsers
    BY PipelineAssumption
  <2>4. QED
    BY <2>1, <2>2, <2>3 DEF Listed, Has
<1>4. EngineInv
  <2>1. \A s \in Sessions : Seen(PartitionOf[s]) = 0 /\ NoneOf(s, 0)
    BY <1>2, PipelineAssumption DEF NoneOf
  <2>2. \A c \in Consumers, s \in Sessions : carts[c][s] = {}
    BY DEF Init
  <2>3. \A c \in Consumers, s \in Sessions : KeptAt(c, s, 0)
    BY <1>3, <2>2 DEF KeptAt
  <2>4. QED
    BY <1>3, <2>1, <2>3 DEF EngineInv
<1>5. OfferInv
  BY <1>1 DEF OfferInv, Init
<1>6. QED
  BY <1>1, <1>4, <1>5 DEF CalmGroup

(* A step of such a group other than an evaluation reads no event, leaves  *)
(* the engines alone, and ends a delivery only when it was announced.      *)
LEMMA QuietMove ==
  ASSUME TypeOK, ControlInv, OffsetInv, CalmInv, TypeOK', ControlInv', OffsetInv', CalmInv',
         [Next]_vars, faults = 0, faults' = 0, \A c \in Consumers : ~Evaluate(c)
  PROVE  /\ UNCHANGED <<users, carts, claims>>
         /\ UNCHANGED owner \/ \A p \in Partitions : owner[p] = NoConsumer
         /\ \A p \in Partitions : Seen(p)' = Seen(p)
         /\ \A m \in couponTopic' : m \in couponTopic
              \/ \E c \in Consumers :
                   Delivering(c) /\ m = [coupon |-> at[c], support |-> support[c]]
         /\ \A c \in Consumers : Delivering(c)' =>
              Delivering(c) /\ at'[c] = at[c] /\ support'[c] = support[c]
         /\ \A id \in Published : OnItsWay(id) => OnItsWay(id)'
<1> DEFINE Goal ==
             /\ UNCHANGED <<users, carts, claims>>
             /\ UNCHANGED owner \/ \A p \in Partitions : owner[p] = NoConsumer
             /\ \A m \in couponTopic' : m \in couponTopic
                  \/ \E c \in Consumers :
                       Delivering(c) /\ m = [coupon |-> at[c], support |-> support[c]]
             /\ \A c \in Consumers : Delivering(c)' =>
                  Delivering(c) /\ at'[c] = at[c] /\ support'[c] = support[c]
             /\ \A id \in Published : OnItsWay(id) => OnItsWay(id)'
<1>1. \A p \in Partitions : Seen(p)' = Seen(p)
  BY SeenMoves
<1> USE DEF Delivering, OnItsWay
<1>2. ASSUME NEW e \in Traffic, Publish(e) PROVE Goal
  BY <1>2 DEF Publish
<1>3. ASSUME Assign PROVE Goal
  <2>1. UNCHANGED <<users, carts, claims, couponTopic, support, at, activity>>
    BY <1>3 DEF Assign
  <2>2. PICK p \in Partitions : owner[p] = NoConsumer
    BY <1>3 DEF Assign
  <2>3. \A q \in Partitions : owner[q] = NoConsumer
    BY <2>2, PipelineAssumption DEF CalmInv
  <2>4. QED
    BY <2>1, <2>3
<1>4. ASSUME NEW c \in Consumers, Start(c) PROVE Goal
  BY <1>4 DEF Start
<1>5. ASSUME NEW c \in Consumers, Poll(c) PROVE Goal
  <2>1. /\ pc[c] = "poll" /\ \E id : at' = [at EXCEPT ![c] = id]
        /\ UNCHANGED <<users, carts, claims, owner, couponTopic, support, activity>>
    BY <1>5 DEF Poll
  <2>2. support[c] = NoProduct
    BY <2>1 DEF ControlInv
  <2>3. QED
    BY <2>1, <2>2 DEF TypeOK
<1>6. ASSUME NEW c \in Consumers, Receive(c) PROVE Goal
  BY <1>6 DEF Receive, Recorded, TypeOK
<1>7. ASSUME NEW c \in Consumers, Send(c) PROVE Goal
  BY <1>7 DEF Send, ControlInv
<1>8. ASSUME NEW c \in Consumers, Issue(c) PROVE Goal
  BY <1>8 DEF Issue
<1>9. ASSUME NEW c \in Consumers, Announce(c) PROVE Goal
  BY <1>9 DEF Announce, Recorded, TypeOK
<1>10. ASSUME NEW c \in Consumers, Suppress(c) PROVE Goal
  BY <1>10 DEF Suppress, Recorded, TypeOK
<1>11. ASSUME NEW c \in Consumers, Commit(c) PROVE Goal
  <2>1. /\ pc[c] = "commit" /\ at' = [at EXCEPT ![c] = NoId]
        /\ support' = [support EXCEPT ![c] = NoProduct]
        /\ UNCHANGED <<users, carts, claims, owner, couponTopic, activity>>
    BY <1>11 DEF Commit
  <2>2. Delivering(c) => at[c] \in activity.announced
    BY <2>1 DEF CalmInv
  <2>3. QED
    BY <2>1, <2>2 DEF TypeOK
<1>12. ASSUME UNCHANGED vars PROVE Goal
  <2>1. UNCHANGED <<users, carts, claims, owner, couponTopic, support, at, activity>>
    BY <1>12 DEF vars
  <2>2. QED
    BY <2>1
<1>13. Goal
  BY <1>2, <1>3, <1>4, <1>5, <1>6, <1>7, <1>8, <1>9, <1>10, <1>11, <1>12, CalmSteps
<1>14. QED
  BY <1>1, <1>13

(* An evaluation reads the first uncommitted event of its partition. *)
LEMMA EvaluationReads ==
  ASSUME TypeOK, ControlInv, OffsetInv, CalmInv, TypeOK', ControlInv', OffsetInv', CalmInv',
         [Next]_vars, faults = 0, faults' = 0, NEW c \in Consumers, Evaluate(c)
  PROVE  \E q \in Partitions, k \in Nat :
           /\ at[c] = <<q, k + 1>> /\ Seen(q) = k /\ Seen(q)' = k + 1
           /\ \A p \in Partitions \ {q} : Seen(p)' = Seen(p)
<1>1. pc[c] = "evaluate" /\ pc' = [pc EXCEPT ![c] = "receive"] /\ UNCHANGED <<at, committed>>
  BY DEF Evaluate
<1>2. PICK q \in Partitions : /\ q = at[c][1] /\ at[c] = <<q, committed[q] + 1>>
                              /\ Seen(q) = committed[q]
  BY <1>1, OneWorker DEF Idle
<1>3. Reading(c, q)'
  BY <1>1, <1>2 DEF Reading, TypeOK
<1>4. Seen(q)' = committed[q] + 1
  BY <1>1, <1>3 DEF Seen
<1>5. ASSUME NEW p \in Partitions \ {q} PROVE Seen(p)' = Seen(p)
  <2>1. \A d \in Consumers : Reading(d, p)' <=> Reading(d, p)
    BY <1>1, <1>2 DEF Reading, TypeOK
  <2>2. QED
    BY <1>1, <2>1 DEF Seen
<1>6. committed[q] \in Nat
  BY DEF TypeOK
<1>7. QED
  BY <1>2, <1>4, <1>5, <1>6

LEMMA CalmGroupStep ==
  ASSUME TypeOK, DeliveryInvariant, StreamInv, TypeOK', DeliveryInvariant',
         CalmGroup, [Next]_vars, faults = 0, faults' = 0
  PROVE  CalmGroup'
<1>1. /\ ControlInv /\ OffsetInv /\ AccountInv /\ ControlInv' /\ OffsetInv'
      /\ HomeInv /\ ToldInv
      /\ CalmInv /\ EngineInv /\ OfferInv /\ OffersFollowTheStream
  BY DEF DeliveryInvariant, StreamInv, CalmGroup
<1>2. CalmInv'
  BY <1>1, CalmStep
<1>3. CASE \A c \in Consumers : ~Evaluate(c)
  <2>1. /\ UNCHANGED <<users, carts, claims>>
        /\ UNCHANGED owner \/ \A p \in Partitions : owner[p] = NoConsumer
        /\ \A p \in Partitions : Seen(p)' = Seen(p)
        /\ \A m \in couponTopic' : m \in couponTopic
             \/ \E c \in Consumers :
                  Delivering(c) /\ m = [coupon |-> at[c], support |-> support[c]]
        /\ \A c \in Consumers : Delivering(c)' =>
             Delivering(c) /\ at'[c] = at[c] /\ support'[c] = support[c]
        /\ \A id \in Published : OnItsWay(id) => OnItsWay(id)'
    BY <1>1, <1>2, <1>3, QuietMove
  <2>2. EngineInv'
    BY <1>1, <2>1, EngineKept
  <2>3. OfferInv' /\ OffersFollowTheStream'
    BY <1>1, <2>1, OfferKept
  <2>4. QED
    BY <1>2, <2>2, <2>3 DEF CalmGroup
<1>4. ASSUME NEW c \in Consumers, Evaluate(c) PROVE CalmGroup'
  <2>1. PICK q \in Partitions, k \in Nat :
          /\ at[c] = <<q, k + 1>> /\ Seen(q) = k /\ Seen(q)' = k + 1
          /\ \A p \in Partitions \ {q} : Seen(p)' = Seen(p)
    BY <1>1, <1>2, <1>4, EvaluationReads
  <2>2. EngineInv'
    BY <1>1, <1>4, <2>1, EngineReads
  <2>3. OfferInv' /\ OffersFollowTheStream'
    BY <1>1, <1>4, <2>1, OfferDecided
  <2>4. QED
    BY <1>2, <2>2, <2>3 DEF CalmGroup
<1>5. QED
  BY <1>3, <1>4

(* Faults are never taken back. *)
LEMMA FaultsGrow == TypeOK /\ [Next]_vars /\ faults' = 0 => faults = 0
<1> SUFFICES ASSUME TypeOK, [Next]_vars, faults' = 0 PROVE faults = 0
  OBVIOUS
<1>1. UNCHANGED faults \/ Fault
  BY DEF Next, Works, Fails, Publish, Assign, Rebalance, FreshGroup, Start, Poll, Evaluate,
         Receive, Send, Issue, Announce, Suppress, Commit, CommitRefused, Release, Kill,
         EvaluateRaises, StepRaises, DeliveryRaises, ReleaseRaises, vars
<1>2. QED
  BY <1>1 DEF Fault, TypeOK

LEMMA CalmOffers ==
  ASSUME TypeOK, DeliveryInvariant, StreamInv, CalmGroup
  PROVE  FavouredViewsGetOffers
<1> USE DEF DeliveryInvariant, StreamInv, CalmGroup
<1> SUFFICES ASSUME NEW id \in Published, id[2] <= committed[id[1]],
                    SupportFor(Event(id).told, Event(id)) # {}, Remembered(id)
             PROVE  \E j \in activity.announced : OfferOf(j) = OfferOf(id) /\ j[2] <= id[2]
  BY DEF FavouredViewsGetOffers
<1>1. /\ id[1] \in Partitions /\ id[2] \in Nat /\ committed[id[1]] \in Nat
      /\ Seen(id[1]) \in Nat /\ committed[id[1]] <= Seen(id[1])
  <2>1. id[1] \in Partitions /\ id[2] \in Nat /\ committed[id[1]] \in Nat
    BY PublishedIsId, LogLengths DEF TypeOK
  <2>2. QED
    BY <2>1 DEF Seen
<1>2. PICK n \in Nat : n = Seen(id[1]) /\ id[2] <= n
  BY <1>1
<1>3. \E item : Fits(item, id)
  BY DEF Fits
<1>4. PICK j \in Published : OnItsWay(j) /\ OfferOf(j) = OfferOf(id) /\ j[2] <= id[2]
  BY <1>2, <1>3 DEF OfferInv
<1>5. ASSUME NEW c \in Consumers, Delivering(c), at[c] = j PROVE FALSE
  <2>1. j = <<j[1], committed[j[1]] + 1>>
    BY <1>5, OneWorker DEF ControlInv, Idle
  <2>2. j[1] = id[1]
    <3>1. Event(j).session = Event(id).session
      BY <1>4 DEF OfferOf
    <3>2. /\ j = <<PartitionOf[Event(j).session], j[2]>>
          /\ id = <<PartitionOf[Event(id).session], id[2]>>
      BY IdInLog
    <3>3. QED
      BY <3>1, <3>2
  <2>3. j[2] = committed[id[1]] + 1
    BY <2>1, <2>2
  <2>4. QED
    BY <1>1, <1>4, <2>3
<1>6. QED
  BY <1>4, <1>5 DEF OnItsWay

LEMMA CalmGroupHolds == Spec => [](StreamInv /\ (faults = 0 => CalmGroup))
<1> DEFINE Inv == StreamInv /\ (faults = 0 => CalmGroup)
<1>1. Init => Inv
  BY StreamInit, CalmInit
<1>2. TypeOK /\ DeliveryInvariant /\ TypeOK' /\ DeliveryInvariant' /\ Inv /\ [Next]_vars
        => Inv'
  <2> SUFFICES ASSUME TypeOK, DeliveryInvariant, TypeOK', DeliveryInvariant', Inv,
                      [Next]_vars
               PROVE  Inv'
    OBVIOUS
  <2>1. StreamInv'
    BY StreamStep
  <2>2. ASSUME faults' = 0 PROVE CalmGroup'
    <3>1. faults = 0
      BY <2>2, FaultsGrow
    <3>2. QED
      BY <2>2, <3>1, CalmGroupStep
  <2>3. QED
    BY <2>1, <2>2
<1>3. QED
  BY <1>1, <1>2, TypeCorrect, DeliveryIsCorrect, PTL DEF Spec

(* While nothing has failed, every offer is the policy's answer to what    *)
(* the session's own events say of the cart: the carts the engine forgets, *)
(* the order in which it reads its partitions and the offers it has made   *)
(* before change nothing for a session it remembers.                       *)
THEOREM CalmOffersFollowTheStream == Spec => [](faults = 0 => OffersFollowTheStream)
<1>1. CalmGroup => OffersFollowTheStream
  BY DEF CalmGroup
<1>2. QED
  BY <1>1, CalmGroupHolds, PTL

(* While nothing has failed, no shopper is passed over: every committed    *)
(* view of a remembered session that the policy favours has a coupon for   *)
(* its product announced to that session.                                  *)
THEOREM CalmViewsGetOffers == Spec => [](faults = 0 => FavouredViewsGetOffers)
<1>1. TypeOK /\ DeliveryInvariant /\ StreamInv /\ CalmGroup => FavouredViewsGetOffers
  BY CalmOffers
<1>2. QED
  BY <1>1, CalmGroupHolds, TypeCorrect, DeliveryIsCorrect, PTL
=============================================================================

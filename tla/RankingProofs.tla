--------------------------- MODULE RankingProofs ----------------------------
(***************************************************************************)
(* What holds of the decisions for every number of processes, sessions,    *)
(* candidates and faults.                                                  *)
(***************************************************************************)
EXTENDS Ranking, TLAPS

USE DEF redisVars, processVars, requestVars

-----------------------------------------------------------------------------
(* Operators.                                                              *)

LEMMA BestIsSafe ==
  ASSUME NEW r \in Processes, NEW content, NEW score, NEW p \in Best(r, content, score)
  PROVE  p \in Products /\ ~Suppressed(r, p, content)
BY DEF Best

(* A coupon that was selected is not issued. *)
LEMMA BestIsFresh ==
  ASSUME NEW r \in Processes, NEW content, NEW score,
         NEW p \in Best(r, content, score) \cap Coupons
  PROVE  <<session[r], p>> \notin issued[r]
BY BestIsSafe DEF Suppressed

(* The products of a decision come from the snapshot, those of a fallback  *)
(* too.                                                                    *)
LEMMA Selection ==
  ASSUME TypeOK, NEW r \in Processes, Decide(r) \/ Fallback(r)
  PROVE  /\ selected' = [selected EXCEPT ![r] = selected'[r]]
         /\ selected'[r] \subseteq Products
         /\ \A p \in selected'[r] \cap Coupons : <<session[r], p>> \notin issued[r]
<1>1. CASE Decide(r)
  <2>1. PICK live \in Carts, estimate \in Estimates :
          selected' = [selected EXCEPT ![r] =
            Best(r, cart[r] \cup live, [p \in Products |-> Prior[p] + estimate[p]])]
    BY <1>1 DEF Decide
  <2>2. selected'[r] = Best(r, cart[r] \cup live, [p \in Products |-> Prior[p] + estimate[p]])
    BY <2>1 DEF TypeOK
  <2>3. QED
    BY <2>1, <2>2, BestIsSafe, BestIsFresh
<1>2. CASE Fallback(r)
  <2>1. selected' = [selected EXCEPT ![r] = Best(r, cart[r], Prior)]
    BY <1>2 DEF Fallback
  <2>2. selected'[r] = Best(r, cart[r], Prior)
    BY <2>1 DEF TypeOK
  <2>3. QED
    BY <2>1, <2>2, BestIsSafe, BestIsFresh
<1>3. QED
  BY <1>1, <1>2

(* What r would record is a decision. *)
LEMMA OwnDecision ==
  ASSUME TypeOK, NEW r \in Processes
  PROVE  Own(r) \in Decisions /\ Recorded(r) \subseteq Decisions
BY DEF TypeOK, Own, Decisions, Recorded

-----------------------------------------------------------------------------
(* Types.                                                                  *)

LEMMA TypeInit == Init => TypeOK
BY DEF Init, TypeOK, Steps

LEMMA RaiseType ==
  ASSUME TypeOK, NEW r \in Processes, Raises(r)
  PROVE  TypeOK'
<1>1. pc' \in [Processes -> Steps] /\ faults' \in Nat
  BY DEF Raises, Fault, TypeOK, Steps
<1>2. sequence' \in Nat /\ impressions' \subseteq Decisions
  BY OwnDecision DEF Raises, TypeOK
<1>3. latest' \in [Sessions -> [Products -> Nat]]
  <2>1. CASE UNCHANGED latest
    BY <2>1 DEF TypeOK
  <2>2. CASE \E p \in unindexed[r] : latest' = [latest EXCEPT ![session[r]][p] = id[r]]
    <3>1. id[r] \in Nat
      BY DEF TypeOK
    <3>2. QED
      BY <2>2, <3>1 DEF TypeOK
  <2>3. QED
    BY <2>1, <2>2 DEF Raises
<1>4. UNCHANGED <<processVars, requestVars, shown, requests>>
  BY DEF Raises
<1>5. QED
  BY <1>1, <1>2, <1>3, <1>4 DEF TypeOK

LEMMA DecisionType ==
  ASSUME TypeOK, NEW r \in Processes, Decide(r) \/ Fallback(r)
  PROVE  TypeOK'
<1>1. selected' \in [Processes -> SUBSET Products]
  BY Selection DEF TypeOK
<1>2. local' \in [Processes -> Nat]
  <2>1. local' = [local EXCEPT ![r] = local[r] + 1] /\ local[r] \in Nat
    BY DEF Decide, Fallback, TypeOK
  <2>2. QED
    BY <2>1 DEF TypeOK
<1>3. id' \in [Processes -> Nat]
  <2>1. CASE Decide(r)
    BY <1>2, <2>1 DEF Decide, TypeOK
  <2>2. CASE Fallback(r)
    BY <2>2 DEF Fallback, TypeOK
  <2>3. QED
    BY <2>1, <2>2
<1>4. unindexed' \in [Processes -> SUBSET Products]
  BY <1>1, Selection DEF Decide, Fallback, TypeOK
<1>5. pc' \in [Processes -> Steps]
  BY DEF Decide, Fallback, TypeOK, Steps
<1>6. QED
  BY <1>1, <1>2, <1>3, <1>4, <1>5 DEF Decide, Fallback, TypeOK

LEMMA LeaveType ==
  ASSUME TypeOK, NEW r \in Processes, Leave(r)
  PROVE  /\ pc' \in [Processes -> Steps] /\ id' \in [Processes -> Nat]
         /\ cart' \in [Processes -> SUBSET Products]
         /\ selected' \in [Processes -> SUBSET Products]
         /\ unindexed' \in [Processes -> SUBSET Products]
BY DEF Leave, TypeOK, Steps

LEMMA AnswerType ==
  ASSUME TypeOK, NEW r \in Processes, Answer(r)
  PROVE  TypeOK'
<1>1. issued' \in [Processes -> SUBSET (Sessions \X Products)]
  <2>1. Claims(r) \subseteq Sessions \X Products
    BY DEF TypeOK, Claims
  <2>2. QED
    BY <2>1 DEF Answer, TypeOK
<1>2. offers' \subseteq Offers
  BY DEF Answer, Offer, Offers, TypeOK
<1>3. shown' \subseteq Decisions
  BY OwnDecision DEF Answer, TypeOK, Own
<1>4. Leave(r) /\ UNCHANGED <<redisVars, local, life, session, requests, faults>>
  BY DEF Answer
<1>5. QED
  BY <1>1, <1>2, <1>3, <1>4, LeaveType DEF TypeOK

LEMMA WriteType ==
  ASSUME TypeOK, NEW r \in Processes,
         TakeNumber(r) \/ Record(r) \/ (\E p \in Products : Index(r, p)) \/ Indexed(r)
  PROVE  TypeOK'
<1>1. CASE TakeNumber(r)
  BY <1>1 DEF TakeNumber, TypeOK, Steps
<1>2. CASE Record(r)
  <2>1. impressions' \subseteq Decisions
    BY <1>2, OwnDecision DEF Record
  <2>2. QED
    BY <1>2, <2>1 DEF Record, TypeOK, Steps
<1>3. ASSUME NEW p \in Products, Index(r, p) PROVE TypeOK'
  <2>1. latest' \in [Sessions -> [Products -> Nat]]
    BY <1>3 DEF Index, TypeOK
  <2>2. QED
    BY <1>3, <2>1 DEF Index, TypeOK
<1>4. CASE Indexed(r)
  BY <1>4 DEF Indexed, TypeOK, Steps
<1>5. QED
  BY <1>1, <1>2, <1>3, <1>4

LEMMA TypeStep == TypeOK /\ [Next]_vars => TypeOK'
<1> SUFFICES ASSUME TypeOK, [Next]_vars PROVE TypeOK'
  OBVIOUS
<1>1. ASSUME NEW r \in Processes, NEW s \in Sessions, NEW content \in Carts, Ask(r, s, content)
      PROVE  TypeOK'
  BY <1>1, RankingAssumption DEF Ask, TypeOK, Steps
<1>2. ASSUME NEW r \in Processes, Kill(r) PROVE TypeOK'
  <2>1. Leave(r) /\ faults' \in Nat
    BY <1>2 DEF Kill, Fault, TypeOK
  <2>2. /\ local' \in [Processes -> Nat]
        /\ issued' \in [Processes -> SUBSET (Sessions \X Products)]
        /\ life' \in [Processes -> Nat]
    BY <1>2 DEF Kill, TypeOK
  <2>3. QED
    BY <1>2, <2>1, <2>2, LeaveType DEF Kill, TypeOK
<1>3. CASE UNCHANGED vars
  BY <1>3 DEF vars, TypeOK
<1>4. QED
  BY <1>1, <1>2, <1>3, RaiseType, DecisionType, AnswerType, WriteType DEF Next, Works

(* Every variable keeps its type.                                          *)
THEOREM RankingTypeCorrect == Spec => []TypeOK
BY TypeInit, TypeStep, PTL DEF Spec

-----------------------------------------------------------------------------
(* The steps.                                                              *)

(* What one process may do. *)
Acts(r) ==
  \/ \E s \in Sessions, content \in Carts : Ask(r, s, content)
  \/ Works(r) \/ Raises(r) \/ Kill(r)

LEMMA NextActs ==
  ASSUME [Next]_vars
  PROVE  UNCHANGED vars \/ \E r \in Processes : Acts(r)
BY DEF Next, Acts

Keeps(q) ==
  /\ pc'[q] = pc[q] /\ session'[q] = session[q] /\ selected'[q] = selected[q]
  /\ id'[q] = id[q] /\ unindexed'[q] = unindexed[q] /\ local'[q] = local[q]
  /\ issued'[q] = issued[q] /\ life'[q] = life[q]

(* The other processes go where they were going. *)
LEMMA OthersKeep ==
  ASSUME TypeOK, NEW r \in Processes, Acts(r), NEW q \in Processes, q # r
  PROVE  Keeps(q)
<1>1. CASE \E s \in Sessions, content \in Carts : Ask(r, s, content)
  BY <1>1 DEF Ask, Keeps, TypeOK
<1>2. CASE Decide(r) \/ Fallback(r)
  <2>1. selected' = [selected EXCEPT ![r] = selected'[r]]
    BY <1>2, Selection
  <2>2. QED
    BY <1>2, <2>1 DEF Decide, Fallback, Keeps, TypeOK
<1>3. CASE TakeNumber(r) \/ Record(r) \/ Indexed(r) \/ (\E p \in Products : Index(r, p))
  BY <1>3 DEF TakeNumber, Record, Indexed, Index, Keeps, TypeOK
<1>4. CASE Answer(r)
  BY <1>4 DEF Answer, Leave, Keeps, TypeOK
<1>5. CASE Raises(r)
  BY <1>5 DEF Raises, Keeps, TypeOK
<1>6. CASE Kill(r)
  BY <1>6 DEF Kill, Leave, Keeps, TypeOK
<1>7. QED
  BY <1>1, <1>2, <1>3, <1>4, <1>5, <1>6 DEF Acts, Works

(* The decision of r is new when it is recorded, so nothing is replaced. *)
LEMMA RecordedFacts ==
  ASSUME NumberInv, NEW r \in Processes, pc[r] = "record"
  PROVE  Recorded(r) = impressions \cup {Own(r)}
BY DEF NumberInv, Recorded, Own

LEMMA OwnFields ==
  ASSUME NEW r \in Processes
  PROVE  /\ Own(r).id = id[r] /\ Own(r).session = session[r]
         /\ Own(r).items = selected[r]
BY DEF Own

-----------------------------------------------------------------------------
(* Numbers.                                                                *)

(* The steps that neither take a number nor record a decision. *)
LEMMA NumberFrame ==
  ASSUME NumberInv, OwnNumberInv, sequence' = sequence, impressions' = impressions,
         \A q \in Processes : pc'[q] \in {"guard", "record"} =>
           pc'[q] = pc[q] /\ local'[q] = local[q] /\ id'[q] = id[q]
  PROVE  NumberInv' /\ OwnNumberInv'
BY DEF NumberInv, OwnNumberInv, Number

LEMMA TakeNumberStep ==
  ASSUME TypeOK, NumberInv, OwnNumberInv, NEW r \in Processes,
         TakeNumber(r) \/ (Raises(r) /\ sequence' = sequence + 1 /\ impressions' = impressions)
  PROVE  NumberInv' /\ OwnNumberInv'
<1>1. /\ sequence' = sequence + 1 /\ impressions' = impressions /\ id' = id
      /\ \A q \in Processes : q # r => pc'[q] = pc[q] /\ local'[q] = local[q]
      /\ pc'[r] = "fallback" \/ (pc'[r] = "guard" /\ local'[r] = sequence)
  BY DEF TakeNumber, Raises, TypeOK
<1>2. /\ sequence \in Nat
      /\ \A q \in Processes : local[q] \in Nat /\ id[q] \in Nat
      /\ \A d \in impressions : d.id \in Nat /\ 0 < d.id /\ d.id <= sequence
  BY DEF TypeOK, Decisions, NumberInv
<1>3. NumberInv'
  BY <1>1, <1>2 DEF NumberInv
<1>4. \A q \in Processes : q # r /\ pc'[q] \in {"guard", "record"} =>
        Number(q)' = Number(q) /\ Number(q) \in Nat /\ Number(q) < sequence + 1
  BY <1>1, <1>2 DEF NumberInv, Number
<1>5. pc'[r] = "guard" => Number(r)' = sequence + 1
  BY <1>1 DEF Number
<1>6. OwnNumberInv'
  BY <1>1, <1>2, <1>4, <1>5 DEF OwnNumberInv
<1>7. QED
  BY <1>3, <1>6

LEMMA RecordStep ==
  ASSUME TypeOK, NumberInv, OwnNumberInv, NEW r \in Processes, pc[r] = "record",
         impressions' = Recorded(r), Record(r) \/ Raises(r), sequence' = sequence
  PROVE  NumberInv' /\ OwnNumberInv'
<1>1. /\ local' = local /\ id' = id /\ \A q \in Processes : q # r => pc'[q] = pc[q]
      /\ pc'[r] \in {"index", "fallback"}
  BY DEF Record, Raises, TypeOK
<1>2. \A d \in impressions' : d \in impressions \/ d.id = id[r]
  BY RecordedFacts, OwnFields
<1>3. \A q \in Processes : q # r /\ pc[q] \in {"guard", "record"} => Number(q) # id[r]
  BY DEF OwnNumberInv, Number
<1>4. NumberInv'
  BY <1>1, <1>2, <1>3 DEF NumberInv, Number
<1>5. OwnNumberInv'
  BY <1>1 DEF OwnNumberInv, Number
<1>6. QED
  BY <1>4, <1>5

LEMMA DecideStep ==
  ASSUME TypeOK, NumberInv, OwnNumberInv, NEW r \in Processes, Decide(r)
  PROVE  NumberInv' /\ OwnNumberInv'
<1>1. /\ sequence' = sequence /\ impressions' = impressions
      /\ pc[r] = "guard" /\ pc'[r] = "record" /\ id'[r] = local[r] + 1
  BY DEF Decide, TypeOK
<1>2. \A q \in Processes : q # r => Keeps(q)
  BY OthersKeep DEF Acts, Works
<1>3. local[r] \in Nat /\ sequence \in Nat
  BY DEF TypeOK
<1>4. \A q \in Processes : pc'[q] \in {"guard", "record"} =>
        pc[q] \in {"guard", "record"} /\ Number(q)' = Number(q)
  BY <1>1, <1>2 DEF Number, Keeps
<1>5. NumberInv'
  BY <1>1, <1>2, <1>3 DEF NumberInv, Keeps
<1>6. OwnNumberInv'
  BY <1>4 DEF OwnNumberInv
<1>7. QED
  BY <1>5, <1>6

LEMMA NumberStep ==
  ASSUME TypeOK, NumberInv, OwnNumberInv, [Next]_vars
  PROVE  NumberInv' /\ OwnNumberInv'
<1>1. CASE UNCHANGED vars
  BY <1>1, NumberFrame DEF vars
<1>2. ASSUME NEW r \in Processes, Acts(r) PROVE NumberInv' /\ OwnNumberInv'
  <2>1. \A q \in Processes : q # r => Keeps(q)
    BY <1>2, OthersKeep
  <2>2. CASE /\ sequence' = sequence /\ impressions' = impressions
             /\ \/ pc'[r] \notin {"guard", "record"}
                \/ Keeps(r)
    BY <2>1, <2>2, NumberFrame DEF Keeps
  <2>3. CASE \E s \in Sessions, content \in Carts : Ask(r, s, content)
    BY <2>2, <2>3 DEF Ask, TypeOK
  <2>4. CASE Fallback(r) \/ Answer(r) \/ Indexed(r) \/ Kill(r)
    BY <2>2, <2>4 DEF Fallback, Answer, Indexed, Kill, Leave, TypeOK
  <2>5. CASE \E p \in Products : Index(r, p)
    BY <2>2, <2>5 DEF Index, TypeOK
  <2>6. CASE Raises(r)
    <3>1. pc'[r] = "fallback"
      BY <2>6 DEF Raises, TypeOK
    <3>2. \/ sequence' = sequence /\ impressions' = impressions
          \/ sequence' = sequence + 1 /\ impressions' = impressions
          \/ pc[r] = "record" /\ impressions' = Recorded(r) /\ sequence' = sequence
      BY <2>6 DEF Raises
    <3>3. QED
      BY <2>2, <2>6, <3>1, <3>2, TakeNumberStep, RecordStep
  <2>7. CASE Record(r)
    BY <2>7, RecordStep DEF Record
  <2>8. QED
    BY <1>2, <2>3, <2>4, <2>5, <2>6, <2>7, TakeNumberStep, DecideStep DEF Acts, Works
<1>3. QED
  BY <1>1, <1>2, NextActs

-----------------------------------------------------------------------------
(* Records and the index.                                                  *)

(* What a step writes to Redis. *)
LEMMA Writes ==
  ASSUME TypeOK, NumberInv, [Next]_vars
  PROVE  /\ \/ impressions' = impressions
            \/ \E r \in Processes : /\ pc[r] = "record"
                                    /\ impressions' = impressions \cup {Own(r)}
         /\ \/ latest' = latest
            \/ \E r \in Processes, p \in Products :
                 /\ pc[r] = "index" /\ p \in unindexed[r]
                 /\ latest' = [latest EXCEPT ![session[r]][p] = id[r]]
<1>1. CASE UNCHANGED vars
  BY <1>1 DEF vars
<1>2. ASSUME NEW r \in Processes, Acts(r)
      PROVE  /\ impressions' = impressions \/ (pc[r] = "record" /\ impressions' = Recorded(r))
             /\ \/ latest' = latest
                \/ \E p \in Products :
                     /\ pc[r] = "index" /\ p \in unindexed[r]
                     /\ latest' = [latest EXCEPT ![session[r]][p] = id[r]]
  <2>1. CASE Raises(r)
    <3>1. unindexed[r] \subseteq Products
      BY DEF TypeOK
    <3>2. QED
      BY <2>1, <3>1 DEF Raises
  <2>2. CASE \E s \in Sessions, content \in Carts : Ask(r, s, content)
    BY <2>2 DEF Ask
  <2>3. CASE Works(r) \/ Kill(r)
    BY <2>3 DEF Works, Kill, TakeNumber, Decide, Record, Index, Indexed, Fallback, Answer
  <2>4. QED
    BY <1>2, <2>1, <2>2, <2>3 DEF Acts
<1>3. QED
  BY <1>1, <1>2, NextActs, RecordedFacts

(* One entry of the index is another. *)
LEMMA IndexEntry ==
  ASSUME TypeOK, NEW r \in Processes, NEW p \in Products,
         latest' = [latest EXCEPT ![session[r]][p] = id[r]]
  PROVE  \A s \in Sessions, q \in Products :
           latest'[s][q] = IF s = session[r] /\ q = p THEN id[r] ELSE latest[s][q]
<1>1. session[r] \in Sessions /\ latest \in [Sessions -> [Products -> Nat]]
  BY DEF TypeOK
<1>2. QED
  BY <1>1

(* No impression is replaced, and no entry of the index goes back to none. *)
LEMMA Monotone ==
  ASSUME TypeOK, NumberInv, ProgressInv, [Next]_vars
  PROVE  /\ impressions \subseteq impressions'
         /\ \A s \in Sessions, p \in Products : latest[s][p] # 0 => latest'[s][p] # 0
<1>1. \A r \in Processes : pc[r] = "index" => id[r] # 0
  BY DEF ProgressInv
<1>2. impressions \subseteq impressions'
  BY Writes
<1>3. ASSUME NEW s \in Sessions, NEW q \in Products, latest[s][q] # 0
      PROVE  latest'[s][q] # 0
  <2>1. CASE latest' = latest
    BY <1>3, <2>1
  <2>2. ASSUME NEW r \in Processes, NEW p \in Products, pc[r] = "index",
               latest' = [latest EXCEPT ![session[r]][p] = id[r]]
        PROVE  latest'[s][q] # 0
    BY <1>1, <1>3, <2>2, IndexEntry
  <2>3. QED
    BY <2>1, <2>2, Writes
<1>4. QED
  BY <1>2, <1>3

LEMMA IndexStep ==
  ASSUME TypeOK, NumberInv, ProgressInv, IndexInv, [Next]_vars
  PROVE  IndexInv'
<1> SUFFICES ASSUME NEW s \in Sessions, NEW p \in Products, latest'[s][p] # 0
             PROVE  \E d \in impressions' :
                      d.id = latest'[s][p] /\ d.session = s /\ p \in d.items
  BY DEF IndexInv
<1>1. CASE latest'[s][p] = latest[s][p]
  BY <1>1, Monotone DEF IndexInv
<1>2. CASE latest'[s][p] # latest[s][p]
  <2>1. PICK r \in Processes, q \in Products :
          /\ pc[r] = "index" /\ q \in unindexed[r]
          /\ latest' = [latest EXCEPT ![session[r]][q] = id[r]]
    BY <1>2, Writes
  <2>2. s = session[r] /\ p = q /\ latest'[s][p] = id[r]
    BY <1>2, <2>1, IndexEntry
  <2>3. Own(r) \in impressions /\ p \in selected[r]
    BY <2>1, <2>2 DEF ProgressInv
  <2>4. QED
    BY <2>2, <2>3, Monotone, OwnFields
<1>3. QED
  BY <1>1, <1>2

-----------------------------------------------------------------------------
(* The progress of a decision.                                             *)

(* ProgressInv of one process. *)
Progress(r) ==
  /\ pc[r] = "record" => unindexed[r] = selected[r]
  /\ pc[r] = "index" => unindexed[r] \subseteq selected[r]
  /\ pc[r] = "index" => id[r] # 0 /\ Own(r) \in impressions
  /\ pc[r] = "answer" /\ id[r] # 0 => Own(r) \in impressions
  /\ pc[r] = "index" \/ (pc[r] = "answer" /\ id[r] # 0) =>
       \A p \in selected[r] \ (IF pc[r] = "index" THEN unindexed[r] ELSE {}) :
         latest[session[r]][p] # 0

LEMMA EachProgress ==
  /\ ProgressInv <=> \A r \in Processes : Progress(r)
  /\ ProgressInv' <=> \A r \in Processes : Progress(r)'
BY DEF ProgressInv, Progress

LEMMA ProgressStep ==
  ASSUME TypeOK, NumberInv, ProgressInv, [Next]_vars
  PROVE  ProgressInv'
<1>1. /\ impressions \subseteq impressions'
      /\ \A s \in Sessions, p \in Products : latest[s][p] # 0 => latest'[s][p] # 0
  BY Monotone
<1>2. ASSUME NEW q \in Processes, Keeps(q) PROVE Progress(q)'
  <2>1. Progress(q) /\ session[q] \in Sessions /\ selected[q] \subseteq Products
    BY EachProgress DEF TypeOK
  <2>2. Own(q)' = Own(q)
    BY <1>2 DEF Own, Keeps
  <2>3. QED
    BY <1>1, <1>2, <2>1, <2>2 DEF Progress, Keeps
<1>3. CASE UNCHANGED vars
  BY <1>2, <1>3, EachProgress DEF vars, Keeps
<1>4. ASSUME NEW r \in Processes, Acts(r) PROVE Progress(r)'
  <2>1. Progress(r) /\ session[r] \in Sessions /\ selected[r] \subseteq Products
    BY EachProgress DEF TypeOK
  <2>2. CASE pc'[r] \notin {"record", "index", "answer"}
    BY <2>2 DEF Progress
  <2>3. CASE Decide(r)
    BY <2>3 DEF Decide, Progress, TypeOK
  <2>4. CASE Record(r)
    <3>1. Own(r)' = Own(r) /\ Own(r) \in impressions'
      BY <2>4, RecordedFacts DEF Record, Own
    <3>2. id[r] # 0
      BY <2>4 DEF NumberInv, Record, TypeOK
    <3>3. QED
      BY <2>1, <2>4, <3>1, <3>2 DEF Record, Progress, TypeOK
  <2>5. ASSUME NEW p \in Products, Index(r, p) PROVE Progress(r)'
    <3>1. Own(r)' = Own(r)
      BY <2>5 DEF Index, Own
    <3>2. latest'[session[r]][p] # 0
      BY <2>1, <2>5 DEF Index, Progress, TypeOK
    <3>3. unindexed'[r] = unindexed[r] \ {p}
      BY <2>5 DEF Index, TypeOK
    <3>4. QED
      BY <1>1, <2>1, <2>5, <3>1, <3>2, <3>3 DEF Index, Progress
  <2>6. CASE Indexed(r)
    <3>1. Own(r)' = Own(r)
      BY <2>6 DEF Indexed, Own
    <3>2. QED
      BY <2>1, <2>6, <3>1 DEF Indexed, Progress, TypeOK
  <2>7. CASE Fallback(r)
    BY <2>7 DEF Fallback, Progress, TypeOK
  <2>8. CASE TakeNumber(r) \/ Answer(r) \/ Raises(r) \/ Kill(r)
    BY <2>2, <2>8 DEF TakeNumber, Answer, Raises, Kill, Leave, TypeOK
  <2>9. CASE \E s \in Sessions, content \in Carts : Ask(r, s, content)
    BY <2>2, <2>9 DEF Ask, TypeOK
  <2>10. QED
    BY <1>4, <2>3, <2>4, <2>5, <2>6, <2>7, <2>8, <2>9 DEF Acts, Works
<1>5. QED
  BY <1>2, <1>3, <1>4, NextActs, OthersKeep, EachProgress

-----------------------------------------------------------------------------
(* Offers and answers.                                                     *)

(* OfferInv of one process, given all offers. *)
Remembers(r) ==
  /\ \A o \in offers : o.process = r =>
       /\ o.life <= life[r]
       /\ o.life = life[r] => <<o.session, o.product>> \in issued[r]
  /\ pc[r] \in {"record", "index", "answer"} =>
       \A p \in selected[r] \cap Coupons : <<session[r], p>> \notin issued[r]

LEMMA EachRemembers ==
  ASSUME \A o \in offers : o.process \in Processes,
         \A o \in offers' : o.process \in Processes
  PROVE  /\ OfferInv <=> \A r \in Processes : Remembers(r)
         /\ OfferInv' <=> \A r \in Processes : Remembers(r)'
BY DEF OfferInv, Remembers

LEMMA OfferFields ==
  ASSUME NEW r \in Processes, NEW p
  PROVE  /\ Offer(r, p).process = r /\ Offer(r, p).life = life[r]
         /\ Offer(r, p).session = session[r] /\ Offer(r, p).product = p
BY DEF Offer

(* An answer adds offers of its own process and life, each for a claim. *)
LEMMA AnswerOffers ==
  ASSUME TypeOK, NEW r \in Processes, Answer(r)
  PROVE  /\ issued'[r] = issued[r] \cup Claims(r) /\ life' = life
         /\ \A o \in offers' : o \in offers \/
              \E p \in selected[r] \cap Coupons : o = Offer(r, p)
BY DEF Answer, TypeOK

(* Only an answer makes offers. *)
LEMMA NewOffers ==
  ASSUME [Next]_vars
  PROVE  offers' = offers \/ \E r \in Processes : Answer(r)
<1>1. ASSUME NEW r \in Processes, Acts(r) PROVE offers' = offers \/ Answer(r)
  BY <1>1 DEF Acts, Works, Ask, TakeNumber, Decide, Record, Index, Indexed,
              Fallback, Raises, Kill
<1>2. QED
  BY <1>1, NextActs DEF vars

(* A process remembers its answers until it is killed, and nobody else's   *)
(* offers are of its present life.                                         *)
LEMMA RemembersStep ==
  ASSUME TypeOK, TypeOK', OfferInv, [Next]_vars
  PROVE  OfferInv'
<1>1. /\ \A o \in offers : o.process \in Processes /\ o.life \in Nat
      /\ \A o \in offers' : o.process \in Processes
      /\ \A q \in Processes : life[q] \in Nat
  BY DEF TypeOK, Offers
<1>2. \A q \in Processes : Remembers(q)
  BY <1>1, EachRemembers
<1>3. ASSUME NEW q \in Processes, issued'[q] = issued[q], life'[q] = life[q],
             \A o \in offers' : o.process = q => o \in offers,
             pc'[q] \in {"record", "index", "answer"} =>
               /\ pc[q] \in {"record", "index", "answer"}
               /\ selected'[q] = selected[q] /\ session'[q] = session[q]
      PROVE  Remembers(q)'
  BY <1>2, <1>3 DEF Remembers
<1>4. CASE UNCHANGED vars
  <2>1. \A q \in Processes : Remembers(q)'
    BY <1>3, <1>4 DEF vars
  <2>2. QED
    BY <1>1, <2>1, EachRemembers
<1>5. ASSUME NEW r \in Processes, Acts(r) PROVE Remembers(r)'
  <2>1. Remembers(r)
    BY <1>2
  <2>2. CASE Decide(r) \/ Fallback(r)
    <3>1. /\ issued' = issued /\ offers' = offers /\ life' = life /\ session' = session
          /\ \A p \in selected'[r] \cap Coupons : <<session[r], p>> \notin issued[r]
      BY <2>2, Selection DEF Decide, Fallback
    <3>2. QED
      BY <2>1, <3>1 DEF Remembers
  <2>3. CASE TakeNumber(r) \/ Record(r) \/ Indexed(r) \/ (\E p \in Products : Index(r, p))
    BY <1>3, <2>3 DEF TakeNumber, Record, Indexed, Index, TypeOK
  <2>4. CASE Raises(r) \/ \E s \in Sessions, content \in Carts : Ask(r, s, content)
    BY <1>3, <2>4 DEF Raises, Ask, TypeOK
  <2>5. CASE Kill(r)
    <3>1. life'[r] = life[r] + 1 /\ offers' = offers /\ pc'[r] = "idle"
      BY <2>5 DEF Kill, Leave, TypeOK
    <3>2. \A o \in offers : o.process = r => o.life <= life[r]
      BY <2>1 DEF Remembers
    <3>3. \A o \in offers : o.process = r => o.life <= life'[r] /\ o.life # life'[r]
      BY <1>1, <3>1, <3>2
    <3>4. QED
      BY <3>1, <3>3 DEF Remembers
  <2>6. CASE Answer(r)
    <3>1. pc'[r] = "idle"
      BY <2>6 DEF Answer, Leave, TypeOK
    <3>2. \A p \in selected[r] \cap Coupons : <<session[r], p>> \in issued'[r]
      BY <2>6, AnswerOffers DEF Claims
    <3>3. QED
      BY <1>1, <2>1, <2>6, <3>1, <3>2, AnswerOffers, OfferFields DEF Remembers
  <2>7. QED
    BY <1>5, <2>2, <2>3, <2>4, <2>5, <2>6 DEF Acts, Works
<1>6. ASSUME NEW r \in Processes, Acts(r), NEW q \in Processes, q # r
      PROVE  Remembers(q)'
  <2>1. Keeps(q)
    BY <1>6, OthersKeep
  <2>2. \A o \in offers' : o.process = q => o \in offers
    <3>1. CASE Answer(r)
      BY <1>6, <3>1, AnswerOffers, OfferFields
    <3>2. CASE ~Answer(r)
      BY <1>6, <3>2 DEF Acts, Works, Ask, TakeNumber, Decide, Record, Index, Indexed,
                        Fallback, Raises, Kill
    <3>3. QED
      BY <3>1, <3>2
  <2>3. QED
    BY <1>3, <2>1, <2>2 DEF Keeps
<1>7. QED
  BY <1>1, <1>4, <1>5, <1>6, NextActs, EachRemembers

(* A new offer is of a life that has not made it yet, and the offers of    *)
(* one answer are of different coupons.                                    *)
LEMMA OffersStep ==
  ASSUME TypeOK, OfferInv, RepeatedOfferIsOfAnotherLife, [Next]_vars
  PROVE  RepeatedOfferIsOfAnotherLife'
<1>1. CASE offers' = offers
  BY <1>1 DEF RepeatedOfferIsOfAnotherLife
<1>2. ASSUME NEW r \in Processes, Answer(r) PROVE RepeatedOfferIsOfAnotherLife'
  <2>1. pc[r] = "answer"
    BY <1>2 DEF Answer
  <2>2. ASSUME NEW o \in offers, NEW p \in selected[r] \cap Coupons,
               o.session = session[r], o.product = p
        PROVE  o.process # r \/ o.life # life[r]
    BY <2>1, <2>2 DEF OfferInv
  <2>3. QED
    BY <1>2, <2>2, AnswerOffers, OfferFields DEF RepeatedOfferIsOfAnotherLife
<1>3. QED
  BY <1>1, <1>2, NewOffers

LEMMA ShownStep ==
  ASSUME TypeOK, NumberInv, ProgressInv, ShownInv, ShownIsRecorded, [Next]_vars
  PROVE  ShownInv' /\ ShownIsRecorded'
<1>1. shown' \subseteq shown \cup {Own(r) : r \in {q \in Processes : pc[q] = "answer" /\ id[q] # 0}}
  <2>1. ASSUME NEW r \in Processes, Acts(r)
        PROVE  \/ shown' = shown
               \/ pc[r] = "answer" /\ id[r] # 0 /\ shown' = shown \cup {Own(r)}
    BY <2>1 DEF Acts, Works, Ask, TakeNumber, Decide, Record, Index, Indexed,
                Fallback, Raises, Kill, Answer, Own
  <2>2. QED
    BY <2>1, NextActs DEF vars
<1>2. ASSUME NEW r \in Processes, pc[r] = "answer", id[r] # 0
      PROVE  Own(r) \in impressions /\ \A p \in Own(r).items : latest[Own(r).session][p] # 0
  BY <1>2, OwnFields DEF ProgressInv
<1>3. /\ \A a \in shown' : a \in impressions /\ \A p \in a.items : latest[a.session][p] # 0
  BY <1>1, <1>2 DEF ShownInv, ShownIsRecorded
<1>4. \A a \in impressions : a.session \in Sessions /\ a.items \subseteq Products
  BY DEF TypeOK, Decisions
<1>5. QED
  BY <1>3, <1>4, Monotone DEF ShownInv, ShownIsRecorded

-----------------------------------------------------------------------------
(* The theorems.                                                           *)

(* What is left when attribution is taken from the index. *)
Inductive ==
  /\ TypeOK
  /\ NumberInv /\ OwnNumberInv /\ IndexInv /\ ProgressInv /\ OfferInv
  /\ ShownInv /\ ShownIsRecorded /\ RepeatedOfferIsOfAnotherLife

(* Every shown product has an entry, and the entry a decision. *)
LEMMA Attribution ==
  ASSUME Inductive
  PROVE  ShownIsAttributable
<1>1. \A a \in shown : a.session \in Sessions /\ a.items \subseteq Products
  BY DEF Inductive, TypeOK, Decisions
<1>2. QED
  BY <1>1 DEF Inductive, IndexInv, ShownInv, ShownIsAttributable

LEMMA InductiveInit == Init => Inductive
<1> SUFFICES ASSUME Init PROVE Inductive
  OBVIOUS
<1>1. TypeOK
  BY TypeInit
<1>2. NumberInv /\ OwnNumberInv /\ IndexInv /\ ProgressInv
  BY DEF Init, NumberInv, OwnNumberInv, IndexInv, ProgressInv
<1>3. OfferInv /\ ShownInv /\ ShownIsRecorded /\ RepeatedOfferIsOfAnotherLife
  BY DEF Init, OfferInv, ShownInv, ShownIsRecorded, RepeatedOfferIsOfAnotherLife
<1>4. QED
  BY <1>1, <1>2, <1>3 DEF Inductive

LEMMA InductiveStep == Inductive /\ [Next]_vars => Inductive'
<1> SUFFICES ASSUME Inductive, [Next]_vars PROVE Inductive'
  OBVIOUS
<1>1. TypeOK'
  BY TypeStep DEF Inductive
<1>2. NumberInv' /\ OwnNumberInv'
  BY NumberStep DEF Inductive
<1>3. IndexInv' /\ ProgressInv'
  BY IndexStep, ProgressStep DEF Inductive
<1>4. OfferInv' /\ RepeatedOfferIsOfAnotherLife'
  BY <1>1, RemembersStep, OffersStep DEF Inductive
<1>5. ShownInv' /\ ShownIsRecorded'
  BY ShownStep DEF Inductive
<1>6. QED
  BY <1>1, <1>2, <1>3, <1>4, <1>5 DEF Inductive

LEMMA AlwaysInductive == Spec => []Inductive
BY InductiveInit, InductiveStep, PTL DEF Spec

(* Numbers are never shared, the index names recorded decisions, and what  *)
(* a decision still has to do is known from the step it is at.             *)
THEOREM RankingIsCorrect == Spec => []RankingInvariant
<1>1. Inductive => RankingInvariant
  BY Attribution DEF Inductive, RankingInvariant
<1>2. QED
  BY <1>1, AlwaysInductive, PTL

(* An answer that names an impression was recorded under this name, for    *)
(* its session and with its products.                                      *)
THEOREM ShownDecisionsAreRecorded == Spec => []ShownIsRecorded
<1>1. Inductive => ShownIsRecorded
  BY DEF Inductive
<1>2. QED
  BY <1>1, AlwaysInductive, PTL

(* The index always leads from a shown product to a decision with it.      *)
THEOREM ShownProductsAreAttributable == Spec => []ShownIsAttributable
<1>1. Inductive => ShownIsAttributable
  BY Attribution
<1>2. QED
  BY <1>1, AlwaysInductive, PTL

(* An offer that is repeated to a session comes from another process, or   *)
(* the process was killed after the first one; fallbacks included.         *)
THEOREM OffersAreNotRepeated == Spec => []RepeatedOfferIsOfAnotherLife
<1>1. Inductive => RepeatedOfferIsOfAnotherLife
  BY DEF Inductive
<1>2. QED
  BY <1>1, AlwaysInductive, PTL
=============================================================================

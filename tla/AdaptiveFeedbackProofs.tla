----------------------- MODULE AdaptiveFeedbackProofs -----------------------
(***************************************************************************)
(* What holds of the adaptive feedback for every number of servers,        *)
(* events, products, sessions and faults.                                  *)
(***************************************************************************)
EXTENDS AdaptiveFeedback, SequenceTheorems, TLAPS

USE DEF topicVars, streamVars, stateVars, workerVars

-----------------------------------------------------------------------------
(* Operators.                                                              *)

LEMMA ZeroMatrices == NoMatrices \in Matrices
BY DEF NoMatrices, Matrices

LEMMA AppendedEvent ==
  ASSUME log \in Seq(Events), NEW e \in Events, log' = Append(log, e)
  PROVE  /\ log' \in Seq(Events)
         /\ Len(log) \in Nat /\ Len(log') = Len(log) + 1
         /\ \A i \in 1..Len(log) : log'[i] = log[i]
BY AppendProperties, LenProperties

LEMMA StreamWorks == Stream \in Workers /\ Servers \subseteq Workers
BY DEF Workers

LEMMA RowEvent ==
  ASSUME TypeOK, row <= upto
  PROVE  row \in 1..Len(log) /\ log[row] \in Events
<1>1. row \in 1..Len(log) /\ Len(log) \in Nat
  BY LenProperties DEF TypeOK
<1>2. QED
  BY <1>1, ElementOfSeq DEF TypeOK

(* What a transaction leaves behind has the types of the state in Redis. *)
LEMMA TransactionType ==
  ASSUME TypeOK, NEW w \in Workers, pc[w] = "exec", Transaction(w)
  PROVE  /\ claimed' \subseteq Valid
         /\ learned' \in Matrices
         /\ observed' \in [Events -> Nat]
         /\ carts' \in [Sessions -> SUBSET Products]
         /\ credited' \in [Events -> SUBSET Products]
         /\ overran' \subseteq Valid
<1>1. event[w] \in Valid /\ event[w] \in Events
  BY FeedbackAssumption DEF TypeOK
<1>2. claimed' \subseteq Valid /\ overran' \subseteq Valid
  BY <1>1 DEF TypeOK, Transaction
<1>3. learned' \in Matrices
  <2>1. ASSUME NEW p \in Products
        PROVE  /\ learned[p] \in [Events -> Nat]
               /\ [read[w][p] EXCEPT ![event[w]] = @ + 1] \in [Events -> Nat]
    BY <1>1 DEF TypeOK, Matrices
  <2>2. QED
    BY <2>1 DEF Transaction, Matrices
<1>4. observed' \in [Events -> Nat]
  BY <1>1 DEF TypeOK, Transaction
<1>5. carts' \in [Sessions -> SUBSET Products]
  <2>1. SessionOf[event[w]] \in Sessions /\ About[event[w]] \subseteq Products
    BY <1>1, FeedbackAssumption
  <2>2. CartAfter(event[w], carts[SessionOf[event[w]]]) \subseteq Products
    BY <2>1 DEF TypeOK, CartAfter
  <2>3. QED
    BY <2>1, <2>2 DEF TypeOK, Transaction
<1>6. credited' \in [Events -> SUBSET Products]
  BY <1>1 DEF TypeOK, Transaction
<1>7. QED
  BY <1>2, <1>3, <1>4, <1>5, <1>6

LEMMA ForgetType ==
  ASSUME TypeOK, NEW w \in Workers, Forget(w)
  PROVE  /\ event' \in [Workers -> Valid \cup {NoEvent}]
         /\ \A v \in Workers \ {w} : event'[v] = event[v]
         /\ targets' \in [Workers -> SUBSET Products]
         /\ read' \in [Workers -> Matrices]
         /\ status' \in [Workers -> Statuses]
<1>1. read' \in [Workers -> Matrices]
  BY ZeroMatrices DEF Forget, TypeOK
<1>2. QED
  BY <1>1 DEF Forget, TypeOK, Statuses

(* The part of the type that no action of a worker touches. *)
TopicType ==
  /\ log \in Seq(Events)
  /\ inbox \in [Servers -> SUBSET Valid]
  /\ offset \in Nat /\ upto \in Nat /\ row \in Nat
  /\ offset <= upto /\ upto <= Len(log)
  /\ row \in offset + 1..upto + 1
  /\ rejected \subseteq Events \ Valid
  /\ impressions \in [Sessions -> SUBSET Products]

StateType ==
  /\ claimed \subseteq Valid
  /\ learned \in Matrices
  /\ observed \in [Events -> Nat]
  /\ carts \in [Sessions -> SUBSET Products]
  /\ credited \in [Events -> SUBSET Products]
  /\ overran \subseteq Valid

WorkerType ==
  /\ lock \in Workers \cup {NoWorker}
  /\ pc \in [Workers -> Steps]
  /\ event \in [Workers -> Valid \cup {NoEvent}]
  /\ \A w \in Workers : pc[w] \notin {"idle", "stopped"} => event[w] \in Valid
  /\ pc[Stream] \notin {"idle", "stopped"} => row <= upto
  /\ targets \in [Workers -> SUBSET Products]
  /\ read \in [Workers -> Matrices]
  /\ status \in [Workers -> Statuses]

LEMMA TypeParts == TypeOK <=> TopicType /\ StateType /\ WorkerType /\ faults \in Nat
BY DEF TypeOK, TopicType, StateType, WorkerType

LEMMA BatchRange ==
  ASSUME NEW first \in Nat, NEW end \in Nat, NEW last \in first + 1..end
  PROVE  last \in Nat /\ first <= last /\ last <= end /\ first + 1 \in first + 1..last + 1
OBVIOUS

-----------------------------------------------------------------------------
(* Types.                                                                  *)

LEMMA TypeInit == Init => TypeOK
<1> SUFFICES ASSUME Init PROVE TypeOK
  OBVIOUS
<1>1. TopicType /\ faults \in Nat
  BY EmptySeq DEF Init, TopicType
<1>2. StateType
  BY ZeroMatrices DEF Init, StateType
<1>3. WorkerType
  BY ZeroMatrices, StreamWorks DEF Init, WorkerType, Steps, Statuses
<1>4. QED
  BY <1>1, <1>2, <1>3, TypeParts

(* The actions outside consume_feedback. *)
LEMMA SurroundingsType ==
  ASSUME TypeOK,
         \/ \E s \in Servers, e \in Events : Post(s, e)
         \/ \E e \in Events : Produce(e)
         \/ \E s \in Sessions, p \in Products : Record(s, p) \/ Expire(s, p)
         \/ Abandoned \/ Overrun
         \/ \E s \in Servers : (\E e \in Valid : Take(s, e)) \/ Answer(s)
         \/ \E w \in Workers : Kill(w)
  PROVE  TypeOK'
<1> USE DEF Fault
<1>1. CASE (\E s \in Servers, e \in Events : Post(s, e)) \/ (\E e \in Events : Produce(e))
  <2>1. PICK e \in Events : log' = Append(log, e)
    BY <1>1 DEF Post, Produce
  <2>2. log' \in Seq(Events) /\ Len(log) \in Nat /\ Len(log') = Len(log) + 1
    BY <2>1, AppendedEvent DEF TypeOK
  <2>3. inbox' \in [Servers -> SUBSET Valid]
    <3>1. ASSUME NEW s \in Servers, NEW f \in Events, Post(s, f)
          PROVE  inbox' \in [Servers -> SUBSET Valid]
      BY <3>1 DEF Post, TypeOK
    <3>2. ASSUME NEW f \in Events, Produce(f)
          PROVE  inbox' \in [Servers -> SUBSET Valid]
      BY <3>2 DEF Produce, TypeOK
    <3>3. QED
      BY <1>1, <3>1, <3>2
  <2>4. UNCHANGED <<streamVars, lock, stateVars, impressions, workerVars, faults>>
    BY <1>1 DEF Post, Produce
  <2>5. TopicType'
    BY <2>2, <2>3, <2>4 DEF TypeOK, TopicType
  <2>6. StateType' /\ WorkerType' /\ faults' \in Nat
    BY <2>4 DEF TypeOK, StateType, WorkerType
  <2>7. QED
    BY <2>5, <2>6 DEF TypeOK, TopicType, StateType, WorkerType
<1>2. CASE \E s \in Sessions, p \in Products : Record(s, p) \/ Expire(s, p)
  <2>1. PICK s \in Sessions, p \in Products : Record(s, p) \/ Expire(s, p)
    BY <1>2
  <2>2. impressions' \in [Sessions -> SUBSET Products]
    <3>1. CASE Record(s, p)
      BY <3>1 DEF Record, TypeOK
    <3>2. CASE Expire(s, p)
      BY <3>2 DEF Expire, TypeOK
    <3>3. QED
      BY <2>1, <3>1, <3>2
  <2>3. QED
    BY <2>1, <2>2 DEF Record, Expire, TypeOK
<1>3. CASE Abandoned \/ Overrun
  BY <1>3 DEF Abandoned, Overrun, TypeOK
<1>4. ASSUME NEW s \in Servers, NEW e \in Valid, Take(s, e) PROVE TypeOK'
  <2>1. s \in Workers
    BY StreamWorks
  <2>2. WorkerType'
    BY <1>4, <2>1, StreamWorks, FeedbackAssumption DEF Take, TypeOK, WorkerType, Steps
  <2>3. TopicType' /\ StateType' /\ faults' \in Nat
    BY <1>4 DEF Take, TypeOK, TopicType, StateType
  <2>4. QED
    BY <2>2, <2>3 DEF TypeOK, TopicType, StateType, WorkerType
<1>5. ASSUME NEW w \in Workers, Forget(w), UNCHANGED <<lock, row, upto>>,
             pc' = [pc EXCEPT ![w] = "idle"] \/ pc' = [pc EXCEPT ![w] = "stopped"]
      PROVE  WorkerType'
  BY <1>5, ForgetType, StreamWorks DEF TypeOK, WorkerType, Steps
<1>6. ASSUME NEW s \in Servers, Answer(s) PROVE TypeOK'
  <2>1. WorkerType'
    BY <1>5, <1>6, StreamWorks DEF Answer
  <2>2. TopicType' /\ StateType' /\ faults' \in Nat
    BY <1>6 DEF Answer, TypeOK, TopicType, StateType
  <2>3. QED
    BY <2>1, <2>2 DEF TypeOK, TopicType, StateType, WorkerType
<1>7. ASSUME NEW w \in Workers, Kill(w) PROVE TypeOK'
  <2>1. WorkerType'
    BY <1>5, <1>7 DEF Kill
  <2>2. inbox' \in [Servers -> SUBSET Valid]
    BY <1>7 DEF Kill, TypeOK
  <2>3. TopicType' /\ StateType' /\ faults' \in Nat
    BY <1>7, <2>2 DEF Kill, TypeOK, TopicType, StateType
  <2>4. QED
    BY <2>1, <2>3 DEF TypeOK, TopicType, StateType, WorkerType
<1>8. QED
  BY <1>1, <1>2, <1>3, <1>4, <1>6, <1>7


(* The steps of the stream outside consume_feedback. *)
LEMMA StreamType ==
  ASSUME TypeOK,
         StartBatch \/ DropLate \/ NextRow \/ Reject \/ Advance \/ EndBatch \/ Restart
  PROVE  TypeOK'
<1>1. CASE StartBatch
  <2>1. TopicType'
    <3>1. Len(log) \in Nat /\ offset \in Nat
      BY LenProperties DEF TypeOK
    <3>2. upto' \in offset + 1..Len(log) /\ row' = offset + 1
      BY <1>1 DEF StartBatch
    <3>3. UNCHANGED <<offset, rejected, log, inbox, impressions>>
      BY <1>1 DEF StartBatch
    <3>4. PICK last \in offset + 1..Len(log) : upto' = last
      BY <3>2
    <3>5. last \in Nat /\ offset <= last /\ last <= Len(log) /\ offset + 1 \in offset + 1..last + 1
      BY <3>1, BatchRange
    <3>6. offset + 1 \in Nat
      BY <3>1
    <3>7. QED
      BY <3>2, <3>3, <3>4, <3>5, <3>6 DEF TypeOK, TopicType
  <2>2. WorkerType' /\ StateType' /\ faults' \in Nat
    BY <1>1 DEF StartBatch, TypeOK, WorkerType, StateType
  <2>3. QED
    BY <2>1, <2>2 DEF TypeOK, TopicType, StateType, WorkerType
<1>2. CASE NextRow
  <2>1. WorkerType'
    BY <1>2, StreamWorks DEF NextRow, TypeOK, WorkerType, Steps
  <2>2. QED
    BY <1>2, <2>1 DEF NextRow, TypeOK, WorkerType
<1>3. CASE Reject
  <2>1. log[row] \in Events \ Valid
    BY <1>3, RowEvent DEF Reject
  <2>2. TopicType'
    BY <1>3, <2>1 DEF Reject, TypeOK, TopicType
  <2>3. QED
    BY <1>3, <2>2 DEF Reject, TypeOK, TopicType
<1>4. CASE Advance
  <2>1. row' \in offset + 1..upto + 1
    BY <1>4 DEF Advance, TypeOK
  <2>2. WorkerType'
    BY <1>4, StreamWorks, ForgetType DEF Advance, TypeOK, WorkerType, Steps
  <2>3. TopicType' /\ StateType' /\ faults' \in Nat
    BY <1>4, <2>1 DEF Advance, TypeOK, TopicType, StateType
  <2>4. QED
    BY <2>2, <2>3 DEF TypeOK, TopicType, StateType, WorkerType
<1>5. CASE EndBatch
  BY <1>5 DEF EndBatch, TypeOK
<1>6. CASE Restart
  <2>1. WorkerType'
    BY <1>6, StreamWorks DEF Restart, TypeOK, WorkerType, Steps
  <2>2. QED
    BY <1>6, <2>1 DEF Restart, TypeOK, WorkerType
<1>7. CASE DropLate
  <2>1. TopicType'
    BY <1>7 DEF DropLate, TypeOK, TopicType
  <2>2. QED
    BY <1>7, <2>1 DEF DropLate, TypeOK, TopicType
<1>8. QED
  BY <1>1, <1>2, <1>3, <1>4, <1>5, <1>6, <1>7

(* The steps of consume_feedback. *)
LEMMA ConsumptionType ==
  ASSUME TypeOK, NEW w \in Workers,
         Consumes(w) \/ AcquireRaises(w) \/ Raises(w) \/ ReleaseRaises(w)
  PROVE  TypeOK'
<1> USE DEF Fault
<1>1. ASSUME NEW step \in Steps, Proceed(w, step), pc[w] \notin {"idle", "stopped"},
             lock' \in {lock, w, NoWorker}, targets' \in [Workers -> SUBSET Products],
             read' \in [Workers -> Matrices], status' \in [Workers -> Statuses],
             faults' \in Nat
      PROVE  TypeOK'
  <2>1. WorkerType'
    BY <1>1 DEF Proceed, TypeOK, WorkerType
  <2>2. TopicType' /\ StateType'
    BY <1>1 DEF Proceed, TypeOK, TopicType, StateType
  <2>3. QED
    BY <1>1, <2>1, <2>2 DEF TypeOK, TopicType, StateType, WorkerType
<1>2. CASE Acquire(w) \/ TimesOut(w) \/ AcquireRaises(w)
  <2>1. CASE Acquire(w)
    BY <1>1, <2>1 DEF Acquire, TypeOK, Steps
  <2>2. CASE TimesOut(w)
    BY <1>1, <2>2 DEF TimesOut, TypeOK, Steps, Statuses
  <2>3. CASE AcquireRaises(w)
    <3>1. status' \in [Workers -> Statuses] /\ lock' \in {lock, w} /\ faults' \in Nat
      BY <2>3 DEF AcquireRaises, TypeOK, Statuses
    <3>2. Proceed(w, "done") /\ UNCHANGED <<targets, read>> /\ pc[w] = "lock"
      BY <2>3 DEF AcquireRaises
    <3>3. QED
      BY <1>1, <3>1, <3>2 DEF TypeOK, Steps
  <2>4. QED
    BY <1>2, <2>1, <2>2, <2>3
<1>3. CASE Duplicate(w)
  BY <1>1, <1>3 DEF Duplicate, TypeOK, Steps, Statuses
<1>4. CASE Check(w)
  <2>1. targets' \in [Workers -> SUBSET Products]
    BY <1>4 DEF Check, TypeOK
  <2>2. CASE Proceed(w, "attribute")
    BY <1>1, <1>4, <2>1, <2>2 DEF Check, TypeOK, Steps
  <2>3. CASE Proceed(w, "exec")
    BY <1>1, <1>4, <2>1, <2>3 DEF Check, TypeOK, Steps
  <2>4. QED
    BY <1>4, <2>2, <2>3 DEF Check
<1>5. CASE Attribute(w)
  <2> DEFINE found == About[event[w]] \cap impressions[SessionOf[event[w]]]
  <2>1. event[w] \in Events
    BY <1>5, FeedbackAssumption DEF Attribute, TypeOK
  <2>2. found \subseteq Products
    BY <2>1, FeedbackAssumption
  <2>3. targets' \in [Workers -> SUBSET Products]
    BY <1>5, <2>2 DEF Attribute, TypeOK
  <2>4. CASE Proceed(w, "load")
    BY <1>1, <1>5, <2>3, <2>4 DEF Attribute, TypeOK, Steps
  <2>5. CASE Proceed(w, "exec")
    BY <1>1, <1>5, <2>3, <2>5 DEF Attribute, TypeOK, Steps
  <2>6. QED
    BY <1>5, <2>4, <2>5 DEF Attribute
<1>6. CASE Load(w)
  <2> DEFINE taken == [p \in Products |-> IF p \in targets[w] THEN learned[p] ELSE NoMatrices[p]]
  <2>1. taken \in Matrices
    BY ZeroMatrices DEF TypeOK, Matrices
  <2>2. read' = [read EXCEPT ![w] = taken]
    BY <1>6 DEF Load
  <2>3. read' \in [Workers -> Matrices]
    BY <2>1, <2>2 DEF TypeOK
  <2>4. QED
    BY <1>1, <1>6, <2>3 DEF Load, TypeOK, Steps
<1>7. CASE Exec(w)
  <2>1. StateType'
    BY <1>7, TransactionType DEF Exec, StateType
  <2>2. Outcome(w) \in Statuses
    BY DEF Outcome, Statuses
  <2>3. WorkerType'
    BY <1>7, <2>2 DEF Exec, TypeOK, WorkerType, Steps
  <2>4. TopicType' /\ faults' \in Nat
    BY <1>7 DEF Exec, TypeOK, TopicType
  <2>5. QED
    BY <2>1, <2>3, <2>4 DEF TypeOK, TopicType, StateType, WorkerType
<1>8. CASE Raises(w)
  <2>1. StateType'
    BY <1>8, TransactionType DEF Raises, TypeOK, StateType
  <2>2. WorkerType'
    BY <1>8 DEF Raises, TypeOK, WorkerType, Steps, Statuses
  <2>3. TopicType' /\ faults' \in Nat
    BY <1>8 DEF Raises, TypeOK, TopicType
  <2>4. QED
    BY <2>1, <2>2, <2>3 DEF TypeOK, TopicType, StateType, WorkerType
<1>9. CASE Release(w)
  <2>1. status' \in [Workers -> Statuses]
    BY <1>9 DEF Release, TypeOK, Statuses
  <2>2. QED
    BY <1>1, <1>9, <2>1 DEF Release, TypeOK, Steps
<1>10. CASE ReleaseRaises(w)
  <2>1. status' \in [Workers -> Statuses] /\ lock' \in {lock, NoWorker} /\ faults' \in Nat
    BY <1>10 DEF ReleaseRaises, TypeOK, Statuses
  <2>2. Proceed(w, "done") /\ UNCHANGED <<targets, read>> /\ pc[w] = "release"
    BY <1>10 DEF ReleaseRaises
  <2>3. QED
    BY <1>1, <2>1, <2>2 DEF TypeOK, Steps
<1>11. QED
  BY <1>2, <1>3, <1>4, <1>5, <1>6, <1>7, <1>8, <1>9, <1>10 DEF Consumes

LEMMA TypeStep == TypeOK /\ [Next]_vars => TypeOK'
<1> SUFFICES ASSUME TypeOK, [Next]_vars PROVE TypeOK'
  OBVIOUS
<1>1. CASE UNCHANGED vars
  BY <1>1 DEF vars, TypeOK
<1>2. CASE Next
  BY <1>2, SurroundingsType, StreamType, ConsumptionType, StreamWorks
  DEF Next, Serves, Streams, Fails
<1>3. QED
  BY <1>1, <1>2

(* Every variable keeps its type: the stream stays within its micro-batch, *)
(* a working consumer has a valid event, only refused events are dead      *)
(* letters.                                                                *)
THEOREM FeedbackTypeCorrect == Spec => []TypeOK
BY TypeInit, TypeStep, PTL DEF Spec

-----------------------------------------------------------------------------
(* What is in Redis.                                                       *)

StateInv == FreshInv /\ LoadedInv /\ CreditInv /\ AppliedOnce /\ ModelKeepsFeedback

Decided == {"attribute", "load", "exec"}

(* A step that writes nothing: whoever works under the lock after it has   *)
(* either just looked or has gone on from where it was.                    *)
LEMMA ReadStep ==
  ASSUME StateInv, UNCHANGED stateVars,
         \A v \in Workers : lock' = v /\ pc'[v] \in Decided =>
           \/ event'[v] \notin claimed
           \/ lock = v /\ pc[v] \in Decided /\ event'[v] = event[v],
         \A v \in Workers : lock' = v /\ pc'[v] = "exec" =>
           \/ \A p \in targets'[v] : read'[v][p] = learned[p]
           \/ lock = v /\ pc[v] = "exec" /\ targets'[v] = targets[v] /\ read'[v] = read[v]
  PROVE  StateInv'
<1>1. FreshInv'
  BY DEF StateInv, FreshInv, Decided
<1>2. LoadedInv'
  BY DEF StateInv, LoadedInv, Undisturbed
<1>3. CreditInv' /\ AppliedOnce' /\ ModelKeepsFeedback'
  BY DEF StateInv, CreditInv, AppliedOnce, ModelKeepsFeedback, Undisturbed
<1>4. QED
  BY <1>1, <1>2, <1>3 DEF StateInv

(* A worker elsewhere moves. *)
LEMMA ElsewhereStep ==
  ASSUME TypeOK, StateInv, UNCHANGED stateVars,
         \A v \in Workers : lock' = v /\ pc'[v] \in Decided =>
           lock = v /\ pc'[v] = pc[v] /\ event'[v] = event[v]
           /\ targets'[v] = targets[v] /\ read'[v] = read[v]
  PROVE  StateInv'
<1>1. \A v \in Workers : lock' = v /\ pc'[v] \in Decided =>
        \/ event'[v] \notin claimed
        \/ lock = v /\ pc[v] \in Decided /\ event'[v] = event[v]
  OBVIOUS
<1>2. \A v \in Workers : lock' = v /\ pc'[v] = "exec" =>
        \/ \A p \in targets'[v] : read'[v][p] = learned[p]
        \/ lock = v /\ pc[v] = "exec" /\ targets'[v] = targets[v] /\ read'[v] = read[v]
  BY DEF Decided
<1>3. QED
  BY <1>1, <1>2, ReadStep

(* The transaction of a worker that has the lock finds what it has read;   *)
(* that of one without it is excused.                                      *)
LEMMA WriteStep ==
  ASSUME TypeOK, StateInv, NEW w \in Workers, pc[w] = "exec", Transaction(w),
         pc' = [pc EXCEPT ![w] = "release"], UNCHANGED <<lock, event, targets, read>>
  PROVE  StateInv'
<1> DEFINE e == event[w]
<1>1. e \in Events /\ e \in Valid
  BY FeedbackAssumption DEF TypeOK
<1>2. /\ claimed' = claimed \cup {e}
      /\ overran \subseteq overran'
      /\ lock # w => e \in overran'
      /\ lock = w => overran' = overran
      /\ \A f \in overran : f \in Events
  BY FeedbackAssumption DEF Transaction, TypeOK
<1>3. /\ credited'[e] = credited[e] \cup targets[w]
      /\ \A f \in Events \ {e} : credited'[f] = credited[f]
      /\ observed'[e] = observed[e] + 1
      /\ \A f \in Events \ {e} : observed'[f] = observed[f]
  BY <1>1 DEF Transaction, TypeOK
<1>4. /\ \A p \in Products \ targets[w] : learned'[p] = learned[p]
      /\ \A p \in targets[w] : p \in Products =>
           learned'[p] = [read[w][p] EXCEPT ![e] = @ + 1]
  BY DEF Transaction
<1>5. \A v \in Workers : pc'[v] \in Decided => v # w /\ pc[v] = pc'[v]
  BY DEF Decided, TypeOK
<1>6. ASSUME NEW p \in Products, Undisturbed(p)'
      PROVE  Undisturbed(p) /\ (p \in targets[w] => lock = w /\ e \notin overran)
  <2>1. \A f \in overran' : p \notin credited'[f]
    BY <1>6 DEF Undisturbed
  <2>2. Undisturbed(p)
    BY <1>2, <1>3, <2>1 DEF Undisturbed
  <2>3. p \in targets[w] => e \notin overran'
    BY <1>3, <2>1
  <2>4. QED
    BY <1>2, <2>2, <2>3
<1>7. FreshInv'
  BY <1>2, <1>5 DEF StateInv, FreshInv, Decided
<1>8. LoadedInv'
  BY <1>4, <1>5, <1>6 DEF StateInv, LoadedInv, Decided
<1>9. CreditInv'
  BY <1>2, <1>3 DEF StateInv, CreditInv
<1>10. lock = w /\ e \in claimed => e \in overran
  BY DEF StateInv, FreshInv
<1>11. AppliedOnce'
  <2>1. ASSUME NEW f \in Events \ overran', f # e
        PROVE  observed'[f] = IF f \in claimed' THEN 1 ELSE 0
    BY <1>2, <1>3, <2>1 DEF StateInv, AppliedOnce
  <2>2. ASSUME e \notin overran' PROVE observed'[e] = IF e \in claimed' THEN 1 ELSE 0
    <3>1. e \notin overran /\ e \notin claimed
      BY <1>2, <1>10, <2>2
    <3>2. observed[e] = 0
      BY <1>1, <3>1 DEF StateInv, AppliedOnce
    <3>3. QED
      BY <1>2, <1>3, <3>2
  <2>3. QED
    BY <2>1, <2>2 DEF AppliedOnce
<1>12. ModelKeepsFeedback'
  <2> SUFFICES ASSUME NEW p \in Products, Undisturbed(p)', NEW f \in Events
               PROVE  learned'[p][f] = IF f \in claimed' /\ p \in credited'[f] THEN 1 ELSE 0
    BY DEF ModelKeepsFeedback
  <2>1. learned[p][f] = IF f \in claimed /\ p \in credited[f] THEN 1 ELSE 0
    BY <1>6 DEF StateInv, ModelKeepsFeedback
  <2>2. CASE p \notin targets[w]
    <3>1. learned'[p][f] = learned[p][f]
      BY <1>4, <2>2
    <3>2. p \in credited'[f] <=> p \in credited[f]
      BY <1>3, <2>2
    <3>3. p \in credited[f] => (f \in claimed' <=> f \in claimed)
      BY <1>2 DEF StateInv, CreditInv
    <3>4. QED
      BY <2>1, <3>1, <3>2, <3>3
  <2>3. CASE p \in targets[w]
    <3>1. lock = w /\ e \notin overran /\ e \notin claimed
      BY <1>6, <1>10, <2>3
    <3>2. read[w][p] = learned[p]
      BY <1>6, <2>3, <3>1 DEF StateInv, LoadedInv
    <3>3. learned[p] \in [Events -> Nat]
      BY DEF TypeOK, Matrices
    <3>4. CASE f = e
      <4>1. learned'[p][f] = learned[p][f] + 1
        BY <1>1, <1>4, <2>3, <3>2, <3>3, <3>4
      <4>2. learned[p][f] = 0
        BY <2>1, <3>1, <3>4
      <4>3. f \in claimed' /\ p \in credited'[f]
        BY <1>2, <1>3, <2>3, <3>4
      <4>4. QED
        BY <4>1, <4>2, <4>3
    <3>5. CASE f # e
      <4>1. learned'[p][f] = learned[p][f]
        BY <1>4, <2>3, <3>2, <3>3, <3>5
      <4>2. QED
        BY <1>2, <1>3, <2>1, <3>5, <4>1
    <3>6. QED
      BY <3>4, <3>5
  <2>4. QED
    BY <2>2, <2>3
<1>13. QED
  BY <1>7, <1>8, <1>9, <1>11, <1>12 DEF StateInv


LEMMA StateStep == TypeOK /\ TypeOK' /\ StateInv /\ [Next]_vars => StateInv'
<1> SUFFICES ASSUME TypeOK, TypeOK', StateInv, [Next]_vars PROVE StateInv'
  OBVIOUS
<1> USE DEF Decided
<1>1. ASSUME UNCHANGED <<stateVars, workerVars>>, lock' \in {lock, NoWorker}
      PROVE  StateInv'
  <2>1. \A v \in Workers : lock' = v => lock = v
    BY <1>1, FeedbackAssumption
  <2>2. QED
    BY <1>1, <2>1, ElsewhereStep
<1>2. ASSUME NEW w \in Workers, NEW step \in Steps \ Decided, UNCHANGED stateVars,
             pc' = [pc EXCEPT ![w] = step], lock' \in {lock, NoWorker, w},
             \A v \in Workers \ {w} :
               event'[v] = event[v] /\ targets'[v] = targets[v] /\ read'[v] = read[v]
      PROVE  StateInv'
  <2>1. \A v \in Workers : pc'[v] \in Decided => v # w /\ pc'[v] = pc[v]
    BY <1>2 DEF TypeOK
  <2>2. \A v \in Workers \ {w} : lock' = v => lock = v
    BY <1>2, FeedbackAssumption
  <2>3. QED
    BY <1>2, <2>1, <2>2, ElsewhereStep
<1>3. ASSUME NEW w \in Workers, Forget(w)
      PROVE  \A v \in Workers \ {w} :
               event'[v] = event[v] /\ targets'[v] = targets[v] /\ read'[v] = read[v]
  BY <1>3 DEF Forget, TypeOK
<1>4. CASE \/ \E s \in Servers, e \in Events : Post(s, e)
           \/ \E e \in Events : Produce(e)
           \/ \E s \in Sessions, p \in Products : Record(s, p) \/ Expire(s, p)
           \/ Abandoned \/ Overrun
  BY <1>1, <1>4 DEF Post, Produce, Record, Expire, Abandoned, Overrun
<1>5. CASE StartBatch \/ DropLate \/ Reject \/ EndBatch
  BY <1>1, <1>5 DEF StartBatch, DropLate, Reject, EndBatch
<1>6. CASE NextRow \/ Restart
  BY <1>2, <1>6, StreamWorks DEF NextRow, Restart, TypeOK, Steps
<1>7. CASE Advance
  BY <1>2, <1>3, <1>7, StreamWorks DEF Advance, Steps
<1>8. ASSUME NEW s \in Servers, NEW e \in Valid, Take(s, e) PROVE StateInv'
  BY <1>2, <1>8, StreamWorks DEF Take, TypeOK, Steps
<1>9. ASSUME NEW s \in Servers, Answer(s) PROVE StateInv'
  BY <1>2, <1>3, <1>9, StreamWorks DEF Answer, Steps
<1>10. ASSUME NEW w \in Workers, Kill(w) PROVE StateInv'
  BY <1>2, <1>3, <1>10 DEF Kill, Steps
<1>11. ASSUME NEW w \in Workers, NEW step \in Steps \ Decided, Proceed(w, step),
              lock' \in {lock, NoWorker, w}, UNCHANGED <<targets, read>>
       PROVE  StateInv'
  BY <1>2, <1>11 DEF Proceed
<1>12. ASSUME NEW w \in Workers,
              Acquire(w) \/ TimesOut(w) \/ AcquireRaises(w) \/ Duplicate(w)
              \/ Release(w) \/ ReleaseRaises(w)
       PROVE  StateInv'
  <2>1. PICK step \in Steps \ Decided : Proceed(w, step)
    BY <1>12 DEF Acquire, TimesOut, AcquireRaises, Duplicate, Release, ReleaseRaises, Steps
  <2>2. lock' \in {lock, NoWorker, w} /\ UNCHANGED <<targets, read>>
    BY <1>12 DEF Acquire, TimesOut, AcquireRaises, Duplicate, Release, ReleaseRaises
  <2>3. QED
    BY <1>11, <2>1, <2>2
<1>13. ASSUME NEW w \in Workers, Check(w) PROVE StateInv'
  <2>1. event[w] \notin claimed /\ event' = event /\ targets'[w] = {}
        /\ UNCHANGED <<stateVars, lock, read>>
    BY <1>13 DEF Check, Proceed, TypeOK
  <2>2. \A v \in Workers \ {w} : pc'[v] = pc[v] /\ targets'[v] = targets[v]
    BY <1>13 DEF Check, Proceed, TypeOK
  <2>3. QED
    BY <2>1, <2>2, ReadStep
<1>14. ASSUME NEW w \in Workers, Attribute(w) PROVE StateInv'
  <2>1. pc[w] = "attribute" /\ UNCHANGED <<stateVars, lock, event, read>>
    BY <1>14 DEF Attribute, Proceed
  <2>2. \A v \in Workers \ {w} : pc'[v] = pc[v] /\ targets'[v] = targets[v]
    BY <1>14 DEF Attribute, Proceed, TypeOK
  <2>3. pc'[w] = "exec" => targets'[w] = {}
    BY <1>14 DEF Attribute, Proceed, TypeOK
  <2>4. QED
    BY <2>1, <2>2, <2>3, ReadStep
<1>15. ASSUME NEW w \in Workers, Load(w) PROVE StateInv'
  <2>1. pc[w] = "load" /\ UNCHANGED <<stateVars, lock, event, targets>>
    BY <1>15 DEF Load, Proceed
  <2>2. \A v \in Workers \ {w} : pc'[v] = pc[v] /\ read'[v] = read[v]
    BY <1>15 DEF Load, Proceed, TypeOK
  <2>3. targets[w] \subseteq Products
    BY DEF TypeOK
  <2>4. \A p \in targets'[w] : read'[w][p] = learned[p]
    BY <1>15, <2>1, <2>3 DEF Load, TypeOK
  <2>5. QED
    BY <2>1, <2>2, <2>4, ReadStep
<1>16. ASSUME NEW w \in Workers, Exec(w) PROVE StateInv'
  BY <1>16, WriteStep DEF Exec
<1>17. ASSUME NEW w \in Workers, Raises(w) PROVE StateInv'
  <2>1. CASE UNCHANGED stateVars
    BY <1>2, <1>17, <2>1 DEF Raises, Steps
  <2>2. CASE pc[w] = "exec" /\ Transaction(w)
    BY <1>17, <2>2, WriteStep DEF Raises
  <2>3. QED
    BY <1>17, <2>1, <2>2 DEF Raises
<1>18. CASE UNCHANGED vars
  BY <1>1, <1>18 DEF vars
<1>19. QED
  BY <1>4, <1>5, <1>6, <1>7, <1>8, <1>9, <1>10, <1>12, <1>13, <1>14, <1>15, <1>16, <1>17,
     <1>18, StreamWorks
  DEF Next, Serves, Streams, Consumes, Fails


-----------------------------------------------------------------------------
(* Answers and the stream.                                                 *)

LEMMA ClaimsStay == TypeOK /\ [Next]_vars => claimed \subseteq claimed' /\ rejected \subseteq rejected'
<1> SUFFICES ASSUME TypeOK, [Next]_vars
             PROVE  claimed \subseteq claimed' /\ rejected \subseteq rejected'
  OBVIOUS
<1>1. ASSUME NEW w \in Workers, Consumes(w) \/ Fails(w)
      PROVE  claimed \subseteq claimed' /\ rejected \subseteq rejected'
  BY <1>1 DEF Consumes, Fails, Acquire, TimesOut, AcquireRaises, Duplicate, Check, Attribute,
     Load, Exec, Raises, Release, ReleaseRaises, Kill, Proceed, Transaction
<1>2. CASE Streams
  BY <1>1, <1>2, StreamWorks DEF Streams, StartBatch, DropLate, NextRow, Reject, Advance, EndBatch, Restart
<1>3. ASSUME NEW s \in Servers, Serves(s)
      PROVE  claimed \subseteq claimed' /\ rejected \subseteq rejected'
  BY <1>1, <1>3, StreamWorks DEF Serves, Take, Answer
<1>4. CASE \/ \E s \in Servers, e \in Events : Post(s, e)
           \/ \E e \in Events : Produce(e)
           \/ \E s \in Sessions, p \in Products : Record(s, p) \/ Expire(s, p)
           \/ Abandoned \/ Overrun
  BY <1>4 DEF Post, Produce, Record, Expire, Abandoned, Overrun
<1>5. CASE UNCHANGED vars
  BY <1>5 DEF vars
<1>6. QED
  BY <1>1, <1>2, <1>3, <1>4, <1>5 DEF Next

LEMMA AnswerStep == TypeOK /\ AnswerInv /\ [Next]_vars => AnswerInv'
<1> SUFFICES ASSUME TypeOK, AnswerInv, [Next]_vars PROVE AnswerInv'
  OBVIOUS
<1>1. claimed \subseteq claimed'
  BY ClaimsStay
<1>2. ASSUME UNCHANGED workerVars PROVE AnswerInv'
  BY <1>1, <1>2 DEF AnswerInv
<1>3. ASSUME NEW w \in Workers,
             \A v \in Workers \ {w} :
               pc'[v] = pc[v] /\ event'[v] = event[v] /\ status'[v] = status[v],
             \/ pc'[w] \notin {"release", "done"}
             \/ status'[w] = "state_unavailable"
             \/ event'[w] \in claimed'
             \/ /\ pc[w] \in {"release", "done"}
                /\ event'[w] = event[w] /\ status'[w] = status[w]
      PROVE  AnswerInv'
  BY <1>1, <1>3 DEF AnswerInv
<1>4. CASE \/ \E s \in Servers, e \in Events : Post(s, e)
           \/ \E e \in Events : Produce(e)
           \/ \E s \in Sessions, p \in Products : Record(s, p) \/ Expire(s, p)
           \/ Abandoned \/ Overrun \/ StartBatch \/ DropLate \/ Reject \/ EndBatch \/ UNCHANGED vars
  BY <1>2, <1>4 DEF Post, Produce, Record, Expire, Abandoned, Overrun, StartBatch, DropLate, Reject,
     EndBatch, vars
<1>5. ASSUME NEW w \in Workers, Forget(w)
      PROVE  \A v \in Workers \ {w} : event'[v] = event[v] /\ status'[v] = status[v]
  BY <1>5 DEF Forget, TypeOK
<1>6. CASE NextRow \/ Restart
  BY <1>3, <1>6, StreamWorks DEF NextRow, Restart, TypeOK
<1>7. CASE Advance
  <2>1. pc'[Stream] \in {"idle", "stopped"}
    BY <1>7, StreamWorks DEF Advance, TypeOK
  <2>2. \A v \in Workers \ {Stream} : pc'[v] = pc[v]
    BY <1>7, StreamWorks DEF Advance, TypeOK
  <2>3. Forget(Stream)
    BY <1>7 DEF Advance
  <2>4. QED
    BY <1>3, <1>5, <2>1, <2>2, <2>3, StreamWorks
<1>8. ASSUME NEW s \in Servers, NEW e \in Valid, Take(s, e) PROVE AnswerInv'
  BY <1>3, <1>8, StreamWorks DEF Take, TypeOK
<1>9. ASSUME NEW s \in Servers, Answer(s) PROVE AnswerInv'
  BY <1>3, <1>5, <1>9, StreamWorks DEF Answer, TypeOK
<1>10. ASSUME NEW w \in Workers, Kill(w) PROVE AnswerInv'
  BY <1>3, <1>5, <1>10 DEF Kill, TypeOK
<1>11. ASSUME NEW w \in Workers,
              \/ Acquire(w) \/ Check(w) \/ Attribute(w) \/ Load(w)
       PROVE  AnswerInv'
  BY <1>3, <1>11 DEF Acquire, Check, Attribute, Load, Proceed, TypeOK
<1>12. ASSUME NEW w \in Workers,
              TimesOut(w) \/ AcquireRaises(w) \/ ReleaseRaises(w) \/ Raises(w)
       PROVE  AnswerInv'
  <2>1. status' = [status EXCEPT ![w] = "state_unavailable"] /\ event' = event
    BY <1>12 DEF TimesOut, AcquireRaises, ReleaseRaises, Raises, Proceed
  <2>2. \A v \in Workers \ {w} : pc'[v] = pc[v]
    BY <1>12 DEF TimesOut, AcquireRaises, ReleaseRaises, Raises, Proceed, TypeOK
  <2>3. QED
    BY <1>3, <2>1, <2>2 DEF TypeOK
<1>13. ASSUME NEW w \in Workers, Duplicate(w) PROVE AnswerInv'
  BY <1>1, <1>3, <1>13 DEF Duplicate, Proceed, TypeOK
<1>14. ASSUME NEW w \in Workers, Exec(w) PROVE AnswerInv'
  BY <1>3, <1>14 DEF Exec, Transaction, TypeOK
<1>15. ASSUME NEW w \in Workers, Release(w) PROVE AnswerInv'
  BY <1>3, <1>15 DEF Release, Proceed, TypeOK
<1>16. QED
  BY <1>4, <1>6, <1>7, <1>8, <1>9, <1>10, <1>11, <1>12, <1>13, <1>14, <1>15, StreamWorks
  DEF Next, Serves, Streams, Consumes, Fails


PassedInv == RowInv /\ StreamLeavesNothing

LEMMA PassedStep == TypeOK /\ AnswerInv /\ PassedInv /\ [Next]_vars => PassedInv'
<1> SUFFICES ASSUME TypeOK, AnswerInv, PassedInv, [Next]_vars PROVE PassedInv'
  OBVIOUS
<1>1. claimed \subseteq claimed' /\ rejected \subseteq rejected'
  BY ClaimsStay
<1>2. row \in Nat /\ upto \in Nat /\ row - 1 \in Nat /\ offset \in Nat /\ Len(log) \in Nat
      /\ row <= upto + 1 /\ upto <= Len(log) /\ offset + 1 <= row
  BY LenProperties DEF TypeOK
(* Nothing changes for the stream, though the topic may grow. *)
<1>3. ASSUME row' = row, \A i \in 1..Len(log) : log'[i] = log[i],
             pc'[Stream] \notin {"idle", "stopped"} =>
               pc[Stream] \notin {"idle", "stopped"} /\ event'[Stream] = event[Stream]
      PROVE  PassedInv'
  <2>1. \A i \in 1..row - 1 : i \in 1..Len(log)
    BY <1>2
  <2>2. StreamLeavesNothing'
    BY <1>1, <1>3, <2>1 DEF PassedInv, StreamLeavesNothing
  <2>3. pc[Stream] \notin {"idle", "stopped"} => row \in 1..Len(log)
    BY <1>2 DEF TypeOK
  <2>4. RowInv'
    BY <1>3, <2>3 DEF PassedInv, RowInv
  <2>5. QED
    BY <2>2, <2>4 DEF PassedInv
(* The stream begins again at a row it has passed before. *)
<1>4. ASSUME UNCHANGED log, row' = offset + 1, pc'[Stream] \in {"idle", "stopped"}
      PROVE  PassedInv'
  <2>1. \A i \in 1..row' - 1 : i \in 1..row - 1
    BY <1>2, <1>4
  <2>2. QED
    BY <1>1, <1>4, <2>1 DEF PassedInv, RowInv, StreamLeavesNothing
(* It passes a row. *)
<1>5. ASSUME UNCHANGED log, row' = row + 1, pc'[Stream] \in {"idle", "stopped"},
             log[row] \in claimed' \cup rejected' \cup Late
      PROVE  PassedInv'
  <2>1. \A i \in 1..row' - 1 : i \in 1..row - 1 \/ i = row
    BY <1>2, <1>5
  <2>2. QED
    BY <1>1, <1>5, <2>1 DEF PassedInv, RowInv, StreamLeavesNothing
<1>6. ASSUME NEW w \in Workers, Consumes(w) \/ AcquireRaises(w) \/ Raises(w) \/ ReleaseRaises(w)
      PROVE  PassedInv'
  <2>1. UNCHANGED <<log, row, event>>
    BY <1>6 DEF Consumes, Acquire, TimesOut, AcquireRaises, Duplicate, Check, Attribute, Load,
       Exec, Raises, Release, ReleaseRaises, Proceed
  <2>2. pc[w] \notin {"idle", "stopped"}
    BY <1>6 DEF Consumes, Acquire, TimesOut, AcquireRaises, Duplicate, Check, Attribute, Load,
       Exec, Raises, Release, ReleaseRaises
  <2>3. \A v \in Workers \ {w} : pc'[v] = pc[v]
    BY <1>6 DEF Consumes, Acquire, TimesOut, AcquireRaises, Duplicate, Check, Attribute, Load,
       Exec, Raises, Release, ReleaseRaises, Proceed, TypeOK
  <2>4. QED
    BY <1>3, <2>1, <2>2, <2>3, StreamWorks
<1>7. CASE (\E s \in Servers, e \in Events : Post(s, e)) \/ (\E e \in Events : Produce(e))
  <2>1. PICK e \in Events : log' = Append(log, e)
    BY <1>7 DEF Post, Produce
  <2>2. \A i \in 1..Len(log) : log'[i] = log[i]
    BY <2>1, AppendedEvent DEF TypeOK
  <2>3. UNCHANGED <<row, pc, event>>
    BY <1>7 DEF Post, Produce
  <2>4. QED
    BY <1>3, <2>2, <2>3
<1>8. CASE \/ \E s \in Sessions, p \in Products : Record(s, p) \/ Expire(s, p)
           \/ Abandoned \/ Overrun \/ EndBatch \/ UNCHANGED vars
  BY <1>3, <1>8 DEF Record, Expire, Abandoned, Overrun, EndBatch, vars
<1>9. ASSUME NEW s \in Servers, (\E e \in Valid : Take(s, e)) \/ Answer(s)
      PROVE  PassedInv'
  <2>1. UNCHANGED <<log, row>> /\ s # Stream /\ s \in Workers
    BY <1>9, FeedbackAssumption, StreamWorks DEF Take, Answer
  <2>2. pc'[Stream] = pc[Stream] /\ event'[Stream] = event[Stream]
    BY <1>9, <2>1, StreamWorks DEF Take, Answer, Forget, TypeOK
  <2>3. QED
    BY <1>3, <2>1, <2>2
<1>10. ASSUME NEW w \in Workers, Kill(w) PROVE PassedInv'
  <2>1. UNCHANGED <<log, row>>
    BY <1>10 DEF Kill
  <2>2. w = Stream => pc'[Stream] = "stopped"
    BY <1>10 DEF Kill, TypeOK
  <2>3. w # Stream => pc'[Stream] = pc[Stream] /\ event'[Stream] = event[Stream]
    BY <1>10, StreamWorks DEF Kill, Forget, TypeOK
  <2>4. QED
    BY <1>3, <2>1, <2>2, <2>3
<1>11. CASE StartBatch \/ Restart
  <2>1. pc'[Stream] = "idle"
    BY <1>11, StreamWorks DEF StartBatch, Restart, TypeOK
  <2>2. QED
    BY <1>4, <1>11, <2>1 DEF StartBatch, Restart
<1>12. CASE NextRow
  <2>1. event'[Stream] = log[row] /\ UNCHANGED <<log, row>>
    BY <1>12, StreamWorks DEF NextRow, TypeOK
  <2>2. RowInv'
    BY <2>1 DEF RowInv
  <2>3. StreamLeavesNothing'
    BY <1>1, <2>1 DEF PassedInv, StreamLeavesNothing
  <2>4. QED
    BY <2>2, <2>3 DEF PassedInv
<1>13. CASE DropLate \/ Reject
  BY <1>5, <1>13 DEF DropLate, Reject
<1>14. CASE Advance
  <2>1. UNCHANGED <<log, claimed>> /\ pc[Stream] = "done" /\ pc'[Stream] \in {"idle", "stopped"}
    BY <1>14, StreamWorks DEF Advance, TypeOK
  <2>2. CASE status[Stream] = "state_unavailable"
    BY <1>3, <1>14, <2>1, <2>2 DEF Advance
  <2>3. CASE status[Stream] # "state_unavailable"
    <3>1. event[Stream] \in claimed
      BY <2>1, <2>3, StreamWorks DEF AnswerInv
    <3>2. event[Stream] = log[row]
      BY <2>1 DEF PassedInv, RowInv
    <3>3. row' = row + 1
      BY <1>14, <2>3 DEF Advance
    <3>4. QED
      BY <1>5, <2>1, <3>1, <3>2, <3>3
  <2>4. QED
    BY <2>2, <2>3
<1>15. QED
  BY <1>6, <1>7, <1>8, <1>9, <1>10, <1>11, <1>12, <1>13, <1>14, StreamWorks
  DEF Next, Serves, Streams, Fails

-----------------------------------------------------------------------------
(* The theorems.                                                           *)

LEMMA FeedbackInit == Init => FeedbackInvariant
<1> SUFFICES ASSUME Init PROVE FeedbackInvariant
  OBVIOUS
<1>1. FreshInv /\ LoadedInv /\ AnswerInv
  BY DEF Init, FreshInv, LoadedInv, AnswerInv
<1>2. CreditInv /\ AppliedOnce /\ ModelKeepsFeedback
  BY DEF Init, CreditInv, AppliedOnce, ModelKeepsFeedback, NoMatrices
<1>3. RowInv /\ StreamLeavesNothing
  BY StreamWorks DEF Init, RowInv, StreamLeavesNothing
<1>4. QED
  BY <1>1, <1>2, <1>3 DEF FeedbackInvariant

(* The inductive invariant.  A worker that holds the lock knows that its   *)
(* event has no key (FreshInv) and that what it has read is current        *)
(* (LoadedInv); a transaction that breaks either was executed without the  *)
(* lock and names its event and products in the history.                   *)
THEOREM FeedbackIsCorrect == Spec => []FeedbackInvariant
<1>1. TypeOK /\ TypeOK' /\ FeedbackInvariant /\ [Next]_vars => FeedbackInvariant'
  BY StateStep, AnswerStep, PassedStep DEF FeedbackInvariant, StateInv, PassedInv
<1>2. QED
  BY FeedbackInit, FeedbackTypeCorrect, <1>1, PTL DEF Spec

(* However many servers and replays consume an event, its key, counters,   *)
(* cart and matrices change once and together, unless a worker wrote it    *)
(* after its lock had expired.                                             *)
THEOREM EventsApplyOnce == Spec => []AppliedOnce
<1>1. FeedbackInvariant => AppliedOnce
  BY DEF FeedbackInvariant
<1>2. QED
  BY FeedbackIsCorrect, <1>1, PTL

(* Reading and writing back whole matrices loses no update.                *)
THEOREM NoUpdateIsLost == Spec => []ModelKeepsFeedback
<1>1. FeedbackInvariant => ModelKeepsFeedback
  BY DEF FeedbackInvariant
<1>2. QED
  BY FeedbackIsCorrect, <1>1, PTL

(* The stream passes an event only when it is applied, a dead letter or    *)
(* late.                                                                   *)
THEOREM NothingIsPassedOver == Spec => []StreamLeavesNothing
<1>1. FeedbackInvariant => StreamLeavesNothing
  BY DEF FeedbackInvariant
<1>2. QED
  BY FeedbackIsCorrect, <1>1, PTL

(* A worker loses its lock to nobody.                                      *)
THEOREM LocksAreKept == Spec => LockIsKept
<1> DEFINE Kept == \A w \in Workers :
             lock = w /\ pc[w] \in Critical /\ pc'[w] = pc[w] /\ faults' = faults => lock' = w
<1>1. TypeOK /\ [Next]_vars => Kept \/ UNCHANGED vars
  <2> SUFFICES ASSUME TypeOK, [Next]_vars, NEW w \in Workers, lock = w, pc[w] \in Critical,
                      pc'[w] = pc[w], faults' = faults
               PROVE  lock' = w
    OBVIOUS
  <2>1. w # NoWorker /\ faults \in Nat
    BY FeedbackAssumption DEF TypeOK
  <2>2. ASSUME NEW v \in Workers, Fails(v) \/ Overrun PROVE lock' = w
    BY <2>1, <2>2 DEF Fails, AcquireRaises, Raises, ReleaseRaises, Kill, Overrun, Fault
  <2>3. ASSUME NEW v \in Workers, Release(v) PROVE lock' = w
    BY <2>1, <2>3 DEF Release, Proceed, TypeOK
  <2>4. ASSUME NEW v \in Workers, Consumes(v) PROVE lock' = w
    BY <2>1, <2>3, <2>4 DEF Consumes, Acquire, TimesOut, Duplicate, Check, Attribute, Load, Exec
  <2>5. CASE Abandoned
    BY <2>5 DEF Abandoned
  <2>6. CASE Streams
    BY <2>4, <2>6, StreamWorks DEF Streams, StartBatch, DropLate, NextRow, Reject, Advance, EndBatch, Restart
  <2>7. ASSUME NEW s \in Servers, Serves(s) PROVE lock' = w
    BY <2>4, <2>7, StreamWorks DEF Serves, Take, Answer
  <2>8. QED
    BY <2>2, <2>5, <2>6, <2>7 DEF Next, vars, Post, Produce, Record, Expire
<1>2. QED
  BY FeedbackTypeCorrect, <1>1, PTL DEF Spec, LockIsKept

(* Every step is a step of LearnOnce: a transaction under the lock learns  *)
(* its event, one without it breaks the promise, nothing else matters.     *)
LEMMA TransactionKeepsPromise ==
  ASSUME TypeOK, StateInv, NEW w \in Workers, pc[w] = "exec", Transaction(w)
  PROVE  Promise!Next
<1> DEFINE e == event[w]
<1>1. e \in Events /\ targets[w] \in SUBSET Products
  BY FeedbackAssumption DEF TypeOK
<1>2. CASE overran' # {}
  BY <1>2 DEF Promise!Next, Promise!Break
<1>3. CASE overran' = {}
  <2>1. lock = w /\ overran = {}
    BY <1>3 DEF Transaction
  <2>2. e \notin claimed
    BY <2>1 DEF StateInv, FreshInv
  <2>3. \A p \in targets[w] : read[w][p] = learned[p]
    BY <1>1, <2>1 DEF StateInv, LoadedInv, Undisturbed
  <2>4. learned' = [p \in Products |-> IF p \in targets[w]
                      THEN [learned[p] EXCEPT ![e] = @ + 1] ELSE learned[p]]
    BY <2>3 DEF Transaction
  <2>5. claimed' = claimed \cup {e}
    BY DEF Transaction
  <2>6. Promise!Learn(e, targets[w])
    BY <1>3, <2>1, <2>2, <2>4, <2>5 DEF Promise!Learn
  <2>7. QED
    BY <1>1, <2>6 DEF Promise!Next
<1>4. QED
  BY <1>2, <1>3

LEMMA StepKeepsPromise ==
  TypeOK /\ StateInv /\ [Next]_vars => [Promise!Next]_<<claimed, learned, overran # {}>>
<1> SUFFICES ASSUME TypeOK, StateInv, [Next]_vars
             PROVE  Promise!Next \/ UNCHANGED <<claimed, learned, overran>>
  BY DEF Promise!Next
<1>1. ASSUME NEW w \in Workers, Consumes(w) \/ Fails(w)
      PROVE  Promise!Next \/ UNCHANGED <<claimed, learned, overran>>
  <2>1. CASE pc[w] = "exec" /\ Transaction(w)
    BY <2>1, TransactionKeepsPromise
  <2>2. CASE UNCHANGED stateVars
    BY <2>2
  <2>3. QED
    BY <1>1, <2>1, <2>2 DEF Consumes, Fails, Acquire, TimesOut, AcquireRaises, Duplicate, Check,
       Attribute, Load, Exec, Raises, Release, ReleaseRaises, Kill, Proceed
<1>2. CASE Streams
  BY <1>1, <1>2, StreamWorks DEF Streams, StartBatch, DropLate, NextRow, Reject, Advance, EndBatch, Restart
<1>3. ASSUME NEW s \in Servers, Serves(s)
      PROVE  Promise!Next \/ UNCHANGED <<claimed, learned, overran>>
  BY <1>1, <1>3, StreamWorks DEF Serves, Take, Answer
<1>4. CASE \/ \E s \in Servers, e \in Events : Post(s, e)
           \/ \E e \in Events : Produce(e)
           \/ \E s \in Sessions, p \in Products : Record(s, p) \/ Expire(s, p)
           \/ Abandoned \/ Overrun \/ UNCHANGED vars
  BY <1>4 DEF Post, Produce, Record, Expire, Abandoned, Overrun, vars
<1>5. QED
  BY <1>1, <1>2, <1>3, <1>4 DEF Next

(* The service implements LearnOnce.                                       *)
THEOREM FeedbackKeepsPromise == Spec => KeepsPromise
<1>1. Init => Promise!Init
  BY DEF Init, Promise!Init, NoMatrices
<1>2. FeedbackInvariant => StateInv
  BY DEF FeedbackInvariant, StateInv
<1>3. QED
  BY <1>1, <1>2, StepKeepsPromise, FeedbackTypeCorrect, FeedbackIsCorrect, PTL
  DEF Spec, KeepsPromise, Promise!Spec, Promise!vars
=============================================================================

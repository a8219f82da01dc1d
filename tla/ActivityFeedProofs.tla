------------------------- MODULE ActivityFeedProofs --------------------------
(***************************************************************************)
(* What the pages show of the activity log, for every number of pages,     *)
(* entries and broken connections.                                         *)
(***************************************************************************)
EXTENDS ActivityFeed, FiniteSetTheorems, TLAPS

USE DEF redisVars, streamVars

-----------------------------------------------------------------------------
(* Ids and their order.                                                    *)

LEMMA RetainedIds ==
  ASSUME TypeOK
  PROVE  Retained \subseteq Ids /\ Ids \subseteq Nat \ {0} /\ IsFiniteSet(Retained)
         /\ Len(log) \in Nat
<1>1. Len(log) \in Nat /\ Retained \subseteq 1..Len(log)
  BY DEF TypeOK, Retained, Ids
<1>2. IsFiniteSet(1..Len(log))
  BY <1>1, FS_Interval
<1>3. IsFiniteSet(Retained)
  BY <1>1, <1>2, FS_Subset
<1>4. QED
  BY <1>1, <1>3 DEF Ids

(* Rows in the order of the stream. *)
LEMMA Rows ==
  ASSUME NEW S, IsFiniteSet(S), S \subseteq Nat, NEW rows \in InOrder(S)
  PROVE  /\ rows \in Seq(S) /\ IsAscending(rows)
         /\ \A i \in S : \E n \in 1..Len(rows) : rows[n] = i
         /\ rows = <<>> => LastOr0(rows) = 0
         /\ rows # <<>> => /\ LastOr0(rows) \in S
                           /\ Len(rows) \in 1..Len(rows) /\ LastOr0(rows) = rows[Len(rows)]
         /\ \A n \in 1..Len(rows) : rows[n] \in S /\ rows[n] <= LastOr0(rows)
<1>1. Cardinality(S) \in Nat
  BY FS_CardinalityType
<1>2. rows \in Seq(S) /\ Len(rows) = Cardinality(S)
  BY <1>1 DEF InOrder
<1>3. IsAscending(rows) /\ \A i \in S : \E n \in 1..Len(rows) : rows[n] = i
  BY <1>2 DEF InOrder
<1>4. rows # <<>> => Len(rows) \in 1..Len(rows)
  BY <1>2
<1>5. rows # <<>> => LastOr0(rows) = rows[Len(rows)] /\ LastOr0(rows) \in S
  BY <1>2, <1>4 DEF LastOr0
<1>6. ASSUME NEW n \in 1..Len(rows) PROVE rows[n] \in S /\ rows[n] <= LastOr0(rows)
  <2>1. rows # <<>> /\ Len(rows) \in Nat /\ rows[n] \in S
    BY <1>2, <1>6
  <2>2. CASE n = Len(rows)
    <3>1. rows[n] = LastOr0(rows) /\ rows[n] \in Nat
      BY <1>5, <2>1, <2>2
    <3>2. QED
      BY <2>1, <3>1
  <2>3. CASE n < Len(rows)
    <3>1. rows[n] < rows[Len(rows)]
      BY <1>3, <1>4, <2>1, <2>3 DEF IsAscending
    <3>2. rows[n] \in Nat /\ rows[Len(rows)] \in Nat
      BY <1>5, <2>1
    <3>3. QED
      BY <1>5, <2>1, <3>1, <3>2
  <2>4. QED
    BY <2>1, <2>2, <2>3
<1>7. QED
  BY <1>2, <1>3, <1>4, <1>5, <1>6 DEF LastOr0

(* The latest of a set are closed upwards in it, the earliest downwards. *)
LEMMA Closed ==
  ASSUME NEW S, IsFiniteSet(S), S \subseteq Nat, NEW n \in Nat,
         NEW i \in S, NEW j \in S, j > i
  PROVE  /\ i \in Latest(S, n) => j \in Latest(S, n)
         /\ j \in Earliest(S, n) => i \in Earliest(S, n)
<1>0. \A k \in S : (k > j => k > i) /\ (k < i => k < j)
  <2>1. SUFFICES ASSUME NEW k \in S PROVE (k > j => k > i) /\ (k < i => k < j)
    OBVIOUS
  <2>2. i \in Nat /\ j \in Nat /\ k \in Nat
    OBVIOUS
  <2>3. QED
    BY <2>2
<1>1. {k \in S : k > j} \subseteq {k \in S : k > i}
  BY <1>0
<1>2. {k \in S : k < i} \subseteq {k \in S : k < j}
  BY <1>0
<1>3. IsFiniteSet({k \in S : k > i}) /\ IsFiniteSet({k \in S : k < j})
      /\ IsFiniteSet({k \in S : k > j}) /\ IsFiniteSet({k \in S : k < i})
  BY FS_Subset
<1>4. /\ Cardinality({k \in S : k > j}) <= Cardinality({k \in S : k > i})
      /\ Cardinality({k \in S : k < i}) <= Cardinality({k \in S : k < j})
  BY <1>1, <1>2, <1>3, FS_Subset
<1>5. /\ Cardinality({k \in S : k > j}) \in Nat /\ Cardinality({k \in S : k > i}) \in Nat
      /\ Cardinality({k \in S : k < i}) \in Nat /\ Cardinality({k \in S : k < j}) \in Nat
  BY <1>3, FS_CardinalityType
<1>6. QED
  BY <1>4, <1>5 DEF Latest, Earliest

(* What a snapshot lists has no gap in the scope of the page. *)
LEMMA ListedRows ==
  ASSUME TypeOK, NEW p \in Pages
  PROVE  /\ Listed(p) \subseteq Retained /\ IsFiniteSet(Listed(p))
         /\ \A i \in Listed(p) : InScope(p, i)
         /\ \A i \in Listed(p), j \in Retained :
              InScope(p, j) /\ i < j => j \in Listed(p)
<1>1. Retained \subseteq Nat /\ IsFiniteSet(Retained)
  BY RetainedIds
<1>2. MaxEvents \in Nat /\ Limit \in Nat
  BY FeedAssumption
<1>3. CASE p \in Rooms
  <2>1. Listed(p) = Latest(Retained, Limit) /\ p \notin Stores
    BY <1>3, FeedAssumption DEF Listed
  <2>2. Listed(p) \subseteq Retained
    BY <2>1 DEF Latest
  <2>3. \A i \in Listed(p), j \in Retained : i < j => j \in Listed(p)
    <3>1. SUFFICES ASSUME NEW i \in Listed(p), NEW j \in Retained, i < j
                   PROVE  j \in Latest(Retained, Limit)
      BY <2>1
    <3>2. i \in Retained /\ i \in Latest(Retained, Limit) /\ j > i
      BY <1>1, <2>1, <2>2, <3>1
    <3>3. QED
      BY <1>1, <1>2, <3>2, Closed
  <2>4. IsFiniteSet(Listed(p))
    BY <1>1, <2>2, FS_Subset
  <2>5. QED
    BY <2>1, <2>2, <2>3, <2>4 DEF InScope
<1>4. CASE p \in Stores
  <2>1. DEFINE near == Latest(Retained, MaxEvents)
               own == {i \in near : InScope(p, i)}
  <2>2. Listed(p) = Latest(own, Limit)
    BY <1>4, FeedAssumption DEF Listed
  <2>3. near \subseteq Retained /\ own \subseteq Retained /\ IsFiniteSet(own)
    BY <1>1, FS_Subset DEF Latest
  <2>4. Listed(p) \subseteq own
    BY <2>2 DEF Latest
  <2>5. ASSUME NEW i \in Listed(p), NEW j \in Retained, InScope(p, j), i < j
        PROVE  j \in Listed(p)
    <3>1. i \in near /\ i \in own
      BY <2>4
    <3>2. j \in near
      BY <1>1, <1>2, <2>3, <2>5, <3>1, Closed
    <3>3. j \in own
      BY <2>5, <3>2
    <3>4. QED
      <4>1. own \subseteq Nat /\ i \in Latest(own, Limit) /\ j > i
        BY <1>1, <2>2, <2>3, <2>5
      <4>2. j \in Latest(own, Limit)
        BY <1>2, <2>3, <3>1, <3>3, <4>1, Closed
      <4>3. QED
        BY <2>2, <4>2
  <2>6. QED
    BY <1>1, <2>3, <2>4, <2>5, FS_Subset
<1>5. QED
  BY <1>3, <1>4 DEF Pages

LEMMA AheadRows ==
  ASSUME TypeOK, NEW p \in Pages
  PROVE  /\ Earliest(Ahead(p), Batch) \subseteq Ahead(p)
         /\ Ahead(p) \subseteq Retained /\ IsFiniteSet(Earliest(Ahead(p), Batch))
         /\ \A i \in Earliest(Ahead(p), Batch), j \in Ahead(p) :
              j < i => j \in Earliest(Ahead(p), Batch)
<1>1. Retained \subseteq Nat /\ IsFiniteSet(Retained) /\ Ahead(p) \subseteq Retained
  BY RetainedIds DEF Ahead
<1>2. IsFiniteSet(Ahead(p)) /\ Earliest(Ahead(p), Batch) \subseteq Ahead(p)
  BY <1>1, FS_Subset DEF Earliest
<1>3. QED
  BY <1>1, <1>2, FeedAssumption, FS_Subset, Closed

-----------------------------------------------------------------------------
(* Types.                                                                  *)

LEMMA TypeInit == Init => TypeOK
BY DEF Init, TypeOK, Steps, NoCounts, Ids

LEMMA LogType ==
  ASSUME TypeOK, NEW e \in Traffic, Record(e)
  PROVE  TypeOK'
<1>1. log' = Append(log, e) /\ log' \in Seq(Traffic) /\ Len(log') = Len(log) + 1
      /\ Len(log) \in Nat
  BY DEF Record, TypeOK
<1>2. e.kind \in Kinds
  BY FeedAssumption
<1>3. counts' \in [Kinds -> Nat]
  BY <1>2 DEF Record, TypeOK
<1>4. trimmed' \in 0..Len(log')
  BY <1>1 DEF Record, TypeOK
<1>5. Ids \subseteq Ids' /\ 0..Len(log) \subseteq 0..Len(log')
  BY <1>1 DEF Ids
<1>6. \A s \in Seq(Ids) : s \in Seq(Ids')
  BY <1>5
<1>7. tape' \in [Pages -> Seq(Ids')] /\ batch' \in [Pages -> Seq(Ids')]
  BY <1>6 DEF Record, TypeOK
<1>8. QED
  BY <1>1, <1>3, <1>4, <1>5, <1>7 DEF Record, TypeOK

LEMMA ListType ==
  ASSUME TypeOK, NEW p \in Pages, List(p)
  PROVE  TypeOK'
<1>1. PICK rows \in InOrder(Listed(p)) :
        tape' = [tape EXCEPT ![p] = rows] /\ since' = [since EXCEPT ![p] = LastOr0(rows)]
  BY DEF List
<1>2. Listed(p) \subseteq Ids /\ Listed(p) \subseteq Nat /\ IsFiniteSet(Listed(p))
  BY ListedRows, RetainedIds
<1>3. rows \in Seq(Listed(p)) /\ (LastOr0(rows) = 0 \/ LastOr0(rows) \in Listed(p))
  BY <1>2, Rows
<1>4. rows \in Seq(Ids)
  BY <1>2, <1>3
<1>5. LastOr0(rows) \in 0..Len(log)
  BY <1>2, <1>3, RetainedIds DEF Ids
<1>6. QED
  BY <1>1, <1>4, <1>5 DEF List, TypeOK, Steps, Ids

LEMMA ReadType ==
  ASSUME TypeOK, NEW p \in Pages, Read(p)
  PROVE  TypeOK'
<1>1. PICK rows \in InOrder(Earliest(Ahead(p), Batch)) :
        batch' = [batch EXCEPT ![p] = rows] /\ follow' = [follow EXCEPT ![p] = LastOr0(rows)]
  BY DEF Read
<1>2. DEFINE near == Earliest(Ahead(p), Batch)
<1>3. near \subseteq Ids /\ near \subseteq Nat /\ IsFiniteSet(near)
  BY AheadRows, RetainedIds
<1>4. rows \in Seq(near) /\ (LastOr0(rows) = 0 \/ LastOr0(rows) \in near)
  BY <1>1, <1>3, Rows
<1>5. rows \in Seq(Ids)
  BY <1>3, <1>4
<1>6. LastOr0(rows) \in 0..Len(log)
  BY <1>3, <1>4, RetainedIds DEF Ids
<1>7. QED
  BY <1>1, <1>5, <1>6 DEF Read, TypeOK, Ids

(* The rows at hand. *)
LEMMA BatchRows ==
  ASSUME TypeOK, NEW p \in Pages, batch[p] # <<>>
  PROVE  /\ Head(batch[p]) = batch[p][1] /\ Head(batch[p]) \in Ids
         /\ Tail(batch[p]) \in Seq(Ids) /\ Len(batch[p]) \in Nat \ {0}
         /\ Len(Tail(batch[p])) = Len(batch[p]) - 1
         /\ \A n \in 1..Len(Tail(batch[p])) :
              n + 1 \in 1..Len(batch[p]) /\ Tail(batch[p])[n] = batch[p][n + 1]
<1>1. batch[p] \in Seq(Ids)
  BY DEF TypeOK
<1>2. QED
  BY <1>1

LEMMA DeliverType ==
  ASSUME TypeOK, NEW p \in Pages, Deliver(p)
  PROVE  TypeOK'
<1>1. /\ Head(batch[p]) \in Ids /\ Tail(batch[p]) \in Seq(Ids)
      /\ tape[p] \in Seq(Ids) /\ Len(log) \in Nat
  BY BatchRows DEF Deliver, TypeOK
<1>2. Append(tape[p], Head(batch[p])) \in Seq(Ids) /\ Head(batch[p]) \in 0..Len(log)
  BY <1>1 DEF Ids
<1>3. log[Head(batch[p])].kind \in Kinds
  <2>1. log[Head(batch[p])] \in Traffic
    BY <1>1 DEF TypeOK, Ids
  <2>2. QED
    BY <2>1, FeedAssumption
<1>4. metrics' \in [Pages -> [Kinds -> Nat]]
  <2>1. CASE metrics' = metrics
    BY <2>1 DEF TypeOK
  <2>2. CASE metrics' = [metrics EXCEPT ![p][log[Head(batch[p])].kind] = @ + 1]
    <3>1. metrics[p] \in [Kinds -> Nat]
      BY DEF TypeOK
    <3>2. metrics[p][log[Head(batch[p])].kind] + 1 \in Nat
      BY <1>3, <3>1
    <3>3. QED
      BY <1>3, <2>2, <3>1, <3>2 DEF TypeOK
  <2>3. QED
    BY <2>1, <2>2 DEF Deliver
<1>5. QED
  BY <1>1, <1>2, <1>4 DEF Deliver, TypeOK, Ids

(* The steps that move no rows. *)
LEMMA QuietType ==
  ASSUME TypeOK, NEW p \in Pages,
         \/ Count(p) \/ SnapshotRefused(p) \/ SnapshotLost(p)
         \/ Connect(p) \/ Refuse(p) \/ Broken(p) \/ Lose(p) \/ Load(p)
  PROVE  TypeOK'
<1>1. Cursor(p) \in 0..Len(log) /\ Len(log) \in Nat
  BY DEF Cursor, TypeOK
<1>2. 0 \in 0..Len(log) /\ <<>> \in Seq(Ids)
  BY <1>1
<1>3. CASE Count(p)
  BY <1>3 DEF Count, TypeOK, Steps, Ids
<1>4. CASE SnapshotRefused(p) \/ SnapshotLost(p)
  <2>1. NoSnapshot(p) /\ faults' \in Nat
    BY <1>4 DEF SnapshotRefused, SnapshotLost, Fault, TypeOK
  <2>2. /\ tape' \in [Pages -> Seq(Ids)] /\ since' \in [Pages -> 0..Len(log)]
        /\ step' \in [Pages -> Steps]
    BY <1>2, <2>1 DEF NoSnapshot, TypeOK, Steps
  <2>3. QED
    BY <2>1, <2>2 DEF NoSnapshot, TypeOK, Ids
<1>5. CASE Connect(p)
  BY <1>1, <1>5 DEF Connect, TypeOK, Steps, Ids
<1>6. CASE Refuse(p) \/ Broken(p)
  BY <1>6 DEF Refuse, Broken, TypeOK, Steps, Ids
<1>7. CASE Lose(p)
  BY <1>2, <1>7 DEF Lose, Fault, TypeOK, Steps, Ids
<1>8. CASE Load(p)
  BY <1>2, <1>8 DEF Load, Fault, NoCounts, TypeOK, Steps, Ids
<1>9. QED
  BY <1>3, <1>4, <1>5, <1>6, <1>7, <1>8

LEMMA TypeStep == TypeOK /\ [Next]_vars => TypeOK'
<1> SUFFICES ASSUME TypeOK, [Next]_vars PROVE TypeOK'
  OBVIOUS
<1>1. CASE Stop \/ Resume
  <2>1. up' \in BOOLEAN /\ faults' \in Nat
    <3>1. CASE Stop
      <4>1. faults' \in Nat
        BY <3>1 DEF Stop, Fault, TypeOK
      <4>2. QED
        BY <3>1, <4>1 DEF Stop
    <3>2. CASE Resume
      BY <3>2 DEF Resume, TypeOK
    <3>3. QED
      BY <1>1, <3>1, <3>2
  <2>2. UNCHANGED <<log, trimmed, counts, step, tape, metrics, since, lastEvent, streamVars>>
    BY <1>1 DEF Stop, Resume
  <2>3. QED
    BY <2>1, <2>2 DEF TypeOK, Ids
<1>2. ASSUME NEW p \in Pages, Skip(p) PROVE TypeOK'
  <2>1. Tail(batch[p]) \in Seq(Ids)
    BY <1>2, BatchRows DEF Skip
  <2>2. QED
    BY <1>2, <2>1 DEF Skip, TypeOK, Ids
<1>3. CASE UNCHANGED vars
  BY <1>3 DEF vars, TypeOK, Ids
<1>4. QED
  BY <1>1, <1>2, <1>3, LogType, ListType, ReadType, DeliverType, QuietType
  DEF Next, Proceeds, Snapshot

(* Every variable keeps its type; pages refer to entries that exist.       *)
THEOREM FeedTypeCorrect == Spec => []TypeOK
BY TypeInit, TypeStep, PTL DEF Spec

-----------------------------------------------------------------------------
(* The invariant of one page.                                              *)

NoGap(p) ==
  \A i \in Retained :
    InScope(p, i) /\ tape[p] # <<>> /\ tape[p][1] < i /\ i < LastOr0(tape[p])
      => i \in Shown(p)

Own(p) == p \in Stores => \A i \in Shown(p) : log[i].session = Owner[p]

Places(p) ==
  /\ Cursor(p) = LastOr0(tape[p])
  /\ step[p] \in {"start", "listed"} => lastEvent[p] = 0
  /\ step[p] = "start" => tape[p] = <<>>
  /\ step[p] # "open" => batch[p] = <<>>

Sends(p) ==
  step[p] = "open" =>
    /\ IsAscending(batch[p])
    /\ Cursor(p) <= follow[p]
    /\ \A n \in 1..Len(batch[p]) : Cursor(p) < batch[p][n] /\ batch[p][n] <= follow[p]
    /\ \A i \in Retained :
         InScope(p, i) /\ Cursor(p) < i /\ i <= follow[p]
           => \E n \in 1..Len(batch[p]) : batch[p][n] = i

Page(p) == IsAscending(tape[p]) /\ NoGap(p) /\ Own(p) /\ Places(p) /\ Sends(p)

LEMMA EachPage ==
  /\ FeedInvariant <=> \A p \in Pages : Page(p)
  /\ FeedInvariant' <=> \A p \in Pages : Page(p)'
<1>1. \A p \in Stores : p \in Pages
  BY DEF Pages
<1>2. QED
  BY <1>1 DEF FeedInvariant, TapeAscends, OnlyTrimmedIsMissed, OwnActivityOnly, StreamInv,
              Page, NoGap, Own, Places, Sends

(* What a page shows it has in its first and last place too. *)
LEMMA TapeRows ==
  ASSUME TypeOK, NEW p \in Pages
  PROVE  /\ tape[p] \in Seq(Ids) /\ Len(tape[p]) \in Nat /\ Shown(p) \subseteq Ids
         /\ tape[p] # <<>> => /\ 1 \in 1..Len(tape[p]) /\ Len(tape[p]) \in 1..Len(tape[p])
                              /\ LastOr0(tape[p]) = tape[p][Len(tape[p])]
                              /\ LastOr0(tape[p]) \in Ids
         /\ tape[p] = <<>> => LastOr0(tape[p]) = 0
<1>1. tape[p] \in Seq(Ids)
  BY DEF TypeOK
<1>2. QED
  BY <1>1 DEF LastOr0, Shown

Same(q) ==
  /\ step'[q] = step[q] /\ tape'[q] = tape[q] /\ since'[q] = since[q]
  /\ lastEvent'[q] = lastEvent[q] /\ follow'[q] = follow[q] /\ batch'[q] = batch[q]

(* Nothing happens to the page or to the log. *)
LEMMA SameLog ==
  ASSUME NEW q \in Pages, Same(q), log' = log, trimmed' = trimmed, Page(q)
  PROVE  Page(q)'
BY DEF Same, Page, NoGap, Own, Places, Sends, Cursor, Shown, InScope, Retained, Ids

(* The log grows at its end and is trimmed at its beginning. *)
LEMMA LogStep ==
  ASSUME TypeOK, NEW e \in Traffic, Record(e), NEW q \in Pages, Page(q)
  PROVE  Page(q)'
<1>1. Same(q)
  BY DEF Record, Same
<1>2. /\ Len(log) \in Nat /\ Len(log') = Len(log) + 1
      /\ \A i \in Ids : log'[i] = log[i]
      /\ trimmed \in Nat /\ trimmed' \in Nat /\ trimmed <= trimmed'
  BY DEF Record, TypeOK, Ids
<1>3. /\ \A i \in Retained' : i \in Retained \/ i = Len(log) + 1
      /\ \A i \in Retained : i \in Ids
  BY <1>2 DEF Retained, Ids
<1>4. \A i \in Ids : InScope(q, i)' <=> InScope(q, i)
  BY <1>2 DEF InScope
<1>5. LastOr0(tape[q]) <= Len(log) /\ follow[q] <= Len(log) /\ Shown(q) \subseteq Ids
      /\ LastOr0(tape[q]) \in Nat /\ follow[q] \in Nat
  BY <1>2, TapeRows DEF TypeOK, Ids
<1>6. Shown(q)' = Shown(q) /\ Cursor(q)' = Cursor(q)
  BY <1>1 DEF Same, Shown, Cursor
<1>7. NoGap(q)'
  <2>1. SUFFICES ASSUME NEW i \in Retained', InScope(q, i)', tape[q] # <<>>,
                        tape[q][1] < i, i < LastOr0(tape[q])
                 PROVE  i \in Shown(q)
    BY <1>1, <1>6 DEF NoGap, Same
  <2>2. i \in Retained
    BY <1>2, <1>3, <1>5, <2>1
  <2>3. QED
    BY <1>3, <1>4, <2>1, <2>2 DEF Page, NoGap
<1>8. Own(q)'
  BY <1>2, <1>5, <1>6 DEF Page, Own
<1>9. Places(q)'
  BY <1>1, <1>6 DEF Page, Places, Same
<1>10. Sends(q)'
  <2>1. ASSUME NEW i \in Retained', InScope(q, i)', Cursor(q) < i, i <= follow[q], step[q] = "open"
        PROVE  \E n \in 1..Len(batch[q]) : batch[q][n] = i
    <3>1. i \in Retained
      BY <1>2, <1>3, <1>5, <2>1
    <3>2. QED
      BY <1>3, <1>4, <2>1, <3>1 DEF Page, Sends
  <2>2. QED
    BY <1>1, <1>6, <2>1 DEF Page, Sends, Same
<1>11. QED
  BY <1>1, <1>7, <1>8, <1>9, <1>10 DEF Page, Same

-----------------------------------------------------------------------------
(* The steps of a page.                                                    *)

LEMMA ListStep ==
  ASSUME TypeOK, NEW p \in Pages, Page(p), List(p)
  PROVE  Page(p)'
<1>1. PICK rows \in InOrder(Listed(p)) :
        tape' = [tape EXCEPT ![p] = rows] /\ since' = [since EXCEPT ![p] = LastOr0(rows)]
  BY DEF List
<1>2. /\ Listed(p) \subseteq Retained /\ Listed(p) \subseteq Nat /\ IsFiniteSet(Listed(p))
      /\ Retained \subseteq Ids
  BY ListedRows, RetainedIds
<1>3. /\ rows \in Seq(Listed(p)) /\ IsAscending(rows)
      /\ \A i \in Listed(p) : \E n \in 1..Len(rows) : rows[n] = i
      /\ \A n \in 1..Len(rows) : rows[n] \in Listed(p)
  BY <1>1, <1>2, Rows
<1>4. /\ tape'[p] = rows /\ since'[p] = LastOr0(rows)
      /\ log' = log /\ trimmed' = trimmed /\ lastEvent' = lastEvent /\ batch' = batch
      /\ step[p] = "start" /\ step'[p] \in {"listed", "connecting"}
  BY <1>1 DEF List, TypeOK
<1>5. lastEvent[p] = 0 /\ batch[p] = <<>>
  BY <1>4 DEF Page, Places
<1>6. Shown(p)' = Listed(p)
  BY <1>3, <1>4 DEF Shown
<1>7. NoGap(p)'
  <2>1. SUFFICES ASSUME NEW i \in Retained, InScope(p, i), rows # <<>>, rows[1] < i
                 PROVE  i \in Listed(p)
    BY <1>4, <1>6 DEF NoGap, Retained, Ids, InScope
  <2>2. 1 \in 1..Len(rows) /\ rows[1] \in Listed(p)
    BY <1>3, <2>1
  <2>3. QED
    BY <2>1, <2>2, ListedRows
<1>8. Own(p)'
  BY <1>4, <1>6, ListedRows DEF Own, InScope
<1>9. Places(p)'
  BY <1>4, <1>5 DEF Places, Cursor
<1>10. QED
  BY <1>3, <1>4, <1>7, <1>8, <1>9 DEF Page, Sends

(* The page keeps its rows; its stream, if any, ends. *)
LEMMA QuietStep ==
  ASSUME TypeOK, NEW p \in Pages, Page(p), log' = log, trimmed' = trimmed,
         tape'[p] = tape[p], since'[p] = since[p], lastEvent'[p] = lastEvent[p],
         batch'[p] = <<>>, step'[p] \in {"connecting", "closed"}
  PROVE  Page(p)'
BY DEF Page, NoGap, Own, Places, Sends, Cursor, Shown, InScope, Retained, Ids

(* The page begins again, or is left without a snapshot. *)
LEMMA EmptyStep ==
  ASSUME TypeOK, NEW p \in Pages, tape'[p] = <<>>, since'[p] = 0, lastEvent'[p] = 0,
         batch'[p] = <<>>, step'[p] \in {"start", "closed"}
  PROVE  Page(p)'
<1>1. Shown(p)' = {}
  BY DEF Shown
<1>2. IsAscending(tape[p])'
  BY DEF IsAscending
<1>3. QED
  BY <1>1, <1>2 DEF Page, NoGap, Own, Places, Sends, Cursor, LastOr0

LEMMA ConnectStep ==
  ASSUME TypeOK, NEW p \in Pages, Page(p), Connect(p)
  PROVE  Page(p)'
<1>1. /\ log' = log /\ trimmed' = trimmed /\ tape' = tape /\ since' = since
      /\ lastEvent' = lastEvent /\ batch' = batch
      /\ step[p] = "connecting" /\ step'[p] = "open" /\ follow'[p] = Cursor(p)
  BY DEF Connect, TypeOK
<1>2. batch[p] = <<>> /\ Cursor(p)' = Cursor(p) /\ Cursor(p) \in Nat
  BY <1>1 DEF Page, Places, Cursor, TypeOK
<1>3. IsAscending(<<>>)
  BY DEF IsAscending
<1>4. \A i \in Retained' : i \in Nat
  BY <1>1, RetainedIds DEF Retained, Ids
<1>5. Sends(p)'
  BY <1>1, <1>2, <1>3, <1>4 DEF Sends
<1>6. QED
  BY <1>1, <1>2, <1>5 DEF Page, NoGap, Own, Places, Shown, InScope, Retained, Ids

LEMMA ReadStep ==
  ASSUME TypeOK, NEW p \in Pages, Page(p), Read(p)
  PROVE  Page(p)'
<1>1. PICK rows \in InOrder(Earliest(Ahead(p), Batch)) :
        /\ rows # <<>>
        /\ batch' = [batch EXCEPT ![p] = rows] /\ follow' = [follow EXCEPT ![p] = LastOr0(rows)]
  BY DEF Read
<1>2. DEFINE near == Earliest(Ahead(p), Batch)
<1>3. /\ near \subseteq Ahead(p) /\ Ahead(p) \subseteq Retained /\ Retained \subseteq Ids
      /\ near \subseteq Nat /\ Retained \subseteq Nat /\ IsFiniteSet(near)
  BY AheadRows, RetainedIds
<1>4. /\ rows \in Seq(near) /\ IsAscending(rows) /\ LastOr0(rows) \in near
      /\ \A i \in near : \E n \in 1..Len(rows) : rows[n] = i
      /\ \A n \in 1..Len(rows) : rows[n] \in near /\ rows[n] <= LastOr0(rows)
  BY <1>1, <1>3, Rows
<1>5. /\ log' = log /\ trimmed' = trimmed /\ tape' = tape /\ since' = since
      /\ lastEvent' = lastEvent /\ step' = step
      /\ step[p] = "open" /\ batch[p] = <<>>
      /\ batch'[p] = rows /\ follow'[p] = LastOr0(rows)
  BY <1>1 DEF Read, TypeOK
<1>6. Cursor(p)' = Cursor(p) /\ Cursor(p) \in Nat /\ follow[p] \in Nat /\ Cursor(p) <= follow[p]
  BY <1>5 DEF Page, Sends, Cursor, TypeOK
<1>7. \A i \in near : follow[p] < i /\ i \in Nat
  BY <1>3 DEF Ahead
<1>8. ASSUME NEW n \in 1..Len(rows) PROVE Cursor(p) < rows[n] /\ rows[n] <= LastOr0(rows)
  <2>1. rows[n] \in near /\ rows[n] <= LastOr0(rows)
    BY <1>4
  <2>2. follow[p] < rows[n] /\ rows[n] \in Nat
    BY <1>7, <2>1
  <2>3. QED
    BY <1>6, <2>1, <2>2
<1>9. Cursor(p) <= LastOr0(rows)
  <2>1. follow[p] < LastOr0(rows) /\ LastOr0(rows) \in Nat
    BY <1>4, <1>7
  <2>2. QED
    BY <1>6, <2>1
<1>10. ASSUME NEW i \in Retained, InScope(p, i), Cursor(p) < i, i <= LastOr0(rows)
       PROVE  \E n \in 1..Len(rows) : rows[n] = i
  <2>1. i > follow[p]
    <3>1. SUFFICES ASSUME i <= follow[p] PROVE FALSE
      BY <1>3, <1>6
    <3>2. \E n \in 1..Len(batch[p]) : batch[p][n] = i
      BY <1>5, <1>10, <3>1 DEF Page, Sends
    <3>3. QED
      BY <1>5, <3>2
  <2>2. i \in Ahead(p)
    BY <2>1 DEF Ahead
  <2>3. i \in near
    <3>1. CASE i = LastOr0(rows)
      BY <1>4, <3>1
    <3>2. CASE i < LastOr0(rows)
      BY <1>4, <2>2, <3>2, AheadRows
    <3>3. QED
      BY <1>3, <1>4, <1>7, <1>10, <3>1, <3>2
  <2>4. QED
    BY <1>4, <2>3
<1>11. Sends(p)'
  BY <1>4, <1>5, <1>6, <1>8, <1>9, <1>10 DEF Sends, Retained, Ids, InScope
<1>12. QED
  BY <1>5, <1>6, <1>11 DEF Page, NoGap, Own, Places, Shown, InScope, Retained, Ids

(* The rest of the batch is what it was. *)
LEMMA RestOfBatch ==
  ASSUME TypeOK, NEW p \in Pages, Page(p), step[p] = "open", batch[p] # <<>>
  PROVE  /\ IsAscending(Tail(batch[p]))
         /\ \A n \in 1..Len(Tail(batch[p])) :
              /\ Head(batch[p]) < Tail(batch[p])[n]
              /\ Cursor(p) < Tail(batch[p])[n] /\ Tail(batch[p])[n] <= follow[p]
         /\ \A n \in 1..Len(batch[p]) : batch[p][n] # Head(batch[p]) =>
              \E m \in 1..Len(Tail(batch[p])) : Tail(batch[p])[m] = batch[p][n]
<1>1. /\ Head(batch[p]) = batch[p][1] /\ Len(batch[p]) \in Nat \ {0}
      /\ Len(Tail(batch[p])) = Len(batch[p]) - 1
      /\ \A n \in 1..Len(Tail(batch[p])) :
           n + 1 \in 1..Len(batch[p]) /\ Tail(batch[p])[n] = batch[p][n + 1]
  BY BatchRows
<1>2. /\ \A i, j \in 1..Len(batch[p]) : i < j => batch[p][i] < batch[p][j]
      /\ \A n \in 1..Len(batch[p]) : Cursor(p) < batch[p][n] /\ batch[p][n] <= follow[p]
  BY DEF Page, Sends, IsAscending
<1>3. IsAscending(Tail(batch[p]))
  <2>1. SUFFICES ASSUME NEW i \in 1..Len(Tail(batch[p])), NEW j \in 1..Len(Tail(batch[p])), i < j
                 PROVE  Tail(batch[p])[i] < Tail(batch[p])[j]
    BY DEF IsAscending
  <2>2. i + 1 < j + 1
    BY <1>1, <2>1
  <2>3. QED
    BY <1>1, <1>2, <2>2
<1>4. ASSUME NEW n \in 1..Len(Tail(batch[p]))
      PROVE  /\ Head(batch[p]) < Tail(batch[p])[n]
             /\ Cursor(p) < Tail(batch[p])[n] /\ Tail(batch[p])[n] <= follow[p]
  <2>1. 1 \in 1..Len(batch[p]) /\ n + 1 \in 1..Len(batch[p]) /\ 1 < n + 1
    BY <1>1
  <2>2. QED
    BY <1>1, <1>2, <2>1
<1>5. ASSUME NEW n \in 1..Len(batch[p]), batch[p][n] # Head(batch[p])
      PROVE  \E m \in 1..Len(Tail(batch[p])) : Tail(batch[p])[m] = batch[p][n]
  <2>1. n # 1 /\ n \in Nat /\ n - 1 \in 1..Len(Tail(batch[p]))
    BY <1>1, <1>5
  <2>2. Tail(batch[p])[n - 1] = batch[p][n]
    BY <1>1, <2>1
  <2>3. QED
    BY <2>1, <2>2
<1>6. QED
  BY <1>3, <1>4, <1>5

LEMMA SkipStep ==
  ASSUME TypeOK, NEW p \in Pages, Page(p), Skip(p)
  PROVE  Page(p)'
<1>1. /\ log' = log /\ trimmed' = trimmed /\ tape' = tape /\ since' = since
      /\ lastEvent' = lastEvent /\ step' = step /\ follow' = follow
      /\ step[p] = "open" /\ batch[p] # <<>> /\ ~InScope(p, Head(batch[p]))
      /\ batch'[p] = Tail(batch[p])
  BY DEF Skip, TypeOK
<1>2. Cursor(p)' = Cursor(p)
  BY <1>1 DEF Cursor
<1>3. ASSUME NEW i \in Retained, InScope(p, i), Cursor(p) < i, i <= follow[p]
      PROVE  \E n \in 1..Len(Tail(batch[p])) : Tail(batch[p])[n] = i
  <2>1. PICK n \in 1..Len(batch[p]) : batch[p][n] = i
    BY <1>1, <1>3 DEF Page, Sends
  <2>2. batch[p][n] # Head(batch[p])
    BY <1>1, <1>3, <2>1
  <2>3. QED
    BY <1>1, <2>1, <2>2, RestOfBatch
<1>4. Sends(p)'
  BY <1>1, <1>2, <1>3, RestOfBatch DEF Page, Sends, Retained, Ids, InScope
<1>5. QED
  BY <1>1, <1>2, <1>4 DEF Page, NoGap, Own, Places, Shown, InScope, Retained, Ids

LEMMA DeliverStep ==
  ASSUME TypeOK, NEW p \in Pages, Page(p), Deliver(p)
  PROVE  Page(p)'
<1> DEFINE row == Head(batch[p])
<1>1. /\ log' = log /\ trimmed' = trimmed /\ since' = since
      /\ step' = step /\ follow' = follow
      /\ step[p] = "open" /\ batch[p] # <<>> /\ InScope(p, row)
      /\ batch'[p] = Tail(batch[p]) /\ tape'[p] = Append(tape[p], row)
      /\ lastEvent'[p] = row
  BY DEF Deliver, TypeOK
<1>2. row \in Ids /\ row \in Nat /\ row # 0 /\ Ids \subseteq Nat
  BY <1>1, BatchRows, RetainedIds
<1>3. Cursor(p)' = row
  BY <1>1, <1>2 DEF Cursor
<1>4. Cursor(p) = LastOr0(tape[p]) /\ Cursor(p) < row /\ row <= follow[p]
      /\ Cursor(p) \in Nat /\ follow[p] \in Nat
  <2>1. 1 \in 1..Len(batch[p]) /\ row = batch[p][1]
    BY <1>1, BatchRows
  <2>2. QED
    BY <1>1, <2>1 DEF Page, Places, Sends, Cursor, TypeOK
<1>5. /\ tape[p] \in Seq(Ids) /\ Len(tape[p]) \in Nat
      /\ tape'[p] \in Seq(Ids) /\ Len(tape'[p]) = Len(tape[p]) + 1
      /\ tape'[p][Len(tape[p]) + 1] = row
      /\ \A n \in 1..Len(tape[p]) : tape'[p][n] = tape[p][n]
      /\ tape'[p] # <<>>
  BY <1>1, <1>2, TapeRows
<1>6. LastOr0(tape'[p]) = row
  BY <1>5 DEF LastOr0
<1>7. ASSUME NEW n \in 1..Len(tape[p]) PROVE tape[p][n] < row
  <2>1. Len(tape[p]) \in 1..Len(tape[p]) /\ tape[p] # <<>>
    <3>1. Len(tape[p]) # 0
      BY <1>5, <1>7
    <3>2. QED
      BY <1>5, <3>1
  <2>2. tape[p][n] \in Nat /\ LastOr0(tape[p]) \in Nat
        /\ LastOr0(tape[p]) = tape[p][Len(tape[p])]
    <3>1. tape[p][n] \in Ids /\ tape[p][Len(tape[p])] \in Ids
      BY <1>5, <1>7, <2>1
    <3>2. QED
      BY <1>2, <2>1, <3>1 DEF LastOr0
  <2>3. n = Len(tape[p]) \/ tape[p][n] < tape[p][Len(tape[p])]
    BY <1>5, <2>1 DEF Page, IsAscending
  <2>4. QED
    BY <1>2, <1>4, <2>2, <2>3
<1>8. IsAscending(tape'[p])
  <2>1. SUFFICES ASSUME NEW i \in 1..Len(tape'[p]), NEW j \in 1..Len(tape'[p]), i < j
                 PROVE  tape'[p][i] < tape'[p][j]
    BY DEF IsAscending
  <2>2. i \in 1..Len(tape[p]) /\ (j \in 1..Len(tape[p]) \/ j = Len(tape[p]) + 1)
    BY <1>5, <2>1
  <2>3. QED
    BY <1>5, <1>7, <2>1, <2>2 DEF Page, IsAscending
<1>9. Shown(p)' = Shown(p) \cup {row}
  <2>1. 1..Len(tape'[p]) = 1..Len(tape[p]) \cup {Len(tape[p]) + 1}
    BY <1>5
  <2>2. QED
    BY <1>5, <2>1 DEF Shown
<1>10. NoGap(p)'
  <2>1. SUFFICES ASSUME NEW i \in Retained, InScope(p, i), tape'[p][1] < i, i < row
                 PROVE  i \in Shown(p)
    BY <1>1, <1>6, <1>9 DEF NoGap, InScope, Retained, Ids
  <2>2. i \in Nat /\ i <= follow[p]
    <3>1. i \in Nat
      BY <1>2, RetainedIds
    <3>2. QED
      BY <1>2, <1>4, <2>1, <3>1
  <2>3. tape[p] # <<>> /\ tape[p][1] < i
    <3>1. SUFFICES ASSUME tape[p] = <<>> PROVE FALSE
      BY <1>5, <2>1, TapeRows
    <3>2. tape'[p][1] = row
      BY <1>5, <3>1
    <3>3. QED
      BY <1>2, <2>1, <2>2, <3>2
  <2>4. CASE i < Cursor(p)
    BY <1>4, <2>1, <2>3, <2>4 DEF Page, NoGap
  <2>5. CASE i = Cursor(p)
    BY <1>4, <2>3, <2>5, TapeRows DEF Shown
  <2>6. CASE Cursor(p) < i
    <3>1. PICK n \in 1..Len(batch[p]) : batch[p][n] = i
      BY <1>1, <2>1, <2>2, <2>6 DEF Page, Sends
    <3>2. batch[p][n] # row
      BY <1>2, <2>1, <2>2, <3>1
    <3>3. PICK m \in 1..Len(Tail(batch[p])) : Tail(batch[p])[m] = i
      BY <1>1, <3>1, <3>2, RestOfBatch
    <3>4. row < i
      BY <1>1, <3>3, RestOfBatch
    <3>5. QED
      BY <1>2, <2>1, <2>2, <3>4
  <2>7. QED
    BY <1>4, <2>2, <2>4, <2>5, <2>6
<1>11. Own(p)'
  BY <1>1, <1>9 DEF Page, Own, InScope
<1>12. Places(p)'
  BY <1>1, <1>3, <1>6 DEF Places
<1>13. Sends(p)'
  <2>1. ASSUME NEW i \in Retained, InScope(p, i), row < i, i <= follow[p]
        PROVE  \E n \in 1..Len(Tail(batch[p])) : Tail(batch[p])[n] = i
    <3>1. i \in Nat /\ Cursor(p) < i /\ i # row
      <4>1. i \in Nat
        BY <1>2, RetainedIds
      <4>2. QED
        BY <1>2, <1>4, <2>1, <4>1
    <3>2. PICK n \in 1..Len(batch[p]) : batch[p][n] = i
      BY <1>1, <2>1, <3>1 DEF Page, Sends
    <3>3. QED
      BY <1>1, <3>1, <3>2, RestOfBatch
  <2>2. QED
    BY <1>1, <1>3, <1>4, <2>1, RestOfBatch DEF Sends, Retained, Ids, InScope
<1>14. QED
  BY <1>8, <1>10, <1>11, <1>12, <1>13 DEF Page

-----------------------------------------------------------------------------
(* The theorems.                                                           *)

(* What one page may do. *)
Acts(p) == Proceeds(p) \/ SnapshotLost(p) \/ Lose(p) \/ Load(p)

LEMMA PageStep ==
  ASSUME TypeOK, NEW p \in Pages, Page(p), Acts(p)
  PROVE  Page(p)'
<1>1. CASE Count(p) \/ Refuse(p) \/ Broken(p) \/ Lose(p)
  <2>1. /\ log' = log /\ trimmed' = trimmed /\ tape' = tape /\ since' = since
        /\ lastEvent' = lastEvent /\ step'[p] \in {"connecting", "closed"}
        /\ batch'[p] = <<>> \/ (batch' = batch /\ (step[p] # "open" \/ batch[p] = <<>>))
    BY <1>1 DEF Count, Refuse, Broken, Lose, TypeOK
  <2>2. batch'[p] = <<>>
    BY <2>1 DEF Page, Places
  <2>3. QED
    BY <2>1, <2>2, QuietStep
<1>2. CASE SnapshotRefused(p) \/ SnapshotLost(p)
  <2>1. /\ step[p] \in {"start", "listed"} /\ tape'[p] = <<>> /\ since'[p] = 0
        /\ lastEvent' = lastEvent /\ batch' = batch /\ step'[p] \in {"start", "closed"}
    BY <1>2 DEF SnapshotRefused, SnapshotLost, NoSnapshot, TypeOK
  <2>2. lastEvent[p] = 0 /\ batch[p] = <<>>
    BY <2>1 DEF Page, Places
  <2>3. QED
    BY <2>1, <2>2, EmptyStep
<1>3. CASE Load(p)
  <2>1. /\ tape'[p] = <<>> /\ since'[p] = 0 /\ lastEvent'[p] = 0
        /\ batch'[p] = <<>> /\ step'[p] = "start"
    BY <1>3 DEF Load, TypeOK
  <2>2. QED
    BY <2>1, EmptyStep
<1>4. QED
  BY <1>1, <1>2, <1>3, ListStep, ConnectStep, ReadStep, SkipStep, DeliverStep
  DEF Acts, Proceeds, Snapshot

LEMMA OthersSame ==
  ASSUME TypeOK, NEW p \in Pages, Acts(p), NEW q \in Pages, q # p
  PROVE  Same(q) /\ log' = log /\ trimmed' = trimmed
<1>1. CASE List(p) \/ Count(p) \/ Connect(p) \/ Refuse(p)
  BY <1>1 DEF List, Count, Connect, Refuse, Same, TypeOK
<1>2. CASE SnapshotRefused(p) \/ SnapshotLost(p)
  BY <1>2 DEF SnapshotRefused, SnapshotLost, NoSnapshot, Same, TypeOK
<1>3. CASE Read(p) \/ Skip(p) \/ Deliver(p)
  BY <1>3 DEF Read, Skip, Deliver, Same, TypeOK
<1>4. CASE Broken(p) \/ Lose(p) \/ Load(p)
  BY <1>4 DEF Broken, Lose, Load, Same, TypeOK
<1>5. QED
  BY <1>1, <1>2, <1>3, <1>4 DEF Acts, Proceeds, Snapshot

LEMMA FeedInit == Init => FeedInvariant
<1> SUFFICES ASSUME Init, NEW p \in Pages PROVE Page(p)
  BY EachPage
<1>1. /\ tape[p] = <<>> /\ batch[p] = <<>> /\ since[p] = 0 /\ lastEvent[p] = 0
      /\ step[p] = "start"
  BY DEF Init
<1>2. Shown(p) = {} /\ IsAscending(tape[p])
  BY <1>1 DEF Shown, IsAscending
<1>3. QED
  BY <1>1, <1>2 DEF Page, NoGap, Own, Places, Sends, Cursor, LastOr0

LEMMA FeedStep == TypeOK /\ FeedInvariant /\ [Next]_vars => FeedInvariant'
<1> SUFFICES ASSUME TypeOK, FeedInvariant, [Next]_vars, NEW q \in Pages PROVE Page(q)'
  BY EachPage
<1>1. Page(q)
  BY EachPage
<1>2. ASSUME NEW p \in Pages, Acts(p) PROVE Page(q)'
  BY <1>1, <1>2, PageStep, OthersSame, SameLog
<1>3. CASE Stop \/ Resume \/ UNCHANGED vars
  <2>1. Same(q) /\ log' = log /\ trimmed' = trimmed
    BY <1>3 DEF Stop, Resume, vars, Same
  <2>2. QED
    BY <1>1, <2>1, SameLog
<1>4. QED
  BY <1>1, <1>2, <1>3, LogStep DEF Next, Acts

LEMMA AlwaysFeed == Spec => [](TypeOK /\ FeedInvariant)
<1>1. TypeOK /\ FeedInvariant /\ [Next]_vars => (TypeOK /\ FeedInvariant)'
  BY TypeStep, FeedStep
<1>2. QED
  BY <1>1, TypeInit, FeedInit, PTL DEF Spec

(* A page goes through the log in its order, without a repetition, without *)
(* a gap that trimming has not made, and within its session.               *)
THEOREM FeedIsCorrect == Spec => []FeedInvariant
BY AlwaysFeed, PTL

(* However many connections break, no entry is shown twice or late.        *)
THEOREM TapesAscend == Spec => []TapeAscends
<1>1. FeedInvariant => TapeAscends
  BY DEF FeedInvariant
<1>2. QED
  BY <1>1, AlwaysFeed, PTL

(* A page misses only what the log has dropped.                            *)
THEOREM NothingElseIsMissed == Spec => []OnlyTrimmedIsMissed
<1>1. FeedInvariant => OnlyTrimmedIsMissed
  BY DEF FeedInvariant
<1>2. QED
  BY <1>1, AlwaysFeed, PTL

-----------------------------------------------------------------------------
(* Counters.                                                               *)

Counted(p) == {i \in Ids : i <= since[p] \/ i \in Shown(p)}

(* Entries of a kind, counted. *)
LEMMA KindCount ==
  ASSUME TypeOK, NEW S, S \subseteq Ids, NEW k
  PROVE  /\ IsFiniteSet(OfKind(S, k)) /\ Cardinality(OfKind(S, k)) \in Nat
         /\ Cardinality(OfKind(S, k)) <= Cardinality(OfKind(Ids, k))
         /\ Cardinality(OfKind(Ids, k)) \in Nat
<1>1. IsFiniteSet(Ids)
  BY RetainedIds, FS_Interval DEF Ids
<1>2. OfKind(S, k) \subseteq OfKind(Ids, k) /\ OfKind(Ids, k) \subseteq Ids
  BY DEF OfKind
<1>3. IsFiniteSet(OfKind(Ids, k)) /\ IsFiniteSet(OfKind(S, k))
  BY <1>1, <1>2, FS_Subset
<1>4. QED
  BY <1>2, <1>3, FS_Subset, FS_CardinalityType

(* A step that changes neither the log nor what a room counted. *)
LEMMA CountsKept ==
  ASSUME TypeOK, CountInv, UNCHANGED <<log, counts>>,
         \A p \in Rooms : step'[p] \in {"connecting", "open"} =>
           /\ step[p] \in {"connecting", "open"}
           /\ tape'[p] = tape[p] /\ since'[p] = since[p] /\ metrics'[p] = metrics[p]
  PROVE  CountInv'
<1>1. \A k \in Kinds : counts'[k] = Cardinality(OfKind(Ids, k)')
  BY DEF CountInv, OfKind, Ids
<1>2. ASSUME NEW p \in Rooms, step'[p] \in {"connecting", "open"}, NEW k \in Kinds
      PROVE  Cardinality(OfKind(Counted(p), k)') <= metrics'[p][k]
  <2>1. OfKind(Counted(p), k)' = OfKind(Counted(p), k)
    BY <1>2 DEF OfKind, Counted, Shown, Ids
  <2>2. QED
    BY <1>2, <2>1 DEF CountInv, Counted
<1>3. QED
  BY <1>1, <1>2 DEF CountInv, Counted

LEMMA CountsRecorded ==
  ASSUME TypeOK, CountInv, NEW e \in Traffic, Record(e)
  PROVE  CountInv'
<1> DEFINE new == Len(log) + 1
<1>1. /\ log' = Append(log, e) /\ counts' = [counts EXCEPT ![e.kind] = @ + 1]
      /\ UNCHANGED <<step, tape, since, metrics>>
      /\ e.kind \in Kinds
  BY FeedAssumption DEF Record
<1>2. /\ Len(log) \in Nat /\ Ids' = Ids \cup {new} /\ new \notin Ids
      /\ log'[new] = e /\ \A i \in Ids : log'[i] = log[i]
  BY <1>1 DEF TypeOK, Ids
<1>3. ASSUME NEW k \in Kinds PROVE counts'[k] = Cardinality(OfKind(Ids, k)')
  <2>1. /\ IsFiniteSet(OfKind(Ids, k)) /\ new \notin OfKind(Ids, k)
        /\ counts[k] = Cardinality(OfKind(Ids, k))
    BY <1>2, KindCount DEF CountInv, OfKind
  <2>2. CASE e.kind = k
    <3>1. OfKind(Ids, k)' = OfKind(Ids, k) \cup {new}
      BY <1>2, <2>2 DEF OfKind
    <3>2. counts'[k] = counts[k] + 1
      BY <1>1, <2>2 DEF TypeOK
    <3>3. QED
      BY <2>1, <3>1, <3>2, FS_AddElement
  <2>3. CASE e.kind # k
    <3>1. OfKind(Ids, k)' = OfKind(Ids, k)
      BY <1>2, <2>3 DEF OfKind
    <3>2. QED
      BY <1>1, <2>1, <2>3, <3>1 DEF TypeOK
  <2>4. QED
    BY <2>2, <2>3
<1>4. ASSUME NEW p \in Rooms, step'[p] \in {"connecting", "open"}, NEW k \in Kinds
      PROVE  Cardinality(OfKind(Counted(p), k)') <= metrics'[p][k]
  <2>1. p \in Pages /\ tape[p] \in Seq(Ids) /\ since[p] \in 0..Len(log)
    BY DEF TypeOK, Pages
  <2>2. Shown(p)' = Shown(p) /\ Shown(p) \subseteq Ids
    BY <1>1, <2>1 DEF Shown
  <2>3. since[p] < new
    BY <1>2, <2>1
  <2>4. Counted(p)' = Counted(p)
    BY <1>1, <1>2, <2>1, <2>2, <2>3 DEF Counted
  <2>5. OfKind(Counted(p), k)' = OfKind(Counted(p), k)
    BY <1>2, <2>4 DEF OfKind, Counted
  <2>6. QED
    BY <1>1, <1>4, <2>5 DEF CountInv, Counted
<1>5. QED
  BY <1>3, <1>4 DEF CountInv, Counted

LEMMA CountsRead ==
  ASSUME TypeOK, CountInv, NEW p \in Pages, Count(p)
  PROVE  CountInv'
<1>1. /\ UNCHANGED <<log, counts, tape, since>>
      /\ metrics'[p] = counts
      /\ \A q \in Pages \ {p} : step'[q] = step[q] /\ metrics'[q] = metrics[q]
  BY DEF Count, TypeOK
<1>2. \A q \in Pages, k \in Kinds : OfKind(Counted(q), k)' = OfKind(Counted(q), k)
  BY <1>1 DEF OfKind, Counted, Shown, Ids
<1>3. \A k \in Kinds : Cardinality(OfKind(Counted(p), k)) <= counts[k]
  BY KindCount DEF CountInv, Counted
<1>4. ASSUME NEW q \in Rooms, step'[q] \in {"connecting", "open"}, NEW k \in Kinds
      PROVE  Cardinality(OfKind(Counted(q), k)') <= metrics'[q][k]
  <2>1. q \in Pages
    BY DEF Pages
  <2>2. CASE q = p
    BY <1>1, <1>2, <1>3, <2>1, <2>2
  <2>3. CASE q # p
    BY <1>1, <1>2, <1>4, <2>1, <2>3 DEF CountInv, Counted
  <2>4. QED
    BY <2>2, <2>3
<1>5. \A k \in Kinds : counts'[k] = Cardinality(OfKind(Ids, k)')
  BY <1>1 DEF CountInv, OfKind, Ids
<1>6. QED
  BY <1>4, <1>5 DEF CountInv, Counted

LEMMA CountsDelivered ==
  ASSUME TypeOK, CountInv, NEW p \in Pages, Deliver(p)
  PROVE  CountInv'
<1> DEFINE row == Head(batch[p])
<1>1. /\ UNCHANGED <<log, counts, since, step>>
      /\ tape'[p] = Append(tape[p], row)
      /\ \A q \in Pages \ {p} : tape'[q] = tape[q] /\ metrics'[q] = metrics[q]
  BY DEF Deliver, TypeOK
<1>2. row \in Ids /\ tape[p] \in Seq(Ids)
  BY BatchRows DEF Deliver, TypeOK
<1>3. Counted(p)' = Counted(p) \cup {row}
  <2>1. Shown(p)' = Shown(p) \cup {row}
    <3>1. /\ Len(tape[p]) \in Nat /\ Len(tape'[p]) = Len(tape[p]) + 1
          /\ tape'[p][Len(tape[p]) + 1] = row
          /\ \A n \in 1..Len(tape[p]) : tape'[p][n] = tape[p][n]
      BY <1>1, <1>2
    <3>2. 1..Len(tape'[p]) = 1..Len(tape[p]) \cup {Len(tape[p]) + 1}
      BY <3>1
    <3>3. QED
      BY <3>1, <3>2 DEF Shown
  <2>2. QED
    BY <1>1, <1>2, <2>1 DEF Counted, Ids
<1>4. ASSUME NEW q \in Rooms, step'[q] \in {"connecting", "open"}, NEW k \in Kinds
      PROVE  Cardinality(OfKind(Counted(q), k)') <= metrics'[q][k]
  <2>1. q \in Pages
    BY DEF Pages
  <2>2. /\ Cardinality(OfKind(Counted(q), k)) <= metrics[q][k]
        /\ Counted(q) \subseteq Ids
    BY <1>1, <1>4 DEF CountInv, Counted
  <2>3. CASE q # p
    <3>1. OfKind(Counted(q), k)' = OfKind(Counted(q), k)
      BY <1>1, <2>1, <2>3 DEF OfKind, Counted, Shown, Ids
    <3>2. QED
      BY <1>1, <2>1, <2>2, <2>3, <3>1
  <2>4. CASE q = p /\ log[row].kind # k
    <3>1. OfKind(Counted(p), k)' = OfKind(Counted(p), k)
      BY <1>1, <1>3, <2>4 DEF OfKind
    <3>2. metrics'[p][k] = metrics[p][k]
      BY <2>4 DEF Deliver, TypeOK
    <3>3. QED
      BY <2>2, <2>4, <3>1, <3>2
  <2>5. CASE q = p /\ log[row].kind = k
    <3>1. OfKind(Counted(p), k)' = OfKind(Counted(p), k) \cup {row}
      BY <1>1, <1>3, <2>5 DEF OfKind
    <3>2. metrics[p][k] \in Nat /\ metrics'[p][k] = metrics[p][k] + 1
      BY <2>5 DEF Deliver, TypeOK
    <3>3. /\ IsFiniteSet(OfKind(Counted(p), k))
          /\ Cardinality(OfKind(Counted(p), k)) \in Nat
      BY <2>2, <2>5, KindCount
    <3>4. \/ Cardinality(OfKind(Counted(p), k) \cup {row}) = Cardinality(OfKind(Counted(p), k))
          \/ Cardinality(OfKind(Counted(p), k) \cup {row}) = Cardinality(OfKind(Counted(p), k)) + 1
      BY <3>3, FS_AddElement
    <3>5. QED
      BY <2>2, <2>5, <3>1, <3>2, <3>3, <3>4
  <2>6. QED
    BY <2>3, <2>4, <2>5
<1>5. \A k \in Kinds : counts'[k] = Cardinality(OfKind(Ids, k)')
  BY <1>1 DEF CountInv, OfKind, Ids
<1>6. QED
  BY <1>4, <1>5 DEF CountInv, Counted

LEMMA CountsInit == Init => CountInv
<1> SUFFICES ASSUME Init PROVE CountInv
  OBVIOUS
<1>1. \A k \in Kinds : OfKind(Ids, k) = {} /\ counts[k] = 0
  BY DEF Init, OfKind, Ids, NoCounts
<1>2. \A p \in Rooms : step[p] = "start"
  BY DEF Init, Pages
<1>3. QED
  BY <1>1, <1>2, FS_EmptySet DEF CountInv

LEMMA CountsStep == TypeOK /\ CountInv /\ [Next]_vars => CountInv'
<1> SUFFICES ASSUME TypeOK, CountInv, [Next]_vars PROVE CountInv'
  OBVIOUS
<1>1. CASE Stop \/ Resume \/ UNCHANGED vars
  BY <1>1, CountsKept DEF Stop, Resume, vars
<1>2. ASSUME NEW p \in Pages, List(p) PROVE CountInv'
  <2>1. /\ UNCHANGED <<log, counts, metrics>> /\ (p \in Rooms => step'[p] = "listed")
        /\ \A q \in Pages \ {p} : /\ step'[q] = step[q] /\ tape'[q] = tape[q]
                                 /\ since'[q] = since[q]
    BY <1>2 DEF List, TypeOK
  <2>2. QED
    BY <2>1, CountsKept DEF Pages
<1>3. ASSUME NEW p \in Pages, SnapshotRefused(p) \/ SnapshotLost(p) PROVE CountInv'
  <2>1. /\ UNCHANGED <<log, counts, metrics>> /\ step'[p] \in {"start", "closed"}
        /\ \A q \in Pages \ {p} : /\ step'[q] = step[q] /\ tape'[q] = tape[q]
                                 /\ since'[q] = since[q]
    BY <1>3 DEF SnapshotRefused, SnapshotLost, NoSnapshot, TypeOK
  <2>2. QED
    BY <2>1, CountsKept DEF Pages
<1>4. ASSUME NEW p \in Pages,
             Connect(p) \/ Refuse(p) \/ Read(p) \/ Skip(p) \/ Broken(p) \/ Lose(p)
      PROVE  CountInv'
  <2>1. UNCHANGED <<log, counts, metrics, tape, since>>
    BY <1>4 DEF Connect, Refuse, Read, Skip, Broken, Lose
  <2>2. \A q \in Pages : step'[q] \in {"connecting", "open"} =>
                           step[q] \in {"connecting", "open"}
    BY <1>4 DEF Connect, Refuse, Read, Skip, Broken, Lose, TypeOK
  <2>3. QED
    BY <2>1, <2>2, CountsKept DEF Pages
<1>5. ASSUME NEW p \in Pages, Load(p) PROVE CountInv'
  <2>1. /\ UNCHANGED <<log, counts>> /\ step'[p] = "start"
        /\ \A q \in Pages \ {p} : /\ step'[q] = step[q] /\ tape'[q] = tape[q]
                                 /\ since'[q] = since[q] /\ metrics'[q] = metrics[q]
    BY <1>5 DEF Load, TypeOK
  <2>2. QED
    BY <2>1, CountsKept DEF Pages
<1>6. QED
  BY <1>1, <1>2, <1>3, <1>4, <1>5, CountsRecorded, CountsRead, CountsDelivered
  DEF Next, Proceeds, Snapshot

LEMMA CountsCover == TypeOK /\ CountInv => CountersCoverTape
<1> SUFFICES ASSUME TypeOK, CountInv,
                    NEW p \in Rooms, step[p] \in {"connecting", "open"}, NEW k \in Kinds
             PROVE  metrics[p][k] >= Cardinality(OfKind(
                      {i \in Ids : i <= Cursor(p)} \ {i \in Ids : i > since[p] /\ i \notin Shown(p)}, k))
  BY DEF CountersCoverTape
<1> DEFINE seen == {i \in Ids : i <= Cursor(p)} \ {i \in Ids : i > since[p] /\ i \notin Shown(p)}
<1>1. p \in Pages /\ since[p] \in Nat /\ Ids \subseteq Nat /\ metrics[p][k] \in Nat
  BY RetainedIds DEF TypeOK, Pages
<1>2. seen \subseteq Counted(p) /\ seen \subseteq Ids /\ Counted(p) \subseteq Ids
  <2>1. ASSUME NEW i \in seen PROVE i \in Counted(p)
    <3>1. i \in Ids /\ ~(i > since[p] /\ i \notin Shown(p))
      BY <2>1
    <3>2. i \in Nat
      BY <1>1, <3>1
    <3>3. QED
      BY <1>1, <3>1, <3>2 DEF Counted
  <2>2. QED
    BY <2>1 DEF Counted
<1>3. OfKind(seen, k) \subseteq OfKind(Counted(p), k)
  BY <1>2 DEF OfKind
<1> HIDE DEF seen
<1>4. /\ IsFiniteSet(OfKind(Counted(p), k))
      /\ Cardinality(OfKind(Counted(p), k)) \in Nat /\ Cardinality(OfKind(seen, k)) \in Nat
  BY <1>2, KindCount
<1>5. Cardinality(OfKind(seen, k)) <= Cardinality(OfKind(Counted(p), k))
  BY <1>3, <1>4, FS_Subset
<1>6. Cardinality(OfKind(Counted(p), k)) <= metrics[p][k]
  BY DEF CountInv, Counted
<1>7. Cardinality(OfKind(seen, k)) <= metrics[p][k]
  BY <1>1, <1>4, <1>5, <1>6
<1>8. QED
  BY <1>1, <1>4, <1>7 DEF seen

(* The counters a room shows are never behind its tape, although they are  *)
(* read after the rows and counted on by the page, except for entries the  *)
(* room has missed.                                                        *)
THEOREM CountersCover == Spec => []CountersCoverTape
<1>1. Init => TypeOK /\ CountInv
  BY TypeInit, CountsInit
<1>2. TypeOK /\ CountInv /\ [Next]_vars => (TypeOK /\ CountInv)'
  BY TypeStep, CountsStep
<1>3. TypeOK /\ CountInv => CountersCoverTape
  BY CountsCover
<1>4. QED
  BY <1>1, <1>2, <1>3, PTL DEF Spec
=============================================================================

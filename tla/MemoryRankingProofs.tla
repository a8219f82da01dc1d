------------------------ MODULE MemoryRankingProofs -------------------------
(***************************************************************************)
(* For any artifacts, pages, sessions, events and sizes of the stores: the *)
(* index of impressions is exact under eviction, rewards meet decisions    *)
(* that were displayed, no event is applied twice within the horizon, and  *)
(* every list of candidates is one that the ranking accepts.               *)
(***************************************************************************)
EXTENDS MemoryRanking, FiniteSetTheorems, TLAPS

LEMMA Sizes == MaxImpressions \in Nat \ {0} /\ Horizon \in Nat \ {0}
BY MemoryAssumption

-----------------------------------------------------------------------------
(* A bounded store that takes one more entry.                              *)
LEMMA NewestOfAppended ==
  ASSUME NEW S, NEW s \in Seq(S), NEW x \in S, NEW n \in Nat \ {0}, Len(s) =< n
  PROVE  LET t == Newest(Append(s, x), n)
             d == IF Len(s) = n THEN 1 ELSE 0
         IN  /\ t \in Seq(S)
             /\ Len(t) = Len(s) + 1 - d /\ Len(t) \in 1..n
             /\ t[Len(t)] = x
             /\ \A i \in 1..(Len(t) - 1) : t[i] = s[i + d]
<1> DEFINE a == Append(s, x)
<1>1. /\ a \in Seq(S) /\ Len(a) = Len(s) + 1 /\ a[Len(s) + 1] = x
      /\ \A i \in 1..Len(s) : a[i] = s[i]
  OBVIOUS
<1>2. CASE Len(s) = n
  <2>1. Newest(a, n) = SubSeq(a, 2, n + 1)
    BY <1>1, <1>2 DEF Newest
  <2>2. /\ SubSeq(a, 2, n + 1) \in Seq(S) /\ Len(SubSeq(a, 2, n + 1)) = n
        /\ \A i \in 1..n : SubSeq(a, 2, n + 1)[i] = a[i + 1]
    BY <1>1, <1>2
  <2>3. QED
    BY <1>1, <1>2, <2>1, <2>2
<1>3. CASE Len(s) # n
  <2>1. Newest(a, n) = a
    BY <1>1, <1>3 DEF Newest
  <2>2. QED
    BY <1>1, <1>3, <2>1
<1>4. QED
  BY <1>2, <1>3

-----------------------------------------------------------------------------
(* The impressions of the running server, oldest first.                    *)
StoreInv ==
  /\ sequence \in Nat
  /\ items \in Seq(ToSet(items)) /\ Len(items) \in 0..MaxImpressions
  /\ \A i \in 1..Len(items) : items[i].id \in 1..sequence
  /\ \A i, j \in 1..Len(items) : i < j => items[i].id < items[j].id

(* What pages know of them, and of earlier servers. *)
PageInv ==
  /\ boot \in Nat
  /\ \A page \in pages : /\ page.boot \in 0..boot
                         /\ page.boot = boot => page.id \in 1..sequence
  /\ \A p, q \in pages : p.boot = q.boot /\ p.id = q.id => p.products = q.products
  /\ \A i \in 1..Len(items) :
       \E page \in pages : /\ page.boot = boot /\ page.id = items[i].id
                           /\ page.session = items[i].session
                           /\ page.products = items[i].products

EventInv ==
  /\ DOMAIN events = EventIds
  /\ \A e \in EventIds : events[e] # None /\ events[e].page # None => events[e].page \in pages
  /\ \A lesson \in lessons : lesson.event \in EventIds /\ events[lesson.event] # None
  /\ \A lesson \in lessons : lesson.boot \in 0..boot

(* The remembered ids are the last ones applied. *)
MarkInv ==
  /\ applied \in Seq(EventIds) /\ processed \in Seq(EventIds)
  /\ Len(processed) = IF Len(applied) < Horizon THEN Len(applied) ELSE Horizon
  /\ \A k \in 1..Len(processed), i \in 1..Len(applied) :
       Len(applied) - i = Len(processed) - k => processed[k] = applied[i]

MemoryInvariant ==
  /\ StoreInv /\ PageInv /\ EventInv /\ MarkInv
  /\ LatestIsNewest /\ RewardMeetsDecision /\ AppliedOnceInHorizon

LEMMA MemoryInit == Init => MemoryInvariant
<1> SUFFICES ASSUME Init PROVE MemoryInvariant
  OBVIOUS
<1>1. items = <<>> /\ ToSet(items) = {} /\ StoreInv
  BY Sizes DEF Init, StoreInv, ToSet
<1>2. PageInv /\ EventInv /\ RewardMeetsDecision
  BY <1>1 DEF Init, PageInv, EventInv, RewardMeetsDecision
<1>3. MarkInv /\ AppliedOnceInHorizon
  BY Sizes DEF Init, MarkInv, AppliedOnceInHorizon
<1>4. LatestIsNewest
  BY <1>1 DEF Init, NoIndex, LatestIsNewest
<1>5. QED
  BY <1>1, <1>2, <1>3, <1>4 DEF MemoryInvariant

-----------------------------------------------------------------------------
(* A decision.                                                             *)

(* The store after an impression was recorded: d impressions are gone.     *)
LEMMA Recorded ==
  ASSUME MemoryInvariant, NEW im, Record(im)
  PROVE  \E d \in {0, 1} :
           /\ Expired = IF d = 1 THEN {items[1]} ELSE {}
           /\ items' \in Seq(ToSet(items')) /\ Len(items') \in 1..MaxImpressions
           /\ Len(items) \in Nat /\ Len(items) = Len(items') - 1 + d /\ Len(items') \in Nat
           /\ items'[Len(items')] = im
           /\ \A i \in 1..(Len(items') - 1) : i + d \in 1..Len(items) /\ items'[i] = items[i + d]
<1> DEFINE S == ToSet(items) \cup {im}
           d == IF Len(items) = MaxImpressions THEN 1 ELSE 0
<1>1. items \in Seq(S) /\ Len(items) \in Nat /\ Len(items) =< MaxImpressions /\ im \in S
  <2>1. items \in Seq(ToSet(items)) /\ Len(items) \in 0..MaxImpressions
    BY DEF MemoryInvariant, StoreInv
  <2>2. QED
    BY <2>1, Sizes
<1>2. items' = Newest(Append(items, im), MaxImpressions)
  BY DEF Record
<1> HIDE DEF S
<1>3. /\ items' \in Seq(S)
      /\ Len(items') = Len(items) + 1 - d /\ Len(items') \in 1..MaxImpressions
      /\ items'[Len(items')] = im
      /\ \A i \in 1..(Len(items') - 1) : items'[i] = items[i + d]
  <2>1. LET t == Newest(Append(items, im), MaxImpressions)
            e == IF Len(items) = MaxImpressions THEN 1 ELSE 0
        IN  /\ t \in Seq(S)
            /\ Len(t) = Len(items) + 1 - e /\ Len(t) \in 1..MaxImpressions
            /\ t[Len(t)] = im
            /\ \A i \in 1..(Len(t) - 1) : t[i] = items[i + e]
    BY <1>1, NewestOfAppended, Sizes
  <2>2. QED
    BY <1>2, <2>1
<1>4. items' \in Seq(ToSet(items'))
  BY <1>3 DEF ToSet
<1>5. d \in {0, 1} /\ Expired = IF d = 1 THEN {items[1]} ELSE {}
  BY DEF Expired
<1> HIDE DEF d
<1>6. Len(items') \in Nat /\ Len(items) = Len(items') - 1 + d
  BY <1>1, <1>3, <1>5, Sizes
<1>7. \A i \in 1..(Len(items') - 1) : i + d \in 1..Len(items)
  BY <1>1, <1>5, <1>6
<1>8. QED
  BY <1>1, <1>3, <1>4, <1>5, <1>6, <1>7

LEMMA RecordKeepsOrder ==
  ASSUME MemoryInvariant, NEW im, im.id = sequence + 1, sequence' = sequence + 1, Record(im)
  PROVE  StoreInv'
<1>1. /\ sequence \in Nat
      /\ \A i \in 1..Len(items) : items[i].id \in 1..sequence
      /\ \A i, j \in 1..Len(items) : i < j => items[i].id < items[j].id
  BY DEF MemoryInvariant, StoreInv
<1>2. PICK d \in {0, 1} :
        /\ items' \in Seq(ToSet(items')) /\ Len(items') \in 1..MaxImpressions
        /\ Len(items) \in Nat /\ Len(items') \in Nat
        /\ items'[Len(items')] = im
        /\ \A i \in 1..(Len(items') - 1) : i + d \in 1..Len(items) /\ items'[i] = items[i + d]
  BY Recorded
<1>3. ASSUME NEW i \in 1..Len(items') PROVE items'[i].id \in 1..sequence'
  <2>1. CASE i = Len(items')
    BY <1>1, <1>2, <2>1
  <2>2. CASE i # Len(items')
    <3>1. i \in 1..(Len(items') - 1)
      BY <1>2, <2>2
    <3>2. items'[i].id \in 1..sequence
      BY <1>1, <1>2, <3>1
    <3>3. QED
      BY <1>1, <3>2
  <2>3. QED
    BY <2>1, <2>2
<1>4. ASSUME NEW i \in 1..Len(items'), NEW j \in 1..Len(items'), i < j
      PROVE  items'[i].id < items'[j].id
  <2>1. i \in 1..(Len(items') - 1)
    BY <1>2, <1>4
  <2>2. CASE j = Len(items')
    <3>1. items'[i].id \in 1..sequence /\ items'[j].id = sequence + 1
      BY <1>1, <1>2, <2>1, <2>2
    <3>2. QED
      BY <1>1, <3>1
  <2>3. CASE j # Len(items')
    <3>1. j \in 1..(Len(items') - 1)
      BY <1>2, <2>3
    <3>2. i + d < j + d
      BY <1>2, <1>4
    <3>3. QED
      BY <1>1, <1>2, <2>1, <3>1, <3>2
  <2>4. QED
    BY <2>2, <2>3
<1>5. Len(items') \in 0..MaxImpressions /\ sequence' \in Nat
  BY <1>1, <1>2, Sizes
<1>6. QED
  BY <1>2, <1>3, <1>4, <1>5 DEF StoreInv

(* The identifiers of the impressions that show a product to a session.    *)
LEMMA ShownIds ==
  ASSUME NEW T, NEW store \in Seq(T), NEW key
  PROVE  {x.id : x \in {y \in ToSet(store) : Shows(y, key)}}
           = {store[i].id : i \in {k \in 1..Len(store) : Shows(store[k], key)}}
<1>1. DOMAIN store = 1..Len(store)
  OBVIOUS
<1>2. \A x : x \in ToSet(store) <=> \E i \in 1..Len(store) : x = store[i]
  BY <1>1 DEF ToSet
<1> DEFINE P(x) == Shows(x, key)
<1> HIDE DEF P
<1>3. {x.id : x \in {y \in ToSet(store) : P(y)}}
        = {store[i].id : i \in {k \in 1..Len(store) : P(store[k])}}
  BY <1>2
<1>4. QED
  BY <1>3 DEF P

(* The index follows the store. *)
LEMMA RecordKeepsIndex ==
  ASSUME MemoryInvariant, NEW im, im.id = sequence + 1, sequence' = sequence + 1, Record(im)
  PROVE  LatestIsNewest'
<1>1. /\ sequence \in Nat /\ items \in Seq(ToSet(items))
      /\ \A i \in 1..Len(items) : items[i].id \in 1..sequence
      /\ \A i, j \in 1..Len(items) : i < j => items[i].id < items[j].id
  BY DEF MemoryInvariant, StoreInv
<1>2. PICK d \in {0, 1} :
        /\ Expired = IF d = 1 THEN {items[1]} ELSE {}
        /\ items' \in Seq(ToSet(items')) /\ Len(items') \in 1..MaxImpressions
        /\ Len(items) \in Nat /\ Len(items) = Len(items') - 1 + d /\ Len(items') \in Nat
        /\ items'[Len(items')] = im
        /\ \A i \in 1..(Len(items') - 1) : i + d \in 1..Len(items) /\ items'[i] = items[i + d]
  BY Recorded
<1>3. Len(items') \in 1..Len(items')
  BY <1>2, Sizes
<1> SUFFICES ASSUME NEW key \in Sessions \X Products
             PROVE  LET ids == {x.id : x \in {y \in ToSet(items') : Shows(y, key)}}
                    IN  IF ids = {} THEN latest'[key] = None
                        ELSE latest'[key] \in ids /\ \A id \in ids : id =< latest'[key]
  BY DEF LatestIsNewest, Shows
<1> DEFINE old == {i \in 1..Len(items) : Shows(items[i], key)}
           new == {i \in 1..Len(items') : Shows(items'[i], key)}
<1>4. {x.id : x \in {y \in ToSet(items') : Shows(y, key)}} = {items'[i].id : i \in new}
  BY <1>2, ShownIds
<1>5. IF old = {} THEN latest[key] = None
      ELSE \E i \in old : latest[key] = items[i].id /\ \A j \in old : items[j].id =< items[i].id
  <2>1. {x.id : x \in {y \in ToSet(items) : Shows(y, key)}} = {items[i].id : i \in old}
    BY <1>1, ShownIds
  <2>2. IF {items[i].id : i \in old} = {} THEN latest[key] = None
        ELSE /\ latest[key] \in {items[i].id : i \in old}
             /\ \A id \in {items[i].id : i \in old} : id =< latest[key]
    BY <2>1 DEF MemoryInvariant, LatestIsNewest
  <2> HIDE DEF old
  <2>3. QED
    BY <2>2
<1>6. latest'[key] = IF \E x \in Expired : Shows(x, key) /\ Indexed(im)[key] = x.id
                       THEN None ELSE Indexed(im)[key]
  BY DEF Record
<1>7. Indexed(im)[key] = IF Shows(im, key) THEN im.id ELSE latest[key]
  BY DEF Indexed
<1>8. CASE Shows(im, key)
  <2>1. Indexed(im)[key] = sequence + 1
    BY <1>7, <1>8
  <2>2. \A x \in Expired : x.id # sequence + 1
    <3>1. d = 1 => 1 \in 1..Len(items)
      BY <1>2, Sizes
    <3>2. d = 1 => items[1].id \in 1..sequence
      BY <1>1, <3>1
    <3>3. QED
      BY <1>1, <1>2, <3>2
  <2>3. latest'[key] = sequence + 1
    BY <1>6, <2>1, <2>2
  <2>4. Len(items') \in new /\ items'[Len(items')].id = sequence + 1
    BY <1>2, <1>3, <1>8
  <2>5. \A i \in new : items'[i].id =< sequence + 1
    <3>1. \A i \in 1..Len(items') : items'[i].id \in 1..(sequence + 1)
      BY RecordKeepsOrder DEF StoreInv
    <3>2. QED
      BY <1>1, <3>1
  <2> HIDE DEF new
  <2>6. QED
    BY <1>4, <2>3, <2>4, <2>5
<1>9. CASE ~Shows(im, key)
  <2>1. new = {i \in 1..(Len(items') - 1) : i + d \in old}
    BY <1>2, <1>9
  <2>2. CASE old = {}
    <3>1. new = {}
      BY <2>1, <2>2
    <3>2. d = 1 => ~Shows(items[1], key)
      <4>1. d = 1 => 1 \in 1..Len(items)
        BY <1>2, Sizes
      <4>2. QED
        BY <2>2, <4>1
    <3>3. latest'[key] = None
      BY <1>2, <1>5, <1>6, <1>7, <1>9, <2>2, <3>2
    <3>4. QED
      BY <1>4, <3>1, <3>3
  <2>3. CASE old # {}
    <3>1. PICK i \in old : latest[key] = items[i].id /\ \A j \in old : items[j].id =< items[i].id
      BY <1>5, <2>3
    <3>2. i \in 1..Len(items) /\ i \in Nat /\ Shows(items[i], key)
      BY <1>2, <3>1
    <3>3. CASE i =< d
      <4>1. i = 1 /\ d = 1
        BY <1>2, <3>2, <3>3
      <4>2. latest'[key] = None
        BY <1>2, <1>6, <1>7, <1>9, <3>1, <3>2, <4>1
      <4>3. \A j \in old : ~(1 < j)
        <5> SUFFICES ASSUME NEW j \in 1..Len(items), Shows(items[j], key), 1 < j PROVE FALSE
          OBVIOUS
        <5>1. items[1].id < items[j].id /\ items[j].id =< items[1].id
          BY <1>1, <3>1, <3>2, <4>1
        <5>2. items[1].id \in Nat /\ items[j].id \in Nat
          BY <1>1, <3>2, <4>1
        <5>3. QED
          BY <5>1, <5>2
      <4>4. new = {}
        BY <1>2, <2>1, <4>1, <4>3
      <4>5. QED
        BY <1>4, <4>2, <4>4
    <3>4. CASE ~(i =< d)
      <4>1. d = 1 => items[1].id # items[i].id
        <5> SUFFICES ASSUME d = 1 PROVE items[1].id # items[i].id
          OBVIOUS
        <5>1. 1 \in 1..Len(items) /\ 1 < i
          BY <1>2, <3>2, <3>4
        <5>2. items[1].id < items[i].id /\ items[1].id \in 1..sequence /\ items[i].id \in 1..sequence
          BY <1>1, <3>2, <5>1
        <5>3. QED
          BY <5>2, <1>1
      <4>2. latest'[key] = items[i].id
        BY <1>2, <1>6, <1>7, <1>9, <3>1, <4>1
      <4>3. i - d \in 1..(Len(items') - 1) /\ (i - d) + d = i
        BY <1>2, <3>2, <3>4
      <4>4. i - d \in new /\ items'[i - d].id = items[i].id
        BY <1>2, <2>1, <3>1, <4>3
      <4>5. \A j \in new : items'[j].id =< items[i].id
        BY <1>2, <2>1, <3>1
      <4> HIDE DEF new
      <4>6. QED
        BY <1>4, <4>2, <4>4, <4>5
    <3>5. QED
      BY <3>3, <3>4
  <2>4. QED
    BY <2>2, <2>3
<1>10. QED
  BY <1>8, <1>9

(* A page that a server answers is known by its server and its number.     *)
LEMMA RankKeeps ==
  ASSUME MemoryInvariant, NEW session \in Sessions, NEW view \in Views, Rank(session, view)
  PROVE  MemoryInvariant'
<1>1. PICK shown \in Selections(session, view) :
        /\ Record([id |-> sequence', session |-> session, products |-> shown])
        /\ pages' = pages \cup {[boot |-> boot, id |-> sequence', session |-> session,
                                 products |-> shown]}
  BY DEF Rank
<1>2. /\ sequence' = sequence + 1
      /\ UNCHANGED <<processed, events, boot, lessons, applied>>
  BY DEF Rank
<1> DEFINE im == [id |-> sequence', session |-> session, products |-> shown]
           page == [boot |-> boot, id |-> sequence', session |-> session, products |-> shown]
<1>3. im.id = sequence + 1 /\ im.session = session /\ im.products = shown /\ Record(im)
  BY <1>1, <1>2
<1>4. /\ page.boot = boot /\ page.id = sequence + 1 /\ page.session = session
      /\ page.products = shown /\ pages' = pages \cup {page}
  BY <1>1, <1>2
<1> HIDE DEF im, page
<1>5. StoreInv' /\ LatestIsNewest'
  BY <1>2, <1>3, RecordKeepsOrder, RecordKeepsIndex
<1>6. PageInv'
  <2>1. PageInv /\ sequence \in Nat
    BY DEF MemoryInvariant, StoreInv
  <2>2. boot' \in Nat /\ sequence + 1 \in 1..sequence'
    BY <1>2, <2>1 DEF PageInv
  <2>3. \A q \in pages' : /\ q.boot \in 0..boot'
                          /\ q.boot = boot' => q.id \in 1..sequence'
    BY <1>2, <1>4, <2>1, <2>2 DEF PageInv
  <2>4. \A q \in pages : q.boot = page.boot => q.id # page.id
    BY <1>4, <2>1 DEF PageInv
  <2>5. \A p, q \in pages' : p.boot = q.boot /\ p.id = q.id => p.products = q.products
    BY <1>4, <2>1, <2>4 DEF PageInv
  <2>6. ASSUME NEW i \in 1..Len(items')
        PROVE  \E q \in pages' : /\ q.boot = boot' /\ q.id = items'[i].id
                                 /\ q.session = items'[i].session
                                 /\ q.products = items'[i].products
    <3>1. PICK d \in {0, 1} :
            /\ Len(items') \in Nat /\ items'[Len(items')] = im
            /\ \A j \in 1..(Len(items') - 1) : j + d \in 1..Len(items) /\ items'[j] = items[j + d]
      BY <1>3, Recorded
    <3>2. CASE i = Len(items')
      BY <1>2, <1>3, <1>4, <3>1, <3>2
    <3>3. CASE i # Len(items')
      <4>1. i \in 1..(Len(items') - 1)
        BY <3>1, <3>3
      <4>2. i + d \in 1..Len(items) /\ items'[i] = items[i + d]
        BY <3>1, <4>1
      <4>3. QED
        BY <1>2, <1>4, <2>1, <4>2 DEF PageInv
    <3>4. QED
      BY <3>2, <3>3
  <2>7. QED
    BY <2>2, <2>3, <2>5, <2>6 DEF PageInv
<1>7. EventInv' /\ RewardMeetsDecision'
  BY <1>2, <1>4 DEF MemoryInvariant, EventInv, RewardMeetsDecision
<1>8. MarkInv' /\ AppliedOnceInHorizon'
  BY <1>2 DEF MemoryInvariant, MarkInv, AppliedOnceInHorizon
<1>9. QED
  BY <1>5, <1>6, <1>7, <1>8 DEF MemoryInvariant

-----------------------------------------------------------------------------
(* Feedback. *)

LEMMA ClickKeeps ==
  ASSUME MemoryInvariant, NEW e \in EventIds, NEW session \in Sessions, NEW click \in Clicks,
         NEW page \in pages \cup {None}, Click(e, session, click, page)
  PROVE  MemoryInvariant'
<1>1. /\ events[e] = None
      /\ events' = [events EXCEPT ![e] = [session |-> session, kind |-> click.kind,
                                          products |-> click.products, page |-> page]]
      /\ UNCHANGED <<sequence, items, latest, processed, pages, boot, lessons, applied>>
  BY DEF Click, service
<1>2. DOMAIN events = EventIds
  BY DEF MemoryInvariant, EventInv
<1>3. DOMAIN events' = EventIds /\ events'[e].page = page
      /\ \A f \in EventIds \ {e} : events'[f] = events[f]
  BY <1>1, <1>2
<1>4. \A lesson \in lessons : lesson.event \in EventIds \ {e}
  BY <1>1 DEF MemoryInvariant, EventInv
<1>5. EventInv'
  BY <1>1, <1>3, <1>4 DEF MemoryInvariant, EventInv
<1>6. RewardMeetsDecision'
  BY <1>1, <1>3, <1>4 DEF MemoryInvariant, RewardMeetsDecision
<1>7. StoreInv' /\ PageInv'
  BY <1>1 DEF MemoryInvariant, StoreInv, PageInv
<1>8. MarkInv' /\ AppliedOnceInHorizon'
  BY <1>1 DEF MemoryInvariant, MarkInv, AppliedOnceInHorizon
<1>9. LatestIsNewest'
  BY <1>1 DEF MemoryInvariant, LatestIsNewest
<1>10. QED
  BY <1>5, <1>6, <1>7, <1>8, <1>9 DEF MemoryInvariant

(* A lesson that an event teaches.                                         *)
LEMMA LessonMeetsDecision ==
  ASSUME MemoryInvariant, NEW e \in EventIds, events[e] # None,
         NEW p, NEW im \in Find(events[e], p)
  PROVE  /\ \E page \in pages : /\ page.boot = boot /\ page.id = im.id
                                /\ page.session = events[e].session /\ p \in page.products
         /\ events[e].page # None /\ events[e].page.boot = boot =>
              events[e].page.id = im.id /\ events[e].page.products = im.products
<1>1. /\ im \in ToSet(items) /\ im.session = events[e].session /\ p \in im.products
      /\ events[e].page # None => im.id = events[e].page.id
  BY DEF Find
<1>2. \E i \in 1..Len(items) : im = items[i]
  <2>1. items \in Seq(ToSet(items))
    BY DEF MemoryInvariant, StoreInv
  <2>2. DOMAIN items = 1..Len(items)
    BY <2>1
  <2>3. QED
    BY <1>1, <2>2 DEF ToSet
<1>3. PICK page \in pages : /\ page.boot = boot /\ page.id = im.id
                            /\ page.session = im.session /\ page.products = im.products
  BY <1>2 DEF MemoryInvariant, PageInv
<1>4. events[e].page # None => events[e].page \in pages
  BY DEF MemoryInvariant, EventInv
<1>5. events[e].page # None /\ events[e].page.boot = boot =>
        events[e].page.products = page.products
  BY <1>1, <1>3, <1>4 DEF MemoryInvariant, PageInv
<1>6. QED
  BY <1>1, <1>3, <1>5

(* An id that is not among the last Horizon ones is marked.                *)
LEMMA MarkKeeps ==
  ASSUME MemoryInvariant, NEW e \in EventIds, ~Contains(processed, e),
         processed' = Marked(e), applied' = Append(applied, e)
  PROVE  MarkInv' /\ AppliedOnceInHorizon'
<1>1. PICK n \in Nat, m \in Nat :
        /\ applied \in Seq(EventIds) /\ processed \in Seq(EventIds)
        /\ n = Len(applied) /\ m = Len(processed)
        /\ m = IF n < Horizon THEN n ELSE Horizon
        /\ \A k \in 1..m, i \in 1..n : n - i = m - k => processed[k] = applied[i]
        /\ \A i, j \in 1..n : i < j /\ applied[i] = applied[j] => j - i > Horizon
  <2>1. applied \in Seq(EventIds) /\ processed \in Seq(EventIds)
    BY DEF MemoryInvariant, MarkInv
  <2>2. Len(applied) \in Nat /\ Len(processed) \in Nat /\ DOMAIN applied = 1..Len(applied)
    BY <2>1
  <2>3. QED
    BY <2>1, <2>2 DEF MemoryInvariant, MarkInv, AppliedOnceInHorizon
<1>2. /\ applied' \in Seq(EventIds) /\ Len(applied') = n + 1 /\ applied'[n + 1] = e
      /\ \A k \in 1..n : applied'[k] = applied[k]
      /\ DOMAIN applied' = 1..(n + 1)
  BY <1>1
<1>3. PICK d \in {0, 1}, length \in Nat :
        /\ processed' \in Seq(EventIds) /\ length = Len(processed')
        /\ length = m + 1 - d /\ length >= 1 /\ length =< Horizon
        /\ d = IF m = Horizon THEN 1 ELSE 0
        /\ processed'[length] = e
        /\ \A k \in 1..(length - 1) : processed'[k] = processed[k + d]
  <2>1. processed \in Seq(EventIds) /\ Len(processed) \in Nat /\ Len(processed) =< Horizon
    BY <1>1, Sizes
  <2>2. LET t == Newest(Append(processed, e), Horizon)
            c == IF Len(processed) = Horizon THEN 1 ELSE 0
        IN  /\ t \in Seq(EventIds)
            /\ Len(t) = Len(processed) + 1 - c /\ Len(t) \in 1..Horizon
            /\ t[Len(t)] = e
            /\ \A i \in 1..(Len(t) - 1) : t[i] = processed[i + c]
    BY <2>1, NewestOfAppended, Sizes
  <2>3. processed' = Newest(Append(processed, e), Horizon) /\ m = Len(processed)
    BY <1>1 DEF Marked
  <2>4. PICK d \in {0, 1} : d = IF m = Horizon THEN 1 ELSE 0
    OBVIOUS
  <2>5. /\ processed' \in Seq(EventIds) /\ Len(processed') = m + 1 - d
        /\ Len(processed') \in 1..Horizon /\ processed'[Len(processed')] = e
        /\ \A k \in 1..(Len(processed') - 1) : processed'[k] = processed[k + d]
    BY <2>2, <2>3, <2>4
  <2>6. Len(processed') \in Nat /\ Len(processed') >= 1 /\ Len(processed') =< Horizon
    BY <2>5, Sizes
  <2>7. QED
    BY <2>4, <2>5, <2>6
<1>4. length = IF n + 1 < Horizon THEN n + 1 ELSE Horizon
  <2>1. /\ m = IF n < Horizon THEN n ELSE Horizon
        /\ length = m + 1 - d /\ d = IF m = Horizon THEN 1 ELSE 0
    BY <1>1, <1>3
  <2>2. QED
    BY <2>1, Sizes
<1>5. ASSUME NEW k \in 1..length, NEW i \in 1..(n + 1), (n + 1) - i = length - k
      PROVE  processed'[k] = applied'[i]
  <2>1. CASE k = length
    <3>1. i = n + 1
      BY <1>5, <2>1
    <3>2. QED
      BY <1>2, <1>3, <2>1, <3>1
  <2>2. CASE k # length
    <3>1. length = m + 1 - d
      BY <1>3
    <3>2. k \in 1..(length - 1) /\ k + d \in 1..m /\ i \in 1..n /\ n - i = m - (k + d)
      BY <1>5, <2>2, <3>1
    <3>3. processed'[k] = processed[k + d] /\ processed[k + d] = applied[i]
      BY <1>1, <1>3, <3>2
    <3>4. QED
      BY <1>2, <3>2, <3>3
  <2>3. QED
    BY <2>1, <2>2
<1>6. ASSUME NEW i \in 1..n, applied[i] = e
      PROVE  (n + 1) - i > Horizon
  <2>1. ~(i > n - m)
    <3> SUFFICES ASSUME i > n - m PROVE FALSE
      OBVIOUS
    <3>1. i - (n - m) \in 1..m /\ n - i = m - (i - (n - m))
      OBVIOUS
    <3>2. processed[i - (n - m)] = e
      BY <1>1, <1>6, <3>1
    <3>3. QED
      BY <1>1, <3>1, <3>2 DEF Contains
  <2>2. QED
    BY <1>1, <2>1, Sizes
<1>7. ASSUME NEW i \in 1..(n + 1), NEW j \in 1..(n + 1), i < j, applied'[i] = applied'[j]
      PROVE  j - i > Horizon
  <2>1. i \in 1..n
    BY <1>7
  <2>2. CASE j = n + 1
    BY <1>2, <1>6, <1>7, <2>1, <2>2
  <2>3. CASE j # n + 1
    <3>1. j \in 1..n
      BY <2>3
    <3>2. QED
      BY <1>1, <1>2, <1>7, <2>1, <3>1
  <2>4. QED
    BY <2>2, <2>3
<1>8. MarkInv'
  <2>1. Len(processed') = IF Len(applied') < Horizon THEN Len(applied') ELSE Horizon
    BY <1>2, <1>3, <1>4
  <2>2. \A k \in 1..Len(processed'), i \in 1..Len(applied') :
          Len(applied') - i = Len(processed') - k => processed'[k] = applied'[i]
    BY <1>2, <1>3, <1>5
  <2>3. QED
    BY <1>2, <1>3, <2>1, <2>2 DEF MarkInv
<1>9. AppliedOnceInHorizon'
  BY <1>2, <1>7 DEF AppliedOnceInHorizon
<1>10. QED
  BY <1>8, <1>9

LEMMA ConsumeKeeps ==
  ASSUME MemoryInvariant, NEW e \in EventIds, Consume(e)
  PROVE  MemoryInvariant'
<1>1. /\ events[e] # None /\ ~Contains(processed, e)
      /\ processed' = Marked(e) /\ applied' = Append(applied, e)
      /\ lessons' = lessons \cup
           UNION {{[event |-> e, product |-> p, boot |-> boot, id |-> im.id, shown |-> im.products] :
                     im \in Find(events[e], p)} : p \in ToSet(Updates(events[e]))}
      /\ UNCHANGED <<sequence, items, latest, events, pages, boot>>
  BY DEF Consume
<1>2. StoreInv' /\ PageInv'
  BY <1>1 DEF MemoryInvariant, StoreInv, PageInv
<1>3. LatestIsNewest'
  BY <1>1 DEF MemoryInvariant, LatestIsNewest
<1>4. MarkInv' /\ AppliedOnceInHorizon'
  BY <1>1, MarkKeeps
<1>5. ASSUME NEW lesson \in lessons' \ lessons
      PROVE  \E p : \E im \in Find(events[e], p) :
               lesson = [event |-> e, product |-> p, boot |-> boot, id |-> im.id,
                         shown |-> im.products]
  BY <1>1, <1>5
<1>6. EventInv'
  <2>1. EventInv /\ boot \in Nat
    BY DEF MemoryInvariant, PageInv
  <2>2. \A lesson \in lessons' \ lessons : lesson.event = e /\ lesson.boot = boot
    BY <1>5
  <2>3. QED
    BY <1>1, <2>1, <2>2 DEF EventInv
<1>7. RewardMeetsDecision'
  <2> SUFFICES ASSUME NEW lesson \in lessons'
               PROVE  LET event == events[lesson.event]
                      IN  /\ \E page \in pages :
                               /\ page.boot = lesson.boot /\ page.id = lesson.id
                               /\ page.session = event.session
                               /\ lesson.product \in page.products
                          /\ event.page # None /\ event.page.boot = lesson.boot =>
                               event.page.id = lesson.id /\ event.page.products = lesson.shown
    BY <1>1 DEF RewardMeetsDecision
  <2>1. CASE lesson \in lessons
    BY <2>1 DEF MemoryInvariant, RewardMeetsDecision
  <2>2. CASE lesson \notin lessons
    <3>1. PICK p : \E im \in Find(events[e], p) :
                     lesson = [event |-> e, product |-> p, boot |-> boot, id |-> im.id,
                               shown |-> im.products]
      BY <1>5, <2>2
    <3>2. PICK im \in Find(events[e], p) :
                     lesson = [event |-> e, product |-> p, boot |-> boot, id |-> im.id,
                               shown |-> im.products]
      BY <3>1
    <3>3. /\ lesson.event = e /\ lesson.product = p /\ lesson.boot = boot
          /\ lesson.id = im.id /\ lesson.shown = im.products
      BY <3>2
    <3>4. /\ \E page \in pages : /\ page.boot = boot /\ page.id = im.id
                                 /\ page.session = events[e].session /\ p \in page.products
          /\ events[e].page # None /\ events[e].page.boot = boot =>
               events[e].page.id = im.id /\ events[e].page.products = im.products
      BY <1>1, LessonMeetsDecision
    <3>5. QED
      BY <3>3, <3>4
  <2>3. QED
    BY <2>1, <2>2
<1>8. QED
  BY <1>2, <1>3, <1>4, <1>6, <1>7 DEF MemoryInvariant

-----------------------------------------------------------------------------
(* A restart: numbers start over, pages and what was learned are history.  *)
LEMMA RestartKeeps == MemoryInvariant /\ Restart => MemoryInvariant'
<1> SUFFICES ASSUME MemoryInvariant, Restart PROVE MemoryInvariant'
  OBVIOUS
<1>1. /\ boot' = boot + 1 /\ sequence' = 0 /\ items' = <<>> /\ latest' = NoIndex
      /\ processed' = <<>> /\ applied' = <<>>
      /\ UNCHANGED <<events, pages, lessons>>
  BY DEF Restart
<1>2. ToSet(items') = {} /\ StoreInv'
  BY <1>1, Sizes DEF StoreInv, ToSet
<1>3. PageInv' /\ EventInv'
  <2>1. PageInv /\ EventInv /\ boot \in Nat
    BY DEF MemoryInvariant, PageInv
  <2>2. \A b \in 0..boot : b \in 0..boot' /\ b # boot'
    BY <1>1, <2>1
  <2>3. PageInv'
    BY <1>1, <2>1, <2>2 DEF PageInv
  <2>4. EventInv'
    BY <1>1, <2>1, <2>2 DEF EventInv
  <2>5. QED
    BY <2>3, <2>4
<1>4. RewardMeetsDecision'
  BY <1>1 DEF MemoryInvariant, RewardMeetsDecision
<1>5. MarkInv' /\ AppliedOnceInHorizon'
  BY <1>1, Sizes DEF MarkInv, AppliedOnceInHorizon
<1>6. LatestIsNewest'
  BY <1>1, <1>2 DEF NoIndex, LatestIsNewest
<1>7. QED
  BY <1>2, <1>3, <1>4, <1>5, <1>6 DEF MemoryInvariant

LEMMA MemoryNext == MemoryInvariant /\ [Next]_vars => MemoryInvariant'
<1> SUFFICES ASSUME MemoryInvariant, [Next]_vars PROVE MemoryInvariant'
  OBVIOUS
<1>1. CASE \E session \in Sessions, view \in Views : Rank(session, view)
  BY <1>1, RankKeeps
<1>2. CASE \E e \in EventIds, session \in Sessions, click \in Clicks, page \in pages \cup {None} :
             Click(e, session, click, page)
  BY <1>2, ClickKeeps
<1>3. CASE \E e \in EventIds : Consume(e)
  BY <1>3, ConsumeKeeps
<1>4. CASE Restart
  BY <1>4, RestartKeeps
<1>5. CASE UNCHANGED vars
  <2>1. UNCHANGED <<sequence, items, latest, processed, events, pages, boot, lessons, applied>>
    BY <1>5 DEF vars, service
  <2>2. StoreInv' /\ PageInv' /\ EventInv'
    BY <2>1 DEF MemoryInvariant, StoreInv, PageInv, EventInv
  <2>3. MarkInv' /\ AppliedOnceInHorizon' /\ RewardMeetsDecision'
    BY <2>1 DEF MemoryInvariant, MarkInv, AppliedOnceInHorizon, RewardMeetsDecision
  <2>4. LatestIsNewest'
    BY <2>1 DEF MemoryInvariant, LatestIsNewest
  <2>5. QED
    BY <2>2, <2>3, <2>4 DEF MemoryInvariant
<1>6. QED
  BY <1>1, <1>2, <1>3, <1>4, <1>5 DEF Next

LEMMA MemoryAlways == Spec => []MemoryInvariant
BY MemoryInit, MemoryNext, PTL DEF Spec

-----------------------------------------------------------------------------
(* The candidate lists.  A set whose elements come strictly one after the  *)
(* other is ranked without a gap: an injection of it into 0..n-1 is onto.  *)
LEMMA RankedOnce ==
  ASSUME NEW S, IsFiniteSet(S), NEW before,
         \A x \in S : before[x] \subseteq S /\ x \notin before[x],
         \A x, y \in S : x # y =>
           \/ x \in before[y] /\ before[x] \subseteq before[y]
           \/ y \in before[x] /\ before[y] \subseteq before[x]
  PROVE  /\ Cardinality(S) \in Nat
         /\ Ranked(S, before) \in [1..Cardinality(S) -> S]
         /\ \A k, l \in 1..Cardinality(S) : Ranked(S, before)[k] = Ranked(S, before)[l] => k = l
<1> DEFINE n == Cardinality(S)
           rank == [x \in S |-> Cardinality(before[x])]
           r == Ranked(S, before)
<1>1. n \in Nat
  BY FS_CardinalityType
<1>2. ASSUME NEW x \in S
      PROVE  /\ IsFiniteSet(before[x])
             /\ rank[x] \in 0..(n - 1)
  <2>1. IsFiniteSet(before[x]) /\ Cardinality(before[x]) =< n
        /\ (n = Cardinality(before[x]) => S = before[x])
    BY FS_Subset
  <2>2. Cardinality(before[x]) \in Nat
    BY <2>1, FS_CardinalityType
  <2>3. before[x] # S
    OBVIOUS
  <2>4. QED
    BY <1>1, <2>1, <2>2, <2>3
<1>3. ASSUME NEW x \in S, NEW y \in S, x \in before[y], before[x] \subseteq before[y]
      PROVE  rank[x] # rank[y]
  <2>1. IsFiniteSet(before[y])
    BY <1>2
  <2>2. Cardinality(before[y]) = Cardinality(before[x]) => before[y] = before[x]
    BY <1>3, <2>1, FS_Subset
  <2>3. before[y] # before[x]
    BY <1>3
  <2>4. QED
    BY <2>2, <2>3
<1>4. \A x, y \in S : rank[x] = rank[y] => x = y
  BY <1>3
<1>5. rank \in Injection(S, 0..(n - 1))
  BY <1>2, <1>4 DEF Injection, IsInjective
<1>6. IsFiniteSet(0..(n - 1)) /\ Cardinality(0..(n - 1)) = n
  <2> HIDE DEF n, rank, r
  <2>1. 0 \in Int /\ n - 1 \in Int
    BY <1>1
  <2>2. /\ IsFiniteSet(0..(n - 1))
        /\ Cardinality(0..(n - 1)) = IF 0 > n - 1 THEN 0 ELSE (n - 1) - 0 + 1
    BY <2>1, FS_Interval
  <2>3. QED
    BY <1>1, <2>2
<1>7. rank \in Surjection(S, 0..(n - 1))
  BY <1>5, <1>6, FS_Injection
<1>8. \A t \in 0..(n - 1) : \E x \in S : rank[x] = t
  BY <1>7 DEF Surjection
<1>9. ASSUME NEW k \in 1..n
      PROVE  r[k] \in S /\ rank[r[k]] = k - 1
  <2>1. k - 1 \in 0..(n - 1)
    BY <1>1
  <2>2. \E x \in S : Cardinality(before[x]) = k - 1
    BY <1>8, <2>1
  <2>3. r[k] = CHOOSE x \in S : Cardinality(before[x]) = k - 1
    BY DEF Ranked
  <2>4. QED
    BY <2>2, <2>3
<1>10. r \in [1..n -> S]
  BY <1>9 DEF Ranked
<1>11. ASSUME NEW k \in 1..n, NEW l \in 1..n, r[k] = r[l]
       PROVE  k = l
  <2>1. k - 1 = l - 1
    BY <1>9, <1>11
  <2>2. QED
    BY <1>1, <2>1
<1>12. QED
  BY <1>1, <1>10, <1>11

(* A list that names products of P, each once. *)
OnceEach(list, P) ==
  /\ list \in Seq(ToSet(list))
  /\ \A i \in 1..Len(list) : list[i].product \in P
  /\ \A i, j \in 1..Len(list) : list[i].product = list[j].product => i = j

(* A function on 1..n is a sequence. *)
LEMMA ListIsSeq ==
  ASSUME NEW n \in Nat, NEW f, f = [k \in 1..n |-> f[k]]
  PROVE  f \in Seq(ToSet(f)) /\ Len(f) = n
<1>1. f \in [1..n -> ToSet(f)]
  BY DEF ToSet
<1>2. QED
  BY <1>1

(* The places that are picked, each once. *)
LEMMA PickedOnce ==
  ASSUME NEW m \in Nat, NEW places \in SUBSET (1..m), NEW s
  PROVE  /\ Picked(s, places) \in Seq(ToSet(Picked(s, places)))
         /\ \A P : (\A i \in places : s[i].product \in P)
                   /\ (\A i, j \in places : s[i].product = s[j].product => i = j)
                   => OnceEach(Picked(s, places), P)
<1> DEFINE before == [i \in places |-> {j \in places : j < i}]
           order == Ranked(places, before)
           n == Cardinality(places)
<1>1. IsFiniteSet(places)
  <2>1. IsFiniteSet(1..m)
    BY FS_Interval
  <2>2. QED
    BY <2>1, FS_Subset
<1>2. \A x \in places : before[x] \subseteq places /\ x \notin before[x]
  OBVIOUS
<1>3. ASSUME NEW x \in places, NEW y \in places, x # y
      PROVE  \/ x \in before[y] /\ before[x] \subseteq before[y]
             \/ y \in before[x] /\ before[y] \subseteq before[x]
  <2>1. /\ x \in Nat /\ y \in Nat
        /\ \A z \in places : z \in Nat
    OBVIOUS
  <2>2. /\ before[x] = {z \in places : z < x}
        /\ before[y] = {z \in places : z < y}
    OBVIOUS
  <2> HIDE DEF before
  <2>3. ASSUME x < y
        PROVE  x \in before[y] /\ before[x] \subseteq before[y]
    <3>1. \A z \in places : z < x => z < y
      BY <2>1, <2>3
    <3>2. QED
      BY <2>2, <2>3, <3>1
  <2>4. ASSUME y < x
        PROVE  y \in before[x] /\ before[y] \subseteq before[x]
    <3>1. \A z \in places : z < y => z < x
      BY <2>1, <2>4
    <3>2. QED
      BY <2>2, <2>4, <3>1
  <2>5. x < y \/ y < x
    BY <1>3, <2>1
  <2>6. QED
    BY <2>3, <2>4, <2>5
<1> HIDE DEF before
<1>4. /\ n \in Nat /\ order \in [1..n -> places]
      /\ \A k, l \in 1..n : order[k] = order[l] => k = l
  BY <1>1, <1>2, <1>3, RankedOnce
<1>5. Picked(s, places) = [k \in DOMAIN order |-> s[order[k]]]
  BY DEF Picked, before
<1> DEFINE picked == Picked(s, places)
<1> HIDE DEF order, n
<1>6. picked = [k \in 1..n |-> s[order[k]]]
  BY <1>4, <1>5
<1> HIDE DEF picked
<1>7. picked = [k \in 1..n |-> picked[k]]
  BY <1>6
<1>8. picked \in Seq(ToSet(picked)) /\ Len(picked) = n
  BY <1>4, <1>7, ListIsSeq
<1>9. \A k \in 1..n : picked[k] = s[order[k]] /\ order[k] \in places
  BY <1>4, <1>6
<1>10. ASSUME NEW P,
              \A i \in places : s[i].product \in P,
              \A i, j \in places : s[i].product = s[j].product => i = j
       PROVE  OnceEach(picked, P)
  <2>1. \A k \in 1..n : picked[k].product \in P
    BY <1>9, <1>10
  <2>2. ASSUME NEW k \in 1..n, NEW l \in 1..n, picked[k].product = picked[l].product
        PROVE  k = l
    <3>1. /\ order[k] \in places /\ order[l] \in places
          /\ s[order[k]].product = s[order[l]].product
      BY <1>9, <2>2
    <3>2. order[k] = order[l]
      BY <1>10, <3>1
    <3>3. QED
      BY <1>4, <3>2
  <2>3. QED
    BY <1>8, <2>1, <2>2 DEF OnceEach
<1>11. QED
  BY <1>8, <1>10 DEF picked

(* What is cut off a list leaves it as it was. *)
LEMMA UptoOnce ==
  ASSUME NEW list, NEW P, OnceEach(list, P), NEW n \in Nat
  PROVE  OnceEach(Upto(list, n), P)
<1> DEFINE m == IF Len(list) < n THEN Len(list) ELSE n
           u == Upto(list, n)
<1>1. list \in Seq(ToSet(list)) /\ Len(list) \in Nat
  BY DEF OnceEach
<1>2. m \in Nat /\ m =< Len(list)
  BY <1>1
<1>3. u = SubSeq(list, 1, m)
  BY DEF Upto
<1> HIDE DEF m, u
<1>4. u \in Seq(ToSet(list)) /\ Len(u) = m /\ \A i \in 1..m : u[i] = list[i]
  BY <1>1, <1>2, <1>3
<1>5. u = [k \in 1..m |-> u[k]]
  BY <1>4
<1>6. u \in Seq(ToSet(u))
  BY <1>2, <1>5, ListIsSeq
<1>7. \A i \in 1..m : i \in 1..Len(list)
  BY <1>1, <1>2
<1>8. QED
  BY <1>4, <1>6, <1>7 DEF OnceEach, u

(* No product is twice among the strongest rules of another one. *)
LEMMA StrongestOnce ==
  ASSUME NEW product, NEW R,
         \A w \in R : w.antecedent = product /\ w.lift \in Nat /\ w.line \in Nat,
         \A v, w \in R : v.line = w.line => v = w,
         NEW v \in StrongestOf(R), NEW w \in StrongestOf(R), v.consequent = w.consequent
  PROVE  v = w
<1>1. v \in R /\ w \in R /\ Pair(v) = Pair(w)
  BY DEF StrongestOf, Pair
<1>2. /\ v.lift < w.lift \/ (v.lift = w.lift /\ w.line =< v.line)
      /\ w.lift < v.lift \/ (w.lift = v.lift /\ v.line =< w.line)
  BY <1>1 DEF StrongestOf
<1>3. v.line = w.line
  BY <1>1, <1>2
<1>4. QED
  BY <1>1, <1>3

(* The rules of a product lead to other products that are sold, each once. *)
LEMMA PairingsOnce ==
  ASSUME NEW artifact \in Artifacts, NEW product
  PROVE  \E n \in Nat :
           /\ Pairings(artifact, product) = [k \in 1..n |-> Pairings(artifact, product)[k]]
           /\ \A k \in 1..n : Pairings(artifact, product)[k].consequent
                                \in Sold(artifact) \ {product}
           /\ \A k, l \in 1..n : Pairings(artifact, product)[k].consequent
                                   = Pairings(artifact, product)[l].consequent => k = l
<1> DEFINE R == {w \in artifact : /\ w.antecedent = product
                                  /\ w.consequent \in Sold(artifact) \ {product}}
           S == StrongestOf(R)
           before == [w \in S |-> {v \in S : \/ v.lift > w.lift
                                             \/ v.lift = w.lift /\ v.line < w.line}]
           n == Cardinality(S)
           r == Ranked(S, before)
<1>1. /\ IsFiniteSet(artifact)
      /\ \A w \in R : w.antecedent = product /\ w.lift \in Nat /\ w.line \in Nat
      /\ \A v, w \in R : v.line = w.line => v = w
  BY ArtifactAssumption
<1>2. S \subseteq R /\ R \subseteq artifact
  BY DEF StrongestOf
<1>3. IsFiniteSet(S)
  BY <1>1, <1>2, FS_Subset
<1>4. ASSUME NEW v \in S, NEW w \in S, v.consequent = w.consequent
      PROVE  v = w
  <2> HIDE DEF R
  <2>1. QED
    BY <1>1, <1>4, StrongestOnce
<1>5. Pairings(artifact, product) = r
  BY DEF Pairings
<1> HIDE DEF S
<1>6. \A w \in S : before[w] \subseteq S /\ w \notin before[w]
  BY <1>1, <1>2
<1>7. ASSUME NEW v \in S, NEW w \in S, v # w
      PROVE  \/ v \in before[w] /\ before[v] \subseteq before[w]
             \/ w \in before[v] /\ before[w] \subseteq before[v]
  <2> HIDE DEF R
  <2>1. /\ \A x \in S : x.lift \in Nat /\ x.line \in Nat
        /\ v.line # w.line
    BY <1>1, <1>2, <1>7
  <2>2. v \in before[w] \/ w \in before[v]
    BY <2>1
  <2>3. v \in before[w] => before[v] \subseteq before[w]
    BY <2>1
  <2>4. w \in before[v] => before[w] \subseteq before[v]
    BY <2>1
  <2>5. QED
    BY <2>2, <2>3, <2>4
<1> HIDE DEF before
<1>8. n \in Nat /\ r \in [1..n -> S] /\ \A k, l \in 1..n : r[k] = r[l] => k = l
  BY <1>3, <1>6, <1>7, RankedOnce
<1> HIDE DEF r, n
<1>9. \A k, l \in 1..n : r[k].consequent = r[l].consequent => k = l
  BY <1>4, <1>8
<1>10. \A k \in 1..n : r[k].consequent \in Sold(artifact) \ {product}
  BY <1>2, <1>8
<1>11. r = [k \in 1..n |-> r[k]]
  BY <1>8
<1>12. QED
  BY <1>5, <1>8, <1>9, <1>10, <1>11

(* The catalog lists what is sold. *)
LEMMA CatalogIsSeq ==
  ASSUME NEW artifact
  PROVE  /\ Catalog(artifact) \in Seq(ToSet(Catalog(artifact)))
         /\ \A i \in 1..Len(Catalog(artifact)) : Catalog(artifact)[i].product \in Sold(artifact)
<1> DEFINE c == Catalog(artifact)
           places == {i \in DOMAIN Inventory : Inventory[i].product \in ProductsOf(artifact)}
<1>1. Len(Inventory) \in Nat /\ DOMAIN Inventory = 1..Len(Inventory)
  BY CatalogAssumption
<1>2. places \in SUBSET (1..Len(Inventory))
  BY <1>1
<1>3. c = Picked(Inventory, places)
  BY DEF Catalog
<1> HIDE DEF c, places
<1>6. c \in Seq(ToSet(c))
  BY <1>1, <1>2, <1>3, PickedOnce
<1>7. \A i \in 1..Len(c) : c[i] \in ToSet(c)
  BY <1>6 DEF ToSet
<1>8. QED
  BY <1>6, <1>7 DEF Sold, c

(* The rest of an aisle is sold, not taken, and each product once. *)
LEMMA RestOnce ==
  ASSUME NEW artifact, NEW product, NEW taken
  PROVE  OnceEach(AisleRest(artifact, product, taken), Sold(artifact) \ taken)
<1> DEFINE catalog == Catalog(artifact)
           m == Len(catalog)
           places == {i \in DOMAIN catalog : /\ catalog[i].aisle = AisleOf(product)
                                             /\ catalog[i].product \notin taken}
           first == {i \in places :
                       \A j \in places : j < i => catalog[j].product # catalog[i].product}
           rest == AisleRest(artifact, product, taken)
<1>1. /\ m \in Nat /\ DOMAIN catalog = 1..m
      /\ \A i \in 1..m : catalog[i].product \in Sold(artifact)
  BY CatalogIsSeq
<1>2. rest = Picked(catalog, first)
  BY DEF AisleRest
<1> HIDE DEF catalog, m, rest
<1>3. first \in SUBSET (1..m)
  BY <1>1
<1>4. \A i \in first : catalog[i].product \in Sold(artifact) \ taken
  BY <1>1
<1>5. ASSUME NEW i \in first, NEW j \in first, catalog[i].product = catalog[j].product
      PROVE  i = j
  <2>1. i \in Nat /\ j \in Nat /\ i \in places /\ j \in places
    BY <1>1
  <2>2. ~(i < j) /\ ~(j < i)
    BY <1>5, <2>1
  <2>3. QED
    BY <2>1, <2>2
<1> DEFINE P == Sold(artifact) \ taken
<1> HIDE DEF first, P
<1>6. \A i \in first : catalog[i].product \in P
  BY <1>4 DEF P
<1>7. OnceEach(Picked(catalog, first), P)
  <2>1. \A i, j \in first : catalog[i].product = catalog[j].product => i = j
    BY <1>5
  <2>2. QED
    BY <1>1, <1>3, <1>6, <2>1, PickedOnce
<1>8. QED
  BY <1>2, <1>7 DEF rest, P

(* _related_products: seen keeps a product from being offered twice.       *)
LEMMA RelatedOnce ==
  ASSUME NEW artifact \in Artifacts, NEW product, NEW limit \in Nat
  PROVE  OnceEach(Related(artifact, product, limit), Sold(artifact) \ {product})
<1> DEFINE P == Sold(artifact) \ {product}
           rules == Pairings(artifact, product)
           paired == [k \in DOMAIN rules |-> [product |-> rules[k].consequent,
                                              lift |-> rules[k].lift]]
           taken == {product} \cup {c.product : c \in ToSet(paired)}
           rest == AisleRest(artifact, product, taken)
           filled == [k \in DOMAIN rest |-> [product |-> rest[k].product, lift |-> 0]]
           list == paired \o filled
<1>1. Related(artifact, product, limit) = Upto(list, limit)
  BY DEF Related
<1>2. PICK n \in Nat :
        /\ rules = [k \in 1..n |-> rules[k]]
        /\ \A k \in 1..n : rules[k].consequent \in P
        /\ \A k, l \in 1..n : rules[k].consequent = rules[l].consequent => k = l
  BY PairingsOnce
<1> HIDE DEF rules
<1>3. /\ DOMAIN paired = 1..n
      /\ \A k \in 1..n : paired[k].product = rules[k].consequent
  BY <1>2
<1>4. paired = [k \in 1..n |-> paired[k]]
  BY <1>3
<1> HIDE DEF paired
<1>5. paired \in Seq(ToSet(paired)) /\ Len(paired) = n
  BY <1>4, ListIsSeq
<1>6. \A k \in 1..n : paired[k].product \in taken
  BY <1>3 DEF ToSet
<1>7. OnceEach(rest, Sold(artifact) \ taken)
  BY RestOnce
<1>8. Sold(artifact) \ taken \subseteq P
  OBVIOUS
<1> HIDE DEF taken, rest
<1> DEFINE m == Len(rest)
<1>9. m \in Nat /\ DOMAIN rest = 1..m
  BY <1>7 DEF OnceEach
<1>10. /\ DOMAIN filled = 1..m
       /\ \A k \in 1..m : filled[k].product = rest[k].product
  BY <1>9
<1>11. filled = [k \in 1..m |-> filled[k]]
  BY <1>10
<1> HIDE DEF filled
<1>12. filled \in Seq(ToSet(filled)) /\ Len(filled) = m
  BY <1>9, <1>11, ListIsSeq
<1>13. \A k \in 1..m : filled[k].product \in Sold(artifact) \ taken
  BY <1>7, <1>9, <1>10 DEF OnceEach
<1>14. \A k, l \in 1..m : filled[k].product = filled[l].product => k = l
  BY <1>7, <1>9, <1>10 DEF OnceEach
<1>15. /\ \A k \in 1..n : list[k] = paired[k]
       /\ \A k \in (n + 1)..(n + m) : list[k] = filled[k - n]
       /\ list \in Seq(ToSet(list)) /\ Len(list) = n + m
  <2> DEFINE U == ToSet(paired) \cup ToSet(filled)
  <2>1. paired \in Seq(U) /\ filled \in Seq(U)
    BY <1>5, <1>12
  <2> HIDE DEF U
  <2>2. list \in Seq(U) /\ Len(list) = n + m
    BY <1>5, <1>9, <1>12, <2>1
  <2>3. /\ \A k \in 1..n : list[k] = paired[k]
        /\ \A k \in (n + 1)..(n + m) : list[k] = filled[k - n]
    BY <1>5, <1>9, <1>12, <2>1
  <2> HIDE DEF list
  <2>4. list = [k \in 1..(n + m) |-> list[k]]
    BY <1>9, <2>2
  <2>5. list \in Seq(ToSet(list))
    BY <1>9, <2>4, ListIsSeq
  <2>6. QED
    BY <2>2, <2>3, <2>5
<1> HIDE DEF list
<1>18. ASSUME NEW k \in 1..(n + m)
       PROVE  list[k].product \in P /\ (k > n => list[k].product \notin taken)
  <2>1. CASE k \in 1..n
    BY <1>2, <1>3, <1>15, <2>1
  <2>2. CASE k \in (n + 1)..(n + m)
    <3>1. k - n \in 1..m
      BY <1>9, <2>2
    <3>2. list[k].product \in Sold(artifact) \ taken
      BY <1>13, <1>15, <2>2, <3>1
    <3>3. QED
      BY <1>8, <3>2
  <2>3. QED
    BY <1>9, <2>1, <2>2
<1>19. ASSUME NEW k \in 1..(n + m), NEW l \in 1..(n + m), list[k].product = list[l].product
       PROVE  k = l
  <2>1. CASE k \in 1..n /\ l \in 1..n
    BY <1>2, <1>3, <1>15, <1>19, <2>1
  <2>2. CASE k > n /\ l > n
    <3>1. k - n \in 1..m /\ l - n \in 1..m
      BY <1>9, <2>2
    <3>2. list[k] = filled[k - n] /\ list[l] = filled[l - n]
      BY <1>9, <1>15, <2>2
    <3>3. k - n = l - n
      BY <1>14, <1>19, <3>1, <3>2
    <3>4. QED
      BY <3>3
  <2>3. ASSUME NEW a \in 1..n, NEW b \in 1..(n + m), b > n
        PROVE  list[a].product # list[b].product
    BY <1>3, <1>6, <1>15, <1>18, <2>3
  <2>4. QED
    BY <1>9, <1>19, <2>1, <2>2, <2>3
<1>20. OnceEach(list, P)
  BY <1>15, <1>18, <1>19 DEF OnceEach
<1>21. QED
  BY <1>1, <1>20, UptoOnce

(* The same of a product that may not be sold. *)
LEMMA RelatedOfSoldOnce ==
  ASSUME NEW artifact \in Artifacts, NEW product, NEW limit \in Nat
  PROVE  OnceEach(RelatedOfSold(artifact, product, limit), Sold(artifact) \ {product})
<1>1. OnceEach(<<>>, Sold(artifact) \ {product})
  BY DEF OnceEach, ToSet
<1>2. QED
  BY <1>1, RelatedOnce DEF RelatedOfSold

(* get_cart_recommendations: lists that each name products of P become one *)
(* list that names no product twice and nothing of the basket.             *)
LEMMA OutsideOnce ==
  ASSUME NEW m \in Nat, NEW candidates, DOMAIN candidates = 1..m, NEW P,
         \A i \in 1..m : OnceEach(candidates[i], P), NEW basket
  PROVE  OnceEach(FirstOutside(candidates, basket), P \ basket)
<1> DEFINE At(p) == candidates[p[1]][p[2]]
           Precedes(p, q) == p[1] < q[1] \/ (p[1] = q[1] /\ p[2] < q[2])
           all == UNION {{i} \X DOMAIN candidates[i] : i \in DOMAIN candidates}
           places == {p \in all : At(p).product \notin basket}
           first == {p \in places :
                       \A q \in places : Precedes(q, p) => At(q).product # At(p).product}
           before == [p \in first |-> {q \in first : Precedes(q, p)}]
           order == Ranked(first, before)
           n == Cardinality(first)
           list == FirstOutside(candidates, basket)
<1>1. \A i \in 1..m : /\ Len(candidates[i]) \in Nat
                      /\ DOMAIN candidates[i] = 1..Len(candidates[i])
                      /\ \A j \in 1..Len(candidates[i]) : candidates[i][j].product \in P
  BY DEF OnceEach
<1>2. list = [k \in DOMAIN order |-> At(order[k])]
  BY DEF FirstOutside
<1>3. IsFiniteSet(all)
  <2> DEFINE cell == [i \in 1..m |-> {i} \X DOMAIN candidates[i]]
             cells == {cell[i] : i \in 1..m}
  <2>1. all = UNION cells
    OBVIOUS
  <2>2. \A i \in 1..m : IsFiniteSet(cell[i])
    <3>1. ASSUME NEW i \in 1..m
          PROVE  IsFiniteSet(cell[i])
      <4>1. IsFiniteSet({i}) /\ IsFiniteSet(1..Len(candidates[i]))
        <5>1. 1 \in Int /\ Len(candidates[i]) \in Int
          BY <1>1
        <5>2. IsFiniteSet(1..Len(candidates[i]))
          BY <5>1, FS_Interval
        <5>3. QED
          BY <5>2, FS_Singleton
      <4>2. cell[i] = {i} \X (1..Len(candidates[i]))
        BY <1>1
      <4>3. QED
        BY <4>1, <4>2, FS_Product
    <3>2. QED
      BY <3>1
  <2> HIDE DEF cell
  <2>3. IsFiniteSet(cells)
    <3>1. IsFiniteSet(1..m)
      BY FS_Interval
    <3>2. [i \in 1..m |-> cell[i]] \in Surjection(1..m, cells)
      BY DEF Surjection
    <3>3. QED
      BY <3>1, <3>2, FS_Surjection
  <2>4. \A T \in cells : IsFiniteSet(T)
    BY <2>2
  <2> HIDE DEF cells
  <2>5. QED
    BY <2>1, <2>3, <2>4, FS_UNION
<1>4. ASSUME NEW p \in all
      PROVE  p[1] \in Nat /\ p[2] \in Nat /\ p = <<p[1], p[2]>> /\ At(p).product \in P
  <2>1. PICK i \in 1..m : p \in {i} \X DOMAIN candidates[i]
    OBVIOUS
  <2>2. p[1] = i /\ p[2] \in DOMAIN candidates[i] /\ p = <<p[1], p[2]>>
    BY <2>1
  <2>3. p[2] \in 1..Len(candidates[i])
    BY <1>1, <2>2
  <2>4. QED
    BY <1>1, <2>2, <2>3
<1>5. /\ first \subseteq all
      /\ \A p \in first : At(p).product \notin basket
  OBVIOUS
<1>6. ASSUME NEW p \in all, NEW q \in all, p # q
      PROVE  Precedes(p, q) \/ Precedes(q, p)
  BY <1>4, <1>6
<1>7. ASSUME NEW p \in all, NEW q \in all, NEW r \in all, Precedes(p, q), Precedes(q, r)
      PROVE  Precedes(p, r)
  BY <1>4, <1>7
<1>8. \A p \in all : ~Precedes(p, p)
  BY <1>4
<1>9. ASSUME NEW p \in first, NEW q \in first, At(p).product = At(q).product
      PROVE  p = q
  <2>1. ~Precedes(p, q) /\ ~Precedes(q, p)
    BY <1>9
  <2>2. QED
    BY <1>5, <1>6, <2>1
<1>10. list = [k \in DOMAIN order |-> candidates[order[k][1]][order[k][2]]]
  BY <1>2
<1> HIDE DEF Precedes, first, all, list
<1>11. IsFiniteSet(first)
  BY <1>3, <1>5, FS_Subset
<1>12. \A p \in first : before[p] = {q \in first : Precedes(q, p)}
  OBVIOUS
<1> HIDE DEF before
<1>13. \A p \in first : before[p] \subseteq first /\ p \notin before[p]
  BY <1>5, <1>8, <1>12
<1>14. ASSUME NEW p \in first, NEW q \in first, Precedes(p, q)
       PROVE  p \in before[q] /\ before[p] \subseteq before[q]
  BY <1>5, <1>7, <1>12, <1>14
<1>15. \A p, q \in first : p # q =>
           \/ p \in before[q] /\ before[p] \subseteq before[q]
           \/ q \in before[p] /\ before[q] \subseteq before[p]
  BY <1>5, <1>6, <1>14
<1>16. /\ n \in Nat /\ order \in [1..n -> first]
       /\ \A k, l \in 1..n : order[k] = order[l] => k = l
  BY <1>11, <1>13, <1>15, RankedOnce
<1> HIDE DEF order, n
<1>17. \A k \in 1..n : list[k] = At(order[k]) /\ order[k] \in first
  BY <1>10, <1>16
<1>18. list = [k \in 1..n |-> list[k]]
  BY <1>10, <1>16
<1>19. list \in Seq(ToSet(list)) /\ Len(list) = n
  BY <1>16, <1>18, ListIsSeq
<1>20. \A k \in 1..n : list[k].product \in P \ basket
  BY <1>4, <1>5, <1>17
<1>21. ASSUME NEW k \in 1..n, NEW l \in 1..n, list[k].product = list[l].product
       PROVE  k = l
  <2>1. order[k] \in first /\ order[l] \in first /\ At(order[k]).product = At(order[l]).product
    BY <1>17, <1>21
  <2>2. order[k] = order[l]
    BY <1>9, <2>1
  <2>3. QED
    BY <1>16, <2>2
<1>22. QED
  BY <1>19, <1>20, <1>21 DEF OnceEach, list

(* Of more products, too. *)
LEMMA OnceEachOfMore ==
  ASSUME NEW list, NEW P, NEW Q, OnceEach(list, P), P \subseteq Q
  PROVE  OnceEach(list, Q)
BY DEF OnceEach

(* The pairings of a basket. *)
LEMMA WithBasketOnce ==
  ASSUME NEW artifact \in Artifacts, NEW basket, basket \in Seq(ToSet(basket))
  PROVE  OnceEach(WithBasket(artifact, basket), Sold(artifact) \ ToSet(basket))
<1> DEFINE P == Sold(artifact)
           candidates == [i \in DOMAIN basket |-> RelatedOfSold(artifact, basket[i], Limits.each)]
           m == Len(basket)
<1>1. m \in Nat /\ DOMAIN basket = 1..m
  OBVIOUS
<1>2. Limits.each \in Nat /\ Limits.basket \in Nat
  BY CatalogAssumption
<1>3. DOMAIN candidates = 1..m
  BY <1>1
<1>4. ASSUME NEW i \in 1..m
      PROVE  OnceEach(candidates[i], P)
  <2>1. candidates[i] = RelatedOfSold(artifact, basket[i], Limits.each)
    BY <1>1
  <2>2. OnceEach(candidates[i], P \ {basket[i]})
    BY <1>2, <2>1, RelatedOfSoldOnce
  <2>3. P \ {basket[i]} \subseteq P
    OBVIOUS
  <2> HIDE DEF candidates
  <2>4. QED
    BY <2>2, <2>3, OnceEachOfMore
<1>5. WithBasket(artifact, basket) = Upto(FirstOutside(candidates, ToSet(basket)), Limits.basket)
  BY DEF WithBasket
<1> HIDE DEF candidates, m
<1>6. OnceEach(FirstOutside(candidates, ToSet(basket)), P \ ToSet(basket))
  BY <1>1, <1>3, <1>4, OutsideOnce
<1>7. QED
  BY <1>2, <1>5, <1>6, UptoOnce

(* What the list of a view names, each product once. *)
LEMMA ListOfOnce ==
  ASSUME NEW artifact \in Artifacts, NEW view \in Views
  PROVE  /\ OnceEach(ListOf(artifact, view), Sold(artifact))
         /\ view.page = "basket" =>
              OnceEach(ListOf(artifact, view), Sold(artifact) \ ToSet(view.basket))
         /\ view.page # "basket" =>
              OnceEach(ListOf(artifact, view), Sold(artifact) \ {view.product})
<1> DEFINE list == ListOf(artifact, view)
<1>1. CASE view.page = "basket"
  <2>1. list = WithBasket(artifact, view.basket)
    BY <1>1 DEF ListOf
  <2>2. OnceEach(list, Sold(artifact) \ ToSet(view.basket))
    BY <2>1, ViewAssumption, WithBasketOnce
  <2>3. Sold(artifact) \ ToSet(view.basket) \subseteq Sold(artifact)
    OBVIOUS
  <2>4. QED
    BY <1>1, <2>2, <2>3, OnceEachOfMore
<1>2. CASE view.page # "basket"
  <2>1. PICK limit \in Nat : list = RelatedOfSold(artifact, view.product, limit)
    <3>1. view.page = "product" \/ view.page = "recommend"
      BY <1>2, ViewAssumption
    <3>2. Limits.product \in Nat /\ Limits.recommend \in Nat
      BY CatalogAssumption
    <3>3. QED
      BY <3>1, <3>2 DEF ListOf
  <2>2. OnceEach(list, Sold(artifact) \ {view.product})
    BY <2>1, RelatedOfSoldOnce
  <2>3. Sold(artifact) \ {view.product} \subseteq Sold(artifact)
    OBVIOUS
  <2>4. QED
    BY <1>2, <2>2, <2>3, OnceEachOfMore
<1>3. QED
  BY <1>1, <1>2

(* A list is as long as it names products. *)
LEMMA OnceEachCounts ==
  ASSUME NEW list, NEW P, OnceEach(list, P)
  PROVE  /\ Cardinality({c.product : c \in ToSet(list)}) = Len(list)
         /\ {c.product : c \in ToSet(list)} \subseteq P
<1> DEFINE products == {c.product : c \in ToSet(list)}
           n == Len(list)
           named == [i \in 1..n |-> list[i].product]
<1>1. n \in Nat /\ DOMAIN list = 1..n
  BY DEF OnceEach
<1>2. products = {list[i].product : i \in 1..n}
  BY <1>1 DEF ToSet
<1> HIDE DEF products
<1>3. products \subseteq P
  BY <1>2 DEF OnceEach
<1>4. named \in [1..n -> products]
  BY <1>2
<1>5. named \in Injection(1..n, products)
  BY <1>4 DEF Injection, IsInjective, OnceEach
<1>6. named \in Surjection(1..n, products)
  BY <1>2, <1>4 DEF Surjection
<1>7. IsFiniteSet(1..n) /\ Cardinality(1..n) = n
  <2> HIDE DEF n, named
  <2>1. 1 \in Int /\ n \in Int
    BY <1>1
  <2>2. QED
    BY <1>1, <2>1, FS_Interval
<1>8. Cardinality(products) = n
  BY <1>5, <1>6, <1>7, FS_Surjection
<1>9. QED
  BY <1>3, <1>8 DEF products

(* The lists are those of the artifact that was read. *)
ListInv ==
  /\ rows \in Artifacts
  /\ lists = [view \in Views |-> ListOf(rows, view)]

(* from_records accepts the lists of any artifact. *)
LEMMA ListInvAccepts == ListInv => ListsAreAccepted
<1> SUFFICES ASSUME ListInv, NEW view \in Views
             PROVE  LET products == {c.product : c \in ToSet(lists[view])}
                    IN  /\ Cardinality(products) = Len(lists[view])
                        /\ products \subseteq Sold(rows)
                        /\ view.page = "basket" => products \cap ToSet(view.basket) = {}
                        /\ view.page # "basket" => view.product \notin products
  BY DEF ListsAreAccepted
<1> DEFINE list == ListOf(rows, view)
           products == {c.product : c \in ToSet(list)}
<1>1. rows \in Artifacts /\ lists[view] = list
  BY DEF ListInv
<1>2. /\ OnceEach(list, Sold(rows))
      /\ view.page = "basket" => OnceEach(list, Sold(rows) \ ToSet(view.basket))
      /\ view.page # "basket" => OnceEach(list, Sold(rows) \ {view.product})
  BY <1>1, ListOfOnce
<1> HIDE DEF list
<1>3. Cardinality(products) = Len(list) /\ products \subseteq Sold(rows)
  BY <1>2, OnceEachCounts
<1>4. view.page = "basket" => products \subseteq Sold(rows) \ ToSet(view.basket)
  BY <1>2, OnceEachCounts
<1>5. view.page # "basket" => products \subseteq Sold(rows) \ {view.product}
  BY <1>2, OnceEachCounts
<1> HIDE DEF products
<1>6. /\ view.page = "basket" => products \cap ToSet(view.basket) = {}
      /\ view.page # "basket" => view.product \notin products
  BY <1>4, <1>5
<1>7. QED
  BY <1>1, <1>3, <1>6 DEF products

(* Only load_data, at a start, reads the artifact. *)
LEMMA ListInvAlways == Spec => []ListInv
<1>1. Init => ListInv
  BY DEF Init, ListInv
<1>2. ListInv /\ [Next]_vars => ListInv'
  <2> SUFFICES ASSUME ListInv, [Next]_vars PROVE ListInv'
    OBVIOUS
  <2>1. CASE Restart
    BY <2>1 DEF Restart, ListInv
  <2>2. CASE UNCHANGED <<rows, lists>>
    BY <2>2 DEF ListInv
  <2>3. QED
    BY <2>1, <2>2 DEF Next, Rank, Click, Consume, vars, service
<1>3. QED
  BY <1>1, <1>2, PTL DEF Spec

-----------------------------------------------------------------------------
(* The index of impressions leads to the newest one that is kept and shows *)
(* the product to the session, or nowhere when there is none               *)
(* (InMemoryImpressionStore.record).                                       *)
THEOREM LatestExact == Spec => []LatestIsNewest
<1>1. MemoryInvariant => LatestIsNewest
  BY DEF MemoryInvariant
<1>2. QED
  BY <1>1, MemoryAlways, PTL

(* A reward goes to a decision of the shopper's session that displayed the *)
(* product, and to the very decision of the page while its server runs     *)
(* (_find_impression).                                                     *)
THEOREM RewardsMeetDecisions == Spec => []RewardMeetsDecision
<1>1. MemoryInvariant => RewardMeetsDecision
  BY DEF MemoryInvariant
<1>2. QED
  BY <1>1, MemoryAlways, PTL

(* An event is applied again only after Horizon other events               *)
(* (_processed_events).                                                    *)
THEOREM AppliedOnce == Spec => []AppliedOnceInHorizon
<1>1. MemoryInvariant => AppliedOnceInHorizon
  BY DEF MemoryInvariant
<1>2. QED
  BY <1>1, MemoryAlways, PTL

(* No list that a page asks for is refused by from_records, whatever the   *)
(* artifact, the catalog and the baskets: seen keeps a product, the viewed *)
(* one and those of the basket from being offered (again).                 *)
THEOREM ListsAccepted == Spec => []ListsAreAccepted
BY ListInvAlways, ListInvAccepts, PTL
=============================================================================

---------------------------- MODULE ActivityFeed -----------------------------
(***************************************************************************)
(* The activity log (pipeline/observability.py) and the pages that follow  *)
(* it (app/main.py, viewer.js, marketplace.js).  A page takes a snapshot   *)
(* and then a stream from its cursor; the log is trimmed meanwhile, the    *)
(* connection breaks, Redis goes away and comes back.                      *)
(*                                                                         *)
(* The id of an entry is its place in the log.  An EventSource opens its   *)
(* connection again when it breaks, and gives up when the answer is not    *)
(* 200.                                                                    *)
(***************************************************************************)
EXTENDS Naturals, Sequences, FiniteSets

CONSTANTS
  Rooms,          \* pages of the Signal Room, which see everything
  Stores,         \* pages of the storefront, which see their session
  Sessions, Owner,
  Traffic,        \* entries the consumer records
  MaxEvents,      \* retention of the log, at least
  Limit,          \* rows of a snapshot
  Batch,          \* rows of one XREAD
  MaxEntries, MaxFaults       \* bounds

Pages == Rooms \cup Stores

Kinds == {"event_received", "coupon_issued", "coupon_suppressed"}

ASSUME FeedAssumption ==
  /\ Rooms \cap Stores = {}
  /\ Owner \in [Stores -> Sessions]
  /\ Traffic \subseteq [kind : Kinds, session : Sessions]
  /\ MaxEvents \in Nat \ {0} /\ Limit \in Nat \ {0} /\ Batch \in Nat \ {0}
  /\ MaxEntries \in Nat /\ MaxFaults \in Nat

VARIABLES
  (* Redis *)
  up,
  log,            \* everything that was recorded
  trimmed,        \* how many of it the stream has dropped
  counts,         \* mba:observer:counts
  (* the pages *)
  step,
  tape,           \* ids the page was given since it was loaded, in this order
  metrics,        \* counters of a room
  since,          \* cursor of the snapshot
  lastEvent,      \* Last-Event-ID of the EventSource, 0 before its first message
  (* the stream the server sends to a page *)
  follow,         \* last_id of follow
  batch,          \* rows that were read and not sent
  faults

redisVars == <<up, log, trimmed, counts>>
streamVars == <<follow, batch>>

vars == <<up, log, trimmed, counts, step, tape, metrics, since, lastEvent,
          follow, batch, faults>>

Steps == {"start", "listed", "connecting", "open", "closed"}

NoCounts == [k \in Kinds |-> 0]

Ids == 1..Len(log)

TypeOK ==
  /\ up \in BOOLEAN
  /\ log \in Seq(Traffic)
  /\ trimmed \in 0..Len(log)
  /\ counts \in [Kinds -> Nat]
  /\ step \in [Pages -> Steps]
  /\ tape \in [Pages -> Seq(Ids)]
  /\ metrics \in [Pages -> [Kinds -> Nat]]
  /\ since \in [Pages -> 0..Len(log)]
  /\ lastEvent \in [Pages -> 0..Len(log)]
  /\ follow \in [Pages -> 0..Len(log)]
  /\ batch \in [Pages -> Seq(Ids)]
  /\ faults \in Nat

Init ==
  /\ up = TRUE
  /\ log = <<>> /\ trimmed = 0 /\ counts = NoCounts
  /\ step = [p \in Pages |-> "start"]
  /\ tape = [p \in Pages |-> <<>>]
  /\ metrics = [p \in Pages |-> NoCounts]
  /\ since = [p \in Pages |-> 0]
  /\ lastEvent = [p \in Pages |-> 0]
  /\ follow = [p \in Pages |-> 0]
  /\ batch = [p \in Pages |-> <<>>]
  /\ faults = 0

Fault == faults < MaxFaults /\ faults' = faults + 1

-----------------------------------------------------------------------------
(* The log.                                                                *)

InScope(p, i) == p \in Stores => log[i].session = Owner[p]

(* The n largest, the n smallest of S. *)
Latest(S, n) == {i \in S : Cardinality({j \in S : j > i}) < n}
Earliest(S, n) == {i \in S : Cardinality({j \in S : j < i}) < n}

IsAscending(s) == \A i, j \in 1..Len(s) : i < j => s[i] < s[j]

(* S in the order of the stream: this set has one element. *)
InOrder(S) ==
  {s \in [1..Cardinality(S) -> S] :
     IsAscending(s) /\ \A i \in S : \E n \in 1..Cardinality(S) : s[n] = i}

Retained == {i \in Ids : i > trimmed}

(* One transaction of XADD and HINCRBY.  Trimming is approximate: it may   *)
(* leave more than MaxEvents.                                              *)
Record(e) ==
  /\ up /\ Len(log) < MaxEntries
  /\ log' = Append(log, e)
  /\ counts' = [counts EXCEPT ![e.kind] = @ + 1]
  /\ \E t \in trimmed..Len(log) :
       /\ t = trimmed \/ Len(log') - t >= MaxEvents
       /\ trimmed' = t
  /\ UNCHANGED <<up, step, tape, metrics, since, lastEvent, streamVars, faults>>

(* Redis goes away, with what it holds, and comes back. *)
Stop ==
  /\ up /\ Fault /\ up' = FALSE
  /\ UNCHANGED <<log, trimmed, counts, step, tape, metrics, since, lastEvent, streamVars>>

Resume ==
  /\ ~up /\ up' = TRUE
  /\ UNCHANGED <<log, trimmed, counts, step, tape, metrics, since, lastEvent,
                 streamVars, faults>>

-----------------------------------------------------------------------------
(* The snapshot.                                                           *)

(* XREVRANGE takes more rows for a session, as it filters them. *)
Listed(p) ==
  IF p \in Rooms THEN Latest(Retained, Limit)
  ELSE Latest({i \in Latest(Retained, MaxEvents) : InScope(p, i)}, Limit)

LastOr0(s) == IF s = <<>> THEN 0 ELSE s[Len(s)]

(* A wrong variant, next to the two below, reads the counters first. *)
CountsFirst(p) ==
  /\ step[p] \in {"start", "listed"} /\ up
  /\ \/ /\ step[p] = "start" /\ p \in Rooms
        /\ metrics' = [metrics EXCEPT ![p] = counts]
        /\ step' = [step EXCEPT ![p] = "listed"]
        /\ UNCHANGED <<tape, since>>
     \/ /\ step[p] = "listed" \/ p \in Stores
        /\ \E rows \in InOrder(Listed(p)) :
             /\ tape' = [tape EXCEPT ![p] = rows]
             /\ since' = [since EXCEPT ![p] = LastOr0(rows)]
        /\ step' = [step EXCEPT ![p] = "connecting"]
        /\ UNCHANGED metrics
  /\ UNCHANGED <<redisVars, lastEvent, streamVars, faults>>

(* The rows.  Those of a session are the whole answer: its counters come   *)
(* from them, and the storefront shows none.                               *)
List(p) ==
  /\ step[p] = "start" /\ up
  /\ \E rows \in InOrder(Listed(p)) :
       /\ tape' = [tape EXCEPT ![p] = rows]
       /\ since' = [since EXCEPT ![p] = LastOr0(rows)]
  /\ step' = [step EXCEPT ![p] = IF p \in Rooms THEN "listed" ELSE "connecting"]
  /\ UNCHANGED <<redisVars, metrics, lastEvent, streamVars, faults>>

(* HGETALL, later: the counters may be ahead of the rows. *)
Count(p) ==
  /\ step[p] = "listed" /\ up
  /\ metrics' = [metrics EXCEPT ![p] = counts]
  /\ step' = [step EXCEPT ![p] = "connecting"]
  /\ UNCHANGED <<redisVars, tape, since, lastEvent, streamVars, faults>>

Snapshot(p) == List(p) \/ Count(p)

(* A page without a snapshot: a room tries again in four seconds, the      *)
(* storefront goes on without activity.                                    *)
NoSnapshot(p) ==
  /\ step[p] \in {"start", "listed"}
  /\ tape' = [tape EXCEPT ![p] = <<>>]
  /\ since' = [since EXCEPT ![p] = 0]
  /\ step' = [step EXCEPT ![p] = IF p \in Rooms THEN "start" ELSE "closed"]
  /\ UNCHANGED <<redisVars, metrics, lastEvent, streamVars>>

SnapshotRefused(p) == ~up /\ NoSnapshot(p) /\ UNCHANGED faults

SnapshotLost(p) == Fault /\ NoSnapshot(p)

-----------------------------------------------------------------------------
(* The stream.                                                             *)

(* A wrong variant ignores the header. *)
CursorOfUrl(p) == since[p]

(* The server begins after Last-Event-ID, or the cursor of the address. *)
Cursor(p) == IF lastEvent[p] # 0 THEN lastEvent[p] ELSE since[p]

(* A wrong variant is one off. *)
ConnectAfter(p) ==
  /\ step[p] = "connecting" /\ up
  /\ follow' = [follow EXCEPT ![p] = Cursor(p) + 1]
  /\ step' = [step EXCEPT ![p] = "open"]
  /\ UNCHANGED <<redisVars, tape, metrics, since, lastEvent, batch, faults>>

(* The first connection, or one after it broke. *)
Connect(p) ==
  /\ step[p] = "connecting" /\ up
  /\ follow' = [follow EXCEPT ![p] = Cursor(p)]
  /\ step' = [step EXCEPT ![p] = "open"]
  /\ UNCHANGED <<redisVars, tape, metrics, since, lastEvent, batch, faults>>

(* PING raises, the answer is 503. *)
Refuse(p) ==
  /\ step[p] = "connecting" /\ ~up
  /\ step' = [step EXCEPT ![p] = "closed"]
  /\ UNCHANGED <<redisVars, tape, metrics, since, lastEvent, streamVars, faults>>

Ahead(p) == {i \in Retained : i > follow[p]}

(* XREAD after the last row, which blocks while there is none. *)
Read(p) ==
  /\ step[p] = "open" /\ up /\ batch[p] = <<>>
  /\ \E rows \in InOrder(Earliest(Ahead(p), Batch)) :
       /\ rows # <<>>
       /\ batch' = [batch EXCEPT ![p] = rows]
       /\ follow' = [follow EXCEPT ![p] = LastOr0(rows)]
  /\ UNCHANGED <<redisVars, step, tape, metrics, since, lastEvent, faults>>

(* A row of another session is passed over. *)
Skip(p) ==
  /\ step[p] = "open" /\ batch[p] # <<>> /\ ~InScope(p, Head(batch[p]))
  /\ batch' = [batch EXCEPT ![p] = Tail(@)]
  /\ UNCHANGED <<redisVars, step, tape, metrics, since, lastEvent, follow, faults>>

(* The others are sent, and the page appends them; a room counts them. *)
Deliver(p) ==
  /\ step[p] = "open" /\ batch[p] # <<>> /\ InScope(p, Head(batch[p]))
  /\ batch' = [batch EXCEPT ![p] = Tail(@)]
  /\ tape' = [tape EXCEPT ![p] = Append(@, Head(batch[p]))]
  /\ lastEvent' = [lastEvent EXCEPT ![p] = Head(batch[p])]
  /\ metrics' = IF p \in Rooms
                THEN [metrics EXCEPT ![p][log[Head(batch[p])].kind] = @ + 1]
                ELSE metrics
  /\ UNCHANGED <<redisVars, step, since, follow, faults>>

(* XREAD raises, the stream ends. *)
Broken(p) ==
  /\ step[p] = "open" /\ ~up /\ batch[p] = <<>>
  /\ step' = [step EXCEPT ![p] = "connecting"]
  /\ UNCHANGED <<redisVars, tape, metrics, since, lastEvent, streamVars, faults>>

(* A wrong variant does not connect again. *)
LoseForGood(p) ==
  /\ step[p] = "open" /\ Fault
  /\ step' = [step EXCEPT ![p] = "closed"]
  /\ batch' = [batch EXCEPT ![p] = <<>>]
  /\ UNCHANGED <<redisVars, tape, metrics, since, lastEvent, follow>>

(* The connection breaks, with what is on the way. *)
Lose(p) ==
  /\ step[p] = "open" /\ Fault
  /\ step' = [step EXCEPT ![p] = "connecting"]
  /\ batch' = [batch EXCEPT ![p] = <<>>]
  /\ UNCHANGED <<redisVars, tape, metrics, since, lastEvent, follow>>

(* The page is loaded again, or another one of the shop. *)
Load(p) ==
  /\ step[p] # "start" /\ Fault
  /\ step' = [step EXCEPT ![p] = "start"]
  /\ tape' = [tape EXCEPT ![p] = <<>>]
  /\ metrics' = [metrics EXCEPT ![p] = NoCounts]
  /\ since' = [since EXCEPT ![p] = 0]
  /\ lastEvent' = [lastEvent EXCEPT ![p] = 0]
  /\ batch' = [batch EXCEPT ![p] = <<>>]
  /\ UNCHANGED <<redisVars, follow>>

-----------------------------------------------------------------------------

(* What a page and its server do by themselves. *)
Proceeds(p) ==
  \/ Snapshot(p) \/ SnapshotRefused(p) \/ Connect(p) \/ Refuse(p)
  \/ Read(p) \/ Skip(p) \/ Deliver(p) \/ Broken(p)

Next ==
  \/ \E e \in Traffic : Record(e)
  \/ Stop \/ Resume
  \/ \E p \in Pages : Proceeds(p) \/ SnapshotLost(p) \/ Lose(p) \/ Load(p)

Spec == Init /\ [][Next]_vars

(* Redis is started again, pages go on.  Nobody has to shop. *)
Fairness == WF_vars(Resume) /\ \A p \in Pages : WF_vars(Proceeds(p))

FairSpec == Spec /\ Fairness

-----------------------------------------------------------------------------
(* What pages show.                                                        *)

Shown(p) == {tape[p][i] : i \in 1..Len(tape[p])}

(* No entry twice, none after a later one, whatever connections break: a   *)
(* room would count it twice, and show an old decision as the latest.      *)
TapeAscends == \A p \in Pages : IsAscending(tape[p])

(* Between the first and the last entry that a page shows it misses only   *)
(* what the log has dropped before the page asked for it.                  *)
OnlyTrimmedIsMissed ==
  \A p \in Pages : \A i \in Retained :
    InScope(p, i) /\ tape[p] # <<>> /\ tape[p][1] < i /\ i < LastOr0(tape[p])
      => i \in Shown(p)

(* A storefront shows the activity of its session only. *)
OwnActivityOnly == \A p \in Stores : \A i \in Shown(p) : log[i].session = Owner[p]

(* Where the page is on its way through the log; after the connection      *)
(* broke it goes on behind what it has shown.                              *)
StreamInv ==
  \A p \in Pages :
    /\ Cursor(p) = LastOr0(tape[p])
    /\ step[p] \in {"start", "listed"} => lastEvent[p] = 0
    /\ step[p] = "start" => tape[p] = <<>>
    /\ step[p] # "open" => batch[p] = <<>>
    /\ step[p] = "open" =>
         /\ IsAscending(batch[p])
         /\ Cursor(p) <= follow[p]
         /\ \A n \in 1..Len(batch[p]) : Cursor(p) < batch[p][n] /\ batch[p][n] <= follow[p]
         /\ \A i \in Retained :
              InScope(p, i) /\ Cursor(p) < i /\ i <= follow[p]
                => \E n \in 1..Len(batch[p]) : batch[p][n] = i

FeedInvariant ==
  /\ TapeAscends /\ OnlyTrimmedIsMissed /\ OwnActivityOnly /\ StreamInv

OfKind(S, k) == {i \in S : log[i].kind = k}

(* The counters of Redis count the log, and those of a room everything     *)
(* before its snapshot and every row it was given since.                   *)
CountInv ==
  /\ \A k \in Kinds : counts[k] = Cardinality(OfKind(Ids, k))
  /\ \A p \in Rooms : step[p] \in {"connecting", "open"} =>
       \A k \in Kinds :
         Cardinality(OfKind({i \in Ids : i <= since[p] \/ i \in Shown(p)}, k)) <= metrics[p][k]

(* The counters of a room may be ahead of its tape, by what was recorded   *)
(* between the two reads of the snapshot; they are never behind it, except *)
(* for entries the room has missed.                                        *)
CountersCoverTape ==
  \A p \in Rooms : step[p] \in {"connecting", "open"} =>
    LET missed == {i \in Ids : i > since[p] /\ i \notin Shown(p)}
    IN  \A k \in Kinds :
          metrics[p][k] >= Cardinality(OfKind({i \in Ids : i <= Cursor(p)} \ missed, k))

CaughtUp(p) ==
  /\ step[p] = "open"
  /\ \A i \in Retained : InScope(p, i) => i <= LastOr0(tape[p])

(* A page that has its snapshot gets to the end of the log while Redis is  *)
(* there, however often it loses the connection, and a room gets its       *)
(* snapshot in the end, however often Redis went away.                     *)
PagesFollow ==
  /\ []up => \A p \in Pages : step[p] = "connecting" ~> (CaughtUp(p) \/ step[p] = "start")
  /\ \A p \in Rooms : step[p] = "start" ~> step[p] = "connecting"

(* README.md:44: live offers and the evidence of the Signal Room resume    *)
(* when the stack is available.                                            *)
EvidenceResumes == \A p \in Pages : <>[]up => []<>CaughtUp(p)
=============================================================================

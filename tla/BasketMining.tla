---------------------------- MODULE BasketMining ----------------------------
(***************************************************************************)
(* The computations of pipeline/spark_bootstrap.py on the six source       *)
(* tables, from the slice that is read to the rules and the ALS candidates *)
(* that are exported.  A table is a set of rows; the field row tells rows  *)
(* with equal columns apart, and sound stands for the checks of a row on   *)
(* its own (required values, positive identifiers, domains).  Metrics are  *)
(* percentages, rounded down.                                              *)
(***************************************************************************)
EXTENDS Integers, FiniteSets

CONSTANTS
  Mode, SampleOrders,          \* --mode, --sample-orders
  MinSupport, MinConfidence,   \* --min-support, --min-confidence, in percent
  SkipAls, TopK,               \* --skip-als, --als-top-k
  Blank                        \* the name of a product that no row names

ASSUME MiningAssumption ==
  /\ Mode \in {"sample", "full"} /\ SkipAls \in BOOLEAN
  /\ SampleOrders \in Nat \ {0} /\ TopK \in Nat
  /\ MinSupport \in 1..100 /\ MinConfidence \in 0..100

Least(n, k) == IF n < k THEN n ELSE k

(* The values of a column. *)
Column(rows, name) == {r[name] : r \in rows}

(* Two rows agree on the columns of a primary key. *)
Repeats(rows, key) == \E r, s \in rows : r # s /\ \A c \in key : r[c] = s[c]

-----------------------------------------------------------------------------
(* Reading and checking. *)

(* The first SampleOrders orders and their lines; products, aisles and     *)
(* departments are never cut.                                              *)
Bounded(t) ==
  LET Before(o, p) == \/ o.order_id < p.order_id
                      \/ o.order_id = p.order_id /\ o.row < p.row
      chosen == {p \in t.orders : Cardinality({o \in t.orders : Before(o, p)}) < SampleOrders}
      Kept(lines) == {l \in lines : l.order_id \in Column(chosen, "order_id")}
  IN  IF Mode = "full" THEN t
      ELSE [t EXCEPT !.orders = chosen, !.prior = Kept(@), !.train = Kept(@)]

(* A row that refers to nothing, anywhere in the source.                   *)
Dangling(source) ==
  \/ ~ Column(source.products, "aisle_id") \subseteq Column(source.aisles, "aisle_id")
  \/ ~ Column(source.products, "department_id") \subseteq
         Column(source.departments, "department_id")
  \/ \E l \in source.prior \cup source.train :
       \/ l.order_id \notin Column(source.orders, "order_id")
       \/ l.product_id \notin Column(source.products, "product_id")

(* An order of the slice with a line in the table of another eval_set.     *)
Mismatched(t) ==
  \E o \in t.orders :
    \/ o.eval_set # "prior" /\ o.order_id \in Column(t.prior, "order_id")
    \/ o.eval_set # "train" /\ o.order_id \in Column(t.train, "order_id")

(* A wrong variant leaves the foreign keys out.                            *)
PassedOnSlice(t, source) ==
  ~Mismatched(t) /\ \A table \in DOMAIN t : \A r \in t[table] : r.sound

(* violation_count == 0: foreign keys are checked on the whole source, the *)
(* rest on the slice.                                                      *)
Passed(t, source) ==
  /\ \A table \in DOMAIN t : \A r \in t[table] : r.sound
  /\ ~Repeats(t.aisles, {"aisle_id"}) /\ ~Repeats(t.departments, {"department_id"})
  /\ ~Repeats(t.products, {"product_id"}) /\ ~Repeats(t.orders, {"order_id"})
  /\ ~Repeats(t.prior, {"order_id", "product_id"})
  /\ ~Repeats(t.train, {"order_id", "product_id"})
  /\ ~Dangling(source)
  /\ ~Mismatched(t)

-----------------------------------------------------------------------------
(* Baskets and rules. *)

(* Both line tables without repeated lines, joined with their orders.      *)
Transactions(t) ==
  {<<x[1].order_id, x[1].user_id, x[1].eval_set, x[2].product_id>> :
     x \in {y \in t.orders \X (t.prior \cup t.train) : y[1].order_id = y[2].order_id}}

(* One basket per order, its items as a set. *)
Baskets(transactions) ==
  {[order |-> <<x[1], x[2], x[3]>>,
    items |-> {y[4] : y \in {z \in transactions : <<z[1], z[2], z[3]>> = <<x[1], x[2], x[3]>>}}] :
     x \in transactions}

Frequency(baskets, items) == Cardinality({b \in baskets : items \subseteq b.items})

(* What FP-Growth yields: rules with one consequent, frequent and confident. *)
AssociationRules(baskets) ==
  LET products == UNION {b.items : b \in baskets}
  IN  {r \in [antecedent : SUBSET products \ {{}}, consequent : {{p} : p \in products}] :
         /\ r.antecedent \cap r.consequent = {}
         /\ 100 * Frequency(baskets, r.antecedent \cup r.consequent)
              >= MinSupport * Cardinality(baskets)
         /\ 100 * Frequency(baskets, r.antecedent \cup r.consequent)
              >= MinConfidence * Frequency(baskets, r.antecedent)}

(* The products table names an identifier, or its name stays null.         *)
NameOf(products, id) == IF id \in Column(products, "product_id") THEN id ELSE Blank

(* The rows of the serving artifact: one-item rules, with their names,     *)
(* written in the order of their identifiers.                              *)
MineRules(baskets, products) ==
  LET bought == UNION {b.items : b \in baskets}
      implied == {pair \in bought \X bought :
                  [antecedent |-> {pair[1]}, consequent |-> {pair[2]}]
                    \in AssociationRules(baskets)}
      Until(a, c) == {pair \in implied : pair[1] < a \/ (pair[1] = a /\ pair[2] =< c)}
      Mined(a, c) ==
        [line       |-> Cardinality(Until(a, c)),
         antecedent |-> NameOf(products, a), consequent |-> NameOf(products, c),
         support    |-> (100 * Frequency(baskets, {a, c})) \div Cardinality(baskets),
         confidence |-> (100 * Frequency(baskets, {a, c})) \div Frequency(baskets, {a}),
         lift       |-> (100 * Frequency(baskets, {a, c}) * Cardinality(baskets))
                          \div (Frequency(baskets, {a}) * Frequency(baskets, {c}))]
  IN  {Mined(pair[1], pair[2]) : pair \in implied}

-----------------------------------------------------------------------------
(* ALS candidates. *)

Users(transactions) == {x[2] : x \in transactions}
Bought(transactions, user) == {x[4] : x \in {y \in transactions : y[2] = user}}
Known(transactions) == {x[4] : x \in transactions}

(* candidates is not None: the slice has enough to train on.               *)
Trains(transactions) ==
  /\ ~SkipAls
  /\ Cardinality(Users(transactions)) >= 2
  /\ Cardinality(Known(transactions)) >= 2
  /\ Cardinality({<<x[2], x[4]>> : x \in transactions}) >= 4

(* A wrong variant asks the model for TopK products of each user.          *)
PoolOfTopK(transactions) == Least(Cardinality(Known(transactions)), TopK)

(* How many products the model recommends to a user: enough to fill TopK   *)
(* after those already bought are taken out, for the user with the most.   *)
Pool(transactions) ==
  LET counts == {Cardinality(Bought(transactions, u)) : u \in Users(transactions)}
      most   == CHOOSE n \in counts : \A k \in counts : k =< n
  IN  Least(Cardinality(Known(transactions)), TopK + most)

(* The best n of a set of products; place is the place of a product in the *)
(* order of the model's scores.                                            *)
Best(products, place, n) ==
  {p \in products : Cardinality({q \in products : place[q] < place[p]}) < n}

(* The products exported for a user whose scores put products in an order. *)
Candidates(transactions, user, place) ==
  Best(Best(Known(transactions), place, Pool(transactions)) \ Bought(transactions, user),
       place, TopK)
=============================================================================

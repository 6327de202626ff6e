--------------------------- MODULE BacktestProofs ---------------------------
(***************************************************************************)
(* Theorems about the engine (BacktestEngine) and about what feeds it      *)
(* (BacktestFeed), two components with no state in common.                 *)
(*                                                                         *)
(* The engine, for any number of symbols and frames, any plans, bars and   *)
(* cash. The invariant that carries its theorems says which lists of       *)
(* orders are empty in which pass (Passes), that no two orders under way   *)
(* have the same key (Unique), that the orders which the pending pass      *)
(* tries were made before the current frame (Waiting), and that each order *)
(* under way is owed one event (Tally).                                    *)
(*                                                                         *)
(* The feed, for any rows of any number of providers, any calendar and any *)
(* request. The invariant FeedIInv says of each row of the store where it  *)
(* is: still to be read, in the cursor, in the aggregates of the current   *)
(* period, in the frame that waits for the engine, or in the series.       *)
(***************************************************************************)
EXTENDS BacktestEngine, BacktestFeed, FiniteSetTheorems, Induction

Passes ==
  /\ phase = "clock" => queue = <<>> /\ kept = <<>>
  /\ phase = "fill" => pending = <<>>
  /\ phase \in {"place", "done"} => kept = <<>>
  /\ phase = "done" => queue = <<>> /\ pending = <<>>
  /\ phase # "clock" => frame > 0
  /\ plan.fill = "next_open" => phase # "place"

Distinct(orders) == \A i, j \in DOMAIN orders : SameKey(orders[i], orders[j]) => i = j

Apart(orders, others) ==
  \A i \in DOMAIN orders : \A j \in DOMAIN others : ~SameKey(orders[i], others[j])

Unique ==
  plan.fill = "next_open" =>
    Distinct(kept) /\ Distinct(queue) /\ Distinct(pending) /\ Apart(kept, queue)

\* The orders made up to frame n.
Born(n) == {o \in Orders : o.born <= n}

\* The orders of this frame.
Fresh == {o \in Orders : o.born = frame}

Waiting ==
  /\ pending \in Seq(Born(frame)) /\ queue \in Seq(Born(frame)) /\ kept \in Seq(Born(frame))
  /\ phase = "fill" => queue \in Seq(Born(frame - 1)) /\ kept \in Seq(Born(frame - 1))

Tally == plan.fill = "next_open" => owed = Len(kept) + Len(queue) + Len(pending)

\* A fixed fee is never more than one unit brings. No validation of a plan asks for that.
FeesCovered == \A b \in Bars(plan) : b.kind = "live" => plan.fee <= b.price

\* The cash of a plan whose fees are covered never turns negative.
CashNeverNegative == FeesCovered => cash >= 0

IInv == TypeOK /\ Passes /\ Waiting /\ Unique /\ Tally /\ CashNeverNegative

-----------------------------------------------------------------------------
(* The operators                                                           *)

\* The smaller and the greater of two numbers.
LEMMA MinOfTwo ==
  ASSUME NEW a \in Int, NEW b \in Int
  PROVE  /\ Min({a, b}) \in {a, b} /\ Min({a, b}) <= a /\ Min({a, b}) <= b
         /\ Max({a, b}) \in {a, b} /\ Max({a, b}) >= a /\ Max({a, b}) >= b
<1>1. \E x \in {a, b} : \A y \in {a, b} : x <= y
  BY a <= b \/ b <= a
<1>2. \E x \in {a, b} : \A y \in {a, b} : x >= y
  BY a <= b \/ b <= a
<1>3. Min({a, b}) \in {a, b} /\ \A y \in {a, b} : Min({a, b}) <= y
  BY <1>1 DEF Min
<1>4. Max({a, b}) \in {a, b} /\ \A y \in {a, b} : Max({a, b}) >= y
  BY <1>2 DEF Max
<1>. QED BY <1>3, <1>4

\* The positive part of a number is natural.
LEMMA PositivePart == ASSUME NEW x \in Int PROVE Max({0, x}) \in Nat
<1>. DEFINE zero == 0
<1>1. zero \in Int
  OBVIOUS
<1>. HIDE DEF zero
<1>2. Max({zero, x}) \in {zero, x} /\ Max({zero, x}) >= zero
  BY <1>1, MinOfTwo
<1>. QED BY <1>2 DEF zero

\* Some quantity can always be paid for, if only none.
LEMMA AffordableBound ==
  ASSUME NEW max \in Nat, NEW price \in Nat
  PROVE  /\ Affordable(max, price) \in 0..max
         /\ Affordable(max, price) = 0 \/ Affordable(max, price) * price + plan.fee <= cash
<1>. DEFINE S == {0} \cup {q \in 1..max : q * price + plan.fee <= cash}
<1>1. S \in SUBSET (0..max) /\ S # {}
  OBVIOUS
<1>2. \E x \in S : \A y \in S : x >= y
  <2>. HIDE DEF S
  <2>. QED BY <1>1, GreatestExists
<1>3. Max(S) \in S
  <2>. HIDE DEF S
  <2>. QED BY <1>2 DEF Max
<1>4. Affordable(max, price) = Max(S)
  BY DEF Affordable
<1>. QED BY <1>1, <1>3, <1>4

\* The parts of a plan, by their types.
LEMMA PlanType ==
  ASSUME TypeOK
  PROVE  /\ plan.symbols \in Nat \ {0}
         /\ plan.fill \in {"next_open", "same_close"}
         /\ plan.size \in 1..100 /\ plan.fee \in Nat /\ plan.maxWeight \in Nat
BY BacktestAssumption DEF TypeOK

\* The parts of a bar, by their types.
LEMMA BarType ==
  ASSUME TypeOK, NEW s \in Symbols
  PROVE  /\ bars[s].kind \in {"none", "idle", "unreached", "live"}
         /\ bars[s].price \in Nat /\ (bars[s].price = 0 <=> bars[s].kind = "none")
         /\ bars[s].cap \in Nat
<1>1. plan \in Plans /\ bars[s] \in Bars(plan)
  BY DEF TypeOK
<1>2. bars[s] \in UNION {Bars(p) : p \in Plans}
  BY <1>1
<1>. QED BY <1>2, BacktestAssumption

\* Equity is a number.
LEMMA EquityType == ASSUME TypeOK PROVE Equity \in Int
<1>. DEFINE n == plan.symbols
            step == [s \in 1..n |-> [x \in Int |-> x + pos[s] * Price(s)]]
            P(f) == f = [s \in 0..n |-> IF s = 0 THEN cash ELSE f[s - 1] + pos[s] * Price(s)]
            c == CHOOSE f : P(f)
<1>1. n \in Nat /\ cash \in Int
  BY PlanType DEF TypeOK
<1>2. \A s \in 1..n : pos[s] * Price(s) \in Int
  <2>1. ASSUME NEW s \in 1..n PROVE pos[s] \in Nat /\ Price(s) \in Nat
    BY BarType DEF TypeOK, Symbols, Price
  <2>. QED BY <2>1
<1>3. step \in [1..n -> [Int -> Int]]
  BY <1>2
<1>4. PICK g \in [0..n -> Int] : g[0] = cash /\ \A s \in 1..n : g[s] = step[s][g[s - 1]]
  <2>1. Recursions(n, Int, cash, step) # {}
    <3>. HIDE DEF n, step
    <3>. QED BY <1>1, <1>3, RecursionExists
  <2>. HIDE DEF n, step
  <2>. QED BY <2>1 DEF Recursions
<1>5. P(g)
  <2>1. ASSUME NEW s \in 0..n PROVE g[s] = IF s = 0 THEN cash ELSE g[s - 1] + pos[s] * Price(s)
    <3>1. CASE s = 0
      BY <1>4, <3>1
    <3>2. CASE s # 0
      <4>1. s \in 1..n /\ g[s - 1] \in Int
        BY <1>1, <1>4, <3>2
      <4>. QED BY <1>4, <3>2, <4>1
    <3>. QED BY <3>1, <3>2
  <2>. QED BY <1>4, <2>1
<1>6. P(c)
  <2>. HIDE DEF P
  <2>. QED BY <1>5
<1>7. Equity = c[n]
  BY DEF Equity
<1>. HIDE DEF c
<1>. DEFINE K == {k \in Nat : k <= n => c[k] \in Int}
<1>8. 0 \in K
  BY <1>1, <1>6
<1>9. ASSUME NEW k \in Nat, k \in K PROVE k + 1 \in K
  <2>1. SUFFICES ASSUME k + 1 <= n PROVE c[k + 1] \in Int
    OBVIOUS
  <2>2. c[k + 1] = c[k] + pos[k + 1] * Price(k + 1)
    BY <1>1, <1>6, <2>1
  <2>3. c[k] \in Int /\ pos[k + 1] * Price(k + 1) \in Int
    BY <1>1, <1>2, <1>9, <2>1
  <2>. QED BY <2>2, <2>3
<1>10. Nat \subseteq K
  <2>. HIDE DEF K
  <2>. QED BY <1>8, <1>9, SetInduction
<1>. QED BY <1>1, <1>7, <1>10

\* What can be filled of an order: no more than was wanted, than the cash pays for and
\* than there is to sell.
LEMMA ExecuteFills ==
  ASSUME TypeOK, NEW o \in Orders,
         bars[o.sym].kind \in {"unreached", "live"}, Execute(o).why = "fill"
  PROVE  /\ Execute(o).qty \in Nat \ {0} /\ Execute(o).wanted \in Nat
         /\ Execute(o).qty <= Execute(o).wanted
         /\ bars[o.sym].kind = "live"
         /\ o.side = "buy" => Execute(o).qty * Price(o.sym) + plan.fee <= cash
         /\ o.side = "sell" => Execute(o).qty <= pos[o.sym]
<1>. DEFINE b    == bars[o.sym]
            want == IF o.side = "buy" THEN o.amount \div b.price
                    ELSE IF o.qty = 0 \/ o.qty > pos[o.sym] THEN pos[o.sym] ELSE o.qty
            cut  == Min({want, b.cap})
            got  == IF o.side = "buy" THEN Affordable(cut, b.price) ELSE cut
<1>1. /\ o.sym \in Symbols /\ o.side \in {"buy", "sell"} /\ o.amount \in Nat /\ o.qty \in Nat
      /\ pos[o.sym] \in Nat
  BY DEF Orders, TypeOK
<1>2. b.price \in Nat \ {0} /\ b.cap \in Nat
  BY <1>1, BarType
<1>3. want \in Nat /\ (o.side = "sell" => want <= pos[o.sym])
  <2>1. o.amount \div b.price \in Nat
    <3>. HIDE DEF b
    <3>. QED BY <1>1, <1>2
  <2>. QED BY <1>1, <2>1
<1>. HIDE DEF want
<1>4. cut \in Nat /\ cut <= want
  <2>1. want \in Int /\ b.cap \in Int
    BY <1>2, <1>3
  <2>2. cut \in {want, b.cap} /\ cut <= want
    BY <2>1, MinOfTwo
  <2>. HIDE DEF cut, b
  <2>. QED BY <1>2, <1>3, <2>2
<1>. HIDE DEF cut
<1>5. /\ got \in 0..cut
      /\ o.side = "buy" => got = 0 \/ got * b.price + plan.fee <= cash
  <2>1. /\ Affordable(cut, b.price) \in 0..cut
        /\ Affordable(cut, b.price) = 0 \/ Affordable(cut, b.price) * b.price + plan.fee <= cash
    <3>. HIDE DEF b
    <3>. QED BY <1>2, <1>4, AffordableBound
  <2>. QED BY <1>4, <2>1
<1>. HIDE DEF got
<1>6. Execute(o) = CASE b.kind = "unreached"                  -> Refused("not_reached")
                     [] b.kind = "live" /\ ~o.ready           -> Refused("slippage_atr_not_ready")
                     [] b.kind = "live" /\ o.ready /\ got = 0 -> Refused("quantity_is_zero")
                     [] b.kind = "live" /\ o.ready /\ got > 0 ->
                          [why |-> "fill", qty |-> got, wanted |-> want, partial |-> cut < want]
  BY DEF Execute, got, cut, want
<1>7. /\ b.kind = "live" /\ got > 0
      /\ Execute(o) = [why |-> "fill", qty |-> got, wanted |-> want, partial |-> cut < want]
  <2>1. CASE b.kind = "unreached"
    BY <1>6, <2>1 DEF Refused
  <2>2. CASE b.kind = "live" /\ ~o.ready
    BY <1>6, <2>2 DEF Refused
  <2>3. CASE b.kind = "live" /\ o.ready /\ got = 0
    BY <1>6, <2>3 DEF Refused
  <2>4. CASE b.kind = "live" /\ o.ready /\ got > 0
    BY <1>6, <2>4
  <2>5. o.ready \in BOOLEAN /\ (got = 0 \/ got > 0)
    BY <1>4, <1>5 DEF Orders
  <2>. QED BY <2>1, <2>2, <2>3, <2>4, <2>5
<1>. QED BY <1>1, <1>3, <1>4, <1>5, <1>7 DEF Price, got

\* The active symbols of a frame are a list of symbols.
LEMMA ActiveType == ASSUME TypeOK PROVE active \in Seq(Symbols)
<1>1. PICK n \in 0..plan.symbols : active \in [1..n -> Symbols]
  BY DEF TypeOK, Snapshots
<1>2. n \in Nat
  BY PlanType
<1>. QED BY <1>1, <1>2

\* So are those removed from the universe.
LEMMA RemovalsType ==
  ASSUME TypeOK, NEW removed \in Removals
  PROVE  removed \in Seq(Symbols)
<1>1. CASE ~plan.liquidate
  BY <1>1 DEF Removals
<1>2. CASE plan.liquidate
  <2>. DEFINE S == {s \in Symbols : pos[s] > 0 /\ s \notin Range(active)}
  <2>1. IsFiniteSet(Symbols) /\ S \subseteq Symbols
    <3>1. plan.symbols \in Int /\ 1 \in Int
      BY PlanType
    <3>2. IsFiniteSet(1..plan.symbols)
      BY <3>1, FS_Interval
    <3>. QED BY <3>2 DEF Symbols
  <2>2. Cardinality(S) \in Nat
    <3>. HIDE DEF S
    <3>. QED BY <2>1, FS_Subset, FS_CardinalityType
  <2>3. removed \in [1..Cardinality(S) -> S]
    BY <1>2 DEF Removals, SetToSeqs
  <2>. HIDE DEF S
  <2>. QED BY <2>1, <2>2, <2>3
<1>. QED BY <1>1, <1>2

\* An order that a signal asks for is one that can be new in this frame.
LEMMA IntentType ==
  ASSUME TypeOK, frame > 0, NEW s \in Symbols, NEW ready \in BOOLEAN,
         NEW reason \in {"entry", "exit", "rebalance", "universe_removed"}
  PROVE  Intent(s, reason, ready) \in Fresh
<1>1. frame \in 1..MaxFrames
  BY BacktestAssumption DEF TypeOK
<1>. QED BY <1>1 DEF Intent, Fresh, Orders

\* Sizing drops it or leaves it one (Size).
LEMMA SizedType ==
  ASSUME TypeOK, NEW o \in Fresh
  PROVE  Sized(o) \in Seq(Fresh)
<1>. DEFINE target == (Equity * plan.size) \div 100
<1>1. /\ o \in Orders /\ o.sym \in Symbols /\ pos[o.sym] \in Nat /\ Price(o.sym) \in Nat
  BY BarType DEF Fresh, Orders, TypeOK, Price
<1>2. target \in Int
  <2>1. Equity \in Int /\ plan.size \in Int
    BY EquityType, PlanType
  <2>2. Equity * plan.size \in Int
    BY <2>1
  <2>. HIDE DEF Equity
  <2>. QED BY <2>2
<1>3. CASE o.side = "sell"
  <2>1. [o EXCEPT !.qty = pos[o.sym]] \in Fresh
    BY <1>1 DEF Fresh, Orders
  <2>. QED BY <1>3, <2>1 DEF Sized
<1>4. CASE o.side # "sell" /\ plan.orderType = "rebalance"
  <2>. DEFINE price == Price(o.sym)
              delta == target - pos[o.sym] * price
              named == [o EXCEPT !.reason = IF pos[o.sym] * price > 0 THEN "rebalance" ELSE @]
  <2>1. delta \in Int
    BY <1>1, <1>2
  <2>2. named \in Fresh
    BY DEF Fresh, Orders
  <2>. HIDE DEF target
  <2>3. Rebalanced(o) = IF price = 0 \/ Equity <= 0 \/ (delta < price /\ -delta < price) THEN <<>>
                        ELSE IF delta > 0 THEN <<[named EXCEPT !.amount = delta]>>
                        ELSE <<[named EXCEPT !.side = "sell", !.qty = (-delta) \div price]>>
    BY DEF Rebalanced, target
  <2>. HIDE DEF delta, price, named
  <2>. HIDE DEF Equity
  <2>4. CASE delta > 0
    <3>. DEFINE buy == [named EXCEPT !.amount = delta]
    <3>1. buy \in Fresh
      BY <2>1, <2>2, <2>4 DEF Fresh, Orders
    <3>2. Rebalanced(o) = <<>> \/ Rebalanced(o) = <<buy>>
      BY <2>3, <2>4
    <3>. HIDE DEF buy
    <3>3. <<>> \in Seq(Fresh) /\ <<buy>> \in Seq(Fresh)
      BY <3>1
    <3>4. Rebalanced(o) \in Seq(Fresh)
      BY <3>2, <3>3
    <3>. QED BY <1>4, <3>4 DEF Sized
  <2>5. CASE ~(delta > 0) /\ price # 0
    <3>1. (-delta) \div price \in Nat
      BY <1>1, <2>1, <2>5 DEF price
    <3>2. [named EXCEPT !.side = "sell", !.qty = (-delta) \div price] \in Fresh
      BY <2>2, <3>1 DEF Fresh, Orders
    <3>. QED BY <1>4, <2>3, <2>5, <3>2 DEF Sized
  <2>6. CASE price = 0
    BY <1>4, <2>3, <2>6 DEF Sized
  <2>. QED BY <2>4, <2>5, <2>6
<1>5. CASE o.side # "sell" /\ plan.orderType # "rebalance"
  <2>1. Max({0, target}) \in Nat
    <3>. HIDE DEF target
    <3>. QED BY <1>2, PositivePart
  <2>. HIDE DEF target
  <2>2. [o EXCEPT !.amount = Max({0, target})] \in Fresh
    BY <2>1 DEF Fresh, Orders
  <2>3. Sized(o) = <<[o EXCEPT !.amount = Max({0, target})]>>
    BY <1>5, SMTT(30) DEF Sized, target
  <2>. QED BY <2>2, <2>3
<1>. QED BY <1>3, <1>4, <1>5

\* What passes the review are orders of this frame.
LEMMA ReviewedType ==
  ASSUME TypeOK, frame > 0, NEW sig \in Signals, NEW removed \in Removals,
         NEW ready \in [Symbols -> BOOLEAN]
  PROVE  Reviewed(sig, removed, ready) \in Seq(Fresh)
<1>. DEFINE signalled == Picked(active, {i \in DOMAIN active : sig[active[i]] # "none"})
            first     == [i \in DOMAIN signalled |->
                            Intent(signalled[i], sig[signalled[i]], ready[signalled[i]])]
            second    == [i \in DOMAIN removed |->
                            Intent(removed[i], "universe_removed", ready[removed[i]])]
            intents   == first \o second
            sized     == FlattenSeq([i \in DOMAIN intents |-> Sized(intents[i])])
<1>1. sig \in [Symbols -> {"none", "entry", "exit", "rebalance"}]
  BY DEF Signals
<1>2. signalled \in Seq(Symbols) /\ \A i \in DOMAIN signalled : sig[signalled[i]] # "none"
  <2>. DEFINE I == {i \in DOMAIN active : sig[active[i]] # "none"}
  <2>1. active \in Seq(Symbols)
    BY ActiveType
  <2>2. /\ signalled \in Seq(Symbols)
        /\ \A i \in DOMAIN signalled : \E j \in I : signalled[i] = active[j]
    <3>. HIDE DEF I
    <3>1. Picked(active, I) \in Seq(Symbols)
      BY <2>1, PickedElements
    <3>2. PICK e : \A m \in DOMAIN Picked(active, I) : e[m] \in I /\ Picked(active, I)[m] = active[e[m]]
      BY <2>1, PickedElements
    <3>. QED BY <3>1, <3>2 DEF I
  <2>. HIDE DEF signalled
  <2>. QED BY <2>2
<1>. HIDE DEF signalled
<1>3. first \in Seq(Fresh)
  <2>1. ASSUME NEW i \in DOMAIN signalled
        PROVE  Intent(signalled[i], sig[signalled[i]], ready[signalled[i]]) \in Fresh
    <3>1. signalled[i] \in Symbols
      BY <1>2
    <3>2. /\ sig[signalled[i]] \in {"entry", "exit", "rebalance", "universe_removed"}
          /\ ready[signalled[i]] \in BOOLEAN
      BY <1>1, <1>2, <3>1
    <3>. QED BY <3>1, <3>2, IntentType
  <2>2. DOMAIN signalled = 1..Len(signalled) /\ Len(signalled) \in Nat
    BY <1>2
  <2>3. first \in [1..Len(signalled) -> Fresh]
    BY <2>1, <2>2
  <2>. HIDE DEF first
  <2>. QED BY <2>2, <2>3
<1>4. second \in Seq(Fresh)
  <2>1. removed \in Seq(Symbols)
    BY RemovalsType
  <2>2. ASSUME NEW i \in DOMAIN removed
        PROVE  Intent(removed[i], "universe_removed", ready[removed[i]]) \in Fresh
    <3>1. removed[i] \in Symbols
      BY <2>1
    <3>2. ready[removed[i]] \in BOOLEAN
      BY <3>1
    <3>. QED BY <3>1, <3>2, IntentType
  <2>3. DOMAIN removed = 1..Len(removed) /\ Len(removed) \in Nat
    BY <2>1
  <2>4. second \in [1..Len(removed) -> Fresh]
    BY <2>2, <2>3
  <2>. HIDE DEF second
  <2>. QED BY <2>3, <2>4
<1>. HIDE DEF first, second
<1>5. intents \in Seq(Fresh)
  BY <1>3, <1>4
<1>. HIDE DEF intents
<1>6. sized \in Seq(Fresh)
  <2>. DEFINE ss == [i \in DOMAIN intents |-> Sized(intents[i])]
  <2>1. DOMAIN intents = 1..Len(intents) /\ Len(intents) \in Nat
    BY <1>5
  <2>2. \A i \in DOMAIN intents : Sized(intents[i]) \in Seq(Fresh)
    BY <1>5, SizedType
  <2>3. ss \in [1..Len(intents) -> Seq(Fresh)]
    BY <2>1, <2>2
  <2>4. ss \in Seq(Seq(Fresh))
    <3>. HIDE DEF ss
    <3>. QED BY <2>1, <2>3
  <2>. HIDE DEF ss
  <2>5. FlattenSeq(ss) \in Seq(Fresh)
    BY <2>4, FlattenType
  <2>. QED BY <2>5 DEF ss
<1>. HIDE DEF sized
<1>7. Picked(sized, {i \in DOMAIN sized : Approved(sized[i])}) \in Seq(Fresh)
  BY <1>6, PickedElements
<1>. QED BY <1>7 DEF Reviewed, sized, intents, first, second, signalled

\* Orders that are picked from orders with different keys have different keys.
LEMMA PickedDistinct ==
  ASSUME NEW s \in Seq(Orders), NEW indexes, Distinct(s)
  PROVE  Distinct(Picked(s, indexes))
<1>. DEFINE t == Picked(s, indexes)
<1>1. PICK e \in [DOMAIN t -> DOMAIN s] :
           /\ \A m \in DOMAIN t : e[m] \in indexes /\ t[m] = s[e[m]]
           /\ \A m, n \in DOMAIN t : m < n => e[m] < e[n]
  BY PickedElements
<1>2. t \in Seq(Orders) /\ DOMAIN t \subseteq Int /\ DOMAIN s \subseteq Int
  BY PickedElements
<1>. HIDE DEF t
<1>3. ASSUME NEW m \in DOMAIN t, NEW n \in DOMAIN t, SameKey(t[m], t[n]) PROVE m = n
  <2>1. e[m] = e[n]
    BY <1>1, <1>3 DEF Distinct
  <2>2. e[m] \in Int /\ m \in Int /\ n \in Int
    BY <1>1, <1>2
  <2>3. ~(m < n) /\ ~(n < m)
    BY <1>1, <2>1, <2>2
  <2>. QED BY <2>2, <2>3
<1>. QED BY <1>3 DEF Distinct, t

\* Cutting the orders that a rebalancing replaces leaves orders ...
LEMMA NotReplacedType ==
  ASSUME NEW X, NEW orders \in Seq(X), NEW approved
  PROVE  NotReplaced(orders, approved) \in Seq(X)
<1>. DEFINE I == {i \in DOMAIN orders :
                    ~\E j \in DOMAIN approved :
                       approved[j].reason = "rebalance" /\ approved[j].sym = orders[i].sym}
<1>1. Picked(orders, I) \in Seq(X)
  <2>. HIDE DEF I
  <2>. QED BY PickedElements
<1>. QED BY <1>1 DEF NotReplaced

\* ... with as different keys as before (cancelPendingOnRebalance).
LEMMA NotReplacedDistinct ==
  ASSUME NEW orders \in Seq(Orders), NEW approved, Distinct(orders)
  PROVE  Distinct(NotReplaced(orders, approved))
<1>. DEFINE I == {i \in DOMAIN orders :
                    ~\E j \in DOMAIN approved :
                       approved[j].reason = "rebalance" /\ approved[j].sym = orders[i].sym}
<1>1. Distinct(Picked(orders, I))
  <2>. HIDE DEF I
  <2>. QED BY PickedDistinct
<1>. QED BY <1>1 DEF NotReplaced

\* Two lists with different keys have them together, if they have none in common.
LEMMA ConcatDistinct ==
  ASSUME NEW s \in Seq(Orders), NEW t \in Seq(Orders), Distinct(s), Distinct(t), Apart(s, t)
  PROVE  Distinct(s \o t)
<1>. DEFINE both == s \o t
            n == Len(s)
<1>1. /\ both \in Seq(Orders) /\ n \in Nat
      /\ \A i \in DOMAIN both : i \in Int
      /\ \A i \in DOMAIN both : i <= n => i \in DOMAIN s /\ both[i] = s[i]
      /\ \A i \in DOMAIN both : ~(i <= n) => i - n \in DOMAIN t /\ both[i] = t[i - n]
      /\ \A i \in DOMAIN t : i \in Int
  OBVIOUS
<1>. HIDE DEF both, n
<1>2. ASSUME NEW i \in DOMAIN both, NEW j \in DOMAIN both, SameKey(both[i], both[j]) PROVE i = j
  <2>1. CASE i <= n /\ j <= n
    BY <1>1, <1>2, <2>1 DEF Distinct
  <2>2. CASE i <= n /\ ~(j <= n)
    BY <1>1, <1>2, <2>2 DEF Apart
  <2>3. CASE ~(i <= n) /\ j <= n
    BY <1>1, <1>2, <2>3 DEF Apart, SameKey
  <2>4. CASE ~(i <= n) /\ ~(j <= n)
    <3>1. i - n = j - n
      BY <1>1, <1>2, <2>4 DEF Distinct
    <3>. QED BY <1>1, <3>1
  <2>. QED BY <1>1, <2>1, <2>2, <2>3, <2>4
<1>. QED BY <1>2 DEF Distinct, both

\* Adding the approved orders to the pending ones gives orders (appendNewPendingOrders).
LEMMA WithNewType ==
  ASSUME NEW X, NEW orders \in Seq(X), NEW approved \in Seq(X)
  PROVE  WithNew(orders, approved) \in Seq(X)
<1>. DEFINE I == {i \in DOMAIN approved :
                    /\ ~\E j \in DOMAIN orders : SameKey(orders[j], approved[i])
                    /\ ~\E j \in 1..(i - 1) : SameKey(approved[j], approved[i])}
<1>1. Picked(approved, I) \in Seq(X)
  <2>. HIDE DEF I
  <2>. QED BY PickedElements
<1>2. WithNew(orders, approved) = orders \o Picked(approved, I)
  BY DEF WithNew
<1>. HIDE DEF I
<1>. QED BY <1>1, <1>2

\* appendNewPendingOrders adds no key that is there, and none twice.
LEMMA WithNewDistinct ==
  ASSUME NEW orders \in Seq(Orders), NEW approved \in Seq(Orders), Distinct(orders)
  PROVE  Distinct(WithNew(orders, approved))
<1>. DEFINE I == {i \in DOMAIN approved :
                    /\ ~\E j \in DOMAIN orders : SameKey(orders[j], approved[i])
                    /\ ~\E j \in 1..(i - 1) : SameKey(approved[j], approved[i])}
            t == Picked(approved, I)
<1>1. t \in Seq(Orders)
  <2>. HIDE DEF I
  <2>. QED BY PickedElements
<1>2. PICK e \in [DOMAIN t -> DOMAIN approved] :
           /\ \A m \in DOMAIN t : e[m] \in I /\ t[m] = approved[e[m]]
           /\ \A m, n \in DOMAIN t : m < n => e[m] < e[n]
  <2>. HIDE DEF I
  <2>. QED BY PickedElements
<1>3. WithNew(orders, approved) = orders \o t
  BY DEF WithNew
<1>. HIDE DEF t
<1>4. Apart(orders, t)
  BY <1>2 DEF Apart
<1>5. ASSUME NEW m \in DOMAIN t, NEW n \in DOMAIN t, m < n PROVE ~SameKey(t[m], t[n])
  <2>1. e[m] \in Int /\ e[n] \in Int /\ e[m] >= 1 /\ e[m] < e[n]
    BY <1>2, <1>5
  <2>2. e[m] \in 1..(e[n] - 1)
    BY <2>1
  <2>. QED BY <1>2, <2>2
<1>. HIDE DEF I
<1>6. Distinct(t)
  <2>1. \A i \in DOMAIN t : i \in Int
    BY <1>1
  <2>. QED BY <1>5, <2>1 DEF Distinct, SameKey
<1>. QED BY <1>1, <1>3, <1>4, <1>6, ConcatDistinct

-----------------------------------------------------------------------------
(* The lists of orders                                                     *)

\* The plan of a run fixes its symbols, and with them its orders.
LEMMA PlanFixes ==
  ASSUME plan' = plan
  PROVE  Symbols' = Symbols /\ Orders' = Orders /\ Snapshots' = Snapshots
BY DEF Symbols, Orders, Snapshots

\* Orders of earlier frames are orders of earlier frames later on.
LEMMA BornType ==
  ASSUME TypeOK, NEW m \in Int, NEW n \in Int, m <= n
  PROVE  /\ Born(m) \subseteq Born(n) /\ Born(n) \subseteq Orders
         /\ Fresh \subseteq Born(frame)
         /\ \A s \in Seq(Born(m)) : s \in Seq(Born(n)) /\ s \in Seq(Orders)
         /\ \A s \in Seq(Fresh) : s \in Seq(Born(frame)) /\ s \in Seq(Orders)
<1>1. Born(m) \subseteq Born(n) /\ Born(n) \subseteq Orders
  BY BacktestAssumption DEF Born, Orders
<1>2. Fresh \subseteq Born(frame) /\ Fresh \subseteq Orders
  BY BacktestAssumption DEF Born, Fresh, TypeOK
<1>. QED BY <1>1, <1>2

\* An order with a key of its own may be added.
LEMMA AppendDistinct ==
  ASSUME NEW s \in Seq(Orders), NEW o \in Orders, Distinct(s),
         \A i \in DOMAIN s : ~SameKey(s[i], o)
  PROVE  Distinct(Append(s, o))
<1>1. /\ Append(s, o) = s \o <<o>> /\ <<o>> \in Seq(Orders)
      /\ DOMAIN <<o>> = {1} /\ <<o>>[1] = o
  OBVIOUS
<1>2. Distinct(<<o>>) /\ Apart(s, <<o>>)
  BY <1>1 DEF Distinct, Apart
<1>. QED BY <1>1, <1>2, ConcatDistinct

\* The parts of a list that is not empty.
LEMMA HeadAndTail ==
  ASSUME NEW X, NEW s \in Seq(X), s # <<>>
  PROVE  /\ Head(s) \in X /\ Tail(s) \in Seq(X) /\ Len(Tail(s)) = Len(s) - 1 /\ Len(s) \in Nat
         /\ Head(s) = s[1] /\ 1 \in DOMAIN s
         /\ \A i \in DOMAIN Tail(s) : i \in Nat \ {0} /\ i + 1 \in DOMAIN s /\ Tail(s)[i] = s[i + 1]
OBVIOUS

\* The length of a list is a number.
LEMMA LenType == ASSUME NEW X, NEW s \in Seq(X) PROVE Len(s) \in Int
OBVIOUS

\* A pass takes the first order of its queue and keeps it, or what is left of it, or
\* drops it.
LEMMA PassKeepsLists ==
  ASSUME TypeOK, Passes, Waiting, Unique, phase = "fill", queue # <<>>,
         queue' = Tail(queue),
         UNCHANGED <<plan, phase, frame, pending>>,
         \/ kept' = kept
         \/ \E o \in Orders : /\ kept' = Append(kept, o)
                              /\ SameKey(o, Head(queue)) /\ o.born = Head(queue).born
  PROVE  /\ kept' \in Seq(Orders) /\ queue' \in Seq(Orders)
         /\ Len(kept') \in {Len(kept), Len(kept) + 1} /\ Len(queue') = Len(queue) - 1
         /\ Passes' /\ Waiting' /\ Unique'
<1>. DEFINE h == Head(queue)
            Made == {o \in Orders : SameKey(o, h) /\ o.born = h.born}
<1>1. frame \in Nat /\ frame > 0 /\ Orders' = Orders
  BY PlanFixes, BacktestAssumption DEF TypeOK, Passes
<1>2. queue \in Seq(Orders) /\ kept \in Seq(Orders)
  BY DEF TypeOK
<1>3. h \in Born(frame - 1) /\ Tail(queue) \in Seq(Born(frame - 1)) /\ kept \in Seq(Born(frame - 1))
  BY HeadAndTail DEF Waiting
<1>4. \A o \in Made : o \in Born(frame - 1)
  BY <1>3 DEF Born
<1>5. /\ queue' \in Seq(Born(frame - 1)) /\ kept' \in Seq(Born(frame - 1))
      /\ Len(kept') \in {Len(kept), Len(kept) + 1} /\ Len(queue') = Len(queue) - 1
  <2>1. CASE kept' = kept
    BY <1>2, <1>3, <2>1, HeadAndTail
  <2>2. ASSUME NEW o \in Made, kept' = Append(kept, o) PROVE <1>5
    <3>1. Append(kept, o) \in Seq(Born(frame - 1)) /\ Len(Append(kept, o)) = Len(kept) + 1
      BY <1>3, <1>4
    <3>. QED BY <1>2, <1>3, <2>2, <3>1, HeadAndTail
  <2>. QED BY <2>1, <2>2
<1>6. /\ queue' \in Seq(Born(frame)) /\ kept' \in Seq(Born(frame))
      /\ queue' \in Seq(Orders) /\ kept' \in Seq(Orders)
  BY <1>1, <1>5, BornType
<1>7. Passes'
  BY <1>1 DEF Passes
<1>8. Waiting'
  <2>1. Born(frame)' = Born(frame) /\ Born(frame - 1)' = Born(frame - 1)
    BY <1>1 DEF Born
  <2>. QED BY <1>5, <1>6, <2>1 DEF Waiting
<1>9. Unique'
  <2>. SUFFICES ASSUME plan.fill = "next_open" PROVE Unique'
    BY DEF Unique
  <2>1. /\ Distinct(kept) /\ Distinct(queue) /\ Distinct(pending) /\ Apart(kept, queue)
    BY DEF Unique
  <2>2. Distinct(Tail(queue))
    BY <1>2, <2>1, HeadAndTail DEF Distinct
  <2>3. \A i \in DOMAIN Tail(queue) : ~SameKey(h, Tail(queue)[i])
    BY <1>2, <2>1, HeadAndTail DEF Distinct
  <2>4. Apart(kept, Tail(queue))
    BY <1>2, <2>1, HeadAndTail DEF Apart
  <2>5. \A i \in DOMAIN kept : ~SameKey(kept[i], h)
    BY <1>2, <2>1, HeadAndTail DEF Apart
  <2>6. ASSUME NEW o \in Made, kept' = Append(kept, o) PROVE Distinct(kept') /\ Apart(kept', Tail(queue))
    <3>1. Distinct(Append(kept, o))
      BY <1>2, <2>1, <2>5, AppendDistinct DEF SameKey
    <3>2. \A i \in DOMAIN Append(kept, o) :
            (i \in DOMAIN kept /\ Append(kept, o)[i] = kept[i]) \/ Append(kept, o)[i] = o
      BY <1>2
    <3>3. Apart(Append(kept, o), Tail(queue))
      BY <2>3, <2>4, <3>2 DEF Apart, SameKey
    <3>. QED BY <2>6, <3>1, <3>3
  <2>7. Distinct(kept') /\ Apart(kept', Tail(queue))
    BY <2>1, <2>4, <2>6
  <2>. QED BY <2>1, <2>2, <2>7 DEF Unique
<1>. QED BY <1>5, <1>6, <1>7, <1>8, <1>9

-----------------------------------------------------------------------------
(* The book                                                                *)

\* Some position is sold for less than the sale costs.
SoldAtALoss == \E s \in Symbols : pos'[s] < pos[s] /\ (pos[s] - pos'[s]) * Price(s) < plan.fee

\* A fill leaves no short position, and no debt of a buy: that takes what the cash pays
\* for. A sale makes one if it brings less than its fee, which no sale of a plan with
\* covered fees does.
LEMMA ApplyKeepsBook ==
  ASSUME TypeOK, CashNeverNegative, NEW o \in Orders, bars[o.sym].kind \in {"unreached", "live"},
         Execute(o).why = "fill", Apply(o, Execute(o))
  PROVE  /\ cash' \in Int /\ pos' \in [Symbols -> Nat]
         /\ FeesCovered => cash' >= 0
         /\ cash' < 0 /\ cash' < cash => SoldAtALoss
<1>. DEFINE qty == Execute(o).qty
            price == Price(o.sym)
            notional == qty * price
<1>1. /\ o.sym \in Symbols /\ o.side \in {"buy", "sell"} /\ cash \in Int
      /\ plan.fee \in Nat /\ price \in Nat /\ pos[o.sym] \in Nat /\ pos \in [Symbols -> Nat]
  BY PlanType, BarType DEF Orders, TypeOK, Price
<1>2. /\ qty \in Nat \ {0}
      /\ o.side = "buy" => notional + plan.fee <= cash
      /\ o.side = "sell" => qty <= pos[o.sym]
      /\ bars[o.sym].kind = "live"
  BY <1>1, ExecuteFills
<1>3. FeesCovered => cash >= 0 /\ plan.fee <= price
  <2>1. bars[o.sym] \in Bars(plan)
    BY <1>1 DEF TypeOK
  <2>. QED BY <1>2, <2>1 DEF FeesCovered, CashNeverNegative, Price
<1>. HIDE DEF qty, price
<1>4. notional \in Nat /\ notional >= price
  BY <1>1, <1>2
<1>5. CASE o.side = "buy"
  <2>1. cash' = cash - notional - plan.fee /\ pos' = [pos EXCEPT ![o.sym] = @ + qty]
    BY <1>5 DEF Apply, qty, price
  <2>. HIDE DEF notional
  <2>2. cash' \in Int /\ cash' >= 0
    BY <1>1, <1>2, <1>4, <1>5, <2>1
  <2>3. pos' \in [Symbols -> Nat]
    <3>1. pos[o.sym] + qty \in Nat
      BY <1>1, <1>2
    <3>. QED BY <1>1, <2>1, <3>1
  <2>. QED BY <2>2, <2>3
<1>6. CASE o.side = "sell"
  <2>1. cash' = cash + notional - plan.fee /\ pos' = [pos EXCEPT ![o.sym] = @ - qty]
    BY <1>6 DEF Apply, qty, price
  <2>2. cash' \in Int /\ (FeesCovered => cash' >= 0) /\ (cash' < cash => notional < plan.fee)
    <3>. HIDE DEF notional
    <3>. QED BY <1>1, <1>3, <1>4, <2>1
  <2>3. pos' \in [Symbols -> Nat] /\ pos'[o.sym] < pos[o.sym] /\ pos[o.sym] - pos'[o.sym] = qty
    <3>1. pos[o.sym] - qty \in Nat
      BY <1>1, <1>2, <1>6
    <3>2. pos' \in [Symbols -> Nat] /\ pos'[o.sym] = pos[o.sym] - qty
      BY <1>1, <2>1, <3>1
    <3>3. ASSUME NEW x \in Nat, NEW y, y = x - qty PROVE y < x /\ x - y = qty
      BY <1>2, <3>3
    <3>. QED BY <1>1, <3>2, <3>3
  <2>4. cash' < cash => SoldAtALoss
    <3>1. SUFFICES ASSUME cash' < cash PROVE SoldAtALoss
      OBVIOUS
    <3>2. (pos[o.sym] - pos'[o.sym]) * Price(o.sym) < plan.fee
      BY <2>2, <2>3, <3>1 DEF price
    <3>. QED BY <1>1, <2>3, <3>2 DEF SoldAtALoss
  <2>. QED BY <2>2, <2>3, <2>4
<1>. QED BY <1>1, <1>5, <1>6

\* What is left of an order is an order of the same key and age.
LEMMA RemainderType ==
  ASSUME TypeOK, NEW o \in Orders, bars[o.sym].kind \in {"unreached", "live"},
         Execute(o).why = "fill"
  PROVE  /\ Remainder(o, Execute(o)) \in Orders
         /\ SameKey(Remainder(o, Execute(o)), o) /\ Remainder(o, Execute(o)).born = o.born
<1>. DEFINE f == Execute(o)
            rest == Max({0, o.amount - f.qty * Price(o.sym)})
<1>1. /\ f.qty \in Nat /\ f.wanted \in Nat /\ f.wanted - f.qty \in Nat
      /\ o.sym \in Symbols /\ o.amount \in Nat /\ o.qty \in Nat /\ o.carry \in Nat
      /\ Price(o.sym) \in Nat
  <2>1. f.qty \in Nat /\ f.wanted \in Nat /\ f.qty <= f.wanted
    BY ExecuteFills
  <2>2. f.wanted - f.qty \in Nat
    <3>. HIDE DEF f
    <3>. QED BY <2>1
  <2>. QED BY <2>1, <2>2, BarType DEF Orders, Price
<1>. HIDE DEF f
<1>2. rest \in Nat
  <2>. DEFINE x == o.amount - f.qty * Price(o.sym)
  <2>1. x \in Int
    BY <1>1
  <2>2. rest = Max({0, x})
    OBVIOUS
  <2>. HIDE DEF x, rest
  <2>. QED BY <2>1, <2>2, PositivePart
<1>. HIDE DEF rest
<1>3. Remainder(o, f) = [o EXCEPT !.carry  = @ + 1,
                                  !.amount = IF o.side = "buy" THEN rest ELSE @,
                                  !.qty    = IF o.side = "sell" THEN f.wanted - f.qty ELSE @]
  BY DEF Remainder, rest
<1>. DEFINE amount == IF o.side = "buy" THEN rest ELSE o.amount
            units  == IF o.side = "sell" THEN f.wanted - f.qty ELSE o.qty
            carry  == o.carry + 1
<1>4. Remainder(o, f) = [o EXCEPT !.carry = carry, !.amount = amount, !.qty = units]
  BY <1>3
<1>5. amount \in Nat /\ units \in Nat /\ carry \in Nat
  BY <1>1, <1>2
<1>. HIDE DEF amount, units, carry
<1>6. Remainder(o, f) \in Orders /\ SameKey(Remainder(o, f), o) /\ Remainder(o, f).born = o.born
  BY <1>4, <1>5 DEF Orders, SameKey
<1>. QED BY <1>6 DEF f

-----------------------------------------------------------------------------
(* The steps                                                               *)

\* The invariant holds when a run starts,
LEMMA InitIInv == Init => IInv
<1>. SUFFICES ASSUME Init PROVE IInv
  OBVIOUS
<1>. USE DEF Init
<1>0. plan \in Plans /\ plan.symbols \in 1..NumSymbols
  BY BacktestAssumption
<1>1. TypeOK
  <2>1. active \in Snapshots
    <3>1. plan.symbols \in 0..plan.symbols
      BY <1>0, BacktestAssumption
    <3>2. active \in [1..plan.symbols -> Symbols]
      BY DEF Symbols
    <3>. QED BY <3>1, <3>2 DEF Snapshots
  <2>2. bars \in [Symbols -> Bars(plan)] /\ pos \in [Symbols -> Nat]
    OBVIOUS
  <2>3. <<>> \in Seq(Orders) /\ frame \in 0..MaxFrames /\ cash \in Int
    BY BacktestAssumption
  <2>. QED BY <1>0, <2>1, <2>2, <2>3 DEF TypeOK
<1>2. Passes /\ Waiting /\ Unique /\ Tally
  BY DEF Passes, Waiting, Unique, Tally, Distinct, Apart
<1>3. CashNeverNegative
  BY BacktestAssumption DEF CashNeverNegative, FeesCovered
<1>. QED BY <1>1, <1>2, <1>3 DEF IInv

\* and when the next frame comes (stream.Next);
LEMMA NextFrameStep ==
  ASSUME IInv, NEW b \in [Symbols -> Bars(plan)], NEW a \in Snapshots, NextFrame(b, a)
  PROVE  IInv'
<1>. USE DEF IInv
<1>1. /\ UNCHANGED <<plan, cash, pos, owed>> /\ frame' = frame + 1 /\ bars' = b /\ active' = a
      /\ phase = "clock" /\ phase' = "fill" /\ queue' = pending /\ pending' = <<>> /\ kept' = <<>>
      /\ queue = <<>> /\ kept = <<>> /\ frame < MaxFrames
  BY DEF NextFrame, book, Passes
<1>2. frame \in Nat /\ frame' \in 0..MaxFrames
  BY <1>1, BacktestAssumption DEF TypeOK
<1>3. Symbols' = Symbols /\ Orders' = Orders /\ Snapshots' = Snapshots
  BY <1>1, PlanFixes
<1>4. TypeOK'
  BY <1>1, <1>2, <1>3 DEF TypeOK
<1>5. Passes'
  BY <1>1, <1>2 DEF Passes
<1>6. Waiting'
  <2>1. Born(frame - 1)' = Born(frame) /\ Born(frame)' = Born(frame + 1)
    <3>1. frame' - 1 = frame
      BY <1>1, <1>2
    <3>. QED BY <1>1, <1>3, <3>1 DEF Born
  <2>2. pending \in Seq(Born(frame)) /\ pending \in Seq(Born(frame + 1))
    BY <1>2, BornType DEF Waiting
  <2>. QED BY <1>1, <2>1, <2>2 DEF Waiting
<1>7. Unique' /\ Tally' /\ CashNeverNegative'
  BY <1>1 DEF Unique, Tally, CashNeverNegative, FeesCovered, Distinct, Apart, SameKey, TypeOK
<1>. QED BY <1>4, <1>5, <1>6, <1>7

\* when a pending order waits on,
LEMMA DeferStep == ASSUME IInv, DeferPending PROVE IInv'
<1>. USE DEF IInv
<1>1. /\ phase = "fill" /\ queue # <<>> /\ kept' = Append(kept, Head(queue)) /\ queue' = Tail(queue)
      /\ UNCHANGED <<plan, phase, frame, bars, active, cash, pos, pending, owed>>
  BY DEF DeferPending, book
<1>2. Head(queue) \in Orders /\ SameKey(Head(queue), Head(queue))
  BY <1>1, HeadAndTail DEF TypeOK, SameKey
<1>3. /\ kept' \in Seq(Orders) /\ queue' \in Seq(Orders) /\ Len(queue') = Len(queue) - 1
      /\ Passes' /\ Waiting' /\ Unique'
  BY <1>1, <1>2, PassKeepsLists
<1>4. Len(kept') = Len(kept) + 1 /\ Len(kept) \in Nat /\ Len(queue) \in Nat /\ Len(pending) \in Nat
  BY <1>1, <1>2 DEF TypeOK
<1>5. TypeOK'
  BY <1>1, <1>3, PlanFixes DEF TypeOK
<1>6. Tally' /\ CashNeverNegative'
  BY <1>1, <1>3, <1>4 DEF Tally, CashNeverNegative, FeesCovered
<1>. QED BY <1>3, <1>5, <1>6

\* is refused,
LEMMA RefuseStep == ASSUME IInv, RefusePending PROVE IInv'
<1>. USE DEF IInv
<1>1. /\ phase = "fill" /\ queue # <<>> /\ queue' = Tail(queue)
      /\ UNCHANGED <<plan, phase, frame, bars, active, cash, pos, pending>>
      /\ \/ kept' = Append(kept, Head(queue)) /\ owed' = owed
         \/ kept' = kept /\ owed' = owed - 1
  BY DEF RefusePending, book
<1>2. Head(queue) \in Orders /\ SameKey(Head(queue), Head(queue))
  BY <1>1, HeadAndTail DEF TypeOK, SameKey
<1>3. /\ kept' \in Seq(Orders) /\ queue' \in Seq(Orders) /\ Len(queue') = Len(queue) - 1
      /\ Passes' /\ Waiting' /\ Unique'
  BY <1>1, <1>2, PassKeepsLists
<1>4. /\ Len(kept) \in Nat /\ Len(queue) \in Nat /\ Len(pending) \in Nat /\ owed \in Int
      /\ Len(Append(kept, Head(queue))) = Len(kept) + 1
  BY <1>1, <1>2 DEF TypeOK
<1>5. TypeOK'
  <2>1. owed' \in Int
    BY <1>1, <1>4
  <2>. QED BY <1>1, <1>3, <2>1, PlanFixes DEF TypeOK
<1>6. Tally' /\ CashNeverNegative'
  BY <1>1, <1>3, <1>4 DEF Tally, CashNeverNegative, FeesCovered
<1>. QED BY <1>3, <1>5, <1>6

\* or is filled;
LEMMA FillStep == ASSUME IInv, FillPending PROVE IInv'
<1>. USE DEF IInv
<1>. DEFINE o == Head(queue)
            f == Execute(o)
            r == Remainder(o, f)
<1>1. /\ phase = "fill" /\ queue # <<>> /\ queue' = Tail(queue)
      /\ bars[o.sym].kind \in {"unreached", "live"} /\ f.why = "fill" /\ Apply(o, f)
      /\ UNCHANGED <<plan, phase, frame, bars, active, pending>>
      /\ \/ kept' = Append(kept, r) /\ owed' = owed
         \/ kept' = kept /\ owed' = owed - 1
  BY DEF FillPending
<1>2. o \in Orders
  BY <1>1, HeadAndTail DEF TypeOK
<1>3. cash' \in Int /\ (FeesCovered => cash' >= 0) /\ pos' \in [Symbols -> Nat]
  <2>. HIDE DEF o
  <2>. QED BY <1>1, <1>2, ApplyKeepsBook
<1>4. r \in Orders /\ SameKey(r, o) /\ r.born = o.born
  <2>. HIDE DEF o
  <2>. QED BY <1>1, <1>2, RemainderType
<1>. HIDE DEF r, f
<1>5. /\ kept' \in Seq(Orders) /\ queue' \in Seq(Orders) /\ Len(queue') = Len(queue) - 1
      /\ Passes' /\ Waiting' /\ Unique'
  <2>1. kept' = kept \/ kept' = Append(kept, r)
    BY <1>1
  <2>. QED BY <1>1, <1>4, <2>1, PassKeepsLists
<1>6. /\ Len(kept) \in Nat /\ Len(queue) \in Nat /\ Len(pending) \in Nat /\ owed \in Int
      /\ Len(Append(kept, r)) = Len(kept) + 1
  BY <1>1, <1>4 DEF TypeOK
<1>7. TypeOK'
  <2>1. owed' \in Int
    BY <1>1, <1>6
  <2>. QED BY <1>1, <1>3, <1>5, <2>1, PlanFixes DEF TypeOK
<1>8. Tally' /\ CashNeverNegative'
  <2>1. CashNeverNegative'
    BY <1>1, <1>3 DEF CashNeverNegative, FeesCovered
  <2>2. plan' = plan /\ Len(pending') = Len(pending) /\ Len(queue') = Len(queue) - 1
    BY <1>1, <1>5
  <2>3. \/ Len(kept') = Len(kept) + 1 /\ owed' = owed
        \/ Len(kept') = Len(kept) /\ owed' = owed - 1
    BY <1>1, <1>6
  <2>4. Tally'
    BY <1>6, <2>2, <2>3 DEF Tally
  <2>. QED BY <2>1, <2>4
<1>. QED BY <1>5, <1>7, <1>8

\* when the signals of a frame become orders (evaluateSignals, Size, Review);
LEMMA DecideStep ==
  ASSUME IInv, NEW sig \in Signals, NEW removed \in Removals, NEW ready \in [Symbols -> BOOLEAN],
         Decide(sig, removed, ready)
  PROVE  IInv'
<1>. USE DEF IInv
<1>. DEFINE approved == Reviewed(sig, removed, ready)
            left     == NotReplaced(kept, approved)
            new      == WithNew(left, approved)
<1>1. /\ phase = "fill" /\ queue = <<>> /\ kept' = <<>>
      /\ UNCHANGED <<plan, frame, bars, active, cash, pos>>
  BY DEF Decide, book
<1>2. /\ frame \in Nat /\ frame > 0 /\ pending = <<>> /\ kept \in Seq(Orders) /\ owed \in Int
      /\ kept \in Seq(Born(frame))
      /\ plan.fill \in {"next_open", "same_close"}
  BY <1>1, PlanType, BacktestAssumption DEF TypeOK, Passes, Waiting
<1>3. approved \in Seq(Fresh)
  BY <1>2, ReviewedType
<1>4. \/ /\ plan.fill = "same_close" /\ pending' = left /\ queue' = approved /\ phase' = "place"
         /\ owed' = owed - (Len(kept) - Len(left)) + Len(approved)
      \/ /\ plan.fill = "next_open" /\ pending' = new /\ queue' = queue /\ phase' = "clock"
         /\ owed' = owed - Len(kept) + Len(pending')
  BY <1>2 DEF Decide
<1>. HIDE DEF approved
<1>5. approved \in Seq(Born(frame)) /\ approved \in Seq(Orders)
  BY <1>2, <1>3, BornType
<1>6. left \in Seq(Born(frame)) /\ left \in Seq(Orders)
  BY <1>2, NotReplacedType
<1>. HIDE DEF left
<1>7. new \in Seq(Born(frame)) /\ new \in Seq(Orders)
  BY <1>5, <1>6, WithNewType
<1>8. ASSUME plan.fill = "next_open" PROVE Distinct(new)
  <2>1. Distinct(kept)
    BY <1>8 DEF Unique
  <2>2. Distinct(left)
    BY <1>2, <2>1, NotReplacedDistinct DEF left
  <2>. QED BY <1>5, <1>6, <2>2, WithNewDistinct
<1>. HIDE DEF new
<1>9. Born(frame)' = Born(frame) /\ Orders' = Orders /\ <<>> \in Seq(Born(frame))
  BY <1>1, PlanFixes DEF Born
<1>10. TypeOK'
  <2>1. owed' \in Int
    <3>1. Len(kept) \in Int /\ Len(left) \in Int /\ Len(approved) \in Int /\ Len(new) \in Int
      BY <1>2, <1>5, <1>6, <1>7, LenType
    <3>2. CASE owed' = owed - (Len(kept) - Len(left)) + Len(approved)
      BY <1>2, <3>1, <3>2
    <3>3. CASE pending' = new /\ owed' = owed - Len(kept) + Len(pending')
      BY <1>2, <3>1, <3>3
    <3>. QED BY <1>4, <3>2, <3>3
  <2>2. pending' \in Seq(Orders) /\ queue' \in Seq(Orders) /\ kept' \in Seq(Orders)
    <3>1. <<>> \in Seq(Orders) /\ kept' = <<>>
      BY <1>1
    <3>2. queue' = approved \/ queue' = <<>>
      BY <1>1, <1>4
    <3>3. pending' = left \/ pending' = new
      BY <1>4
    <3>. QED BY <1>5, <1>6, <1>7, <3>1, <3>2, <3>3
  <2>3. phase' \in {"clock", "place"}
    BY <1>4
  <2>. QED BY <1>1, <1>9, <2>1, <2>2, <2>3, PlanFixes DEF TypeOK
<1>11. Passes'
  BY <1>1, <1>2, <1>4 DEF Passes
<1>12. Waiting'
  <2>1. pending' \in Seq(Born(frame)) /\ queue' \in Seq(Born(frame)) /\ phase' # "fill"
    BY <1>1, <1>4, <1>5, <1>6, <1>7, <1>9
  <2>. QED BY <1>1, <1>9, <2>1 DEF Waiting
<1>13. Unique' /\ Tally'
  <2>1. CASE plan.fill = "same_close"
    BY <1>1, <2>1 DEF Unique, Tally
  <2>2. CASE plan.fill = "next_open"
    <3>1. Distinct(<<>>) /\ Apart(<<>>, <<>>) /\ kept' = <<>> /\ queue' = <<>> /\ pending' = new
      BY <1>1, <1>4, <2>2 DEF Distinct, Apart
    <3>2. Unique'
      BY <1>8, <2>2, <3>1 DEF Unique
    <3>3. owed = Len(kept) /\ Len(new) \in Nat /\ Len(kept) \in Nat
      BY <1>1, <1>2, <1>7, <2>2 DEF Tally
    <3>4. owed' = Len(new)
      BY <1>4, <2>2, <3>3
    <3>5. Tally'
      BY <3>1, <3>3, <3>4 DEF Tally
    <3>. QED BY <3>2, <3>5
  <2>. QED BY <1>2, <2>1, <2>2
<1>14. CashNeverNegative'
  BY <1>1 DEF CashNeverNegative, FeesCovered
<1>. QED BY <1>10, <1>11, <1>12, <1>13, <1>14

\* The pass of same_close takes the first order of its queue; what is left of it may join
\* the pending ones.
LEMMA PlaceKeepsLists ==
  ASSUME TypeOK, Passes, Waiting, phase = "place", queue # <<>>, queue' = Tail(queue),
         UNCHANGED <<plan, phase, frame, kept>>,
         \/ pending' = pending
         \/ \E o \in Orders : pending' = Append(pending, o) /\ o.born = Head(queue).born
  PROVE  /\ pending' \in Seq(Orders) /\ queue' \in Seq(Orders)
         /\ Passes' /\ Waiting' /\ Unique' /\ Tally'
<1>1. frame \in Nat /\ frame > 0 /\ kept = <<>> /\ plan.fill # "next_open"
  BY BacktestAssumption DEF TypeOK, Passes
<1>2. /\ Head(queue) \in Born(frame) /\ Tail(queue) \in Seq(Born(frame))
      /\ pending \in Seq(Born(frame))
  BY HeadAndTail DEF Waiting
<1>3. pending' \in Seq(Born(frame)) /\ queue' \in Seq(Born(frame))
  <2>1. ASSUME NEW o \in Orders, o.born = Head(queue).born PROVE o \in Born(frame)
    BY <1>2, <2>1 DEF Born
  <2>2. \A o \in Born(frame) : Append(pending, o) \in Seq(Born(frame))
    BY <1>2
  <2>. QED BY <1>2, <2>1, <2>2
<1>4. pending' \in Seq(Orders) /\ queue' \in Seq(Orders)
  BY <1>1, <1>3, BornType
<1>5. Passes' /\ Unique' /\ Tally'
  BY <1>1 DEF Passes, Unique, Tally
<1>6. Waiting'
  <2>1. Born(frame)' = Born(frame) /\ kept' = <<>> /\ phase' # "fill"
    BY <1>1, PlanFixes DEF Born
  <2>2. <<>> \in Seq(Born(frame))
    OBVIOUS
  <2>. QED BY <1>3, <2>1, <2>2 DEF Waiting
<1>. QED BY <1>4, <1>5, <1>6

\* when an order misses the close of its frame,
LEMMA MissCloseStep == ASSUME IInv, MissClose PROVE IInv'
<1>. USE DEF IInv
<1>1. /\ phase = "place" /\ queue # <<>> /\ queue' = Tail(queue)
      /\ UNCHANGED <<plan, phase, frame, bars, active, cash, pos, pending, kept>>
      /\ owed' = owed - 1 \/ owed' = owed
  BY DEF MissClose, book
<1>2. pending' \in Seq(Orders) /\ queue' \in Seq(Orders) /\ Passes' /\ Waiting' /\ Unique' /\ Tally'
  BY <1>1, PlaceKeepsLists
<1>3. owed' \in Int
  BY <1>1 DEF TypeOK
<1>4. TypeOK'
  BY <1>1, <1>2, <1>3, PlanFixes DEF TypeOK
<1>5. CashNeverNegative'
  BY <1>1 DEF CashNeverNegative, FeesCovered
<1>. QED BY <1>2, <1>4, <1>5

\* or is filled at it;
LEMMA FillCloseStep == ASSUME IInv, FillClose PROVE IInv'
<1>. USE DEF IInv
<1>. DEFINE o == Head(queue)
            f == Execute(o)
            r == Remainder(o, f)
<1>1. /\ phase = "place" /\ queue # <<>> /\ queue' = Tail(queue)
      /\ bars[o.sym].kind \in {"unreached", "live"} /\ f.why = "fill" /\ Apply(o, f)
      /\ UNCHANGED <<plan, phase, frame, bars, active, kept>>
      /\ \/ pending' = Append(pending, r) /\ owed' = owed
         \/ pending' = pending /\ owed' = owed - 1
  BY DEF FillClose
<1>2. o \in Orders
  BY <1>1, HeadAndTail DEF TypeOK
<1>3. cash' \in Int /\ (FeesCovered => cash' >= 0) /\ pos' \in [Symbols -> Nat]
  <2>. HIDE DEF o
  <2>. QED BY <1>1, <1>2, ApplyKeepsBook
<1>4. r \in Orders /\ r.born = o.born
  <2>. HIDE DEF o
  <2>. QED BY <1>1, <1>2, RemainderType
<1>. HIDE DEF r, f
<1>5. pending' \in Seq(Orders) /\ queue' \in Seq(Orders) /\ Passes' /\ Waiting' /\ Unique' /\ Tally'
  BY <1>1, <1>4, PlaceKeepsLists
<1>6. owed' \in Int
  BY <1>1 DEF TypeOK
<1>7. TypeOK'
  BY <1>1, <1>3, <1>5, <1>6, PlanFixes DEF TypeOK
<1>8. CashNeverNegative'
  BY <1>1, <1>3 DEF CashNeverNegative, FeesCovered
<1>. QED BY <1>5, <1>7, <1>8

\* at the end of a frame,
LEMMA EndFrameStep == ASSUME IInv, EndFrame PROVE IInv'
<1>. USE DEF IInv
<1>1. /\ phase = "place" /\ queue = <<>> /\ phase' = "clock"
      /\ UNCHANGED <<plan, frame, bars, active, cash, pos, pending, queue, kept, owed>>
  BY DEF EndFrame, book
<1>2. TypeOK' /\ CashNeverNegative'
  BY <1>1, PlanFixes DEF TypeOK, CashNeverNegative, FeesCovered
<1>3. Passes' /\ Unique' /\ Tally'
  BY <1>1 DEF Passes, Unique, Tally
<1>4. Waiting'
  BY <1>1, PlanFixes DEF Waiting, Born
<1>. QED BY <1>2, <1>3, <1>4

\* at the end of the feed,
LEMMA EndOfFeedStep == ASSUME IInv, EndOfFeed PROVE IInv'
<1>. USE DEF IInv
<1>1. /\ phase = "clock" /\ frame > 0 /\ phase' = "done" /\ owed' = owed - Len(pending)
      /\ pending' = <<>> /\ queue = <<>> /\ kept = <<>>
      /\ UNCHANGED <<plan, frame, bars, active, cash, pos, queue, kept>>
  BY DEF EndOfFeed, book, Passes
<1>2. Len(pending) \in Nat /\ owed \in Int
  BY DEF TypeOK
<1>3. TypeOK'
  <2>1. owed' \in Int
    BY <1>1, <1>2
  <2>. QED BY <1>1, <2>1, PlanFixes DEF TypeOK
<1>4. Passes' /\ CashNeverNegative'
  BY <1>1 DEF Passes, CashNeverNegative, FeesCovered
<1>5. Unique'
  BY <1>1 DEF Unique, Distinct, Apart
<1>6. Tally'
  BY <1>1, <1>2 DEF Tally
<1>7. Waiting'
  BY <1>1 DEF Waiting
<1>. QED BY <1>3, <1>4, <1>5, <1>6, <1>7

\* and when nothing changes.
LEMMA StutterStep == ASSUME IInv, UNCHANGED vars PROVE IInv'
<1>. USE DEF IInv
<1>1. UNCHANGED <<plan, phase, frame, bars, active, cash, pos, pending, queue, kept, owed>>
  BY DEF vars, book
<1>2. TypeOK' /\ CashNeverNegative'
  BY <1>1, PlanFixes DEF TypeOK, CashNeverNegative, FeesCovered
<1>3. Passes' /\ Unique' /\ Tally'
  BY <1>1 DEF Passes, Unique, Tally
<1>4. Waiting'
  BY <1>1, PlanFixes DEF Waiting, Born
<1>. QED BY <1>2, <1>3, <1>4
-----------------------------------------------------------------------------
(* The theorems                                                            *)

\* Every run keeps the inductive invariant.
THEOREM Invariance == Spec => []IInv
<1>1. IInv /\ [Next]_vars => IInv'
  <2>. SUFFICES ASSUME IInv, [Next]_vars PROVE IInv'
    OBVIOUS
  <2>1. ASSUME NEW b \in [Symbols -> Bars(plan)], NEW a \in Snapshots, NextFrame(b, a) PROVE IInv'
    BY <2>1, NextFrameStep
  <2>2. CASE DeferPending
    BY <2>2, DeferStep
  <2>3. CASE RefusePending
    BY <2>3, RefuseStep
  <2>4. CASE FillPending
    BY <2>4, FillStep
  <2>5. ASSUME NEW sig \in Signals, NEW removed \in Removals, NEW ready \in [Symbols -> BOOLEAN],
               Decide(sig, removed, ready)
        PROVE  IInv'
    BY <2>5, DecideStep
  <2>6. CASE MissClose
    BY <2>6, MissCloseStep
  <2>7. CASE FillClose
    BY <2>7, FillCloseStep
  <2>8. CASE EndFrame
    BY <2>8, EndFrameStep
  <2>9. CASE EndOfFeed
    BY <2>9, EndOfFeedStep
  <2>10. CASE Rest
    BY <2>10, StutterStep DEF Rest
  <2>11. CASE UNCHANGED vars
    BY <2>11, StutterStep
  <2>. QED BY <2>1, <2>2, <2>3, <2>4, <2>5, <2>6, <2>7, <2>8, <2>9, <2>10, <2>11 DEF Next
<1>. QED BY <1>1, InitIInv, PTL DEF Spec

\* Only a fill changes the cash or a position.
LEMMA OnlyFillsPay ==
  ASSUME [Next]_vars, cash' # cash \/ pos' # pos
  PROVE  FillPending \/ FillClose
<1>. SUFFICES ASSUME ~(FillPending \/ FillClose) PROVE cash' = cash /\ pos' = pos
  OBVIOUS
<1>1. ASSUME NEW b, NEW a, NextFrame(b, a) PROVE book' = book
  BY <1>1 DEF NextFrame, book
<1>2. ASSUME NEW sig, NEW removed, NEW ready, Decide(sig, removed, ready) PROVE book' = book
  BY <1>2 DEF Decide, book
<1>3. DeferPending \/ RefusePending \/ MissClose => book' = book
  BY DEF DeferPending, RefusePending, MissClose
<1>4. EndFrame \/ EndOfFeed \/ Rest \/ UNCHANGED vars => book' = book
  BY DEF EndFrame, EndOfFeed, Rest, vars, book
<1>5. book' = book
  BY <1>1, <1>2, <1>3, <1>4 DEF Next
<1>. QED BY <1>5 DEF book

\* The engine's lists, counters, cash and positions have the types the model gives them; a
\* position never turns short.
THEOREM TypeCorrect == Spec => []TypeOK
<1>1. IInv => TypeOK
  BY DEF IInv
<1>. QED BY <1>1, Invariance, PTL

\* Of a plan whose fees are covered no run of fills, however many orders share the cash
\* or wait for it, overdraws the cash.
THEOREM NoDebt == Spec => []CashNeverNegative
<1>1. IInv => CashNeverNegative
  BY DEF IInv
<1>. QED BY <1>1, Invariance, PTL

\* Whatever the fees of a plan, no buy overdraws the cash: the error "buy fill exceeds
\* cash" of portfolio.apply is never returned, and a debt comes of a sale at a loss.
THEOREM BuysArePaid == Spec => OnlySalesOwe
<1>1. ASSUME IInv, [Next]_vars, cash' < 0, cash' < cash PROVE SoldAtALoss
  <2>1. ASSUME NEW o, o = Head(queue), queue # <<>>, bars[o.sym].kind \in {"unreached", "live"},
               Execute(o).why = "fill", Apply(o, Execute(o))
        PROVE  SoldAtALoss
    <3>1. o \in Orders
      BY <1>1, <2>1, HeadAndTail DEF IInv, TypeOK
    <3>. QED BY <1>1, <2>1, <3>1, ApplyKeepsBook DEF IInv
  <2>2. FillPending \/ FillClose => SoldAtALoss
    BY <2>1 DEF FillPending, FillClose
  <2>3. cash' # cash
    <3>1. cash \in Int
      BY <1>1 DEF IInv, TypeOK
    <3>. QED BY <1>1, <3>1
  <2>4. FillPending \/ FillClose
    BY <1>1, <2>3, OnlyFillsPay
  <2>. QED BY <2>2, <2>4
<1>2. IInv /\ [Next]_vars => [cash' < 0 /\ cash' < cash =>
                               \E s \in Symbols : pos'[s] < pos[s] /\ (pos[s] - pos'[s]) * Price(s) < plan.fee]_vars
  BY <1>1 DEF SoldAtALoss
<1>. QED BY <1>2, Invariance, PTL DEF Spec, OnlySalesOwe

\* Each announced order still waits or had its end reported, whatever the time in force
\* and the policy for partial fills.
THEOREM OrdersAccounted == Spec => []NoOrderVanishes
<1>1. ASSUME IInv PROVE NoOrderVanishes
  <2>1. kept \in Seq(Orders) /\ queue \in Seq(Orders) /\ pending \in Seq(Orders)
    BY <1>1 DEF IInv, TypeOK
  <2>2. Len(Open) = Len(kept) + Len(queue) + Len(pending)
    BY <2>1 DEF Open
  <2>. QED BY <1>1, <2>2 DEF IInv, Tally, NoOrderVanishes
<1>. QED BY <1>1, Invariance, PTL

\* A position and a side never have two orders under way at once.
THEOREM OneEach == Spec => []OneOrderPerSide
<1>1. ASSUME IInv, plan.fill = "next_open", NEW i \in DOMAIN Open PROVE Count(Open[i], Open) = 1
  <2>1. kept \in Seq(Orders) /\ queue \in Seq(Orders) /\ pending \in Seq(Orders)
    BY <1>1 DEF IInv, TypeOK
  <2>2. Distinct(kept) /\ Distinct(queue) /\ Distinct(pending) /\ Apart(kept, queue)
    BY <1>1 DEF IInv, Unique
  <2>3. kept \o queue \in Seq(Orders) /\ Distinct(kept \o queue)
    BY <2>1, <2>2, ConcatDistinct
  <2>4. pending = <<>> \/ (kept = <<>> /\ queue = <<>>)
    BY <1>1 DEF IInv, Passes, TypeOK
  <2>5. Apart(kept \o queue, pending)
    BY <2>4 DEF Apart
  <2>6. Distinct(Open)
    BY <2>1, <2>2, <2>3, <2>5, ConcatDistinct DEF Open
  <2>7. {j \in DOMAIN Open : SameKey(Open[j], Open[i])} = {i}
    BY <2>6 DEF Distinct, SameKey
  <2>8. Cardinality({i}) = 1
    BY FS_Singleton
  <2>. QED BY <2>7, <2>8 DEF Count
<1>2. IInv => OneOrderPerSide
  BY <1>1 DEF OneOrderPerSide
<1>. QED BY <1>2, Invariance, PTL

\* A fill of a next_open plan is always one of an order made in an earlier frame.
THEOREM PastOnly == Spec => NoLookahead
<1>1. ASSUME IInv, [Next]_vars, plan.fill = "next_open", book' # book PROVE Head(queue).born < frame
  <2>1. FillPending \/ FillClose
    BY <1>1, OnlyFillsPay DEF book
  <2>2. phase = "fill" /\ queue # <<>>
    BY <1>1, <2>1 DEF FillPending, FillClose, IInv, Passes
  <2>3. queue \in Seq(Born(frame - 1)) /\ frame \in Int
    BY <1>1, <2>2, BacktestAssumption DEF IInv, Waiting, TypeOK
  <2>4. Head(queue) \in Orders /\ Head(queue).born <= frame - 1
    BY <2>2, <2>3, HeadAndTail DEF Born
  <2>5. Head(queue).born \in Int
    BY <2>4 DEF Orders
  <2>. QED BY <2>3, <2>4, <2>5
<1>2. IInv /\ [Next]_vars => [(plan.fill = "next_open" /\ book' # book) => Head(queue).born < frame]_vars
  BY <1>1
<1>. QED BY <1>2, Invariance, PTL DEF Spec, NoLookahead


-----------------------------------------------------------------------------
(* The feed: its invariant *)

BarSet ==
  [time : Int, timeframe : {"1d", "1w", "1mo"}, status : {"ok", "no_trade"}, open : Int, high : Int, low : Int,
   close : Int, adjusted_close : Int, volume : Int]

\* The rows the cursor has read.
Met == Len(history) - Len(rows)

\* Those of them that are asked for,
Taken == {i \in 1..Met : history[i].symbol \in Wanted}

\* and those that are no longer in the cursor.
Passed == {i \in Taken : \A s \in DOMAIN cursor : history[i].date < cursor[s].time}

\* The period of a row.
PeriodAt(i) == PeriodOf(history[i].date)

\* The periods of a series.
PeriodsOf(s) == {PeriodOf(series[s][k].time) : k \in DOMAIN series[s]}

\* A bar of its period is in the series.
Handed(i) == PeriodAt(i) \in PeriodsOf(history[i].symbol)

\* Its period is the one that waits for the engine.
InFrame(i) == stage = "append" /\ \E s \in DOMAIN currentBars : PeriodOf(currentBars[s].time) = PeriodAt(i)

\* One of the runs and stores in question.
Asked == \E c \in Cases : run = c.run /\ history = c.rows

\* The end of a run is reached with nothing left over.
Stages ==
  /\ stage \in {"compile", "read", "append", "decide", "settle", "done", "failed", "rejected"}
  /\ stage \in {"read", "append", "decide", "settle", "done"} => run.timeframe \in {"1d", "1w", "1mo"}
  /\ stage = "done" => rows = <<>> /\ cursor = None /\ builders = None

\* The rows to come are the rest of the store, later than all that has left the cursor.
Reading ==
  /\ rows \in Seq(Range(history)) /\ Len(rows) <= Len(history)
  /\ \A k \in DOMAIN rows : rows[k] = history[Met + k]
  /\ \A i \in Passed : \A j \in (Met + 1)..Len(history) : history[i].date < history[j].date

\* The cursor holds a day: for each of its symbols the last row read.
Framing ==
  /\ cursor = [s \in DOMAIN cursor |-> cursor[s]] /\ DOMAIN cursor \subseteq Wanted
  /\ \A s \in DOMAIN cursor :
       /\ \E i \in Taken : /\ history[i].symbol = s /\ cursor[s] = Daily(history[i])
                           /\ \A j \in Taken : history[j].symbol = s => j <= i
       /\ \A t \in DOMAIN cursor : cursor[t].time = cursor[s].time
       /\ \A i \in Taken :
            /\ history[i].date <= cursor[s].time
            /\ history[i].date = cursor[s].time => history[i].symbol \in DOMAIN cursor

\* The days of a symbol in its aggregate.
Built(s) == {i \in Passed : history[i].symbol = s /\ PeriodAt(i) = key /\ LastOfDay(i)}

\* The aggregates are of all days of their period that left the cursor, and later than the series.
Building ==
  /\ key \in Nat /\ (key = 0 <=> builders = None) /\ (~Resampled => key = 0)
  /\ builders = [s \in DOMAIN builders |-> builders[s]] /\ DOMAIN builders \subseteq Wanted
  /\ \A s \in DOMAIN builders : builders[s] \in BarSet /\ IsBarOf(builders[s], Built(s))
  /\ key # 0 =>
       /\ \A i \in Passed : PeriodAt(i) <= key /\ (PeriodAt(i) = key => history[i].symbol \in DOMAIN builders)
       /\ \A s \in Wanted : \A p \in PeriodsOf(s) : p < key

\* The waiting frame is of all days of its period, and between the series and the days to come.
Offered ==
  /\ currentBars = [s \in DOMAIN currentBars |-> currentBars[s]] /\ DOMAIN currentBars \subseteq Wanted
  /\ OnePeriod
  /\ stage = "append" =>
       /\ currentBars # None /\ key = 0
       /\ \A s \in DOMAIN currentBars :
            LET period == PeriodOf(currentBars[s].time)
            IN  /\ currentBars[s] \in BarSet /\ currentBars[s].timeframe = run.timeframe
                /\ IsBarOf(currentBars[s], DaysOf(s, period))
                /\ \A i \in DOMAIN history :
                     history[i].symbol \in Wanted =>
                       /\ i \in Passed \/ period < PeriodAt(i)
                       /\ PeriodAt(i) = period => history[i].symbol \in DOMAIN currentBars
                /\ \A t \in Wanted : \A p \in PeriodsOf(t) : p < period

\* The series are of whole periods, and a row not in them is later than they are.
InSeries ==
  /\ series \in [Wanted -> Seq(BarSet)]
  /\ \A s \in Wanted : WholeBars(s) /\ InOrder(s)
  /\ \A i \in DOMAIN history :
       history[i].symbol \in Wanted =>
         IF Handed(i) THEN i \in Passed
         ELSE /\ \A s \in Wanted : \A p \in PeriodsOf(s) : p < PeriodAt(i)
              /\ i \in Passed /\ stage # "failed" => (key # 0 /\ PeriodAt(i) = key) \/ InFrame(i)

FeedIInv == Asked /\ Stages /\ Reading /\ Framing /\ Building /\ Offered /\ InSeries

-----------------------------------------------------------------------------
(* The rows and their periods *)

\* The rows of the store, in their order, and the order of the periods.
LEMMA HistoryIs ==
  ASSUME Asked
  PROVE  /\ history \in Seq(Range(history)) /\ Len(history) \in Nat /\ DOMAIN history = 1..Len(history)
         /\ \A i \in DOMAIN history :
              /\ history[i].date \in Dates /\ history[i].date \in Nat
              /\ \A field \in PriceFields : history[i][field] \in Int
         /\ \A i, j \in DOMAIN history : i <= j => history[i].date <= history[j].date
<1>1. PICK c \in Cases : history = c.rows
  BY DEF Asked
<1>2. history \in Seq(Range(history))
  BY <1>1, FeedAssumption DEF IsList
<1>3. Len(history) \in Nat /\ DOMAIN history = 1..Len(history)
  BY <1>2
<1>4. \A i, j \in DOMAIN history :
        /\ history[i].date \in Dates
        /\ \A field \in PriceFields : history[i][field] \in Int
        /\ i <= j => history[i].date <= history[j].date
  BY <1>1, FeedAssumption
<1>5. Dates \subseteq Nat
  BY FeedAssumption
<1>. QED BY <1>2, <1>3, <1>4, <1>5

\* Later days are in later periods.
LEMMA PeriodIs ==
  ASSUME NEW d \in Dates
  PROVE  /\ PeriodOf(d) \in Nat /\ d \in Nat
         /\ \A e \in Dates : d <= e => PeriodOf(d) <= PeriodOf(e)
         /\ \A e \in Dates : PeriodOf(d) < PeriodOf(e) => d < e
         /\ Resampled => PeriodOf(d) = Bucket(run.timeframe, d) /\ PeriodOf(d) # 0
         /\ ~Resampled => PeriodOf(d) = d
<1>1. /\ \A e \in Dates : e \in Nat
      /\ \A e \in Dates : WeekOf[e] \in Nat /\ WeekOf[e] # 0 /\ MonthOf[e] \in Nat /\ MonthOf[e] # 0
      /\ \A e, f \in Dates : e <= f => WeekOf[e] <= WeekOf[f] /\ MonthOf[e] <= MonthOf[f]
  BY FeedAssumption
<1>7. \/ Resampled /\ \A e \in Dates : PeriodOf(e) = WeekOf[e]
      \/ Resampled /\ \A e \in Dates : PeriodOf(e) = MonthOf[e]
      \/ ~Resampled /\ \A e \in Dates : PeriodOf(e) = e
  BY DEF PeriodOf, Bucket
<1>2. \A e \in Dates : e \in Nat /\ PeriodOf(e) \in Nat
  BY <1>1, <1>7
<1>3. \A e, f \in Dates : e <= f => PeriodOf(e) <= PeriodOf(f)
  BY <1>1, <1>7
<1>4. \A e \in Dates : PeriodOf(d) < PeriodOf(e) => d < e
  BY <1>2, <1>3
<1>5. Resampled => PeriodOf(d) = Bucket(run.timeframe, d) /\ PeriodOf(d) # 0
  <2>1. Resampled => PeriodOf(d) = Bucket(run.timeframe, d)
    BY DEF PeriodOf
  <2>2. Resampled => PeriodOf(d) # 0
    BY <1>1, <1>7
  <2>. QED BY <2>1, <2>2
<1>6. ~Resampled => PeriodOf(d) = d
  BY DEF PeriodOf
<1>. QED BY <1>2, <1>3, <1>4, <1>5, <1>6

-----------------------------------------------------------------------------
(* Bars of days *)

\* A list of the volumes of some days.
Volumes(days) == [i \in DOMAIN history |-> IF i \in days THEN history[i].volume ELSE 0]

\* One more day adds its volume.
LEMMA VolumeIs ==
  ASSUME Asked, NEW i \in DOMAIN history, NEW days, i \notin days
  PROVE  /\ Total(Volumes({i})) = history[i].volume /\ history[i].volume \in Int
         /\ Total(Volumes(days)) \in Int
         /\ Total(Volumes(days \union {i})) = Total(Volumes(days)) + history[i].volume
<1>1. /\ Len(history) \in Nat /\ DOMAIN history = 1..Len(history)
      /\ \A j \in DOMAIN history : history[j].volume \in Int
  BY HistoryIs DEF PriceFields
<1>2. ASSUME NEW D PROVE /\ Volumes(D) \in Seq(Int) /\ Len(Volumes(D)) = Len(history)
                         /\ DOMAIN Volumes(D) = 1..Len(history)
  BY <1>1, ListOf DEF Volumes
<1>3. Total(Volumes({})) = 0
  <2>1. \A j \in DOMAIN Volumes({}) : Volumes({})[j] = 0
    BY DEF Volumes
  <2>. QED BY <1>2, <2>1, TotalOfZeros
<1>4. ASSUME NEW D, i \notin D
      PROVE  Total(Volumes(D \union {i})) = Total(Volumes(D)) + history[i].volume
  <2>1. \A j \in 1..Len(history) : j # i => Volumes(D \union {i})[j] = Volumes(D)[j]
    BY <1>1 DEF Volumes
  <2>2. Volumes(D \union {i})[i] = history[i].volume /\ Volumes(D)[i] = 0
    BY <1>4 DEF Volumes
  <2>3. Total(Volumes(D \union {i})) = Total(Volumes(D)) + Volumes(D \union {i})[i] - Volumes(D)[i]
    <3>. DEFINE s == Volumes(D)
                t == Volumes(D \union {i})
    <3>1. s \in Seq(Int) /\ t \in Seq(Int) /\ Len(s) = Len(history) /\ Len(t) = Len(history)
      BY <1>2
    <3>2. i \in 1..Len(s) /\ Len(s) = Len(t) /\ \A j \in 1..Len(s) : j # i => t[j] = s[j]
      BY <1>1, <2>1, <3>1
    <3>. HIDE DEF s, t
    <3>3. Total(t) = Total(s) + t[i] - s[i]
      BY <3>1, <3>2, TotalOfChanged
    <3>. QED BY <3>3 DEF s, t
  <2>4. Total(Volumes(D)) \in Int
    BY <1>2, TotalType
  <2>. QED BY <1>1, <2>2, <2>3, <2>4
<1>5. {} \union {i} = {i}
  OBVIOUS
<1>6. Total(Volumes({i})) = history[i].volume
  <2>1. i \notin {}
    OBVIOUS
  <2>2. Total(Volumes({} \union {i})) = Total(Volumes({})) + history[i].volume
    BY <1>4, <2>1
  <2>. QED BY <1>1, <1>3, <1>5, <2>2
<1>7. Total(Volumes(days)) \in Int
  BY <1>2, TotalType
<1>. QED BY <1>1, <1>4, <1>6, <1>7

\* A row becomes the bar of one day.
LEMMA OneDay ==
  ASSUME Asked, NEW i \in DOMAIN history
  PROVE  Daily(history[i]) \in BarSet /\ IsBarOf(Daily(history[i]), {i})
<1>1. /\ i \in Nat /\ history[i].date \in Int
      /\ history[i].open \in Int /\ history[i].high \in Int /\ history[i].low \in Int
      /\ history[i].close \in Int /\ history[i].adjusted_close \in Int /\ history[i].volume \in Int
  BY HistoryIs DEF PriceFields
<1>2. Daily(history[i]) \in BarSet
  <2>. DEFINE row == history[i]
              status == IF NoTrade(row) THEN "no_trade" ELSE "ok"
  <2>1. status \in {"ok", "no_trade"}
    BY DEF NoTrade
  <2>. HIDE DEF status
  <2>2. Daily(row) = [time |-> row.date, timeframe |-> "1d", status |-> status,
                      open |-> row.open, high |-> row.high, low |-> row.low, close |-> row.close,
                      adjusted_close |-> row.adjusted_close, volume |-> row.volume]
    BY DEF Daily, status
  <2>. QED BY <1>1, <2>1, <2>2 DEF BarSet
<1>3. Total([j \in DOMAIN history |-> IF j \in {i} THEN history[j].volume ELSE 0]) = history[i].volume
  <2>1. Total(Volumes({i})) = history[i].volume
    BY VolumeIs, i \notin {}
  <2>. QED BY <2>1 DEF Volumes
<1>. QED BY <1>1, <1>2, <1>3 DEF IsBarOf, Daily, NoTrade

\* A later day joins the days of a bar.
LEMMA OneMoreDay ==
  ASSUME Asked, NEW bar \in BarSet, NEW days \in SUBSET DOMAIN history, IsBarOf(bar, days),
         NEW i \in DOMAIN history, \A j \in days : j < i
  PROVE  /\ Merged(bar, Daily(history[i])) \in BarSet
         /\ IsBarOf(Merged(bar, Daily(history[i])), days \union {i})
<1>. DEFINE new == Daily(history[i])
            sum == Merged(bar, new)
            all == days \union {i}
<1>1. /\ DOMAIN history \subseteq Nat
      /\ \A j \in DOMAIN history :
           /\ history[j].open \in Int /\ history[j].high \in Int /\ history[j].low \in Int
           /\ history[j].close \in Int /\ history[j].volume \in Int
  BY HistoryIs DEF PriceFields
<1>2. new \in BarSet
  BY OneDay
<1>3. /\ new.time = history[i].date /\ new.high = history[i].high /\ new.low = history[i].low
      /\ new.close = history[i].close /\ new.volume = history[i].volume
      /\ new.status = IF NoTrade(history[i]) THEN "no_trade" ELSE "ok"
  BY DEF Daily
<1>. HIDE DEF new
<1>4. sum \in BarSet
  <2>. DEFINE high == IF new.high > bar.high THEN new.high ELSE bar.high
              low == IF new.low < bar.low THEN new.low ELSE bar.low
              status == IF new.status = "no_trade" THEN bar.status ELSE "ok"
              volume == bar.volume + new.volume
  <2>1. high \in Int /\ low \in Int /\ status \in {"ok", "no_trade"} /\ volume \in Int
    BY <1>2 DEF BarSet
  <2>2. sum = [bar EXCEPT !.high = high, !.low = low, !.close = new.close, !.volume = volume,
                          !.time = new.time, !.status = status]
    BY DEF Merged
  <2>. HIDE DEF high, low, status, volume, sum
  <2>. QED BY <1>2, <2>1, <2>2 DEF BarSet
<1>5. /\ sum.open = bar.open /\ sum.close = new.close /\ sum.time = new.time
      /\ sum.high = (IF new.high > bar.high THEN new.high ELSE bar.high)
      /\ sum.low = (IF new.low < bar.low THEN new.low ELSE bar.low)
      /\ sum.volume = bar.volume + new.volume
      /\ sum.status = (IF new.status = "no_trade" THEN bar.status ELSE "ok")
  BY DEF Merged, BarSet
<1>. HIDE DEF sum
<1>6. PICK first, last \in days :
        /\ \A j \in days : first <= j /\ j <= last
        /\ bar.open = history[first].open
  BY DEF IsBarOf
<1>7. \E f, l \in all :
        /\ \A j \in all : f <= j /\ j <= l
        /\ sum.open = history[f].open /\ sum.close = history[l].close /\ sum.time = history[l].date
  <2>1. \A j \in all : first <= j /\ j <= i
    BY <1>1, <1>6
  <2>. QED BY <1>3, <1>5, <1>6, <2>1
<1>8. /\ sum.high \in {history[j].high : j \in all} /\ \A x \in {history[j].high : j \in all} : x <= sum.high
  <2>1. bar.high \in {history[j].high : j \in days} /\ \A j \in days : history[j].high <= bar.high
    BY DEF IsBarOf
  <2>2. bar.high \in Int /\ new.high \in Int
    BY <1>2 DEF BarSet
  <2>. QED BY <1>1, <1>3, <1>5, <2>1, <2>2
<1>9. /\ sum.low \in {history[j].low : j \in all} /\ \A x \in {history[j].low : j \in all} : sum.low <= x
  <2>1. bar.low \in {history[j].low : j \in days} /\ \A j \in days : bar.low <= history[j].low
    BY DEF IsBarOf
  <2>2. bar.low \in Int /\ new.low \in Int
    BY <1>2 DEF BarSet
  <2>. QED BY <1>1, <1>3, <1>5, <2>1, <2>2
<1>10. sum.volume = Total([j \in DOMAIN history |-> IF j \in all THEN history[j].volume ELSE 0])
  <2>1. bar.volume = Total(Volumes(days))
    BY DEF IsBarOf, Volumes
  <2>2. i \notin days
    BY <1>1
  <2>3. Total(Volumes(all)) = Total(Volumes(days)) + history[i].volume
    BY <2>2, VolumeIs
  <2>. QED BY <1>3, <1>5, <2>1, <2>3 DEF Volumes
<1>11. sum.status = IF \A j \in all : NoTrade(history[j]) THEN "no_trade" ELSE "ok"
  <2>1. bar.status = IF \A j \in days : NoTrade(history[j]) THEN "no_trade" ELSE "ok"
    BY DEF IsBarOf
  <2>. HIDE DEF all
  <2>2. (\A j \in all : NoTrade(history[j])) <=> (\A j \in days : NoTrade(history[j])) /\ NoTrade(history[i])
    BY DEF all
  <2>. QED BY <1>3, <1>5, <2>1, <2>2
<1>12. IsBarOf(sum, all)
  BY <1>7, <1>8, <1>9, <1>10, <1>11 DEF IsBarOf
<1>. QED BY <1>4, <1>12 DEF new, sum

-----------------------------------------------------------------------------
(* Steps that leave the run and its rows alone *)

\* What is said of rows and periods stays.
LEMMA SameHistory ==
  ASSUME run' = run, history' = history
  PROVE  /\ Wanted' = Wanted /\ Resampled' = Resampled
         /\ \A t : PeriodOf(t)' = PeriodOf(t)
         /\ \A i : LastOfDay(i)' = LastOfDay(i) /\ PeriodAt(i)' = PeriodAt(i)
         /\ \A s, p : DaysOf(s, p)' = DaysOf(s, p)
         /\ \A bar, days : IsBarOf(bar, days)' = IsBarOf(bar, days)
         /\ Asked' = Asked
<1>1. Wanted' = Wanted
  BY DEF Wanted
<1>2. Resampled' = Resampled
  BY DEF Resampled
<1>3. \A t : PeriodOf(t)' = PeriodOf(t)
  BY <1>2 DEF PeriodOf, Bucket
<1>4. \A i : LastOfDay(i)' = LastOfDay(i) /\ PeriodAt(i)' = PeriodAt(i)
  BY <1>3 DEF LastOfDay, PeriodAt
<1>5. \A s, p : DaysOf(s, p)' = DaysOf(s, p)
  BY <1>3, <1>4 DEF DaysOf
<1>6. \A bar, days : IsBarOf(bar, days)' = IsBarOf(bar, days)
  BY DEF IsBarOf
<1>7. Asked' = Asked
  BY DEF Asked
<1>. QED BY <1>1, <1>2, <1>3, <1>4, <1>5, <1>6, <1>7

\* What is said of the rows that were read stays as long as no other row is.
LEMMA SameReading ==
  ASSUME run' = run, history' = history, rows' = rows, cursor' = cursor
  PROVE  /\ Met' = Met /\ Taken' = Taken /\ Passed' = Passed
         /\ Reading => Reading'
         /\ Framing => Framing'
<1>1. Wanted' = Wanted
  BY SameHistory
<1>2. Met' = Met
  BY DEF Met
<1>3. Taken' = Taken
  BY <1>1, <1>2 DEF Taken
<1>4. Passed' = Passed
  BY <1>3 DEF Passed
<1>5. Reading => Reading'
  BY <1>2, <1>4 DEF Reading
<1>6. Framing => Framing'
  BY <1>1, <1>3 DEF Framing
<1>. QED BY <1>2, <1>3, <1>4, <1>5, <1>6

\* And so does what is said of the aggregates,
LEMMA SameBuilding ==
  ASSUME run' = run, history' = history, Passed' = Passed, key' = key, builders' = builders, series' = series, Building
  PROVE  Building'
<1>1. /\ Wanted' = Wanted /\ Resampled' = Resampled /\ \A t : PeriodOf(t)' = PeriodOf(t)
      /\ \A i : LastOfDay(i)' = LastOfDay(i) /\ PeriodAt(i)' = PeriodAt(i)
      /\ \A bar, days : IsBarOf(bar, days)' = IsBarOf(bar, days)
  BY SameHistory
<1>2. \A s : Built(s)' = Built(s)
  BY <1>1 DEF Built
<1>3. \A s : PeriodsOf(s)' = PeriodsOf(s)
  BY <1>1 DEF PeriodsOf
<1>. QED BY <1>1, <1>2, <1>3 DEF Building

\* of the frame, unless it comes to wait,
LEMMA SameOffered ==
  ASSUME run' = run, history' = history, currentBars' = currentBars, series' = series,
         stage' = "append" => stage = "append" /\ key' = key /\ Passed' = Passed, Offered
  PROVE  Offered'
<1>1. /\ Wanted' = Wanted /\ \A t : PeriodOf(t)' = PeriodOf(t)
      /\ \A i : PeriodAt(i)' = PeriodAt(i)
      /\ \A s, p : DaysOf(s, p)' = DaysOf(s, p)
      /\ \A bar, days : IsBarOf(bar, days)' = IsBarOf(bar, days)
  BY SameHistory
<1>2. \A s : PeriodsOf(s)' = PeriodsOf(s)
  BY <1>1 DEF PeriodsOf
<1>3. OnePeriod' = OnePeriod
  BY <1>1 DEF OnePeriod
<1>. QED BY <1>1, <1>2, <1>3 DEF Offered

\* and of the series.
LEMMA SameSeries ==
  ASSUME run' = run, history' = history, series' = series, InSeries,
         \A i \in DOMAIN history :
           history[i].symbol \in Wanted =>
             /\ Handed(i) => i \in Passed'
             /\ ~Handed(i) /\ i \in Passed' /\ stage' # "failed" =>
                  (key' # 0 /\ PeriodAt(i) = key') \/ InFrame(i)'
  PROVE  InSeries'
<1>1. /\ Wanted' = Wanted /\ \A t : PeriodOf(t)' = PeriodOf(t)
      /\ \A i : PeriodAt(i)' = PeriodAt(i)
      /\ \A s, p : DaysOf(s, p)' = DaysOf(s, p)
      /\ \A bar, days : IsBarOf(bar, days)' = IsBarOf(bar, days)
  BY SameHistory
<1>2. \A s : PeriodsOf(s)' = PeriodsOf(s)
  BY <1>1 DEF PeriodsOf
<1>3. \A i : Handed(i)' = Handed(i)
  BY <1>1, <1>2 DEF Handed
<1>4. \A s : WholeBars(s)' = WholeBars(s) /\ InOrder(s)' = InOrder(s)
  BY <1>1 DEF WholeBars, InOrder
<1>. QED BY <1>1, <1>2, <1>3, <1>4 DEF InSeries

-----------------------------------------------------------------------------
(* The frame in the cursor *)

\* The rows that were read are some of the first ones.
LEMMA TakenAre ==
  ASSUME Asked, Reading
  PROVE  /\ Met \in Nat /\ Met <= Len(history) /\ Len(history) \in Nat /\ DOMAIN history = 1..Len(history)
         /\ \A i : i \in Taken <=> i \in DOMAIN history /\ i <= Met /\ history[i].symbol \in Wanted
         /\ Passed \subseteq Taken
<1>1. Len(history) \in Nat /\ DOMAIN history = 1..Len(history)
  BY HistoryIs
<1>2. Len(rows) \in Nat /\ Len(rows) <= Len(history)
  BY DEF Reading
<1>3. Met \in Nat /\ Met <= Len(history)
  BY <1>1, <1>2 DEF Met
<1>. QED BY <1>1, <1>3 DEF Taken, Passed

\* The bars in the cursor are of one day, of its last rows so far.
LEMMA FrameIs ==
  ASSUME Asked, Reading, Framing, cursor # None
  PROVE  /\ DOMAIN cursor # {} /\ FrameTime \in Dates
         /\ \A s \in DOMAIN cursor : cursor[s].time = FrameTime
         /\ \A i \in Taken : i \in Passed => history[i].date < FrameTime
         /\ \A i \in Taken : i \notin Passed => history[i].date = FrameTime /\ history[i].symbol \in DOMAIN cursor
         /\ \A s \in DOMAIN cursor : \E i \in Taken :
              /\ i \notin Passed /\ history[i].symbol = s /\ history[i].date = FrameTime
              /\ cursor[s] = Daily(history[i])
              /\ \A j \in Taken : history[j].symbol = s => j <= i
<1>1. DOMAIN cursor # {}
  BY DEF Framing, None
<1>2. \A s \in DOMAIN cursor : cursor[s].time = FrameTime
  BY <1>1 DEF FrameTime, Framing
<1>3. \A i \in Taken : i \in DOMAIN history /\ history[i].date \in Dates /\ history[i].date \in Nat
  BY TakenAre, HistoryIs
<1>4. ASSUME NEW s \in DOMAIN cursor
      PROVE  \E i \in Taken :
               /\ i \notin Passed /\ history[i].symbol = s /\ history[i].date = FrameTime
               /\ cursor[s] = Daily(history[i])
               /\ \A j \in Taken : history[j].symbol = s => j <= i
  <2>1. PICK i \in Taken : /\ history[i].symbol = s /\ cursor[s] = Daily(history[i])
                           /\ \A j \in Taken : history[j].symbol = s => j <= i
    BY DEF Framing
  <2>2. Daily(history[i]).time = history[i].date
    BY DEF Daily
  <2>3. history[i].date = FrameTime
    BY <1>2, <2>1, <2>2
  <2>4. i \notin Passed
    BY <1>2, <1>3, <2>3 DEF Passed
  <2>. QED BY <2>1, <2>3, <2>4
<1>5. FrameTime \in Dates
  BY <1>1, <1>3, <1>4
<1>6. FrameTime \in Nat
  BY <1>5, PeriodIs
<1>7. \A i \in Taken : i \in Passed => history[i].date < FrameTime
  BY <1>1, <1>2 DEF Passed
<1>8. ASSUME NEW i \in Taken, i \notin Passed
      PROVE  history[i].date = FrameTime /\ history[i].symbol \in DOMAIN cursor
  <2>1. PICK s \in DOMAIN cursor : ~(history[i].date < cursor[s].time)
    BY <1>8 DEF Passed
  <2>2. history[i].date <= FrameTime
    BY <1>2, <2>1 DEF Framing
  <2>3. history[i].date = FrameTime
    BY <1>2, <1>3, <1>6, <2>1, <2>2
  <2>. QED BY <1>2, <2>1, <2>3 DEF Framing
<1>. QED BY <1>1, <1>2, <1>4, <1>5, <1>7, <1>8

\* The next row of the store.
LEMMA NextRow ==
  ASSUME Asked, Reading, rows # <<>>
  PROVE  /\ Met + 1 \in DOMAIN history /\ Head(rows) = history[Met + 1]
         /\ history' = history /\ rows' = Tail(rows) =>
              /\ Met' = Met + 1
              /\ rows' \in Seq(Range(history)) /\ Len(rows') <= Len(history)
              /\ \A k \in DOMAIN rows' : rows'[k] = history[Met' + k]
<1>. DEFINE X == Range(history)
<1>1. rows \in Seq(X) /\ Len(rows) \in Nat /\ Len(rows) <= Len(history)
  BY DEF Reading
<1>2. Len(history) \in Nat /\ DOMAIN history = 1..Len(history)
  BY HistoryIs
<1>3. Len(rows) > 0 /\ DOMAIN rows = 1..Len(rows) /\ Met = Len(history) - Len(rows)
  BY <1>1 DEF Met
<1>4. \A k \in DOMAIN rows : rows[k] = history[Met + k]
  BY DEF Reading
<1>5. Met + 1 \in DOMAIN history /\ Head(rows) = history[Met + 1]
  BY <1>1, <1>2, <1>3, <1>4
<1>6. /\ Tail(rows) \in Seq(X) /\ Len(Tail(rows)) = Len(rows) - 1
      /\ \A k \in 1..(Len(rows) - 1) : Tail(rows)[k] = rows[k + 1]
  BY <1>1, <1>3
<1>7. ASSUME history' = history, rows' = Tail(rows)
      PROVE  /\ Met' = Met + 1
             /\ rows' \in Seq(X) /\ Len(rows') <= Len(history)
             /\ \A k \in DOMAIN rows' : rows'[k] = history[Met' + k]
  <2>1. Met' = Met + 1
    BY <1>1, <1>2, <1>3, <1>6, <1>7 DEF Met
  <2>2. rows' \in Seq(X) /\ Len(rows') <= Len(history) /\ DOMAIN rows' = 1..(Len(rows) - 1)
    BY <1>1, <1>2, <1>6, <1>7
  <2>3. ASSUME NEW k \in DOMAIN rows' PROVE rows'[k] = history[Met' + k]
    <3>1. k \in 1..(Len(rows) - 1) /\ k + 1 \in DOMAIN rows /\ (Met + 1) + k = Met + (k + 1)
      BY <1>1, <1>2, <1>3, <2>2
    <3>2. rows'[k] = rows[k + 1]
      BY <1>6, <1>7, <3>1
    <3>. QED BY <1>4, <2>1, <3>1, <3>2
  <2>. QED BY <2>1, <2>2, <2>3
<1>. QED BY <1>5, <1>7

\* Once a frame is closed all the rows of its day are in it, and those to come are later.
LEMMA ClosedFrame ==
  ASSUME Asked, Reading, Framing, FrameClosed
  PROVE  /\ \A j \in (Met + 1)..Len(history) : FrameTime < history[j].date
         /\ \A s \in DOMAIN cursor : \E i \in Taken :
              /\ i \notin Passed /\ history[i].symbol = s /\ history[i].date = FrameTime
              /\ cursor[s] = Daily(history[i]) /\ LastOfDay(i)
<1>1. cursor # None
  BY DEF FrameClosed
<1>2. /\ Met \in Nat /\ Met <= Len(history) /\ Len(history) \in Nat /\ DOMAIN history = 1..Len(history)
      /\ \A i : i \in Taken <=> i \in DOMAIN history /\ i <= Met /\ history[i].symbol \in Wanted
  BY TakenAre
<1>3. /\ \A i \in DOMAIN history : history[i].date \in Nat
      /\ \A i, j \in DOMAIN history : i <= j => history[i].date <= history[j].date
  BY HistoryIs
<1>4. /\ DOMAIN cursor # {} /\ FrameTime \in Nat
      /\ \A s \in DOMAIN cursor : cursor[s].time = FrameTime
  BY <1>1, FrameIs, PeriodIs
<1>5. PICK m \in Taken : history[m].date = FrameTime
  BY <1>1, <1>4, FrameIs
<1>6. ASSUME NEW j \in (Met + 1)..Len(history) PROVE FrameTime < history[j].date
  <2>1. rows # <<>>
    <3>1. rows = <<>> => Len(rows) = 0
      OBVIOUS
    <3>2. Len(rows) # 0
      BY <1>2 DEF Met
    <3>. QED BY <3>1, <3>2
  <2>2. ~Foreign(Head(rows)) /\ ~Joins(Head(rows))
    BY <2>1 DEF FrameClosed, AtEnd
  <2>3. Met + 1 \in DOMAIN history /\ Head(rows) = history[Met + 1]
    BY <2>1, NextRow
  <2>4. history[Met + 1].date # FrameTime
    BY <1>4, <2>2, <2>3 DEF Joins
  <2>5. m \in DOMAIN history /\ m <= Met + 1 /\ Met + 1 <= j /\ j \in DOMAIN history
    BY <1>2
  <2>6. FrameTime <= history[Met + 1].date /\ history[Met + 1].date <= history[j].date
    BY <1>3, <1>5, <2>3, <2>5
  <2>. QED BY <1>3, <1>4, <2>3, <2>4, <2>5, <2>6
<1>7. ASSUME NEW s \in DOMAIN cursor
      PROVE  \E i \in Taken :
               /\ i \notin Passed /\ history[i].symbol = s /\ history[i].date = FrameTime
               /\ cursor[s] = Daily(history[i]) /\ LastOfDay(i)
  <2>1. PICK i \in Taken :
          /\ i \notin Passed /\ history[i].symbol = s /\ history[i].date = FrameTime
          /\ cursor[s] = Daily(history[i])
          /\ \A j \in Taken : history[j].symbol = s => j <= i
    BY <1>1, FrameIs
  <2>2. ASSUME NEW j \in DOMAIN history, history[j].symbol = s, history[j].date = FrameTime PROVE j <= i
    <3>1. j <= Met
      BY <1>2, <1>4, <1>6, <2>2
    <3>2. s \in Wanted
      BY <1>2, <2>1
    <3>. QED BY <1>2, <2>1, <2>2, <3>1, <3>2
  <2>3. LastOfDay(i)
    BY <2>1, <2>2 DEF LastOfDay
  <2>. QED BY <2>1, <2>3
<1>. QED BY <1>6, <1>7
-----------------------------------------------------------------------------
(* Every step *)

\* Nothing is read at first.
LEMMA InitHolds ==
  ASSUME NEW c \in Cases, FeedInit(c)
  PROVE  FeedIInv
<1>1. /\ run = c.run /\ history = c.rows /\ stage = "compile" /\ rows = history
      /\ cursor = None /\ key = 0 /\ builders = None /\ currentBars = None /\ series = [s \in Wanted |-> <<>>]
  BY DEF FeedInit
<1>2. Asked
  BY <1>1 DEF Asked
<1>3. history \in Seq(Range(history)) /\ Len(history) \in Nat
  BY <1>2, HistoryIs
<1>4. Met = 0 /\ Taken = {} /\ Passed = {}
  BY <1>1, <1>3 DEF Met, Taken, Passed
<1>5. Reading
  <2>1. \A k \in DOMAIN rows : rows[k] = history[Met + k]
    BY <1>1, <1>3, <1>4
  <2>. QED BY <1>1, <1>3, <1>4, <2>1 DEF Reading
<1>6. DOMAIN None = {} /\ None = [s \in DOMAIN None |-> None[s]]
  BY DEF None
<1>7. Framing
  BY <1>1, <1>6 DEF Framing
<1>8. Building
  BY <1>1, <1>6 DEF Building
<1>9. Offered
  BY <1>1, <1>6 DEF Offered, OnePeriod
<1>10. InSeries
  <2>1. \A s \in Wanted : series[s] = <<>> /\ DOMAIN series[s] = {}
    BY <1>1
  <2>2. series \in [Wanted -> Seq(BarSet)]
    BY <1>1
  <2>3. \A s \in Wanted : PeriodsOf(s) = {}
    BY <2>1 DEF PeriodsOf
  <2>4. \A s \in Wanted : WholeBars(s) /\ InOrder(s)
    BY <2>1 DEF WholeBars, InOrder
  <2>. QED BY <1>4, <2>2, <2>3, <2>4 DEF InSeries, Handed
<1>11. Stages
  BY <1>1 DEF Stages
<1>. QED BY <1>2, <1>5, <1>7, <1>8, <1>9, <1>10, <1>11 DEF FeedIInv

\* Steps of the control alone: opening the feed, ending, failing, and the engine's turn.
LEMMA TurnHolds ==
  ASSUME FeedIInv, UNCHANGED <<run, history, rows, cursor, key, builders, currentBars, series>>,
         stage # "append", stage' # "append", stage = "failed" => stage' = "failed", Stages'
  PROVE  FeedIInv'
<1>1. Asked' /\ Wanted' = Wanted /\ \A i : PeriodAt(i)' = PeriodAt(i)
  BY SameHistory DEF FeedIInv
<1>2. Passed' = Passed /\ Reading' /\ Framing'
  <2>1. run' = run /\ history' = history /\ rows' = rows /\ cursor' = cursor
    OBVIOUS
  <2>2. Passed' = Passed /\ (Reading => Reading') /\ (Framing => Framing')
    BY <2>1, SameReading
  <2>. QED BY <2>2 DEF FeedIInv
<1>3. Building'
  BY <1>2, SameBuilding DEF FeedIInv
<1>4. Offered'
  BY <1>2, SameOffered DEF FeedIInv
<1>5. InSeries'
  <2>1. ASSUME NEW i \in DOMAIN history, history[i].symbol \in Wanted
        PROVE  /\ Handed(i) => i \in Passed'
               /\ ~Handed(i) /\ i \in Passed' /\ stage' # "failed" => key' # 0 /\ PeriodAt(i) = key'
    BY <1>2, <2>1 DEF FeedIInv, InSeries, InFrame
  <2>. QED BY <2>1, SameSeries DEF FeedIInv
<1>. QED BY <1>1, <1>2, <1>3, <1>4, <1>5 DEF FeedIInv

\* A row of another instrument is passed over.
LEMMA SkipHolds ==
  ASSUME FeedIInv, SkipRow
  PROVE  FeedIInv'
<1>1. /\ stage = "read" /\ rows # <<>> /\ Foreign(Head(rows)) /\ rows' = Tail(rows)
      /\ UNCHANGED <<run, history, stage, cursor, key, builders, currentBars, series>>
  BY DEF SkipRow
<1>2. /\ Asked' /\ Wanted' = Wanted /\ \A i : PeriodAt(i)' = PeriodAt(i)
  BY <1>1, SameHistory DEF FeedIInv
<1>3. /\ Met + 1 \in DOMAIN history /\ Head(rows) = history[Met + 1] /\ Met' = Met + 1
      /\ rows' \in Seq(Range(history)) /\ Len(rows') <= Len(history)
      /\ \A k \in DOMAIN rows' : rows'[k] = history[Met' + k]
  BY <1>1, NextRow DEF FeedIInv
<1>4. /\ Met \in Nat /\ Len(history) \in Nat /\ DOMAIN history = 1..Len(history)
  BY TakenAre DEF FeedIInv
<1>5. Taken' = Taken
  <2>1. history[Met + 1].symbol \notin Wanted
    BY <1>1, <1>3 DEF Foreign
  <2>2. \A i \in 1..(Met + 1) : history[i].symbol \in Wanted => i \in 1..Met
    BY <1>4, <2>1
  <2>3. 1..Met \subseteq 1..(Met + 1)
    BY <1>4
  <2>4. Taken' = {i \in 1..(Met + 1) : history[i].symbol \in Wanted}
    BY <1>1, <1>2, <1>3 DEF Taken
  <2>. QED BY <2>2, <2>3, <2>4 DEF Taken
<1>6. Passed' = Passed
  BY <1>1, <1>5 DEF Passed
<1>7. Reading'
  <2>1. \A i \in Passed : \A j \in (Met + 1)..Len(history) : history[i].date < history[j].date
    BY DEF FeedIInv, Reading
  <2>2. (Met' + 1)..Len(history) \subseteq (Met + 1)..Len(history)
    BY <1>3, <1>4
  <2>3. \A i \in Passed : \A j \in (Met' + 1)..Len(history) : history[i].date < history[j].date
    BY <2>1, <2>2
  <2>. QED BY <1>1, <1>3, <1>6, <2>3 DEF Reading
<1>8. Framing'
  BY <1>1, <1>2, <1>5 DEF FeedIInv, Framing
<1>9. Building'
  BY <1>1, <1>6, SameBuilding DEF FeedIInv
<1>10. Offered'
  BY <1>1, <1>6, SameOffered DEF FeedIInv
<1>11. InSeries'
  <2>1. ASSUME NEW i \in DOMAIN history, history[i].symbol \in Wanted
        PROVE  /\ Handed(i) => i \in Passed'
               /\ ~Handed(i) /\ i \in Passed' /\ stage' # "failed" => key' # 0 /\ PeriodAt(i) = key'
    BY <1>1, <1>6, <2>1 DEF FeedIInv, InSeries, InFrame
  <2>. QED BY <1>1, <2>1, SameSeries DEF FeedIInv
<1>12. Stages'
  BY <1>1 DEF FeedIInv, Stages
<1>. QED BY <1>2, <1>7, <1>8, <1>9, <1>10, <1>11, <1>12 DEF FeedIInv
\* A row joins the frame of its day.
LEMMA JoinHolds ==
  ASSUME FeedIInv, JoinRow
  PROVE  FeedIInv'
<1>. DEFINE n == Met + 1
            row == history[n]
            joined == [s \in DOMAIN cursor \union {row.symbol} |->
                         IF s = row.symbol THEN Daily(row) ELSE cursor[s]]
<1>1. /\ stage = "read" /\ rows # <<>> /\ Joins(Head(rows)) /\ rows' = Tail(rows)
      /\ UNCHANGED <<run, history, stage, key, builders, currentBars, series>>
  BY DEF JoinRow
<1>2. /\ Asked' /\ Wanted' = Wanted
  BY <1>1, SameHistory DEF FeedIInv
<1>3. /\ n \in DOMAIN history /\ Head(rows) = row /\ Met' = n
      /\ rows' \in Seq(Range(history)) /\ Len(rows') <= Len(history)
      /\ \A k \in DOMAIN rows' : rows'[k] = history[Met' + k]
  BY <1>1, NextRow DEF FeedIInv
<1>4. /\ Met \in Nat /\ n \in Nat /\ Len(history) \in Nat /\ DOMAIN history = 1..Len(history)
      /\ \A i : i \in Taken <=> i \in DOMAIN history /\ i <= Met /\ history[i].symbol \in Wanted
  BY TakenAre DEF FeedIInv
<1>5. /\ \A i \in DOMAIN history : history[i].date \in Nat
      /\ \A i, j \in DOMAIN history : i <= j => history[i].date <= history[j].date
  BY HistoryIs DEF FeedIInv
<1>6. row.symbol \in Wanted /\ \A s \in DOMAIN cursor : cursor[s].time = row.date
  BY <1>1, <1>3 DEF Joins, Foreign
<1>7. cursor' = joined
  BY <1>1, <1>3 DEF JoinRow
<1>8. /\ DOMAIN joined = DOMAIN cursor \union {row.symbol} /\ joined[row.symbol] = Daily(row)
      /\ \A s \in DOMAIN cursor : s # row.symbol => joined[s] = cursor[s]
      /\ joined = [s \in DOMAIN joined |-> joined[s]]
  OBVIOUS
<1>. HIDE DEF joined
<1>9. Daily(row).time = row.date
  BY DEF Daily
<1>10. \A s \in DOMAIN joined : joined[s].time = row.date
  BY <1>6, <1>8, <1>9
<1>11. Taken' = Taken \union {n}
  <2>1. Taken' = {i \in 1..n : history[i].symbol \in Wanted}
    BY <1>1, <1>2, <1>3 DEF Taken
  <2>2. \A i : i \in 1..n <=> i \in 1..Met \/ i = n
    BY <1>4
  <2>. QED BY <1>6, <2>1, <2>2 DEF Taken
<1>12. n \notin Taken
  BY <1>4
<1>13. \A i \in Taken : /\ i \in Passed <=> history[i].date < row.date
                        /\ i \notin Passed => history[i].symbol \in DOMAIN cursor
  <2>1. CASE cursor = None
    <3>1. Passed = Taken
      BY <2>1 DEF Passed, None
    <3>2. \A i \in Passed : history[i].date < history[n].date
      BY <1>3, <1>4 DEF FeedIInv, Reading
    <3>. QED BY <3>1, <3>2
  <2>2. CASE cursor # None
    <3>1. /\ DOMAIN cursor # {} /\ \A s \in DOMAIN cursor : cursor[s].time = FrameTime
          /\ \A i \in Taken : i \in Passed => history[i].date < FrameTime
          /\ \A i \in Taken : i \notin Passed => history[i].date = FrameTime /\ history[i].symbol \in DOMAIN cursor
      BY <2>2, FrameIs DEF FeedIInv
    <3>2. FrameTime = row.date
      BY <1>6, <3>1
    <3>. QED BY <1>3, <1>5, <3>1, <3>2
  <2>. QED BY <2>1, <2>2
<1>14. Passed' = Passed
  <2>1. Passed' = {i \in Taken' : \A s \in DOMAIN joined : history[i].date < joined[s].time}
    BY <1>1, <1>7 DEF Passed
  <2>2. \A i \in Taken' : (\A s \in DOMAIN joined : history[i].date < joined[s].time) <=> history[i].date < row.date
    BY <1>8, <1>10
  <2>3. ~(history[n].date < row.date)
    BY <1>3, <1>5
  <2>4. Passed \subseteq Taken
    BY DEF Passed
  <2>. QED BY <1>11, <1>13, <2>1, <2>2, <2>3, <2>4
<1>15. Reading'
  <2>1. \A i \in Passed : \A j \in (Met + 1)..Len(history) : history[i].date < history[j].date
    BY DEF FeedIInv, Reading
  <2>2. (Met' + 1)..Len(history) \subseteq (Met + 1)..Len(history)
    BY <1>3, <1>4
  <2>3. \A i \in Passed : \A j \in (Met' + 1)..Len(history) : history[i].date < history[j].date
    BY <2>1, <2>2
  <2>. QED BY <1>1, <1>3, <1>14, <2>3 DEF Reading
<1>16. Framing'
  <2>1. DOMAIN joined \subseteq Wanted
    BY <1>6, <1>8 DEF FeedIInv, Framing
  <2>2. ASSUME NEW s \in DOMAIN joined
        PROVE  \E i \in Taken' : /\ history[i].symbol = s /\ joined[s] = Daily(history[i])
                                 /\ \A j \in Taken' : history[j].symbol = s => j <= i
    <3>1. CASE s = row.symbol
      <4>1. \A j \in Taken' : j <= n
        BY <1>4, <1>11
      <4>. QED BY <1>8, <1>11, <3>1, <4>1
    <3>2. CASE s # row.symbol
      <4>1. s \in DOMAIN cursor /\ joined[s] = cursor[s]
        BY <1>8, <3>2
      <4>2. PICK i \in Taken : /\ history[i].symbol = s /\ cursor[s] = Daily(history[i])
                               /\ \A j \in Taken : history[j].symbol = s => j <= i
        BY <4>1 DEF FeedIInv, Framing
      <4>. QED BY <1>11, <3>2, <4>1, <4>2
    <3>. QED BY <3>1, <3>2
  <2>3. ASSUME NEW i \in Taken' PROVE history[i].date <= row.date
    BY <1>3, <1>4, <1>5, <1>11
  <2>4. ASSUME NEW i \in Taken', history[i].date = row.date PROVE history[i].symbol \in DOMAIN joined
    <3>1. CASE i = n
      BY <1>8, <3>1
    <3>2. CASE i \in Taken
      <4>1. i \notin Passed
        BY <1>3, <1>5, <1>13, <2>4, <3>2
      <4>. QED BY <1>8, <1>13, <3>2, <4>1
    <3>. QED BY <1>11, <3>1, <3>2
  <2>. QED BY <1>1, <1>2, <1>7, <1>8, <1>10, <2>1, <2>2, <2>3, <2>4 DEF Framing
<1>17. Building'
  BY <1>1, <1>14, SameBuilding DEF FeedIInv
<1>18. Offered'
  BY <1>1, <1>14, SameOffered DEF FeedIInv
<1>19. InSeries'
  <2>1. ASSUME NEW i \in DOMAIN history, history[i].symbol \in Wanted
        PROVE  /\ Handed(i) => i \in Passed'
               /\ ~Handed(i) /\ i \in Passed' /\ stage' # "failed" => key' # 0 /\ PeriodAt(i) = key'
    BY <1>1, <1>14, <2>1 DEF FeedIInv, InSeries, InFrame
  <2>. QED BY <1>1, <2>1, SameSeries DEF FeedIInv
<1>20. Stages'
  BY <1>1 DEF FeedIInv, Stages
<1>. QED BY <1>2, <1>15, <1>16, <1>17, <1>18, <1>19, <1>20 DEF FeedIInv
\* A bar of the series is of rows that were read.
LEMMA SeriesIsRead ==
  ASSUME FeedIInv, NEW s \in Wanted, NEW k \in DOMAIN series[s]
  PROVE  /\ series[s][k].time \in Dates
         /\ \E i \in Passed : history[i].symbol = s /\ PeriodAt(i) = PeriodOf(series[s][k].time)
<1>. DEFINE days == DaysOf(s, PeriodOf(series[s][k].time))
<1>1. IsBarOf(series[s][k], days)
  BY DEF FeedIInv, InSeries, WholeBars
<1>2. PICK i \in days : series[s][k].time = history[i].date
  BY <1>1 DEF IsBarOf
<1>3. i \in DOMAIN history /\ history[i].symbol = s /\ PeriodAt(i) = PeriodOf(series[s][k].time)
  BY <1>2 DEF DaysOf, PeriodAt
<1>4. history[i].date \in Dates
  BY <1>3, HistoryIs DEF FeedIInv
<1>5. Handed(i)
  BY <1>3 DEF Handed, PeriodsOf
<1>6. i \in Passed
  BY <1>3, <1>5 DEF FeedIInv, InSeries
<1>. QED BY <1>2, <1>3, <1>4, <1>6

\* A closed frame is no earlier than what was read, and later than what was handed out.
LEMMA FrameIsNext ==
  ASSUME FeedIInv, stage = "read", FrameClosed
  PROVE  /\ PeriodOf(FrameTime) \in Nat
         /\ \A i \in Taken : PeriodAt(i) <= PeriodOf(FrameTime)
         /\ \A i \in Taken : i \notin Passed =>
              PeriodAt(i) = PeriodOf(FrameTime) /\ history[i].symbol \in DOMAIN cursor
         /\ \A s \in Wanted : \A p \in PeriodsOf(s) : p < PeriodOf(FrameTime)
         /\ \A i \in Passed : Handed(i) => PeriodAt(i) < PeriodOf(FrameTime)
         /\ \A i \in Passed : ~Handed(i) => key # 0 /\ PeriodAt(i) = key
<1>1. cursor # None
  BY DEF FrameClosed
<1>2. /\ DOMAIN cursor # {} /\ FrameTime \in Dates
      /\ \A i \in Taken : i \in Passed => history[i].date < FrameTime
      /\ \A i \in Taken : i \notin Passed => history[i].date = FrameTime /\ history[i].symbol \in DOMAIN cursor
      /\ \A s \in DOMAIN cursor : \E i \in Taken : i \notin Passed
  BY <1>1, FrameIs DEF FeedIInv
<1>3. \A i \in Taken : i \in DOMAIN history /\ history[i].symbol \in Wanted /\ history[i].date \in Dates
  BY TakenAre, HistoryIs DEF FeedIInv
<1>4. PeriodOf(FrameTime) \in Nat /\ FrameTime \in Nat
  BY <1>2, PeriodIs
<1>5. ASSUME NEW i \in Taken PROVE PeriodAt(i) <= PeriodOf(FrameTime)
  <2>1. history[i].date \in Nat /\ history[i].date <= FrameTime
    <3>1. history[i].date \in Nat
      BY <1>3, PeriodIs
    <3>2. history[i].date = FrameTime \/ history[i].date < FrameTime
      BY <1>2
    <3>. QED BY <1>4, <3>1, <3>2
  <2>. QED BY <1>2, <1>3, <2>1, PeriodIs DEF PeriodAt
<1>6. \A i \in Taken : i \notin Passed => PeriodAt(i) = PeriodOf(FrameTime)
  BY <1>2 DEF PeriodAt
<1>7. PICK m \in Taken : m \notin Passed
  BY <1>2
<1>8. \A s \in Wanted : \A p \in PeriodsOf(s) : p < PeriodAt(m)
  BY <1>3, <1>7 DEF FeedIInv, InSeries
<1>9. \A s \in Wanted : \A p \in PeriodsOf(s) : p < PeriodOf(FrameTime)
  BY <1>6, <1>7, <1>8
<1>10. Passed \subseteq Taken
  BY DEF Passed
<1>11. \A i \in Passed : Handed(i) => PeriodAt(i) < PeriodOf(FrameTime)
  BY <1>3, <1>9, <1>10 DEF Handed
<1>12. \A i \in Passed : ~Handed(i) => key # 0 /\ PeriodAt(i) = key
  BY <1>3, <1>10 DEF FeedIInv, InSeries, InFrame
<1>. QED BY <1>2, <1>4, <1>5, <1>6, <1>9, <1>11, <1>12

\* The cursor gives a closed frame away.
LEMMA FrameTaken ==
  ASSUME FeedIInv, FrameClosed, UNCHANGED <<run, history, rows>>, cursor' = None
  PROVE  Asked' /\ Taken' = Taken /\ Passed' = Taken /\ Reading' /\ Framing'
<1>1. Asked' /\ Wanted' = Wanted
  BY SameHistory DEF FeedIInv
<1>2. Met' = Met
  BY DEF Met
<1>3. Taken' = Taken
  BY <1>1, <1>2 DEF Taken
<1>4. DOMAIN None = {} /\ None = [s \in DOMAIN None |-> None[s]]
  BY DEF None
<1>5. Passed' = Taken
  BY <1>3, <1>4 DEF Passed
<1>6. Framing'
  BY <1>4 DEF Framing
<1>7. Reading'
  <2>1. cursor # None
    BY DEF FrameClosed
  <2>2. /\ \A i \in Taken : history[i].date = FrameTime \/ history[i].date < FrameTime
        /\ FrameTime \in Dates
    BY <2>1, FrameIs DEF FeedIInv
  <2>3. FrameTime \in Nat
    BY <2>2, PeriodIs
  <2>4. \A i \in Taken : i \in DOMAIN history /\ history[i].date \in Nat
    BY TakenAre, HistoryIs DEF FeedIInv
  <2>5. \A j \in (Met + 1)..Len(history) : FrameTime < history[j].date /\ j \in DOMAIN history
    BY ClosedFrame, TakenAre DEF FeedIInv
  <2>6. \A j \in (Met + 1)..Len(history) : history[j].date \in Nat
    BY <2>5, HistoryIs DEF FeedIInv
  <2>7. \A i \in Taken : \A j \in (Met + 1)..Len(history) : history[i].date < history[j].date
    BY <2>2, <2>3, <2>4, <2>5, <2>6
  <2>. QED BY <1>2, <1>5, <2>7 DEF FeedIInv, Reading
<1>. QED BY <1>1, <1>3, <1>5, <1>6, <1>7
\* A frame of one day is offered.
LEMMA DailyHolds ==
  ASSUME FeedIInv, DeliverDaily
  PROVE  FeedIInv'
<1>1. /\ stage = "read" /\ ~Resampled /\ FrameClosed /\ stage' = "append"
      /\ currentBars' = cursor /\ cursor' = None
      /\ UNCHANGED <<run, history, rows, key, builders, series>>
  BY DEF DeliverDaily
<1>2. Asked' /\ Taken' = Taken /\ Passed' = Taken /\ Reading' /\ Framing'
  BY <1>1, FrameTaken
<1>3. /\ Wanted' = Wanted /\ Resampled' = Resampled /\ \A t : PeriodOf(t)' = PeriodOf(t)
      /\ \A i : PeriodAt(i)' = PeriodAt(i)
      /\ \A s, p : DaysOf(s, p)' = DaysOf(s, p)
      /\ \A bar, days : IsBarOf(bar, days)' = IsBarOf(bar, days)
  BY <1>1, SameHistory
<1>4. \A s : PeriodsOf(s)' = PeriodsOf(s)
  BY <1>1, <1>3 DEF PeriodsOf
<1>5. cursor # None /\ DOMAIN cursor # {} /\ DOMAIN cursor \subseteq Wanted /\ cursor = [s \in DOMAIN cursor |-> cursor[s]]
  <2>1. cursor # None
    BY <1>1 DEF FrameClosed
  <2>2. DOMAIN cursor # {}
    BY <2>1, FrameIs DEF FeedIInv
  <2>. QED BY <2>1, <2>2 DEF FeedIInv, Framing
<1>6. /\ \A s \in DOMAIN cursor : cursor[s].time = FrameTime
      /\ FrameTime \in Dates /\ FrameTime \in Nat
  BY <1>5, FrameIs, PeriodIs DEF FeedIInv
<1>7. PeriodOf(FrameTime) = FrameTime /\ \A i \in DOMAIN history : PeriodAt(i) = history[i].date
  BY <1>1 DEF PeriodOf, PeriodAt
<1>8. /\ \A i \in Taken : i \notin Passed => PeriodAt(i) = FrameTime /\ history[i].symbol \in DOMAIN cursor
      /\ \A s \in Wanted : \A p \in PeriodsOf(s) : p < FrameTime
      /\ \A i \in Passed : ~Handed(i) => key # 0
      /\ \A i \in Taken : i \in Passed => history[i].date < FrameTime
  BY <1>1, <1>5, <1>7, FrameIsNext, FrameIs DEF FeedIInv
<1>9. key = 0 /\ builders = None
  BY <1>1 DEF FeedIInv, Building
<1>10. /\ \A i \in DOMAIN history : history[i].symbol \in Wanted => i \in Taken \/ FrameTime < history[i].date
       /\ \A i \in Taken : i \in DOMAIN history /\ history[i].symbol \in Wanted
       /\ \A i \in DOMAIN history : history[i].date \in Nat
  <2>1. /\ Met \in Nat /\ Len(history) \in Nat /\ DOMAIN history = 1..Len(history)
        /\ \A i : i \in Taken <=> i \in DOMAIN history /\ i <= Met /\ history[i].symbol \in Wanted
    BY TakenAre DEF FeedIInv
  <2>2. \A j \in (Met + 1)..Len(history) : FrameTime < history[j].date
    BY <1>1, ClosedFrame DEF FeedIInv
  <2>3. \A i \in DOMAIN history : i <= Met \/ i \in (Met + 1)..Len(history)
    BY <2>1
  <2>4. \A i \in DOMAIN history : history[i].date \in Nat
    BY HistoryIs DEF FeedIInv
  <2>. QED BY <2>1, <2>2, <2>3, <2>4
<1>11. Building'
  <2>1. DOMAIN None = {} /\ None = [s \in DOMAIN None |-> None[s]]
    BY DEF None
  <2>. QED BY <1>1, <1>3, <1>9, <2>1 DEF Building
<1>12. ASSUME NEW s \in DOMAIN cursor
       PROVE  /\ cursor[s] \in BarSet /\ cursor[s].timeframe = run.timeframe
              /\ IsBarOf(cursor[s], DaysOf(s, FrameTime))
  <2>1. PICK i \in Taken : /\ i \notin Passed /\ history[i].symbol = s /\ history[i].date = FrameTime
                           /\ cursor[s] = Daily(history[i]) /\ LastOfDay(i)
    BY <1>1, ClosedFrame DEF FeedIInv
  <2>2. i \in DOMAIN history
    BY <1>10
  <2>3. DaysOf(s, FrameTime) = {i}
    <3>1. i \in DaysOf(s, FrameTime)
      BY <1>7, <2>1, <2>2 DEF DaysOf, PeriodAt
    <3>2. ASSUME NEW j \in DaysOf(s, FrameTime) PROVE j = i
      <4>1. /\ j \in DOMAIN history /\ history[j].symbol = s /\ history[j].date = FrameTime /\ LastOfDay(j)
        BY <1>7 DEF DaysOf, PeriodAt
      <4>2. j <= i /\ i <= j
        BY <2>1, <2>2, <4>1 DEF LastOfDay
      <4>3. i \in Nat /\ j \in Nat
        BY <2>2, <4>1, HistoryIs DEF FeedIInv
      <4>. QED BY <4>2, <4>3
    <3>. QED BY <3>1, <3>2
  <2>4. Daily(history[i]) \in BarSet /\ IsBarOf(Daily(history[i]), {i})
    BY <2>2, OneDay DEF FeedIInv
  <2>5. run.timeframe = "1d"
    BY <1>1 DEF FeedIInv, Stages, Resampled
  <2>6. Daily(history[i]).timeframe = "1d"
    BY DEF Daily
  <2>. QED BY <2>1, <2>3, <2>4, <2>5, <2>6
<1>13. Offered'
  <2>1. OnePeriod'
    BY <1>1, <1>3, <1>6 DEF OnePeriod
  <2>2. ASSUME NEW s \in DOMAIN cursor, NEW i \in DOMAIN history, history[i].symbol \in Wanted
        PROVE  /\ i \in Taken \/ FrameTime < PeriodAt(i)
               /\ PeriodAt(i) = FrameTime => history[i].symbol \in DOMAIN cursor
    <3>1. i \in Taken \/ FrameTime < PeriodAt(i)
      BY <1>7, <1>10, <2>2
    <3>2. ASSUME PeriodAt(i) = FrameTime PROVE history[i].symbol \in DOMAIN cursor
      <4>1. i \in Taken
        BY <1>6, <3>1, <3>2
      <4>2. i \notin Passed
        BY <1>6, <1>7, <1>8, <3>2, <4>1
      <4>. QED BY <1>8, <4>1, <4>2
    <3>. QED BY <3>1, <3>2
  <2>3. \A s \in DOMAIN cursor : PeriodOf(cursor[s].time) = FrameTime
    BY <1>6, <1>7
  <2>. QED BY <1>1, <1>2, <1>3, <1>4, <1>5, <1>8, <1>9, <1>12, <2>1, <2>2, <2>3 DEF Offered
<1>14. InSeries'
  <2>1. ASSUME NEW i \in DOMAIN history, history[i].symbol \in Wanted
        PROVE  /\ Handed(i) => i \in Passed'
               /\ ~Handed(i) /\ i \in Passed' => InFrame(i)'
    <3>1. Handed(i) => i \in Passed'
      BY <1>2, <2>1 DEF FeedIInv, InSeries, Passed
    <3>2. ASSUME ~Handed(i), i \in Taken PROVE InFrame(i)'
      <4>1. i \notin Passed
        BY <1>8, <1>9, <3>2
      <4>2. PeriodAt(i) = FrameTime /\ history[i].symbol \in DOMAIN cursor
        BY <1>8, <3>2, <4>1
      <4>3. PeriodOf(cursor[history[i].symbol].time) = PeriodAt(i)
        BY <1>6, <1>7, <4>2
      <4>. QED BY <1>1, <1>3, <4>2, <4>3 DEF InFrame
    <3>. QED BY <1>2, <3>1, <3>2
  <2>. QED BY <1>1, <2>1, SameSeries DEF FeedIInv
<1>15. Stages'
  BY <1>1 DEF FeedIInv, Stages
<1>. QED BY <1>2, <1>11, <1>13, <1>14, <1>15 DEF FeedIInv
\* A frame joins the week or month that is being built, or begins it.
LEMMA AbsorbHolds ==
  ASSUME FeedIInv, Absorb
  PROVE  FeedIInv'
<1>. DEFINE now == PeriodOf(FrameTime)
            sums == [s \in DOMAIN cursor \union DOMAIN builders |->
                       IF s \notin DOMAIN cursor THEN builders[s]
                       ELSE IF s \notin DOMAIN builders THEN cursor[s]
                       ELSE Merged(builders[s], cursor[s])]
<1>1. /\ stage = "read" /\ Resampled /\ FrameClosed /\ cursor' = None
      /\ UNCHANGED <<run, history, stage, rows, currentBars, series>>
      /\ key \in {0, now} /\ key' = now /\ builders' = sums
  BY DEF Absorb, PeriodOf
<1>2. /\ DOMAIN sums = DOMAIN cursor \union DOMAIN builders
      /\ sums = [s \in DOMAIN sums |-> sums[s]]
      /\ \A s \in DOMAIN builders : s \notin DOMAIN cursor => sums[s] = builders[s]
      /\ \A s \in DOMAIN cursor : s \notin DOMAIN builders => sums[s] = cursor[s]
      /\ \A s \in DOMAIN cursor : s \in DOMAIN builders => sums[s] = Merged(builders[s], cursor[s])
  OBVIOUS
<1>. HIDE DEF sums
<1>3. Asked' /\ Taken' = Taken /\ Passed' = Taken /\ Reading' /\ Framing'
  BY <1>1, FrameTaken
<1>4. /\ Wanted' = Wanted /\ Resampled' = Resampled
      /\ \A i : PeriodAt(i)' = PeriodAt(i) /\ LastOfDay(i)' = LastOfDay(i)
      /\ \A bar, days : IsBarOf(bar, days)' = IsBarOf(bar, days)
  BY <1>1, SameHistory
<1>5. \A s : PeriodsOf(s)' = PeriodsOf(s)
  BY <1>1, SameHistory DEF PeriodsOf
<1>6. DOMAIN cursor # {} /\ DOMAIN cursor \subseteq Wanted /\ FrameTime \in Dates
  <2>1. cursor # None
    BY <1>1 DEF FrameClosed
  <2>. QED BY <2>1, FrameIs DEF FeedIInv, Framing
<1>7. now \in Nat /\ now # 0
  BY <1>1, <1>6, PeriodIs
<1>8. /\ \A i \in Taken : PeriodAt(i) <= now
      /\ \A i \in Taken : i \notin Passed => PeriodAt(i) = now /\ history[i].symbol \in DOMAIN cursor
      /\ \A s \in Wanted : \A p \in PeriodsOf(s) : p < now
      /\ \A i \in Passed : Handed(i) => PeriodAt(i) < now
      /\ \A i \in Passed : ~Handed(i) => key # 0 /\ PeriodAt(i) = key
  BY <1>1, FrameIsNext
<1>9. /\ Passed \subseteq Taken
      /\ \A i \in Taken : i \in DOMAIN history /\ history[i].symbol \in Wanted
  BY TakenAre DEF FeedIInv
<1>10. \A i \in Passed : PeriodAt(i) = now => key = now /\ history[i].symbol \in DOMAIN builders
  <2>1. ASSUME NEW i \in Passed, PeriodAt(i) = now PROVE key = now /\ history[i].symbol \in DOMAIN builders
    <3>1. ~Handed(i)
      BY <1>7, <1>8, <2>1
    <3>2. key # 0 /\ key = now
      BY <1>8, <2>1, <3>1
    <3>. QED BY <2>1, <3>2 DEF FeedIInv, Building
  <2>. QED BY <2>1
<1>11. DOMAIN builders # {} => key = now
  <2>1. builders = None => DOMAIN builders = {}
    BY DEF None
  <2>. QED BY <1>1, <2>1 DEF FeedIInv, Building
<1>12. DOMAIN builders \subseteq Wanted
  BY DEF FeedIInv, Building
<1>13. \A s : Built(s)' = {i \in Taken : history[i].symbol = s /\ PeriodAt(i) = now /\ LastOfDay(i)}
  BY <1>1, <1>3, <1>4 DEF Built
<1>14. ASSUME NEW s \in DOMAIN cursor
       PROVE  \E i \in DOMAIN history :
                /\ cursor[s] = Daily(history[i])
                /\ \A j \in Built(s) : j < i
                /\ Built(s)' = {i} \union {j \in Passed : history[j].symbol = s /\ PeriodAt(j) = now /\ LastOfDay(j)}
  <2>1. PICK i \in Taken : /\ i \notin Passed /\ history[i].symbol = s /\ history[i].date = FrameTime
                           /\ cursor[s] = Daily(history[i]) /\ LastOfDay(i)
    BY <1>1, ClosedFrame DEF FeedIInv
  <2>2. i \in DOMAIN history /\ PeriodAt(i) = now
    BY <1>8, <1>9, <2>1
  <2>3. /\ \A j \in DOMAIN history : j \in Nat /\ history[j].date \in Nat
        /\ \A j, k \in DOMAIN history : j <= k => history[j].date <= history[k].date
    BY HistoryIs DEF FeedIInv
  <2>4. /\ \A j \in Taken : j \in Passed => history[j].date < FrameTime
        /\ \A j \in Taken : j \notin Passed => history[j].date = FrameTime
    <3>1. cursor # None
      BY <1>1 DEF FrameClosed
    <3>. QED BY <3>1, FrameIs DEF FeedIInv
  <2>5. ASSUME NEW j \in Built(s) PROVE j < i
    <3>1. j \in DOMAIN history /\ history[j].date < history[i].date
      BY <1>9, <2>1, <2>4 DEF Built
    <3>. QED BY <2>2, <2>3, <3>1
  <2>6. ASSUME NEW j \in Taken, history[j].symbol = s, LastOfDay(j), j \notin Passed PROVE j = i
    <3>1. j \in DOMAIN history /\ history[j].date = history[i].date
      BY <1>9, <2>1, <2>4, <2>6
    <3>2. i <= j /\ j <= i
      BY <2>1, <2>2, <2>6, <3>1 DEF LastOfDay
    <3>. QED BY <2>2, <2>3, <3>1, <3>2
  <2>7. Built(s)' = {i} \union {j \in Passed : history[j].symbol = s /\ PeriodAt(j) = now /\ LastOfDay(j)}
    <3>. DEFINE early == {j \in Passed : history[j].symbol = s /\ PeriodAt(j) = now /\ LastOfDay(j)}
                all == {j \in Taken : history[j].symbol = s /\ PeriodAt(j) = now /\ LastOfDay(j)}
    <3>1. i \in all
      BY <2>1, <2>2
    <3>2. early \subseteq all
      BY <1>9
    <3>3. ASSUME NEW j \in all PROVE j \in {i} \union early
      BY <2>6
    <3>. QED BY <1>13, <3>1, <3>2, <3>3
  <2>. QED BY <2>1, <2>2, <2>5, <2>7
<1>15. ASSUME NEW s \in DOMAIN sums
       PROVE  sums[s] \in BarSet /\ IsBarOf(sums[s], Built(s)')
  <2>1. CASE s \notin DOMAIN cursor
    <3>1. s \in DOMAIN builders /\ sums[s] = builders[s] /\ key = now
      BY <1>2, <1>11, <2>1
    <3>2. Built(s)' = Built(s)
      <4>1. \A i \in Taken : history[i].symbol = s => i \in Passed
        BY <1>8, <2>1
      <4>. QED BY <1>9, <1>13, <3>1, <4>1 DEF Built
    <3>. QED BY <3>1, <3>2 DEF FeedIInv, Building
  <2>2. CASE s \in DOMAIN cursor
    <3>1. PICK i \in DOMAIN history :
            /\ cursor[s] = Daily(history[i])
            /\ \A j \in Built(s) : j < i
            /\ Built(s)' = {i} \union {j \in Passed : history[j].symbol = s /\ PeriodAt(j) = now /\ LastOfDay(j)}
      BY <1>14, <2>2
    <3>2. CASE s \notin DOMAIN builders
      <4>1. {j \in Passed : history[j].symbol = s /\ PeriodAt(j) = now /\ LastOfDay(j)} = {}
        BY <1>10, <3>2
      <4>2. Built(s)' = {i}
        BY <3>1, <4>1
      <4>3. sums[s] = Daily(history[i])
        BY <1>2, <2>2, <3>1, <3>2
      <4>4. Daily(history[i]) \in BarSet /\ IsBarOf(Daily(history[i]), {i})
        BY OneDay DEF FeedIInv
      <4>. QED BY <4>2, <4>3, <4>4
    <3>3. CASE s \in DOMAIN builders
      <4>1. key = now
        BY <1>11, <3>3
      <4>2. Built(s)' = Built(s) \union {i}
        BY <3>1, <4>1 DEF Built
      <4>3. sums[s] = Merged(builders[s], Daily(history[i]))
        BY <1>2, <2>2, <3>1, <3>3
      <4>4. builders[s] \in BarSet /\ IsBarOf(builders[s], Built(s))
        BY <3>3 DEF FeedIInv, Building
      <4>5. Built(s) \in SUBSET DOMAIN history
        BY <1>9 DEF Built
      <4>6. /\ Merged(builders[s], Daily(history[i])) \in BarSet
            /\ IsBarOf(Merged(builders[s], Daily(history[i])), Built(s) \union {i})
        BY <3>1, <4>4, <4>5, OneMoreDay DEF FeedIInv
      <4>. QED BY <4>2, <4>3, <4>6
    <3>. QED BY <3>2, <3>3
  <2>. QED BY <2>1, <2>2
<1>16. \A i \in Taken : PeriodAt(i) = now => history[i].symbol \in DOMAIN sums
  BY <1>2, <1>8, <1>10
<1>17. Building'
  <2>1. sums # None
    <3>1. DOMAIN sums # {}
      BY <1>2, <1>6
    <3>. QED BY <3>1 DEF None
  <2>2. DOMAIN sums \subseteq Wanted
    BY <1>2, <1>6, <1>12
  <2>3. key' \in Nat /\ key' # 0 /\ builders' # None /\ Resampled'
    BY <1>1, <1>4, <1>7, <2>1
  <2>4. builders' = [s \in DOMAIN builders' |-> builders'[s]] /\ DOMAIN builders' \subseteq Wanted'
    BY <1>1, <1>2, <1>4, <2>2
  <2>5. \A s \in DOMAIN builders' : builders'[s] \in BarSet /\ IsBarOf(builders[s], Built(s))'
    BY <1>1, <1>4, <1>15
  <2>6. \A i \in Passed' : PeriodAt(i)' <= key' /\ (PeriodAt(i)' = key' => history'[i].symbol \in DOMAIN builders')
    BY <1>1, <1>3, <1>4, <1>8, <1>16
  <2>7. \A s \in Wanted' : \A p \in PeriodsOf(s)' : p < key'
    BY <1>1, <1>4, <1>5, <1>8
  <2>. QED BY <2>3, <2>4, <2>5, <2>6, <2>7 DEF Building
<1>18. Offered'
  BY <1>1, SameOffered DEF FeedIInv
<1>19. InSeries'
  <2>1. ASSUME NEW i \in DOMAIN history, history[i].symbol \in Wanted
        PROVE  /\ Handed(i) => i \in Passed'
               /\ ~Handed(i) /\ i \in Passed' => key' # 0 /\ PeriodAt(i) = key'
    <3>1. Handed(i) => i \in Passed'
      BY <1>3, <1>9, <2>1 DEF FeedIInv, InSeries
    <3>2. ASSUME ~Handed(i), i \in Taken PROVE PeriodAt(i) = now
      BY <1>1, <1>8, <3>2
    <3>. QED BY <1>1, <1>3, <1>7, <3>1, <3>2
  <2>. QED BY <1>1, <2>1, SameSeries DEF FeedIInv
<1>20. Stages'
  BY <1>1 DEF FeedIInv, Stages
<1>. QED BY <1>3, <1>17, <1>18, <1>19, <1>20 DEF FeedIInv
\* The bars of a whole week or month are offered.
LEMMA FlushHolds ==
  ASSUME FeedIInv, Flush
  PROVE  FeedIInv'
<1>. DEFINE offer == [s \in DOMAIN builders |-> [builders[s] EXCEPT !.timeframe = run.timeframe]]
<1>1. /\ stage = "read" /\ Resampled /\ builders # None
      /\ \/ FrameClosed /\ key # PeriodOf(FrameTime)
         \/ AtEnd /\ cursor = None
      /\ stage' = "append" /\ currentBars' = offer /\ builders' = None /\ key' = 0
      /\ UNCHANGED <<run, history, rows, cursor, series>>
  BY DEF Flush, PeriodOf
<1>2. DOMAIN offer = DOMAIN builders /\ \A s \in DOMAIN offer : offer[s] = [builders[s] EXCEPT !.timeframe = run.timeframe]
  OBVIOUS
<1>3. offer = [s \in DOMAIN offer |-> offer[s]]
  OBVIOUS
<1>. HIDE DEF offer
<1>4. /\ Wanted' = Wanted /\ Resampled' = Resampled /\ \A t : PeriodOf(t)' = PeriodOf(t)
      /\ \A i : PeriodAt(i)' = PeriodAt(i)
      /\ \A s, p : DaysOf(s, p)' = DaysOf(s, p)
      /\ \A bar, days : IsBarOf(bar, days)' = IsBarOf(bar, days)
      /\ Asked'
  BY <1>1, SameHistory DEF FeedIInv
<1>5. \A s : PeriodsOf(s)' = PeriodsOf(s)
  BY <1>1, <1>4 DEF PeriodsOf
<1>6. Taken' = Taken /\ Passed' = Passed /\ Reading' /\ Framing'
  <2>1. Taken' = Taken /\ Passed' = Passed /\ (Reading => Reading') /\ (Framing => Framing')
    BY <1>1, SameReading
  <2>. QED BY <2>1 DEF FeedIInv
<1>7. /\ key \in Nat /\ key # 0
      /\ builders = [s \in DOMAIN builders |-> builders[s]] /\ DOMAIN builders \subseteq Wanted
      /\ \A i \in Passed : PeriodAt(i) <= key /\ (PeriodAt(i) = key => history[i].symbol \in DOMAIN builders)
      /\ \A s \in Wanted : \A p \in PeriodsOf(s) : p < key
  BY <1>1 DEF FeedIInv, Building
<1>8. \A s \in DOMAIN builders : builders[s] \in BarSet /\ IsBarOf(builders[s], Built(s))
  BY DEF FeedIInv, Building
<1>9. DOMAIN builders # {}
  BY <1>1, <1>7 DEF None
<1>10. /\ Passed \subseteq Taken
       /\ Met \in Nat /\ Len(history) \in Nat /\ DOMAIN history = 1..Len(history)
       /\ \A i : i \in Taken <=> i \in DOMAIN history /\ i <= Met /\ history[i].symbol \in Wanted
  BY TakenAre DEF FeedIInv
<1>11. \A s \in DOMAIN builders : PeriodOf(builders[s].time) = key /\ \E i \in Passed : PeriodAt(i) = key
  <2>1. ASSUME NEW s \in DOMAIN builders
        PROVE  PeriodOf(builders[s].time) = key /\ \E i \in Passed : PeriodAt(i) = key
    <3>1. PICK i \in Built(s) : builders[s].time = history[i].date
      BY <1>8 DEF IsBarOf
    <3>2. i \in Passed /\ PeriodAt(i) = key
      BY DEF Built
    <3>. QED BY <3>1, <3>2 DEF PeriodAt
  <2>. QED BY <2>1
<1>12. ASSUME NEW i \in DOMAIN history, history[i].symbol \in Wanted
       PROVE  i \in Passed \/ key < PeriodAt(i)
  <2>1. CASE AtEnd /\ cursor = None
    <3>1. Passed = Taken
      BY <2>1 DEF Passed, None
    <3>2. Len(rows) = 0
      BY <2>1 DEF AtEnd
    <3>3. Met = Len(history)
      BY <1>10, <3>2 DEF Met
    <3>. QED BY <1>10, <1>12, <3>1, <3>3
  <2>2. CASE FrameClosed /\ key # PeriodOf(FrameTime)
    <3>1. PICK m \in Passed : PeriodAt(m) = key
      BY <1>9, <1>11
    <3>2. /\ PeriodOf(FrameTime) \in Nat
          /\ \A j \in Taken : PeriodAt(j) <= PeriodOf(FrameTime)
          /\ \A j \in Taken : j \notin Passed => PeriodAt(j) = PeriodOf(FrameTime)
      BY <1>1, <2>2, FrameIsNext
    <3>3. key < PeriodOf(FrameTime)
      <4>1. key <= PeriodOf(FrameTime)
        BY <1>10, <3>1, <3>2
      <4>. QED BY <1>7, <2>2, <3>2, <4>1
    <3>4. CASE i \in Taken
      BY <3>2, <3>3, <3>4
    <3>5. CASE i \notin Taken
      <4>1. i \in (Met + 1)..Len(history)
        BY <1>10, <1>12, <3>5
      <4>2. FrameTime < history[i].date
        BY <2>2, <4>1, ClosedFrame DEF FeedIInv
      <4>3. FrameTime \in Dates /\ FrameTime \in Nat
        <5>1. FrameTime \in Dates
          BY <2>2, FrameIs DEF FeedIInv, FrameClosed
        <5>. QED BY <5>1, PeriodIs
      <4>4. history[i].date \in Dates
        BY HistoryIs DEF FeedIInv
      <4>5. history[i].date \in Nat /\ PeriodAt(i) \in Nat
        BY <4>4, PeriodIs DEF PeriodAt
      <4>6. FrameTime <= history[i].date
        BY <4>2, <4>3, <4>5
      <4>7. PeriodOf(FrameTime) <= PeriodAt(i)
        BY <4>3, <4>4, <4>6, PeriodIs DEF PeriodAt
      <4>. QED BY <1>7, <3>2, <3>3, <4>5, <4>7
    <3>. QED BY <3>4, <3>5
  <2>. QED BY <1>1, <2>1, <2>2
<1>13. ASSUME NEW s \in DOMAIN builders
       PROVE  /\ offer[s] \in BarSet /\ offer[s].timeframe = run.timeframe
              /\ PeriodOf(offer[s].time) = key
              /\ IsBarOf(offer[s], DaysOf(s, key))
  <2>1. builders[s] \in BarSet /\ offer[s] = [builders[s] EXCEPT !.timeframe = run.timeframe]
    BY <1>2, <1>8
  <2>2. run.timeframe \in {"1d", "1w", "1mo"}
    BY <1>1 DEF FeedIInv, Stages
  <2>3. offer[s] \in BarSet
    BY <2>1, <2>2 DEF BarSet
  <2>4. /\ offer[s].timeframe = run.timeframe
        /\ offer[s].time = builders[s].time /\ offer[s].status = builders[s].status
        /\ offer[s].open = builders[s].open /\ offer[s].close = builders[s].close
        /\ offer[s].high = builders[s].high /\ offer[s].low = builders[s].low
        /\ offer[s].volume = builders[s].volume
    BY <2>1 DEF BarSet
  <2>5. DaysOf(s, key) = Built(s)
    <3>1. \A i \in DOMAIN history : history[i].symbol = s /\ PeriodAt(i) = key => i \in Passed
      BY <1>7, <1>12
    <3>2. \A i \in Passed : i \in DOMAIN history
      BY <1>10
    <3>3. DaysOf(s, key) = {i \in DOMAIN history : history[i].symbol = s /\ PeriodAt(i) = key /\ LastOfDay(i)}
      BY DEF DaysOf, PeriodAt
    <3>. QED BY <3>1, <3>2, <3>3 DEF Built
  <2>6. IsBarOf(builders[s], DaysOf(s, key))
    BY <1>8, <2>5
  <2>7. IsBarOf(offer[s], DaysOf(s, key))
    BY <2>4, <2>6 DEF IsBarOf
  <2>8. PeriodOf(offer[s].time) = key
    BY <1>11, <2>4
  <2>. QED BY <2>3, <2>4, <2>7, <2>8
<1>14. Building'
  <2>1. DOMAIN None = {} /\ None = [s \in DOMAIN None |-> None[s]]
    BY DEF None
  <2>. QED BY <1>1, <1>4, <2>1 DEF Building
<1>15. Offered'
  <2>1. OnePeriod'
    BY <1>1, <1>2, <1>4, <1>13 DEF OnePeriod
  <2>2. offer # None
    <3>1. DOMAIN offer # {}
      BY <1>2, <1>9
    <3>. QED BY <3>1 DEF None
  <2>3. DOMAIN offer \subseteq Wanted
    BY <1>2, <1>7
  <2>4. ASSUME NEW i \in DOMAIN history, history[i].symbol \in Wanted
        PROVE  /\ i \in Passed \/ key < PeriodAt(i)
               /\ PeriodAt(i) = key => history[i].symbol \in DOMAIN offer
    BY <1>2, <1>7, <1>12, <2>4
  <2>. QED BY <1>1, <1>2, <1>3, <1>4, <1>5, <1>6, <1>7, <1>13, <2>1, <2>2, <2>3, <2>4 DEF Offered
<1>16. InSeries'
  <2>1. ASSUME NEW i \in DOMAIN history, history[i].symbol \in Wanted
        PROVE  /\ Handed(i) => i \in Passed'
               /\ ~Handed(i) /\ i \in Passed' => InFrame(i)'
    <3>1. Handed(i) => i \in Passed'
      BY <1>6, <2>1 DEF FeedIInv, InSeries
    <3>2. ASSUME ~Handed(i), i \in Passed PROVE InFrame(i)'
      <4>1. PeriodAt(i) = key
        BY <1>1, <2>1, <3>2 DEF FeedIInv, InSeries, InFrame
      <4>2. history[i].symbol \in DOMAIN builders
        BY <1>7, <3>2, <4>1
      <4>3. PeriodOf(offer[history[i].symbol].time) = PeriodAt(i)
        BY <1>13, <4>1, <4>2
      <4>. QED BY <1>1, <1>2, <1>4, <4>2, <4>3 DEF InFrame
    <3>. QED BY <1>6, <3>1, <3>2
  <2>. QED BY <1>1, <2>1, SameSeries DEF FeedIInv
<1>17. Stages'
  BY <1>1 DEF FeedIInv, Stages
<1>. QED BY <1>4, <1>6, <1>14, <1>15, <1>16, <1>17 DEF FeedIInv
\* The engine ends the run at an invalid bar, and takes no bar of the frame then.
LEMMA RefusedHolds ==
  ASSUME FeedIInv, stage = "append", stage' = "failed",
         UNCHANGED <<run, history, rows, cursor, key, builders, currentBars, series>>
  PROVE  FeedIInv'
<1>1. Asked'
  BY SameHistory DEF FeedIInv
<1>2. Passed' = Passed /\ Reading' /\ Framing'
  <2>1. Passed' = Passed /\ (Reading => Reading') /\ (Framing => Framing')
    BY SameReading
  <2>. QED BY <2>1 DEF FeedIInv
<1>3. Building'
  BY <1>2, SameBuilding DEF FeedIInv
<1>4. Offered'
  BY SameOffered DEF FeedIInv
<1>5. InSeries'
  <2>1. \A i \in DOMAIN history : history[i].symbol \in Wanted => (Handed(i) => i \in Passed')
    BY <1>2 DEF FeedIInv, InSeries
  <2>. QED BY <2>1, SameSeries DEF FeedIInv
<1>6. Stages'
  BY DEF Stages
<1>. QED BY <1>1, <1>2, <1>3, <1>4, <1>5, <1>6 DEF FeedIInv

\* The bars of the frame become the last ones of their series.
LEMMA AppendedHolds ==
  ASSUME FeedIInv, stage = "append", stage' = "decide",
         series' = [s \in Wanted |->
           IF s \in DOMAIN currentBars THEN Append(series[s], currentBars[s]) ELSE series[s]],
         UNCHANGED <<run, history, rows, cursor, key, builders, currentBars>>
  PROVE  FeedIInv'
<1>1. /\ Wanted' = Wanted /\ Resampled' = Resampled /\ \A t : PeriodOf(t)' = PeriodOf(t)
      /\ \A i : PeriodAt(i)' = PeriodAt(i)
      /\ \A s, p : DaysOf(s, p)' = DaysOf(s, p)
      /\ \A bar, days : IsBarOf(bar, days)' = IsBarOf(bar, days)
      /\ Asked'
  BY SameHistory DEF FeedIInv
<1>2. Passed' = Passed /\ Reading' /\ Framing'
  <2>1. Passed' = Passed /\ (Reading => Reading') /\ (Framing => Framing')
    BY SameReading
  <2>. QED BY <2>1 DEF FeedIInv
<1>3. key = 0 /\ builders = None /\ currentBars # None /\ DOMAIN currentBars \subseteq Wanted
      /\ currentBars = [s \in DOMAIN currentBars |-> currentBars[s]]
  BY DEF FeedIInv, Offered, Building
<1>4. PICK s0 \in DOMAIN currentBars : TRUE
  BY <1>3 DEF None
<1>. DEFINE period == PeriodOf(currentBars[s0].time)
<1>5. \A s \in DOMAIN currentBars : PeriodOf(currentBars[s].time) = period
  BY <1>4 DEF FeedIInv, Offered, OnePeriod
<1>. HIDE DEF period
<1>6. \A s \in DOMAIN currentBars :
        /\ currentBars[s] \in BarSet /\ currentBars[s].timeframe = run.timeframe
        /\ IsBarOf(currentBars[s], DaysOf(s, period))
  BY <1>5 DEF FeedIInv, Offered
<1>7. /\ \A i \in DOMAIN history :
           history[i].symbol \in Wanted =>
             /\ i \in Passed \/ period < PeriodAt(i)
             /\ PeriodAt(i) = period => history[i].symbol \in DOMAIN currentBars
      /\ \A t \in Wanted : \A p \in PeriodsOf(t) : p < period
  BY <1>4 DEF FeedIInv, Offered, period
<1>8. period \in Nat
  <2>1. PICK i \in DaysOf(s0, period) : TRUE
    BY <1>4, <1>6 DEF IsBarOf
  <2>2. i \in DOMAIN history /\ period = PeriodOf(history[i].date)
    BY <2>1 DEF DaysOf
  <2>3. history[i].date \in Dates
    BY <2>2, HistoryIs DEF FeedIInv
  <2>. QED BY <2>2, <2>3, PeriodIs
<1>9. series \in [Wanted -> Seq(BarSet)]
  BY DEF FeedIInv, InSeries
<1>10. /\ \A s \in DOMAIN currentBars :
            /\ series'[s] = Append(series[s], currentBars[s])
            /\ series'[s] \in Seq(BarSet)
            /\ Len(series[s]) \in Nat
            /\ DOMAIN series[s] = 1..Len(series[s])
            /\ DOMAIN series'[s] = 1..(Len(series[s]) + 1)
            /\ series'[s][Len(series[s]) + 1] = currentBars[s]
            /\ \A k \in DOMAIN series[s] : series'[s][k] = series[s][k]
       /\ \A s \in Wanted : s \notin DOMAIN currentBars => series'[s] = series[s]
  <2>1. ASSUME NEW s \in DOMAIN currentBars
        PROVE  /\ series'[s] = Append(series[s], currentBars[s])
               /\ series'[s] \in Seq(BarSet)
               /\ Len(series[s]) \in Nat
               /\ DOMAIN series[s] = 1..Len(series[s])
               /\ DOMAIN series'[s] = 1..(Len(series[s]) + 1)
               /\ series'[s][Len(series[s]) + 1] = currentBars[s]
               /\ \A k \in DOMAIN series[s] : series'[s][k] = series[s][k]
    <3>1. series[s] \in Seq(BarSet) /\ currentBars[s] \in BarSet
      BY <1>3, <1>6, <1>9
    <3>2. series'[s] = Append(series[s], currentBars[s])
      BY <1>3
    <3>. QED BY <3>1, <3>2
  <2>. QED BY <2>1
<1>11. series' \in [Wanted -> Seq(BarSet)]
  <2>. DEFINE next == [s \in Wanted |->
                IF s \in DOMAIN currentBars THEN Append(series[s], currentBars[s]) ELSE series[s]]
  <2>1. \A s \in Wanted : next[s] \in Seq(BarSet)
    BY <1>9, <1>10
  <2>. QED BY <2>1
<1>12. \A s \in Wanted : WholeBars(s) /\ InOrder(s)
  BY DEF FeedIInv, InSeries
<1>13. ASSUME NEW s \in Wanted PROVE WholeBars(s)' /\ InOrder(s)'
  <2>1. CASE s \notin DOMAIN currentBars
    <3>1. series'[s] = series[s]
      BY <1>10, <2>1
    <3>. QED BY <1>1, <1>12, <3>1 DEF WholeBars, InOrder
  <2>2. CASE s \in DOMAIN currentBars
    <3>. DEFINE n == Len(series[s]) + 1
    <3>1. /\ DOMAIN series'[s] = 1..n /\ series'[s][n] = currentBars[s]
          /\ DOMAIN series[s] = 1..(n - 1) /\ n \in Nat /\ n >= 1
          /\ \A k \in 1..(n - 1) : series'[s][k] = series[s][k]
      BY <1>10, <2>2
    <3>. HIDE DEF n
    <3>2. \A k \in 1..n : k = n \/ k \in 1..(n - 1)
      BY <3>1
    <3>3. WholeBars(s)'
      <4>1. \A k \in 1..(n - 1) : /\ IsBarOf(series'[s][k], DaysOf(s, PeriodOf(series'[s][k].time)))
                                  /\ series'[s][k].timeframe = run.timeframe
        BY <1>12, <3>1 DEF WholeBars
      <4>2. /\ IsBarOf(series'[s][n], DaysOf(s, PeriodOf(series'[s][n].time)))
            /\ series'[s][n].timeframe = run.timeframe
        BY <1>5, <1>6, <2>2, <3>1
      <4>3. \A k \in 1..n : /\ IsBarOf(series'[s][k], DaysOf(s, PeriodOf(series'[s][k].time)))
                            /\ series'[s][k].timeframe = run.timeframe
        BY <3>2, <4>1, <4>2
      <4>. QED BY <1>1, <3>1, <4>3 DEF WholeBars
    <3>4. InOrder(s)'
      <4>1. \A j, k \in 1..(n - 1) : j < k => PeriodOf(series'[s][j].time) < PeriodOf(series'[s][k].time)
        BY <1>12, <3>1 DEF InOrder
      <4>2. \A j \in 1..(n - 1) : PeriodOf(series'[s][j].time) < PeriodOf(series'[s][n].time)
        <5>1. \A j \in 1..(n - 1) : PeriodOf(series[s][j].time) < period
          BY <1>7, <3>1 DEF PeriodsOf
        <5>. QED BY <1>5, <2>2, <3>1, <5>1
      <4>3. \A j, k \in 1..n : j < k => j \in 1..(n - 1)
        BY <3>1
      <4>4. \A j, k \in 1..n : j < k => PeriodOf(series'[s][j].time) < PeriodOf(series'[s][k].time)
        BY <3>2, <4>1, <4>2, <4>3
      <4>. QED BY <1>1, <3>1, <4>4 DEF InOrder
    <3>. QED BY <3>3, <3>4
  <2>. QED BY <2>1, <2>2
<1>14. ASSUME NEW s \in Wanted
       PROVE  PeriodsOf(s)' = PeriodsOf(s) \union (IF s \in DOMAIN currentBars THEN {period} ELSE {})
  <2>1. CASE s \notin DOMAIN currentBars
    <3>1. series'[s] = series[s]
      BY <1>10, <2>1
    <3>. QED BY <1>1, <2>1, <3>1 DEF PeriodsOf
  <2>2. CASE s \in DOMAIN currentBars
    <3>. DEFINE n == Len(series[s]) + 1
    <3>1. /\ DOMAIN series'[s] = 1..n /\ series'[s][n] = currentBars[s]
          /\ DOMAIN series[s] = 1..(n - 1) /\ n \in Nat /\ n >= 1
          /\ \A k \in 1..(n - 1) : series'[s][k] = series[s][k]
      BY <1>10, <2>2
    <3>. HIDE DEF n
    <3>2. \A k : k \in 1..n <=> k = n \/ k \in 1..(n - 1)
      BY <3>1
    <3>3. PeriodsOf(s)' = {PeriodOf(series'[s][k].time) : k \in 1..n}
      BY <1>1, <3>1 DEF PeriodsOf
    <3>4. PeriodsOf(s) = {PeriodOf(series'[s][k].time) : k \in 1..(n - 1)}
      BY <3>1 DEF PeriodsOf
    <3>5. PeriodOf(series'[s][n].time) = period
      BY <1>5, <2>2, <3>1
    <3>6. PeriodsOf(s)' \subseteq PeriodsOf(s) \union {period}
      BY <3>2, <3>3, <3>4, <3>5
    <3>7. PeriodsOf(s) \subseteq PeriodsOf(s)' /\ period \in PeriodsOf(s)'
      BY <3>2, <3>3, <3>4, <3>5
    <3>. QED BY <2>2, <3>6, <3>7
  <2>. QED BY <2>1, <2>2
<1>15. Building'
  <2>1. DOMAIN None = {} /\ None = [s \in DOMAIN None |-> None[s]]
    BY DEF None
  <2>2. ~Resampled => key = 0
    BY <1>3
  <2>. QED BY <1>1, <1>3, <2>1 DEF Building
<1>16. Offered'
  <2>1. OnePeriod'
    BY <1>1, <1>5 DEF OnePeriod
  <2>. QED BY <1>1, <1>3, <2>1 DEF Offered
<1>17. InSeries'
  <2>1. ASSUME NEW i \in DOMAIN history, history[i].symbol \in Wanted
        PROVE  IF Handed(i)' THEN i \in Passed
               ELSE i \notin Passed /\ \A s \in Wanted : \A p \in PeriodsOf(s)' : p < PeriodAt(i)
    <3>1. Handed(i)' <=> Handed(i) \/ (history[i].symbol \in DOMAIN currentBars /\ PeriodAt(i) = period)
      BY <1>1, <1>14, <2>1 DEF Handed
    <3>2. Handed(i) => i \in Passed
      BY <2>1 DEF FeedIInv, InSeries
    <3>3. i \in Passed \/ period < PeriodAt(i)
      BY <1>7, <2>1
    <3>4. PeriodAt(i) = period => history[i].symbol \in DOMAIN currentBars
      BY <1>7, <2>1
    <3>5. CASE Handed(i)'
      BY <1>8, <3>1, <3>2, <3>3, <3>5
    <3>6. CASE ~Handed(i)'
      <4>1. ~Handed(i) /\ PeriodAt(i) # period
        BY <3>1, <3>4, <3>6
      <4>2. i \notin Passed
        <5>1. i \in Passed => InFrame(i)
          BY <1>3, <2>1, <4>1 DEF FeedIInv, InSeries
        <5>2. ~InFrame(i)
          BY <1>5, <4>1 DEF InFrame
        <5>. QED BY <5>1, <5>2
      <4>3. \A s \in Wanted : \A p \in PeriodsOf(s) : p < PeriodAt(i)
        BY <2>1, <4>1 DEF FeedIInv, InSeries
      <4>4. period < PeriodAt(i)
        BY <3>3, <4>2
      <4>. QED BY <1>14, <3>6, <4>2, <4>3, <4>4
    <3>. QED BY <3>5, <3>6
  <2>. QED BY <1>1, <1>2, <1>11, <1>13, <2>1 DEF InSeries
<1>18. Stages'
  BY DEF FeedIInv, Stages
<1>. QED BY <1>1, <1>2, <1>15, <1>16, <1>17, <1>18 DEF FeedIInv
\* The invariant holds at first and every step keeps it.
LEMMA FeedSteps ==
  ASSUME FeedIInv, [FeedNext]_feedVars
  PROVE  FeedIInv'
<1>1. CASE UNCHANGED feedVars
  <2>1. UNCHANGED <<run, history, stage, rows, cursor, key, builders, currentBars, series>>
    BY <1>1 DEF feedVars, readVars
  <2>2. Asked' /\ Stages'
    BY <2>1, SameHistory DEF FeedIInv, Stages
  <2>3. Passed' = Passed /\ Reading' /\ Framing'
    <3>1. Passed' = Passed /\ (Reading => Reading') /\ (Framing => Framing')
      BY <2>1, SameReading
    <3>. QED BY <3>1 DEF FeedIInv
  <2>4. Building' /\ Offered'
    BY <2>1, <2>3, SameBuilding, SameOffered DEF FeedIInv
  <2>5. InSeries'
    <3>1. \A i : PeriodAt(i)' = PeriodAt(i) /\ PeriodOf(history[i].date)' = PeriodOf(history[i].date)
      BY <2>1, SameHistory
    <3>2. \A i : InFrame(i)' = InFrame(i)
      <4>1. \A t : PeriodOf(t)' = PeriodOf(t)
        BY <2>1, SameHistory
      <4>. QED BY <2>1, <3>1, <4>1 DEF InFrame
    <3>3. ASSUME NEW i \in DOMAIN history, history[i].symbol \in Wanted
          PROVE  /\ Handed(i) => i \in Passed'
                 /\ ~Handed(i) /\ i \in Passed' /\ stage' # "failed" =>
                      (key' # 0 /\ PeriodAt(i) = key') \/ InFrame(i)'
      BY <2>1, <2>3, <3>2, <3>3 DEF FeedIInv, InSeries
    <3>. QED BY <2>1, <3>3, SameSeries DEF FeedIInv
  <2>. QED BY <2>2, <2>3, <2>4, <2>5 DEF FeedIInv
<1>2. ASSUME NEW accepted \in BOOLEAN, OpenFeed(accepted) PROVE FeedIInv'
  <2>1. /\ stage = "compile" /\ stage' \in {"rejected", "read", "failed"}
        /\ stage' = "read" => run.timeframe \in {"1d", "1w", "1mo"}
        /\ UNCHANGED <<run, history, rows, cursor, key, builders, currentBars, series>>
    BY <1>2 DEF OpenFeed, readVars
  <2>2. Stages'
    BY <2>1 DEF Stages
  <2>. QED BY <2>1, <2>2, TurnHolds
<1>3. CASE CursorFails
  <2>1. /\ stage = "read" /\ stage' = "failed"
        /\ UNCHANGED <<run, history, rows, cursor, key, builders, currentBars, series>>
    BY <1>3 DEF CursorFails, readVars
  <2>2. Stages'
    BY <2>1 DEF Stages
  <2>. QED BY <2>1, <2>2, TurnHolds
<1>4. CASE Finish
  <2>1. /\ stage = "read" /\ stage' = "done" /\ rows = <<>> /\ cursor = None /\ builders = None
        /\ UNCHANGED <<run, history, rows, cursor, key, builders, currentBars, series>>
    BY <1>4 DEF Finish, AtEnd, readVars
  <2>2. Stages'
    BY <2>1 DEF FeedIInv, Stages
  <2>. QED BY <2>1, <2>2, TurnHolds
<1>5. CASE AppendBars
  <2>1. stage = "append" /\ UNCHANGED <<run, history, rows, cursor, key, builders, currentBars>>
    BY <1>5 DEF AppendBars, readVars
  <2>2. CASE \E s \in DOMAIN currentBars : ~ValidBar(currentBars[s])
    <3>1. stage' = "failed" /\ UNCHANGED series
      BY <1>5, <2>2 DEF AppendBars
    <3>. QED BY <2>1, <3>1, RefusedHolds
  <2>3. CASE ~\E s \in DOMAIN currentBars : ~ValidBar(currentBars[s])
    <3>1. /\ stage' = "decide"
          /\ series' = [s \in Wanted |->
               IF s \in DOMAIN currentBars THEN Append(series[s], currentBars[s]) ELSE series[s]]
      BY <1>5, <2>3 DEF AppendBars
    <3>. QED BY <2>1, <3>1, AppendedHolds
  <2>. QED BY <2>2, <2>3
<1>6. ASSUME NEW from \in {"decide", "settle"}, NEW to \in {"settle", "failed", "read"}, Turn(from, to)
      PROVE  FeedIInv'
  <2>1. /\ stage \in {"decide", "settle"} /\ stage' \in {"settle", "failed", "read"}
        /\ UNCHANGED <<run, history, rows, cursor, key, builders, currentBars, series>>
    BY <1>6 DEF Turn, readVars
  <2>2. Stages'
    BY <2>1 DEF FeedIInv, Stages
  <2>. QED BY <2>1, <2>2, TurnHolds
<1>. QED
  BY <1>1, <1>2, <1>3, <1>4, <1>5, <1>6, SkipHolds, JoinHolds, DailyHolds, AbsorbHolds, FlushHolds
  DEF FeedNext, ReadStep

\* What the invariant says of the series.
LEMMA FeedImplies ==
  ASSUME FeedIInv
  PROVE  FramesAreWhole
<1>1. OnePeriod /\ \A s \in Wanted : WholeBars(s) /\ InOrder(s)
  BY DEF FeedIInv, Offered, InSeries
<1>2. ASSUME NEW s \in Wanted, NEW i \in DOMAIN history, history[i].symbol = s,
             stage = "done" \/ \E k \in DOMAIN series[s] : history[i].date < series[s][k].time
      PROVE  \E k \in DOMAIN series[s] : PeriodOf(series[s][k].time) = PeriodOf(history[i].date)
  <2>1. SUFFICES ASSUME ~Handed(i) PROVE FALSE
    BY <1>2 DEF Handed, PeriodsOf, PeriodAt
  <2>2. /\ \A p \in PeriodsOf(s) : p < PeriodAt(i)
        /\ i \in Passed /\ stage # "failed" => (key # 0 /\ PeriodAt(i) = key) \/ InFrame(i)
    BY <1>2, <2>1 DEF FeedIInv, InSeries
  <2>3. CASE stage = "done"
    <3>1. rows = <<>> /\ cursor = None /\ builders = None
      BY <2>3 DEF FeedIInv, Stages
    <3>2. key = 0 /\ ~InFrame(i)
      BY <2>3, <3>1 DEF FeedIInv, Building, InFrame
    <3>3. Passed = Taken
      BY <3>1 DEF Passed, None
    <3>4. i \in Taken
      <4>1. Len(rows) = 0
        BY <3>1
      <4>2. Met = Len(history)
        BY <4>1, TakenAre DEF FeedIInv, Met
      <4>. QED BY <1>2, <4>2, TakenAre DEF FeedIInv
    <3>. QED BY <2>2, <2>3, <3>2, <3>3, <3>4
  <2>4. CASE \E k \in DOMAIN series[s] : history[i].date < series[s][k].time
    <3>1. PICK k \in DOMAIN series[s] : history[i].date < series[s][k].time
      BY <2>4
    <3>2. series[s][k].time \in Dates /\ history[i].date \in Dates
      BY SeriesIsRead, HistoryIs DEF FeedIInv
    <3>3. history[i].date \in Nat /\ series[s][k].time \in Nat
      BY <3>2, PeriodIs
    <3>4. history[i].date <= series[s][k].time
      BY <3>1, <3>3
    <3>5. PeriodAt(i) <= PeriodOf(series[s][k].time) /\ PeriodAt(i) \in Nat
      BY <3>2, <3>4, PeriodIs DEF PeriodAt
    <3>6. PeriodOf(series[s][k].time) < PeriodAt(i) /\ PeriodOf(series[s][k].time) \in Nat
      BY <2>2, <3>2, PeriodIs DEF PeriodsOf
    <3>. QED BY <3>5, <3>6
  <2>. QED BY <1>2, <2>3, <2>4
<1>3. \A s \in Wanted : NothingMissing(s)
  BY <1>2 DEF NothingMissing
<1>. QED BY <1>1, <1>3 DEF FramesAreWhole

\* Of every row of the store: it is still to be read, in the cursor, in the
\* aggregate, in the frame that waits, or in the series, and in one place only.
THEOREM FeedInvariance == FeedSpec => []FeedIInv
<1>1. (\E c \in Cases : FeedInit(c)) => FeedIInv
  BY InitHolds
<1>2. FeedIInv /\ [FeedNext]_feedVars => FeedIInv'
  BY FeedSteps
<1>. QED BY <1>1, <1>2, PTL DEF FeedSpec

\* Whatever is stored, the engine is given whole periods, in their order, and none is left out.
THEOREM FramesWhole == FeedSpec => []FramesAreWhole
<1>1. FeedIInv => FramesAreWhole
  BY FeedImplies
<1>. QED BY <1>1, FeedInvariance, PTL
=============================================================================

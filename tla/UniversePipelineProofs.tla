------------------------ MODULE UniversePipelineProofs ------------------------
(***************************************************************************)
(* Proofs about UniversePipeline, for all listings, days, prices, calendars *)
(* and plans: what a pipeline makes are rows; a universe in force is that   *)
(* of its own period; a selection takes nothing that is not closed on its   *)
(* date; combine steps are set operations on instruments; a rank by score  *)
(* keeps the rows with the best weighted percentiles.                      *)
(***************************************************************************)
EXTENDS UniversePipeline, Induction

-----------------------------------------------------------------------------
(* Lists                                                                   *)

\* A list with every element replaced.
LEMMA EachType ==
  ASSUME NEW X, NEW s \in Seq(X), NEW Y, NEW f \in [DOMAIN s -> Y]
  PROVE  f \in Seq(Y) /\ Len(f) = Len(s) /\ DOMAIN f = DOMAIN s
<1>1. Len(s) \in Nat /\ DOMAIN s = 1..Len(s)
  OBVIOUS
<1>. QED BY <1>1, ListOf

\* What is picked from a list is a list of its elements.
LEMMA PickedType ==
  ASSUME NEW X, NEW s \in Seq(X), NEW indexes
  PROVE  Picked(s, indexes) \in Seq(X)
BY PickedElements

\* What is picked are the elements at the given indexes.
LEMMA PickedRange ==
  ASSUME NEW X, NEW s \in Seq(X), NEW indexes
  PROVE  /\ \A m \in DOMAIN Picked(s, indexes) : \E i \in DOMAIN s : i \in indexes /\ Picked(s, indexes)[m] = s[i]
         /\ \A i \in DOMAIN s : i \in indexes => \E m \in DOMAIN Picked(s, indexes) : Picked(s, indexes)[m] = s[i]
<1>1. PICK e \in [DOMAIN Picked(s, indexes) -> DOMAIN s] :
              /\ \A m \in DOMAIN Picked(s, indexes) : e[m] \in indexes /\ Picked(s, indexes)[m] = s[e[m]]
              /\ \A i \in DOMAIN s : i \in indexes => \E m \in DOMAIN Picked(s, indexes) : e[m] = i
  BY PickedElements
<1>. QED BY <1>1

\* From which indexes the elements come.
Picks(s, indexes) ==
  {e \in [DOMAIN Picked(s, indexes) -> DOMAIN s] :
     /\ \A m \in DOMAIN Picked(s, indexes) : e[m] \in indexes /\ Picked(s, indexes)[m] = s[e[m]]
     /\ \A m, n \in DOMAIN Picked(s, indexes) : m < n => e[m] < e[n]
     /\ \A i \in DOMAIN s : i \in indexes => \E m \in DOMAIN Picked(s, indexes) : e[m] = i}

\* The recursion of Picked has a value.
LEMMA PicksExist ==
  ASSUME NEW X, NEW s \in Seq(X), NEW indexes
  PROVE  Picks(s, indexes) # {}
<1>1. PICK e \in [DOMAIN Picked(s, indexes) -> DOMAIN s] :
         /\ \A m \in DOMAIN Picked(s, indexes) : e[m] \in indexes /\ Picked(s, indexes)[m] = s[e[m]]
         /\ \A m, n \in DOMAIN Picked(s, indexes) : m < n => e[m] < e[n]
         /\ \A i \in DOMAIN s : i \in indexes => \E m \in DOMAIN Picked(s, indexes) : e[m] = i
  BY PickedElements
<1>. QED BY <1>1 DEF Picks

\* What a function makes of a list is a finite set.
LEMMA ImageFinite ==
  ASSUME NEW X, NEW s \in Seq(X), NEW f, NEW T \in SUBSET {f[i] : i \in DOMAIN s}
  PROVE  IsFiniteSet(T)
<1>. DEFINE D == DOMAIN s
            S == {f[i] : i \in D}
<1>1. IsFiniteSet(D)
  <2>1. Len(s) \in Nat /\ D = 1..Len(s)
    OBVIOUS
  <2>. QED BY <2>1, FS_Interval
<1>2. IsFiniteSet(S)
  <2>. HIDE DEF D
  <2>1. [i \in D |-> f[i]] \in Surjection(D, S)
    BY DEF Surjection
  <2>. HIDE DEF S
  <2>. QED BY <1>1, <2>1, FS_Surjection
<1>. QED BY <1>2, FS_Subset

\* The range of a list, element by element.
LEMMA RangeIs ==
  ASSUME NEW s
  PROVE  Range(s) = {s[i] : i \in DOMAIN s}
BY DEF Range

\* A list has its elements in any set that has them.
LEMMA ListIn ==
  ASSUME NEW s, IsList(s), NEW X, \A x \in Range(s) : x \in X
  PROVE  s \in Seq(X)
<1>1. s \in Seq(Range(s)) /\ Range(s) \subseteq X
  BY DEF IsList
<1>. QED BY <1>1, SeqMonotonic

\* The greater of 0 and a number is natural.
LEMMA MaxOfZero ==
  ASSUME NEW a \in Int
  PROVE  Max({0, a}) \in Nat
<1>1. \E x \in {0, a} : \A y \in {0, a} : x >= y
  BY 0 <= a \/ a <= 0
<1>2. Max({0, a}) \in {0, a} /\ \A y \in {0, a} : Max({0, a}) >= y
  BY <1>1 DEF Max
<1>. QED BY <1>2

-----------------------------------------------------------------------------
(* Sorting rows                                                            *)

\* Rows in their order are the same rows.
LEMMA SortRowsType ==
  ASSUME NEW rs \in Seq(Rows)
  PROVE  SortRows(rs) \in Seq(Rows)
<1>1. PICK less : SortRows(rs) = Arranged(rs, InsertionSort(Len(rs), less))
  BY DEF SortRows, SortFunc, Order, Arranged
<1>. QED BY <1>1, ArrangedIs

\* sort by a field leaves rows.
LEMMA SortByFieldType ==
  ASSUME NEW rs \in Seq(Rows), NEW field, NEW order
  PROVE  SortByField(rs, field, order) \in Seq(Rows)
<1>1. PICK less : SortByField(rs, field, order) = Arranged(rs, InsertionSort(Len(rs), less))
  BY DEF SortByField, SortFunc, Order, Arranged
<1>. QED BY <1>1, ArrangedIs

\* So does the sort by score.
LEMMA SortByScoreType ==
  ASSUME NEW rs \in Seq(Rows)
  PROVE  SortByScore(rs) \in Seq(Rows)
<1>1. PICK less : SortByScore(rs) = Arranged(rs, InsertionSort(Len(rs), less))
  BY DEF SortByScore, SortFunc, Order, Arranged
<1>. QED BY <1>1, ArrangedIs

\* A sorted set, of any order of rows.
LEMMA SortSetIs ==
  ASSUME NEW S \in SUBSET Rows, IsFiniteSet(S)
  PROVE  LET t == SortSet(S, RowLess)
         IN  /\ t \in Seq(S) /\ t \in Seq(Rows) /\ Len(t) = Cardinality(S)
             /\ \A i, j \in DOMAIN t : t[i] = t[j] => i = j
             /\ \A x \in S : \E i \in DOMAIN t : t[i] = x
<1>. DEFINE s == SetToSeq(S)
            t == SortSet(S, RowLess)
<1>1. PICK less : t = Arranged(s, InsertionSort(Len(s), less))
  BY DEF SortSet, SortFunc, Order, Arranged
<1>2. /\ s \in Seq(S) /\ Len(s) = Cardinality(S)
      /\ \A i, j \in DOMAIN s : s[i] = s[j] => i = j
      /\ \A x \in S : \E i \in DOMAIN s : s[i] = x
  BY SetToSeqIs
<1>. HIDE DEF s, t
<1>. DEFINE order == InsertionSort(Len(s), less)
<1>3. /\ t \in Seq(S) /\ Len(t) = Len(s) /\ DOMAIN t = DOMAIN s
      /\ order \in [DOMAIN s -> DOMAIN s]
      /\ \A k \in DOMAIN s : t[k] = s[order[k]]
      /\ \A j, k \in DOMAIN s : order[j] = order[k] => j = k
      /\ \A i \in DOMAIN s : \E k \in DOMAIN s : order[k] = i
  <2>1. s \in Seq(S)
    BY <1>2
  <2>. HIDE DEF order
  <2>2. t = Arranged(s, order)
    BY <1>1 DEF order
  <2>. QED BY <2>1, <2>2, ArrangedIs DEF order
<1>. HIDE DEF order
<1>4. \A i, j \in DOMAIN t : t[i] = t[j] => i = j
  <2>1. ASSUME NEW i \in DOMAIN t, NEW j \in DOMAIN t, t[i] = t[j] PROVE i = j
    <3>1. order[i] \in DOMAIN s /\ order[j] \in DOMAIN s
      BY <1>3
    <3>2. s[order[i]] = s[order[j]]
      BY <1>3, <2>1
    <3>3. order[i] = order[j]
      BY <1>2, <3>1, <3>2
    <3>. QED BY <1>3, <3>3
  <2>. QED BY <2>1
<1>5. ASSUME NEW x \in S PROVE \E i \in DOMAIN t : t[i] = x
  <2>1. PICK i \in DOMAIN s : s[i] = x
    BY <1>2
  <2>2. PICK k \in DOMAIN s : order[k] = i
    BY <1>3
  <2>. QED BY <1>3, <2>1, <2>2
<1>6. t \in Seq(Rows)
  BY <1>3, SeqMonotonic
<1>. QED BY <1>2, <1>3, <1>4, <1>5, <1>6 DEF t

\* Keys are sorted too, whatever they are.
LEMMA SortNumbersType ==
  ASSUME NEW S, IsFiniteSet(S)
  PROVE  SortSet(S, <) \in Seq(S)
<1>. DEFINE s == SetToSeq(S)
            t == SortSet(S, <)
<1>1. PICK less : t = Arranged(s, InsertionSort(Len(s), less))
  BY DEF SortSet, SortFunc, Order, Arranged
<1>2. s \in Seq(S)
  BY SetToSeqIs
<1>. HIDE DEF s, t
<1>3. t \in Seq(S)
  BY <1>1, <1>2, ArrangedIs
<1>. QED BY <1>3 DEF t

\* Listings in order are a list of them.
LEMMA SortListingsType ==
  ASSUME NEW S, IsFiniteSet(S)
  PROVE  SortSet(S, Below) \in Seq(S)
<1>. DEFINE s == SetToSeq(S)
            t == SortSet(S, Below)
<1>1. PICK less : t = Arranged(s, InsertionSort(Len(s), less))
  BY DEF SortSet, SortFunc, Order, Arranged
<1>2. s \in Seq(S)
  BY SetToSeqIs
<1>. HIDE DEF s, t
<1>3. t \in Seq(S)
  BY <1>1, <1>2, ArrangedIs
<1>. QED BY <1>3 DEF t

\* What a limit leaves are rows, also when it is negative.
LEMMA TopType ==
  ASSUME NEW rs \in Seq(Rows), NEW n \in Int
  PROVE  Top(rs, n) \in Seq(Rows)
BY CutIs DEF Top

-----------------------------------------------------------------------------
(* Bars are rows                                                           *)

Stores == [Listings -> [Days -> Int]]

\* A history is a store.
LEMMA StoresAre == Histories \subseteq Stores
<1>1. Prices \cup {0} \subseteq Int
  BY UniverseAssumption
<1>2. Histories \subseteq [Listings -> [Days -> Prices \cup {0}]]
  BY UniverseAssumption
<1>. QED BY <1>1, <1>2 DEF Stores

\* A row that a selector makes is a row.
LEMMA RowType ==
  ASSUME NEW symbol \in Int, NEW type \in Int, NEW day \in Int, NEW val \in Int, NEW tags \in SUBSET Tags
  PROVE  Row(symbol, type, day, val, tags) \in Rows
BY DEF Row, Rows, Missing

\* The bars of a day are rows (loadDailyBars).
LEMMA BarsOfType ==
  ASSUME NEW type, NEW d \in Days, NEW stored \in Stores
  PROVE  BarsOf(type, d, stored) \in Seq(Rows)
<1>. DEFINE of == ListingsInOrder
            rs == [k \in DOMAIN of |-> Row(of[k][1], of[k][2], d, stored[of[k]][d], {"liquid"})]
<1>1. of \in Seq(Listings)
  BY SortListingsType, UniverseAssumption DEF ListingsInOrder
<1>2. ASSUME NEW k \in DOMAIN of
      PROVE  Row(of[k][1], of[k][2], d, stored[of[k]][d], {"liquid"}) \in Rows
  <2>. HIDE DEF of
  <2>1. of[k] \in Listings
    BY <1>1
  <2>2. of[k][1] \in Int /\ of[k][2] \in Int
    BY <2>1, UniverseAssumption
  <2>3. stored[of[k]][d] \in Int
    BY <2>1 DEF Stores
  <2>4. d \in Int
    BY UniverseAssumption DEF Days
  <2>5. {"liquid"} \in SUBSET Tags
    BY DEF Tags
  <2>. DEFINE symbol == of[k][1]
              type0 == of[k][2]
              val == stored[of[k]][d]
              tags == {"liquid"}
  <2>6. symbol \in Int /\ type0 \in Int /\ val \in Int /\ d \in Int /\ tags \in SUBSET Tags
    BY <2>2, <2>3, <2>4, <2>5
  <2>. HIDE DEF symbol, type0, val, tags
  <2>7. Row(symbol, type0, d, val, tags) \in Rows
    BY <2>6, RowType
  <2>. QED BY <2>7 DEF symbol, type0, val, tags
<1>. HIDE DEF of
<1>3. rs \in [DOMAIN of -> Rows]
  BY <1>2
<1>4. rs \in Seq(Rows)
  <2>. HIDE DEF rs
  <2>. QED BY <1>1, <1>3, EachType
<1>5. Picked(rs, {k \in DOMAIN of : type \in {0, of[k][2]} /\ stored[of[k]][d] > 0}) \in Seq(Rows)
  <2>. HIDE DEF rs
  <2>. QED BY <1>4, PickedType
<1>. QED BY <1>5 DEF BarsOf, of

\* So is what a query of bars answers.
LEMMA QueryType ==
  ASSUME NEW type, NEW from, NEW to, NEW stored \in Stores
  PROVE  Query(type, from, to, stored) \in Seq(Rows)
<1>. DEFINE ss == [d \in Days |-> IF from <= d /\ d <= to THEN BarsOf(type, d, stored) ELSE <<>>]
<1>1. ss \in [1..LastDay -> Seq(Rows)] /\ LastDay \in Nat
  BY BarsOfType, UniverseAssumption DEF Days
<1>. HIDE DEF ss
<1>2. ss \in Seq(Seq(Rows))
  BY <1>1, ListOf
<1>3. FlattenSeq(ss) \in Seq(Rows)
  BY <1>2, FlattenType
<1>. QED BY <1>3 DEF Query, ss

\* The steps of a plan are a list, those inside combine steps after their step.
LEMMA AllStepsType ==
  ASSUME NEW p \in Plans
  PROVE  /\ IsList(p.pipeline)
         /\ \E X : AllSteps(p.pipeline) \in Seq(X)
<1>. DEFINE pl == p.pipeline
            Of(s) == SubPipelines(s)
            X == UNION {Range(sub) : sub \in PipelinesOf(p)}
<1>1. /\ \A sub \in PipelinesOf(p) : IsList(sub)
      /\ \A s \in Range(pl) : IsList(Of(s))
  BY PlanAssumption DEF TypedPipeline
<1>2. pl \in PipelinesOf(p) /\ \A s \in Range(pl) : \A sub \in Range(Of(s)) : sub \in PipelinesOf(p)
  BY DEF PipelinesOf
<1>3. ASSUME NEW i \in DOMAIN pl
      PROVE  <<pl[i]>> \o FlattenSeq(Of(pl[i])) \in Seq(X)
  <2>1. pl[i] \in Range(pl)
    BY RangeIs
  <2>2. Of(pl[i]) \in Seq(Seq(X))
    <3>1. ASSUME NEW sub \in Range(Of(pl[i])) PROVE sub \in Seq(X)
      <4>1. IsList(sub) /\ \A x \in Range(sub) : x \in X
        BY <1>1, <1>2, <2>1
      <4>. HIDE DEF X
      <4>. QED BY <4>1, ListIn
    <3>2. IsList(Of(pl[i]))
      BY <1>1, <2>1
    <3>. DEFINE Y == Seq(X)
                subs == Of(pl[i])
    <3>3. \A x \in Range(subs) : x \in Y
      BY <3>1
    <3>. HIDE DEF Y, subs
    <3>4. subs \in Seq(Y)
      BY <3>2, <3>3, ListIn DEF subs
    <3>. QED BY <3>4 DEF Y, subs
  <2>3. FlattenSeq(Of(pl[i])) \in Seq(X)
    <3>. HIDE DEF X
    <3>. QED BY <2>2, FlattenType
  <2>4. <<pl[i]>> \in Seq(X)
    <3>1. pl[i] \in X
      BY <1>2, <2>1
    <3>. HIDE DEF X
    <3>. QED BY <3>1
  <2>. HIDE DEF X
  <2>. QED BY <2>3, <2>4
<1>. DEFINE ss == [i \in DOMAIN pl |-> <<pl[i]>> \o FlattenSeq(Of(pl[i]))]
<1>4. IsList(pl) /\ pl \in Seq(Range(pl))
  BY <1>1, <1>2 DEF IsList
<1>5. ss \in Seq(Seq(X))
  <2>1. ss \in [DOMAIN pl -> Seq(X)]
    BY <1>3
  <2>. HIDE DEF ss, X, pl
  <2>. DEFINE R == Range(pl)
  <2>2. pl \in Seq(R)
    BY <1>4
  <2>. HIDE DEF R
  <2>. QED BY <2>1, <2>2, EachType
<1>6. FlattenSeq(ss) \in Seq(X)
  <2>. HIDE DEF ss, X
  <2>. QED BY <1>5, FlattenType
<1>7. AllSteps(pl) = FlattenSeq(ss)
  BY DEF AllSteps
<1>. HIDE DEF ss, X
<1>. QED BY <1>4, <1>6, <1>7

\* The queries of a plan are a list, without those that come twice.
LEMMA QueriesType ==
  ASSUME NEW p \in Plans
  PROVE  \E n \in Nat : DOMAIN Distinct(Queries(p)) = 1..n
<1>1. PICK X : AllSteps(p.pipeline) \in Seq(X)
  BY AllStepsType
<1>. DEFINE all == AllSteps(p.pipeline)
            asked == Picked(all, {i \in DOMAIN all : all[i].id = "source.daily_bars"})
            types == [i \in DOMAIN asked |-> IF asked[i].type = 0 THEN p.fallback ELSE asked[i].type]
            Y == {types[i] : i \in DOMAIN asked} \cup {p.fallback}
<1>2. asked \in Seq(X)
  <2>. HIDE DEF all
  <2>1. all \in Seq(X)
    BY <1>1 DEF all
  <2>. QED BY <2>1, PickedType
<1>3. types \in Seq(Y)
  <2>. HIDE DEF asked
  <2>1. types \in [DOMAIN asked -> Y]
    OBVIOUS
  <2>. HIDE DEF types, Y
  <2>. QED BY <1>2, <2>1, EachType
<1>4. Queries(p) \in Seq(Y)
  <2>1. Queries(p) = IF types = <<>> THEN <<p.fallback>> ELSE types
    BY DEF Queries
  <2>2. p.fallback \in Y
    OBVIOUS
  <2>. HIDE DEF types, Y
  <2>. QED BY <1>3, <2>1, <2>2
<1>5. Distinct(Queries(p)) \in Seq(Y)
  <2>. HIDE DEF Y
  <2>. QED BY <1>4, PickedType DEF Distinct
<1>. HIDE DEF Y
<1>. DEFINE t == Distinct(Queries(p))
<1>6. t \in Seq(Y)
  BY <1>5
<1>. HIDE DEF t
<1>7. Len(t) \in Nat /\ DOMAIN t = 1..Len(t)
  BY <1>6
<1>. QED BY <1>7 DEF t

\* What is loaded for a plan are rows.
LEMMA LoadedType ==
  ASSUME NEW p \in Plans, NEW stored \in Stores
  PROVE  Loaded(p, stored) \in Seq(Rows)
<1>. DEFINE types == Distinct(Queries(p))
            ss == [i \in DOMAIN types |-> Query(types[i], LoadFrom(p), p.to, stored)]
<1>1. PICK n \in Nat : DOMAIN types = 1..n
  BY QueriesType
<1>2. ss \in [1..n -> Seq(Rows)]
  <2>. HIDE DEF types
  <2>. QED BY <1>1, QueryType
<1>. HIDE DEF ss
<1>3. ss \in Seq(Seq(Rows))
  BY <1>2, ListOf
<1>4. FlattenSeq(ss) \in Seq(Rows)
  BY <1>3, FlattenType
<1>. QED BY <1>4 DEF Loaded, ss

\* The bars closed before a day are rows.
LEMMA ClosedBarsType ==
  ASSUME NEW known \in Seq(Rows), NEW day
  PROVE  ClosedBars(known, day) \in Seq(Rows)
BY PickedType DEF ClosedBars

\* A source of daily bars makes rows.
LEMMA DailyBarsType ==
  ASSUME NEW s, NEW known \in Seq(Rows), NEW day, NEW from
  PROVE  DailyBars(s, known, day, from) \in Seq(Rows)
<1>1. ClosedBars(known, day) \in Seq(Rows)
  BY ClosedBarsType
<1>. DEFINE closed == ClosedBars(known, day)
<1>2. closed \in Seq(Rows)
  BY <1>1
<1>. HIDE DEF closed
<1>3. \A I : Picked(closed, I) \in Seq(Rows)
  BY <1>2, PickedType
<1>. QED BY <1>3 DEF DailyBars, closed

\* The latest row of each instrument is a row, and there are finitely many.
LEMMA LatestType ==
  ASSUME NEW rs \in Seq(Rows)
  PROVE  Latest(rs) \in SUBSET Rows /\ IsFiniteSet(Latest(rs))
<1>1. Latest(rs) \in SUBSET {rs[i] : i \in DOMAIN rs}
  BY DEF Latest
<1>2. {rs[i] : i \in DOMAIN rs} \subseteq Rows
  OBVIOUS
<1>. QED BY <1>1, <1>2, ImageFinite

-----------------------------------------------------------------------------
(* Transforms keep rows rows                                               *)

\* A quotient of naturals is natural.
LEMMA QuotientType ==
  ASSUME NEW a \in Nat, NEW b \in Nat \ {0}
  PROVE  a \div b \in Nat
OBVIOUS

\* A product of naturals is natural.
LEMMA ProductType ==
  ASSUME NEW a \in Nat, NEW b \in Nat
  PROVE  a * b \in Nat
OBVIOUS

\* The least of a set of naturals is in it.
LEMMA LeastIsOne ==
  ASSUME NEW T \in SUBSET Nat, T # {}
  PROVE  Min(T) \in Nat /\ Min(T) \in T /\ \A y \in T : Min(T) <= y
<1>1. \E x \in T : \A y \in T : x <= y
  BY LeastExists
<1>2. Min(T) \in T /\ \A y \in T : Min(T) <= y
  BY <1>1 DEF Min
<1>. QED BY <1>2

\* The greatest of a bounded set of naturals is in it.
LEMMA GreatestIsOne ==
  ASSUME NEW b \in Nat, NEW T \in SUBSET (0..b), T # {}
  PROVE  Max(T) \in T /\ \A y \in T : Max(T) >= y
<1>1. \E x \in T : \A y \in T : x >= y
  BY GreatestExists
<1>. QED BY <1>1 DEF Max

\* A column of a row is a number.
LEMMA ColumnType ==
  ASSUME NEW r \in Rows, NEW f \in Columns
  PROVE  r[f] \in Int
BY DEF Rows, Columns

\* A field reads as a natural number or as a NaN.
LEMMA NumberType ==
  ASSUME NEW r \in Rows, NEW f \in Columns
  PROVE  Number(r, f) \in Nat \cup {NaN}
<1>. DEFINE v == r[f]
            two == {NaN, v}
<1>1. v \in Int /\ NaN = -1
  BY ColumnType DEF NaN
<1>. HIDE DEF v
<1>2. \E x \in two : \A y \in two : x >= y
  BY <1>1, NaN <= v \/ v <= NaN
<1>3. Max(two) \in two /\ \A y \in two : Max(two) >= y
  BY <1>2 DEF Max
<1>4. Max(two) \in Nat \cup {NaN}
  BY <1>1, <1>3
<1>. QED BY <1>4 DEF Number, v

\* A metric over a window of rows is a number.
LEMMA WindowMetricType ==
  ASSUME NEW id \in {"average", "return", "max_drawdown"}, NEW rs \in Seq(Rows), NEW field \in Columns,
         NEW window \in Int
  PROVE  WindowMetric(id, rs, field, window) \in Int
<1>. DEFINE w == SubSeq(rs, Len(rs) - window + 1, Len(rs))
            V(i) == Number(w[i], field)
            WM == WindowMetric(id, rs, field, window)
<1>1. CASE window <= 0 \/ Len(rs) < window
  <2>1. WM = Missing
    BY <1>1 DEF WindowMetric
  <2>. QED BY <2>1 DEF Missing
<1>2. CASE ~(window <= 0 \/ Len(rs) < window)
  <2>1. Len(rs) \in Nat /\ Len(rs) - window + 1 \in Int /\ \A i \in (Len(rs) - window + 1)..Len(rs) : rs[i] \in Rows
    BY <1>2
  <2>2. w \in Seq(Rows) /\ Len(w) = window /\ DOMAIN w = 1..window
    <3>. DEFINE m == Len(rs) - window + 1
                n == Len(rs)
    <3>1. m \in Int /\ n \in Int /\ m <= n /\ \A i \in m..n : rs[i] \in Rows
      BY <1>2, <2>1
    <3>2. n - m + 1 = window
      BY <2>1
    <3>. HIDE DEF m, n
    <3>3. SubSeq(rs, m, n) \in Seq(Rows) /\ Len(SubSeq(rs, m, n)) = n - m + 1
      BY <3>1, SubSeqProperties
    <3>4. w = SubSeq(rs, m, n)
      BY DEF m, n
    <3>. HIDE DEF w
    <3>. QED BY <3>2, <3>3, <3>4
  <2>. HIDE DEF w
  <2>3. \A i \in DOMAIN w : V(i) \in Nat \cup {NaN}
    <3>1. \A i \in DOMAIN w : w[i] \in Rows
      BY <2>2
    <3>. QED BY <3>1, NumberType
  <2>4. Scale \in Nat
    BY UniverseAssumption
  <2>5. WM = CASE id = "average" ->
                    IF \E i \in DOMAIN w : V(i) = NaN THEN NaN ELSE Total([i \in DOMAIN w |-> V(i)])
               [] id = "return" -> IF V(1) = 0 THEN Missing
                                   ELSE IF NaN \in {V(1), V(Len(w))} THEN NaN
                                   ELSE (V(Len(w)) * Scale) \div V(1)
               [] id = "max_drawdown" ->
                    Min({Scale} \cup {(V(p[2]) * Scale) \div V(p[1]) :
                          p \in {q \in (DOMAIN w) \X (DOMAIN w) :
                                   q[1] <= q[2] /\ V(q[1]) > 0 /\ V(q[2]) # NaN}})
    BY <1>2 DEF WindowMetric, w
  <2>. HIDE DEF V
  <2>6. CASE id = "average"
    <3>1. [i \in DOMAIN w |-> V(i)] \in [DOMAIN w -> Int]
      BY <2>3 DEF NaN
    <3>2. [i \in DOMAIN w |-> V(i)] \in Seq(Int)
      BY <2>2, <3>1, EachType
    <3>3. Total([i \in DOMAIN w |-> V(i)]) \in Int
      BY <3>2, TotalType
    <3>4. CASE \E i \in DOMAIN w : V(i) = NaN
      BY <2>5, <2>6, <3>4 DEF NaN
    <3>5. CASE ~\E i \in DOMAIN w : V(i) = NaN
      BY <2>5, <2>6, <3>3, <3>5
    <3>. QED BY <3>4, <3>5
  <2>7. CASE id = "return"
    <3>1. V(1) \in Nat \cup {NaN} /\ V(Len(w)) \in Nat \cup {NaN}
      <4>1. 1 \in DOMAIN w /\ Len(w) \in DOMAIN w
        BY <1>2, <2>2
      <4>. QED BY <2>3, <4>1
    <3>2. CASE V(1) = 0
      BY <2>5, <2>7, <3>2 DEF Missing
    <3>3. CASE V(1) # 0 /\ NaN \in {V(1), V(Len(w))}
      BY <2>5, <2>7, <3>3 DEF NaN
    <3>4. CASE V(1) # 0 /\ NaN \notin {V(1), V(Len(w))}
      <4>1. V(Len(w)) * Scale \in Nat
        BY <2>4, <3>1, <3>4, ProductType
      <4>2. (V(Len(w)) * Scale) \div V(1) \in Nat
        BY <3>1, <3>4, <4>1, QuotientType
      <4>. QED BY <2>5, <2>7, <3>4, <4>2
    <3>. QED BY <3>2, <3>3, <3>4
  <2>8. CASE id = "max_drawdown"
    <3>. DEFINE P == {q \in (DOMAIN w) \X (DOMAIN w) : q[1] <= q[2] /\ V(q[1]) > 0 /\ V(q[2]) # NaN}
                T == {Scale} \cup {(V(p[2]) * Scale) \div V(p[1]) : p \in P}
    <3>1. ASSUME NEW p \in P PROVE (V(p[2]) * Scale) \div V(p[1]) \in Nat
      <4>1. V(p[1]) \in Nat \ {0} /\ V(p[2]) \in Nat
        BY <2>3 DEF NaN
      <4>2. V(p[2]) * Scale \in Nat
        BY <2>4, <4>1, ProductType
      <4>. QED BY <4>1, <4>2, QuotientType
    <3>2. T \in SUBSET Nat /\ T # {}
      <4>. HIDE DEF P
      <4>. QED BY <2>4, <3>1
    <3>3. WM = Min(T)
      BY <2>5, <2>8
    <3>. HIDE DEF T
    <3>4. Min(T) \in Nat
      BY <3>2, LeastIsOne
    <3>. QED BY <3>3, <3>4
  <2>. QED BY <2>6, <2>7, <2>8
<1>. QED BY <1>1, <1>2

\* The rows of an instrument are rows.
LEMMA OfKeyType ==
  ASSUME NEW rs \in Seq(Rows), NEW k
  PROVE  OfKey(rs, k) \in Seq(Rows)
BY PickedType DEF OfKey

\* So are they by date.
LEMMA ByDateType ==
  ASSUME NEW rs \in Seq(Rows)
  PROVE  ByDate(rs) \in Seq(Rows)
BY SortByFieldType DEF ByDate

\* A row with another metric, score or set of tags is a row.
LEMMA ChangedType ==
  ASSUME NEW r \in Rows
  PROVE  /\ \A v \in Int : [r EXCEPT !.met = v] \in Rows /\ [r EXCEPT !.score = v] \in Rows
         /\ \A tags \in SUBSET Tags : [r EXCEPT !.tags = tags] \in Rows
         /\ r.tags \in SUBSET Tags
BY DEF Rows

\* The window metrics leave rows.
LEMMA WindowMetricsType ==
  ASSUME NEW s, s.metric \in {"average", "return", "max_drawdown"}, s.field \in Columns, s.window \in Int,
         NEW rs \in Seq(Rows)
  PROVE  WindowMetrics(s, rs) \in Seq(Rows)
<1>. DEFINE M(i) == WindowMetric(s.metric, ByDate(OfKey(rs, Key(rs[i]))), s.field, s.window)
            f == [i \in DOMAIN rs |->
                    IF M(i) # Missing /\ ~\E j \in (i + 1)..Len(rs) : Key(rs[j]) = Key(rs[i])
                      THEN [rs[i] EXCEPT !.met = M(i)] ELSE rs[i]]
<1>1. \A i \in DOMAIN rs : M(i) \in Int
  BY OfKeyType, ByDateType, WindowMetricType
<1>2. WindowMetrics(s, rs) = f
  BY DEF WindowMetrics
<1>. HIDE DEF M
<1>3. ASSUME NEW i \in DOMAIN rs PROVE rs[i] \in Rows /\ [rs[i] EXCEPT !.met = M(i)] \in Rows
  <2>1. rs[i] \in Rows
    OBVIOUS
  <2>. QED BY <1>1, <2>1, ChangedType
<1>4. f \in [DOMAIN rs -> Rows]
  BY <1>3
<1>. HIDE DEF f
<1>. QED BY <1>2, <1>4, EachType

\* The indicator leaves rows.
LEMMA IndicatorType ==
  ASSUME NEW s, s.field \in Columns, s.window \in Int, NEW rs \in Seq(Rows)
  PROVE  Indicator(s, rs) \in Seq(Rows)
<1>. DEFINE M(i) == LET of == OfKey(rs, Key(rs[i]))
                    IN  IF Len(of) < s.window THEN NaN ELSE WindowMetric("average", ByDate(of), s.field, s.window)
            f == [i \in DOMAIN rs |-> [rs[i] EXCEPT !.met = M(i)]]
<1>1. ASSUME NEW i \in DOMAIN rs PROVE M(i) \in Int
  <2>1. WindowMetric("average", ByDate(OfKey(rs, Key(rs[i]))), s.field, s.window) \in Int
    <3>1. "average" \in {"average", "return", "max_drawdown"}
      OBVIOUS
    <3>. QED BY <3>1, OfKeyType, ByDateType, WindowMetricType
  <2>. QED BY <2>1 DEF NaN
<1>2. Indicator(s, rs) = f
  BY DEF Indicator
<1>. HIDE DEF M
<1>3. ASSUME NEW i \in DOMAIN rs PROVE rs[i] \in Rows /\ [rs[i] EXCEPT !.met = M(i)] \in Rows
  <2>1. rs[i] \in Rows
    OBVIOUS
  <2>. QED BY <1>1, <2>1, ChangedType
<1>4. f \in [DOMAIN rs -> Rows]
  BY <1>3
<1>. HIDE DEF f
<1>. QED BY <1>2, <1>4, EachType

\* Every transform makes rows.
LEMMA TransformType ==
  ASSUME NEW s, TypedStep(s), s.id \in SelectorsOf.transform, NEW rs \in Seq(Rows)
  PROVE  Transform(s, rs) \subseteq Seq(Rows)
<1>1. CASE s.id = "transform.latest_per_symbol"
  <2>1. SortSet(Latest(rs), RowLess) \in Seq(Rows)
    BY LatestType, SortSetIs
  <2>. QED BY <1>1, <2>1 DEF Transform
<1>2. CASE s.id = "transform.window_metrics"
  <2>1. WindowMetrics(s, rs) \in Seq(Rows)
    BY <1>2, WindowMetricsType DEF TypedStep
  <2>. QED BY <1>2, <2>1 DEF Transform
<1>3. CASE s.id = "transform.indicator"
  <2>1. Indicator(s, rs) \in Seq(Rows)
    BY <1>3, IndicatorType DEF TypedStep
  <2>. QED BY <1>3, <2>1 DEF Transform
<1>4. CASE s.id = "transform.distinct"
  <2>1. DistinctBy(s, rs) \in Seq(Rows)
    BY PickedType DEF DistinctBy
  <2>. QED BY <1>4, <2>1 DEF Transform
<1>5. CASE s.id = "transform.tag"
  <2>. DEFINE f == [i \in DOMAIN rs |-> [rs[i] EXCEPT !.tags = @ \cup s.tags]]
  <2>1. f \in [DOMAIN rs -> Rows]
    <3>1. s.tags \in SUBSET Tags
      BY <1>5 DEF TypedStep
    <3>2. ASSUME NEW i \in DOMAIN rs PROVE [rs[i] EXCEPT !.tags = rs[i].tags \cup s.tags] \in Rows
      <4>1. rs[i] \in Rows
        OBVIOUS
      <4>2. rs[i].tags \cup s.tags \in SUBSET Tags
        <5>1. rs[i].tags \in SUBSET Tags
          BY <4>1, ChangedType
        <5>. QED BY <3>1, <5>1
      <4>. QED BY <4>1, <4>2, ChangedType
    <3>. QED BY <3>2
  <2>2. Transform(s, rs) = {f}
    BY <1>5 DEF Transform
  <2>. HIDE DEF f
  <2>3. f \in Seq(Rows)
    BY <2>1, EachType
  <2>. QED BY <2>2, <2>3
<1>. QED BY <1>1, <1>2, <1>3, <1>4, <1>5 DEF SelectorsOf

-----------------------------------------------------------------------------
(* Ranks and limits keep rows rows                                         *)

\* The percentiles of rows are numbers, one for each.
LEMMA PercentileType ==
  ASSUME NEW rs \in Seq(Rows), NEW field \in Columns, NEW direction
  PROVE  PercentileScores(rs, field, direction) \in [1..Len(rs) -> Int]
<1>. DEFINE n == Len(rs)
            order == Order(rs, LAMBDA a, b : Below(<<Cmp(a[field], b[field]), a.type, a.symbol>>,
                                                   <<0, b.type, b.symbol>>))
            Value(k) == rs[order[k]][field]
            Tied(k, l) == k = l \/ (Value(k) = Value(l) /\ Value(k) # NaN)
            Run(k) == {j \in 1..n : \A l \in (j..k) \cup (k..j) : Tied(k, l)}
            Place(i) == CHOOSE k \in 1..n : order[k] = i
            Rank(i) == (Min(Run(Place(i))) - 1) + (Max(Run(Place(i))) - 1)
<1>1. n \in Nat
  OBVIOUS
<1>2. PICK less : order = InsertionSort(n, less)
  BY DEF Order
<1>3. \A i \in 1..n : \E k \in 1..n : order[k] = i
  <2>. HIDE DEF n
  <2>1. \A i \in 1..n : \E k \in 1..n : InsertionSort(n, less)[k] = i
    BY <1>1, InsertionSorts
  <2>. HIDE DEF order
  <2>. QED BY <1>2, <2>1
<1>. HIDE DEF order
<1>4. ASSUME NEW i \in 1..n PROVE Rank(i) \in Int
  <2>1. Place(i) \in 1..n
    BY <1>3
  <2>. DEFINE at == Place(i)
              R == Run(at)
  <2>2. R \in SUBSET Nat /\ R \in SUBSET (0..n) /\ R # {}
    <3>1. at \in 1..n
      BY <2>1
    <3>. HIDE DEF at, Value
    <3>2. \A l \in (at..at) \cup (at..at) : l = at
      BY <1>1, <3>1
    <3>3. at \in R
      BY <3>1, <3>2
    <3>. QED BY <3>3
  <2>. HIDE DEF R, n
  <2>3. Min(R) \in Nat /\ Max(R) \in 0..n
    BY <1>1, <2>2, LeastIsOne, GreatestIsOne
  <2>. QED BY <1>1, <2>3 DEF R
<1>5. PercentileScores(rs, field, direction) =
        [i \in 1..n |-> IF n = 1 THEN 1
                        ELSE IF direction = "asc" THEN 2 * (n - 1) - Rank(i) ELSE Rank(i)]
  BY DEF PercentileScores, order
<1>. HIDE DEF Rank
<1>. QED BY <1>1, <1>4, <1>5

\* rank.score makes rows.
LEMMA RankScoreType ==
  ASSUME NEW s, s.metrics \in Seq([field : Columns, weight : Nat, direction : STRING]), s.limit \in Int,
         NEW rs \in Seq(Rows)
  PROVE  RankScore(s, rs) \subseteq Seq(Rows)
<1>. DEFINE ms == s.metrics
            parts == [m \in DOMAIN ms |-> PercentileScores(rs, ms[m].field, ms[m].direction)]
            last == [m \in DOMAIN ms |-> Max({l \in DOMAIN ms : ms[l].field = ms[m].field})]
            Score(i) == Total([m \in DOMAIN ms |-> parts[last[m]][i] * ms[m].weight])
            f == [i \in DOMAIN rs |-> [rs[i] EXCEPT !.score = Score(i)]]
<1>1. /\ Len(ms) \in Nat /\ DOMAIN ms = 1..Len(ms)
      /\ \A m \in DOMAIN ms : ms[m].field \in Columns /\ ms[m].weight \in Int
  <2>. DEFINE M == [field : Columns, weight : Nat, direction : STRING]
  <2>1. ms \in Seq(M) /\ \A x \in M : x.field \in Columns /\ x.weight \in Int
    OBVIOUS
  <2>. HIDE DEF ms, M
  <2>. QED BY <2>1
<1>2. \A m \in DOMAIN ms : last[m] \in DOMAIN ms
  <2>1. ASSUME NEW m \in DOMAIN ms PROVE Max({l \in DOMAIN ms : ms[l].field = ms[m].field}) \in DOMAIN ms
    <3>. DEFINE T == {l \in DOMAIN ms : ms[l].field = ms[m].field}
    <3>1. T \in SUBSET (0..Len(ms)) /\ T # {} /\ T \subseteq DOMAIN ms
      BY <1>1
    <3>. HIDE DEF T
    <3>2. Max(T) \in T
      BY <1>1, <3>1, GreatestIsOne
    <3>3. Max(T) \in DOMAIN ms
      BY <3>1, <3>2
    <3>. QED BY <3>3 DEF T
  <2>. QED BY <2>1
<1>3. ASSUME NEW m \in DOMAIN ms PROVE parts[m] \in [1..Len(rs) -> Int]
  <2>1. ms[m].field \in Columns
    BY <1>1
  <2>. QED BY <2>1, PercentileType
<1>4. ASSUME NEW i \in DOMAIN rs PROVE Score(i) \in Int
  <2>. DEFINE t == [m \in DOMAIN ms |-> parts[last[m]][i] * ms[m].weight]
  <2>1. i \in 1..Len(rs)
    OBVIOUS
  <2>. HIDE DEF parts, last, ms
  <2>2. \A m \in DOMAIN ms : parts[last[m]][i] \in Int /\ ms[m].weight \in Int
    BY <1>1, <1>2, <1>3, <2>1
  <2>3. t \in [1..Len(ms) -> Int]
    BY <1>1, <2>2
  <2>. HIDE DEF t
  <2>4. t \in Seq(Int)
    BY <1>1, <2>3, ListOf, SMTT(30)
  <2>. QED BY <2>4, TotalType DEF t
<1>5. RankScore(s, rs) \subseteq {Top(SortByScore(f), s.limit)}
  BY DEF RankScore
<1>. HIDE DEF Score
<1>6. f \in Seq(Rows)
  <2>1. \A i \in DOMAIN rs : [rs[i] EXCEPT !.score = Score(i)] \in Rows
    <3>1. ASSUME NEW i \in DOMAIN rs PROVE [rs[i] EXCEPT !.score = Score(i)] \in Rows
      <4>1. rs[i] \in Rows
        OBVIOUS
      <4>. QED BY <1>4, <4>1, ChangedType
    <3>. QED BY <3>1
  <2>2. f \in [DOMAIN rs -> Rows]
    BY <2>1
  <2>. HIDE DEF f
  <2>. QED BY <2>2, EachType
<1>. HIDE DEF f
<1>7. Top(SortByScore(f), s.limit) \in Seq(Rows)
  BY <1>6, SortByScoreType, TopType
<1>. QED BY <1>5, <1>7

\* rank.weighted makes rows.
LEMMA RankWeightedType ==
  ASSUME NEW s, s.fields \in Seq([field : Columns, weight : Nat]), s.limit \in Int, NEW rs \in Seq(Rows)
  PROVE  RankWeighted(s, rs) \in Seq(Rows)
<1>. DEFINE fs == s.fields
            Of(r, k) == Number(r, fs[k].field)
            Score(r) == IF \E k \in DOMAIN fs : Of(r, k) = NaN THEN NaN
                        ELSE Total([k \in DOMAIN fs |-> Of(r, k) * fs[k].weight])
            f == [i \in DOMAIN rs |-> [rs[i] EXCEPT !.score = Score(rs[i])]]
<1>1. /\ Len(fs) \in Nat /\ DOMAIN fs = 1..Len(fs)
      /\ \A m \in DOMAIN fs : fs[m].field \in Columns /\ fs[m].weight \in Int
  <2>. DEFINE M == [field : Columns, weight : Nat]
  <2>1. fs \in Seq(M) /\ \A x \in M : x.field \in Columns /\ x.weight \in Int
    OBVIOUS
  <2>. HIDE DEF fs, M
  <2>. QED BY <2>1
<1>2. ASSUME NEW r \in Rows PROVE Score(r) \in Int
  <2>. DEFINE t == [k \in DOMAIN fs |-> Of(r, k) * fs[k].weight]
  <2>. HIDE DEF fs
  <2>1. \A k \in DOMAIN fs : Of(r, k) \in Int /\ fs[k].weight \in Int
    <3>1. \A k \in DOMAIN fs : Of(r, k) \in Nat \cup {NaN}
      BY <1>1, NumberType
    <3>. QED BY <1>1, <3>1 DEF NaN
  <2>. HIDE DEF Of
  <2>2. t \in [1..Len(fs) -> Int]
    BY <1>1, <2>1
  <2>. HIDE DEF t
  <2>3. t \in Seq(Int)
    BY <1>1, <2>2, ListOf
  <2>4. Total(t) \in Int
    BY <2>3, TotalType
  <2>. QED BY <2>4 DEF t, NaN
<1>3. RankWeighted(s, rs) = Top(SortByField(f, "score", s.order), s.limit)
  BY DEF RankWeighted
<1>. HIDE DEF Score
<1>4. f \in Seq(Rows)
  <2>1. ASSUME NEW i \in DOMAIN rs PROVE [rs[i] EXCEPT !.score = Score(rs[i])] \in Rows
    <3>1. rs[i] \in Rows
      OBVIOUS
    <3>. QED BY <1>2, <3>1, ChangedType
  <2>2. f \in [DOMAIN rs -> Rows]
    BY <2>1
  <2>. HIDE DEF f
  <2>. QED BY <2>2, EachType
<1>. HIDE DEF f
<1>. QED BY <1>3, <1>4, SortByFieldType, TopType

\* rank.percentile makes rows.
LEMMA RankPercentileType ==
  ASSUME NEW s, s.top \in Int \X (Nat \ {0}), s.bottom \in Int \X (Nat \ {0}), NEW rs \in Seq(Rows)
  PROVE  RankPercentile(s, rs) \in Seq(Rows)
<1>. DEFINE share == IF s.bottom[1] > 0 THEN s.bottom ELSE s.top
            whole == share[1] <= 0 \/ share[1] > share[2]
            up == Len(rs) * share[1] + share[2] - 1
            keep == IF whole THEN Len(rs) ELSE up \div share[2]
            by == SortByField(rs, s.field, IF s.bottom[1] > 0 THEN "asc" ELSE "desc")
<1>1. share[1] \in Int /\ share[2] \in Nat \ {0}
  OBVIOUS
<1>. HIDE DEF share
<1>2. keep \in Int
  <2>1. Len(rs) \in Nat
    OBVIOUS
  <2>2. CASE whole
    BY <2>1, <2>2
  <2>3. CASE ~whole
    <3>1. share[1] \in Nat
      BY <1>1, <2>3
    <3>2. Len(rs) * share[1] \in Nat
      BY <2>1, <3>1, ProductType
    <3>3. up \in Nat
      BY <1>1, <3>2
    <3>. HIDE DEF up
    <3>4. up \div share[2] \in Nat
      BY <1>1, <3>3, QuotientType
    <3>. QED BY <2>3, <3>4
  <2>. QED BY <2>2, <2>3
<1>3. by \in Seq(Rows)
  BY SortByFieldType
<1>4. RankPercentile(s, rs) = Cut(by, keep)
  BY DEF RankPercentile, share
<1>. HIDE DEF by, keep
<1>. QED BY <1>2, <1>3, <1>4, CutIs

\* The groups of rows are finitely many, and rows.
LEMMA GroupType ==
  ASSUME NEW rs \in Seq(Rows), NEW field
  PROVE  /\ IsFiniteSet(Groups(rs, field))
         /\ \A g : Group(rs, field, g) \in Seq(Rows)
<1>1. IsFiniteSet(Groups(rs, field))
  <2>. DEFINE f == [i \in DOMAIN rs |-> rs[i][field]]
  <2>1. Groups(rs, field) \in SUBSET {f[i] : i \in DOMAIN rs}
    BY DEF Groups
  <2>. HIDE DEF f
  <2>. QED BY <2>1, ImageFinite
<1>2. \A g : Group(rs, field, g) \in Seq(Rows)
  BY PickedType DEF Group
<1>. QED BY <1>1, <1>2

\* rank.group_top_n makes rows.
LEMMA RankGroupTopNType ==
  ASSUME NEW s, s.n \in Nat, NEW rs \in Seq(Rows)
  PROVE  RankGroupTopN(s, rs) \subseteq Seq(Rows)
<1>. DEFINE G == Groups(rs, s.group)
            Part(g) == Cut(SortByField(Group(rs, s.group, g), s.field, s.order), s.n)
<1>1. \A g : Part(g) \in Seq(Rows)
  <2>1. \A g : SortByField(Group(rs, s.group, g), s.field, s.order) \in Seq(Rows)
    BY GroupType, SortByFieldType
  <2>2. s.n \in Int
    OBVIOUS
  <2>. QED BY <2>1, <2>2, CutIs
<1>2. ASSUME NEW order \in SetToSeqs(G)
      PROVE  SortRows(FlattenSeq([i \in DOMAIN order |-> Part(order[i])])) \in Seq(Rows)
  <2>. DEFINE ss == [i \in DOMAIN order |-> Part(order[i])]
  <2>1. order \in Seq(G)
    BY GroupType, SetToSeqsAre
  <2>. HIDE DEF Part, G
  <2>2. ss \in [DOMAIN order -> Seq(Rows)]
    BY <1>1
  <2>. HIDE DEF ss
  <2>. DEFINE Y == Seq(Rows)
  <2>3. ss \in Seq(Y)
    <3>1. ss \in [DOMAIN order -> Y]
      BY <2>2
    <3>. HIDE DEF Y
    <3>. QED BY <2>1, <3>1, EachType
  <2>4. FlattenSeq(ss) \in Seq(Rows)
    BY <2>3, FlattenType
  <2>5. SortRows(FlattenSeq(ss)) \in Seq(Rows)
    BY <2>4, SortRowsType
  <2>. QED BY <2>5 DEF ss
<1>3. RankGroupTopN(s, rs) = {SortRows(FlattenSeq([i \in DOMAIN order |-> Part(order[i])])) : order \in SetToSeqs(G)}
  BY DEF RankGroupTopN
<1>. HIDE DEF Part, G
<1>. QED BY <1>2, <1>3

\* rank.round_robin makes rows.
LEMMA RankRoundRobinType ==
  ASSUME NEW s, s.limit \in Int, NEW rs \in Seq(Rows)
  PROVE  RankRoundRobin(s, rs) \in Seq(Rows)
<1>. DEFINE G == Groups(rs, s.group)
            order  == SortSet(G, <)
            sorted == [g \in G |-> SortRows(Group(rs, s.group, g))]
            Left(k) == Picked(order, {i \in DOMAIN order : Len(sorted[order[i]]) >= k})
            Round(k) == [i \in DOMAIN Left(k) |-> sorted[Left(k)[i]][k]]
            ss == [k \in 1..Len(rs) |-> Round(k)]
            all == FlattenSeq(ss)
<1>1. order \in Seq(G)
  BY GroupType, SortNumbersType
<1>2. \A g \in G : sorted[g] \in Seq(Rows)
  BY GroupType, SortRowsType
<1>3. RankRoundRobin(s, rs) = Cut(all, Max({0, s.limit}))
  BY DEF RankRoundRobin
<1>. HIDE DEF order, sorted, G
<1>4. ASSUME NEW k \in 1..Len(rs) PROVE Round(k) \in Seq(Rows)
  <2>1. Left(k) \in Seq(G)
    BY <1>1, PickedType
  <2>2. ASSUME NEW m \in DOMAIN Left(k) PROVE sorted[Left(k)[m]][k] \in Rows
    <3>1. PICK i \in DOMAIN order : Len(sorted[order[i]]) >= k /\ Left(k)[m] = order[i]
      <4>. DEFINE I == {i \in DOMAIN order : Len(sorted[order[i]]) >= k}
      <4>1. m \in DOMAIN Picked(order, I)
        OBVIOUS
      <4>. HIDE DEF I
      <4>2. PICK i \in DOMAIN order : i \in I /\ Picked(order, I)[m] = order[i]
        BY <1>1, <4>1, PickedRange
      <4>. QED BY <4>2 DEF I
    <3>2. order[i] \in G
      BY <1>1
    <3>. DEFINE t == sorted[order[i]]
    <3>3. t \in Seq(Rows) /\ Len(t) >= k
      BY <1>2, <3>1, <3>2
    <3>. HIDE DEF t
    <3>4. k \in 1..Len(t)
      BY <3>3
    <3>5. t[k] \in Rows
      BY <3>3, <3>4
    <3>. QED BY <3>1, <3>5 DEF t
  <2>. DEFINE left == Left(k)
              f == [i \in DOMAIN left |-> sorted[left[i]][k]]
  <2>3. left \in Seq(G) /\ f \in [DOMAIN left -> Rows] /\ Round(k) = f
    BY <2>1, <2>2
  <2>. HIDE DEF left, f, Round
  <2>. QED BY <2>3, EachType
<1>. HIDE DEF Round
<1>5. Len(rs) \in Nat /\ ss \in [1..Len(rs) -> Seq(Rows)]
  BY <1>4
<1>. HIDE DEF ss
<1>6. all \in Seq(Rows)
  BY <1>5, ListOf, FlattenType
<1>. HIDE DEF all
<1>7. Max({0, s.limit}) \in Int
  BY MaxOfZero
<1>. QED BY <1>3, <1>6, <1>7, CutIs

\* Every rank makes rows.
LEMMA RankedType ==
  ASSUME NEW s, TypedStep(s), s.id \in SelectorsOf.rank, NEW rs \in Seq(Rows)
  PROVE  Ranked(s, rs) \subseteq Seq(Rows)
<1>1. CASE s.id = "rank.by_field"
  <2>1. Top(SortByField(rs, s.field, s.order), s.limit) \in Seq(Rows)
    BY <1>1, SortByFieldType, TopType DEF TypedStep
  <2>. QED BY <1>1, <2>1 DEF Ranked
<1>2. CASE s.id = "rank.score"
  BY <1>2, RankScoreType DEF TypedStep, Ranked
<1>3. CASE s.id = "rank.weighted"
  <2>1. RankWeighted(s, rs) \in Seq(Rows)
    BY <1>3, RankWeightedType DEF TypedStep
  <2>. QED BY <1>3, <2>1 DEF Ranked
<1>4. CASE s.id = "rank.percentile"
  <2>1. RankPercentile(s, rs) \in Seq(Rows)
    BY <1>4, RankPercentileType DEF TypedStep
  <2>. QED BY <1>4, <2>1 DEF Ranked
<1>5. CASE s.id = "rank.group_top_n"
  BY <1>5, RankGroupTopNType DEF TypedStep, Ranked
<1>6. CASE s.id = "rank.round_robin"
  <2>1. RankRoundRobin(s, rs) \in Seq(Rows)
    BY <1>6, RankRoundRobinType DEF TypedStep
  <2>. QED BY <1>6, <2>1 DEF Ranked
<1>. QED BY <1>1, <1>2, <1>3, <1>4, <1>5, <1>6 DEF SelectorsOf

\* Every limit makes rows.
LEMMA LimitedType ==
  ASSUME NEW s, TypedStep(s), s.id \in SelectorsOf.limit, NEW rs \in Seq(Rows)
  PROVE  Limited(s, rs) \subseteq Seq(Rows)
<1>1. s.id \in {"limit.count", "limit.max_count"} => Cut(rs, s.count) \in Seq(Rows)
  BY CutIs DEF TypedStep
<1>2. LimitPerGroup(s, rs) \in Seq(Rows)
  BY PickedType DEF LimitPerGroup
<1>. QED BY <1>1, <1>2 DEF Limited, SelectorsOf

\* Every debug step makes rows.
LEMMA DebuggedType ==
  ASSUME NEW s, TypedStep(s), s.id \in SelectorsOf.debug, NEW rs \in Seq(Rows)
  PROVE  Debugged(s, rs) \subseteq Seq(Rows)
<1>1. s.id = "debug.sample" => Cut(rs, s.count) \in Seq(Rows)
  BY CutIs DEF TypedStep
<1>. QED BY <1>1 DEF Debugged, SelectorsOf

-----------------------------------------------------------------------------
(* Rows of one instrument, merged                                          *)

\* The rows of an instrument are those, and there are some if it has any.
LEMMA OfKeyIs ==
  ASSUME NEW rs \in Seq(Rows), NEW k
  PROVE  /\ OfKey(rs, k) \in Seq(Rows)
         /\ \A m \in DOMAIN OfKey(rs, k) : Key(OfKey(rs, k)[m]) = k
         /\ k \in Keys(rs) => OfKey(rs, k) # <<>>
         /\ k \notin Keys(rs) => OfKey(rs, k) = <<>>
<1>. DEFINE I == {i \in DOMAIN rs : Key(rs[i]) = k}
            t == OfKey(rs, k)
<1>1. /\ t \in Seq(Rows)
      /\ \A m \in DOMAIN t : \E i \in DOMAIN rs : i \in I /\ t[m] = rs[i]
      /\ \A i \in DOMAIN rs : i \in I => \E m \in DOMAIN t : t[m] = rs[i]
  <2>1. t = Picked(rs, I)
    BY DEF OfKey
  <2>. HIDE DEF I, t
  <2>. QED BY <2>1, PickedType, PickedRange
<1>2. \A m \in DOMAIN t : Key(t[m]) = k
  <2>. HIDE DEF t
  <2>. QED BY <1>1
<1>3. k \in Keys(rs) => t # <<>>
  <2>1. SUFFICES ASSUME k \in Keys(rs) PROVE t # <<>>
    OBVIOUS
  <2>2. PICK i \in DOMAIN rs : i \in I
    BY <2>1 DEF Keys
  <2>3. PICK m \in DOMAIN t : t[m] = rs[i]
    BY <1>1, <2>2
  <2>. HIDE DEF t
  <2>. QED BY <2>3
<1>4. k \notin Keys(rs) => t = <<>>
  <2>1. SUFFICES ASSUME k \notin Keys(rs), t # <<>> PROVE FALSE
    OBVIOUS
  <2>2. 1 \in DOMAIN t
    <3>. HIDE DEF t
    <3>. QED BY <1>1, <2>1
  <2>. QED BY <1>1, <2>1, <2>2 DEF Keys
<1>. QED BY <1>1, <1>2, <1>3, <1>4

\* Two rows merged are a row of the instrument of the first.
LEMMA MergeType ==
  ASSUME NEW l \in Rows, NEW r \in Rows
  PROVE  Merge(l, r) \in Rows /\ Key(Merge(l, r)) = Key(l)
BY DEF Merge, Rows, Key, Missing

\* So are all rows of an instrument, merged one after the other.
LEMMA MergedRowIs ==
  ASSUME NEW of \in Seq(Rows), of # <<>>, NEW k, \A m \in DOMAIN of : Key(of[m]) = k
  PROVE  MergedRow(of) \in Rows /\ Key(MergedRow(of)) = k
<1>. DEFINE n == Len(of) - 1
            S == {r \in Rows : Key(r) = k}
            hop == [i \in 1..n |-> [r \in S |-> Merge(r, of[i + 1])]]
            Is(f) == f = [i \in DOMAIN of |-> IF i = 1 THEN of[1] ELSE Merge(f[i - 1], of[i])]
            c == CHOOSE f : Is(f)
<1>1. n \in Nat /\ DOMAIN of = 1..(n + 1) /\ Len(of) = n + 1 /\ \A i \in 1..(n + 1) : of[i] \in S
  OBVIOUS
<1>2. hop \in [1..n -> [S -> S]]
  <2>1. ASSUME NEW i \in 1..n, NEW r \in S PROVE Merge(r, of[i + 1]) \in S
    <3>1. r \in Rows /\ of[i + 1] \in Rows /\ Key(r) = k
      BY <1>1
    <3>. QED BY <3>1, MergeType
  <2>. HIDE DEF S, n
  <2>. QED BY <2>1
<1>3. PICK g \in [0..n -> S] : g[0] = of[1] /\ \A i \in 1..n : g[i] = hop[i][g[i - 1]]
  <2>. DEFINE base == of[1]
  <2>1. base \in S
    BY <1>1
  <2>. HIDE DEF base, n, S, hop
  <2>2. Recursions(n, S, base, hop) # {}
    BY <1>1, <1>2, <2>1, RecursionExists
  <2>. QED BY <2>2 DEF Recursions, base
<1>. HIDE DEF n
<1>4. Is([i \in DOMAIN of |-> g[i - 1]])
  <2>. DEFINE h == [i \in 1..(n + 1) |-> g[i - 1]]
  <2>1. ASSUME NEW i \in 1..(n + 1) PROVE h[i] = IF i = 1 THEN of[1] ELSE Merge(h[i - 1], of[i])
    <3>1. CASE i = 1
      BY <1>1, <1>3, <3>1
    <3>2. CASE i # 1
      <4>1. i - 1 \in 1..n /\ (i - 1) - 1 \in 0..n /\ (i - 1) + 1 = i
        BY <1>1, <3>2
      <4>2. g[(i - 1) - 1] \in S
        <5>. HIDE DEF S
        <5>. QED BY <1>3, <4>1
      <4>3. h[i] = g[i - 1] /\ h[i - 1] = g[(i - 1) - 1]
        BY <1>1, <4>1
      <4>4. g[i - 1] = hop[i - 1][g[(i - 1) - 1]]
        <5>. HIDE DEF hop, S
        <5>. QED BY <1>3, <4>1
      <4>5. hop[i - 1][g[(i - 1) - 1]] = Merge(g[(i - 1) - 1], of[i])
        <5>. HIDE DEF S
        <5>. QED BY <4>1, <4>2
      <4>. HIDE DEF h, hop
      <4>. QED BY <3>2, <4>3, <4>4, <4>5
    <3>. QED BY <3>1, <3>2
  <2>2. DOMAIN of = 1..(n + 1)
    BY <1>1
  <2>3. h = [i \in 1..(n + 1) |-> IF i = 1 THEN of[1] ELSE Merge(h[i - 1], of[i])]
    BY <2>1
  <2>. QED BY <2>2, <2>3
<1>5. Is(c)
  <2>. HIDE DEF Is
  <2>. QED BY <1>4
<1>6. MergedRow(of) = c[n + 1]
  BY <1>1 DEF MergedRow
<1>. HIDE DEF c
<1>7. \A i \in 1..(n + 1) : c[i] = IF i = 1 THEN of[1] ELSE Merge(c[i - 1], of[i])
  BY <1>1, <1>5
<1>. HIDE DEF Is
<1>. DEFINE K == {j \in Nat : j <= n => c[j + 1] \in S}
<1>8. 0 \in K
  BY <1>1, <1>7
<1>9. ASSUME NEW j \in Nat, j \in K PROVE j + 1 \in K
  <2>1. SUFFICES ASSUME j + 1 <= n PROVE c[(j + 1) + 1] \in S
    OBVIOUS
  <2>2. c[j + 1] \in S
    BY <1>1, <1>9, <2>1
  <2>3. (j + 1) + 1 \in 1..(n + 1) /\ (j + 1) + 1 # 1 /\ ((j + 1) + 1) - 1 = j + 1
    BY <1>1, <2>1
  <2>4. c[(j + 1) + 1] = Merge(c[j + 1], of[(j + 1) + 1])
    BY <1>7, <2>3
  <2>5. of[(j + 1) + 1] \in S
    BY <1>1, <2>3
  <2>. QED BY <2>2, <2>4, <2>5, MergeType
<1>10. Nat \subseteq K
  <2>. HIDE DEF K
  <2>. QED BY <1>8, <1>9, SetInduction
<1>11. c[n + 1] \in S
  BY <1>1, <1>10
<1>. QED BY <1>6, <1>11

\* Rows have finitely many instruments.
LEMMA KeysFinite ==
  ASSUME NEW rs \in Seq(Rows)
  PROVE  IsFiniteSet(Keys(rs)) /\ Cardinality(Keys(rs)) \in Nat
<1>. DEFINE f == [i \in DOMAIN rs |-> Key(rs[i])]
<1>1. Keys(rs) \in SUBSET {f[i] : i \in DOMAIN rs}
  BY DEF Keys
<1>. HIDE DEF f
<1>2. IsFiniteSet(Keys(rs))
  BY <1>1, ImageFinite
<1>. QED BY <1>2, FS_CardinalityType

\* A merge has one row for each of the keys.
LEMMA MergedIs ==
  ASSUME NEW rs \in Seq(Rows), NEW keys \in SUBSET Keys(rs)
  PROVE  /\ Merged(rs, keys) \in Seq(Rows)
         /\ Keys(Merged(rs, keys)) = keys
         /\ OnceEach(Merged(rs, keys))
<1>. DEFINE Of(k) == MergedRow(OfKey(rs, k))
            S == {Of(k) : k \in keys}
            f == [k \in keys |-> Of(k)]
            t == SortSet(S, RowLess)
<1>1. ASSUME NEW k \in keys PROVE Of(k) \in Rows /\ Key(Of(k)) = k
  <2>1. /\ OfKey(rs, k) \in Seq(Rows) /\ OfKey(rs, k) # <<>>
        /\ \A m \in DOMAIN OfKey(rs, k) : Key(OfKey(rs, k)[m]) = k
    BY OfKeyIs
  <2>. QED BY <2>1, MergedRowIs
<1>2. IsFiniteSet(keys)
  BY KeysFinite, FS_Subset
<1>. HIDE DEF Of
<1>3. IsFiniteSet(S) /\ Cardinality(S) = Cardinality(keys)
  <2>1. f \in Bijection(keys, S)
    <3>1. f \in [keys -> S] /\ \A x \in S : \E k \in keys : f[k] = x
      OBVIOUS
    <3>2. ASSUME NEW a \in keys, NEW b \in keys, f[a] = f[b] PROVE a = b
      <4>1. Of(a) = Of(b)
        BY <3>2
      <4>. QED BY <1>1, <4>1
    <3>. HIDE DEF f, S
    <3>3. f \in Injection(keys, S)
      BY <3>1, <3>2 DEF Injection, IsInjective
    <3>4. f \in Surjection(keys, S)
      BY <3>1 DEF Surjection
    <3>. QED BY <3>3, <3>4 DEF Bijection
  <2>2. ExistsBijection(keys, S)
    BY <2>1 DEF ExistsBijection
  <2>. HIDE DEF S
  <2>. QED BY <1>2, <2>2, FS_Bijection
<1>4. S \in SUBSET Rows
  BY <1>1
<1>5. /\ t \in Seq(S) /\ t \in Seq(Rows) /\ Len(t) = Cardinality(S)
      /\ \A x \in S : \E i \in DOMAIN t : t[i] = x
  <2>. HIDE DEF S
  <2>. QED BY <1>3, <1>4, SortSetIs
<1>6. Merged(rs, keys) = t
  BY DEF Merged, Of
<1>. HIDE DEF t
<1>7. Keys(t) = keys
  <2>1. ASSUME NEW i \in DOMAIN t PROVE Key(t[i]) \in keys
    <3>1. t[i] \in S
      <4>. HIDE DEF S
      <4>. QED BY <1>5
    <3>. QED BY <1>1, <3>1
  <2>2. ASSUME NEW k \in keys PROVE \E i \in DOMAIN t : Key(t[i]) = k
    <3>1. PICK i \in DOMAIN t : t[i] = Of(k)
      BY <1>5
    <3>. QED BY <1>1, <3>1
  <2>. QED BY <2>1, <2>2 DEF Keys
<1>8. OnceEach(t)
  BY <1>3, <1>5, <1>7 DEF OnceEach
<1>. QED BY <1>5, <1>6, <1>7, <1>8

-----------------------------------------------------------------------------
(* What a step makes are rows                                              *)

\* Every source makes rows.
LEMMA SourceType ==
  ASSUME NEW s, TypedStep(s), s.id \in SelectorsOf.source, NEW known \in Seq(Rows), NEW day, NEW from
  PROVE  Source(s, known, day, from) \subseteq Seq(Rows)
<1>1. CASE s.id = "source.symbols"
  <2>. DEFINE list == s.symbols
              f == [i \in DOMAIN list |-> Row(list[i], s.type, 0, Missing, {})]
  <2>1. list \in Seq(Int) /\ s.type \in Int
    BY <1>1 DEF TypedStep
  <2>2. f \in [DOMAIN list -> Rows]
    <3>. HIDE DEF list
    <3>1. \A i \in DOMAIN list : list[i] \in Int
      BY <2>1
    <3>. QED BY <2>1, <3>1 DEF Row, Rows, Missing
  <2>3. Source(s, known, day, from) \subseteq {f}
    BY <1>1 DEF Source
  <2>. HIDE DEF list, f
  <2>4. f \in Seq(Rows)
    BY <2>1, <2>2, EachType
  <2>. QED BY <2>3, <2>4
<1>2. CASE s.id = "source.rows"
  BY <1>2 DEF TypedStep, Source
<1>3. CASE s.id = "source.daily_bars"
  <2>1. DailyBars(s, known, day, from) \in Seq(Rows)
    BY DailyBarsType
  <2>. QED BY <1>3, <2>1 DEF Source
<1>4. CASE s.id = "source.instrument_master"
  <2>. DEFINE L == Latest(ClosedBars(known, day))
              S == {[r EXCEPT !.tags = {}] : r \in L}
              f == [r \in L |-> [r EXCEPT !.tags = {}]]
  <2>1. L \in SUBSET Rows /\ IsFiniteSet(L)
    BY ClosedBarsType, LatestType
  <2>. HIDE DEF L
  <2>2. IsFiniteSet(S)
    <3>1. f \in Surjection(L, S)
      BY DEF Surjection
    <3>. HIDE DEF S, f
    <3>. QED BY <2>1, <3>1, FS_Surjection
  <2>3. S \subseteq Rows
    <3>1. ASSUME NEW r \in L PROVE [r EXCEPT !.tags = {}] \in Rows
      <4>1. r \in Rows /\ {} \in SUBSET Tags
        BY <2>1
      <4>. QED BY <4>1, ChangedType
    <3>. QED BY <3>1
  <2>4. Source(s, known, day, from) = SetToSeqs(S)
    BY <1>4 DEF Source, L
  <2>. HIDE DEF S
  <2>5. ASSUME NEW t \in SetToSeqs(S) PROVE t \in Seq(Rows)
    <3>1. t \in Seq(S)
      BY <2>2, SetToSeqsAre
    <3>. QED BY <2>3, <3>1, SeqMonotonic
  <2>. QED BY <2>4, <2>5
<1>. QED BY <1>1, <1>2, <1>3, <1>4 DEF SelectorsOf

\* Every step that combines nothing makes rows.
LEMMA BasicType ==
  ASSUME NEW s, TypedStep(s), s.id \in Selectors, s.id \notin SelectorsOf.combine,
         NEW rs \in Seq(Rows), NEW known \in Seq(Rows), NEW day, NEW from
  PROVE  Basic(s, rs, known, day, from) \subseteq Seq(Rows)
<1>. DEFINE B == Basic(s, rs, known, day, from)
<1>1. CASE s.id \in SelectorsOf.source
  <2>1. B = Source(s, known, day, from)
    BY <1>1 DEF Basic, SelectorsOf, Filters
  <2>. QED BY <1>1, <2>1, SourceType
<1>2. CASE s.id \in SelectorsOf.transform
  <2>1. B = Transform(s, rs)
    BY <1>2 DEF Basic, SelectorsOf, Filters
  <2>. QED BY <1>2, <2>1, TransformType
<1>3. CASE s.id \in SelectorsOf.filter
  <2>1. B = {Kept(s, rs, known, day)}
    BY <1>3 DEF Basic, SelectorsOf, Filters
  <2>2. Kept(s, rs, known, day) \in Seq(Rows)
    BY PickedType DEF Kept
  <2>. QED BY <2>1, <2>2
<1>4. CASE s.id \in SelectorsOf.rank
  <2>1. B = Ranked(s, rs)
    BY <1>4 DEF Basic, SelectorsOf, Filters
  <2>. QED BY <1>4, <2>1, RankedType
<1>5. CASE s.id \in SelectorsOf.limit
  <2>1. B = Limited(s, rs)
    BY <1>5 DEF Basic, SelectorsOf, Filters
  <2>. QED BY <1>5, <2>1, LimitedType
<1>6. CASE s.id \in SelectorsOf.debug
  <2>1. B = Debugged(s, rs)
    BY <1>6 DEF Basic, SelectorsOf, Filters
  <2>. QED BY <1>6, <2>1, DebuggedType
<1>. HIDE DEF B
<1>7. DOMAIN SelectorsOf = {"source", "transform", "filter", "rank", "limit", "combine", "debug"}
  BY DEF SelectorsOf
<1>. QED BY <1>1, <1>2, <1>3, <1>4, <1>5, <1>6, <1>7 DEF Selectors, B

-----------------------------------------------------------------------------
(* Pipelines                                                               *)

\* The rows after n steps, and after all of them.
Steps(n, pipeline, known, day, from) ==
  After(n, pipeline, LAMBDA s, rs : Outcomes(s, rs, known, day, from))

Made(pipeline, known, day, from) == {Settled(pipeline, rs) : rs \in Steps(Len(pipeline), pipeline, known, day, from)}

SafeStep(s, known, day, from) ==
  \A rs \in Seq(Rows) : Outcomes(s, rs, known, day, from) \subseteq Seq(Rows)

Trails(N, pipeline, known, day, from) ==
  {g \in [0..N -> SUBSET Seq(Rows)] :
     /\ g[0] = {<<>>}
     /\ \A n \in 1..N : g[n] = UNION {Outcomes(pipeline[n], rs, known, day, from) : rs \in g[n - 1]}}

\* The recursion of a pipeline is one over its steps.
LEMMA TrailExists ==
  ASSUME NEW pipeline, NEW N \in Nat, NEW known, NEW day, NEW from,
         \A i \in 1..N : SafeStep(pipeline[i], known, day, from)
  PROVE  Trails(N, pipeline, known, day, from) # {}
<1>. DEFINE S == SUBSET Seq(Rows)
            Hop(i, A) == UNION {Outcomes(pipeline[i], rs, known, day, from) : rs \in A}
            hop == [i \in 1..N |-> [A \in S |-> Hop(i, A)]]
            base == {<<>>}
<1>1. hop \in [1..N -> [S -> S]]
  <2>1. ASSUME NEW i \in 1..N, NEW A \in S PROVE Hop(i, A) \in S
    BY DEF SafeStep
  <2>. HIDE DEF Hop, S
  <2>. QED BY <2>1
<1>2. base \in S
  OBVIOUS
<1>3. PICK g \in [0..N -> S] : g[0] = base /\ \A n \in 1..N : g[n] = hop[n][g[n - 1]]
  <2>. HIDE DEF hop, S, base
  <2>1. Recursions(N, S, base, hop) # {}
    BY <1>1, <1>2, RecursionExists
  <2>. QED BY <2>1 DEF Recursions
<1>4. ASSUME NEW n \in 1..N PROVE g[n] = Hop(n, g[n - 1])
  <2>. HIDE DEF Hop, S
  <2>1. g[n - 1] \in S
    BY <1>3
  <2>. QED BY <1>3, <2>1
<1>. QED BY <1>3, <1>4 DEF Trails

\* What the recursion over the steps of a pipeline is, step by step.
LEMMA StepsAre ==
  ASSUME NEW pipeline, NEW N \in Nat, NEW known, NEW day, NEW from,
         \A i \in 1..N : SafeStep(pipeline[i], known, day, from)
  PROVE  /\ Steps(0, pipeline, known, day, from) = {<<>>}
         /\ \A n \in 1..N :
              Steps(n, pipeline, known, day, from) =
                UNION {Outcomes(pipeline[n], rs, known, day, from) : rs \in Steps(n - 1, pipeline, known, day, from)}
         /\ \A n \in 0..N : Steps(n, pipeline, known, day, from) \subseteq Seq(Rows)
<1>. DEFINE Hop(i, A) == UNION {Outcomes(pipeline[i], rs, known, day, from) : rs \in A}
            St(n) == Steps(n, pipeline, known, day, from)
            Is(n, f) == f = [i \in 0..n |-> IF i = 0 THEN {<<>>} ELSE Hop(i, f[i - 1])]
            c(n) == CHOOSE f : Is(n, f)
<1>1. PICK g \in [0..N -> SUBSET Seq(Rows)] : g[0] = {<<>>} /\ \A n \in 1..N : g[n] = Hop(n, g[n - 1])
  <2>1. Trails(N, pipeline, known, day, from) # {}
    BY TrailExists
  <2>. QED BY <2>1 DEF Trails
<1>2. \A n : St(n) = c(n)[n]
  BY DEF Steps, After
<1>. HIDE DEF Hop
<1>3. ASSUME NEW n \in 0..N PROVE St(n) = g[n]
  <2>. DEFINE h == [i \in 0..n |-> g[i]]
              f == c(n)
  <2>1. Is(n, h)
    <3>1. ASSUME NEW i \in 0..n PROVE h[i] = IF i = 0 THEN {<<>>} ELSE Hop(i, h[i - 1])
      <4>1. CASE i = 0
        BY <1>1, <4>1
      <4>2. CASE i # 0
        <5>1. i \in 1..N /\ h[i - 1] = g[i - 1] /\ h[i] = g[i]
          BY <4>2
        <5>. HIDE DEF h
        <5>. QED BY <1>1, <4>2, <5>1
      <4>. QED BY <4>1, <4>2
    <3>. QED BY <3>1
  <2>2. Is(n, f)
    <3>. HIDE DEF Is, h
    <3>. QED BY <2>1
  <2>. HIDE DEF f
  <2>3. \A i \in 0..n : f[i] = IF i = 0 THEN {<<>>} ELSE Hop(i, f[i - 1])
    BY <2>2
  <2>. HIDE DEF Is
  <2>. DEFINE K == {k \in Nat : k <= n => f[k] = g[k]}
  <2>4. 0 \in K
    <3>1. 0 \in 0..n
      OBVIOUS
    <3>2. f[0] = {<<>>}
      BY <2>3, <3>1
    <3>. QED BY <1>1, <3>2
  <2>5. ASSUME NEW k \in Nat, k \in K PROVE k + 1 \in K
    <3>1. SUFFICES ASSUME k + 1 <= n PROVE f[k + 1] = g[k + 1]
      OBVIOUS
    <3>2. f[k] = g[k] /\ k + 1 \in 0..n /\ k + 1 \in 1..N /\ (k + 1) - 1 = k /\ k + 1 # 0
      BY <2>5, <3>1
    <3>3. f[k + 1] = Hop(k + 1, f[k])
      <4>. HIDE DEF K
      <4>. QED BY <2>3, <3>2
    <3>4. g[k + 1] = Hop(k + 1, g[k])
      BY <1>1, <3>2
    <3>. QED BY <3>2, <3>3, <3>4
  <2>6. Nat \subseteq K
    <3>. HIDE DEF K
    <3>. QED BY <2>4, <2>5, SetInduction
  <2>7. f[n] = g[n]
    BY <2>6
  <2>. QED BY <1>2, <2>7 DEF f
<1>. HIDE DEF St, c
<1>4. St(0) = {<<>>}
  BY <1>1, <1>3
<1>5. ASSUME NEW n \in 1..N PROVE St(n) = Hop(n, St(n - 1))
  <2>1. n \in 0..N /\ n - 1 \in 0..N
    OBVIOUS
  <2>. QED BY <1>1, <1>3, <2>1
<1>6. \A n \in 0..N : St(n) \subseteq Seq(Rows)
  BY <1>1, <1>3
<1>. QED BY <1>4, <1>5, <1>6 DEF Hop, St

\* A pipeline that is sorted at its end leaves rows.
LEMMA SettledType ==
  ASSUME NEW pipeline, NEW rs \in Seq(Rows)
  PROVE  Settled(pipeline, rs) \in Seq(Rows)
BY SortRowsType DEF Settled

\* A pipeline of safe steps makes rows.
LEMMA MadeType ==
  ASSUME NEW pipeline, Len(pipeline) \in Nat, NEW known, NEW day, NEW from,
         \A i \in 1..Len(pipeline) : SafeStep(pipeline[i], known, day, from)
  PROVE  Made(pipeline, known, day, from) \subseteq Seq(Rows)
<1>. DEFINE N == Len(pipeline)
            A == Steps(N, pipeline, known, day, from)
<1>1. A \subseteq Seq(Rows)
  <2>1. N \in Nat /\ \A i \in 1..N : SafeStep(pipeline[i], known, day, from)
    OBVIOUS
  <2>2. N \in 0..N
    OBVIOUS
  <2>. HIDE DEF N
  <2>. QED BY <2>1, <2>2, StepsAre
<1>2. Made(pipeline, known, day, from) = {Settled(pipeline, rs) : rs \in A}
  BY DEF Made
<1>. HIDE DEF A
<1>. QED BY <1>1, <1>2, SettledType

\* A step that combines nothing does what it does by itself.
LEMMA BasicIsOutcome ==
  ASSUME NEW s, s.id \notin SelectorsOf.combine
  PROVE  \A rs, known, day, from : Outcomes(s, rs, known, day, from) = Basic(s, rs, known, day, from)
BY DEF Outcomes, SelectorsOf

\* Two ways to say it: of a pipeline within a combine step, that has none.
LEMMA SubResultsAre ==
  ASSUME NEW pipeline, IsList(pipeline), \A r \in Range(pipeline) : r.id \notin SelectorsOf.combine,
         NEW known, NEW day, NEW from
  PROVE  SubResults(pipeline, known, day, from) = Made(pipeline, known, day, from)
<1>. DEFINE n == Len(pipeline)
            B(i, A) == UNION {Basic(pipeline[i], rs, known, day, from) : rs \in A}
            O(i, A) == UNION {Outcomes(pipeline[i], rs, known, day, from) : rs \in A}
            b == CHOOSE f : f = [i \in 0..n |-> IF i = 0 THEN {<<>>} ELSE B(i, f[i - 1])]
            o == CHOOSE f : f = [i \in 0..n |-> IF i = 0 THEN {<<>>} ELSE O(i, f[i - 1])]
<1>1. ASSUME NEW i \in 1..n, NEW A PROVE B(i, A) = O(i, A)
  <2>1. pipeline[i] \in Range(pipeline)
    BY RangeIs DEF IsList
  <2>. QED BY <2>1, BasicIsOutcome
<1>2. b = o
  <2>. HIDE DEF B, O
  <2>1. n \in Nat
    BY DEF IsList
  <2>. HIDE DEF n
  <2>2. \A f : [i \in 0..n |-> IF i = 0 THEN {<<>>} ELSE B(i, f[i - 1])]
              = [i \in 0..n |-> IF i = 0 THEN {<<>>} ELSE O(i, f[i - 1])]
    BY <1>1, <2>1
  <2>. QED BY <2>2
<1>3. SubResults(pipeline, known, day, from) = {Settled(pipeline, rs) : rs \in b[n]}
  BY DEF SubResults, Through, After
<1>4. Made(pipeline, known, day, from) = {Settled(pipeline, rs) : rs \in o[n]}
  BY DEF Made, Steps, After
<1>. HIDE DEF b, o
<1>. QED BY <1>2, <1>3, <1>4

\* A step as the assumption on plans and the validation leave it.
FlatPipeline(pipeline) ==
  TypedPipeline(pipeline) /\ \A r \in Range(pipeline) : r.id \in Selectors \ SelectorsOf.combine

FitStep(s) ==
  /\ TypedStep(s) /\ s.id \in Selectors
  /\ s.id \in SelectorsOf.combine => IsList(s.pipelines) /\ \A sub \in Range(s.pipelines) : FlatPipeline(sub)

\* The steps of a plan that compiles are fit.
LEMMA FitPlan ==
  ASSUME NEW p \in Plans, Compilable(p)
  PROVE  IsList(p.pipeline) /\ \A s \in Range(p.pipeline) : FitStep(s)
<1>1. /\ \A pl \in PipelinesOf(p) : TypedPipeline(pl)
      /\ \A s \in Range(p.pipeline) :
         /\ IsList(SubPipelines(s)) /\ (s.id \in SelectorsOf.combine => "pipelines" \in DOMAIN s)
         /\ \A sub \in Range(SubPipelines(s)) : \A r \in Range(sub) : r.id \notin SelectorsOf.combine
  BY PlanAssumption
<1>2. p.pipeline \in PipelinesOf(p) /\ \A s \in Range(p.pipeline) : \A sub \in Range(SubPipelines(s)) : sub \in PipelinesOf(p)
  BY DEF PipelinesOf
<1>3. \A pl : ValidPipeline(pl) => \A r \in Range(pl) : r.id \in Selectors
  BY RangeIs DEF ValidPipeline, ValidStep
<1>4. ValidPipeline(p.pipeline) /\ \A s \in Range(p.pipeline) : \A sub \in Range(SubPipelines(s)) : ValidPipeline(sub)
  BY DEF Compilable
<1>5. IsList(p.pipeline) /\ \A s \in Range(p.pipeline) : TypedStep(s) /\ s.id \in Selectors
  BY <1>1, <1>2, <1>3, <1>4 DEF TypedPipeline
<1>6. ASSUME NEW s \in Range(p.pipeline), s.id \in SelectorsOf.combine
      PROVE  IsList(s.pipelines) /\ \A sub \in Range(s.pipelines) : FlatPipeline(sub)
  <2>1. SubPipelines(s) = s.pipelines
    BY <1>1, <1>6 DEF SubPipelines
  <2>2. IsList(s.pipelines)
    BY <1>1, <2>1
  <2>3. ASSUME NEW sub \in Range(s.pipelines) PROVE FlatPipeline(sub)
    <3>1. sub \in Range(SubPipelines(s))
      BY <2>1
    <3>. QED BY <1>1, <1>2, <1>3, <1>4, <3>1 DEF FlatPipeline
  <2>. QED BY <2>2, <2>3
<1>. QED BY <1>5, <1>6 DEF FitStep

\* The steps of a pipeline without combine steps are safe.
LEMMA FlatSafe ==
  ASSUME NEW pipeline, FlatPipeline(pipeline), NEW known \in Seq(Rows), NEW day, NEW from
  PROVE  /\ IsList(pipeline) /\ Len(pipeline) \in Nat
         /\ \A i \in 1..Len(pipeline) : SafeStep(pipeline[i], known, day, from)
<1>1. IsList(pipeline) /\ Len(pipeline) \in Nat /\ DOMAIN pipeline = 1..Len(pipeline)
  BY DEF FlatPipeline, TypedPipeline, IsList
<1>2. ASSUME NEW i \in 1..Len(pipeline) PROVE SafeStep(pipeline[i], known, day, from)
  <2>1. pipeline[i] \in Range(pipeline)
    BY <1>1, RangeIs
  <2>2. TypedStep(pipeline[i]) /\ pipeline[i].id \in Selectors /\ pipeline[i].id \notin SelectorsOf.combine
    BY <2>1 DEF FlatPipeline, TypedPipeline
  <2>. QED BY <2>2, BasicType, BasicIsOutcome DEF SafeStep
<1>. QED BY <1>1, <1>2

\* The parts that a combine step combines are lists of rows, one for each of its pipelines.
LEMMA PartsType ==
  ASSUME NEW s, IsList(s.pipelines), \A sub \in Range(s.pipelines) : FlatPipeline(sub),
         NEW known \in Seq(Rows), NEW day, NEW from, NEW p \in Parts(s, known, day, from)
  PROVE  p \in Seq(Seq(Rows)) /\ Len(p) = Len(s.pipelines) /\ DOMAIN p = DOMAIN s.pipelines
<1>. DEFINE ps == s.pipelines
<1>1. DOMAIN p = DOMAIN ps /\ \A i \in DOMAIN ps : p[i] \in SubResults(ps[i], known, day, from)
  BY DEF Parts
<1>2. p = [i \in DOMAIN ps |-> p[i]]
  BY DEF Parts
<1>3. ASSUME NEW i \in DOMAIN ps PROVE p[i] \in Seq(Rows)
  <2>1. ps[i] \in Range(ps)
    BY RangeIs
  <2>2. FlatPipeline(ps[i])
    BY <2>1
  <2>3. IsList(ps[i]) /\ Made(ps[i], known, day, from) \subseteq Seq(Rows)
    BY <2>2, FlatSafe, MadeType
  <2>4. SubResults(ps[i], known, day, from) = Made(ps[i], known, day, from)
    BY <2>2, <2>3, SubResultsAre DEF FlatPipeline
  <2>. QED BY <1>1, <2>3, <2>4
<1>. DEFINE Y == Seq(Rows)
            R == Range(ps)
<1>4. ps \in Seq(R)
  BY DEF IsList
<1>. HIDE DEF ps, R
<1>5. p \in [DOMAIN ps -> Y]
  BY <1>2, <1>3
<1>. HIDE DEF Y
<1>6. p \in Seq(Y) /\ Len(p) = Len(ps) /\ DOMAIN p = DOMAIN ps
  BY <1>4, <1>5, EachType
<1>. QED BY <1>6 DEF Y, ps

\* A fit step is safe: it makes rows of rows.
LEMMA OutcomesType ==
  ASSUME NEW s, FitStep(s), NEW known \in Seq(Rows), NEW day, NEW from
  PROVE  SafeStep(s, known, day, from)
<1>1. CASE s.id \notin SelectorsOf.combine
  BY <1>1, BasicType, BasicIsOutcome DEF SafeStep, FitStep
<1>2. CASE s.id \in SelectorsOf.combine
  <2>. DEFINE P == Parts(s, known, day, from)
  <2>1. ASSUME NEW p \in P
        PROVE  /\ p \in Seq(Seq(Rows)) /\ Len(p) = Len(s.pipelines) /\ DOMAIN p = DOMAIN s.pipelines
               /\ FlattenSeq(p) \in Seq(Rows)
    <3>1. p \in Seq(Seq(Rows)) /\ Len(p) = Len(s.pipelines) /\ DOMAIN p = DOMAIN s.pipelines
      BY <1>2, PartsType DEF FitStep
    <3>. QED BY <3>1, FlattenType
  <2>2. ASSUME NEW p \in P PROVE CombineUnion(p) \in Seq(Rows) /\ CombineIntersect(p) \in Seq(Rows)
    <3>. DEFINE all == FlattenSeq(p)
    <3>1. all \in Seq(Rows)
      BY <2>1
    <3>2. /\ CombineUnion(p) = Merged(all, Keys(all))
          /\ CombineIntersect(p) = Merged(all, {k \in Keys(all) : Len(OfKey(all, k)) = Len(p)})
      BY DEF CombineUnion, CombineIntersect
    <3>. HIDE DEF all
    <3>3. \A keys \in SUBSET Keys(all) : Merged(all, keys) \in Seq(Rows)
      BY <3>1, MergedIs
    <3>. QED BY <3>2, <3>3
  <2>3. ASSUME NEW p \in P, s.pipelines # <<>> PROVE CombineDifference(p) \in Seq(Rows)
    <3>1. 1 \in DOMAIN s.pipelines
      BY <1>2, <2>3 DEF FitStep, IsList
    <3>2. p[1] \in Seq(Rows)
      <4>. DEFINE Y == Seq(Rows)
      <4>1. p \in Seq(Y) /\ 1 \in DOMAIN p
        BY <2>1, <3>1
      <4>. HIDE DEF Y
      <4>2. p[1] \in Y
        BY <4>1
      <4>. QED BY <4>2 DEF Y
    <3>. QED BY <3>2, PickedType DEF CombineDifference
  <2>. HIDE DEF P
  <2>4. \A rs : Outcomes(s, rs, known, day, from) \subseteq
                  {CombineUnion(p) : p \in P} \cup {CombineIntersect(p) : p \in P} \cup {FlattenSeq(p) : p \in P}
                    \cup (IF s.pipelines = <<>> THEN {} ELSE {CombineDifference(p) : p \in P})
    BY <1>2 DEF Outcomes, SelectorsOf, P
  <2>. QED BY <2>1, <2>2, <2>3, <2>4 DEF SafeStep
<1>. QED BY <1>1, <1>2

\* A compiled plan makes rows.
LEMMA PlanSafe ==
  ASSUME NEW p \in Plans, Compilable(p), NEW known \in Seq(Rows), NEW day
  PROVE  /\ Len(p.pipeline) \in Nat /\ DOMAIN p.pipeline = 1..Len(p.pipeline)
         /\ \A i \in 1..Len(p.pipeline) :
              FitStep(p.pipeline[i]) /\ SafeStep(p.pipeline[i], known, day, p.from)
<1>. DEFINE pl == p.pipeline
<1>1. IsList(pl) /\ \A s \in Range(pl) : FitStep(s)
  BY FitPlan
<1>2. Len(pl) \in Nat /\ DOMAIN pl = 1..Len(pl)
  BY <1>1 DEF IsList
<1>3. ASSUME NEW i \in 1..Len(pl) PROVE FitStep(pl[i]) /\ SafeStep(pl[i], known, day, p.from)
  <2>1. pl[i] \in Range(pl)
    BY <1>2, RangeIs
  <2>. QED BY <1>1, <2>1, OutcomesType
<1>. QED BY <1>2, <1>3

\* A selection is what the pipeline makes.
LEMMA SelectionsAre ==
  ASSUME NEW p, NEW known, NEW day
  PROVE  Selections(p, known, day) = Made(p.pipeline, known, day, p.from)
BY DEF Selections, Through, Made, Steps

-----------------------------------------------------------------------------
(* The inductive invariant                                                 *)

\* Whatever a run has selected from.
Known ==
  snapshots # <<>> \/ status \in {"running", "done"} =>
    Compilable(plan) /\ data = Loaded(plan, bars)

Started ==
  /\ status \in {"given", "compiled"} => step = 1 /\ rows = <<>> /\ snapshots = <<>>
  /\ status = "compiled" => Compilable(plan)

\* The dates of the snapshots taken.
Taken == [i \in DOMAIN snapshots |-> snapshots[i].day]

\* The dates selected for and those to come.
Scheduled ==
  /\ status \in {"running", "done"} => Taken \o todo = SelectionDates(plan) /\ SelectionDates(plan) # <<>>
  /\ status = "done" => todo = <<>>

\* The rows are what the steps taken for this date may have made.
Reached ==
  status = "running" =>
    IF todo = <<>> THEN step = 1 /\ rows = <<>>
    ELSE /\ step \in 1..(Len(plan.pipeline) + 1)
         /\ rows \in Steps(step - 1, plan.pipeline, data, Head(todo), plan.from)

Selected ==
  \A i \in DOMAIN snapshots : snapshots[i].rows \in Selections(plan, data, snapshots[i].day)

IInv == TypeOK /\ Known /\ Started /\ Scheduled /\ Reached /\ Selected

\* A daily schedule is every day, in order.
LEMMA DailyDatesType ==
  ASSUME NEW from \in Int, NEW to \in Int, from <= to
  PROVE  /\ DailyDates(from, to) \in Seq(Int)
         /\ Len(DailyDates(from, to)) = to - from + 1 /\ DOMAIN DailyDates(from, to) = 1..(to - from + 1)
         /\ \A i \in 1..(to - from + 1) : DailyDates(from, to)[i] = from + i - 1
<1>. DEFINE n == to - from + 1
            t == DailyDates(from, to)
<1>1. n \in Nat /\ t \in [1..n -> Int] /\ \A i \in 1..n : t[i] = from + i - 1
  BY DEF DailyDates
<1>. HIDE DEF t
<1>2. t \in Seq(Int) /\ Len(t) = n /\ DOMAIN t = 1..n
  BY <1>1, ListOf
<1>. QED BY <1>1, <1>2 DEF t

\* The first date of a plan.
FirstDate(p) == IF p.from = 0 THEN p.window ELSE p.from

\* The dates of a plan are numbers.
LEMMA PlanDates ==
  ASSUME NEW p \in Plans
  PROVE  FirstDate(p) \in Int /\ p.to \in Int /\ p.dates \in Seq(Int) /\ p.from \in Int
BY UniverseAssumption, PlanAssumption DEF FirstDate, Days

\* So are the dates of its selections.
LEMMA SelectionDatesType ==
  ASSUME NEW p \in Plans, Compilable(p)
  PROVE  SelectionDates(p) \in Seq(Int)
<1>. DEFINE from == FirstDate(p)
<1>1. from \in Int /\ p.to \in Int /\ p.dates \in Seq(Int)
  BY PlanDates
<1>2. p.schedule \in {"once", "daily", "weekly", "monthly", "custom_calendar"}
  BY DEF Compilable
<1>3. SelectionDates(p) =
        IF p.to < from THEN <<>>
        ELSE CASE p.schedule = "once"    -> <<from>>
               [] p.schedule = "daily"   -> DailyDates(from, p.to)
               [] p.schedule = "weekly"  -> FirstOf(WeekOf, from, p.to)
               [] p.schedule = "monthly" -> FirstOf(MonthOf, from, p.to)
               [] p.schedule = "custom_calendar" -> CustomDates(p.dates, from, p.to)
  BY DEF SelectionDates, FirstDate
<1>. HIDE DEF from
<1>4. CASE p.to < from
  BY <1>3, <1>4
<1>5. CASE ~(p.to < from)
  <2>1. DailyDates(from, p.to) \in Seq(Int)
    <3>1. from \in Int /\ p.to \in Int /\ from <= p.to
      BY <1>1, <1>5
    <3>. QED BY <3>1, DailyDatesType
  <2>2. \A period : FirstOf(period, from, p.to) \in Seq(Int)
    BY <2>1, PickedType DEF FirstOf
  <2>3. CustomDates(p.dates, from, p.to) \in Seq(Int)
    BY <1>1, PickedType DEF CustomDates
  <2>4. <<from>> \in Seq(Int)
    BY <1>1
  <2>. QED BY <1>2, <1>3, <1>5, <2>1, <2>2, <2>3, <2>4
<1>. QED BY <1>4, <1>5

\* The days of the snapshots are a list of numbers.
LEMMA TakenType ==
  ASSUME TypeOK
  PROVE  Taken \in Seq(Int) /\ Len(Taken) = Len(snapshots) /\ DOMAIN Taken = DOMAIN snapshots
<1>. DEFINE M == [day : Int, rows : Seq(Rows)]
<1>1. snapshots \in Seq(M) /\ \A x \in M : x.day \in Int
  BY DEF TypeOK
<1>. HIDE DEF M
<1>2. Taken \in [DOMAIN snapshots -> Int]
  BY <1>1 DEF Taken
<1>. QED BY <1>1, <1>2, EachType

\* The head of a list moves over to the end of another.
LEMMA MovesOver ==
  ASSUME NEW X, NEW s \in Seq(X), NEW t \in Seq(X), t # <<>>
  PROVE  Append(s, Head(t)) \o Tail(t) = s \o t
<1>. DEFINE h == <<Head(t)>>
            r == Tail(t)
<1>1. Head(t) \in X /\ h \in Seq(X) /\ r \in Seq(X) /\ t = h \o r
  OBVIOUS
<1>2. Append(s, Head(t)) = s \o h
  BY <1>1, AppendIsConcat
<1>. HIDE DEF h, r
<1>3. (s \o h) \o r = s \o (h \o r)
  BY <1>1, ConcatAssociative
<1>. QED BY <1>1, <1>2, <1>3 DEF r

\* The invariant holds initially.
LEMMA Initially == Init => IInv
<1>. SUFFICES ASSUME Init PROVE IInv
  OBVIOUS
<1>1. TypeOK
  BY DEF Init, TypeOK
<1>2. Known /\ Started /\ Scheduled /\ Reached /\ Selected
  BY DEF Init, Known, Started, Scheduled, Reached, Selected
<1>. QED BY <1>1, <1>2 DEF IInv

\* Compiling a plan preserves the invariant.
LEMMA CompileKeeps == IInv /\ Compile => IInv'
<1>. SUFFICES ASSUME IInv, Compile PROVE IInv'
  OBVIOUS
<1>1. TypeOK'
  BY DEF IInv, TypeOK, Compile
<1>2. Known' /\ Started' /\ Scheduled' /\ Reached'
  BY DEF IInv, Known, Started, Scheduled, Reached, Compile
<1>3. Selected'
  BY DEF IInv, Started, Selected, Compile
<1>. QED BY <1>1, <1>2, <1>3 DEF IInv

\* Explaining one does.
LEMMA ExplainKeeps == IInv /\ Explain => IInv'
<1>. SUFFICES ASSUME IInv, Explain PROVE IInv'
  OBVIOUS
<1>1. /\ plan \in Plans /\ bars \in Stores /\ Compilable(plan)
      /\ step = 1 /\ rows = <<>> /\ snapshots = <<>>
  BY StoresAre DEF IInv, TypeOK, Started, Explain
<1>2. data' \in Seq(Rows) /\ todo' \in Seq(Int)
  BY <1>1, LoadedType, SelectionDatesType DEF Explain
<1>3. TypeOK'
  BY <1>2 DEF IInv, TypeOK, Explain
<1>4. Known' /\ Started'
  BY <1>1 DEF Known, Started, Explain
<1>5. Scheduled'
  <2>1. Taken' = <<>>
    BY <1>1 DEF Taken, Explain
  <2>2. <<>> \o todo' = todo'
    BY <1>2, ConcatEmptySeq
  <2>. QED BY <2>1, <2>2 DEF Scheduled, Explain
<1>6. Reached'
  <2>1. SUFFICES ASSUME status' = "running"
        PROVE  step' \in 1..(Len(plan'.pipeline) + 1)
               /\ rows' \in Steps(step' - 1, plan'.pipeline, data', Head(todo'), plan'.from)
    BY DEF Reached, Explain
  <2>2. Len(plan.pipeline) \in Nat /\ Steps(0, plan.pipeline, data', Head(todo'), plan.from) = {<<>>}
    <3>. DEFINE N == Len(plan.pipeline)
    <3>1. N \in Nat /\ \A i \in 1..N : SafeStep(plan.pipeline[i], data', Head(todo'), plan.from)
      BY <1>1, <1>2, PlanSafe
    <3>. HIDE DEF N
    <3>. QED BY <3>1, StepsAre DEF N
  <2>. QED BY <1>1, <2>2 DEF Explain
<1>7. Selected'
  BY <1>1 DEF Selected, Explain
<1>. QED BY <1>3, <1>4, <1>5, <1>6, <1>7 DEF IInv

\* A step of the pipeline does.
LEMMA RunStepKeeps == IInv /\ RunStep => IInv'
<1>. SUFFICES ASSUME IInv, RunStep PROVE IInv'
  OBVIOUS
<1>. DEFINE N == Len(plan.pipeline)
            day == Head(todo)
            St(n) == Steps(n, plan.pipeline, data, day, plan.from)
            Out(n, rs) == Outcomes(plan.pipeline[n], rs, data, day, plan.from)
<1>1. plan \in Plans /\ Compilable(plan) /\ data \in Seq(Rows) /\ rows \in Seq(Rows)
  BY DEF IInv, TypeOK, Known, RunStep
<1>2. N \in Nat /\ \A i \in 1..N : SafeStep(plan.pipeline[i], data, day, plan.from)
  BY <1>1, PlanSafe
<1>3. step \in 1..N /\ rows \in St(step - 1) /\ rows' \in Out(step, rows)
  BY <1>2 DEF IInv, TypeOK, Reached, RunStep, Now
<1>4. rows' \in Seq(Rows)
  BY <1>1, <1>2, <1>3 DEF SafeStep
<1>5. rows' \in St(step)
  <2>1. \A n \in 1..N : St(n) = UNION {Out(n, rs) : rs \in St(n - 1)}
    <3>. HIDE DEF N
    <3>. QED BY <1>2, StepsAre
  <2>. HIDE DEF St, Out
  <2>. QED BY <1>3, <2>1
<1>6. TypeOK'
  BY <1>4 DEF IInv, TypeOK, RunStep
<1>7. Known' /\ Started' /\ Scheduled'
  BY DEF IInv, Known, Started, Scheduled, Taken, RunStep
<1>8. Reached'
  <2>1. step' = step + 1 /\ step' - 1 = step /\ step' \in 1..(N + 1)
    BY <1>2, <1>3 DEF RunStep
  <2>. QED BY <1>5, <2>1 DEF Reached, RunStep
<1>9. Selected'
  BY DEF IInv, Selected, RunStep
<1>. QED BY <1>6, <1>7, <1>8, <1>9 DEF IInv

\* A step that fails does.
LEMMA FailStepKeeps == IInv /\ FailStep => IInv'
<1>. SUFFICES ASSUME IInv, FailStep PROVE IInv'
  OBVIOUS
<1>1. TypeOK'
  BY DEF IInv, TypeOK, FailStep
<1>2. Known' /\ Started' /\ Scheduled' /\ Reached'
  BY DEF IInv, Known, Started, Scheduled, Reached, FailStep
<1>3. Selected'
  BY DEF IInv, Selected, FailStep
<1>. QED BY <1>1, <1>2, <1>3 DEF IInv

\* The end of a pipeline, which takes a snapshot, does.
LEMMA TakeSnapshotKeeps == IInv /\ TakeSnapshot => IInv'
<1>. SUFFICES ASSUME IInv, TakeSnapshot PROVE IInv'
  OBVIOUS
<1>. DEFINE N == Len(plan.pipeline)
            day == Head(todo)
            M == [day : Int, rows : Seq(Rows)]
            new == [day |-> day, rows |-> Settled(plan.pipeline, rows)]
<1>1. /\ plan \in Plans /\ Compilable(plan) /\ data \in Seq(Rows) /\ rows \in Seq(Rows)
      /\ todo \in Seq(Int) /\ todo # <<>> /\ snapshots \in Seq(M)
  BY DEF IInv, TypeOK, Known, TakeSnapshot
<1>2. N \in Nat /\ \A d : \A i \in 1..N : SafeStep(plan.pipeline[i], data, d, plan.from)
  BY <1>1, PlanSafe
<1>3. rows \in Steps(N, plan.pipeline, data, day, plan.from)
  <2>1. step - 1 = N
    BY <1>2 DEF IInv, TypeOK, Reached, TakeSnapshot
  <2>. QED BY <2>1 DEF IInv, Reached, TakeSnapshot
<1>4. day \in Int /\ Tail(todo) \in Seq(Int)
  BY <1>1
<1>5. new \in M
  <2>1. Settled(plan.pipeline, rows) \in Seq(Rows)
    BY <1>1, SettledType
  <2>. QED BY <1>4, <2>1
<1>6. /\ snapshots' = Append(snapshots, new) /\ snapshots' \in Seq(M)
      /\ DOMAIN snapshots' = 1..(Len(snapshots) + 1) /\ DOMAIN snapshots = 1..Len(snapshots) /\ Len(snapshots) \in Nat
      /\ \A i \in 1..Len(snapshots) : snapshots'[i] = snapshots[i]
      /\ snapshots'[Len(snapshots) + 1] = new
  <2>1. snapshots' = Append(snapshots, new)
    BY DEF TakeSnapshot
  <2>. HIDE DEF M, new
  <2>. QED BY <1>1, <1>5, <2>1
<1>7. TypeOK'
  <2>1. snapshots' \in Seq([day : Int, rows : Seq(Rows)])
    BY <1>6
  <2>. HIDE DEF M, new, N
  <2>. QED BY <1>4, <2>1 DEF IInv, TypeOK, TakeSnapshot
<1>8. Known' /\ Started'
  <2>. HIDE DEF M, new, N, day
  <2>. QED BY <1>1 DEF IInv, Known, Started, TakeSnapshot
<1>9. Scheduled'
  <2>1. Taken \in Seq(Int) /\ Len(Taken) = Len(snapshots) /\ DOMAIN Taken = DOMAIN snapshots
    BY TakenType DEF IInv
  <2>2. Taken' = Append(Taken, day)
    <3>1. new.day = day
      OBVIOUS
    <3>. HIDE DEF M, new, day
    <3>. DEFINE n == Len(snapshots)
                a == Append(Taken, day)
    <3>2. /\ n \in Nat /\ a \in Seq(Int) /\ Len(a) = n + 1
          /\ \A i \in 1..n : a[i] = Taken[i]
          /\ a[n + 1] = day
      BY <1>4, <1>6, <2>1
    <3>. HIDE DEF a
    <3>3. ASSUME NEW i \in 1..(n + 1) PROVE a[i] = snapshots'[i].day
      <4>1. CASE i = n + 1
        BY <1>6, <3>1, <3>2, <4>1
      <4>2. CASE i \in 1..n
        <5>1. Taken[i] = snapshots[i].day
          BY <1>6, <4>2 DEF Taken
        <5>. QED BY <1>6, <3>2, <4>2, <5>1
      <4>. QED BY <3>2, <4>1, <4>2
    <3>. HIDE DEF n
    <3>4. DOMAIN snapshots' = 1..(n + 1)
      BY <1>6 DEF n
    <3>5. a = [i \in 1..(n + 1) |-> a[i]]
      BY <3>2
    <3>6. a = [i \in DOMAIN snapshots' |-> snapshots'[i].day]
      BY <3>3, <3>4, <3>5
    <3>. QED BY <3>6 DEF Taken, a
  <2>3. Append(Taken, day) \o Tail(todo) = Taken \o todo
    BY <1>1, <2>1, MovesOver
  <2>4. status = "running" /\ status' = "running" /\ todo' = Tail(todo) /\ plan' = plan
    BY DEF TakeSnapshot
  <2>. HIDE DEF M, new, day, N
  <2>. QED BY <2>2, <2>3, <2>4 DEF IInv, Scheduled
<1>10. Reached'
  <2>1. Steps(0, plan.pipeline, data, Head(todo'), plan.from) = {<<>>}
    <3>. HIDE DEF N
    <3>. QED BY <1>2, StepsAre
  <2>2. step' = 1 /\ rows' = <<>> /\ plan' = plan /\ data' = data /\ 1 \in 1..(N + 1) /\ 1 - 1 = 0
    BY <1>2 DEF TakeSnapshot
  <2>. QED BY <2>1, <2>2 DEF Reached
<1>11. Selected'
  <2>1. new.rows \in Selections(plan, data, new.day)
    BY <1>3, SelectionsAre DEF Made
  <2>2. plan' = plan /\ data' = data
    BY DEF TakeSnapshot
  <2>3. \A i \in 1..Len(snapshots) : snapshots[i].rows \in Selections(plan, data, snapshots[i].day)
    BY <1>6 DEF IInv, Selected
  <2>. HIDE DEF M, new, day, N
  <2>4. ASSUME NEW i \in DOMAIN snapshots' PROVE snapshots'[i].rows \in Selections(plan, data, snapshots'[i].day)
    <3>1. CASE i = Len(snapshots) + 1
      BY <1>6, <2>1, <3>1
    <3>2. CASE i \in 1..Len(snapshots)
      BY <1>6, <2>3, <3>2
    <3>. QED BY <1>6, <3>1, <3>2
  <2>. QED BY <2>2, <2>4 DEF Selected
<1>. QED BY <1>7, <1>8, <1>9, <1>10, <1>11 DEF IInv

\* The end of all selections does.
LEMMA FinishKeeps == IInv /\ Finish => IInv'
<1>. SUFFICES ASSUME IInv, Finish PROVE IInv'
  OBVIOUS
<1>1. TypeOK'
  BY DEF IInv, TypeOK, Finish
<1>2. Known' /\ Started' /\ Scheduled' /\ Reached'
  BY DEF IInv, Known, Started, Scheduled, Taken, Reached, Finish
<1>3. Selected'
  BY DEF IInv, Selected, Finish
<1>. QED BY <1>1, <1>2, <1>3 DEF IInv

\* A step that changes nothing does.
LEMMA StutterKeeps == IInv /\ UNCHANGED vars => IInv'
<1>. SUFFICES ASSUME IInv, UNCHANGED vars PROVE IInv'
  OBVIOUS
<1>1. TypeOK'
  BY DEF IInv, TypeOK, vars
<1>2. Known' /\ Started' /\ Scheduled' /\ Reached'
  BY DEF IInv, Known, Started, Scheduled, Taken, Reached, vars
<1>3. Selected'
  BY DEF IInv, Selected, vars
<1>. QED BY <1>1, <1>2, <1>3 DEF IInv

\* The invariant holds in every state: what is known, where the pipeline is, which
\* dates are still to come and what each snapshot selected (executeUniversePipeline).
THEOREM Inductive == Spec => []IInv
<1>1. Init => IInv
  BY Initially
<1>2. IInv /\ [Next]_vars => IInv'
  BY CompileKeeps, ExplainKeeps, RunStepKeeps, FailStepKeeps, TakeSnapshotKeeps, FinishKeeps, StutterKeeps
     DEF Next, Rest
<1>. QED BY <1>1, <1>2, PTL DEF Spec

\* Every variable keeps its type, for any plans, listings, days and histories.
THEOREM TypeCorrect == Spec => []TypeOK
<1>1. IInv => TypeOK
  BY DEF IInv
<1>. QED BY <1>1, Inductive, PTL

-----------------------------------------------------------------------------
(* The universe in force is that of the period                             *)

\* The last date not after t is the one in force.
LEMMA InForce ==
  ASSUME NEW n \in Nat, NEW D \in [1..n -> Int], NEW t \in Int, 1 <= n, D[1] <= t
  PROVE  LET a == Max({0} \cup {i \in 1..n : D[i] <= t})
         IN  a \in 1..n /\ D[a] <= t /\ \A i \in 1..n : D[i] <= t => i <= a
<1>. DEFINE T == {0} \cup {i \in 1..n : D[i] <= t}
            a == Max(T)
<1>1. T \in SUBSET (0..n) /\ T # {} /\ 1 \in T
  OBVIOUS
<1>. HIDE DEF T
<1>2. a \in T /\ \A y \in T : a >= y
  BY <1>1, GreatestIsOne
<1>. HIDE DEF a
<1>. USE DEF T
<1>3. a \in 1..n
  BY <1>1, <1>2
<1>. QED BY <1>2, <1>3 DEF a

\* What goes up step by step goes up.
LEMMA Increasing ==
  ASSUME NEW n \in Nat, NEW D \in [1..n -> Int], \A i \in 1..(n - 1) : D[i] < D[i + 1]
  PROVE  \A i, j \in 1..n : i < j => D[i] < D[j]
<1>1. ASSUME NEW i \in 1..n PROVE \A j \in 1..n : i < j => D[i] < D[j]
  <2>. DEFINE K == {k \in Nat : i + k + 1 <= n => D[i] < D[i + k + 1]}
  <2>1. 0 \in K
    <3>1. i + 0 + 1 <= n => i \in 1..(n - 1) /\ i + 0 + 1 = i + 1
      OBVIOUS
    <3>. QED BY <3>1
  <2>2. ASSUME NEW k \in Nat, k \in K PROVE k + 1 \in K
    <3>1. SUFFICES ASSUME i + (k + 1) + 1 <= n PROVE D[i] < D[i + (k + 1) + 1]
      OBVIOUS
    <3>2. D[i] < D[i + k + 1]
      BY <2>2, <3>1
    <3>3. /\ i + k + 1 \in 1..(n - 1) /\ (i + k + 1) + 1 = i + (k + 1) + 1
          /\ i + k + 1 \in 1..n /\ i + (k + 1) + 1 \in 1..n
      BY <3>1
    <3>4. D[i + k + 1] < D[(i + k + 1) + 1]
      BY <3>3
    <3>5. D[i] \in Int /\ D[i + k + 1] \in Int /\ D[i + (k + 1) + 1] \in Int
      BY <3>3
    <3>. QED BY <3>2, <3>3, <3>4, <3>5
  <2>3. Nat \subseteq K
    <3>. HIDE DEF K
    <3>. QED BY <2>1, <2>2, SetInduction
  <2>4. ASSUME NEW j \in 1..n, i < j PROVE D[i] < D[j]
    <3>. DEFINE gap == (j - i) - 1
    <3>1. gap \in Nat /\ i + gap + 1 = j
      BY <2>4
    <3>. HIDE DEF gap
    <3>2. i + gap + 1 <= n => D[i] < D[i + gap + 1]
      BY <2>3, <3>1
    <3>3. D[i] < D[i + gap + 1]
      BY <3>1, <3>2
    <3>. QED BY <3>1, <3>3
  <2>. QED BY <2>4
<1>. QED BY <1>1

\* The first days of the periods: every day has that of its own, and the list is in order.
LEMMA FirstOfIs ==
  ASSUME NEW period \in [Days -> Int], \A d, e \in Days : d <= e => period[d] <= period[e],
         NEW from \in Days, NEW to \in Days, from <= to
  PROVE  LET D == FirstOf(period, from, to)
         IN  /\ D \in Seq(Int)
             /\ \A i \in DOMAIN D : D[i] \in from..to
             /\ \A i, j \in DOMAIN D : i < j => D[i] < D[j]
             /\ \A t \in from..to : \E i \in DOMAIN D : D[i] <= t /\ period[D[i]] = period[t]
<1>. DEFINE m == to - from + 1
            days == DailyDates(from, to)
            I == {i \in DOMAIN days : \A j \in 1..(i - 1) : period[days[j]] # period[days[i]]}
            D == FirstOf(period, from, to)
<1>1. from \in Int /\ to \in Int /\ m \in Nat /\ from..to \subseteq Days
  BY UniverseAssumption DEF Days
<1>2. /\ days \in Seq(Int) /\ DOMAIN days = 1..m
      /\ \A i \in 1..m : days[i] = from + i - 1
  BY <1>1, DailyDatesType
<1>. HIDE DEF days
<1>3. D \in Seq(Int)
  BY <1>2, PickedType DEF FirstOf, days
<1>4. PICK e \in [DOMAIN D -> DOMAIN days] :
           /\ \A k \in DOMAIN D : e[k] \in I /\ D[k] = days[e[k]]
           /\ \A k, l \in DOMAIN D : k < l => e[k] < e[l]
           /\ \A i \in DOMAIN days : i \in I => \E k \in DOMAIN D : e[k] = i
  <2>1. D = Picked(days, I)
    BY DEF FirstOf, days
  <2>. HIDE DEF I, D
  <2>2. PICK e : e \in Picks(days, I)
    BY <1>2, PicksExist
  <2>. QED BY <2>1, <2>2 DEF Picks
<1>. HIDE DEF D
<1>5. \A k \in DOMAIN D : e[k] \in 1..m /\ D[k] = from + e[k] - 1
  BY <1>2, <1>4
<1>6. \A k \in DOMAIN D : D[k] \in from..to
  BY <1>1, <1>5
<1>7. \A k, l \in DOMAIN D : k < l => D[k] < D[l]
  BY <1>1, <1>4, <1>5
<1>8. ASSUME NEW t \in from..to PROVE \E k \in DOMAIN D : D[k] <= t /\ period[D[k]] = period[t]
  <2>. DEFINE T == {i \in 1..m : period[days[i]] = period[t]}
  <2>1. t - from + 1 \in T /\ T \in SUBSET Nat
    BY <1>1, <1>2
  <2>2. PICK i \in T : \A j \in T : i <= j
    <3>. HIDE DEF T
    <3>. QED BY <2>1, LeastExists
  <2>3. i \in I
    <3>1. i \in DOMAIN days
      BY <1>2
    <3>2. ASSUME NEW j \in 1..(i - 1) PROVE period[days[j]] # period[days[i]]
      <4>1. j \in 1..m /\ ~(i <= j)
        BY <1>1
      <4>. QED BY <2>2, <4>1
    <3>. QED BY <3>1, <3>2
  <2>4. PICK k \in DOMAIN D : e[k] = i
    BY <1>2, <1>4, <2>3
  <2>5. D[k] = days[i] /\ period[D[k]] = period[t]
    BY <1>4, <2>4
  <2>6. i <= t - from + 1
    BY <2>1, <2>2
  <2>7. D[k] <= t
    BY <1>1, <1>2, <2>5, <2>6
  <2>. QED BY <2>5, <2>7
<1>. QED BY <1>3, <1>6, <1>7, <1>8 DEF D

\* With the first days of the periods for snapshots, the one in force is of the own period.
LEMMA PeriodInForce ==
  ASSUME NEW period \in [Days -> Int], \A d, e \in Days : d <= e => period[d] <= period[e],
         NEW from \in Days, NEW to \in Days, from <= to,
         NEW n \in Nat, NEW D, D = FirstOf(period, from, to), n = Len(D), n >= 1,
         NEW t \in Int, D[1] <= t, t <= to,
         NEW a \in 1..n, D[a] <= t, \A i \in 1..n : D[i] <= t => i <= a
  PROVE  period[D[a]] = period[t]
<1>1. /\ D \in Seq(Int) /\ DOMAIN D = 1..n
      /\ \A i \in 1..n : D[i] \in from..to
      /\ \A i, j \in 1..n : i < j => D[i] < D[j]
      /\ \A u \in from..to : \E i \in 1..n : D[i] <= u /\ period[D[i]] = period[u]
  <2>1. /\ D \in Seq(Int)
        /\ \A i \in DOMAIN D : D[i] \in from..to
        /\ \A i, j \in DOMAIN D : i < j => D[i] < D[j]
        /\ \A u \in from..to : \E i \in DOMAIN D : D[i] <= u /\ period[D[i]] = period[u]
    BY FirstOfIs
  <2>2. DOMAIN D = 1..n
    BY <2>1
  <2>. QED BY <2>1, <2>2
<1>2. from..to \subseteq Days /\ t \in from..to /\ from \in Int /\ to \in Int
  <2>1. from \in Int /\ to \in Int /\ from..to \subseteq Days
    BY UniverseAssumption DEF Days
  <2>2. D[1] \in from..to
    BY <1>1
  <2>. QED BY <2>1, <2>2
<1>3. PICK b \in 1..n : D[b] <= t /\ period[D[b]] = period[t]
  BY <1>1, <1>2
<1>4. b <= a /\ D[b] <= D[a] /\ D[a] \in Days /\ D[b] \in Days /\ t \in Days
  <2>1. D[a] \in from..to /\ D[b] \in from..to
    BY <1>1, <1>3
  <2>2. b <= a
    BY <1>3
  <2>3. b = a \/ D[b] < D[a]
    BY <1>1, <1>3, <2>2
  <2>4. D[b] <= D[a]
    BY <1>2, <2>1, <2>3
  <2>. QED BY <1>2, <2>1, <2>2, <2>4
<1>5. period[D[b]] <= period[D[a]] /\ period[D[a]] <= period[t]
  BY <1>4
<1>6. period[D[a]] \in Int /\ period[t] \in Int
  BY <1>4
<1>. QED BY <1>3, <1>5, <1>6

\* The invariant says when the snapshots were taken, so which one is in force.
LEMMA FreshStep == IInv => UniverseIsFresh
<1>. DEFINE D == SelectionDates(plan)
            n == Len(D)
            from == FirstDate(plan)
            to == plan.to
<1>1. SUFFICES ASSUME IInv, status = "done",
                      \A i \in 1..(Len(snapshots) - 1) : snapshots[i].day < snapshots[i + 1].day,
                      NEW t \in snapshots[1].day..plan.to
               PROVE  LET day == snapshots[ActiveAt(t)].day
                      IN  CASE plan.schedule = "once"    -> day = snapshots[1].day
                            [] plan.schedule = "daily"   -> day = t
                            [] plan.schedule = "weekly"  -> WeekOf[day] = WeekOf[t]
                            [] plan.schedule = "monthly" -> MonthOf[day] = MonthOf[t]
                            [] plan.schedule = "custom_calendar" -> \A d \in Range(plan.dates) : ~(day < d /\ d <= t)
  BY DEF UniverseIsFresh
<1>2. plan \in Plans /\ Compilable(plan) /\ TypeOK
  BY <1>1 DEF IInv, TypeOK, Known
<1>3. D \in Seq(Int) /\ Taken = D /\ D # <<>>
  <2>1. D \in Seq(Int)
    BY <1>2, SelectionDatesType
  <2>2. Taken \in Seq(Int)
    BY <1>2, TakenType
  <2>3. Taken \o <<>> = D /\ D # <<>>
    BY <1>1 DEF IInv, Scheduled
  <2>. HIDE DEF D
  <2>. QED BY <2>1, <2>2, <2>3, ConcatEmptySeq
<1>4. /\ n \in Nat /\ n >= 1 /\ DOMAIN snapshots = 1..n /\ Len(snapshots) = n
      /\ \A i \in 1..n : snapshots[i].day = D[i]
      /\ D \in [1..n -> Int]
  <2>1. Len(snapshots) = n /\ DOMAIN snapshots = DOMAIN D
    BY <1>2, <1>3, TakenType
  <2>2. \A i \in DOMAIN snapshots : snapshots[i].day = D[i]
    BY <1>3 DEF Taken
  <2>3. n \in Nat /\ n >= 1 /\ DOMAIN D = 1..n /\ D \in [1..n -> Int]
    <3>. HIDE DEF D
    <3>. QED BY <1>3
  <2>. QED BY <2>1, <2>2, <2>3
<1>5. from \in Days /\ to \in Int /\ from \in Int /\ from <= to /\ to \in Days
  <2>1. from \in Int /\ to \in Int
    BY <1>2, PlanDates
  <2>2. plan.from \in Days \cup {0} /\ plan.window \in Days \cup {0} /\ to \in Days \cup {0} /\ plan.window # 0
    BY <1>2, UniverseAssumption DEF Compilable
  <2>3. from \in Days
    BY <2>2 DEF FirstDate
  <2>4. ~(to < from)
    BY <1>3 DEF SelectionDates, FirstDate
  <2>5. to \in Days
    BY <2>1, <2>2, <2>3, <2>4 DEF Days
  <2>. QED BY <2>1, <2>3, <2>4, <2>5
<1>15. D = CASE plan.schedule = "once"    -> <<from>>
             [] plan.schedule = "daily"   -> DailyDates(from, to)
             [] plan.schedule = "weekly"  -> FirstOf(WeekOf, from, to)
             [] plan.schedule = "monthly" -> FirstOf(MonthOf, from, to)
             [] plan.schedule = "custom_calendar" -> CustomDates(plan.dates, from, to)
  <2>1. ~(to < from)
    BY <1>5
  <2>. QED BY <2>1 DEF SelectionDates, FirstDate
<1>. HIDE DEF D, n, from
<1>. DEFINE a == ActiveAt(t)
<1>6. t \in Int /\ D[1] <= t /\ t <= to /\ D[1] \in Int
  <2>1. 1 \in 1..n
    BY <1>4
  <2>2. D[1] \in Int /\ snapshots[1].day = D[1]
    BY <1>4, <2>1
  <2>3. t \in D[1]..to
    BY <1>1, <2>2
  <2>. QED BY <1>5, <2>2, <2>3
<1>7. a \in 1..n /\ D[a] <= t /\ \A i \in 1..n : D[i] <= t => i <= a
  <2>1. a = Max({0} \cup {i \in 1..n : D[i] <= t})
    <3>1. {i \in DOMAIN snapshots : snapshots[i].day <= t} = {i \in 1..n : D[i] <= t}
      BY <1>4
    <3>. QED BY <3>1 DEF ActiveAt
  <2>. DEFINE x == Max({0} \cup {i \in 1..n : D[i] <= t})
  <2>2. x \in 1..n /\ D[x] <= t /\ \A i \in 1..n : D[i] <= t => i <= x
    <3>1. n \in Nat /\ D \in [1..n -> Int] /\ t \in Int /\ 1 <= n /\ D[1] <= t
      BY <1>4, <1>6
    <3>. QED BY <3>1, InForce
  <2>3. a = x
    BY <2>1
  <2>. HIDE DEF a, x
  <2>. QED BY <2>2, <2>3
<1>. HIDE DEF a
<1>8. snapshots[a].day = D[a] /\ snapshots[1].day = D[1]
  BY <1>4, <1>7
<1>9. CASE plan.schedule = "once"
  <2>1. D = <<from>>
    BY <1>15, <1>9
  <2>2. n = 1
    BY <2>1 DEF n
  <2>3. a = 1
    BY <1>7, <2>2
  <2>. QED BY <1>8, <1>9, <2>3 DEF a
<1>10. CASE plan.schedule = "daily"
  <2>1. D = DailyDates(from, to)
    BY <1>15, <1>10
  <2>2. n = to - from + 1 /\ \A i \in 1..n : D[i] = from + i - 1
    <3>1. from \in Int /\ to \in Int /\ from <= to
      BY <1>5
    <3>. QED BY <2>1, <3>1, DailyDatesType DEF n
  <2>. DEFINE k == t - from + 1
  <2>3. k \in 1..n /\ from \in Int
    <3>1. D[1] = from
      BY <1>4, <1>5, <2>2
    <3>. QED BY <1>5, <1>6, <2>2, <3>1
  <2>4. D[k] = t
    <3>1. D[k] = from + k - 1
      BY <2>2, <2>3
    <3>. QED BY <1>6, <2>3, <3>1
  <2>5. D[a] = t
    <3>1. k <= a
      BY <1>6, <1>7, <2>3, <2>4
    <3>2. D[a] = from + a - 1
      BY <1>7, <2>2
    <3>. QED BY <1>6, <1>7, <2>3, <3>1, <3>2
  <2>. QED BY <1>8, <1>10, <2>5 DEF a
<1>11. CASE plan.schedule = "weekly"
  <2>1. D = FirstOf(WeekOf, from, to)
    BY <1>15, <1>11
  <2>2. WeekOf \in [Days -> Int] /\ \A d, e \in Days : d <= e => WeekOf[d] <= WeekOf[e]
    BY UniverseAssumption
  <2>3. WeekOf[D[a]] = WeekOf[t]
    <3>1. from \in Days /\ to \in Days /\ from <= to /\ n \in Nat /\ n = Len(D) /\ n >= 1
      BY <1>4, <1>5 DEF n
    <3>2. t \in Int /\ D[1] <= t /\ t <= to /\ a \in 1..n /\ D[a] <= t /\ \A i \in 1..n : D[i] <= t => i <= a
      BY <1>6, <1>7
    <3>. DEFINE w == WeekOf
    <3>3. w \in [Days -> Int] /\ (\A d, e \in Days : d <= e => w[d] <= w[e]) /\ D = FirstOf(w, from, to)
      BY <2>1, <2>2
    <3>. HIDE DEF w, D, n, from, to
    <3>4. w[D[a]] = w[t]
      BY <3>1, <3>2, <3>3, PeriodInForce
    <3>. QED BY <3>4 DEF w
  <2>. QED BY <1>8, <1>11, <2>3 DEF a
<1>12. CASE plan.schedule = "monthly"
  <2>1. D = FirstOf(MonthOf, from, to)
    BY <1>15, <1>12
  <2>2. MonthOf \in [Days -> Int] /\ \A d, e \in Days : d <= e => MonthOf[d] <= MonthOf[e]
    BY UniverseAssumption
  <2>3. MonthOf[D[a]] = MonthOf[t]
    <3>1. from \in Days /\ to \in Days /\ from <= to /\ n \in Nat /\ n = Len(D) /\ n >= 1
      BY <1>4, <1>5 DEF n
    <3>2. t \in Int /\ D[1] <= t /\ t <= to /\ a \in 1..n /\ D[a] <= t /\ \A i \in 1..n : D[i] <= t => i <= a
      BY <1>6, <1>7
    <3>. DEFINE w == MonthOf
    <3>3. w \in [Days -> Int] /\ (\A d, e \in Days : d <= e => w[d] <= w[e]) /\ D = FirstOf(w, from, to)
      BY <2>1, <2>2
    <3>. HIDE DEF w, D, n, from, to
    <3>4. w[D[a]] = w[t]
      BY <3>1, <3>2, <3>3, PeriodInForce
    <3>. QED BY <3>4 DEF w
  <2>. QED BY <1>8, <1>12, <2>3 DEF a
<1>13. CASE plan.schedule = "custom_calendar"
  <2>. DEFINE dates == plan.dates
              I == {i \in DOMAIN dates : from <= dates[i] /\ dates[i] <= to}
  <2>1. dates \in Seq(Int) /\ D = Picked(dates, I)
    BY <1>2, <1>15, <1>13, PlanDates DEF CustomDates
  <2>2. /\ \A m \in DOMAIN D : \E i \in DOMAIN dates : i \in I /\ D[m] = dates[i]
        /\ \A i \in DOMAIN dates : i \in I => \E m \in DOMAIN D : D[m] = dates[i]
    <3>. HIDE DEF I, dates
    <3>. QED BY <2>1, PickedRange
  <2>3. \A i, j \in 1..n : i < j => D[i] < D[j]
    <3>1. \A i \in 1..(n - 1) : D[i] < D[i + 1]
      BY <1>1, <1>4
    <3>. QED BY <1>4, <3>1, Increasing
  <2>4. ASSUME NEW d \in Range(dates), D[a] < d, d <= t PROVE FALSE
    <3>1. PICK i \in DOMAIN dates : d = dates[i]
      BY RangeIs
    <3>2. d \in Int
      BY <2>1, <3>1
    <3>3. from <= D[a] /\ D[a] \in Int
      BY <1>4, <1>7, <2>2
    <3>4. i \in I
      <4>1. from <= d /\ d <= to
        BY <1>5, <1>6, <2>4, <3>2, <3>3
      <4>. QED BY <3>1, <4>1
    <3>5. PICK m \in 1..n : D[m] = d
      BY <1>4, <2>2, <3>1, <3>4
    <3>6. m <= a
      BY <1>7, <2>4, <3>5
    <3>7. m = a \/ D[m] < D[a]
      BY <1>7, <2>3, <3>6
    <3>. QED BY <2>4, <3>2, <3>3, <3>5, <3>7
  <2>5. \A d \in Range(plan.dates) : ~(snapshots[a].day < d /\ d <= t)
    BY <1>8, <2>4
  <2>. QED BY <1>13, <2>5 DEF a
<1>14. plan.schedule \in {"once", "daily", "weekly", "monthly", "custom_calendar"}
  BY <1>2 DEF Compilable
<1>. QED BY <1>9, <1>10, <1>11, <1>12, <1>13, <1>14

\* Whatever the schedule and the calendar, the engine trades every bar with the universe of
\* its own period (BuildSnapshots, activeSymbolsAt).
THEOREM Fresh == Spec => []UniverseIsFresh
BY FreshStep, Inductive, PTL

-----------------------------------------------------------------------------
(* Only what is closed is selected from                                    *)

ClosedRows(day) == {r \in Rows : r.day < day}

\* Closed bars, as those of a list that are in a set.
LEMMA ClosedIsWhere ==
  ASSUME NEW known \in Seq(Rows), NEW day
  PROVE  ClosedBars(known, day) = Where(known, ClosedRows(day))
<1>1. {i \in DOMAIN known : known[i].day < day} = {i \in DOMAIN known : known[i] \in ClosedRows(day)}
  <2>1. \A i \in DOMAIN known : known[i] \in Rows
    OBVIOUS
  <2>. QED BY <2>1 DEF ClosedRows
<1>. QED BY <1>1 DEF ClosedBars, Where

\* The bars of a day are of that day.
LEMMA BarsOfDay ==
  ASSUME NEW type, NEW d \in Days, NEW stored \in Stores
  PROVE  \A m \in DOMAIN BarsOf(type, d, stored) : BarsOf(type, d, stored)[m].day = d
<1>. DEFINE of == ListingsInOrder
            rs == [k \in DOMAIN of |-> Row(of[k][1], of[k][2], d, stored[of[k]][d], {"liquid"})]
            I == {k \in DOMAIN of : type \in {0, of[k][2]} /\ stored[of[k]][d] > 0}
            X == {rs[k] : k \in DOMAIN of}
            t == BarsOf(type, d, stored)
<1>1. of \in Seq(Listings)
  BY SortListingsType, UniverseAssumption DEF ListingsInOrder
<1>2. \A k \in DOMAIN of : rs[k].day = d
  BY DEF Row
<1>3. t = Picked(rs, I)
  BY DEF BarsOf
<1>4. rs \in [DOMAIN of -> X]
  OBVIOUS
<1>. HIDE DEF of, X, rs, I, t
<1>5. rs \in Seq(X) /\ DOMAIN rs = DOMAIN of
  BY <1>1, <1>4, EachType
<1>6. \A m \in DOMAIN t : \E k \in DOMAIN rs : t[m] = rs[k]
  BY <1>3, <1>5, PickedRange
<1>7. \A m \in DOMAIN t : t[m].day = d
  BY <1>2, <1>5, <1>6
<1>. QED BY <1>7 DEF t

\* Two stores that agree before a day have the same bars that are closed on it.
LEMMA ClosedOfQuery ==
  ASSUME NEW type, NEW from, NEW to, NEW day \in Int, NEW a \in Stores, NEW b \in Stores,
         \A l \in Listings, d \in Days : d < day => a[l][d] = b[l][d]
  PROVE  Where(Query(type, from, to, a), ClosedRows(day)) = Where(Query(type, from, to, b), ClosedRows(day))
<1>. DEFINE E == ClosedRows(day)
            Of(stored) == [d \in Days |-> IF from <= d /\ d <= to THEN BarsOf(type, d, stored) ELSE <<>>]
<1>1. ASSUME NEW stored \in Stores
      PROVE  Where(Query(type, from, to, stored), E) = FlattenSeq([d \in Days |-> Where(Of(stored)[d], E)])
  <2>. DEFINE ss == Of(stored)
              Y == Seq(Rows)
  <2>1. ss \in [1..LastDay -> Y] /\ LastDay \in Nat
    BY BarsOfType, UniverseAssumption DEF Days
  <2>2. Query(type, from, to, stored) = FlattenSeq(ss)
    BY DEF Query
  <2>. HIDE DEF ss, E
  <2>3. ss \in Seq(Y) /\ DOMAIN ss = Days
    <3>. HIDE DEF Y
    <3>. QED BY <2>1, ListOf DEF Days
  <2>4. Where(FlattenSeq(ss), E) = FlattenSeq([i \in DOMAIN ss |-> Where(ss[i], E)])
    BY <2>3, WhereFlatten
  <2>5. [i \in DOMAIN ss |-> Where(ss[i], E)] = [d \in Days |-> Where(ss[d], E)]
    BY <2>3
  <2>6. Where(Query(type, from, to, stored), E) = FlattenSeq([d \in Days |-> Where(ss[d], E)])
    BY <2>2, <2>4, <2>5
  <2>. QED BY <2>6 DEF ss
<1>2. ASSUME NEW d \in Days PROVE Where(Of(a)[d], E) = Where(Of(b)[d], E)
  <2>1. CASE ~(from <= d /\ d <= to)
    BY <2>1
  <2>2. CASE from <= d /\ d <= to
    <3>1. Of(a)[d] = BarsOf(type, d, a) /\ Of(b)[d] = BarsOf(type, d, b)
      BY <2>2
    <3>2. CASE d < day
      <4>. DEFINE of == ListingsInOrder
      <4>1. of \in Seq(Listings)
        BY SortListingsType, UniverseAssumption DEF ListingsInOrder
      <4>. HIDE DEF of
      <4>2. \A k \in DOMAIN of : a[of[k]][d] = b[of[k]][d]
        <5>1. \A k \in DOMAIN of : of[k] \in Listings
          BY <4>1
        <5>. QED BY <3>2, <5>1
      <4>3. [k \in DOMAIN of |-> Row(of[k][1], of[k][2], d, a[of[k]][d], {"liquid"})]
              = [k \in DOMAIN of |-> Row(of[k][1], of[k][2], d, b[of[k]][d], {"liquid"})]
        BY <4>2
      <4>4. {k \in DOMAIN of : type \in {0, of[k][2]} /\ a[of[k]][d] > 0}
              = {k \in DOMAIN of : type \in {0, of[k][2]} /\ b[of[k]][d] > 0}
        BY <4>2
      <4>5. BarsOf(type, d, a) = BarsOf(type, d, b)
        BY <4>3, <4>4 DEF BarsOf, of
      <4>. QED BY <3>1, <4>5
    <3>3. CASE ~(d < day)
      <4>1. ASSUME NEW stored \in Stores PROVE Where(BarsOf(type, d, stored), E) = <<>>
        <5>. DEFINE t == BarsOf(type, d, stored)
                    w == Where(t, E)
        <5>1. t \in Seq(Rows) /\ \A m \in DOMAIN t : t[m] \notin E
          BY <3>3, BarsOfType, BarsOfDay DEF ClosedRows
        <5>. HIDE DEF t, E
        <5>2. w \in Seq(Rows) /\ \A m \in DOMAIN w : \E i \in DOMAIN t : i \in {j \in DOMAIN t : t[j] \in E}
          BY <5>1, PickedType, PickedRange DEF Where
        <5>. HIDE DEF w
        <5>3. DOMAIN w = {}
          BY <5>1, <5>2
        <5>4. w = <<>>
          BY <5>2, <5>3
        <5>. QED BY <5>4 DEF w, t
      <4>. QED BY <3>1, <4>1
    <3>. QED BY <3>2, <3>3
  <2>. QED BY <2>1, <2>2
<1>. HIDE DEF Of, E
<1>3. [d \in Days |-> Where(Of(a)[d], E)] = [d \in Days |-> Where(Of(b)[d], E)]
  BY <1>2
<1>4. Where(Query(type, from, to, a), E) = Where(Query(type, from, to, b), E)
  BY <1>1, <1>3
<1>. QED BY <1>4 DEF E

\* Two stores that agree before a day load the same bars that are closed on it.
LEMMA ClosedOfLoaded ==
  ASSUME NEW p \in Plans, NEW day \in Int, NEW a \in Stores, NEW b \in Stores,
         \A l \in Listings, d \in Days : d < day => a[l][d] = b[l][d]
  PROVE  ClosedBars(Loaded(p, a), day) = ClosedBars(Loaded(p, b), day)
<1>. DEFINE E == ClosedRows(day)
            types == Distinct(Queries(p))
            Of(stored) == [i \in DOMAIN types |-> Query(types[i], LoadFrom(p), p.to, stored)]
<1>1. PICK n \in Nat : DOMAIN types = 1..n
  BY QueriesType
<1>2. ASSUME NEW stored \in Stores
      PROVE  Where(FlattenSeq(Of(stored)), E) = FlattenSeq([i \in DOMAIN types |-> Where(Of(stored)[i], E)])
  <2>. DEFINE ss == Of(stored)
              Y == Seq(Rows)
  <2>1. ss \in [1..n -> Y] /\ DOMAIN ss = DOMAIN types
    BY <1>1, QueryType
  <2>. HIDE DEF ss, E, types
  <2>2. ss \in Seq(Y)
    <3>. HIDE DEF Y
    <3>. QED BY <2>1, ListOf
  <2>3. Where(FlattenSeq(ss), E) = FlattenSeq([i \in DOMAIN ss |-> Where(ss[i], E)])
    BY <2>2, WhereFlatten
  <2>4. Where(FlattenSeq(ss), E) = FlattenSeq([i \in DOMAIN types |-> Where(ss[i], E)])
    BY <2>1, <2>3
  <2>. QED BY <2>4 DEF ss
<1>3. ASSUME NEW i \in DOMAIN types PROVE Where(Of(a)[i], E) = Where(Of(b)[i], E)
  BY ClosedOfQuery
<1>4. Loaded(p, a) \in Seq(Rows) /\ Loaded(p, b) \in Seq(Rows)
  BY LoadedType
<1>5. \A stored : Loaded(p, stored) = IF ~NeedsBars(p.pipeline) THEN <<>> ELSE FlattenSeq(Of(stored))
  BY DEF Loaded
<1>. HIDE DEF Of, E, types
<1>6. [i \in DOMAIN types |-> Where(Of(a)[i], E)] = [i \in DOMAIN types |-> Where(Of(b)[i], E)]
  BY <1>3
<1>7. Where(FlattenSeq(Of(a)), E) = Where(FlattenSeq(Of(b)), E)
  BY <1>2, <1>6
<1>8. Where(Loaded(p, a), E) = Where(Loaded(p, b), E)
  BY <1>5, <1>7
<1>. QED BY <1>4, <1>8, ClosedIsWhere DEF E

\* A step that asks for the age of the day itself.
Today(s) == s.id = "filter.listing_age" /\ s.min < 1

\* A step that does not count today does the same with the same closed bars.
LEMMA SameBasic ==
  ASSUME NEW day \in Int, NEW a \in Seq(Rows), NEW b \in Seq(Rows), ClosedBars(a, day) = ClosedBars(b, day),
         NEW s, TypedStep(s), ~Today(s), NEW rs, NEW from
  PROVE  Basic(s, rs, a, day, from) = Basic(s, rs, b, day, from)
<1>1. Source(s, a, day, from) = Source(s, b, day, from)
  BY DEF Source, DailyBars
<1>2. ASSUME s.id = "filter.listing_age", NEW r, NEW known \in Seq(Rows)
      PROVE  Keeps(s, r, known, day) =
               \E j \in DOMAIN ClosedBars(known, day) :
                 ClosedBars(known, day)[j].symbol = r.symbol /\ day - ClosedBars(known, day)[j].day >= s.min
  <2>. DEFINE I == {i \in DOMAIN known : known[i].day < day}
              t == ClosedBars(known, day)
  <2>1. s.min \in Int /\ ~(s.min < 1)
    BY <1>2 DEF TypedStep, Today
  <2>2. Keeps(s, r, known, day) = \E i \in DOMAIN known : known[i].symbol = r.symbol /\ day - known[i].day >= s.min
    BY <1>2 DEF Keeps
  <2>3. /\ \A m \in DOMAIN t : \E i \in DOMAIN known : i \in I /\ t[m] = known[i]
        /\ \A i \in DOMAIN known : i \in I => \E m \in DOMAIN t : t[m] = known[i]
    <3>1. t = Picked(known, I)
      BY DEF ClosedBars
    <3>. HIDE DEF I, t
    <3>. QED BY <3>1, PickedRange
  <2>4. \A i \in DOMAIN known : known[i].day \in Int
    <3>1. \A i \in DOMAIN known : known[i] \in Rows
      OBVIOUS
    <3>. QED BY <3>1 DEF Rows
  <2>5. \A i \in DOMAIN known : day - known[i].day >= s.min => i \in I
    BY <2>1, <2>4
  <2>. HIDE DEF I, t
  <2>6. (\E i \in DOMAIN known : known[i].symbol = r.symbol /\ day - known[i].day >= s.min)
          <=> \E j \in DOMAIN t : t[j].symbol = r.symbol /\ day - t[j].day >= s.min
    BY <2>3, <2>5
  <2>7. Keeps(s, r, known, day) = \E j \in DOMAIN t : t[j].symbol = r.symbol /\ day - t[j].day >= s.min
    BY <2>2, <2>6
  <2>. QED BY <2>7 DEF t
<1>3. ASSUME NEW r PROVE Keeps(s, r, a, day) = Keeps(s, r, b, day)
  <2>1. CASE s.id = "filter.listing_age"
    <3>. DEFINE Old(t) == \E j \in DOMAIN t : t[j].symbol = r.symbol /\ day - t[j].day >= s.min
    <3>1. \A known \in Seq(Rows) : Keeps(s, r, known, day) = Old(ClosedBars(known, day))
      BY <1>2, <2>1
    <3>. HIDE DEF Old
    <3>2. Keeps(s, r, a, day) = Old(ClosedBars(a, day))
      BY <3>1
    <3>3. Keeps(s, r, b, day) = Old(ClosedBars(b, day))
      BY <3>1
    <3>. QED BY <3>2, <3>3
  <2>2. CASE s.id # "filter.listing_age"
    BY <2>2 DEF Keeps
  <2>. QED BY <2>1, <2>2
<1>4. Kept(s, rs, a, day) = Kept(s, rs, b, day)
  BY <1>3 DEF Kept
<1>. QED BY <1>1, <1>4 DEF Basic

\* So does a pipeline within a combine step.
LEMMA SameSubResults ==
  ASSUME NEW day \in Int, NEW a \in Seq(Rows), NEW b \in Seq(Rows), ClosedBars(a, day) = ClosedBars(b, day),
         NEW pipeline, TypedPipeline(pipeline), \A s \in Range(pipeline) : ~Today(s), NEW from
  PROVE  SubResults(pipeline, a, day, from) = SubResults(pipeline, b, day, from)
<1>. DEFINE n == Len(pipeline)
            B(i, A) == UNION {Basic(pipeline[i], rs, a, day, from) : rs \in A}
            O(i, A) == UNION {Basic(pipeline[i], rs, b, day, from) : rs \in A}
            f == CHOOSE f : f = [i \in 0..n |-> IF i = 0 THEN {<<>>} ELSE B(i, f[i - 1])]
            g == CHOOSE g : g = [i \in 0..n |-> IF i = 0 THEN {<<>>} ELSE O(i, g[i - 1])]
<1>1. n \in Nat /\ DOMAIN pipeline = 1..n
  BY DEF TypedPipeline, IsList
<1>2. ASSUME NEW i \in 1..n, NEW A PROVE B(i, A) = O(i, A)
  <2>1. pipeline[i] \in Range(pipeline)
    BY <1>1, RangeIs
  <2>2. TypedStep(pipeline[i]) /\ ~Today(pipeline[i])
    BY <2>1 DEF TypedPipeline
  <2>3. \A rs : Basic(pipeline[i], rs, a, day, from) = Basic(pipeline[i], rs, b, day, from)
    BY <2>2, SameBasic
  <2>. QED BY <2>3
<1>3. f = g
  <2>. HIDE DEF B, O, n
  <2>1. \A h : [i \in 0..n |-> IF i = 0 THEN {<<>>} ELSE B(i, h[i - 1])]
              = [i \in 0..n |-> IF i = 0 THEN {<<>>} ELSE O(i, h[i - 1])]
    BY <1>1, <1>2
  <2>. QED BY <2>1
<1>4. SubResults(pipeline, a, day, from) = {Settled(pipeline, rs) : rs \in f[n]}
  BY DEF SubResults, Through, After
<1>5. SubResults(pipeline, b, day, from) = {Settled(pipeline, rs) : rs \in g[n]}
  BY DEF SubResults, Through, After
<1>. HIDE DEF f, g
<1>. QED BY <1>3, <1>4, <1>5

\* So does any step of a plan.
LEMMA SameOutcomes ==
  ASSUME NEW day \in Int, NEW a \in Seq(Rows), NEW b \in Seq(Rows), ClosedBars(a, day) = ClosedBars(b, day),
         NEW s, FitStep(s), ~Today(s),
         s.id \in SelectorsOf.combine => \A sub \in Range(s.pipelines) : \A r \in Range(sub) : ~Today(r),
         NEW rs, NEW from
  PROVE  Outcomes(s, rs, a, day, from) = Outcomes(s, rs, b, day, from)
<1>1. CASE s.id \notin SelectorsOf.combine
  BY <1>1, SameBasic, BasicIsOutcome DEF FitStep
<1>2. CASE s.id \in SelectorsOf.combine
  <2>. DEFINE ps == s.pipelines
              A(i) == SubResults(ps[i], a, day, from)
              B(i) == SubResults(ps[i], b, day, from)
  <2>1. ASSUME NEW i \in DOMAIN ps PROVE A(i) = B(i)
    <3>1. ps[i] \in Range(ps)
      BY RangeIs
    <3>2. TypedPipeline(ps[i]) /\ \A r \in Range(ps[i]) : ~Today(r)
      BY <1>2, <3>1 DEF FitStep, FlatPipeline
    <3>. QED BY <3>2, SameSubResults
  <2>2. Parts(s, a, day, from) =
          {p \in [DOMAIN ps -> UNION {A(i) : i \in DOMAIN ps}] : \A i \in DOMAIN ps : p[i] \in A(i)}
    BY DEF Parts
  <2>3. Parts(s, b, day, from) =
          {p \in [DOMAIN ps -> UNION {B(i) : i \in DOMAIN ps}] : \A i \in DOMAIN ps : p[i] \in B(i)}
    BY DEF Parts
  <2>. HIDE DEF A, B
  <2>4. {A(i) : i \in DOMAIN ps} = {B(i) : i \in DOMAIN ps}
    BY <2>1
  <2>5. Parts(s, a, day, from) = Parts(s, b, day, from)
    BY <2>1, <2>2, <2>3, <2>4
  <2>. QED BY <1>2, <2>5 DEF Outcomes, SelectorsOf
<1>. QED BY <1>1, <1>2

\* So does the plan.
LEMMA SameMade ==
  ASSUME NEW p \in Plans, Compilable(p), ~CountsToday(p),
         NEW day \in Int, NEW a \in Seq(Rows), NEW b \in Seq(Rows), ClosedBars(a, day) = ClosedBars(b, day)
  PROVE  Selections(p, a, day) = Selections(p, b, day)
<1>. DEFINE pl == p.pipeline
            n == Len(pl)
            A(i, R) == UNION {Outcomes(pl[i], rs, a, day, p.from) : rs \in R}
            B(i, R) == UNION {Outcomes(pl[i], rs, b, day, p.from) : rs \in R}
            f == CHOOSE f : f = [i \in 0..n |-> IF i = 0 THEN {<<>>} ELSE A(i, f[i - 1])]
            g == CHOOSE g : g = [i \in 0..n |-> IF i = 0 THEN {<<>>} ELSE B(i, g[i - 1])]
<1>1. n \in Nat /\ DOMAIN pl = 1..n /\ \A s \in Range(pl) : FitStep(s)
  BY FitPlan DEF IsList
<1>2. /\ \A s \in Range(pl) : ~Today(s)
      /\ \A s \in Range(pl) : s.id \in SelectorsOf.combine =>
           \A sub \in Range(s.pipelines) : \A r \in Range(sub) : ~Today(r)
  <2>1. \A pipeline \in PipelinesOf(p) : \A s \in Range(pipeline) : ~Today(s)
    BY DEF CountsToday, Today
  <2>2. pl \in PipelinesOf(p) /\ \A s \in Range(pl) : \A sub \in Range(SubPipelines(s)) : sub \in PipelinesOf(p)
    BY DEF PipelinesOf
  <2>3. \A s \in Range(pl) : s.id \in SelectorsOf.combine => SubPipelines(s) = s.pipelines
    BY PlanAssumption DEF SubPipelines
  <2>. QED BY <2>1, <2>2, <2>3
<1>3. ASSUME NEW i \in 1..n, NEW R PROVE A(i, R) = B(i, R)
  <2>1. pl[i] \in Range(pl)
    BY <1>1, RangeIs
  <2>2. \A rs : Outcomes(pl[i], rs, a, day, p.from) = Outcomes(pl[i], rs, b, day, p.from)
    BY <1>1, <1>2, <2>1, SameOutcomes
  <2>. QED BY <2>2
<1>4. f = g
  <2>. HIDE DEF A, B, n
  <2>1. \A h : [i \in 0..n |-> IF i = 0 THEN {<<>>} ELSE A(i, h[i - 1])]
              = [i \in 0..n |-> IF i = 0 THEN {<<>>} ELSE B(i, h[i - 1])]
    BY <1>1, <1>3
  <2>. QED BY <2>1
<1>5. Selections(p, a, day) = {Settled(pl, rs) : rs \in f[n]}
  BY DEF Selections, Through, After
<1>6. Selections(p, b, day) = {Settled(pl, rs) : rs \in g[n]}
  BY DEF Selections, Through, After
<1>. HIDE DEF f, g
<1>. QED BY <1>4, <1>5, <1>6

\* The invariant says what each snapshot selected, and that depends on the past only.
LEMMA PastStep == IInv => SelectsFromThePast
<1>1. SUFFICES ASSUME IInv, ~CountsToday(plan), NEW i \in DOMAIN snapshots
               PROVE  snapshots[i].rows \in
                        Selections(plan, Loaded(plan, Past(snapshots[i].day)), snapshots[i].day)
  BY DEF SelectsFromThePast, OnlyThePast
<1>. DEFINE day == snapshots[i].day
            past == Past(day)
<1>2. plan \in Plans /\ bars \in Stores /\ Compilable(plan) /\ data = Loaded(plan, bars)
  <2>1. snapshots # <<>>
    OBVIOUS
  <2>. QED BY <1>1, <2>1, StoresAre DEF IInv, TypeOK, Known
<1>3. day \in Int
  <2>. DEFINE M == [day : Int, rows : Seq(Rows)]
  <2>1. snapshots \in Seq(M) /\ \A x \in M : x.day \in Int
    BY <1>1 DEF IInv, TypeOK
  <2>. HIDE DEF M
  <2>. QED BY <1>1, <2>1
<1>4. past \in Stores /\ \A l \in Listings, d \in Days : d < day => bars[l][d] = past[l][d]
  BY <1>2 DEF Past, Stores
<1>. HIDE DEF past, day
<1>5. ClosedBars(Loaded(plan, bars), day) = ClosedBars(Loaded(plan, past), day)
  BY <1>2, <1>3, <1>4, ClosedOfLoaded
<1>6. Loaded(plan, bars) \in Seq(Rows) /\ Loaded(plan, past) \in Seq(Rows)
  BY <1>2, <1>4, LoadedType
<1>7. Selections(plan, Loaded(plan, bars), day) = Selections(plan, Loaded(plan, past), day)
  BY <1>1, <1>2, <1>3, <1>5, <1>6, SameMade
<1>8. snapshots[i].rows \in Selections(plan, data, day)
  BY <1>1 DEF IInv, Selected, day
<1>. QED BY <1>2, <1>7, <1>8 DEF past, day

\* Nothing of the selection date itself, or after it, takes part in a selection, unless a
\* filter.listing_age counts it (closedBars).
THEOREM FromThePast == Spec => []SelectsFromThePast
BY PastStep, Inductive, PTL

-----------------------------------------------------------------------------
(* Combining is a matter of sets                                           *)

\* The instruments of lists behind one another are those of each.
LEMMA KeysOfAll ==
  ASSUME NEW p \in Seq(Seq(Rows))
  PROVE  Keys(FlattenSeq(p)) = UNION {Keys(p[i]) : i \in DOMAIN p}
<1>. DEFINE all == FlattenSeq(p)
<1>1. /\ \A k \in DOMAIN all : \E i \in DOMAIN p : \E j \in DOMAIN p[i] : all[k] = p[i][j]
      /\ \A i \in DOMAIN p : \A j \in DOMAIN p[i] : \E k \in DOMAIN all : all[k] = p[i][j]
  BY FlattenType
<1>. HIDE DEF all
<1>2. ASSUME NEW k \in DOMAIN all PROVE \E i \in DOMAIN p : Key(all[k]) \in Keys(p[i])
  BY <1>1 DEF Keys
<1>3. ASSUME NEW i \in DOMAIN p, NEW key \in Keys(p[i]) PROVE key \in Keys(all)
  <2>1. PICK j \in DOMAIN p[i] : key = Key(p[i][j])
    BY DEF Keys
  <2>2. PICK k \in DOMAIN all : all[k] = p[i][j]
    BY <1>1
  <2>. QED BY <2>1, <2>2 DEF Keys
<1>4. ASSUME NEW key \in Keys(all) PROVE \E i \in DOMAIN p : key \in Keys(p[i])
  BY <1>2 DEF Keys
<1>. QED BY <1>3, <1>4 DEF all

\* combine.union has the instruments of all its parts, each once.
LEMMA UnionIs ==
  ASSUME NEW p \in Seq(Seq(Rows))
  PROVE  /\ Keys(CombineUnion(p)) = UNION {Keys(p[i]) : i \in DOMAIN p}
         /\ OnceEach(CombineUnion(p))
<1>. DEFINE all == FlattenSeq(p)
            keys == Keys(all)
<1>1. all \in Seq(Rows)
  BY FlattenType
<1>2. CombineUnion(p) = Merged(all, keys)
  BY DEF CombineUnion
<1>3. keys = UNION {Keys(p[i]) : i \in DOMAIN p}
  BY KeysOfAll
<1>4. Keys(Merged(all, keys)) = keys /\ OnceEach(Merged(all, keys))
  <2>1. keys \in SUBSET Keys(all)
    OBVIOUS
  <2>. HIDE DEF all, keys
  <2>. QED BY <1>1, <2>1, MergedIs
<1>. QED BY <1>2, <1>3, <1>4

\* combine.difference has the instruments of the first part that no other has.
LEMMA DifferenceIs ==
  ASSUME NEW p, p[1] \in Seq(Rows)
  PROVE  Keys(CombineDifference(p)) = Keys(p[1]) \ UNION {Keys(p[i]) : i \in 2..Len(p)}
<1>. DEFINE rs == p[1]
            gone == UNION {Keys(p[i]) : i \in 2..Len(p)}
            I == {i \in DOMAIN rs : \A j \in 2..Len(p) : Key(rs[i]) \notin Keys(p[j])}
            t == CombineDifference(p)
<1>1. \A i \in DOMAIN rs : i \in I <=> Key(rs[i]) \notin gone
  OBVIOUS
<1>2. t = Picked(rs, I)
  BY DEF CombineDifference
<1>. HIDE DEF I, t, gone, rs
<1>3. /\ \A m \in DOMAIN t : \E i \in DOMAIN rs : i \in I /\ t[m] = rs[i]
      /\ \A i \in DOMAIN rs : i \in I => \E m \in DOMAIN t : t[m] = rs[i]
  <2>1. rs \in Seq(Rows)
    BY DEF rs
  <2>. QED BY <1>2, <2>1, PickedRange
<1>4. \A m \in DOMAIN t : Key(t[m]) \in Keys(rs) \ gone
  BY <1>1, <1>3 DEF Keys
<1>5. ASSUME NEW k \in Keys(rs) \ gone PROVE k \in Keys(t)
  <2>1. PICK i \in DOMAIN rs : k = Key(rs[i])
    BY DEF Keys
  <2>2. PICK m \in DOMAIN t : t[m] = rs[i]
    BY <1>1, <1>3, <1>5, <2>1
  <2>. QED BY <2>1, <2>2 DEF Keys
<1>6. Keys(t) = Keys(rs) \ gone
  BY <1>4, <1>5 DEF Keys
<1>. QED BY <1>6 DEF t, rs, gone

\* Of rows that have every instrument once, at most one is of an instrument.
LEMMA OnceIsOne ==
  ASSUME NEW rs \in Seq(Rows), OnceEach(rs), NEW k
  PROVE  Len(OfKey(rs, k)) = IF k \in Keys(rs) THEN 1 ELSE 0
<1>. DEFINE f == [i \in DOMAIN rs |-> Key(rs[i])]
            D == DOMAIN rs
            S == Keys(rs)
            I == {i \in DOMAIN rs : Key(rs[i]) = k}
            t == OfKey(rs, k)
<1>1. f \in Surjection(D, S)
  BY DEF Surjection, Keys
<1>2. IsFiniteSet(D) /\ IsFiniteSet(S) /\ Cardinality(D) = Cardinality(S)
  <2>1. Len(rs) \in Nat /\ D = 1..Len(rs)
    OBVIOUS
  <2>2. IsFiniteSet(D) /\ Cardinality(D) = Len(rs)
    <3>. HIDE DEF D
    <3>. QED BY <2>1, FS_Interval
  <2>. QED BY <2>2, KeysFinite DEF OnceEach
<1>3. f \in Injection(D, S)
  <2>. HIDE DEF f, D, S
  <2>. QED BY <1>1, <1>2, FS_SurjCardinalityBound, FS_SurjSameCardinalityImpliesInj
<1>4. \A i, j \in DOMAIN rs : Key(rs[i]) = Key(rs[j]) => i = j
  BY <1>3 DEF Injection, IsInjective
<1>5. t = Picked(rs, I)
  BY DEF OfKey
<1>. HIDE DEF f, D, S
<1>6. PICK e \in [DOMAIN t -> DOMAIN rs] :
         /\ \A m \in DOMAIN t : e[m] \in I
         /\ \A m, n \in DOMAIN t : m < n => e[m] < e[n]
  <2>. HIDE DEF I, t
  <2>. QED BY <1>5, PickedElements
<1>7. t \in Seq(Rows) /\ (k \in Keys(rs) => t # <<>>) /\ (k \notin Keys(rs) => t = <<>>)
  BY OfKeyIs
<1>. HIDE DEF t
<1>8. ASSUME Len(t) > 1 PROVE FALSE
  <2>1. 1 \in DOMAIN t /\ 2 \in DOMAIN t
    BY <1>7, <1>8
  <2>2. e[1] \in I /\ e[2] \in I /\ e[1] < e[2] /\ e[1] \in DOMAIN rs /\ e[2] \in DOMAIN rs
    BY <1>6, <2>1
  <2>3. e[1] = e[2]
    BY <1>4, <2>2
  <2>. QED BY <2>2, <2>3
<1>9. Len(t) = IF k \in Keys(rs) THEN 1 ELSE 0
  <2>1. t # <<>> => Len(t) = 1
    <3>. DEFINE l == Len(t)
    <3>1. l \in Nat /\ ~(l > 1) /\ (t # <<>> => l # 0)
      BY <1>7, <1>8
    <3>. HIDE DEF l
    <3>2. l = 0 \/ l = 1
      BY <3>1
    <3>. QED BY <3>1, <3>2 DEF l
  <2>2. t = <<>> => Len(t) = 0
    OBVIOUS
  <2>. QED BY <1>7, <2>1, <2>2, Zenon
<1>. QED BY <1>9 DEF t

\* Lists of at most one element, one behind the other.
LEMMA FlattenOfSingles ==
  ASSUME NEW X
  PROVE  \A ss \in Seq(Seq(X)) :
           (\A i \in DOMAIN ss : Len(ss[i]) <= 1) =>
             /\ Len(FlattenSeq(ss)) <= Len(ss)
             /\ Len(FlattenSeq(ss)) = Len(ss) <=> \A i \in DOMAIN ss : Len(ss[i]) = 1
<1>. DEFINE Y == Seq(X)
            OK(ss) == (\A i \in DOMAIN ss : Len(ss[i]) <= 1) =>
                         /\ Len(FlattenSeq(ss)) <= Len(ss)
                         /\ Len(FlattenSeq(ss)) = Len(ss) <=> \A i \in DOMAIN ss : Len(ss[i]) = 1
            G == {ss \in Seq(Y) : OK(ss)}
<1>1. <<>> \in G
  <2>1. FlattenSeq(<<>>) = <<>>
    BY DEF FlattenSeq
  <2>. QED BY <2>1
<1>2. ASSUME NEW ss \in Seq(Y), NEW s \in Y, ss \in G PROVE Append(ss, s) \in G
  <2>. DEFINE tt == Append(ss, s)
              a == FlattenSeq(ss)
              b == FlattenSeq(tt)
  <2>1. a \in Seq(X) /\ b = a \o s
    BY FlattenType, FlattenAppend
  <2>2. Len(b) = Len(a) + Len(s) /\ Len(a) \in Nat /\ Len(s) \in Nat
    <3>. HIDE DEF a, b
    <3>. QED BY <2>1
  <2>3. /\ tt \in Seq(Y) /\ Len(tt) = Len(ss) + 1 /\ DOMAIN tt = 1..(Len(ss) + 1)
        /\ DOMAIN ss = 1..Len(ss) /\ Len(ss) \in Nat
        /\ (\A i \in 1..Len(ss) : tt[i] = ss[i]) /\ tt[Len(ss) + 1] = s
    <3>. HIDE DEF Y
    <3>. QED OBVIOUS
  <2>4. SUFFICES ASSUME \A i \in DOMAIN tt : Len(tt[i]) <= 1
                 PROVE  /\ Len(b) <= Len(tt)
                        /\ Len(b) = Len(tt) <=> \A i \in DOMAIN tt : Len(tt[i]) = 1
    BY <2>3
  <2>. HIDE DEF tt
  <2>5. \A i \in DOMAIN ss : Len(ss[i]) <= 1
    <3>1. ASSUME NEW i \in 1..Len(ss) PROVE Len(ss[i]) <= 1
      <4>1. i \in DOMAIN tt /\ tt[i] = ss[i]
        BY <2>3
      <4>. QED BY <2>4, <4>1
    <3>. QED BY <2>3, <3>1
  <2>6. Len(s) <= 1
    <3>1. Len(ss) + 1 \in DOMAIN tt
      BY <2>3
    <3>. QED BY <2>3, <2>4, <3>1
  <2>7. Len(a) <= Len(ss) /\ (Len(a) = Len(ss) <=> \A i \in DOMAIN ss : Len(ss[i]) = 1)
    BY <1>2, <2>5
  <2>8. (\A i \in DOMAIN tt : Len(tt[i]) = 1) <=> (\A i \in DOMAIN ss : Len(ss[i]) = 1) /\ Len(s) = 1
    <3>1. \A i \in DOMAIN ss : i \in DOMAIN tt /\ tt[i] = ss[i]
      BY <2>3
    <3>2. \A i \in DOMAIN tt : i \in DOMAIN ss \/ i = Len(ss) + 1
      BY <2>3
    <3>3. Len(ss) + 1 \in DOMAIN tt
      BY <2>3
    <3>. QED BY <2>3, <3>1, <3>2, <3>3
  <2>. DEFINE one == \A i \in DOMAIN ss : Len(ss[i]) = 1
              all == \A i \in DOMAIN tt : Len(tt[i]) = 1
              la == Len(a)
              lb == Len(b)
              ls == Len(s)
              n == Len(ss)
              m == Len(tt)
  <2>9. /\ la <= n /\ (la = n <=> one) /\ (all <=> one /\ ls = 1)
        /\ lb = la + ls /\ la \in Nat /\ ls \in Nat /\ n \in Nat /\ m = n + 1 /\ ls <= 1
    BY <2>2, <2>3, <2>6, <2>7, <2>8
  <2>. HIDE DEF a, b, one, all, la, lb, ls, n, m
  <2>10. lb <= m
    BY <2>9
  <2>11. CASE one
    <3>1. la = n
      BY <2>9, <2>11
    <3>2. lb = m => ls = 1
      BY <2>9, <3>1
    <3>3. ls = 1 => lb = m
      BY <2>9, <3>1
    <3>4. lb = m <=> all
      BY <2>9, <2>11, <3>2, <3>3, Zenon
    <3>. QED BY <2>10, <3>4 DEF all, lb, m
  <2>12. CASE ~one
    <3>1. la # n /\ ~all
      BY <2>9, <2>12, Zenon
    <3>2. lb # m
      BY <2>9, <3>1
    <3>. QED BY <2>10, <3>1, <3>2 DEF all, lb, m
  <2>. QED BY <2>11, <2>12
<1>3. Seq(Y) \subseteq G
  <2>. HIDE DEF G, Y
  <2>. QED BY <1>1, <1>2, ListInduction
<1>. QED BY <1>3

\* combine.intersect has the common instruments, where no part has one twice.
LEMMA IntersectIs ==
  ASSUME NEW p \in Seq(Seq(Rows)), \A i \in DOMAIN p : OnceEach(p[i])
  PROVE  Keys(CombineIntersect(p)) = Common(p)
<1>. DEFINE all == FlattenSeq(p)
            E(k) == {r \in Rows : Key(r) = k}
            common == {k \in Keys(all) : Len(OfKey(all, k)) = Len(p)}
<1>1. all \in Seq(Rows)
  BY FlattenType
<1>2. ASSUME NEW rs \in Seq(Rows), NEW k PROVE OfKey(rs, k) = Where(rs, E(k))
  <2>1. {i \in DOMAIN rs : Key(rs[i]) = k} = {i \in DOMAIN rs : rs[i] \in E(k)}
    <3>1. \A i \in DOMAIN rs : rs[i] \in Rows
      OBVIOUS
    <3>. QED BY <3>1
  <2>. QED BY <2>1 DEF OfKey, Where
<1>3. ASSUME NEW i \in DOMAIN p PROVE p[i] \in Seq(Rows)
  <2>. DEFINE Y == Seq(Rows)
  <2>1. p \in Seq(Y)
    OBVIOUS
  <2>. HIDE DEF Y
  <2>2. p[i] \in Y
    BY <2>1
  <2>. QED BY <2>2 DEF Y
<1>4. ASSUME NEW k PROVE Len(OfKey(all, k)) = Len(p) <=> \A i \in DOMAIN p : k \in Keys(p[i])
  <2>. DEFINE ss == [i \in DOMAIN p |-> Where(p[i], E(k))]
              Y == Seq(Rows)
  <2>1. OfKey(all, k) = FlattenSeq(ss)
    <3>1. OfKey(all, k) = Where(all, E(k))
      BY <1>1, <1>2
    <3>. HIDE DEF E
    <3>2. Where(FlattenSeq(p), E(k)) = FlattenSeq([i \in DOMAIN p |-> Where(p[i], E(k))])
      BY WhereFlatten
    <3>. QED BY <3>1, <3>2
  <2>2. \A i \in DOMAIN p : Len(ss[i]) = IF k \in Keys(p[i]) THEN 1 ELSE 0
    <3>1. ASSUME NEW i \in DOMAIN p PROVE Len(Where(p[i], E(k))) = IF k \in Keys(p[i]) THEN 1 ELSE 0
      <4>1. Where(p[i], E(k)) = OfKey(p[i], k)
        BY <1>2, <1>3
      <4>. QED BY <1>3, <4>1, OnceIsOne
    <3>. HIDE DEF E
    <3>. QED BY <3>1
  <2>3. ss \in Seq(Y) /\ Len(ss) = Len(p) /\ DOMAIN ss = DOMAIN p
    <3>1. ss \in [DOMAIN p -> Y]
      <4>. HIDE DEF E
      <4>. QED BY <1>3, WhereType
    <3>. HIDE DEF ss
    <3>2. p \in Seq(Y)
      OBVIOUS
    <3>. HIDE DEF Y
    <3>. QED BY <3>1, <3>2, EachType
  <2>. HIDE DEF ss
  <2>4. Len(FlattenSeq(ss)) = Len(ss) <=> \A i \in DOMAIN ss : Len(ss[i]) = 1
    <3>1. \A i \in DOMAIN ss : Len(ss[i]) <= 1
      <4>1. ASSUME NEW i \in DOMAIN p PROVE Len(ss[i]) <= 1
        <5>1. Len(ss[i]) = 1 \/ Len(ss[i]) = 0
          BY <2>2
        <5>. DEFINE l == Len(ss[i])
        <5>2. l = 1 \/ l = 0
          BY <5>1
        <5>. HIDE DEF l
        <5>3. l <= 1
          BY <5>2
        <5>. QED BY <5>3 DEF l
      <4>. QED BY <2>3, <4>1
    <3>. QED BY <2>3, <3>1, FlattenOfSingles
  <2>5. \A i \in DOMAIN p : Len(ss[i]) = 1 <=> k \in Keys(p[i])
    <3>1. ASSUME NEW i \in DOMAIN p PROVE Len(ss[i]) = 1 <=> k \in Keys(p[i])
      <4>1. k \in Keys(p[i]) => Len(ss[i]) = 1
        BY <2>2
      <4>2. k \notin Keys(p[i]) => Len(ss[i]) = 0
        BY <2>2
      <4>3. 0 # 1
        OBVIOUS
      <4>. QED BY <4>1, <4>2, <4>3, Zenon
    <3>. QED BY <3>1
  <2>6. Len(OfKey(all, k)) = Len(p) <=> Len(FlattenSeq(ss)) = Len(ss)
    BY <2>1, <2>3
  <2>. QED BY <2>3, <2>4, <2>5, <2>6
<1>5. CombineIntersect(p) = Merged(all, common)
  BY DEF CombineIntersect
<1>6. Keys(Merged(all, common)) = common
  <2>1. common \in SUBSET Keys(all)
    OBVIOUS
  <2>. HIDE DEF common, all
  <2>. QED BY <1>1, <2>1, MergedIs
<1>7. Keys(all) = UNION {Keys(p[i]) : i \in DOMAIN p}
  BY KeysOfAll
<1>8. common = Common(p)
  <2>. HIDE DEF all
  <2>. QED BY <1>4, <1>7 DEF Common
<1>. QED BY <1>5, <1>6, <1>8

\* The step of a running pipeline.
LEMMA StepNow ==
  ASSUME IInv, status = "running", todo # <<>>, step <= Len(plan.pipeline)
  PROVE  /\ FitStep(plan.pipeline[step]) /\ data \in Seq(Rows) /\ rows \in Seq(Rows)
<1>1. /\ plan \in Plans /\ Compilable(plan) /\ data \in Seq(Rows) /\ rows \in Seq(Rows) /\ step \in Nat \ {0}
  BY DEF IInv, TypeOK, Known
<1>2. step \in 1..Len(plan.pipeline)
  BY <1>1, PlanSafe
<1>. QED BY <1>1, <1>2, PlanSafe

\* A combine step under the invariant combines lists of rows.
LEMMA CombineStep == IInv => CombinesAsSets
<1>. SUFFICES ASSUME IInv PROVE CombinesAsSets
  OBVIOUS
<1>. DEFINE s == plan.pipeline[step]
            All == Parts(s, data, Head(todo), plan.from)
<1>1. ASSUME NEW id \in SelectorsOf.combine, AtStep(id), NEW p \in All
      PROVE  p \in Seq(Seq(Rows)) /\ (p # <<>> => p[1] \in Seq(Rows))
  <2>1. FitStep(s) /\ s.id = id /\ data \in Seq(Rows)
    BY <1>1, StepNow DEF AtStep
  <2>. DEFINE Y == Seq(Rows)
  <2>2. p \in Seq(Y)
    BY <2>1, PartsType DEF FitStep
  <2>3. p # <<>> => p[1] \in Y
    <3>. HIDE DEF Y
    <3>. QED BY <2>2
  <2>. QED BY <2>2, <2>3
<1>2. AtStep("combine.union") =>
        \A p \in All : /\ Keys(CombineUnion(p)) = UNION {Keys(p[i]) : i \in DOMAIN p}
                       /\ OnceEach(CombineUnion(p))
  <2>1. "combine.union" \in SelectorsOf.combine
    BY DEF SelectorsOf
  <2>. HIDE DEF All
  <2>. QED BY <1>1, <2>1, UnionIs
<1>3. AtStep("combine.difference") =>
        \A p \in All \ {<<>>} : Keys(CombineDifference(p)) =
                                  Keys(p[1]) \ UNION {Keys(p[i]) : i \in 2..Len(p)}
  <2>1. "combine.difference" \in SelectorsOf.combine
    BY DEF SelectorsOf
  <2>. HIDE DEF All
  <2>. QED BY <1>1, <2>1, DifferenceIs
<1>4. AtStep("combine.intersect") =>
        \A p \in All : (\A i \in DOMAIN p : OnceEach(p[i])) => Keys(CombineIntersect(p)) = Common(p)
  <2>1. "combine.intersect" \in SelectorsOf.combine
    BY DEF SelectorsOf
  <2>. HIDE DEF All
  <2>. QED BY <1>1, <2>1, IntersectIs
<1>. QED BY <1>2, <1>3, <1>4 DEF CombinesAsSets

\* The steps that combine pipelines are operations on sets of instruments (combineUnion,
\* combineDifference; combineIntersect where no pipeline brings an instrument twice).
THEOREM AsSets == Spec => []CombinesAsSets
BY CombineStep, Inductive, PTL

-----------------------------------------------------------------------------
(* Sorting by a number, then by two more                                   *)

\* The lexical order of three numbers.
LEMMA BelowOfThree ==
  ASSUME NEW a \in Int, NEW b \in Int, NEW c \in Int, NEW x \in Int, NEW y \in Int, NEW z \in Int
  PROVE  Below(<<a, b, c>>, <<x, y, z>>) <=> a < x \/ (a = x /\ b < y) \/ (a = x /\ b = y /\ c < z)
<1>. DEFINE u == <<a, b, c>>
            v == <<x, y, z>>
<1>1. DOMAIN u = {1, 2, 3}
  OBVIOUS
<1>2. u[1] = a /\ u[2] = b /\ u[3] = c /\ v[1] = x /\ v[2] = y /\ v[3] = z
  OBVIOUS
<1>3. 1..(1 - 1) = {} /\ 1..(2 - 1) = {1} /\ 1..(3 - 1) = {1, 2}
  OBVIOUS
<1>. HIDE DEF u, v
<1>4. Below(u, v) <=> \/ u[1] < v[1]
                      \/ u[2] < v[2] /\ u[1] = v[1]
                      \/ u[3] < v[3] /\ u[1] = v[1] /\ u[2] = v[2]
  BY <1>1, <1>3 DEF Below
<1>. QED BY <1>2, <1>4 DEF u, v

\* Pairs of places of which the first is below the second.
Lexical(less, D, f, g, h) ==
  \A p, q \in D :
    <<p, q>> \in less <=> f[p] < f[q] \/ (f[p] = f[q] /\ g[p] < g[q]) \/ (f[p] = f[q] /\ g[p] = g[q] /\ h[p] < h[q])

\* A lexical order by three numbers is a weak order.
LEMMA LexicalIsWeak ==
  ASSUME NEW D, NEW f \in [D -> Int], NEW g \in [D -> Int], NEW h \in [D -> Int],
         NEW less, Lexical(less, D, f, g, h)
  PROVE  WeakOrder(less, D)
<1>1. ASSUME NEW x \in D, NEW y \in D, <<x, y>> \in less PROVE <<y, x>> \notin less
  <2>1. f[x] \in Int /\ g[x] \in Int /\ h[x] \in Int /\ f[y] \in Int /\ g[y] \in Int /\ h[y] \in Int
    OBVIOUS
  <2>2. f[x] < f[y] \/ (f[x] = f[y] /\ g[x] < g[y]) \/ (f[x] = f[y] /\ g[x] = g[y] /\ h[x] < h[y])
    BY <1>1 DEF Lexical
  <2>3. ~(f[y] < f[x] \/ (f[y] = f[x] /\ g[y] < g[x]) \/ (f[y] = f[x] /\ g[y] = g[x] /\ h[y] < h[x]))
    BY <2>1, <2>2
  <2>. QED BY <2>3 DEF Lexical
<1>2. ASSUME NEW x \in D, NEW y \in D, NEW z \in D, <<x, y>> \notin less, <<y, z>> \notin less
      PROVE  <<x, z>> \notin less
  <2>1. /\ f[x] \in Int /\ g[x] \in Int /\ h[x] \in Int /\ f[y] \in Int /\ g[y] \in Int /\ h[y] \in Int
        /\ f[z] \in Int /\ g[z] \in Int /\ h[z] \in Int
    OBVIOUS
  <2>2. /\ ~(f[x] < f[y] \/ (f[x] = f[y] /\ g[x] < g[y]) \/ (f[x] = f[y] /\ g[x] = g[y] /\ h[x] < h[y]))
        /\ ~(f[y] < f[z] \/ (f[y] = f[z] /\ g[y] < g[z]) \/ (f[y] = f[z] /\ g[y] = g[z] /\ h[y] < h[z]))
    BY <1>2 DEF Lexical
  <2>3. ~(f[x] < f[z] \/ (f[x] = f[z] /\ g[x] < g[z]) \/ (f[x] = f[z] /\ g[x] = g[z] /\ h[x] < h[z]))
    BY <2>1, <2>2
  <2>. QED BY <2>3 DEF Lexical
<1>. QED BY <1>1, <1>2 DEF WeakOrder

\* 1..n in another order, and one in which the numbers f are sorted.
Reorders(order, n) ==
  /\ order \in [1..n -> 1..n]
  /\ \A j, k \in 1..n : order[j] = order[k] => j = k
  /\ \A i \in 1..n : \E k \in 1..n : order[k] = i

Ascending(order, n, f) == \A j, k \in 1..n : j <= k => f[order[j]] <= f[order[k]]

\* A sort leaves the first of the numbers in order.
LEMMA LexicalSort ==
  ASSUME NEW n \in Nat, NEW f \in [1..n -> Int], NEW g \in [1..n -> Int], NEW h \in [1..n -> Int],
         NEW less, Lexical(less, 1..n, f, g, h), NEW order, order = InsertionSort(n, less)
  PROVE  Reorders(order, n) /\ Ascending(order, n, f)
<1>1. /\ order \in [1..n -> 1..n]
      /\ \A j, k \in 1..n : order[j] = order[k] => j = k
      /\ \A i \in 1..n : \E k \in 1..n : order[k] = i
      /\ WeakOrder(less, 1..n) => \A j, k \in 1..n : j < k => <<order[k], order[j]>> \notin less
  <2>. DEFINE G(t) ==
                      /\ t \in [1..n -> 1..n]
                      /\ \A j, k \in 1..n : t[j] = t[k] => j = k
                      /\ \A i \in 1..n : \E k \in 1..n : t[k] = i
                      /\ WeakOrder(less, 1..n) => \A j, k \in 1..n : j < k => <<t[k], t[j]>> \notin less
  <2>1. G(InsertionSort(n, less))
    BY InsertionSorts
  <2>. HIDE DEF G
  <2>2. G(order)
    BY <2>1
  <2>. QED BY <2>2 DEF G
<1>2. WeakOrder(less, 1..n)
  BY LexicalIsWeak
<1>3. ASSUME NEW j \in 1..n, NEW k \in 1..n, j <= k PROVE f[order[j]] <= f[order[k]]
  <2>1. f[order[j]] \in Int /\ f[order[k]] \in Int /\ order[j] \in 1..n /\ order[k] \in 1..n
    BY <1>1
  <2>2. CASE j = k
    BY <2>1, <2>2
  <2>3. CASE j # k
    <3>1. j < k
      BY <1>3, <2>3
    <3>2. <<order[k], order[j]>> \notin less
      BY <1>1, <1>2, <3>1
    <3>3. ~(f[order[k]] < f[order[j]])
      BY <2>1, <3>2 DEF Lexical
    <3>. QED BY <2>1, <3>3
  <2>. QED BY <2>2, <2>3
<1>. QED BY <1>1, <1>3 DEF Reorders, Ascending

\* A set of places has as many as their places in another order.
LEMMA CountInOrder ==
  ASSUME NEW n \in Nat, NEW order, Reorders(order, n),
         NEW T \in SUBSET (1..n), NEW S, S = {k \in 1..n : order[k] \in T}
  PROVE  Cardinality(S) = Cardinality(T)
<1>. DEFINE f == [k \in S |-> order[k]]
<1>1. f \in Injection(S, T)
  BY DEF Injection, IsInjective, Reorders
<1>2. f \in Surjection(S, T)
  BY DEF Surjection, Reorders
<1>3. IsFiniteSet(T)
  <2>. DEFINE D == 1..n
  <2>1. IsFiniteSet(D) /\ T \in SUBSET D
    BY FS_Interval
  <2>. HIDE DEF D
  <2>. QED BY <2>1, FS_Subset
<1>. HIDE DEF f
<1>. QED BY <1>1, <1>2, <1>3, FS_Injection

\* How many numbers are less than one of them, equal to it and greater, in their order.
LEMMA CountSorted ==
  ASSUME NEW n \in Nat, NEW w \in [1..n -> Int], \A j, k \in 1..n : j <= k => w[j] <= w[k],
         NEW a \in 1..n, NEW b \in 1..n, w[a] = w[b],
         \A k \in 1..n : w[k] = w[a] => a <= k /\ k <= b
  PROVE  /\ Cardinality({k \in 1..n : w[k] < w[a]}) = a - 1
         /\ Cardinality({k \in 1..n : w[k] = w[a]}) = b - a + 1
         /\ Cardinality({k \in 1..n : w[k] > w[a]}) = n - b
<1>1. a <= b
  OBVIOUS
<1>2. \A k \in 1..n : w[k] \in Int
  OBVIOUS
<1>3. \A k \in 1..n : k <= a => w[k] <= w[a]
  OBVIOUS
<1>4. \A k \in 1..n : a <= k => w[a] <= w[k]
  OBVIOUS
<1>5. \A k \in 1..n : k <= b => w[k] <= w[a]
  <2>1. \A k \in 1..n : k <= b => w[k] <= w[b]
    OBVIOUS
  <2>. QED BY <2>1
<1>6. \A k \in 1..n : b <= k => w[a] <= w[k]
  <2>1. \A k \in 1..n : b <= k => w[b] <= w[k]
    OBVIOUS
  <2>. QED BY <2>1
<1>7. {k \in 1..n : w[k] < w[a]} = 1..(a - 1)
  <2>1. ASSUME NEW k \in 1..n PROVE w[k] < w[a] <=> k < a
    <3>1. w[k] < w[a] => k < a
      BY <1>2, <1>4
    <3>2. k < a => w[k] <= w[a] /\ w[k] # w[a]
      BY <1>3
    <3>. QED BY <1>2, <3>1, <3>2
  <2>. QED BY <2>1
<1>8. {k \in 1..n : w[k] = w[a]} = a..b
  <2>1. ASSUME NEW k \in 1..n, a <= k, k <= b PROVE w[k] = w[a]
    <3>1. w[k] <= w[a] /\ w[a] <= w[k]
      BY <1>4, <1>5, <2>1
    <3>. QED BY <1>2, <3>1
  <2>. QED BY <2>1
<1>9. {k \in 1..n : w[k] > w[a]} = (b + 1)..n
  <2>1. ASSUME NEW k \in 1..n PROVE w[k] > w[a] <=> k > b
    <3>1. w[k] > w[a] => k > b
      BY <1>2, <1>5
    <3>2. k > b => w[a] <= w[k] /\ w[k] # w[a]
      BY <1>6
    <3>. QED BY <1>2, <3>1, <3>2
  <2>. QED BY <2>1
<1>10. Cardinality(1..(a - 1)) = a - 1
  <2>1. a - 1 \in Int /\ (1 > a - 1 => a - 1 = 0)
    OBVIOUS
  <2>2. Cardinality(1..(a - 1)) = IF 1 > a - 1 THEN 0 ELSE (a - 1) - 1 + 1
    BY <2>1, FS_Interval
  <2>. QED BY <2>1, <2>2
<1>11. Cardinality(a..b) = b - a + 1
  BY <1>1, FS_Interval
<1>12. Cardinality((b + 1)..n) = n - b
  <2>1. b + 1 \in Int /\ n \in Int /\ (b + 1 > n => n - b = 0)
    OBVIOUS
  <2>2. Cardinality((b + 1)..n) = IF b + 1 > n THEN 0 ELSE n - (b + 1) + 1
    BY <2>1, FS_Interval
  <2>. QED BY <2>1, <2>2
<1>. QED BY <1>7, <1>8, <1>9, <1>10, <1>11, <1>12

-----------------------------------------------------------------------------
(* Percentile scores                                                       *)

Less(rs, field, x) == Cardinality({i \in DOMAIN rs : rs[i][field] < x})
Same(rs, field, x) == Cardinality({i \in DOMAIN rs : rs[i][field] = x})
More(rs, field, x) == Cardinality({i \in DOMAIN rs : rs[i][field] > x})

\* The percentile of a row, counted: twice the rows it is better than, and the other
\* ones equal to it (percentileScores, which looks for the ends of the run in a sorted list).
LEMMA PercentileIs ==
  ASSUME NEW rs \in Seq(Rows), NEW field \in Columns, NEW direction,
         \A i \in DOMAIN rs : rs[i][field] # NaN, NEW at \in DOMAIN rs, Len(rs) # 1
  PROVE  /\ Less(rs, field, rs[at][field]) \in Int
         /\ More(rs, field, rs[at][field]) \in Int
         /\ Same(rs, field, rs[at][field]) \in Int
         /\ PercentileScores(rs, field, direction)[at] =
              (IF direction = "asc" THEN 2 * More(rs, field, rs[at][field]) ELSE 2 * Less(rs, field, rs[at][field]))
                + Same(rs, field, rs[at][field]) - 1
<1>. DEFINE n == Len(rs)
            D == DOMAIN rs
            f == [i \in 1..n |-> rs[i][field]]
            g == [i \in 1..n |-> rs[i].type]
            h == [i \in 1..n |-> rs[i].symbol]
            less == {p \in D \X D : Below(<<Cmp(rs[p[1]][field], rs[p[2]][field]), rs[p[1]].type, rs[p[1]].symbol>>,
                                          <<0, rs[p[2]].type, rs[p[2]].symbol>>)}
            places == Order(rs, LAMBDA a, b : Below(<<Cmp(a[field], b[field]), a.type, a.symbol>>,
                                                   <<0, b.type, b.symbol>>))
            Value(k) == rs[places[k]][field]
            Tied(k, l) == k = l \/ (Value(k) = Value(l) /\ Value(k) # NaN)
            Run(k) == {j \in 1..n : \A l \in (j..k) \cup (k..j) : Tied(k, l)}
            Place(i) == CHOOSE k \in 1..n : places[k] = i
            Rank(i) == (Min(Run(Place(i))) - 1) + (Max(Run(Place(i))) - 1)
            place == Place(at)
            run == Run(place)
<1>1. n \in Nat /\ D = 1..n /\ \A i \in 1..n : rs[i] \in Rows
  OBVIOUS
<1>2. \A i \in 1..n : rs[i][field] \in Int /\ rs[i].type \in Int /\ rs[i].symbol \in Int
  <2>1. \A i \in 1..n : rs[i][field] \in Int
    BY <1>1, ColumnType
  <2>2. \A i \in 1..n : rs[i].type \in Int /\ rs[i].symbol \in Int
    BY <1>1 DEF Rows
  <2>. QED BY <2>1, <2>2
<1>3. f \in [1..n -> Int] /\ g \in [1..n -> Int] /\ h \in [1..n -> Int]
  BY <1>2
<1>4. Lexical(less, 1..n, f, g, h)
  <2>1. ASSUME NEW p \in 1..n, NEW q \in 1..n
        PROVE  <<p, q>> \in less <=>
                 f[p] < f[q] \/ (f[p] = f[q] /\ g[p] < g[q]) \/ (f[p] = f[q] /\ g[p] = g[q] /\ h[p] < h[q])
    <3>. DEFINE gap == Cmp(rs[p][field], rs[q][field])
    <3>1. rs[p][field] \in Int /\ rs[q][field] \in Int /\ rs[p][field] # NaN /\ rs[q][field] # NaN
      BY <1>1, <1>2
    <3>2. gap = rs[p][field] - rs[q][field]
      BY <3>1 DEF Cmp
    <3>3. gap = f[p] - f[q] /\ gap \in Int /\ f[p] \in Int /\ f[q] \in Int
      BY <3>1, <3>2
    <3>4. <<p, q>> \in less <=> Below(<<gap, rs[p].type, rs[p].symbol>>, <<0, rs[q].type, rs[q].symbol>>)
      BY <1>1
    <3>5. /\ rs[p].type = g[p] /\ rs[q].type = g[q] /\ rs[p].symbol = h[p] /\ rs[q].symbol = h[q]
          /\ g[p] \in Int /\ g[q] \in Int /\ h[p] \in Int /\ h[q] \in Int
      BY <1>2
    <3>. HIDE DEF gap, less, f, g, h
    <3>6. <<p, q>> \in less <=> Below(<<gap, g[p], h[p]>>, <<0, g[q], h[q]>>)
      BY <3>4, <3>5
    <3>7. Below(<<gap, g[p], h[p]>>, <<0, g[q], h[q]>>) <=>
            gap < 0 \/ (gap = 0 /\ g[p] < g[q]) \/ (gap = 0 /\ g[p] = g[q] /\ h[p] < h[q])
      <4>. DEFINE gp == g[p]
                  hp == h[p]
                  gq == g[q]
                  hq == h[q]
      <4>1. gp \in Int /\ hp \in Int /\ gq \in Int /\ hq \in Int
        BY <3>5
      <4>. HIDE DEF gp, hp, gq, hq
      <4>2. Below(<<gap, gp, hp>>, <<0, gq, hq>>) <=> gap < 0 \/ (gap = 0 /\ gp < gq) \/ (gap = 0 /\ gp = gq /\ hp < hq)
        BY <3>3, <4>1, BelowOfThree, SMTT(30)
      <4>. QED BY <4>2 DEF gp, hp, gq, hq
    <3>8. (gap < 0 <=> f[p] < f[q]) /\ (gap = 0 <=> f[p] = f[q])
      BY <3>3
    <3>. QED BY <3>6, <3>7, <3>8
  <2>. HIDE DEF less, f, g, h
  <2>. QED BY <2>1 DEF Lexical
<1>5. places = InsertionSort(n, less)
  BY DEF Order
<1>6. PercentileScores(rs, field, direction) =
        [i \in 1..n |-> IF n = 1 THEN 1
                        ELSE IF direction = "asc" THEN 2 * (n - 1) - Rank(i) ELSE Rank(i)]
  BY DEF PercentileScores
<1>7. Rank(at) = (Min(run) - 1) + (Max(run) - 1)
  OBVIOUS
<1>. HIDE DEF places, less, g, h
<1>22. Reorders(places, n) /\ Ascending(places, n, f)
  <2>1. n \in Nat
    BY <1>1
  <2>. HIDE DEF f, n, D, Value, Tied, Run, Place, Rank, place, run
  <2>. QED BY <1>3, <1>4, <1>5, <2>1, LexicalSort
<1>8. /\ places \in [1..n -> 1..n]
      /\ \A j, k \in 1..n : places[j] = places[k] => j = k
      /\ \A i \in 1..n : \E k \in 1..n : places[k] = i
      /\ \A j, k \in 1..n : j <= k => f[places[j]] <= f[places[k]]
  BY <1>22 DEF Reorders, Ascending
<1>9. place \in 1..n /\ places[place] = at
  <2>1. at \in 1..n
    BY <1>1
  <2>2. \E k \in 1..n : places[k] = at
    BY <1>8, <2>1
  <2>. QED BY <2>2
<1>. DEFINE w == [k \in 1..n |-> f[places[k]]]
            x == rs[at][field]
<1>10. /\ w \in [1..n -> Int] /\ w[place] = x /\ x \in Int
       /\ \A j, k \in 1..n : j <= k => w[j] <= w[k]
       /\ \A k \in 1..n : w[k] = Value(k) /\ w[k] # NaN
  <2>1. \A k \in 1..n : places[k] \in 1..n
    BY <1>8
  <2>2. \A k \in 1..n : w[k] = Value(k)
    BY <2>1
  <2>3. \A k \in 1..n : w[k] \in Int /\ w[k] # NaN
    BY <1>1, <1>2, <2>1, <2>2
  <2>4. \A j, k \in 1..n : j <= k => w[j] <= w[k]
    <3>. HIDE DEF f
    <3>. QED BY <1>8
  <2>5. w[place] = x
    BY <1>9, <2>2
  <2>. HIDE DEF place
  <2>6. x \in Int
    BY <1>9, <2>3, <2>5
  <2>. QED BY <2>2, <2>3, <2>4, <2>5, <2>6
<1>11. run = {k \in 1..n : w[k] = x}
  <2>. DEFINE m == place
  <2>1. m \in 1..n
    BY <1>9
  <2>2. run = {j \in 1..n : \A l \in (j..m) \cup (m..j) : Tied(m, l)}
    OBVIOUS
  <2>3. \A l \in 1..n : Tied(m, l) <=> w[l] = x
    BY <1>10, <2>1
  <2>. HIDE DEF m, w, Tied, x, run
  <2>4. w[m] = x
    BY <1>10 DEF m
  <2>5. ASSUME NEW j \in 1..n PROVE (\A l \in (j..m) \cup (m..j) : Tied(m, l)) <=> w[j] = x
    <3>1. j \in (j..m) \cup (m..j)
      <4>1. n \in Nat
        BY <1>1
      <4>. HIDE DEF n
      <4>. QED BY <2>1, <4>1
    <3>2. (\A l \in (j..m) \cup (m..j) : Tied(m, l)) => w[j] = x
      BY <2>3, <3>1
    <3>3. ASSUME w[j] = x, NEW l \in (j..m) \cup (m..j) PROVE Tied(m, l)
      <4>1. l \in 1..n /\ l \in Int /\ ((j <= l /\ l <= m) \/ (m <= l /\ l <= j))
        <5>1. n \in Nat
          BY <1>1
        <5>. HIDE DEF n
        <5>2. j \in Int /\ m \in Int /\ 1 <= j /\ j <= n /\ 1 <= m /\ m <= n
          BY <2>1, <5>1
        <5>3. l \in j..m => l \in Int /\ j <= l /\ l <= m
          BY <5>2
        <5>4. l \in m..j => l \in Int /\ m <= l /\ l <= j
          BY <5>2
        <5>5. l \in Int /\ ((j <= l /\ l <= m) \/ (m <= l /\ l <= j))
          <6>1. CASE l \in j..m
            BY <5>3, <6>1
          <6>2. CASE l \in m..j
            BY <5>4, <6>2
          <6>. QED BY <6>1, <6>2
        <5>6. 1 <= l /\ l <= n
          BY <5>1, <5>2, <5>5
        <5>. QED BY <5>1, <5>5, <5>6
      <4>2. w[l] \in Int /\ w[j] \in Int /\ w[m] \in Int
        BY <1>10, <2>1, <4>1
      <4>3. CASE j <= l /\ l <= m
        <5>1. w[j] <= w[l] /\ w[l] <= w[m]
          BY <1>10, <2>1, <4>1, <4>3
        <5>. QED BY <2>3, <2>4, <3>3, <4>1, <4>2, <5>1
      <4>4. CASE m <= l /\ l <= j
        <5>1. w[m] <= w[l] /\ w[l] <= w[j]
          BY <1>10, <2>1, <4>1, <4>4
        <5>. QED BY <2>3, <2>4, <3>3, <4>1, <4>2, <5>1
      <4>. QED BY <4>1, <4>3, <4>4
    <3>. QED BY <3>2, <3>3
  <2>. QED BY <2>2, <2>5
<1>. HIDE DEF Value, Tied, Place
<1>. DEFINE a == Min(run)
            b == Max(run)
<1>12. a \in run /\ b \in run /\ \A k \in run : a <= k /\ k <= b
  <2>. DEFINE R == {k \in 1..n : w[k] = x}
  <2>1. R \in SUBSET Nat /\ R \in SUBSET (0..n) /\ place \in R
    <3>. HIDE DEF w, x, place
    <3>. QED BY <1>1, <1>9, <1>10
  <2>. HIDE DEF R, n
  <2>2. R # {} /\ n \in Nat
    BY <1>1, <2>1
  <2>3. Min(R) \in R /\ Max(R) \in R /\ \A k \in R : Min(R) <= k /\ Max(R) >= k
    BY <2>1, <2>2, LeastIsOne, GreatestIsOne
  <2>4. R \subseteq Int
    BY <2>1
  <2>5. run = R
    BY <1>11 DEF R
  <2>. HIDE DEF run
  <2>6. \A k \in R : Min(R) <= k /\ k <= Max(R)
    <3>1. \A k \in R : k \in Int
      BY <2>4
    <3>. QED BY <2>3, <3>1
  <2>. QED BY <2>3, <2>5, <2>6
<1>. HIDE DEF run, place
<1>13. a \in 1..n /\ b \in 1..n /\ w[a] = x /\ w[b] = x /\ \A k \in 1..n : w[k] = x => a <= k /\ k <= b
  <2>. HIDE DEF a, b, w, x
  <2>. QED BY <1>11, <1>12
<1>. HIDE DEF a, b
<1>14. /\ Cardinality({k \in 1..n : w[k] < x}) = a - 1
       /\ Cardinality({k \in 1..n : w[k] = x}) = b - a + 1
       /\ Cardinality({k \in 1..n : w[k] > x}) = n - b
  <2>1. w[a] = x /\ w[a] = w[b]
    BY <1>13
  <2>. HIDE DEF w, x, n
  <2>2. \A k \in 1..n : w[k] = w[a] => a <= k /\ k <= b
    BY <1>13, <2>1
  <2>3. /\ Cardinality({k \in 1..n : w[k] < w[a]}) = a - 1
        /\ Cardinality({k \in 1..n : w[k] = w[a]}) = b - a + 1
        /\ Cardinality({k \in 1..n : w[k] > w[a]}) = n - b
    BY <1>1, <1>10, <1>13, <2>1, <2>2, CountSorted
  <2>. QED BY <2>1, <2>3
<1>15. ASSUME NEW Q PROVE Cardinality({k \in 1..n : w[k] \in Q}) = Cardinality({i \in D : rs[i][field] \in Q})
  <2>. DEFINE T == {i \in 1..n : f[i] \in Q}
  <2>1. Cardinality({k \in 1..n : places[k] \in T}) = Cardinality(T)
    <3>. DEFINE S == {k \in 1..n : places[k] \in T}
    <3>1. T \in SUBSET (1..n)
      OBVIOUS
    <3>2. n \in Nat
      BY <1>1
    <3>3. S = {k \in 1..n : places[k] \in T}
      OBVIOUS
    <3>. HIDE DEF S, T, n
    <3>4. Cardinality(S) = Cardinality(T)
      BY <1>22, <3>1, <3>2, <3>3, CountInOrder
    <3>. QED BY <3>4 DEF S
  <2>2. {k \in 1..n : places[k] \in T} = {k \in 1..n : w[k] \in Q}
    <3>1. \A k \in 1..n : places[k] \in 1..n
      BY <1>8
    <3>2. \A k \in 1..n : places[k] \in T <=> w[k] \in Q
      BY <3>1
    <3>. HIDE DEF T, w
    <3>. QED BY <3>2
  <2>3. T = {i \in D : rs[i][field] \in Q}
    BY <1>1
  <2>. QED BY <2>1, <2>2, <2>3
<1>16. /\ Less(rs, field, x) = a - 1
       /\ Same(rs, field, x) = b - a + 1
       /\ More(rs, field, x) = n - b
  <2>. DEFINE Q1 == {y \in Int : y < x}
              Q2 == {x}
              Q3 == {y \in Int : y > x}
  <2>1. /\ {k \in 1..n : w[k] \in Q1} = {k \in 1..n : w[k] < x}
        /\ {k \in 1..n : w[k] \in Q2} = {k \in 1..n : w[k] = x}
        /\ {k \in 1..n : w[k] \in Q3} = {k \in 1..n : w[k] > x}
    <3>. HIDE DEF w, x
    <3>1. \A k \in 1..n : w[k] \in Int
      BY <1>10
    <3>. QED BY <3>1
  <2>2. /\ {i \in D : rs[i][field] \in Q1} = {i \in D : rs[i][field] < x}
        /\ {i \in D : rs[i][field] \in Q2} = {i \in D : rs[i][field] = x}
        /\ {i \in D : rs[i][field] \in Q3} = {i \in D : rs[i][field] > x}
    <3>. HIDE DEF x
    <3>1. \A i \in D : rs[i][field] \in Int
      BY <1>1, <1>2
    <3>. QED BY <3>1
  <2>. HIDE DEF w, x, Q1, Q2, Q3
  <2>3. Cardinality({k \in 1..n : w[k] < x}) = Cardinality({i \in D : rs[i][field] < x})
    BY <1>15, <2>1, <2>2
  <2>4. Cardinality({k \in 1..n : w[k] = x}) = Cardinality({i \in D : rs[i][field] = x})
    BY <1>15, <2>1, <2>2
  <2>5. Cardinality({k \in 1..n : w[k] > x}) = Cardinality({i \in D : rs[i][field] > x})
    BY <1>15, <2>1, <2>2
  <2>. QED BY <1>14, <2>3, <2>4, <2>5 DEF Less, Same, More
<1>17. PercentileScores(rs, field, direction)[at] =
         IF direction = "asc" THEN 2 * (n - 1) - ((a - 1) + (b - 1)) ELSE (a - 1) + (b - 1)
  <2>. HIDE DEF Rank
  <2>1. at \in 1..n /\ n # 1
    BY <1>1
  <2>2. Rank(at) = (a - 1) + (b - 1)
    BY <1>7 DEF a, b
  <2>. QED BY <1>6, <2>1, <2>2
<1>18. a \in Int /\ b \in Int /\ n \in Int
  BY <1>1, <1>13
<1>. HIDE DEF w, x, n
<1>19. Less(rs, field, x) \in Int /\ More(rs, field, x) \in Int /\ Same(rs, field, x) \in Int
  BY <1>16, <1>18
<1>20. CASE direction = "asc"
  <2>1. 2 * (n - 1) - ((a - 1) + (b - 1)) = 2 * (n - b) + (b - a + 1) - 1
    BY <1>18
  <2>. QED BY <1>16, <1>17, <1>19, <1>20, <2>1 DEF x
<1>21. CASE direction # "asc"
  <2>1. (a - 1) + (b - 1) = 2 * (a - 1) + (b - a + 1) - 1
    BY <1>18
  <2>. QED BY <1>16, <1>17, <1>19, <1>21, <2>1 DEF x
<1>. QED BY <1>20, <1>21

-----------------------------------------------------------------------------
(* The score of a row                                                      *)

\* The share of the other rows that a row beats, and what that is worth.
ShareOf(rs, r, m) ==
  IF Len(rs) = 1 THEN 1
  ELSE 2 * Cardinality({i \in DOMAIN rs :
             IF m.direction = "desc" THEN rs[i][m.field] < r[m.field] ELSE rs[i][m.field] > r[m.field]})
         + (Cardinality({i \in DOMAIN rs : rs[i][m.field] = r[m.field]}) - 1)

WorthOf(rs, s, r) == Total([k \in DOMAIN s.metrics |-> ShareOf(rs, r, s.metrics[k]) * s.metrics[k].weight])

ScoredBy(rs, s, r) == [r EXCEPT !.score = WorthOf(rs, s, r)]

Metrics == [field : Columns, weight : Nat, direction : STRING]

\* The same for one row as for many: the share of a row.
LEMMA ShareIs ==
  ASSUME NEW rs \in Seq(Rows), NEW field \in Columns, NEW m, m.field = field,
         NEW direction \in {"asc", "desc"}, m.direction = direction,
         \A i \in DOMAIN rs : rs[i][field] # NaN, NEW at \in DOMAIN rs
  PROVE  /\ ShareOf(rs, rs[at], m) \in Int
         /\ PercentileScores(rs, field, direction)[at] = ShareOf(rs, rs[at], m)
<1>. DEFINE n == Len(rs)
<1>1. at \in 1..n /\ n \in Nat
  OBVIOUS
<1>2. CASE n = 1
  <2>1. ShareOf(rs, rs[at], m) = 1
    BY <1>2 DEF ShareOf
  <2>2. PercentileScores(rs, field, direction)[at] = 1
    BY <1>1, <1>2 DEF PercentileScores
  <2>. QED BY <2>1, <2>2
<1>3. CASE n # 1
  <2>. DEFINE x == rs[at][field]
              l == Less(rs, field, x)
              g == More(rs, field, x)
              e == Same(rs, field, x)
              score == PercentileScores(rs, field, direction)[at]
  <2>1. l \in Int /\ g \in Int /\ e \in Int /\ score = (IF direction = "asc" THEN 2 * g ELSE 2 * l) + e - 1
    BY <1>3, PercentileIs
  <2>2. CASE direction = "asc"
    <3>1. ShareOf(rs, rs[at], m) = 2 * g + (e - 1)
      BY <1>3, <2>2 DEF ShareOf, More, Same
    <3>. HIDE DEF l, g, e, score
    <3>2. score = 2 * g + (e - 1) /\ 2 * g + (e - 1) \in Int
      BY <2>1, <2>2
    <3>. QED BY <3>1, <3>2 DEF score
  <2>3. CASE direction = "desc"
    <3>1. ShareOf(rs, rs[at], m) = 2 * l + (e - 1)
      BY <1>3, <2>3 DEF ShareOf, Less, Same
    <3>. HIDE DEF l, g, e, score
    <3>2. score = 2 * l + (e - 1) /\ 2 * l + (e - 1) \in Int
      BY <2>1, <2>3
    <3>. QED BY <3>1, <3>2 DEF score
  <2>. QED BY <2>2, <2>3
<1>. QED BY <1>2, <1>3

\* Sorted by score, the best first.
ScoreOrders(rs, n) ==
  {order \in [1..n -> 1..n] :
     /\ \A i \in 1..n : \E k \in 1..n : order[k] = i
     /\ SortByScore(rs) = [k \in 1..n |-> rs[order[k]]]
     /\ \A j, k \in 1..n : j <= k => rs[order[k]].score <= rs[order[j]].score}

\* The sort by score orders all rows by their scores.
LEMMA SortByScoreIs ==
  ASSUME NEW rs \in Seq(Rows)
  PROVE  ScoreOrders(rs, Len(rs)) # {}
<1>. DEFINE n == Len(rs)
            D == DOMAIN rs
            f == [i \in 1..n |-> 0 - rs[i].score]
            g == [i \in 1..n |-> rs[i].type]
            h == [i \in 1..n |-> rs[i].symbol]
            less == {p \in D \X D : Below(<<rs[p[2]].score, rs[p[1]].type, rs[p[1]].symbol>>,
                                          <<rs[p[1]].score, rs[p[2]].type, rs[p[2]].symbol>>)}
            places == InsertionSort(n, less)
<1>1. n \in Nat /\ D = 1..n /\ \A i \in 1..n : rs[i] \in Rows
  OBVIOUS
<1>2. \A i \in 1..n : rs[i].score \in Int /\ rs[i].type \in Int /\ rs[i].symbol \in Int
  BY <1>1 DEF Rows
<1>3. f \in [1..n -> Int] /\ g \in [1..n -> Int] /\ h \in [1..n -> Int]
  BY <1>2
<1>4. Lexical(less, 1..n, f, g, h)
  <2>1. ASSUME NEW p \in 1..n, NEW q \in 1..n
        PROVE  <<p, q>> \in less <=>
                 f[p] < f[q] \/ (f[p] = f[q] /\ g[p] < g[q]) \/ (f[p] = f[q] /\ g[p] = g[q] /\ h[p] < h[q])
    <3>. DEFINE sp == rs[p].score
                sq == rs[q].score
                gp == rs[p].type
                gq == rs[q].type
                hp == rs[p].symbol
                hq == rs[q].symbol
    <3>1. sp \in Int /\ sq \in Int /\ gp \in Int /\ gq \in Int /\ hp \in Int /\ hq \in Int
      BY <1>2
    <3>2. <<p, q>> \in less <=> Below(<<sq, gp, hp>>, <<sp, gq, hq>>)
      BY <1>1
    <3>3. f[p] = 0 - sp /\ f[q] = 0 - sq /\ g[p] = gp /\ g[q] = gq /\ h[p] = hp /\ h[q] = hq
      OBVIOUS
    <3>. HIDE DEF sp, sq, gp, gq, hp, hq, f, g, h, less
    <3>4. Below(<<sq, gp, hp>>, <<sp, gq, hq>>) <=>
            sq < sp \/ (sq = sp /\ gp < gq) \/ (sq = sp /\ gp = gq /\ hp < hq)
      BY <3>1, BelowOfThree
    <3>5. (sq < sp <=> f[p] < f[q]) /\ (sq = sp <=> f[p] = f[q])
      BY <3>1, <3>3
    <3>. QED BY <3>2, <3>3, <3>4, <3>5
  <2>. HIDE DEF less, f, g, h
  <2>. QED BY <2>1 DEF Lexical
<1>5. Reorders(places, n) /\ Ascending(places, n, f)
  <2>1. n \in Nat
    BY <1>1
  <2>. DEFINE o == places
  <2>2. o = InsertionSort(n, less)
    OBVIOUS
  <2>. HIDE DEF f, g, h, n, D, less, o
  <2>3. Reorders(o, n) /\ Ascending(o, n, f)
    BY <1>3, <1>4, <2>1, <2>2, LexicalSort
  <2>. QED BY <2>3 DEF o
<1>6. SortByScore(rs) = [k \in 1..n |-> rs[places[k]]]
  BY <1>1 DEF SortByScore, SortFunc, Order
<1>. HIDE DEF places, less, g, h
<1>7. ASSUME NEW j \in 1..n, NEW k \in 1..n, j <= k PROVE rs[places[k]].score <= rs[places[j]].score
  <2>1. places[j] \in 1..n /\ places[k] \in 1..n
    BY <1>5 DEF Reorders
  <2>2. f[places[j]] <= f[places[k]]
    BY <1>5, <1>7 DEF Ascending
  <2>3. 0 - rs[places[j]].score <= 0 - rs[places[k]].score
    BY <2>1, <2>2
  <2>4. rs[places[j]].score \in Int /\ rs[places[k]].score \in Int
    BY <1>2, <2>1
  <2>. QED BY <2>3, <2>4
<1>8. places \in ScoreOrders(rs, n)
  BY <1>5, <1>6, <1>7 DEF Reorders, ScoreOrders
<1>. QED BY <1>8

\* What a rank by score promises of the rows it leaves.
RanksThem(s, rs, out) ==
  /\ Len(out) = IF s.limit \in 1..Len(rs) THEN s.limit ELSE Len(rs)
  /\ \A i \in DOMAIN out : \E j \in DOMAIN rs : out[i] = ScoredBy(rs, s, rs[j])
  /\ \A j \in DOMAIN rs :
       \/ \E i \in DOMAIN out : out[i] = ScoredBy(rs, s, rs[j])
       \/ \A i \in DOMAIN out : WorthOf(rs, s, rs[j]) <= out[i].score

\* Metrics of which each has a field of its own, in which every row has a number.
Comparable(s, rs) ==
  /\ \A k, l \in DOMAIN s.metrics : s.metrics[k].field = s.metrics[l].field => k = l
  /\ \A k \in DOMAIN s.metrics, i \in DOMAIN rs : rs[i][s.metrics[k].field] # NaN

\* rank.score leaves the rows whose weighted percentiles are best, in that order.
LEMMA RankScoreIs ==
  ASSUME NEW s, s.metrics \in Seq(Metrics), s.limit \in Int,
         \A m \in Range(s.metrics) : m.direction \in {"asc", "desc"},
         NEW rs \in Seq(Rows), Comparable(s, rs), NEW out \in RankScore(s, rs)
  PROVE  RanksThem(s, rs, out)
<1>. DEFINE ms == s.metrics
            n == Len(rs)
            parts == [m \in DOMAIN ms |-> PercentileScores(rs, ms[m].field, ms[m].direction)]
            last == [m \in DOMAIN ms |-> Max({l \in DOMAIN ms : ms[l].field = ms[m].field})]
            Score(i) == Total([m \in DOMAIN ms |-> parts[last[m]][i] * ms[m].weight])
            f == [i \in DOMAIN rs |-> [rs[i] EXCEPT !.score = Score(i)]]
            worth == [i \in DOMAIN rs |-> WorthOf(rs, s, rs[i])]
<1>1. /\ Len(ms) \in Nat /\ DOMAIN ms = 1..Len(ms)
      /\ \A m \in DOMAIN ms : ms[m].field \in Columns /\ ms[m].weight \in Int
      /\ \A m \in DOMAIN ms : ms[m].direction \in {"asc", "desc"}
  <2>1. ms \in Seq(Metrics) /\ \A x \in Metrics : x.field \in Columns /\ x.weight \in Int
    BY DEF Metrics
  <2>2. \A m \in DOMAIN ms : ms[m].direction \in {"asc", "desc"}
    BY RangeIs
  <2>. HIDE DEF ms
  <2>. QED BY <2>1, <2>2
<1>2. n \in Nat /\ DOMAIN rs = 1..n /\ \A i \in 1..n : rs[i] \in Rows
  OBVIOUS
<1>3. \A m \in DOMAIN ms : last[m] = m
  <2>1. ASSUME NEW m \in DOMAIN ms PROVE Max({l \in DOMAIN ms : ms[l].field = ms[m].field}) = m
    <3>. DEFINE T == {l \in DOMAIN ms : ms[l].field = ms[m].field}
    <3>1. T = {m}
      BY DEF Comparable
    <3>2. m \in Int
      BY <1>1
    <3>. HIDE DEF T
    <3>3. Max(T) = m
      BY <3>1, <3>2 DEF Max
    <3>. QED BY <3>3 DEF T
  <2>. QED BY <2>1
<1>4. ASSUME NEW i \in DOMAIN rs
      PROVE  Score(i) = worth[i] /\ worth[i] \in Int
  <2>1. ASSUME NEW m \in DOMAIN ms
        PROVE  ShareOf(rs, rs[i], ms[m]) \in Int /\ parts[m][i] = ShareOf(rs, rs[i], ms[m])
    <3>. DEFINE field == ms[m].field
                direction == ms[m].direction
    <3>1. field \in Columns /\ direction \in {"asc", "desc"} /\ \A j \in DOMAIN rs : rs[j][field] # NaN
      BY <1>1 DEF Comparable
    <3>2. parts[m] = PercentileScores(rs, field, direction)
      OBVIOUS
    <3>. DEFINE metric == ms[m]
    <3>3. metric.field = field /\ metric.direction = direction
      OBVIOUS
    <3>. HIDE DEF field, direction, parts, metric
    <3>4. ShareOf(rs, rs[i], metric) \in Int /\ PercentileScores(rs, field, direction)[i] = ShareOf(rs, rs[i], metric)
      BY <3>1, <3>3, ShareIs
    <3>. QED BY <3>2, <3>4 DEF metric
  <2>. DEFINE t == [m \in DOMAIN ms |-> ShareOf(rs, rs[i], ms[m]) * ms[m].weight]
  <2>2. worth[i] = Total(t)
    BY DEF WorthOf
  <2>. HIDE DEF parts, last, ms
  <2>3. \A m \in DOMAIN ms : parts[last[m]][i] * ms[m].weight = ShareOf(rs, rs[i], ms[m]) * ms[m].weight
    BY <1>3, <2>1
  <2>4. [m \in DOMAIN ms |-> parts[last[m]][i] * ms[m].weight] = t
    BY <2>3
  <2>5. \A m \in DOMAIN ms : ShareOf(rs, rs[i], ms[m]) * ms[m].weight \in Int
    BY <1>1, <2>1
  <2>6. t \in [1..Len(ms) -> Int]
    BY <1>1, <2>5
  <2>. HIDE DEF t
  <2>7. t \in Seq(Int)
    BY <1>1, <2>6, ListOf, SMTT(30)
  <2>8. Total(t) \in Int
    BY <2>7, TotalType
  <2>. HIDE DEF worth
  <2>. QED BY <2>2, <2>4, <2>8
<1>5. out = Top(SortByScore(f), s.limit)
  BY DEF RankScore
<1>. HIDE DEF Score, parts, last
<1>6. \A i \in 1..n : f[i] = [rs[i] EXCEPT !.score = worth[i]] /\ f[i] \in Rows
  <2>1. ASSUME NEW i \in DOMAIN rs PROVE f[i] = [rs[i] EXCEPT !.score = worth[i]] /\ f[i] \in Rows
    <3>. HIDE DEF worth
    <3>1. rs[i] \in Rows
      OBVIOUS
    <3>2. f[i] = [rs[i] EXCEPT !.score = worth[i]]
      BY <1>4
    <3>3. worth[i] \in Int
      BY <1>4
    <3>4. [rs[i] EXCEPT !.score = worth[i]] \in Rows
      BY <3>1, <3>3, ChangedType
    <3>. QED BY <3>2, <3>4
  <2>. HIDE DEF f, worth
  <2>. QED BY <1>2, <2>1
<1>7. \A i \in 1..n : f[i].score = worth[i] /\ f[i] = ScoredBy(rs, s, rs[i]) /\ worth[i] = WorthOf(rs, s, rs[i])
  <2>1. ASSUME NEW i \in 1..n
        PROVE  f[i].score = worth[i] /\ f[i] = ScoredBy(rs, s, rs[i]) /\ worth[i] = WorthOf(rs, s, rs[i])
    <3>1. f[i] = [rs[i] EXCEPT !.score = worth[i]] /\ rs[i] \in Rows
      BY <1>2, <1>6
    <3>2. worth[i] = WorthOf(rs, s, rs[i])
      BY <1>2
    <3>. HIDE DEF f, worth
    <3>3. f[i].score = worth[i]
      BY <3>1 DEF Rows
    <3>. QED BY <3>1, <3>2, <3>3 DEF ScoredBy
  <2>. QED BY <2>1
<1>8. f \in Seq(Rows) /\ Len(f) = n
  <2>1. f = [i \in 1..n |-> f[i]]
    BY <1>2
  <2>. HIDE DEF f, n
  <2>2. f \in [1..n -> Rows]
    BY <1>6, <2>1
  <2>3. n \in Nat
    BY <1>2
  <2>. QED BY <2>2, <2>3, ListOf
<1>. HIDE DEF f, worth
<1>9. PICK order \in [1..n -> 1..n] :
         /\ \A i \in 1..n : \E k \in 1..n : order[k] = i
         /\ SortByScore(f) = [k \in 1..n |-> f[order[k]]]
         /\ \A j, k \in 1..n : j <= k => f[order[k]].score <= f[order[j]].score
  <2>1. ScoreOrders(f, n) # {}
    BY <1>8, SortByScoreIs
  <2>. QED BY <2>1 DEF ScoreOrders
<1>. DEFINE t == SortByScore(f)
<1>10. t \in Seq(Rows) /\ Len(t) = n /\ DOMAIN t = 1..n /\ \A k \in 1..n : t[k] = f[order[k]]
  <2>1. t \in Seq(Rows)
    BY <1>8, SortByScoreType
  <2>. HIDE DEF n
  <2>2. t = [k \in 1..n |-> f[order[k]]] /\ n \in Nat
    BY <1>2, <1>9
  <2>. HIDE DEF t
  <2>. QED BY <2>1, <2>2
<1>11. out = Top(t, s.limit)
  BY <1>5
<1>. HIDE DEF t, n
<1>12. /\ out \in Seq(Rows)
       /\ Len(out) = IF s.limit \in 1..n THEN s.limit ELSE n
       /\ \A k \in DOMAIN out : k \in 1..n /\ out[k] = t[k]
  <2>1. CASE s.limit > 0
    <3>1. out = Cut(t, s.limit)
      BY <1>11, <2>1 DEF Top
    <3>2. /\ out \in Seq(Rows)
          /\ Len(out) = IF s.limit < 0 THEN 0 ELSE IF s.limit < n THEN s.limit ELSE n
          /\ \A k \in DOMAIN out : k \in DOMAIN t /\ out[k] = t[k]
      BY <1>10, <3>1, CutIs
    <3>3. s.limit \in 1..n <=> s.limit <= n
      BY <1>2, <2>1
    <3>4. Len(out) = IF s.limit \in 1..n THEN s.limit ELSE n
      <4>. DEFINE limit == s.limit
                  l == Len(out)
      <4>1. limit \in Int /\ limit > 0 /\ n \in Nat /\ (limit \in 1..n <=> limit <= n)
        BY <1>2, <2>1, <3>3
      <4>2. l = IF limit < 0 THEN 0 ELSE IF limit < n THEN limit ELSE n
        BY <1>10, <3>2
      <4>. HIDE DEF limit, l
      <4>3. CASE limit < n
        BY <4>1, <4>2, <4>3 DEF limit, l
      <4>4. CASE ~(limit < n)
        <5>1. l = n /\ (limit <= n => limit = n)
          BY <4>1, <4>2, <4>4
        <5>. QED BY <4>1, <5>1 DEF limit, l
      <4>. QED BY <4>3, <4>4
    <3>. QED BY <1>10, <3>2, <3>4
  <2>2. CASE ~(s.limit > 0)
    <3>1. out = t
      BY <1>11, <2>2 DEF Top
    <3>. QED BY <1>10, <2>2, <3>1
  <2>. QED BY <2>1, <2>2
<1>13. DOMAIN out = 1..Len(out) /\ Len(out) \in Nat
  BY <1>12
<1>14. ASSUME NEW i \in DOMAIN out PROVE \E j \in DOMAIN rs : out[i] = ScoredBy(rs, s, rs[j])
  <2>1. i \in 1..n /\ out[i] = f[order[i]] /\ order[i] \in 1..n
    BY <1>9, <1>10, <1>12
  <2>. QED BY <1>2, <1>7, <2>1
<1>15. ASSUME NEW j \in DOMAIN rs, ~\E i \in DOMAIN out : out[i] = ScoredBy(rs, s, rs[j]), NEW i \in DOMAIN out
       PROVE  WorthOf(rs, s, rs[j]) <= out[i].score
  <2>1. j \in 1..n
    BY <1>2
  <2>2. PICK k \in 1..n : order[k] = j
    BY <1>9, <2>1
  <2>3. k \notin DOMAIN out
    <3>1. k \in DOMAIN out => out[k] = ScoredBy(rs, s, rs[j])
      BY <1>7, <1>10, <1>12, <2>1, <2>2, SMTT(30)
    <3>. QED BY <1>15, <3>1
  <2>4. i \in 1..n /\ i \in 1..Len(out) /\ ~(k \in 1..Len(out))
    BY <1>12, <1>13, <2>3
  <2>5. i <= k
    BY <1>2, <1>13, <2>4
  <2>6. f[order[k]].score <= f[order[i]].score
    BY <1>9, <2>4, <2>5
  <2>7. out[i] = f[order[i]] /\ f[order[k]].score = WorthOf(rs, s, rs[j])
    BY <1>7, <1>10, <1>12, <2>1, <2>2, <2>4
  <2>. QED BY <2>6, <2>7
<1>. QED BY <1>12, <1>14, <1>15 DEF RanksThem, n

\* A rank step under the invariant ranks rows.
LEMMA ScoreStep == IInv => ScoreIsPercentile
<1>. SUFFICES ASSUME IInv, AtStep("rank.score"), Comparable(plan.pipeline[step], rows), NEW out \in Now
              PROVE  RanksThem(plan.pipeline[step], rows, out)
  BY DEF ScoreIsPercentile, Comparable, RanksThem, ScoredBy, WorthOf, ShareOf
<1>. DEFINE s == plan.pipeline[step]
<1>1. /\ s.id = "rank.score" /\ FitStep(s) /\ rows \in Seq(Rows)
      /\ status = "running" /\ todo # <<>> /\ step <= Len(plan.pipeline)
  BY StepNow DEF AtStep
<1>2. s.metrics \in Seq(Metrics) /\ s.limit \in Int
  BY <1>1 DEF FitStep, TypedStep, Metrics
<1>3. out \in RankScore(s, rows)
  <2>1. Now = Basic(s, rows, data, Head(todo), plan.from)
    BY <1>1, BasicIsOutcome DEF Now, SelectorsOf
  <2>2. Basic(s, rows, data, Head(todo), plan.from) = Ranked(s, rows)
    BY <1>1 DEF Basic, SelectorsOf, Filters
  <2>3. Ranked(s, rows) = RankScore(s, rows)
    BY <1>1 DEF Ranked
  <2>. QED BY <2>1, <2>2, <2>3
<1>4. \A m \in Range(s.metrics) : m.direction \in {"asc", "desc"}
  <2>1. plan \in Plans /\ Compilable(plan) /\ step \in Nat \ {0}
    BY <1>1 DEF IInv, TypeOK, Known
  <2>2. step \in DOMAIN plan.pipeline
    BY <1>1, <2>1, FitPlan DEF IsList
  <2>3. ValidStep(s)
    BY <2>1, <2>2 DEF Compilable, ValidPipeline
  <2>. QED BY <1>1, <2>3 DEF ValidStep
<1>. HIDE DEF s
<1>5. RanksThem(s, rows, out)
  <2>1. Comparable(s, rows)
    BY DEF s
  <2>. QED BY <1>1, <1>2, <1>3, <1>4, <2>1, RankScoreIs
<1>. QED BY <1>5 DEF s

\* A rank by score leaves the rows with the best weighted percentiles, ties counting half
\* (rankScore, percentileScores).
THEOREM ScoresArePercentiles == Spec => []ScoreIsPercentile
BY ScoreStep, Inductive, PTL
=============================================================================

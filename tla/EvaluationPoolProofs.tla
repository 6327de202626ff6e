------------------------ MODULE EvaluationPoolProofs ------------------------
(***************************************************************************)
(* That an evaluation is what it says, for any request, however many       *)
(* workers it has and however they take turns.                             *)
(*                                                                         *)
(* First what holds of every plan that CompileEvaluation may make: its     *)
(* periods, its parameter sets and its metrics; then how results are       *)
(* ranked; then the inductive invariant of the pool, IInv; and at the end  *)
(* the theorems.                                                           *)
(***************************************************************************)
EXTENDS EvaluationPool, Induction

\* The days before each month grow with the month.
LEMMA Days ==
  /\ \A i \in 0..11 : DaysBeforeMonth[i + 1] \in 0..334
  /\ \A i, j \in 0..11 : i < j => DaysBeforeMonth[i + 1] < DaysBeforeMonth[j + 1]
<1>. DEFINE D == DaysBeforeMonth
<1>1. /\ D[0 + 1] = 0 /\ D[1 + 1] = 31 /\ D[2 + 1] = 59 /\ D[3 + 1] = 90 /\ D[4 + 1] = 120 /\ D[5 + 1] = 151
      /\ D[6 + 1] = 181 /\ D[7 + 1] = 212 /\ D[8 + 1] = 243 /\ D[9 + 1] = 273 /\ D[10 + 1] = 304 /\ D[11 + 1] = 334
  BY DEF DaysBeforeMonth
<1>2. \A i \in 0..11 : i \in {0, 1, 2, 3, 4, 5, 6, 7, 8, 9, 10, 11}
  OBVIOUS
<1>. HIDE DEF D
<1>. QED BY <1>1, <1>2 DEF D

\* So do the starts of months.
LEMMA MonthStartGrows ==
  ASSUME NEW m \in Int, NEW n \in Int, m < n
  PROVE  MonthStart(m) \in Int /\ MonthStart(n) \in Int /\ MonthStart(m) < MonthStart(n)
<1>. DEFINE q(k) == (k - 1) \div 12
            p(k) == (k - 1) % 12
<1>1. ASSUME NEW k \in Int PROVE q(k) \in Int /\ p(k) \in 0..11 /\ k - 1 = 12 * q(k) + p(k)
  OBVIOUS
<1>2. ASSUME NEW k \in Int PROVE MonthStart(k) = 365 * q(k) + 1 + DaysBeforeMonth[p(k) + 1]
  BY DEF MonthStart, YearStart
<1>3. q(m) < q(n) \/ (q(m) = q(n) /\ p(m) < p(n))
  <2>1. /\ q(m) \in Int /\ p(m) \in 0..11 /\ m - 1 = 12 * q(m) + p(m)
        /\ q(n) \in Int /\ p(n) \in 0..11 /\ n - 1 = 12 * q(n) + p(n)
    BY <1>1
  <2>. HIDE DEF q, p
  <2>. QED BY <2>1
<1>. HIDE DEF q, p
<1>4. DaysBeforeMonth[p(m) + 1] \in 0..334 /\ DaysBeforeMonth[p(n) + 1] \in 0..334
  BY <1>1, Days
<1>5. q(m) \in Int /\ p(m) \in 0..11 /\ q(n) \in Int /\ p(n) \in 0..11
  BY <1>1
<1>6. p(m) < p(n) => DaysBeforeMonth[p(m) + 1] < DaysBeforeMonth[p(n) + 1]
  BY <1>5, Days
<1>7. MonthStart(m) = 365 * q(m) + 1 + DaysBeforeMonth[p(m) + 1]
      /\ MonthStart(n) = 365 * q(n) + 1 + DaysBeforeMonth[p(n) + 1]
  BY <1>2
<1>. DEFINE a == DaysBeforeMonth[p(m) + 1]
            b == DaysBeforeMonth[p(n) + 1]
<1>8. a \in 0..334 /\ b \in 0..334 /\ (p(m) < p(n) => a < b)
  BY <1>4, <1>6
<1>9. MonthStart(m) = 365 * q(m) + 1 + a /\ MonthStart(n) = 365 * q(n) + 1 + b
  BY <1>7
<1>. HIDE DEF a, b
<1>. QED BY <1>3, <1>5, <1>8, <1>9

\* The month of a day is a number.
LEMMA MonthOfNumber ==
  ASSUME NEW day \in Int
  PROVE  MonthOf(day) \in Int
<1>. DEFINE T == {m \in 1..12 : DaysBeforeMonth[m] <= (day - 1) % 365}
<1>1. Cardinality(T) \in Nat
  <2>1. IsFiniteSet(1..12)
    <3>. DEFINE a == 1
                b == 12
    <3>1. a \in Int /\ b \in Int
      OBVIOUS
    <3>. HIDE DEF a, b
    <3>2. IsFiniteSet(a..b)
      BY <3>1, FS_Interval
    <3>. QED BY <3>2 DEF a, b
  <2>2. T \subseteq 1..12
    OBVIOUS
  <2>. HIDE DEF T
  <2>3. IsFiniteSet(T)
    BY <2>1, <2>2, FS_Subset
  <2>. QED BY <2>3, FS_CardinalityType
<1>2. MonthOf(day) = 12 * ((day - 1) \div 365) + Cardinality(T)
  BY DEF MonthOf, YearOf
<1>. HIDE DEF T
<1>. QED BY <1>1, <1>2

\* A duration goes forward.
LEMMA DurationGoesOn ==
  ASSUME NEW day \in Int, NEW d \in Durations
  PROVE  /\ AddDuration(day, d) \in Int
         /\ AddDuration(day, d) >= day
         /\ d # NoDuration => AddDuration(day, d) > day
<1>. DEFINE m == MonthOf(day)
            n == MonthOf(day) + 12 * d.years + d.months
<1>1. m \in Int /\ d.years \in Nat /\ d.months \in Nat /\ d.days \in Nat
  BY MonthOfNumber DEF Durations
<1>2. AddDuration(day, d) = MonthStart(n) + (day - MonthStart(m)) + d.days
  BY DEF AddDuration
<1>3. d # NoDuration => d.years > 0 \/ d.months > 0 \/ d.days > 0
  BY <1>1 DEF Durations, NoDuration
<1>4. n \in Int /\ n = m + 12 * d.years + d.months
  BY <1>1
<1>. HIDE DEF m, n
<1>5. CASE n = m
  <2>1. MonthStart(m) \in Int
    BY <1>1, MonthStartGrows, m < m + 1
  <2>. QED BY <1>1, <1>2, <1>3, <1>4, <1>5, <2>1
<1>6. CASE n > m
  <2>1. MonthStart(m) \in Int /\ MonthStart(n) \in Int /\ MonthStart(m) < MonthStart(n)
    BY <1>1, <1>4, <1>6, MonthStartGrows
  <2>. QED BY <1>1, <1>2, <2>1
<1>. QED BY <1>1, <1>4, <1>5, <1>6

\* The periods of years follow each other day by day.
LEMMA Yearly ==
  ASSUME NEW from \in Int, NEW to \in Int, from <= to,
         NEW i \in 1..(YearOf(to) - YearOf(from))
  PROVE  YearlyPeriods(from, to)[i + 1].from = YearlyPeriods(from, to)[i].to + 1
<1>. DEFINE a == YearOf(from)
            y == a + i - 1
<1>1. a \in Int /\ YearOf(to) \in Int /\ YearStart(a) <= from /\ from < YearStart(a + 1)
      /\ YearStart(YearOf(to)) <= to
  BY DEF YearOf, YearStart
<1>2. y \in Int /\ y >= a /\ y < YearOf(to)
  BY <1>1
<1>3. YearStart(y + 1) > from /\ YearStart(y + 1) <= to /\ YearStart(y + 1) \in Int
  BY <1>1, <1>2 DEF YearStart
<1>4. YearlyPeriods(from, to)[i] = Period(Max({from, YearStart(y)}), Min({to, YearStart(y + 1) - 1}))
  BY <1>1 DEF YearlyPeriods
<1>5. YearlyPeriods(from, to)[i + 1]
        = Period(Max({from, YearStart(y + 1)}), Min({to, YearStart(y + 1 + 1) - 1}))
  <2>1. i + 1 \in 1..(YearOf(to) - YearOf(from) + 1) /\ a + (i + 1) - 1 = y + 1
    BY <1>1
  <2>. QED BY <2>1 DEF YearlyPeriods
<1>. DEFINE b == YearStart(y + 1)
<1>. HIDE DEF b, y, a
<1>6. Min({to, b - 1}) = b - 1
  <2>. DEFINE c == b - 1
  <2>1. c \in Int /\ c < to
    BY <1>3 DEF b
  <2>. HIDE DEF c
  <2>2. \A x \in {to, c} : c <= x
    BY <2>1
  <2>. QED BY <2>1, <2>2 DEF Min, c
<1>7. Max({from, b}) = b
  <2>1. b \in Int /\ from < b
    BY <1>3 DEF b
  <2>2. \A x \in {from, b} : b >= x
    BY <2>1
  <2>. QED BY <2>1, <2>2 DEF Max
<1>. QED BY <1>3, <1>4, <1>5, <1>6, <1>7 DEF Period, b
Periods == [from : Int, to : Int]

\* What a sequence is with an item put before it.
LEMMA Prepended ==
  ASSUME NEW X, NEW x \in X, NEW t \in Seq(X)
  PROVE  /\ <<x>> \o t \in Seq(X) /\ <<x>> \o t # <<>>
         /\ Len(t) \in Nat /\ Len(<<x>> \o t) = Len(t) + 1
         /\ (<<x>> \o t)[1] = x
         /\ \A i \in 1..Len(t) : (<<x>> \o t)[i + 1] = t[i]
OBVIOUS

\* A step of the walk-forward over [from, to]: its test follows its training.
StepsWithin(from, to) ==
  {x \in [train : Periods, test : Periods] :
     from <= x.train.from /\ x.test.from = x.train.to + 1 /\ x.test.to <= to}

\* The steps of a walk-forward test after they train, in the range asked for.
LEMMA StepsAreUnseen ==
  ASSUME NEW r, r.from \in Nat, r.to \in Int, r.train \in Durations, r.test \in Durations,
         r.advance \in Durations, r.train # NoDuration, r.test # NoDuration
  PROVE  WalkForwardSteps(r) \in Seq(StepsWithin(r.from, r.to))
<1>. DEFINE from == r.from
            to == r.to
            advance == IF r.advance = NoDuration THEN r.test ELSE r.advance
            trainEnd(s) == AddDuration(s, r.train) - 1
            testEnd(s) == AddDuration(trainEnd(s) + 1, r.test) - 1
            It(s) == [train |-> Period(s, trainEnd(s)), test |-> Period(trainEnd(s) + 1, testEnd(s))]
            P(f) == f = [s \in Nat |-> IF testEnd(s) > to THEN <<>>
                                       ELSE <<It(s)>> \o f[AddDuration(s, advance)]]
            stops == {s \in Nat : testEnd(s) > to}
            X == [train : Periods, test : Periods]
            item == [s \in Nat |-> It(s)]
            hop == [s \in Nat |-> AddDuration(s, advance)]
            c == CHOOSE f : P(f)
            L == [s \in Nat |-> Seq(StepsWithin(s, to))]
<1>1. WalkForwardSteps(r) = c[from]
  BY DEF WalkForwardSteps
<1>2. from \in Nat /\ to \in Int /\ advance \in Durations /\ advance # NoDuration
  OBVIOUS
<1>3. ASSUME NEW s \in Nat
      PROVE  /\ trainEnd(s) \in Int /\ trainEnd(s) >= s /\ testEnd(s) \in Int /\ testEnd(s) > trainEnd(s)
             /\ AddDuration(s, advance) \in Nat /\ AddDuration(s, advance) > s
  <2>. HIDE DEF advance
  <2>1. AddDuration(s, advance) \in Int /\ AddDuration(s, advance) > s
    BY <1>2, DurationGoesOn
  <2>2. AddDuration(s, r.train) \in Int /\ AddDuration(s, r.train) > s
    BY DurationGoesOn
  <2>. DEFINE e == AddDuration(s, r.train)
  <2>3. e \in Int /\ e > s /\ trainEnd(s) = e - 1
    BY <2>2
  <2>4. testEnd(s) = AddDuration(e, r.test) - 1
    BY <2>3
  <2>. HIDE DEF e, trainEnd, testEnd
  <2>5. AddDuration(e, r.test) \in Int /\ AddDuration(e, r.test) > e
    BY <2>3, DurationGoesOn
  <2>. QED BY <2>1, <2>3, <2>4, <2>5
<1>. HIDE DEF advance, trainEnd, testEnd, from, to
<1>4. item \in [Nat -> X] /\ hop \in [Nat -> Nat]
  BY <1>3 DEF Period, Periods
<1>5. \A s \in Nat : s \in stops \/ (s <= to /\ s < hop[s])
  BY <1>2, <1>3
<1>6. P(c)
  <2>1. Chains(X, stops, item, hop) # {}
    <3>. HIDE DEF X, stops, item, hop
    <3>. QED BY <1>2, <1>4, <1>5, ChainExists
  <2>2. PICK f \in [Nat -> Seq(X)] : \A s \in Nat : f[s] = IF s \in stops THEN <<>> ELSE <<item[s]>> \o f[hop[s]]
    BY <2>1 DEF Chains
  <2>3. ASSUME NEW s \in Nat
        PROVE  f[s] = IF testEnd(s) > to THEN <<>> ELSE <<It(s)>> \o f[AddDuration(s, advance)]
    <3>1. item[s] = It(s) /\ hop[s] = AddDuration(s, advance) /\ (s \in stops) = (testEnd(s) > to)
      OBVIOUS
    <3>. HIDE DEF item, hop, stops, It
    <3>. QED BY <2>2, <3>1
  <2>4. P(f)
    <3>. HIDE DEF It
    <3>. QED BY <2>2, <2>3
  <2>. HIDE DEF P
  <2>. QED BY <2>4
<1>. HIDE DEF c
<1>7. ASSUME NEW s \in Nat
      PROVE  c[s] = IF s \in stops THEN <<>> ELSE <<item[s]>> \o c[hop[s]]
  <2>1. item[s] = It(s) /\ hop[s] = AddDuration(s, advance) /\ (s \in stops) = (testEnd(s) > to)
    OBVIOUS
  <2>2. c[s] = IF testEnd(s) > to THEN <<>> ELSE <<It(s)>> \o c[AddDuration(s, advance)]
    <3>. HIDE DEF It, item, hop, stops
    <3>. QED BY <1>6
  <2>. HIDE DEF item, hop, stops, It
  <2>. QED BY <2>1, <2>2
<1>8. \A s \in Nat : s \in stops => <<>> \in L[s]
  OBVIOUS
<1>9. ASSUME NEW s \in Nat, s \notin stops, NEW t \in L[hop[s]] PROVE <<item[s]>> \o t \in L[s]
  <2>1. item[s] \in StepsWithin(s, to)
    <3>1. trainEnd(s) \in Int /\ testEnd(s) \in Int /\ testEnd(s) <= to /\ trainEnd(s) + 1 \in Int
      <4>1. ~(testEnd(s) > to)
        BY <1>9
      <4>2. trainEnd(s) \in Int /\ testEnd(s) \in Int
        BY <1>3
      <4>. HIDE DEF item, L, stops, hop
      <4>. QED BY <1>2, <4>1, <4>2
    <3>2. item[s] = It(s)
      OBVIOUS
    <3>. HIDE DEF item
    <3>. QED BY <3>1, <3>2 DEF StepsWithin, Period, Periods
  <2>2. t \in Seq(StepsWithin(hop[s], to)) /\ hop[s] \in Nat /\ hop[s] > s
    BY <1>3
  <2>3. StepsWithin(hop[s], to) \subseteq StepsWithin(s, to)
    <3>. HIDE DEF hop
    <3>. QED BY <2>2 DEF StepsWithin, Periods
  <2>. HIDE DEF item, hop
  <2>4. t \in Seq(StepsWithin(s, to))
    BY <2>2, <2>3
  <2>. QED BY <2>1, <2>4
<1>. HIDE DEF stops, X, item, hop, L
<1>10. \A s \in Nat : c[s] \in L[s]
  BY <1>2, <1>4, <1>5, <1>7, <1>8, <1>9, ChainValues
<1>. QED BY <1>1, <1>2, <1>10 DEF L, from, to
\* Periods that follow each other day by day, the first of them from a given day.
Following(start) ==
  {t \in Seq(Periods) :
     /\ t # <<>> => t[1].from = start
     /\ \A i \in 1..(Len(t) - 1) : t[i + 1].from = t[i].to + 1}

\* A period before those that follow its end.
LEMMA FollowingGrows ==
  ASSUME NEW x \in Periods, NEW t \in Following(x.to + 1)
  PROVE  <<x>> \o t \in Following(x.from)
<1>. DEFINE u == <<x>> \o t
<1>1. t \in Seq(Periods) /\ (t # <<>> => t[1].from = x.to + 1)
      /\ \A i \in 1..(Len(t) - 1) : t[i + 1].from = t[i].to + 1
  BY DEF Following
<1>2. /\ u \in Seq(Periods) /\ u # <<>> /\ Len(t) \in Nat /\ Len(u) = Len(t) + 1 /\ u[1] = x
      /\ \A i \in 1..Len(t) : u[i + 1] = t[i]
  BY <1>1, Prepended
<1>3. Len(t) > 0 => t # <<>>
  OBVIOUS
<1>. HIDE DEF u
<1>4. ASSUME NEW i \in 1..(Len(u) - 1) PROVE u[i + 1].from = u[i].to + 1
  <2>1. i \in 1..Len(t) /\ u[i + 1] = t[i]
    BY <1>2
  <2>2. CASE i = 1
    BY <1>1, <1>2, <1>3, <2>1, <2>2
  <2>3. CASE i # 1
    <3>. DEFINE j == i - 1
    <3>1. j \in 1..(Len(t) - 1) /\ i = j + 1 /\ j \in 1..Len(t)
      BY <1>2, <2>1, <2>3
    <3>2. u[i] = t[j]
      BY <1>2, <3>1
    <3>3. t[j + 1].from = t[j].to + 1
      BY <1>1, <3>1
    <3>. QED BY <2>1, <3>1, <3>2, <3>3
  <2>. QED BY <2>2, <2>3
<1>5. u \in Following(x.from)
  BY <1>2, <1>4 DEF Following
<1>. QED BY <1>5 DEF u

\* Rolling periods are periods, and without a step of their own they follow each other.
LEMMA RollingFollows ==
  ASSUME NEW from \in Nat, NEW to \in Int, NEW window \in Durations, NEW step \in Durations,
         window # NoDuration, step # NoDuration
  PROVE  /\ RollingPeriods(from, to, window, step) \in Seq(Periods)
         /\ step = window => RollingPeriods(from, to, window, step) \in Following(from)
<1>. DEFINE end(s) == AddDuration(s, window) - 1
            It(s) == Period(s, end(s))
            P(f) == f = [s \in Nat |-> IF s > to \/ end(s) > to THEN <<>>
                                       ELSE <<It(s)>> \o f[AddDuration(s, step)]]
            stops == {s \in Nat : s > to \/ end(s) > to}
            item == [s \in Nat |-> It(s)]
            hop == [s \in Nat |-> AddDuration(s, step)]
            c == CHOOSE f : P(f)
            L == [s \in Nat |-> IF step = window THEN Following(s) ELSE Seq(Periods)]
<1>1. RollingPeriods(from, to, window, step) = c[from]
  BY DEF RollingPeriods
<1>2. ASSUME NEW s \in Nat
      PROVE  /\ end(s) \in Int /\ AddDuration(s, step) \in Nat /\ AddDuration(s, step) > s
             /\ step = window => AddDuration(s, step) = end(s) + 1
  <2>1. AddDuration(s, step) \in Int /\ AddDuration(s, step) > s
    BY DurationGoesOn
  <2>2. AddDuration(s, window) \in Int
    BY DurationGoesOn
  <2>. QED BY <2>1, <2>2
<1>. HIDE DEF end
<1>3. item \in [Nat -> Periods] /\ hop \in [Nat -> Nat]
  BY <1>2 DEF Period, Periods
<1>4. \A s \in Nat : s \in stops \/ (s <= to /\ s < hop[s])
  BY <1>2
<1>5. ASSUME NEW s \in Nat
      PROVE  item[s] = It(s) /\ hop[s] = AddDuration(s, step) /\ (s \in stops) = (s > to \/ end(s) > to)
  OBVIOUS
<1>6. P(c)
  <2>1. Chains(Periods, stops, item, hop) # {}
    <3>. HIDE DEF stops, item, hop
    <3>. QED BY <1>3, <1>4, ChainExists
  <2>2. PICK f \in [Nat -> Seq(Periods)] :
          \A s \in Nat : f[s] = IF s \in stops THEN <<>> ELSE <<item[s]>> \o f[hop[s]]
    BY <2>1 DEF Chains
  <2>3. ASSUME NEW s \in Nat
        PROVE  f[s] = IF s > to \/ end(s) > to THEN <<>> ELSE <<It(s)>> \o f[AddDuration(s, step)]
    <3>. HIDE DEF item, hop, stops, It
    <3>. QED BY <1>5, <2>2
  <2>4. P(f)
    <3>. HIDE DEF It
    <3>. QED BY <2>2, <2>3
  <2>. HIDE DEF P
  <2>. QED BY <2>4
<1>. HIDE DEF c
<1>7. ASSUME NEW s \in Nat PROVE c[s] = IF s \in stops THEN <<>> ELSE <<item[s]>> \o c[hop[s]]
  <2>1. c[s] = IF s > to \/ end(s) > to THEN <<>> ELSE <<It(s)>> \o c[AddDuration(s, step)]
    <3>. HIDE DEF It, item, hop, stops
    <3>. QED BY <1>6
  <2>. HIDE DEF item, hop, stops, It
  <2>. QED BY <1>5, <2>1
<1>8. \A s \in Nat : s \in stops => <<>> \in L[s]
  BY DEF Following
<1>9. ASSUME NEW s \in Nat, s \notin stops, NEW t \in L[hop[s]] PROVE <<item[s]>> \o t \in L[s]
  <2>1. item[s] \in Periods /\ hop[s] \in Nat
    BY <1>3
  <2>2. CASE step = window
    <3>1. item[s].from = s /\ item[s].to + 1 = hop[s]
      BY <1>2, <2>2 DEF Period
    <3>2. t \in Following(hop[s])
      BY <2>1, <2>2
    <3>. HIDE DEF item, hop
    <3>3. <<item[s]>> \o t \in Following(s)
      BY <2>1, <3>1, <3>2, FollowingGrows
    <3>. QED BY <2>2, <3>3
  <2>3. CASE step # window
    <3>1. t \in Seq(Periods)
      BY <2>1, <2>3
    <3>. HIDE DEF item
    <3>2. <<item[s]>> \o t \in Seq(Periods)
      BY <2>1, <3>1
    <3>. QED BY <2>3, <3>2
  <2>. QED BY <2>2, <2>3
<1>. HIDE DEF stops, item, hop, L
<1>10. \A s \in Nat : c[s] \in L[s]
  BY <1>3, <1>4, <1>7, <1>8, <1>9, ChainValues
<1>11. c[from] \in L[from]
  BY <1>10
<1>12. c[from] \in Seq(Periods)
  BY <1>11 DEF L, Following
<1>. QED BY <1>1, <1>11, <1>12 DEF L

\* Windows that grow are periods from one day.
LEMMA ExpandingBeginsTogether ==
  ASSUME NEW from \in Nat, NEW to \in Int, NEW window \in Durations, NEW step \in Durations,
         window # NoDuration, step # NoDuration
  PROVE  ExpandingPeriods(from, to, window, step) \in Seq({p \in Periods : p.from = from})
<1>. DEFINE X == {p \in Periods : p.from = from}
            It(e) == Period(from, e)
            P(f) == f = [e \in Nat |-> IF e > to THEN <<>> ELSE <<It(e)>> \o f[AddDuration(e, step)]]
            stops == {e \in Nat : e > to}
            item == [e \in Nat |-> It(e)]
            hop == [e \in Nat |-> AddDuration(e, step)]
            c == CHOOSE f : P(f)
            L == [e \in Nat |-> Seq(X)]
            first == AddDuration(from, window) - 1
<1>1. ExpandingPeriods(from, to, window, step) = c[first]
  BY DEF ExpandingPeriods
<1>2. ASSUME NEW e \in Nat PROVE AddDuration(e, step) \in Nat /\ AddDuration(e, step) > e
  <2>1. AddDuration(e, step) \in Int /\ AddDuration(e, step) > e
    BY DurationGoesOn
  <2>. QED BY <2>1
<1>3. item \in [Nat -> X] /\ hop \in [Nat -> Nat]
  BY <1>2 DEF Period, Periods
<1>4. \A e \in Nat : e \in stops \/ (e <= to /\ e < hop[e])
  BY <1>2
<1>5. ASSUME NEW e \in Nat
      PROVE  item[e] = It(e) /\ hop[e] = AddDuration(e, step) /\ (e \in stops) = (e > to)
  OBVIOUS
<1>6. P(c)
  <2>1. Chains(X, stops, item, hop) # {}
    <3>. HIDE DEF X, stops, item, hop
    <3>. QED BY <1>3, <1>4, ChainExists
  <2>2. PICK f \in [Nat -> Seq(X)] : \A e \in Nat : f[e] = IF e \in stops THEN <<>> ELSE <<item[e]>> \o f[hop[e]]
    BY <2>1 DEF Chains
  <2>3. ASSUME NEW e \in Nat
        PROVE  f[e] = IF e > to THEN <<>> ELSE <<It(e)>> \o f[AddDuration(e, step)]
    <3>. HIDE DEF item, hop, stops, It
    <3>. QED BY <1>5, <2>2
  <2>4. P(f)
    <3>. HIDE DEF It
    <3>. QED BY <2>2, <2>3
  <2>. HIDE DEF P
  <2>. QED BY <2>4
<1>. HIDE DEF c
<1>7. ASSUME NEW e \in Nat PROVE c[e] = IF e \in stops THEN <<>> ELSE <<item[e]>> \o c[hop[e]]
  <2>1. c[e] = IF e > to THEN <<>> ELSE <<It(e)>> \o c[AddDuration(e, step)]
    <3>. HIDE DEF It, item, hop, stops
    <3>. QED BY <1>6
  <2>. HIDE DEF item, hop, stops, It
  <2>. QED BY <1>5, <2>1
<1>8. \A e \in Nat : e \in stops => <<>> \in L[e]
  OBVIOUS
<1>9. ASSUME NEW e \in Nat, NEW t \in L[hop[e]] PROVE <<item[e]>> \o t \in L[e]
  <2>1. item[e] \in X /\ hop[e] \in Nat
    BY <1>3
  <2>2. t \in Seq(X)
    BY <2>1
  <2>. HIDE DEF item, X
  <2>. QED BY <2>1, <2>2
<1>10. first \in Nat
  <2>1. AddDuration(from, window) \in Int /\ AddDuration(from, window) > from
    BY DurationGoesOn
  <2>. QED BY <2>1
<1>. HIDE DEF stops, item, hop, L, first
<1>11. \A e \in Nat : c[e] \in L[e]
  <2>. HIDE DEF X
  <2>. QED BY <1>3, <1>4, <1>7, <1>8, <1>9, ChainValues
<1>12. c[first] \in L[first]
  BY <1>10, <1>11
<1>. QED BY <1>1, <1>10, <1>12 DEF L
-----------------------------------------------------------------------------
(* Lists                                                                   *)

\* A function on the first n numbers is a sequence.
LEMMA Lists ==
  ASSUME NEW S, NEW n \in Nat, NEW f \in [1..n -> S]
  PROVE  f \in Seq(S) /\ Len(f) = n /\ DOMAIN f = 1..n
OBVIOUS

\* Of two numbers there is a greater and a smaller one.
LEMMA NumbersInOrder ==
  ASSUME NEW a \in Int, NEW b \in Int
  PROVE  Max({a, b}) \in Int /\ Min({a, b}) \in Int
<1>1. \E x \in {a, b} : \A y \in {a, b} : x >= y
  OBVIOUS
<1>2. \E x \in {a, b} : \A y \in {a, b} : x <= y
  OBVIOUS
<1>. QED BY <1>1, <1>2 DEF Max, Min

\* The rows and columns of a table of k rows and n columns that is read row by row.
LEMMA RowsAndColumns ==
  ASSUME NEW k \in Nat, NEW n \in Nat, NEW i \in 1..(k * n)
  PROVE  ((i - 1) \div n) + 1 \in 1..k /\ ((i - 1) % n) + 1 \in 1..n
<1>1. n > 0
  <2>1. n = 0 => k * n = 0
    OBVIOUS
  <2>2. n # 0
    BY <2>1
  <2>. QED BY <2>2
<1>. DEFINE q == (i - 1) \div n
            p == (i - 1) % n
<1>2. q \in Int /\ p \in 0..(n - 1) /\ i - 1 = n * q + p
  BY <1>1
<1>3. k * n \in Nat /\ i \in Nat /\ 1 <= i /\ i <= k * n
  BY <1>1
<1>. HIDE DEF q, p
<1>4. q >= 0
  <2>1. q <= 0 - 1 => n * q <= 0 - n
    BY <1>1, <1>2
  <2>. QED BY <1>1, <1>2, <1>3, <2>1
<1>5. q < k
  <2>1. q >= k => n * q >= n * k
    BY <1>1, <1>2
  <2>2. n * k = k * n
    OBVIOUS
  <2>. QED BY <1>1, <1>2, <1>3, <2>1, <2>2
<1>. QED BY <1>2, <1>4, <1>5 DEF q, p

\* The next cell is in the same row, or in the next one.
LEMMA NextRow ==
  ASSUME NEW k \in Nat, NEW n \in Nat, NEW i \in 1..(k * n - 1)
  PROVE  \/ (i \div n) = ((i - 1) \div n)
         \/ (i \div n) = ((i - 1) \div n) + 1 /\ ((i - 1) \div n) + 2 \in 1..k
<1>1. n > 0 /\ k * n \in Nat
  <2>1. n = 0 => k * n = 0
    OBVIOUS
  <2>2. n # 0
    BY <2>1
  <2>. QED BY <2>2
<1>2. i + 1 \in 1..(k * n) /\ i \in 1..(k * n)
  BY <1>1
<1>. DEFINE q == (i - 1) \div n
            p == (i - 1) % n
            u == i \div n
            v == i % n
<1>3. /\ q \in Int /\ p \in 0..(n - 1) /\ i - 1 = n * q + p
      /\ u \in Int /\ v \in 0..(n - 1) /\ i = n * u + v
  BY <1>1
<1>4. u + 1 \in 1..k
  <2>1. ((i + 1) - 1) = i
    OBVIOUS
  <2>. DEFINE j == i + 1
  <2>2. j \in 1..(k * n) /\ j - 1 = i
    BY <1>2
  <2>. HIDE DEF j
  <2>3. ((j - 1) \div n) + 1 \in 1..k
    BY <2>2, RowsAndColumns
  <2>. QED BY <2>2, <2>3
<1>. HIDE DEF q, p, u, v
<1>5. n * u = n * q + p + 1 - v
  BY <1>3
<1>6. u >= q
  <2>1. u <= q - 1 => n * u <= n * q - n
    <3>1. u <= q - 1 => n * u <= n * (q - 1)
      BY <1>1, <1>3
    <3>2. n * (q - 1) = n * q - n
      BY <1>3
    <3>. QED BY <3>1, <3>2
  <2>. QED BY <1>1, <1>3, <1>5, <2>1
<1>7. u <= q + 1
  <2>1. u >= q + 2 => n * u >= n * q + n + n
    <3>1. u >= q + 2 => n * u >= n * (q + 2)
      BY <1>1, <1>3
    <3>2. n * (q + 2) = n * q + n + n
      BY <1>3
    <3>. QED BY <3>1, <3>2
  <2>. QED BY <1>1, <1>3, <1>5, <2>1
<1>. QED BY <1>3, <1>4, <1>6, <1>7 DEF q, u

-----------------------------------------------------------------------------
(* Parameter sets                                                          *)

Maps == UNION {[D -> Int] : D \in SUBSET STRING}

Listed == [path : STRING, values : Seq(Int)]

\* A map with one value more is a map.
LEMMA WithIsMap ==
  ASSUME NEW m \in Maps, NEW key \in STRING, NEW v \in Int
  PROVE  With(m, key, v) \in Maps
<1>1. PICK D \in SUBSET STRING : m \in [D -> Int]
  BY DEF Maps
<1>2. With(m, key, v) \in [D \cup {key} -> Int]
  BY <1>1 DEF With
<1>. QED BY <1>2 DEF Maps

\* Each order of a grid is a list of maps.
LEMMA GridIsList ==
  ASSUME NEW ps \in Seq(Listed), NEW sets \in ParameterGrid(ps)
  PROVE  sets \in Seq(Maps)
<1>. DEFINE N == Len(ps)
            S == Seq(Maps)
            Row(g, k) == [i \in 1..(Len(g) * Len(ps[k].values)) |->
                            With(g[((i - 1) \div Len(ps[k].values)) + 1], ps[k].path,
                                 ps[k].values[((i - 1) % Len(ps[k].values)) + 1])]
            base == << <<>> >>
            step == [k \in 1..N |-> [g \in S |-> Row(g, k)]]
            P(f) == f = [k \in 0..N |-> IF k = 0 THEN base ELSE Row(f[k - 1], k)]
            c == CHOOSE f : P(f)
<1>1. sets = c[N]
  BY DEF ParameterGrid
<1>2. N \in Nat /\ \A k \in 1..N : ps[k].values \in Seq(Int) /\ ps[k].path \in STRING
  <2>1. N \in Nat /\ \A k \in 1..N : ps[k] \in Listed
    OBVIOUS
  <2>. HIDE DEF N
  <2>. QED BY <2>1 DEF Listed
<1>3. base \in S
  <2>1. <<>> \in [{} -> Int]
    OBVIOUS
  <2>2. {} \in SUBSET STRING
    OBVIOUS
  <2>3. <<>> \in Maps
    BY <2>1, <2>2 DEF Maps
  <2>. QED BY <2>3
<1>4. ASSUME NEW k \in 1..N, NEW g \in S PROVE Row(g, k) \in S
  <2>. DEFINE n == Len(ps[k].values)
              len == Len(g)
  <2>1. n \in Nat /\ len \in Nat /\ len * n \in Nat
    BY <1>2
  <2>2. ASSUME NEW i \in 1..(len * n)
        PROVE  With(g[((i - 1) \div n) + 1], ps[k].path, ps[k].values[((i - 1) % n) + 1]) \in Maps
    <3>. DEFINE a == ((i - 1) \div n) + 1
                b == ((i - 1) % n) + 1
    <3>. HIDE DEF n, len
    <3>1. a \in 1..len /\ b \in 1..n
      BY <2>1, RowsAndColumns
    <3>. HIDE DEF a, b
    <3>2. g[a] \in Maps /\ ps[k].values[b] \in Int
      BY <1>2, <3>1 DEF n, len
    <3>3. With(g[a], ps[k].path, ps[k].values[b]) \in Maps
      BY <1>2, <3>2, WithIsMap
    <3>. QED BY <3>3 DEF a, b
  <2>3. Row(g, k) \in [1..(len * n) -> Maps]
    BY <2>2
  <2>. HIDE DEF Row
  <2>. QED BY <2>1, <2>3, Lists
<1>. HIDE DEF Row, base, S, N
<1>5. P(c)
  <2>1. step \in [1..N -> [S -> S]]
    BY <1>4
  <2>2. Recursions(N, S, base, step) # {}
    <3>. HIDE DEF step
    <3>. QED BY <1>2, <1>3, <2>1, RecursionExists
  <2>3. PICK f \in [0..N -> S] : f[0] = base /\ \A n \in 1..N : f[n] = step[n][f[n - 1]]
    BY <2>2 DEF Recursions
  <2>4. ASSUME NEW k \in 0..N PROVE f[k] = IF k = 0 THEN base ELSE Row(f[k - 1], k)
    <3>1. CASE k = 0
      BY <2>3, <3>1
    <3>2. CASE k # 0
      <4>1. k \in 1..N /\ k - 1 \in 0..N
        BY <1>2, <3>2
      <4>2. f[k - 1] \in S
        BY <4>1
      <4>3. step[k][f[k - 1]] = Row(f[k - 1], k)
        BY <4>1, <4>2
      <4>. HIDE DEF step
      <4>. QED BY <2>3, <3>2, <4>1, <4>3
    <3>. QED BY <3>1, <3>2
  <2>5. P(f)
    <3>. HIDE DEF step
    <3>. QED BY <2>4
  <2>. HIDE DEF P
  <2>. QED BY <2>5
<1>. HIDE DEF c
<1>6. c[0] = base /\ \A k \in 1..N : c[k] = Row(c[k - 1], k)
  BY <1>2, <1>5
<1>. DEFINE K == {k \in Nat : k <= N => c[k] \in S}
<1>7. 0 \in K
  BY <1>3, <1>6
<1>8. ASSUME NEW k \in Nat, k \in K PROVE k + 1 \in K
  <2>1. SUFFICES ASSUME k + 1 <= N PROVE c[k + 1] \in S
    OBVIOUS
  <2>2. k + 1 \in 1..N /\ c[k] \in S /\ (k + 1) - 1 = k
    BY <1>2, <1>8, <2>1
  <2>3. c[k + 1] = Row(c[k], k + 1)
    BY <1>6, <2>2
  <2>. QED BY <1>4, <2>2, <2>3
<1>9. Nat \subseteq K
  <2>. HIDE DEF K
  <2>. QED BY <1>7, <1>8, SetInduction
<1>10. c[N] \in S
  BY <1>2, <1>9
<1>. QED BY <1>1, <1>10 DEF S

Searched == [path : STRING, values : Seq(Int), range : {<<>>} \cup [min : Int, max : Int, step : Int]]

\* The values to search are a list, whether they are given or a range.
LEMMA SearchValuesAreList ==
  ASSUME NEW p \in Searched
  PROVE  SearchValues(p) \in Seq(Int)
<1>1. CASE p.values # <<>>
  BY <1>1 DEF SearchValues, Searched
<1>2. CASE p.values = <<>> /\ (p.range = <<>> \/ p.range.step <= 0)
  BY <1>2 DEF SearchValues
<1>3. CASE p.values = <<>> /\ ~(p.range = <<>> \/ p.range.step <= 0)
  <2>1. p.range.min \in Int /\ p.range.max \in Int /\ p.range.step \in Int /\ p.range.step > 0
    <3>1. p.range \in [min : Int, max : Int, step : Int]
      BY <1>3 DEF Searched
    <3>. QED BY <1>3, <3>1
  <2>. DEFINE a == p.range.min
              b == p.range.max
              s == p.range.step
              n == ((b - a) \div s) + 1
              f == [i \in 1..n |-> a + (i - 1) * s]
  <2>2. SearchValues(p) = f
    BY <1>3 DEF SearchValues
  <2>. HIDE DEF a, b, s
  <2>3. a \in Int /\ b \in Int /\ s \in Int /\ s > 0
    BY <2>1 DEF a, b, s
  <2>4. n \in Int
    BY <2>3
  <2>5. f \in [1..n -> Int]
    BY <2>3
  <2>. HIDE DEF n, f
  <2>6. CASE n \in Nat
    BY <2>2, <2>5, <2>6, Lists
  <2>7. CASE n < 0
    <3>1. 1..n = 1..0
      BY <2>4, <2>7
    <3>. DEFINE zero == 0
    <3>2. zero \in Nat /\ f \in [1..zero -> Int]
      BY <2>5, <3>1
    <3>. HIDE DEF zero
    <3>. QED BY <2>2, <3>2, Lists
  <2>. QED BY <2>4, <2>6, <2>7
<1>. QED BY <1>1, <1>2, <1>3

\* The parameter sets of a request are listed.
LEMMA ParameterSetsAreList ==
  ASSUME NEW r, r.parameters \in Seq(Listed), r.search.samples \in Int, r.search.parameters \in Seq(Searched),
         NEW sets \in ParameterSets(r)
  PROVE  sets \in Seq(Maps)
<1>. DEFINE search == r.search
            ps == [k \in DOMAIN search.parameters |->
                     [path |-> search.parameters[k].path, values |-> SearchValues(search.parameters[k])]]
<1>1. CASE sets \in ParameterGrid(r.parameters)
  BY <1>1, GridIsList
<1>2. ps \in Seq(Listed)
  <2>. DEFINE n == Len(search.parameters)
  <2>1. n \in Nat /\ DOMAIN search.parameters = 1..n /\ \A k \in 1..n : search.parameters[k] \in Searched
    OBVIOUS
  <2>2. ASSUME NEW k \in 1..n
        PROVE  [path |-> search.parameters[k].path, values |-> SearchValues(search.parameters[k])] \in Listed
    <3>. DEFINE p == search.parameters[k]
    <3>1. p \in Searched
      BY <2>1
    <3>. HIDE DEF p
    <3>2. SearchValues(p) \in Seq(Int)
      BY <3>1, SearchValuesAreList
    <3>3. p.path \in STRING
      BY <3>1 DEF Searched
    <3>. QED BY <3>2, <3>3 DEF Listed, p
  <2>3. ps \in [1..n -> Listed]
    BY <2>1, <2>2
  <2>. HIDE DEF ps, n
  <2>. QED BY <2>1, <2>3, Lists
<1>3. \A grid \in ParameterGrid(ps) : grid \in Seq(Maps)
  <2>. HIDE DEF ps
  <2>. QED BY <1>2, GridIsList
<1>4. CASE sets \in SearchedSets(search)
  <2>1. \/ sets \in ParameterGrid(ps)
        \/ search.samples > 0 /\ sets \in UNION {[1..search.samples -> ToSet(grid)] : grid \in ParameterGrid(ps)}
    BY <1>4 DEF SearchedSets
  <2>. HIDE DEF ps
  <2>2. CASE search.samples > 0 /\ sets \in UNION {[1..search.samples -> ToSet(grid)] : grid \in ParameterGrid(ps)}
    <3>1. PICK grid \in ParameterGrid(ps) : sets \in [1..search.samples -> ToSet(grid)]
      BY <2>2
    <3>2. \A x \in ToSet(grid) : x \in Maps
      BY <1>3 DEF ToSet
    <3>. DEFINE n == search.samples
    <3>3. n \in Nat /\ sets \in [1..n -> Maps]
      BY <2>2, <3>1, <3>2
    <3>. HIDE DEF n
    <3>. QED BY <3>3, Lists
  <2>. QED BY <1>3, <2>1, <2>2
<1>5. sets \in ParameterGrid(r.parameters) \/ sets \in SearchedSets(search)
  BY DEF ParameterSets
<1>. QED BY <1>1, <1>4, <1>5
-----------------------------------------------------------------------------
(* Plans                                                                   *)

CasesWith(computed) == [period : Periods, parameters : Maps, metrics : {computed}]

\* The cases of some periods and sets: each set in a period, and then the next period.
TableOf(periods, sets, computed, cases) ==
  /\ cases \in Seq(CasesWith(computed))
  /\ Len(sets) \in Nat /\ Len(periods) \in Nat /\ Len(cases) = Len(periods) * Len(sets)
  /\ \A i \in 1..(Len(periods) * Len(sets)) :
       /\ ((i - 1) \div Len(sets)) + 1 \in 1..Len(periods)
       /\ cases[i].period = periods[((i - 1) \div Len(sets)) + 1]
       /\ cases[i].parameters = sets[((i - 1) % Len(sets)) + 1]
       /\ cases[i].metrics = computed

\* The cases of periods and parameter sets are a table of them.
LEMMA CasesAreList ==
  ASSUME NEW periods \in Seq(Periods), NEW sets \in Seq(Maps), NEW computed
  PROVE  TableOf(periods, sets, computed, CasesOf(periods, sets, computed))
<1>. DEFINE cases == CasesOf(periods, sets, computed)
            n == Len(sets)
            k == Len(periods)
            row(i) == ((i - 1) \div n) + 1
            col(i) == ((i - 1) % n) + 1
<1>1. n \in Nat /\ k \in Nat /\ k * n \in Nat
  OBVIOUS
<1>2. cases = [i \in 1..(k * n) |-> [period |-> periods[row(i)], parameters |-> sets[col(i)], metrics |-> computed]]
  BY DEF CasesOf
<1>. HIDE DEF cases
<1>3. ASSUME NEW i \in 1..(k * n) PROVE row(i) \in 1..k /\ col(i) \in 1..n
  <2>. HIDE DEF k, n
  <2>. QED BY <1>1, RowsAndColumns
<1>. HIDE DEF row, col
<1>4. ASSUME NEW i \in 1..(k * n)
      PROVE  [period |-> periods[row(i)], parameters |-> sets[col(i)], metrics |-> computed] \in CasesWith(computed)
  <2>1. periods[row(i)] \in Periods /\ sets[col(i)] \in Maps
    BY <1>3
  <2>. QED BY <2>1 DEF CasesWith
<1>5. cases \in [1..(k * n) -> CasesWith(computed)]
  BY <1>2, <1>4
<1>6. cases \in Seq(CasesWith(computed)) /\ Len(cases) = k * n
  <2>. DEFINE m == k * n
  <2>1. m \in Nat /\ cases \in [1..m -> CasesWith(computed)]
    BY <1>1, <1>5
  <2>. HIDE DEF m
  <2>2. cases \in Seq(CasesWith(computed)) /\ Len(cases) = m
    BY <2>1, Lists
  <2>. QED BY <2>2 DEF m
<1>7. ASSUME NEW i \in 1..(k * n)
      PROVE  cases[i].period = periods[row(i)] /\ cases[i].parameters = sets[col(i)] /\ cases[i].metrics = computed
  BY <1>2
<1>. QED BY <1>1, <1>3, <1>6, <1>7 DEF cases, row, col, TableOf

\* What the periods of the cases are.
LEMMA PeriodsAreList ==
  ASSUME NEW r \in Requests, NEW periods \in EvaluationPeriods(r)
  PROVE  /\ periods \in Seq(Periods)
         /\ r.mode = "yearly" \/ (r.mode = "rolling" /\ r.step = NoDuration) =>
              \A i \in 1..(Len(periods) - 1) : periods[i + 1].from = periods[i].to + 1
         /\ r.mode = "expanding" => \A i \in 1..Len(periods) : periods[i].from = r.from
<1>. DEFINE from == r.from
            to == r.to
            step == IF r.step = NoDuration THEN r.window ELSE r.step
<1>1. /\ from \in Nat /\ to \in Int /\ r.items \in Seq(Periods)
      /\ r.window \in Durations /\ r.step \in Durations /\ step \in Durations
  BY RequestAssumption DEF Periods
<1>2. from <= to
  BY <1>1 DEF EvaluationPeriods
<1>. HIDE DEF from, to
<1>3. CASE r.mode = "explicit"
  <2>1. periods = <<Period(from, to)>> \/ periods = r.items
    BY <1>1, <1>2, <1>3 DEF EvaluationPeriods, from, to
  <2>2. Period(from, to) \in Periods
    BY <1>1 DEF Period, Periods
  <2>. HIDE DEF step
  <2>3. <<Period(from, to)>> \in Seq(Periods)
    BY <2>2
  <2>4. periods \in Seq(Periods)
    BY <1>1, <2>1, <2>3
  <2>. QED BY <1>3, <2>4
<1>4. CASE r.mode = "yearly"
  <2>1. periods = YearlyPeriods(from, to)
    BY <1>1, <1>2, <1>4 DEF EvaluationPeriods, from, to
  <2>. DEFINE n == YearOf(to) - YearOf(from) + 1
  <2>2. YearOf(to) \in Int /\ YearOf(from) \in Int /\ YearOf(to) >= YearOf(from)
    BY <1>1, <1>2 DEF YearOf
  <2>3. n \in Nat
    BY <2>2
  <2>4. ASSUME NEW i \in 1..n PROVE
          LET y == YearOf(from) + i - 1
          IN  Period(Max({from, YearStart(y)}), Min({to, YearStart(y + 1) - 1})) \in Periods
    <3>. DEFINE y == YearOf(from) + i - 1
                a == YearStart(y)
                b == YearStart(y + 1) - 1
    <3>1. a \in Int /\ b \in Int
      BY <2>2 DEF YearStart
    <3>. HIDE DEF a, b
    <3>. DEFINE c == from
    <3>0. c \in Int /\ to \in Int
      BY <1>1
    <3>. HIDE DEF c
    <3>2. Max({c, a}) \in Int /\ Min({to, b}) \in Int
      BY <3>0, <3>1, NumbersInOrder
    <3>3. Period(Max({from, a}), Min({to, b})) \in Periods
      BY <3>2 DEF Period, Periods, c
    <3>. QED BY <3>3 DEF a, b
  <2>5. periods \in [1..n -> Periods]
    BY <2>1, <2>4 DEF YearlyPeriods
  <2>6. periods \in Seq(Periods) /\ Len(periods) = n
    <3>. HIDE DEF n
    <3>. QED BY <2>3, <2>5, Lists
  <2>7. ASSUME NEW i \in 1..(n - 1) PROVE periods[i + 1].from = periods[i].to + 1
    <3>1. i \in 1..(YearOf(to) - YearOf(from))
      BY <2>2
    <3>. QED BY <1>1, <1>2, <2>1, <3>1, Yearly
  <2>. HIDE DEF n, step
  <2>. QED BY <1>4, <2>6, <2>7
<1>5. CASE r.mode = "rolling"
  <2>1. r.window # NoDuration /\ periods = RollingPeriods(from, to, r.window, step)
    BY <1>1, <1>2, <1>5 DEF EvaluationPeriods, Some, from, to
  <2>2. step # NoDuration /\ (r.step = NoDuration => step = r.window)
    BY <2>1
  <2>. HIDE DEF step
  <2>3. periods \in Seq(Periods) /\ (step = r.window => periods \in Following(from))
    BY <1>1, <2>1, <2>2, RollingFollows
  <2>4. r.step = NoDuration => \A i \in 1..(Len(periods) - 1) : periods[i + 1].from = periods[i].to + 1
    BY <2>2, <2>3 DEF Following
  <2>. QED BY <1>5, <2>3, <2>4
<1>6. CASE r.mode = "expanding"
  <2>1. r.window # NoDuration /\ periods = ExpandingPeriods(from, to, r.window, step)
    BY <1>1, <1>2, <1>6 DEF EvaluationPeriods, Some, from, to
  <2>2. step # NoDuration
    BY <2>1
  <2>. HIDE DEF step
  <2>. DEFINE X == {p \in Periods : p.from = from}
  <2>3. periods \in Seq(X)
    BY <1>1, <2>1, <2>2, ExpandingBeginsTogether
  <2>4. periods \in Seq(Periods) /\ \A i \in 1..Len(periods) : periods[i].from = from
    BY <2>3
  <2>. QED BY <1>6, <2>4 DEF from
<1>7. CASE r.mode \notin {"explicit", "yearly", "rolling", "expanding"}
  <2>1. periods = <<>>
    BY <1>1, <1>2, <1>7 DEF EvaluationPeriods, from, to
  <2>. QED BY <1>7, <2>1
<1>. QED BY <1>3, <1>4, <1>5, <1>6, <1>7

\* What a plan is made of.
LEMMA DraftParts ==
  ASSUME NEW r \in Requests, NEW draft \in Drafts(r)
  PROVE  \E periods \in EvaluationPeriods(r), sets \in Seq(Maps), steps \in Seq(StepsWithin(r.from, r.to)) :
           /\ ValidRequest(r) /\ periods \in Seq(Periods)
           /\ draft = PlanOf(periods, sets, steps, Selected(CaseSelection(r), HasBenchmark(r)))
<1>1. /\ r.from \in Nat /\ r.to \in Int
      /\ r.train \in Durations /\ r.test \in Durations /\ r.advance \in Durations
      /\ r.parameters \in Seq(Listed) /\ r.search.samples \in Int /\ r.search.parameters \in Seq(Searched)
  BY RequestAssumption DEF Listed, Searched
<1>2. ValidRequest(r)
  BY DEF Drafts
<1>3. PICK periods \in EvaluationPeriods(r), sets \in ParameterSets(r), steps \in WalkForwards(r) :
        draft = PlanOf(periods, sets, steps, Selected(CaseSelection(r), HasBenchmark(r)))
  BY DEF Drafts
<1>4. periods \in Seq(Periods)
  BY PeriodsAreList
<1>5. sets \in Seq(Maps)
  BY <1>1, ParameterSetsAreList
<1>6. steps \in Seq(StepsWithin(r.from, r.to))
  <2>1. CASE r.train = NoDuration \/ r.test = NoDuration
    <3>1. steps = <<>>
      BY <2>1 DEF WalkForwards
    <3>. QED BY <3>1
  <2>2. CASE r.train # NoDuration /\ r.test # NoDuration
    <3>1. steps = WalkForwardSteps(r)
      BY <2>2 DEF WalkForwards, Some
    <3>. QED BY <1>1, <2>2, <3>1, StepsAreUnseen
  <2>. QED BY <2>1, <2>2
<1>. QED BY <1>2, <1>3, <1>4, <1>5, <1>6
Unseen(r, draft) ==
  /\ \A k \in 1..Len(draft.steps) : \A i \in DOMAIN draft.steps[k].train :
       /\ draft.steps[k].test[i].parameters = draft.steps[k].train[i].parameters
       /\ r.from <= draft.steps[k].train[i].period.from
       /\ draft.steps[k].test[i].period.from = draft.steps[k].train[i].period.to + 1
       /\ draft.steps[k].test[i].period.to <= r.to
  /\ r.mode = "yearly" \/ (r.mode = "rolling" /\ r.step = NoDuration) =>
       \A i \in 1..(Len(draft.cases) - 1) :
         \/ draft.cases[i + 1].period = draft.cases[i].period
         \/ draft.cases[i + 1].period.from = draft.cases[i].period.to + 1
  /\ r.mode = "expanding" => \A i \in DOMAIN draft.cases : draft.cases[i].period.from = r.from

StepOf(step, sets, computed) ==
  [train |-> CasesOf(<<step.train>>, sets, computed), test |-> CasesOf(<<step.test>>, sets, computed)]

\* The cases of a step are as many in training as in test, with the same parameters.
LEMMA StepsAreLists ==
  ASSUME NEW from, NEW to, NEW steps \in Seq(StepsWithin(from, to)), NEW sets \in Seq(Maps), NEW computed,
         NEW periods
  PROVE  LET draft == PlanOf(periods, sets, steps, computed)
             n == Len(sets)
         IN  /\ draft.cases = CasesOf(periods, sets, computed)
             /\ Len(steps) \in Nat /\ Len(draft.steps) = Len(steps) /\ DOMAIN draft.steps = 1..Len(steps)
             /\ n \in Nat
             /\ \A k \in 1..Len(steps) :
                  /\ draft.steps[k].train \in Seq(CasesWith(computed))
                  /\ Len(draft.steps[k].train) = n
                  /\ DOMAIN draft.steps[k].train = 1..n /\ DOMAIN draft.steps[k].test = 1..n
                  /\ \A i \in 1..n :
                       /\ draft.steps[k].test[i].parameters = draft.steps[k].train[i].parameters
                       /\ draft.steps[k].train[i].period = steps[k].train
                       /\ draft.steps[k].test[i].period = steps[k].test
                       /\ draft.steps[k].train[i].metrics = computed
<1>. DEFINE draft == PlanOf(periods, sets, steps, computed)
            n == Len(sets)
            N == Len(steps)
<1>1. N \in Nat /\ n \in Nat /\ DOMAIN steps = 1..N /\ \A k \in 1..N : steps[k] \in StepsWithin(from, to)
  OBVIOUS
<1>2. draft.cases = CasesOf(periods, sets, computed)
      /\ draft.steps = [k \in 1..N |-> StepOf(steps[k], sets, computed)]
  BY <1>1 DEF PlanOf, StepOf
<1>. HIDE DEF draft
<1>3. ASSUME NEW p \in Periods
      PROVE  LET cases == CasesOf(<<p>>, sets, computed)
             IN  /\ cases \in Seq(CasesWith(computed)) /\ Len(cases) = n /\ DOMAIN cases = 1..n
                 /\ \A i \in 1..n : /\ cases[i].period = p /\ cases[i].parameters = sets[((i - 1) % n) + 1]
                                    /\ cases[i].metrics = computed
  <2>. DEFINE ps == <<p>>
              cases == CasesOf(ps, sets, computed)
  <2>1. ps \in Seq(Periods) /\ Len(ps) = 1 /\ ps[1] = p
    OBVIOUS
  <2>. HIDE DEF ps
  <2>2. /\ cases \in Seq(CasesWith(computed)) /\ Len(cases) = Len(ps) * n
        /\ \A i \in 1..(Len(ps) * n) :
             /\ ((i - 1) \div n) + 1 \in 1..Len(ps)
             /\ cases[i].period = ps[((i - 1) \div n) + 1]
             /\ cases[i].parameters = sets[((i - 1) % n) + 1]
             /\ cases[i].metrics = computed
    <3>1. TableOf(ps, sets, computed, cases)
      BY <2>1, CasesAreList
    <3>. HIDE DEF cases
    <3>. QED BY <3>1 DEF TableOf
  <2>. HIDE DEF cases
  <2>3. Len(ps) * n = n
    <3>1. 1 * n = n
      BY <1>1
    <3>. QED BY <2>1, <3>1
  <2>4. ASSUME NEW i \in 1..n
        PROVE cases[i].period = p /\ cases[i].parameters = sets[((i - 1) % n) + 1] /\ cases[i].metrics = computed
    <3>1. ((i - 1) \div n) + 1 = 1
      BY <2>1, <2>2, <2>3
    <3>. QED BY <2>1, <2>2, <2>3, <3>1
  <2>5. cases \in Seq(CasesWith(computed)) /\ Len(cases) = n /\ DOMAIN cases = 1..n
    BY <2>2, <2>3
  <2>. QED BY <2>4, <2>5 DEF cases, ps
<1>4. Len(draft.steps) = N /\ DOMAIN draft.steps = 1..N
  <2>. DEFINE Made == {StepOf(steps[k], sets, computed) : k \in 1..N}
  <2>1. draft.steps \in [1..N -> Made]
    BY <1>2
  <2>. HIDE DEF Made, N
  <2>. QED BY <1>1, <2>1, Lists
<1>5. ASSUME NEW k \in 1..N
      PROVE  /\ draft.steps[k].train \in Seq(CasesWith(computed)) /\ Len(draft.steps[k].train) = n
             /\ DOMAIN draft.steps[k].train = 1..n /\ DOMAIN draft.steps[k].test = 1..n
             /\ \A i \in 1..n :
                  /\ draft.steps[k].test[i].parameters = draft.steps[k].train[i].parameters
                  /\ draft.steps[k].train[i].period = steps[k].train
                  /\ draft.steps[k].test[i].period = steps[k].test
                  /\ draft.steps[k].train[i].metrics = computed
  <2>. DEFINE p == steps[k].train
              q == steps[k].test
  <2>1. p \in Periods /\ q \in Periods
    BY <1>1 DEF StepsWithin
  <2>2. draft.steps[k].train = CasesOf(<<p>>, sets, computed) /\ draft.steps[k].test = CasesOf(<<q>>, sets, computed)
    BY <1>2 DEF StepOf
  <2>. HIDE DEF p, q, n, N
  <2>3. /\ draft.steps[k].train \in Seq(CasesWith(computed)) /\ Len(draft.steps[k].train) = n
        /\ DOMAIN draft.steps[k].train = 1..n
        /\ \A i \in 1..n : /\ draft.steps[k].train[i].period = p
                           /\ draft.steps[k].train[i].parameters = sets[((i - 1) % n) + 1]
                           /\ draft.steps[k].train[i].metrics = computed
    BY <1>3, <2>1, <2>2
  <2>4. /\ DOMAIN draft.steps[k].test = 1..n
        /\ \A i \in 1..n : /\ draft.steps[k].test[i].period = q
                           /\ draft.steps[k].test[i].parameters = sets[((i - 1) % n) + 1]
    BY <1>3, <2>1, <2>2
  <2>. QED BY <2>3, <2>4 DEF p, q
<1>. QED BY <1>1, <1>2, <1>4, <1>5 DEF draft

\* Every plan a request may become keeps its tests unseen.
LEMMA DraftsUnseen ==
  ASSUME NEW r \in Requests, NEW draft \in Drafts(r)
  PROVE  Unseen(r, draft)
<1>. DEFINE computed == Selected(CaseSelection(r), HasBenchmark(r))
<1>1. PICK periods \in EvaluationPeriods(r), sets \in Seq(Maps), steps \in Seq(StepsWithin(r.from, r.to)) :
        periods \in Seq(Periods) /\ draft = PlanOf(periods, sets, steps, computed)
  BY DraftParts
<1>. HIDE DEF computed
<1>. DEFINE n == Len(sets)
            N == Len(steps)
            row(i) == ((i - 1) \div n) + 1
<1>2. /\ draft.cases = CasesOf(periods, sets, computed)
      /\ N \in Nat /\ Len(draft.steps) = N /\ n \in Nat
      /\ \A k \in 1..N :
           /\ DOMAIN draft.steps[k].train = 1..n
           /\ \A i \in 1..n :
                /\ draft.steps[k].test[i].parameters = draft.steps[k].train[i].parameters
                /\ draft.steps[k].train[i].period = steps[k].train
                /\ draft.steps[k].test[i].period = steps[k].test
  BY <1>1, StepsAreLists
<1>3. /\ draft.cases \in Seq(CasesWith(computed)) /\ Len(periods) \in Nat
      /\ Len(draft.cases) = Len(periods) * n
      /\ \A i \in 1..(Len(periods) * n) :
           row(i) \in 1..Len(periods) /\ draft.cases[i].period = periods[row(i)]
  <2>1. TableOf(periods, sets, computed, draft.cases)
    BY <1>1, <1>2, CasesAreList
  <2>. QED BY <2>1 DEF TableOf
<1>4. \A k \in 1..N : steps[k] \in StepsWithin(r.from, r.to)
  OBVIOUS
<1>5. ASSUME NEW k \in 1..Len(draft.steps), NEW i \in DOMAIN draft.steps[k].train
      PROVE  /\ draft.steps[k].test[i].parameters = draft.steps[k].train[i].parameters
             /\ r.from <= draft.steps[k].train[i].period.from
             /\ draft.steps[k].test[i].period.from = draft.steps[k].train[i].period.to + 1
             /\ draft.steps[k].test[i].period.to <= r.to
  <2>. HIDE DEF n, N
  <2>1. k \in 1..N /\ i \in 1..n
    BY <1>2
  <2>2. /\ draft.steps[k].test[i].parameters = draft.steps[k].train[i].parameters
        /\ draft.steps[k].train[i].period = steps[k].train
        /\ draft.steps[k].test[i].period = steps[k].test
    BY <1>2, <2>1
  <2>. QED BY <1>4, <2>1, <2>2 DEF StepsWithin
<1>6. ASSUME r.mode = "yearly" \/ (r.mode = "rolling" /\ r.step = NoDuration),
             NEW i \in 1..(Len(draft.cases) - 1)
      PROVE  \/ draft.cases[i + 1].period = draft.cases[i].period
             \/ draft.cases[i + 1].period.from = draft.cases[i].period.to + 1
  <2>. DEFINE k == Len(periods)
              j == i + 1
  <2>1. k \in Nat /\ n \in Nat /\ k * n \in Nat /\ i \in 1..(k * n - 1) /\ i \in 1..(k * n) /\ j \in 1..(k * n)
        /\ j - 1 = i
    <3>1. k * n \in Nat
      BY <1>2, <1>3
    <3>. QED BY <1>2, <1>3, <3>1
  <2>2. row(i) \in 1..k /\ draft.cases[i].period = periods[row(i)]
    BY <1>3, <2>1
  <2>3. row(j) \in 1..k /\ draft.cases[j].period = periods[row(j)]
    BY <1>3, <2>1
  <2>4. \A l \in 1..(k - 1) : periods[l + 1].from = periods[l].to + 1
    BY <1>6, PeriodsAreList
  <2>5. \/ (i \div n) = ((i - 1) \div n)
        \/ (i \div n) = ((i - 1) \div n) + 1 /\ ((i - 1) \div n) + 2 \in 1..k
    <3>. HIDE DEF k, n
    <3>. QED BY <2>1, NextRow
  <2>6. row(j) = (i \div n) + 1
    BY <2>1
  <2>7. row(j) = row(i) \/ (row(j) = row(i) + 1 /\ row(i) \in 1..(k - 1))
    <3>. DEFINE u == i \div n
                v == (i - 1) \div n
    <3>1. (u = v \/ (u = v + 1 /\ v + 2 \in 1..k)) /\ row(j) = u + 1 /\ row(i) = v + 1
      BY <2>5, <2>6
    <3>. HIDE DEF u, v, row, k
    <3>. QED BY <2>1, <2>2, <2>3, <3>1
  <2>. HIDE DEF row
  <2>8. CASE row(j) = row(i)
    BY <2>2, <2>3, <2>8
  <2>9. CASE row(j) = row(i) + 1 /\ row(i) \in 1..(k - 1)
    BY <2>2, <2>3, <2>4, <2>9
  <2>. QED BY <2>7, <2>8, <2>9
<1>7. ASSUME r.mode = "expanding", NEW i \in DOMAIN draft.cases
      PROVE  draft.cases[i].period.from = r.from
  <2>1. i \in 1..(Len(periods) * n)
    BY <1>3
  <2>2. row(i) \in 1..Len(periods) /\ draft.cases[i].period = periods[row(i)]
    BY <1>3, <2>1
  <2>3. \A l \in 1..Len(periods) : periods[l].from = r.from
    BY <1>7, PeriodsAreList
  <2>. HIDE DEF row
  <2>. QED BY <2>2, <2>3
<1>. QED BY <1>5, <1>6, <1>7 DEF Unseen
-----------------------------------------------------------------------------
(* Metrics                                                                 *)

\* What a ranking and constraints read is required.
LEMMA ReadIsRequired ==
  ASSUME NEW r, ValidRequest(r),
         NEW ranking, NEW constraints,
         \/ ranking = r.ranking /\ constraints = r.constraints
         \/ ranking = WalkForwardRanking(r) /\ constraints = WalkForwardConstraints(r)
  PROVE  ObjectiveMetrics(ranking) \cup {ConstraintMetric[c] : c \in DOMAIN constraints} \subseteq RequiredMetrics(r)
<1>1. {ConstraintMetric[c] : c \in DOMAIN constraints} \subseteq RequiredMetrics(r)
  BY DEF RequiredMetrics, WalkForwardConstraints
<1>2. Objective(r.ranking) # ""
  BY DEF Objective
<1>3. CASE ranking = r.ranking
  <2>1. CASE Objective(r.ranking) = "weighted_score"
    <3>1. ObjectiveMetrics(ranking) = DOMAIN r.ranking.weights
      BY <1>3, <2>1 DEF ObjectiveMetrics
    <3>. QED BY <1>1, <3>1 DEF RequiredMetrics
  <2>2. CASE Objective(r.ranking) # "weighted_score"
    <3>1. ObjectiveMetrics(ranking) = {Objective(r.ranking)}
      BY <1>3, <2>2 DEF ObjectiveMetrics
    <3>2. Objective(r.ranking) \in RequiredMetrics(r)
      BY <1>2, <2>2 DEF RequiredMetrics
    <3>. QED BY <1>1, <3>1, <3>2
  <2>. QED BY <2>1, <2>2
<1>4. CASE ranking = WalkForwardRanking(r)
  <2>1. ranking.weights = r.ranking.weights \/ ranking.weights = r.select.weights
    BY <1>4 DEF WalkForwardRanking
  <2>2. ranking.objective = (IF r.select.objective = "" THEN Objective(r.ranking) ELSE r.select.objective)
    BY <1>4 DEF WalkForwardRanking
  <2>3. Objective(ranking) = ranking.objective
    BY <1>2, <2>2 DEF Objective
  <2>4. CASE ranking.objective = "weighted_score"
    <3>1. ObjectiveMetrics(ranking) = DOMAIN ranking.weights
      BY <2>3, <2>4 DEF ObjectiveMetrics
    <3>2. DOMAIN ranking.weights \subseteq RequiredMetrics(r)
      BY <2>1 DEF RequiredMetrics
    <3>. QED BY <1>1, <3>1, <3>2
  <2>5. CASE ranking.objective # "weighted_score"
    <3>1. ObjectiveMetrics(ranking) = {ranking.objective}
      BY <2>3, <2>5 DEF ObjectiveMetrics
    <3>2. ranking.objective \in {Objective(r.ranking), r.select.objective} /\ ranking.objective # ""
      BY <1>2, <2>2
    <3>3. ranking.objective \in RequiredMetrics(r)
      BY <2>5, <3>2 DEF RequiredMetrics
    <3>. QED BY <1>1, <3>1, <3>3
  <2>. QED BY <2>4, <2>5
<1>. QED BY <1>1, <1>3, <1>4

\* Something is required.
LEMMA SomethingIsRequired ==
  ASSUME NEW r, ValidRequest(r), r.ranking.weights \in [DOMAIN r.ranking.weights -> Int]
  PROVE  RequiredMetrics(r) # {}
<1>1. CASE r.ranking.objective = "weighted_score"
  <2>1. r.ranking.weights # <<>>
    BY <1>1 DEF ValidRequest, ValidObjective
  <2>2. DOMAIN r.ranking.weights # {}
    <3>1. SUFFICES ASSUME DOMAIN r.ranking.weights = {} PROVE r.ranking.weights = <<>>
      BY <2>1
    <3>. DEFINE w == r.ranking.weights
    <3>2. w \in [{} -> Int]
      BY <3>1
    <3>3. <<>> \in [{} -> Int]
      OBVIOUS
    <3>. HIDE DEF w
    <3>4. w = <<>>
      BY <3>2, <3>3
    <3>. QED BY <3>4 DEF w
  <2>. QED BY <2>2 DEF RequiredMetrics
<1>2. CASE r.ranking.objective # "weighted_score"
  <2>1. Objective(r.ranking) \notin {"", "weighted_score"}
    BY <1>2 DEF Objective
  <2>. QED BY <2>1 DEF RequiredMetrics
<1>. QED BY <1>1, <1>2

\* The metrics that the cases compute are those that "validate" names, the required ones among them.
LEMMA ComputedIsReported ==
  ASSUME NEW r \in Requests, ValidRequest(r)
  PROVE  /\ Selected(CaseSelection(r), HasBenchmark(r)) = ReportedMetrics(r)
         /\ RequiredMetrics(r) \subseteq ReportedMetrics(r)
<1>1. r.metrics \in Selections /\ r.ranking.weights \in [DOMAIN r.ranking.weights -> Int]
  BY RequestAssumption DEF Weights
<1>2. RequiredMetrics(r) # {}
  BY <1>1, SomethingIsRequired
<1>. DEFINE m == MetricsOf(r)
<1>3. RequiredMetrics(r) \subseteq m.include /\ RequiredMetrics(r) \cap m.exclude = {}
  BY <1>1 DEF MetricsOf, Selections
<1>. HIDE DEF m
<1>4. m # NoSelection
  <2>1. m.include # {}
    BY <1>2, <1>3
  <2>2. NoSelection.include = {}
    BY DEF NoSelection
  <2>. QED BY <2>1, <2>2
<1>5. CaseSelection(r) = m
  BY <1>4 DEF CaseSelection, m
<1>6. ReportedMetrics(r) = Selected(m, HasBenchmark(r))
  BY <1>4 DEF ReportedMetrics, m
<1>7. RequiredMetrics(r) \subseteq Selected(m, HasBenchmark(r))
  BY <1>3 DEF Selected
<1>. QED BY <1>5, <1>6, <1>7

\* The cases of a plan compute what is reported.
LEMMA CasesCompute ==
  ASSUME NEW r \in Requests, NEW draft \in Drafts(r)
  PROVE  /\ ValidRequest(r)
         /\ \A i \in DOMAIN draft.cases : draft.cases[i].metrics = ReportedMetrics(r)
         /\ \A k \in DOMAIN draft.steps : \A i \in DOMAIN draft.steps[k].train :
              draft.steps[k].train[i].metrics = ReportedMetrics(r)
<1>. DEFINE computed == Selected(CaseSelection(r), HasBenchmark(r))
<1>1. PICK periods \in EvaluationPeriods(r), sets \in Seq(Maps), steps \in Seq(StepsWithin(r.from, r.to)) :
        ValidRequest(r) /\ periods \in Seq(Periods) /\ draft = PlanOf(periods, sets, steps, computed)
  BY DraftParts
<1>2. computed = ReportedMetrics(r)
  BY <1>1, ComputedIsReported
<1>. HIDE DEF computed
<1>3. TableOf(periods, sets, computed, draft.cases)
  BY <1>1, CasesAreList DEF PlanOf
<1>4. \A i \in DOMAIN draft.cases : draft.cases[i].metrics = computed
  BY <1>3 DEF TableOf
<1>5. \A k \in DOMAIN draft.steps : \A i \in DOMAIN draft.steps[k].train :
        draft.steps[k].train[i].metrics = computed
  <2>. DEFINE n == Len(sets)
              N == Len(steps)
  <2>1. /\ DOMAIN draft.steps = 1..N
        /\ \A k \in 1..N :
             /\ DOMAIN draft.steps[k].train = 1..n
             /\ \A i \in 1..n : draft.steps[k].train[i].metrics = computed
    BY <1>1, StepsAreLists
  <2>. HIDE DEF n, N
  <2>. QED BY <2>1
<1>. QED BY <1>1, <1>2, <1>4, <1>5
-----------------------------------------------------------------------------
(* Rankings                                                                *)

WeightedSum(metrics, weights, S) == MapThenSumSet(LAMBDA m : metrics[m] * weights[m], S)

\* A weighted sum of numbers is a number.
LEMMA SumIsNumber ==
  ASSUME NEW S, IsFiniteSet(S), NEW metrics, NEW weights,
         \A m \in S : metrics[m] \in Int /\ weights[m] \in Int
  PROVE  WeightedSum(metrics, weights, S) \in Int
<1>. DEFINE Chosen(T) == CHOOSE x \in T : TRUE
            Added(x, v) == metrics[x] * weights[x] + v
            P(f) == f = [T \in SUBSET S |-> IF T = {} THEN 0 ELSE Added(Chosen(T), f[T \ {Chosen(T)}])]
            c == CHOOSE f : P(f)
            pick == [T \in SUBSET S |-> Chosen(T)]
            step == [x \in S |-> [v \in Int |-> Added(x, v)]]
            zero == 0
<1>1. WeightedSum(metrics, weights, S) = c[S]
  BY DEF WeightedSum, MapThenSumSet, MapThenFoldSet
<1>2. ASSUME NEW T \in SUBSET S, T # {} PROVE Chosen(T) \in T
  BY <1>2
<1>3. ASSUME NEW x \in S, NEW v \in Int PROVE Added(x, v) \in Int
  OBVIOUS
<1>. HIDE DEF Chosen, Added
<1>4. step \in [S -> [Int -> Int]] /\ \A T \in SUBSET S : T # {} => pick[T] \in T
  BY <1>2, <1>3
<1>5. zero \in Int
  OBVIOUS
<1>6. PICK f \in [SUBSET S -> Int] :
        \A T \in SUBSET S : f[T] = IF T = {} THEN zero ELSE step[pick[T]][f[T \ {pick[T]}]]
  <2>. HIDE DEF step, pick, zero
  <2>1. SetRecursions(S, Int, zero, pick, step) # {}
    BY <1>4, <1>5, SetRecursionExists
  <2>. QED BY <2>1 DEF SetRecursions
<1>7. ASSUME NEW T \in SUBSET S
      PROVE  f[T] = IF T = {} THEN 0 ELSE Added(Chosen(T), f[T \ {Chosen(T)}])
  <2>1. CASE T = {}
    BY <1>6, <2>1
  <2>2. CASE T # {}
    <3>. DEFINE x == Chosen(T)
                U == T \ {x}
    <3>1. x \in S /\ U \in SUBSET S /\ pick[T] = x
      BY <1>2, <2>2
    <3>2. f[U] \in Int
      BY <3>1
    <3>3. step[x][f[U]] = Added(x, f[U])
      BY <3>1, <3>2
    <3>4. f[T] = step[pick[T]][f[T \ {pick[T]}]]
      BY <1>6, <2>2
    <3>. HIDE DEF x, step
    <3>5. f[T] = Added(x, f[T \ {x}])
      BY <3>1, <3>3, <3>4
    <3>. QED BY <2>2, <3>5 DEF x
  <2>. QED BY <2>1, <2>2
<1>8. P(f)
  <2>. HIDE DEF pick, step
  <2>. QED BY <1>7
<1>9. P(c)
  <2>. HIDE DEF P
  <2>. QED BY <1>8
<1>. HIDE DEF c
<1>. DEFINE G == {T \in SUBSET S : c[T] \in Int}
<1>10. {} \in G
  BY <1>9
<1>11. ASSUME NEW T \in SUBSET S, T # {} PROVE \E x \in T : T \ {x} \in G => T \in G
  <2>. DEFINE x == Chosen(T)
  <2>1. x \in T /\ x \in S
    BY <1>2, <1>11
  <2>2. c[T] = Added(x, c[T \ {x}])
    BY <1>9, <1>11
  <2>3. T \ {x} \in G => T \in G
    <3>. HIDE DEF x
    <3>. QED BY <1>3, <2>1, <2>2
  <2>. QED BY <2>1, <2>3
<1>12. S \in G
  <2>. HIDE DEF G
  <2>. QED BY <1>10, <1>11, SubsetInduction
<1>. QED BY <1>1, <1>12

Numeric(metrics) == \A m \in DOMAIN metrics : metrics[m] \in Int

\* The objective of a case that has its metrics is a number.
LEMMA ObjectiveIsNumber ==
  ASSUME NEW metrics, Numeric(metrics), NEW ranking, HasObjective(metrics, ranking),
         IsFiniteSet(DOMAIN ranking.weights), ranking.weights \in [DOMAIN ranking.weights -> Int]
  PROVE  ObjectiveValue(metrics, ranking) \in Int
<1>1. CASE Objective(ranking) = "weighted_score"
  <2>. DEFINE S == DOMAIN ranking.weights
              weights == ranking.weights
  <2>1. \A m \in S : metrics[m] \in Int /\ weights[m] \in Int
    BY <1>1 DEF HasObjective, ObjectiveMetrics, Numeric
  <2>2. ObjectiveValue(metrics, ranking) = WeightedSum(metrics, weights, S)
    BY <1>1 DEF ObjectiveValue, WeightedSum
  <2>3. IsFiniteSet(S)
    OBVIOUS
  <2>. HIDE DEF S, weights
  <2>4. WeightedSum(metrics, weights, S) \in Int
    BY <2>1, <2>3, SumIsNumber
  <2>. QED BY <2>2, <2>4
<1>2. CASE Objective(ranking) # "weighted_score"
  BY <1>2 DEF HasObjective, ObjectiveMetrics, ObjectiveValue, Numeric
<1>. QED BY <1>1, <1>2

Rankable(res, ranking) ==
  /\ \E n \in Nat : DOMAIN res = 1..n
  /\ \A i \in Passing(res) : ObjectiveValue(res[i].metrics, ranking) \in Int

\* Tens is a recursion over the numbers up to n, which it leaves positive.
LEMMA TensIsPositive == ASSUME NEW n \in Nat PROVE Tens(n) \in Nat \ {0}
<1>. DEFINE S == Nat \ {0}
            Is(f, k) == \A m \in 0..k : f[m] = IF m = 0 THEN 1 ELSE 10 * f[m \div 10]
            Upto(k) == \E f \in [0..k -> S] : Is(f, k)
            c == CHOOSE f : f = [m \in 0..n |-> IF m = 0 THEN 1 ELSE 10 * f[m \div 10]]
            E == {k \in Nat : Upto(k)}
            K == {k \in Nat : k <= n => \A m \in 0..k : c[m] \in S}
<1>1. ASSUME NEW k \in Nat PROVE (k + 1) \div 10 \in 0..k
  OBVIOUS
<1>2. 0 \in E
  <2>. DEFINE g == [m \in 0..0 |-> 1]
  <2>1. g \in [0..0 -> S] /\ Is(g, 0)
    OBVIOUS
  <2>. QED BY <2>1
<1>3. ASSUME NEW k \in Nat, k \in E PROVE k + 1 \in E
  <2>1. PICK f \in [0..k -> S] : Is(f, k)
    BY <1>3
  <2>. DEFINE g == [m \in 0..(k + 1) |-> IF m = k + 1 THEN 10 * f[(k + 1) \div 10] ELSE f[m]]
  <2>2. f[(k + 1) \div 10] \in S
    BY <1>1
  <2>3. g \in [0..(k + 1) -> S]
    BY <2>2
  <2>4. ASSUME NEW m \in 0..(k + 1) PROVE g[m] = IF m = 0 THEN 1 ELSE 10 * g[m \div 10]
    <3>1. CASE m = k + 1
      <4>1. g[m \div 10] = f[(k + 1) \div 10]
        BY <1>1, <3>1
      <4>. QED BY <3>1, <4>1
    <3>2. CASE m \in 0..k
      <4>1. g[m] = f[m] /\ (m # 0 => m \div 10 \in 0..k /\ g[m \div 10] = f[m \div 10])
        BY <3>2
      <4>. QED BY <2>1, <3>2, <4>1
    <3>. QED BY <3>1, <3>2
  <2>. HIDE DEF g
  <2>5. Is(g, k + 1)
    BY <2>4
  <2>. HIDE DEF Is
  <2>6. Upto(k + 1)
    BY <2>3, <2>5
  <2>. QED BY <2>6
<1>4. n \in E
  <2>. HIDE DEF E
  <2>1. Nat \subseteq E
    BY <1>2, <1>3, SetInduction
  <2>. QED BY <2>1
<1>5. c = [m \in 0..n |-> IF m = 0 THEN 1 ELSE 10 * c[m \div 10]]
  <2>1. PICK f \in [0..n -> S] : Is(f, n)
    BY <1>4
  <2>2. f = [m \in 0..n |-> IF m = 0 THEN 1 ELSE 10 * f[m \div 10]]
    BY <2>1
  <2>. QED BY <2>2
<1>6. Tens(n) = c[n]
  BY DEF Tens
<1>. HIDE DEF c
<1>7. c[0] = 1 /\ \A m \in 1..n : c[m] = 10 * c[m \div 10]
  BY <1>5
<1>8. 0 \in K
  BY <1>7
<1>9. ASSUME NEW k \in Nat, k \in K PROVE k + 1 \in K
  <2>1. SUFFICES ASSUME k + 1 <= n PROVE c[k + 1] \in S
    <3>1. \A m \in 0..(k + 1) : m = k + 1 \/ m \in 0..k
      OBVIOUS
    <3>. QED BY <1>9, <3>1
  <2>2. c[(k + 1) \div 10] \in S /\ c[k + 1] = 10 * c[(k + 1) \div 10]
    BY <1>1, <1>7, <1>9, <2>1
  <2>. QED BY <2>2
<1>10. n \in K
  <2>. HIDE DEF K
  <2>1. Nat \subseteq K
    BY <1>8, <1>9, SetInduction
  <2>. QED BY <2>1
<1>. QED BY <1>6, <1>10

\* Numbers as strings are in a strict order: each pair of them in one way, none before
\* itself, and what comes before one that comes before a third comes before that.
LEMMA IdsInOrder ==
  ASSUME NEW i \in Nat, NEW j \in Nat
  PROVE  /\ ~(IdBefore(i, j) /\ IdBefore(j, i))
         /\ i # j => IdBefore(i, j) \/ IdBefore(j, i)
         /\ \A k \in Nat : IdBefore(i, j) /\ IdBefore(j, k) => IdBefore(i, k)
<1>1. \A n \in Nat : Tens(n) \in Nat \ {0}
  BY TensIsPositive
<1>2. /\ ~(IdBefore(i, j) /\ IdBefore(j, i))
      /\ i # j => IdBefore(i, j) \/ IdBefore(j, i)
  <2>. DEFINE a == i * Tens(j)
              b == j * Tens(i)
  <2>1. /\ IdBefore(i, j) <=> a < b \/ (a = b /\ i < j)
        /\ IdBefore(j, i) <=> b < a \/ (b = a /\ j < i)
    BY DEF IdBefore
  <2>2. a \in Int /\ b \in Int
    <3>1. \A x, y \in Nat : x * y \in Int
      OBVIOUS
    <3>. QED BY <1>1, <3>1
  <2>. HIDE DEF a, b
  <2>. QED BY <2>1, <2>2
<1>3. ASSUME NEW k \in Nat, IdBefore(i, j), IdBefore(j, k) PROVE IdBefore(i, k)
  <2>. DEFINE r == Tens(i)
              s == Tens(j)
              t == Tens(k)
  <2>1. /\ r \in Nat \ {0} /\ s \in Nat \ {0} /\ t \in Nat \ {0}
        /\ i * s < j * r \/ (i * s = j * r /\ i < j)
        /\ j * t < k * s \/ (j * t = k * s /\ j < k)
        /\ IdBefore(i, k) <=> i * t < k * r \/ (i * t = k * r /\ i < k)
    BY <1>1, <1>3 DEF IdBefore
  <2>. HIDE DEF r, s, t
  <2>2. /\ (i * s) * t <= (j * r) * t /\ (i * s < j * r => (i * s) * t < (j * r) * t)
        /\ (j * t) * r <= (k * s) * r /\ (j * t < k * s => (j * t) * r < (k * s) * r)
    <3>1. ASSUME NEW x \in Int, NEW y \in Int, NEW m \in Nat \ {0}, x <= y
          PROVE  x * m <= y * m /\ (x < y => x * m < y * m)
      BY <3>1
    <3>2. i * s \in Int /\ j * r \in Int /\ j * t \in Int /\ k * s \in Int
      BY <2>1
    <3>3. i * s <= j * r /\ j * t <= k * s
      BY <2>1, <3>2
    <3>. QED BY <2>1, <3>1, <3>2, <3>3
  <2>3. /\ (i * s) * t = (i * t) * s /\ (k * s) * r = (k * r) * s /\ (j * r) * t = (j * t) * r
        /\ i * t \in Int /\ k * r \in Int /\ (j * r) * t \in Int
    BY <2>1
  <2>4. \/ (i * t) * s < (k * r) * s
        \/ (i * t) * s = (k * r) * s /\ i < k
    <3>1. (i * t) * s \in Int /\ (k * r) * s \in Int
      BY <2>1
    <3>. QED BY <2>1, <2>2, <2>3, <3>1
  <2>5. ASSUME NEW x \in Int, NEW y \in Int, NEW m \in Nat \ {0}
        PROVE  (x * m < y * m => x < y) /\ (x * m = y * m => x = y)
    OBVIOUS
  <2>6. i * t < k * r \/ (i * t = k * r /\ i < k)
    BY <2>1, <2>3, <2>4, <2>5
  <2>. QED BY <2>1, <2>6
<1>. QED BY <1>2, <1>3
\* The place of i in the order R of S: behind all that come before it.
PlaceOf(S, R, i) == Cardinality({j \in S : <<j, i>> \in R}) + 1

\* Whoever takes the places in turn lists the set in its order.
LEMMA PlacesInOrder ==
  ASSUME NEW S, IsFiniteSet(S), NEW R, StrictOrder(R, S)
  PROVE  LET s == [m \in 1..Cardinality(S) |-> CHOOSE i \in S : PlaceOf(S, R, i) = m]
         IN  s \in Orderings(S, R) /\ \A m \in 1..Cardinality(S) : PlaceOf(S, R, s[m]) = m
<1>. DEFINE n == Cardinality(S)
            At(m) == CHOOSE i \in S : PlaceOf(S, R, i) = m
<1>1. PICK s : s \in Orderings(S, R)
  BY SortExists
<1>2. /\ n \in Nat /\ s \in [1..n -> S]
      /\ \A i, j \in 1..n : i # j => s[i] # s[j]
      /\ \A i, j \in 1..n : i < j => <<s[i], s[j]>> \in R
  BY <1>1, FS_CardinalityType DEF Orderings
<1>3. \A x \in S : \E i \in 1..n : s[i] = x
  BY <1>2, OrderingsCover
<1>. HIDE DEF n
<1>4. ASSUME NEW m \in 1..n PROVE PlaceOf(S, R, s[m]) = m
  <2>. DEFINE T == {j \in S : <<j, s[m]>> \in R}
              f == [i \in 1..(m - 1) |-> s[i]]
  <2>1. m \in Nat /\ m - 1 \in Nat /\ s[m] \in S
    BY <1>2
  <2>2. ASSUME NEW i \in 1..n PROVE i < m <=> s[i] \in T
    <3>1. s[i] \in S
      BY <1>2
    <3>2. CASE i < m
      BY <1>2, <3>1, <3>2
    <3>3. CASE i = m
      BY <2>1, <3>3 DEF StrictOrder
    <3>4. CASE m < i
      <4>1. <<s[m], s[i]>> \in R
        BY <1>2, <3>4
      <4>. QED BY <1>2, <2>1, <3>1, <3>4, <4>1 DEF StrictOrder
    <3>. QED BY <1>2, <3>2, <3>3, <3>4
  <2>3. \A x \in T : \E i \in 1..(m - 1) : s[i] = x
    <3>1. ASSUME NEW x \in T PROVE \E i \in 1..(m - 1) : s[i] = x
      <4>1. PICK i \in 1..n : s[i] = x
        BY <1>3
      <4>2. i < m
        BY <2>2, <4>1
      <4>. QED BY <1>2, <4>1, <4>2
    <3>. QED BY <3>1
  <2>4. \A i \in 1..(m - 1) : i \in 1..n /\ i < m
    BY <1>2
  <2>. HIDE DEF T
  <2>5. f \in [1..(m - 1) -> T] /\ \A i, j \in 1..(m - 1) : i # j => f[i] # f[j]
    BY <1>2, <2>2, <2>4
  <2>6. \A x \in T : \E i \in 1..(m - 1) : f[i] = x
    BY <2>3
  <2>. HIDE DEF f
  <2>7. f \in Bijection(1..(m - 1), T)
    BY <2>5, <2>6 DEF Bijection, Injection, Surjection, IsInjective
  <2>8. Cardinality(T) = m - 1
    BY <2>1, <2>7, FS_CountingElements DEF ExistsBijection
  <2>. QED BY <2>1, <2>8 DEF PlaceOf, T
<1>5. ASSUME NEW m \in 1..n PROVE At(m) = s[m]
  <2>1. s[m] \in S /\ PlaceOf(S, R, s[m]) = m
    BY <1>2, <1>4
  <2>2. ASSUME NEW x \in S, PlaceOf(S, R, x) = m PROVE x = s[m]
    <3>1. PICK i \in 1..n : s[i] = x
      BY <1>3
    <3>2. PlaceOf(S, R, s[i]) = i
      BY <1>4
    <3>. QED BY <2>2, <3>1, <3>2
  <2>. QED BY <2>1, <2>2
<1>. HIDE DEF At
<1>6. [m \in 1..n |-> At(m)] = s
  BY <1>2, <1>5
<1>. QED BY <1>1, <1>4, <1>6 DEF n, At
\* A ranking lists the cases that passed, each once and the better ones first.
LEMMA RankingSorts ==
  ASSUME NEW res, NEW ranking, Rankable(res, ranking)
  PROVE  LET P == Passing(res)
             order == Ranking(res, ranking)
             n == Cardinality(P)
         IN  /\ IsFiniteSet(P) /\ n \in Nat /\ order \in [1..n -> P]
             /\ \A i, j \in 1..n : i # j => order[i] # order[j]
             /\ \A i, j \in 1..n : i < j => RanksBefore(res, ranking, order[i], order[j])
             /\ \A x \in P : \E i \in 1..n : order[i] = x
             /\ \A i \in 1..n : RankOf(res, ranking, order[i]) = i
<1>. DEFINE P == Passing(res)
            n == Cardinality(P)
            worth == [i \in P |-> ObjectiveValue(res[i].metrics, ranking)]
            R == {x \in P \X P : RanksBefore(res, ranking, x[1], x[2])}
            order == Ranking(res, ranking)
<1>1. ASSUME NEW i \in P PROVE RankOf(res, ranking, i) = PlaceOf(P, R, i)
  <2>1. {j \in P : RanksBefore(res, ranking, j, i)} = {j \in P : <<j, i>> \in R}
    OBVIOUS
  <2>2. RankOf(res, ranking, i) = Cardinality({j \in P : RanksBefore(res, ranking, j, i)}) + 1
    BY DEF RankOf
  <2>. HIDE DEF P, R
  <2>. QED BY <2>1, <2>2 DEF PlaceOf
<1>2. order = [m \in 1..n |-> CHOOSE i \in P : PlaceOf(P, R, i) = m]
  <2>1. order = [m \in 1..n |-> CHOOSE i \in P : RankOf(res, ranking, i) = m]
    BY DEF Ranking
  <2>. HIDE DEF P, R, order, n
  <2>. QED BY <1>1, <2>1
<1>3. PICK N \in Nat : DOMAIN res = 1..N
  BY DEF Rankable
<1>4. IsFiniteSet(P) /\ n \in Nat /\ P \subseteq Nat
  <2>. DEFINE one == 1
  <2>1. one \in Int /\ N \in Int
    OBVIOUS
  <2>. HIDE DEF one
  <2>2. IsFiniteSet(one..N)
    BY <2>1, FS_Interval
  <2>3. P \subseteq 1..N
    BY <1>3 DEF Passing
  <2>. HIDE DEF P
  <2>4. IsFiniteSet(P)
    BY <2>2, <2>3, FS_Subset DEF one
  <2>. QED BY <2>3, <2>4, FS_CardinalityType
<1>5. worth \in [P -> Int]
  BY DEF Rankable
<1>6. \A i, j \in P : RanksBefore(res, ranking, i, j) =
        IF worth[i] = worth[j] THEN IdBefore(i, j)
        ELSE IF ranking.order = "asc" THEN worth[i] < worth[j] ELSE worth[i] > worth[j]
  BY DEF RanksBefore
<1>. HIDE DEF worth, P
<1>7. StrictOrder(R, P)
  <2>1. \A i, j \in P : <<i, j>> \in R <=> RanksBefore(res, ranking, i, j)
    OBVIOUS
  <2>. HIDE DEF R
  <2>2. ASSUME NEW i \in P PROVE <<i, i>> \notin R
    <3>1. worth[i] \in Int /\ i \in Nat
      BY <1>4, <1>5
    <3>2. ~RanksBefore(res, ranking, i, i)
      <4>1. RanksBefore(res, ranking, i, i) = IdBefore(i, i)
        BY <1>6
      <4>2. ~IdBefore(i, i)
        BY <3>1, IdsInOrder
      <4>. QED BY <4>1, <4>2
    <3>. QED BY <2>1, <3>2
  <2>3. ASSUME NEW i \in P, NEW j \in P, NEW k \in P, <<i, j>> \in R, <<j, k>> \in R PROVE <<i, k>> \in R
    <3>1. RanksBefore(res, ranking, i, j) /\ RanksBefore(res, ranking, j, k)
      BY <2>1, <2>3
    <3>2. worth[i] \in Int /\ worth[j] \in Int /\ worth[k] \in Int /\ i \in Nat /\ j \in Nat /\ k \in Nat
      BY <1>4, <1>5
    <3>3. IdBefore(i, j) /\ IdBefore(j, k) => IdBefore(i, k)
      BY <3>2, IdsInOrder
    <3>4. RanksBefore(res, ranking, i, k)
      <4>1. /\ IF worth[i] = worth[j] THEN IdBefore(i, j)
               ELSE IF ranking.order = "asc" THEN worth[i] < worth[j] ELSE worth[i] > worth[j]
            /\ IF worth[j] = worth[k] THEN IdBefore(j, k)
               ELSE IF ranking.order = "asc" THEN worth[j] < worth[k] ELSE worth[j] > worth[k]
        BY <1>6, <3>1
      <4>2. IF worth[i] = worth[k] THEN IdBefore(i, k)
            ELSE IF ranking.order = "asc" THEN worth[i] < worth[k] ELSE worth[i] > worth[k]
        <5>1. CASE ranking.order = "asc"
          BY <3>2, <3>3, <4>1, <5>1
        <5>2. CASE ranking.order # "asc"
          BY <3>2, <3>3, <4>1, <5>2
        <5>. QED BY <5>1, <5>2
      <4>. QED BY <1>6, <4>2
    <3>. QED BY <2>1, <3>4
  <2>4. ASSUME NEW i \in P, NEW j \in P, i # j PROVE <<i, j>> \in R \/ <<j, i>> \in R
    <3>1. worth[i] \in Int /\ worth[j] \in Int /\ i \in Nat /\ j \in Nat
      BY <1>4, <1>5
    <3>2. RanksBefore(res, ranking, i, j) \/ RanksBefore(res, ranking, j, i)
      <4>1. CASE worth[i] = worth[j]
        <5>1. IdBefore(i, j) \/ IdBefore(j, i)
          BY <2>4, <3>1, IdsInOrder
        <5>. QED BY <1>6, <4>1, <5>1
      <4>2. CASE worth[i] # worth[j]
        <5>1. worth[i] < worth[j] \/ worth[i] > worth[j]
          BY <3>1, <4>2
        <5>2. RanksBefore(res, ranking, i, j) =
                (IF ranking.order = "asc" THEN worth[i] < worth[j] ELSE worth[i] > worth[j])
              /\ RanksBefore(res, ranking, j, i) =
                (IF ranking.order = "asc" THEN worth[j] < worth[i] ELSE worth[j] > worth[i])
          BY <1>6, <4>2
        <5>3. CASE ranking.order = "asc"
          BY <3>1, <5>1, <5>2, <5>3
        <5>4. CASE ranking.order # "asc"
          BY <3>1, <5>1, <5>2, <5>4
        <5>. QED BY <5>3, <5>4
      <4>. QED BY <4>1, <4>2
    <3>. QED BY <2>1, <3>2
  <2>. QED BY <2>2, <2>3, <2>4 DEF StrictOrder
<1>8. order \in Orderings(P, R) /\ \A m \in 1..n : PlaceOf(P, R, order[m]) = m
  <2>. HIDE DEF R, order
  <2>. QED BY <1>2, <1>4, <1>7, PlacesInOrder
<1>9. \A m \in 1..n : PlaceOf(P, R, order[m]) = m
  BY <1>8
<1>. HIDE DEF order
<1>10. /\ order \in [1..n -> P]
       /\ \A i, j \in 1..n : i # j => order[i] # order[j]
       /\ \A i, j \in 1..n : i < j => RanksBefore(res, ranking, order[i], order[j])
  <2>1. /\ order \in [1..n -> P]
        /\ \A i, j \in 1..n : i # j => order[i] # order[j]
        /\ \A i, j \in 1..n : i < j => <<order[i], order[j]>> \in R
    BY <1>8 DEF Orderings
  <2>. QED BY <2>1
<1>11. \A x \in P : \E i \in 1..n : order[i] = x
  BY <1>4, <1>10, OrderingsCover
<1>12. \A i \in 1..n : RankOf(res, ranking, order[i]) = i
  BY <1>10, <1>9, <1>1
<1>. QED BY <1>4, <1>10, <1>11, <1>12 DEF P, order

\* The best case is one that passed and ranks before all others.
LEMMA BestIsFirst ==
  ASSUME NEW res, NEW ranking, Rankable(res, ranking), Passing(res) # {}
  PROVE  LET best == Head(Ranking(res, ranking))
         IN  /\ best \in Passing(res)
             /\ \A i \in Passing(res) : i # best => RanksBefore(res, ranking, best, i)
<1>. DEFINE P == Passing(res)
            order == Ranking(res, ranking)
            n == Cardinality(P)
<1>1. /\ IsFiniteSet(P) /\ n \in Nat /\ order \in [1..n -> P]
      /\ \A i, j \in 1..n : i < j => RanksBefore(res, ranking, order[i], order[j])
      /\ \A x \in P : \E i \in 1..n : order[i] = x
  BY RankingSorts
<1>. HIDE DEF P, order, n
<1>2. P # {}
  BY DEF P
<1>3. 1 \in 1..n
  BY <1>1, <1>2
<1>4. order \in Seq(P) /\ Len(order) = n
  BY <1>1, Lists
<1>5. Head(order) = order[1]
  BY <1>3, <1>4
<1>6. ASSUME NEW i \in P, i # order[1] PROVE RanksBefore(res, ranking, order[1], i)
  <2>1. PICK j \in 1..n : order[j] = i
    BY <1>1
  <2>2. 1 < j
    BY <1>6, <2>1
  <2>. QED BY <1>1, <1>3, <2>1, <2>2
<1>7. order[1] \in P
  BY <1>1, <1>3
<1>. QED BY <1>5, <1>6, <1>7 DEF P, order

\* The test case found has the parameters of the train case.
LEMMA TestCaseMatches ==
  ASSUME NEW step, NEW n \in Nat, DOMAIN step.test = 1..n, NEW best \in 1..n,
         \A i \in 1..n : step.test[i].parameters = step.train[i].parameters
  PROVE  /\ MatchingTestCase(step, best) \in Nat
         /\ step.test[MatchingTestCase(step, best)].parameters = step.train[best].parameters
<1>. DEFINE T == {i \in DOMAIN step.test : step.test[i].parameters = step.train[best].parameters}
<1>1. T \in SUBSET Nat /\ T # {}
  OBVIOUS
<1>2. \E x \in T : \A y \in T : x <= y
  <2>. HIDE DEF T
  <2>. QED BY <1>1, LeastExists
<1>3. Min(T) \in T
  <2>. HIDE DEF T
  <2>. QED BY <1>2 DEF Min
<1>. QED BY <1>1, <1>3 DEF MatchingTestCase

BestTagged(res, tag) ==
  FoldLeftDomain(LAMBDA b, i :
    IF i \in {k \in DOMAIN res : tag \in res[k].tags} /\ (b = 0 \/ BetterRegimeCase(res, i, b)) THEN i ELSE b,
    0, res)

\* The best of the cases with a tag is one of them, and has the best rank if any has one.
LEMMA BestOfTag ==
  ASSUME NEW res, NEW N \in Nat, DOMAIN res = 1..N, \A i \in 1..N : res[i].rank \in Nat, NEW tag
  PROVE  LET best == BestTagged(res, tag)
             mine == {i \in 1..N : tag \in res[i].tags}
         IN  mine # {} =>
               /\ best \in mine
               /\ \A i \in mine : res[i].rank > 0 => res[best].rank > 0 /\ res[best].rank <= res[i].rank
<1>. DEFINE S == 1..N
            mine == {i \in S : tag \in res[i].tags}
            V == {0} \cup S
            Added(i, b) == IF i \in mine /\ (b = 0 \/ BetterRegimeCase(res, i, b)) THEN i ELSE b
            Top(T) == CHOOSE x \in T : \A y \in T : x >= y
            ids == [i \in DOMAIN res |-> i]
            P(f) == f = [T \in SUBSET DOMAIN ids |-> IF T = {} THEN 0 ELSE Added(ids[Top(T)], f[T \ {Top(T)}])]
            c == CHOOSE f : P(f)
            pick == [T \in SUBSET S |-> Top(T)]
            step == [i \in S |-> [b \in V |-> Added(i, b)]]
            zero == 0
<1>1. BestTagged(res, tag) = c[S]
  BY DEF BestTagged, FoldLeftDomain, FoldLeft, MapThenFoldSet, Max
<1>2. IsFiniteSet(S) /\ \A T \in SUBSET S : T # {} => Top(T) \in T
  <2>. DEFINE one == 1
  <2>1. one \in Int /\ N \in Int
    OBVIOUS
  <2>. HIDE DEF one
  <2>2. IsFiniteSet(one..N)
    BY <2>1, FS_Interval
  <2>3. ASSUME NEW T \in SUBSET S, T # {} PROVE Top(T) \in T
    <3>1. T \in SUBSET (0..N)
      OBVIOUS
    <3>2. \E x \in T : \A y \in T : x >= y
      BY <2>3, <3>1, GreatestExists
    <3>. QED BY <3>2
  <2>. QED BY <2>2, <2>3 DEF one
<1>3. ASSUME NEW i \in S, NEW b \in V PROVE Added(i, b) \in V
  OBVIOUS
<1>. HIDE DEF Top, Added
<1>4. step \in [S -> [V -> V]] /\ \A T \in SUBSET S : T # {} => pick[T] \in T
  BY <1>2, <1>3
<1>5. zero \in V
  OBVIOUS
<1>6. PICK f \in [SUBSET S -> V] :
        \A T \in SUBSET S : f[T] = IF T = {} THEN zero ELSE step[pick[T]][f[T \ {pick[T]}]]
  <2>. HIDE DEF step, pick, zero, S, V
  <2>1. SetRecursions(S, V, zero, pick, step) # {}
    BY <1>2, <1>4, <1>5, SetRecursionExists
  <2>. QED BY <2>1 DEF SetRecursions
<1>7. ASSUME NEW T \in SUBSET S
      PROVE  f[T] = IF T = {} THEN 0 ELSE Added(Top(T), f[T \ {Top(T)}])
  <2>1. CASE T = {}
    BY <1>6, <2>1
  <2>2. CASE T # {}
    <3>. DEFINE x == Top(T)
                U == T \ {x}
    <3>1. x \in S /\ U \in SUBSET S /\ pick[T] = x
      BY <1>2, <2>2
    <3>2. f[U] \in V
      BY <3>1
    <3>3. step[x][f[U]] = Added(x, f[U])
      BY <3>1, <3>2
    <3>4. f[T] = step[pick[T]][f[T \ {pick[T]}]]
      BY <1>6, <2>2
    <3>. HIDE DEF x, step
    <3>5. f[T] = Added(x, f[T \ {x}])
      BY <3>1, <3>3, <3>4
    <3>. QED BY <2>2, <3>5 DEF x
  <2>. QED BY <2>1, <2>2
<1>8. P(f)
  <2>. DEFINE Value(T) == IF T = {} THEN 0 ELSE Added(ids[Top(T)], f[T \ {Top(T)}])
  <2>1. ASSUME NEW T \in SUBSET S PROVE f[T] = Value(T)
    <3>1. T # {} => ids[Top(T)] = Top(T)
      BY <1>2
    <3>. HIDE DEF ids
    <3>. QED BY <1>7, <3>1
  <2>2. DOMAIN ids = S
    OBVIOUS
  <2>. HIDE DEF Value, pick, step, ids, S
  <2>3. f = [T \in SUBSET S |-> Value(T)]
    BY <2>1
  <2>. QED BY <2>2, <2>3 DEF Value
<1>9. P(c)
  <2>. HIDE DEF P
  <2>. QED BY <1>8
<1>10. c = [T \in SUBSET S |-> IF T = {} THEN 0 ELSE Added(Top(T), c[T \ {Top(T)}])]
  <2>. HIDE DEF c
  <2>. DEFINE Value(T) == IF T = {} THEN 0 ELSE Added(ids[Top(T)], c[T \ {Top(T)}])
              Same(T) == IF T = {} THEN 0 ELSE Added(Top(T), c[T \ {Top(T)}])
  <2>1. ASSUME NEW T \in SUBSET S PROVE Value(T) = Same(T)
    <3>1. T # {} => ids[Top(T)] = Top(T)
      BY <1>2
    <3>. HIDE DEF ids
    <3>. QED BY <3>1
  <2>2. c = [T \in SUBSET S |-> Value(T)]
    <3>1. DOMAIN ids = S
      OBVIOUS
    <3>. HIDE DEF ids, S
    <3>. QED BY <1>9, <3>1
  <2>. HIDE DEF Value, Same, S
  <2>3. c = [T \in SUBSET S |-> Same(T)]
    BY <2>1, <2>2
  <2>. QED BY <2>3 DEF Same
<1>. HIDE DEF c
<1>. DEFINE Good(T) ==
              /\ T \cap mine = {} => c[T] = 0
              /\ T \cap mine # {} =>
                   /\ c[T] \in T \cap mine
                   /\ \A i \in T \cap mine :
                        res[i].rank > 0 => res[c[T]].rank > 0 /\ res[c[T]].rank <= res[i].rank
            G == {T \in SUBSET S : Good(T)}
<1>11. {} \in G
  BY <1>10
<1>12. ASSUME NEW T \in SUBSET S, T # {} PROVE \E x \in T : T \ {x} \in G => T \in G
  <2>. DEFINE x == Top(T)
              U == T \ {x}
              b == c[U]
  <2>1. x \in T /\ x \in S
    BY <1>2, <1>12
  <2>2. c[T] = Added(x, b)
    BY <1>10, <1>12
  <2>3. ASSUME U \in G PROVE Good(T)
    <3>. HIDE DEF x, b
    <3>1. /\ U \cap mine = {} => b = 0
          /\ U \cap mine # {} =>
               /\ b \in U \cap mine
               /\ \A i \in U \cap mine : res[i].rank > 0 => res[b].rank > 0 /\ res[b].rank <= res[i].rank
      BY <2>3 DEF b
    <3>2. CASE x \notin mine
      <4>1. c[T] = b /\ T \cap mine = U \cap mine
        BY <2>2, <3>2 DEF Added
      <4>. HIDE DEF U, mine
      <4>. QED BY <3>1, <4>1
    <3>3. CASE x \in mine /\ b = 0
      <4>1. c[T] = x
        BY <2>2, <3>3 DEF Added
      <4>2. U \cap mine = {}
        BY <3>1, <3>3
      <4>3. T \cap mine = {x}
        BY <2>1, <3>3, <4>2
      <4>4. res[x].rank \in Nat
        BY <2>1
      <4>. HIDE DEF U, mine
      <4>. QED BY <4>1, <4>3, <4>4
    <3>4. CASE x \in mine /\ b # 0
      <4>1. c[T] = IF BetterRegimeCase(res, x, b) THEN x ELSE b
        BY <2>2, <3>4 DEF Added
      <4>2. /\ b \in U \cap mine
            /\ \A i \in U \cap mine : res[i].rank > 0 => res[b].rank > 0 /\ res[b].rank <= res[i].rank
        BY <3>1, <3>4
      <4>3. \A i \in mine : res[i].rank \in Nat
        OBVIOUS
      <4>4. T \cap mine = (U \cap mine) \cup {x}
        BY <2>1, <3>4
      <4>. HIDE DEF U, mine
      <4>5. CASE BetterRegimeCase(res, x, b)
        <5>1. /\ res[b].rank > 0 => res[x].rank > 0 /\ res[x].rank <= res[b].rank
              /\ res[x].rank \in Nat /\ res[b].rank \in Nat
          BY <3>4, <4>2, <4>3, <4>5 DEF BetterRegimeCase
        <5>2. ASSUME NEW i \in T \cap mine, res[i].rank > 0 PROVE res[x].rank > 0 /\ res[x].rank <= res[i].rank
          <6>1. CASE i = x
            BY <5>1, <5>2, <6>1
          <6>2. CASE i \in U \cap mine
            BY <4>2, <4>3, <5>1, <5>2, <6>2
          <6>. QED BY <4>4, <6>1, <6>2
        <5>. QED BY <4>1, <4>4, <4>5, <5>2
      <4>6. CASE ~BetterRegimeCase(res, x, b)
        <5>1. /\ res[x].rank > 0 => res[b].rank > 0 /\ res[b].rank <= res[x].rank
              /\ res[x].rank \in Nat /\ res[b].rank \in Nat
          BY <3>4, <4>2, <4>3, <4>6 DEF BetterRegimeCase
        <5>2. ASSUME NEW i \in T \cap mine, res[i].rank > 0 PROVE res[b].rank > 0 /\ res[b].rank <= res[i].rank
          BY <4>2, <4>4, <5>1, <5>2
        <5>. QED BY <4>1, <4>2, <4>4, <4>6, <5>2
      <4>. QED BY <4>5, <4>6
    <3>. QED BY <3>2, <3>3, <3>4
  <2>. QED BY <2>1, <2>3
<1>13. S \in G
  <2>. HIDE DEF G, S
  <2>. QED BY <1>2, <1>11, <1>12, SubsetInduction
<1>14. S \cap mine = mine
  OBVIOUS
<1>. HIDE DEF mine
<1>. QED BY <1>1, <1>13, <1>14 DEF mine

\* Results that are ranked keep what they are, and get the places of those that passed.
LEMMA RanksGiven ==
  ASSUME NEW res, NEW ranking, Rankable(res, ranking),
         \A i \in DOMAIN res : res[i].rank = 0 /\ {"rank", "value"} \subseteq DOMAIN res[i]
  PROVE  LET out == WithRanks(res, ranking)
         IN  /\ DOMAIN out = DOMAIN res
             /\ \A i \in DOMAIN res :
                  /\ out[i].tags = res[i].tags /\ out[i].passed = res[i].passed
                  /\ out[i].rank \in Nat
                  /\ out[i].rank > 0 <=> i \in Passing(res)
             /\ \A i, j \in Passing(res) :
                  /\ out[i].rank < out[j].rank => RanksBefore(res, ranking, i, j)
                  /\ i # j => out[i].rank # out[j].rank
<1>. DEFINE P == Passing(res)
            order == Ranking(res, ranking)
            n == Cardinality(P)
            Place(i) == RankOf(res, ranking, i)
            out == WithRanks(res, ranking)
<1>1. /\ n \in Nat /\ order \in [1..n -> P]
      /\ \A i, j \in 1..n : i < j => RanksBefore(res, ranking, order[i], order[j])
      /\ \A x \in P : \E i \in 1..n : order[i] = x
      /\ \A i \in 1..n : Place(order[i]) = i
  BY RankingSorts
<1>2. /\ DOMAIN out = DOMAIN res
      /\ \A i \in DOMAIN res : out[i] = IF res[i].passed
                                       THEN [res[i] EXCEPT !.rank  = Place(i),
                                                           !.value = ObjectiveValue(res[i].metrics, ranking)]
                                       ELSE res[i]
  BY DEF WithRanks
<1>3. P = {i \in DOMAIN res : res[i].passed}
  BY DEF Passing
<1>. HIDE DEF P, order, n, out
<1>4. ASSUME NEW i \in P PROVE Place(i) \in 1..n /\ order[Place(i)] = i
  <2>1. PICK m \in 1..n : order[m] = i
    BY <1>1
  <2>2. Place(order[m]) = m
    BY <1>1
  <2>. QED BY <2>1, <2>2
<1>. HIDE DEF Place
<1>5. ASSUME NEW i \in DOMAIN res
      PROVE  /\ out[i].tags = res[i].tags /\ out[i].passed = res[i].passed
             /\ i \in P => out[i].rank = Place(i)
             /\ i \notin P => out[i].rank = 0
  <2>1. res[i].rank = 0 /\ {"rank", "value"} \subseteq DOMAIN res[i]
    OBVIOUS
  <2>2. CASE i \in P
    <3>. DEFINE value == ObjectiveValue(res[i].metrics, ranking)
                place == Place(i)
    <3>1. out[i] = [res[i] EXCEPT !.rank = place, !.value = value]
      BY <1>2, <1>3, <2>2
    <3>. HIDE DEF value, place
    <3>. QED BY <2>1, <2>2, <3>1 DEF place
  <2>3. CASE i \notin P
    BY <1>2, <1>3, <2>1, <2>3
  <2>. QED BY <2>2, <2>3
<1>6. ASSUME NEW i \in DOMAIN res PROVE out[i].rank \in Nat /\ (out[i].rank > 0 <=> i \in P)
  <2>1. CASE i \in P
    BY <1>1, <1>4, <1>5, <2>1
  <2>2. CASE i \notin P
    BY <1>5, <2>2
  <2>. QED BY <2>1, <2>2
<1>7. ASSUME NEW i \in P, NEW j \in P
      PROVE  /\ out[i].rank < out[j].rank => RanksBefore(res, ranking, i, j)
             /\ i # j => out[i].rank # out[j].rank
  <2>1. out[i].rank = Place(i) /\ out[j].rank = Place(j)
    BY <1>3, <1>5
  <2>. QED BY <1>1, <1>4, <2>1
<1>. QED BY <1>2, <1>5, <1>6, <1>7 DEF P, out

-----------------------------------------------------------------------------
(* The inductive invariant                                                 *)

Working == main \in {"offer", "wait"}

Types ==
  /\ request \in Requests
  /\ plan = NoPlan \/ plan \in Drafts(request)
  /\ main \in {"compile", "offer", "wait", "test", "save", "returned"}
  /\ at \in [Workers -> {"off", "idle", "running", "gone"}]
  /\ job \in [Workers -> Nat]
  /\ next \in Nat \ {0}
  /\ poolDone \in BOOLEAN /\ parentDone \in BOOLEAN
  /\ firstErr \in {"none", "failed", "canceled"}
  /\ chosen \in Seq([train : Nat, test : Nat])

\* A cancellation is the caller's, and the pool is cancelled by its first error.
Causes ==
  /\ result = "canceled" => parentDone
  /\ firstErr = "canceled" => parentDone
  /\ poolDone = (firstErr # "none")

\* Which stage the caller is at, and what has been chosen before.
Stages ==
  /\ main \in {"offer", "wait", "test", "save"} => plan \in Drafts(request) /\ stage \in 0..Len(plan.steps)
  /\ main = "compile" => stage = 0 /\ chosen = <<>> /\ evaluated = <<>>
  /\ Working => Len(chosen) = (IF stage = 0 THEN 0 ELSE stage - 1)
  /\ Working /\ stage = 0 => evaluated = <<>>
  /\ main = "test" => stage > 0 /\ Len(chosen) = stage
  /\ chosen # <<>> => plan \in Drafts(request) /\ Len(chosen) <= Len(plan.steps)
  /\ evaluated # <<>> => plan \in Drafts(request)

\* Case i of pool k has come to something.
Ran(k, i) == <<k, i>> \in DOMAIN truth /\ Numeric(truth[<<k, i>>].metrics)

\* The slot of case i of this pool has what the case came to.
Recorded(i) ==
  /\ Ran(stage, i)
  /\ results[i] = [metrics |-> truth[<<stage, i>>].metrics, tags |-> truth[<<stage, i>>].tags,
                   passed |-> TrulyPasses(stage, i), rank |-> 0, value |-> 0]

Running(i) == \E w \in Workers : at[w] = "running" /\ job[w] = i

\* Of each case that was offered there is a result or an error, or it still runs.
Pool ==
  /\ Working =>
       /\ DOMAIN results = DOMAIN CasesAt(stage)
       /\ \A i \in DOMAIN results : i < next => Recorded(i) \/ firstErr # "none" \/ Running(i)
       /\ \A w \in Workers : at[w] = "running" => job[w] \in DOMAIN results
  /\ main = "wait" => next \notin DOMAIN results \/ poolDone \/ parentDone
  /\ ~Working => \A w \in Workers : at[w] # "running"

\* The choices made so far, and that their train cases have all run.
Choice(k) ==
  LET best == chosen[k].train
      step == plan.steps[k]
  IN  /\ best \in DOMAIN step.train
      /\ \A i \in DOMAIN step.train : Ran(k, i)
      /\ TrulyPasses(k, best)
      /\ \A i \in DOMAIN step.train : i # best /\ TrulyPasses(k, i) => TrulyBefore(k, best, i)
      /\ step.test[chosen[k].test].parameters = step.train[best].parameters

Choosing == \A k \in DOMAIN chosen : Choice(k)

\* What was reported of a case is what it came to, and its rank is its place among those that pass.
ReportedCase(i) ==
  /\ Ran(0, i)
  /\ evaluated[i].tags = truth[<<0, i>>].tags
  /\ evaluated[i].passed = TrulyPasses(0, i)
  /\ evaluated[i].rank \in Nat
  /\ evaluated[i].rank > 0 <=> TrulyPasses(0, i)
  /\ TrulyPasses(0, i) => TrulyWorth(0, i) \in Int

RankedBefore(i, j) ==
  TrulyPasses(0, i) /\ TrulyPasses(0, j) =>
    /\ evaluated[i].rank < evaluated[j].rank => TrulyBefore(0, i, j)
    /\ i # j => evaluated[i].rank # evaluated[j].rank

Reporting ==
  /\ \E n \in Nat : DOMAIN evaluated = 1..n
  /\ \A i \in DOMAIN evaluated : ReportedCase(i)
  /\ \A i, j \in DOMAIN evaluated : RankedBefore(i, j)

IInv == Types /\ Causes /\ Stages /\ Pool /\ Choosing /\ Reporting

-----------------------------------------------------------------------------
(* Its proof                                                               *)

\* The invariant holds at first.
LEMMA Initially == Init => IInv
<1>. SUFFICES ASSUME Init PROVE IInv
  OBVIOUS
<1>1. Types
  <2>1. request \in Requests /\ plan = NoPlan /\ main = "compile" /\ next = 1 /\ chosen = <<>>
        /\ poolDone = FALSE /\ parentDone = FALSE /\ firstErr = "none"
    BY DEF Init
  <2>2. at \in [Workers -> {"off", "idle", "running", "gone"}] /\ job \in [Workers -> Nat]
    BY DEF Init
  <2>3. chosen \in Seq([train : Nat, test : Nat])
    BY <2>1
  <2>4. next \in Nat \ {0} /\ poolDone \in BOOLEAN /\ parentDone \in BOOLEAN
        /\ firstErr \in {"none", "failed", "canceled"}
        /\ main \in {"compile", "offer", "wait", "test", "save", "returned"}
    <3>1. next \in Nat \ {0}
      BY <2>1
    <3>. QED BY <2>1, <3>1
  <2>5. request \in Requests /\ (plan = NoPlan \/ plan \in Drafts(request))
    BY <2>1
  <2>. QED BY <2>2, <2>3, <2>4, <2>5 DEF Types
<1>2. Causes
  BY DEF Init, Causes
<1>3. Stages
  BY DEF Init, Stages, Working
<1>4. Pool
  BY DEF Init, Pool, Working
<1>5. Choosing
  BY DEF Init, Choosing
<1>6. Reporting
  <2>1. evaluated = <<>>
    BY DEF Init
  <2>2. DOMAIN evaluated = 1..0
    BY <2>1
  <2>. QED BY <2>2 DEF Reporting
<1>. QED BY <1>1, <1>2, <1>3, <1>4, <1>5, <1>6 DEF IInv

\* What a pool starts with.
LEMMA StartTypes ==
  ASSUME NEW cases, StartPool(cases)
  PROVE  /\ main' = (IF cases = <<>> THEN "wait" ELSE "offer") /\ next' = 1
         /\ at' \in [Workers -> {"off", "idle", "running", "gone"}] /\ job' \in [Workers -> Nat]
         /\ \A w \in Workers : at'[w] # "running"
         /\ DOMAIN results' = DOMAIN cases
         /\ firstErr' = "none" /\ poolDone' = FALSE /\ truth' = truth
BY DEF StartPool

\* The request stays, and the plan is made of it.
LEMMA PlanKept ==
  ASSUME Types, [Next]_vars
  PROVE  /\ request' = request /\ request \in Requests
         /\ plan' = NoPlan \/ plan' \in Drafts(request')
         /\ main # "compile" => plan' = plan
<1>. USE DEF planVars, vars
<1>1. request \in Requests /\ (plan = NoPlan \/ plan \in Drafts(request))
  BY DEF Types
<1>2. CASE UNCHANGED vars
  BY <1>1, <1>2
<1>3. CASE Compile
  BY <1>1, <1>3 DEF Compile
<1>4. CASE CloseJobs \/ ConcludePool \/ RunTestCase \/ Save \/ CancelParent \/ Rest
  BY <1>1, <1>4 DEF CloseJobs, ConcludePool, RunTestCase, Save, CancelParent, Rest
<1>5. ASSUME NEW w \in Workers, WorkerStep(w)
      PROVE  request' = request /\ plan' = plan
  BY <1>5 DEF WorkerStep, TakeCase, FinishCase, FailCase, LeavePool
<1>. QED BY <1>1, <1>2, <1>3, <1>4, <1>5 DEF Next, CallerStep

\* Only the ctx of the caller makes a cancellation, and only the first error that of the pool.
LEMMA CausesKept ==
  ASSUME Types, Causes, [Next]_vars
  PROVE  Causes'
<1>. USE DEF planVars, callVars, poolVars, vars
<1>1. firstErr \in {"none", "failed", "canceled"} /\ poolDone \in BOOLEAN /\ parentDone \in BOOLEAN
  BY DEF Types
<1>2. CASE UNCHANGED vars
  BY <1>2 DEF Causes
<1>3. CASE Compile
  <2>1. parentDone' = parentDone
    BY <1>3 DEF Compile
  <2>2. CASE Return("invalid") \/ Return("ok")
    BY <2>1, <2>2 DEF Return, Causes
  <2>3. CASE parentDone /\ Return("canceled")
    BY <2>1, <2>3 DEF Return, Causes
  <2>4. ASSUME NEW cases, StartPool(cases), UNCHANGED callVars PROVE Causes'
    BY <2>1, <2>4 DEF StartPool, Causes
  <2>. QED BY <1>3, <2>2, <2>3, <2>4 DEF Compile
<1>4. CASE CloseJobs
  BY <1>4 DEF CloseJobs, Causes
<1>5. CASE ConcludePool
  <2>1. parentDone' = parentDone
    BY <1>5 DEF ConcludePool
  <2>2. CASE firstErr # "none" /\ Return(firstErr)
    BY <2>1, <2>2 DEF Return, Causes
  <2>3. CASE parentDone /\ Return("canceled")
    BY <2>1, <2>3 DEF Return, Causes
  <2>4. CASE Return("failed") \/ Return("no case passed")
    BY <2>1, <2>4 DEF Return, Causes
  <2>5. CASE ToStage(1) /\ UNCHANGED result
    BY <2>1, <2>5 DEF ToStage, StartPool, Causes
  <2>6. CASE UNCHANGED <<poolVars, result>>
    BY <2>1, <2>6 DEF Causes
  <2>. QED BY <1>5, <2>2, <2>3, <2>4, <2>5, <2>6 DEF ConcludePool, UseResults
<1>6. CASE RunTestCase
  <2>1. parentDone' = parentDone
    BY <1>6 DEF RunTestCase
  <2>2. CASE ToStage(stage + 1) /\ UNCHANGED callVars
    BY <2>1, <2>2 DEF ToStage, StartPool, Causes
  <2>3. CASE Return("failed")
    BY <2>1, <2>3 DEF Return, Causes
  <2>4. CASE parentDone /\ Return("canceled")
    BY <2>1, <2>4 DEF Return, Causes
  <2>. QED BY <1>6, <2>2, <2>3, <2>4 DEF RunTestCase
<1>7. CASE Save
  BY <1>7 DEF Save, Causes
<1>8. CASE CancelParent
  BY <1>8 DEF CancelParent, Causes
<1>9. ASSUME NEW w \in Workers, WorkerStep(w) PROVE Causes'
  <2>1. CASE TakeCase(w) \/ FinishCase(w) \/ LeavePool(w)
    BY <2>1 DEF TakeCase, FinishCase, LeavePool, Record, Causes
  <2>2. CASE FailCase(w)
    <3>1. parentDone' = parentDone /\ result' = result
      BY <2>2 DEF FailCase
    <3>2. CASE SetError("failed")
      BY <1>1, <3>1, <3>2 DEF SetError, Causes
    <3>3. CASE PoolCtxDone /\ SetError("canceled")
      BY <1>1, <3>1, <3>3 DEF SetError, PoolCtxDone, Causes
    <3>. QED BY <2>2, <3>2, <3>3 DEF FailCase
  <2>. QED BY <1>9, <2>1, <2>2 DEF WorkerStep
<1>. QED BY <1>2, <1>3, <1>4, <1>5, <1>6, <1>7, <1>8, <1>9 DEF Next, CallerStep, Rest

\* What a conclusion of the pool finds: all its cases have come to something.
Complete ==
  /\ stage \in 0..Len(plan.steps) /\ plan \in Drafts(request)
  /\ DOMAIN results = DOMAIN CasesAt(stage)
  /\ \A i \in DOMAIN results : Recorded(i)

\* A plan is made of lists, and each step has a test case for each train case.
WellMade(draft) ==
  /\ \E n \in Nat : DOMAIN draft.cases = 1..n
  /\ Len(draft.steps) \in Nat /\ DOMAIN draft.steps = 1..Len(draft.steps)
  /\ \A k \in 1..Len(draft.steps) : \E n \in Nat :
       /\ DOMAIN draft.steps[k].train = 1..n /\ DOMAIN draft.steps[k].test = 1..n
       /\ \A i \in 1..n : draft.steps[k].test[i].parameters = draft.steps[k].train[i].parameters

\* Every plan a request may become is well made.
LEMMA DraftsWellMade ==
  ASSUME NEW r \in Requests, NEW draft \in Drafts(r)
  PROVE  WellMade(draft)
<1>. DEFINE computed == Selected(CaseSelection(r), HasBenchmark(r))
<1>1. PICK periods \in EvaluationPeriods(r), sets \in Seq(Maps), steps \in Seq(StepsWithin(r.from, r.to)) :
        periods \in Seq(Periods) /\ draft = PlanOf(periods, sets, steps, computed)
  BY DraftParts
<1>. HIDE DEF computed
<1>. DEFINE n == Len(sets)
            N == Len(steps)
<1>2. /\ draft.cases = CasesOf(periods, sets, computed)
      /\ N \in Nat /\ Len(draft.steps) = N /\ DOMAIN draft.steps = 1..N /\ n \in Nat
      /\ \A k \in 1..N :
           /\ DOMAIN draft.steps[k].train = 1..n /\ DOMAIN draft.steps[k].test = 1..n
           /\ \A i \in 1..n : draft.steps[k].test[i].parameters = draft.steps[k].train[i].parameters
  <2>. DEFINE made == PlanOf(periods, sets, steps, computed)
  <2>1. /\ made.cases = CasesOf(periods, sets, computed)
        /\ N \in Nat /\ Len(made.steps) = N /\ DOMAIN made.steps = 1..N /\ n \in Nat
        /\ \A k \in 1..N :
             /\ DOMAIN made.steps[k].train = 1..n /\ DOMAIN made.steps[k].test = 1..n
             /\ \A i \in 1..n : made.steps[k].test[i].parameters = made.steps[k].train[i].parameters
    BY StepsAreLists
  <2>. HIDE DEF made, n, N
  <2>2. draft = made
    BY <1>1 DEF made
  <2>. QED BY <2>1, <2>2
<1>3. TableOf(periods, sets, computed, draft.cases)
  BY <1>1, <1>2, CasesAreList
<1>4. DOMAIN draft.cases = 1..Len(draft.cases) /\ Len(draft.cases) \in Nat
  BY <1>3 DEF TableOf
<1>. HIDE DEF n, N
<1>. QED BY <1>2, <1>4 DEF WellMade

\* The cases of each pool are numbered from 1 on.
LEMMA CasesListed ==
  ASSUME NEW r \in Requests, plan \in Drafts(r), NEW k \in 0..Len(plan.steps)
  PROVE  \E n \in Nat : DOMAIN CasesAt(k) = 1..n
<1>1. WellMade(plan)
  BY DraftsWellMade
<1>. QED BY <1>1 DEF WellMade, CasesAt

\* When the caller may use its results they are complete.
LEMMA PoolIsComplete ==
  ASSUME IInv, main = "wait", AllGone, firstErr = "none", ~(parentDone /\ results # <<>>)
  PROVE  Complete
<1>1. stage \in 0..Len(plan.steps) /\ plan \in Drafts(request) /\ request \in Requests /\ next \in Nat \ {0}
  BY DEF IInv, Stages, Types
<1>2. PICK n \in Nat : DOMAIN CasesAt(stage) = 1..n
  BY <1>1, CasesListed
<1>3. DOMAIN results = 1..n
  BY <1>2 DEF IInv, Pool, Working
<1>4. next \notin DOMAIN results
  <2>1. ~poolDone
    BY DEF IInv, Causes
  <2>2. results = <<>> => DOMAIN results = {}
    OBVIOUS
  <2>. QED BY <2>1, <2>2 DEF IInv, Pool
<1>5. \A i \in DOMAIN results : i < next
  BY <1>1, <1>3, <1>4
<1>6. \A i \in DOMAIN results : ~Running(i)
  BY DEF AllGone, Running
<1>7. \A i \in DOMAIN results : Recorded(i)
  BY <1>5, <1>6 DEF IInv, Pool, Working
<1>. QED BY <1>1, <1>2, <1>3, <1>7 DEF Complete

\* Complete results can be ranked, and the ranking is that of what the cases came to.
LEMMA CompleteIsRankable ==
  ASSUME Types, Complete, \A i \in Passing(results) : HasObjective(results[i].metrics, RankingAt(stage))
  PROVE  /\ Rankable(results, RankingAt(stage))
         /\ \A i \in DOMAIN results : (i \in Passing(results)) = TrulyPasses(stage, i)
         /\ \A i, j \in Passing(results) :
              RanksBefore(results, RankingAt(stage), i, j) => TrulyBefore(stage, i, j)
         /\ \A i \in Passing(results) : TrulyWorth(stage, i) \in Int
<1>. DEFINE ranking == RankingAt(stage)
<1>1. PICK n \in Nat : DOMAIN results = 1..n
  BY CasesListed DEF Complete, Types
<1>2. ASSUME NEW i \in Passing(results)
      PROVE  /\ ObjectiveValue(results[i].metrics, ranking) \in Int
             /\ ObjectiveValue(results[i].metrics, ranking) = TrulyWorth(stage, i)
  <2>1. Recorded(i)
    BY DEF Passing, Complete
  <2>2. results[i].metrics = truth[<<stage, i>>].metrics /\ Numeric(results[i].metrics)
    BY <2>1 DEF Recorded, Ran
  <2>3. ranking.weights \in Weights
    <3>1. ranking.weights \in {request.ranking.weights, request.select.weights}
      BY DEF RankingAt, WalkForwardRanking
    <3>2. request \in Requests
      BY DEF Types
    <3>. HIDE DEF ranking
    <3>. QED BY <3>1, <3>2 DEF Weights
  <2>4. IsFiniteSet(DOMAIN ranking.weights) /\ ranking.weights \in [DOMAIN ranking.weights -> Int]
    BY <2>3, RequestAssumption
  <2>. HIDE DEF ranking
  <2>5. HasObjective(results[i].metrics, ranking)
    BY DEF ranking
  <2>6. ObjectiveValue(results[i].metrics, ranking) \in Int
    BY <2>2, <2>4, <2>5, ObjectiveIsNumber
  <2>. QED BY <2>2, <2>6 DEF TrulyWorth, ranking
<1>3. Rankable(results, ranking)
  BY <1>1, <1>2 DEF Rankable
<1>4. \A i \in DOMAIN results : (i \in Passing(results)) = TrulyPasses(stage, i)
  <2>1. ASSUME NEW i \in DOMAIN results PROVE (i \in Passing(results)) = TrulyPasses(stage, i)
    <3>1. results[i].passed = TrulyPasses(stage, i)
      <4>1. Recorded(i)
        BY DEF Complete
      <4>. QED BY <4>1 DEF Recorded
    <3>2. i \in Passing(results) <=> results[i].passed
      BY DEF Passing
    <3>3. TrulyPasses(stage, i) \in BOOLEAN
      BY DEF TrulyPasses, PassesConstraints
    <3>. QED BY <3>1, <3>2, <3>3
  <2>. QED BY <2>1
<1>5. ASSUME NEW i \in Passing(results), NEW j \in Passing(results), RanksBefore(results, ranking, i, j)
      PROVE  TrulyBefore(stage, i, j)
  <2>. DEFINE a == TrulyWorth(stage, i)
              b == TrulyWorth(stage, j)
  <2>1. a \in Int /\ b \in Int
    BY <1>2
  <2>2. IF a = b THEN IdBefore(i, j) ELSE IF ranking.order = "asc" THEN a < b ELSE a > b
    BY <1>2, <1>5 DEF RanksBefore
  <2>. HIDE DEF a, b
  <2>. QED BY <2>1, <2>2 DEF TrulyBefore, a, b
<1>6. \A i \in Passing(results) : TrulyWorth(stage, i) \in Int
  <2>1. ASSUME NEW i \in Passing(results) PROVE TrulyWorth(stage, i) \in Int
    BY <1>2
  <2>. QED BY <2>1
<1>. QED BY <1>3, <1>4, <1>5, <1>6

\* The choice of a step, made of complete results.
LEMMA ChoiceMade ==
  ASSUME Types, Complete, stage # 0, Passing(results) # {},
         \A i \in Passing(results) : HasObjective(results[i].metrics, RankingAt(stage))
  PROVE  LET best == Best(RankingAt(stage))
             step == plan.steps[stage]
             test == MatchingTestCase(step, best)
         IN  /\ stage \in 1..Len(plan.steps) /\ Len(plan.steps) \in Nat
             /\ best \in Nat /\ test \in Nat
             /\ best \in DOMAIN step.train
             /\ \A i \in DOMAIN step.train : Ran(stage, i)
             /\ TrulyPasses(stage, best)
             /\ \A i \in DOMAIN step.train : i # best /\ TrulyPasses(stage, i) => TrulyBefore(stage, best, i)
             /\ step.test[test].parameters = step.train[best].parameters
<1>. DEFINE best == Best(RankingAt(stage))
            step == plan.steps[stage]
<1>1. Rankable(results, RankingAt(stage))
  BY CompleteIsRankable
<1>2. best \in Passing(results) /\ \A i \in Passing(results) : i # best => RanksBefore(results, RankingAt(stage), best, i)
  BY <1>1, BestIsFirst DEF Best
<1>3. stage \in 1..Len(plan.steps) /\ WellMade(plan)
  <2>1. stage \in 0..Len(plan.steps) /\ plan \in Drafts(request) /\ request \in Requests
    BY DEF Complete, Types
  <2>2. WellMade(plan)
    BY <2>1, DraftsWellMade
  <2>3. stage \in 1..Len(plan.steps)
    BY <2>1, <2>2 DEF WellMade
  <2>. QED BY <2>2, <2>3
<1>4. PICK n \in Nat : /\ DOMAIN step.train = 1..n /\ DOMAIN step.test = 1..n
                       /\ \A i \in 1..n : step.test[i].parameters = step.train[i].parameters
  BY <1>3 DEF WellMade
<1>5. DOMAIN results = 1..n /\ \A i \in 1..n : Recorded(i)
  BY <1>3, <1>4 DEF Complete, CasesAt
<1>. HIDE DEF best, step
<1>6. best \in 1..n
  BY <1>2, <1>5 DEF Passing
<1>7. /\ MatchingTestCase(step, best) \in Nat
      /\ step.test[MatchingTestCase(step, best)].parameters = step.train[best].parameters
  BY <1>4, <1>6, TestCaseMatches
<1>8. /\ \A i \in 1..n : (i \in Passing(results)) = TrulyPasses(stage, i)
      /\ \A i, j \in Passing(results) :
           RanksBefore(results, RankingAt(stage), i, j) => TrulyBefore(stage, i, j)
  BY <1>5, CompleteIsRankable
<1>9. TrulyPasses(stage, best)
  BY <1>2, <1>6, <1>8
<1>10. ASSUME NEW i \in 1..n, i # best, TrulyPasses(stage, i) PROVE TrulyBefore(stage, best, i)
  <2>1. i \in Passing(results)
    BY <1>8, <1>10
  <2>. QED BY <1>2, <1>8, <1>10, <2>1
<1>11. \A i \in 1..n : Ran(stage, i)
  BY <1>5 DEF Recorded
<1>12. Len(plan.steps) \in Nat
  BY <1>3 DEF WellMade
<1>. QED BY <1>3, <1>4, <1>6, <1>7, <1>9, <1>10, <1>11, <1>12 DEF best, step

\* The variables keep their types.
LEMMA TypesKept ==
  ASSUME IInv, [Next]_vars
  PROVE  Types'
<1>. USE DEF planVars, callVars, poolVars, vars
<1>1. Types /\ request' = request /\ (request \in Requests)' /\ (plan = NoPlan \/ plan \in Drafts(request))'
  <2>1. Types
    BY DEF IInv
  <2>. QED BY <2>1, PlanKept
<1>. DEFINE Others == /\ main \in {"compile", "offer", "wait", "test", "save", "returned"}
                     /\ at \in [Workers -> {"off", "idle", "running", "gone"}]
                     /\ job \in [Workers -> Nat]
                     /\ next \in Nat \ {0}
                     /\ poolDone \in BOOLEAN /\ parentDone \in BOOLEAN
                     /\ firstErr \in {"none", "failed", "canceled"}
            Kept == chosen \in Seq([train : Nat, test : Nat])
<1>2. Others /\ Kept
  BY <1>1 DEF Types
<1>3. SUFFICES Others' /\ Kept'
  BY <1>1 DEF Types
<1>4. ASSUME NEW how, Return(how), parentDone' = parentDone PROVE Others' /\ Kept'
  BY <1>2, <1>4 DEF Return
<1>5. ASSUME NEW cases, StartPool(cases), parentDone' = parentDone PROVE Others'
  <2>1. main' \in {"wait", "offer"} /\ next' \in Nat \ {0} /\ firstErr' = "none" /\ poolDone' = FALSE
    <3>1. main' = (IF cases = <<>> THEN "wait" ELSE "offer") /\ next' = 1 /\ firstErr' = "none" /\ poolDone' = FALSE
      BY <1>5, StartTypes
    <3>2. next' \in Nat \ {0}
      BY <3>1
    <3>3. main' \in {"wait", "offer"}
      BY <3>1
    <3>. QED BY <3>1, <3>2, <3>3
  <2>2. at' \in [Workers -> {"off", "idle", "running", "gone"}] /\ job' \in [Workers -> Nat]
    BY <1>5, StartTypes
  <2>3. poolDone' \in BOOLEAN /\ parentDone' \in BOOLEAN
    BY <1>2, <1>5, <2>1
  <2>. QED BY <2>1, <2>2, <2>3
<1>6. ASSUME NEW k, ToStage(k), parentDone' = parentDone PROVE Others'
  <2>1. CASE StartPool(CasesAt(k))
    BY <1>5, <1>6, <2>1
  <2>2. CASE main' = "save" /\ UNCHANGED <<stage, poolVars>>
    BY <1>2, <1>6, <2>2
  <2>. QED BY <1>6, <2>1, <2>2 DEF ToStage
<1>. HIDE DEF Kept
<1>7. CASE UNCHANGED vars
  BY <1>2, <1>7 DEF Kept
<1>8. CASE Compile
  <2>1. parentDone' = parentDone
    BY <1>8 DEF Compile
  <2>2. CASE Return("invalid") \/ Return("ok") \/ Return("canceled")
    BY <1>4, <2>1, <2>2
  <2>3. ASSUME NEW cases, StartPool(cases), UNCHANGED callVars PROVE Others' /\ Kept'
    <3>1. Kept'
      BY <1>2, <2>3 DEF Kept
    <3>. QED BY <1>5, <2>1, <2>3, <3>1
  <2>. HIDE DEF Others
  <2>. QED BY <1>8, <2>2, <2>3 DEF Compile
<1>9. CASE ConcludePool
  <2>1. parentDone' = parentDone /\ main = "wait" /\ AllGone
    BY <1>9 DEF ConcludePool
  <2>2. CASE Return(firstErr) \/ Return("canceled") \/ Return("failed") \/ Return("no case passed")
    BY <1>4, <2>1, <2>2
  <2>3. CASE ToStage(1) /\ UNCHANGED chosen
    <3>1. Kept'
      BY <1>2, <2>3 DEF Kept
    <3>. QED BY <1>6, <2>1, <2>3, <3>1
  <2>4. CASE /\ firstErr = "none" /\ ~(parentDone /\ results # <<>>)
             /\ \A i \in Passing(results) : HasObjective(results[i].metrics, RankingAt(stage))
             /\ stage # 0 /\ Passing(results) # {}
             /\ chosen' = Append(chosen, [train |-> Best(RankingAt(stage)),
                                          test |-> MatchingTestCase(plan.steps[stage], Best(RankingAt(stage)))])
             /\ main' = "test" /\ UNCHANGED <<stage, poolVars>>
    <3>. DEFINE best == Best(RankingAt(stage))
                test == MatchingTestCase(plan.steps[stage], best)
    <3>1. Complete
      BY <2>1, <2>4, PoolIsComplete
    <3>2. best \in Nat /\ test \in Nat
      BY <1>1, <2>4, <3>1, ChoiceMade
    <3>. HIDE DEF best, test
    <3>7. [train |-> best, test |-> test] \in [train : Nat, test : Nat]
      BY <3>2
    <3>8. chosen' = Append(chosen, [train |-> best, test |-> test])
      BY <2>4 DEF best, test
    <3>9. Kept'
      BY <1>2, <3>7, <3>8 DEF Kept
    <3>. QED BY <1>2, <2>1, <2>4, <3>9
  <2>. HIDE DEF Others
  <2>5. CASE firstErr # "none" \/ (parentDone /\ results # <<>>)
    BY <1>9, <2>2, <2>5 DEF ConcludePool
  <2>6. CASE ~(firstErr # "none" \/ (parentDone /\ results # <<>>))
    <3>1. UseResults
      BY <1>9, <2>6 DEF ConcludePool
    <3>. QED BY <2>2, <2>3, <2>4, <2>6, <3>1 DEF UseResults
  <2>. QED BY <2>5, <2>6
<1>10. CASE RunTestCase
  <2>1. parentDone' = parentDone
    BY <1>10 DEF RunTestCase
  <2>2. CASE ToStage(stage + 1) /\ UNCHANGED callVars
    <3>1. Kept'
      BY <1>2, <2>2 DEF Kept
    <3>. QED BY <1>6, <2>1, <2>2, <3>1
  <2>3. CASE Return("failed") \/ Return("canceled")
    BY <1>4, <2>1, <2>3
  <2>. HIDE DEF Others
  <2>. QED BY <1>10, <2>2, <2>3 DEF RunTestCase
<1>11. CASE CloseJobs \/ Save \/ CancelParent \/ Rest
  <2>1. Kept'
    BY <1>2, <1>11 DEF CloseJobs, Save, CancelParent, Rest, Kept
  <2>2. CASE CloseJobs
    BY <1>2, <2>1, <2>2 DEF CloseJobs
  <2>3. CASE Save
    BY <1>2, <2>1, <2>3 DEF Save
  <2>4. CASE CancelParent
    BY <1>2, <2>1, <2>4 DEF CancelParent
  <2>5. CASE Rest
    BY <1>2, <2>1, <2>5 DEF Rest
  <2>. QED BY <1>11, <2>2, <2>3, <2>4, <2>5
<1>12. ASSUME NEW w \in Workers, WorkerStep(w) PROVE Others' /\ Kept'
  <2>1. Kept'
    BY <1>2, <1>12 DEF WorkerStep, TakeCase, FinishCase, FailCase, LeavePool, Kept
  <2>2. CASE TakeCase(w)
    <3>1. next' \in Nat \ {0}
      BY <1>2, <2>2 DEF TakeCase
    <3>2. at' \in [Workers -> {"off", "idle", "running", "gone"}] /\ job' \in [Workers -> Nat]
      BY <1>2, <2>2 DEF TakeCase
    <3>. QED BY <1>2, <2>1, <2>2, <3>1, <3>2 DEF TakeCase
  <2>3. CASE FinishCase(w)
    BY <1>2, <2>1, <2>3 DEF FinishCase
  <2>4. CASE FailCase(w)
    <3>1. firstErr' \in {"none", "failed", "canceled"} /\ poolDone' = TRUE
      BY <1>2, <2>4 DEF FailCase, SetError
    <3>2. at' \in [Workers -> {"off", "idle", "running", "gone"}]
      BY <1>2, <2>4 DEF FailCase
    <3>. QED BY <1>2, <2>1, <2>4, <3>1, <3>2 DEF FailCase
  <2>5. CASE LeavePool(w)
    BY <1>2, <2>1, <2>5 DEF LeavePool
  <2>. QED BY <1>12, <2>2, <2>3, <2>4, <2>5 DEF WorkerStep
<1>. HIDE DEF Others
<1>. QED BY <1>7, <1>8, <1>9, <1>10, <1>11, <1>12 DEF Next, CallerStep

\* The stages follow each other.
LEMMA StagesKept ==
  ASSUME IInv, [Next]_vars
  PROVE  Stages'
<1>. USE DEF planVars, callVars, poolVars, vars, Working
<1>1. /\ main \in {"offer", "wait", "test", "save"} => plan \in Drafts(request) /\ stage \in 0..Len(plan.steps)
      /\ main = "compile" => stage = 0 /\ chosen = <<>> /\ evaluated = <<>>
      /\ main \in {"offer", "wait"} => Len(chosen) = (IF stage = 0 THEN 0 ELSE stage - 1)
      /\ main \in {"offer", "wait"} /\ stage = 0 => evaluated = <<>>
      /\ main = "test" => stage > 0 /\ Len(chosen) = stage
      /\ chosen # <<>> => plan \in Drafts(request) /\ Len(chosen) <= Len(plan.steps)
      /\ evaluated # <<>> => plan \in Drafts(request)
  BY DEF IInv, Stages
<1>2. request \in Requests /\ request' = request /\ (main # "compile" => plan' = plan)
  BY PlanKept DEF IInv
<1>3. chosen \in Seq([train : Nat, test : Nat]) /\ Len(chosen) \in Nat
  BY DEF IInv, Types
<1>4. plan \in Drafts(request) => Len(plan.steps) \in Nat
  BY <1>2, DraftsWellMade DEF WellMade
<1>5. ASSUME NEW how, Return(how), main # "compile" PROVE Stages'
  BY <1>1, <1>2, <1>5 DEF Return, Stages
<1>6. ASSUME NEW cases, StartPool(cases) PROVE main' \in {"offer", "wait"}
  BY <1>6 DEF StartPool
<1>7. CASE UNCHANGED vars
  BY <1>1, <1>2, <1>7 DEF Stages
<1>8. CASE Compile
  <2>1. main = "compile"
    BY <1>8 DEF Compile
  <2>2. ASSUME NEW how, Return(how) PROVE Stages'
    BY <1>1, <2>1, <2>2 DEF Return, Stages
  <2>3. ASSUME NEW draft \in Drafts(request), plan' = draft, StartPool(draft.cases), UNCHANGED <<stage, callVars>>
        PROVE  Stages'
    <3>1. main' \in {"offer", "wait"}
      BY <1>6, <2>3
    <3>2. WellMade(draft)
      BY <1>2, <2>3, DraftsWellMade
    <3>3. plan' \in Drafts(request') /\ stage' = 0 /\ Len(plan'.steps) \in Nat /\ chosen' = <<>> /\ evaluated' = <<>>
      BY <1>1, <1>2, <2>1, <2>3, <3>2 DEF WellMade
    <3>4. Len(<<>>) = 0
      OBVIOUS
    <3>. QED BY <3>1, <3>3, <3>4 DEF Stages
  <2>. QED BY <1>8, <2>2, <2>3 DEF Compile
<1>9. CASE ConcludePool
  <2>1. main = "wait" /\ AllGone /\ plan \in Drafts(request) /\ stage \in 0..Len(plan.steps) /\ plan' = plan
    BY <1>1, <1>2, <1>9 DEF ConcludePool
  <2>2. CASE Return(firstErr) \/ Return("canceled") \/ Return("failed") \/ Return("no case passed")
    BY <1>5, <2>1, <2>2
  <2>3. CASE stage = 0 /\ ToStage(1) /\ UNCHANGED chosen
    <3>1. CASE 1 <= Len(plan.steps) /\ stage' = 1 /\ StartPool(CasesAt(1))
      <4>1. main' \in {"offer", "wait"}
        BY <1>6, <3>1
      <4>. QED BY <1>1, <1>2, <1>4, <2>1, <2>3, <3>1, <4>1 DEF Stages
    <3>2. CASE main' = "save" /\ UNCHANGED <<stage, poolVars>>
      BY <1>1, <1>2, <1>4, <2>1, <2>3, <3>2 DEF Stages
    <3>. QED BY <2>3, <3>1, <3>2 DEF ToStage
  <2>4. ASSUME stage # 0, NEW choice \in [train : Nat, test : Nat], chosen' = Append(chosen, choice),
               main' = "test", stage' = stage, evaluated' = evaluated
        PROVE  Stages'
    <3>1. Len(chosen) = stage - 1 /\ stage \in 1..Len(plan.steps)
      BY <1>1, <1>4, <2>1, <2>4
    <3>2. Len(chosen') = stage
      BY <1>3, <2>4, <3>1
    <3>. QED BY <1>1, <1>2, <1>4, <2>1, <2>4, <3>1, <3>2 DEF Stages
  <2>5. CASE firstErr # "none" \/ (parentDone /\ results # <<>>)
    BY <1>9, <2>2, <2>5 DEF ConcludePool
  <2>6. CASE ~(firstErr # "none" \/ (parentDone /\ results # <<>>))
    <3>1. UseResults
      BY <1>9, <2>6 DEF ConcludePool
    <3>2. CASE /\ stage # 0 /\ Passing(results) # {}
               /\ \A i \in Passing(results) : HasObjective(results[i].metrics, RankingAt(stage))
               /\ chosen' = Append(chosen, [train |-> Best(RankingAt(stage)),
                                            test |-> MatchingTestCase(plan.steps[stage], Best(RankingAt(stage)))])
               /\ main' = "test" /\ UNCHANGED <<stage, poolVars, evaluated>>
      <4>. DEFINE best == Best(RankingAt(stage))
                  test == MatchingTestCase(plan.steps[stage], best)
                  choice == [train |-> best, test |-> test]
      <4>1. Complete
        BY <2>1, <2>6, PoolIsComplete
      <4>2. best \in Nat /\ test \in Nat
        BY <3>2, <4>1, ChoiceMade DEF IInv
      <4>. HIDE DEF best, test
      <4>3. choice \in [train : Nat, test : Nat]
        BY <4>2
      <4>4. chosen' = Append(chosen, choice)
        BY <3>2 DEF best, test
      <4>. HIDE DEF choice
      <4>. QED BY <2>4, <3>2, <4>3, <4>4
    <3>. QED BY <2>2, <2>3, <3>1, <3>2 DEF UseResults
  <2>. QED BY <2>5, <2>6
<1>10. CASE RunTestCase
  <2>1. main = "test" /\ plan \in Drafts(request) /\ stage \in 0..Len(plan.steps) /\ plan' = plan
        /\ stage > 0 /\ Len(chosen) = stage
    BY <1>1, <1>2, <1>10 DEF RunTestCase
  <2>2. CASE ToStage(stage + 1) /\ UNCHANGED callVars
    <3>1. CASE stage + 1 <= Len(plan.steps) /\ stage' = stage + 1 /\ StartPool(CasesAt(stage + 1))
      <4>1. main' \in {"offer", "wait"}
        BY <1>6, <3>1
      <4>. QED BY <1>1, <1>2, <1>4, <2>1, <2>2, <3>1, <4>1 DEF Stages
    <3>2. CASE main' = "save" /\ UNCHANGED <<stage, poolVars>>
      BY <1>1, <1>2, <1>4, <2>1, <2>2, <3>2 DEF Stages
    <3>. QED BY <2>2, <3>1, <3>2 DEF ToStage
  <2>3. CASE Return("failed") \/ Return("canceled")
    BY <1>5, <2>1, <2>3
  <2>. QED BY <1>10, <2>2, <2>3 DEF RunTestCase
<1>11. CASE CloseJobs
  BY <1>1, <1>2, <1>11 DEF CloseJobs, Stages
<1>12. CASE Save
  BY <1>1, <1>2, <1>12 DEF Save, Stages
<1>13. CASE CancelParent
  BY <1>1, <1>2, <1>13 DEF CancelParent, Stages
<1>14. ASSUME NEW w \in Workers, WorkerStep(w) PROVE Stages'
  <2>1. plan' = plan /\ UNCHANGED <<main, stage, callVars>>
    BY <1>14 DEF WorkerStep, TakeCase, FinishCase, FailCase, LeavePool
  <2>. QED BY <1>1, <1>2, <2>1 DEF Stages
<1>. QED BY <1>7, <1>8, <1>9, <1>10, <1>11, <1>12, <1>13, <1>14 DEF Next, CallerStep, Rest

\* What has come to something stays so when another case does.
LEMMA OthersStay ==
  ASSUME NEW i, NEW o, NEW slot, Record(i, o, slot), NEW k, NEW j, <<k, j>> # <<stage, i>>, Ran(k, j)
  PROVE  Ran(k, j)' /\ truth'[<<k, j>>] = truth[<<k, j>>]
<1>. DEFINE key == <<stage, i>>
            other == <<k, j>>
<1>1. truth' = With(truth, key, o) /\ other # key /\ other \in DOMAIN truth
  BY DEF Record, Ran
<1>. HIDE DEF key, other
<1>2. other \in DOMAIN truth' /\ truth'[other] = truth[other]
  BY <1>1 DEF With
<1>. QED BY <1>2 DEF Ran, other

\* A slot holds what its case came to.
LEMMA CaseRecorded ==
  ASSUME NEW i \in DOMAIN results, NEW o, \A m \in DOMAIN o.metrics : o.metrics[m] \in Values,
         Record(i, o, i), UNCHANGED <<stage, request>>
  PROVE  Recorded(i)'
<1>. DEFINE key == <<stage, i>>
<1>1. truth' = With(truth, key, o)
  BY DEF Record
<1>2. results' = [results EXCEPT ![i] =
                    [EmptySlot EXCEPT !.metrics = o.metrics, !.tags = o.tags,
                                      !.passed  = PassesConstraints(o.metrics, ConstraintsAt(stage))]]
  BY DEF Record
<1>3. results'[i] = [metrics |-> o.metrics, tags |-> o.tags,
                      passed |-> PassesConstraints(o.metrics, ConstraintsAt(stage)), rank |-> 0, value |-> 0]
  BY <1>2 DEF EmptySlot
<1>4. key \in DOMAIN truth' /\ truth'[key] = o
  <2>. HIDE DEF key
  <2>. QED BY <1>1 DEF With
<1>5. Numeric(o.metrics)
  BY PoolAssumption DEF Numeric
<1>6. ConstraintsAt(stage)' = ConstraintsAt(stage)
  BY DEF ConstraintsAt
<1>. QED BY <1>3, <1>4, <1>5, <1>6 DEF Recorded, Ran, TrulyPasses

\* A pool that starts has nothing to answer for.
LEMMA StartPoolKept ==
  ASSUME NEW k, StartPool(CasesAt(k)), stage' = k, plan' = plan, \E n \in Nat : DOMAIN CasesAt(k) = 1..n
  PROVE  Pool'
<1>1. /\ main' = (IF CasesAt(k) = <<>> THEN "wait" ELSE "offer") /\ next' = 1
      /\ \A w \in Workers : at'[w] # "running"
      /\ DOMAIN results' = DOMAIN CasesAt(k)
  BY StartTypes
<1>2. PICK n \in Nat : DOMAIN CasesAt(k) = 1..n
  OBVIOUS
<1>3. DOMAIN results' = DOMAIN CasesAt(stage)'
  BY <1>1 DEF CasesAt
<1>4. \A i \in DOMAIN results' : ~(i < next')
  BY <1>1, <1>2
<1>5. main' = "wait" => next' \notin DOMAIN results'
  <2>1. CasesAt(k) = <<>> => DOMAIN CasesAt(k) = {}
    OBVIOUS
  <2>. QED BY <1>1, <2>1
<1>. QED BY <1>1, <1>3, <1>4, <1>5 DEF Pool, Working

\* No case that was offered is forgotten.
LEMMA PoolKept ==
  ASSUME IInv, [Next]_vars
  PROVE  Pool'
<1>. USE DEF planVars, callVars, poolVars, vars
<1>1. /\ request \in Requests /\ request' = request /\ (main # "compile" => plan' = plan)
      /\ next \in Nat \ {0} /\ at \in [Workers -> {"off", "idle", "running", "gone"}] /\ job \in [Workers -> Nat]
      /\ firstErr \in {"none", "failed", "canceled"}
  BY PlanKept DEF IInv, Types
<1>2. /\ Working => /\ DOMAIN results = DOMAIN CasesAt(stage)
                    /\ \A i \in DOMAIN results : i < next => Recorded(i) \/ firstErr # "none" \/ Running(i)
                    /\ \A w \in Workers : at[w] = "running" => job[w] \in DOMAIN results
      /\ main = "wait" => next \notin DOMAIN results \/ poolDone \/ parentDone
      /\ ~Working => \A w \in Workers : at[w] # "running"
  BY DEF IInv, Pool
<1>3. Working => \E n \in Nat : DOMAIN CasesAt(stage) = 1..n
  BY <1>1, CasesListed DEF IInv, Stages, Working
<1>4. ASSUME NEW how, Return(how), \A w \in Workers : at[w] # "running" PROVE Pool'
  BY <1>4 DEF Return, Pool, Working
<1>5. ASSUME UNCHANGED <<main, stage, next, at, job, results, truth, request, plan>>,
             firstErr # "none" => firstErr' # "none", poolDone => poolDone', parentDone => parentDone'
      PROVE  Pool'
  <2>1. \A i : Recorded(i) => Recorded(i)'
    BY <1>5 DEF Recorded, Ran, TrulyPasses, ConstraintsAt
  <2>2. \A i : Running(i) => Running(i)'
    BY <1>5 DEF Running
  <2>3. CasesAt(stage)' = CasesAt(stage)
    BY <1>5 DEF CasesAt
  <2>. QED BY <1>2, <1>5, <2>1, <2>2, <2>3 DEF Pool, Working
<1>6. CASE UNCHANGED vars
  BY <1>5, <1>6
<1>7. CASE Compile
  <2>1. main = "compile" /\ \A w \in Workers : at[w] # "running"
    BY <1>2, <1>7 DEF Compile, Working
  <2>2. ASSUME NEW draft \in Drafts(request), plan' = draft, StartPool(draft.cases), stage' = stage
        PROVE  Pool'
    <3>1. stage = 0
      BY <2>1 DEF IInv, Stages
    <3>2. /\ main' = (IF draft.cases = <<>> THEN "wait" ELSE "offer") /\ next' = 1
          /\ \A w \in Workers : at'[w] # "running"
          /\ DOMAIN results' = DOMAIN draft.cases
      BY <2>2, StartTypes
    <3>3. PICK n \in Nat : DOMAIN draft.cases = 1..n
      BY <1>1, DraftsWellMade DEF WellMade
    <3>4. DOMAIN results' = DOMAIN CasesAt(stage)'
      BY <2>2, <3>1, <3>2 DEF CasesAt
    <3>5. \A i \in DOMAIN results' : ~(i < next')
      BY <3>2, <3>3
    <3>6. main' = "wait" => next' \notin DOMAIN results'
      <4>1. draft.cases = <<>> => DOMAIN draft.cases = {}
        OBVIOUS
      <4>. QED BY <3>2, <4>1
    <3>. QED BY <3>2, <3>4, <3>5, <3>6 DEF Pool, Working
  <2>. QED BY <1>4, <1>7, <2>1, <2>2 DEF Compile
<1>8. CASE CloseJobs
  <2>1. \A i : Recorded(i) => Recorded(i)'
    BY <1>8 DEF CloseJobs, Recorded, Ran, TrulyPasses, ConstraintsAt
  <2>2. \A i : Running(i) => Running(i)'
    BY <1>8 DEF CloseJobs, Running
  <2>3. CasesAt(stage)' = CasesAt(stage)
    BY <1>8 DEF CloseJobs, CasesAt
  <2>. QED BY <1>2, <1>8, <2>1, <2>2, <2>3 DEF CloseJobs, PoolCtxDone, Pool, Working
<1>9. CASE ConcludePool
  <2>1. main = "wait" /\ plan' = plan /\ \A w \in Workers : at[w] # "running"
    BY <1>1, <1>9 DEF ConcludePool, AllGone
  <2>2. CASE Return(firstErr) \/ Return("canceled") \/ Return("failed") \/ Return("no case passed")
    BY <1>4, <2>1, <2>2
  <2>3. CASE ToStage(1)
    <3>1. CASE 1 <= Len(plan.steps) /\ stage' = 1 /\ StartPool(CasesAt(1))
      <4>1. plan \in Drafts(request)
        BY <2>1 DEF IInv, Stages
      <4>2. \E n \in Nat : DOMAIN CasesAt(1) = 1..n
        <5>1. 1 \in 0..Len(plan.steps)
          BY <1>1, <3>1, <4>1, DraftsWellMade DEF WellMade
        <5>. QED BY <1>1, <4>1, <5>1, CasesListed
      <4>. QED BY <2>1, <3>1, <4>2, StartPoolKept
    <3>2. CASE main' = "save" /\ UNCHANGED <<stage, poolVars>>
      BY <2>1, <3>2 DEF Pool, Working
    <3>. QED BY <2>3, <3>1, <3>2 DEF ToStage
  <2>4. CASE main' = "test" /\ UNCHANGED <<stage, poolVars>>
    BY <2>1, <2>4 DEF Pool, Working
  <2>5. CASE firstErr # "none" \/ (parentDone /\ results # <<>>)
    BY <1>9, <2>2, <2>5 DEF ConcludePool
  <2>6. CASE ~(firstErr # "none" \/ (parentDone /\ results # <<>>))
    <3>1. UseResults
      BY <1>9, <2>6 DEF ConcludePool
    <3>. QED BY <2>2, <2>3, <2>4, <3>1 DEF UseResults
  <2>. QED BY <2>5, <2>6
<1>10. CASE RunTestCase
  <2>1. main = "test" /\ plan' = plan /\ \A w \in Workers : at[w] # "running"
    BY <1>1, <1>2, <1>10 DEF RunTestCase, Working
  <2>2. CASE ToStage(stage + 1)
    <3>1. CASE stage + 1 <= Len(plan.steps) /\ stage' = stage + 1 /\ StartPool(CasesAt(stage + 1))
      <4>. DEFINE k == stage + 1
      <4>1. plan \in Drafts(request) /\ stage \in 0..Len(plan.steps)
        BY <2>1 DEF IInv, Stages
      <4>2. k \in 0..Len(plan.steps)
        BY <1>1, <3>1, <4>1, DraftsWellMade DEF WellMade
      <4>3. stage' = k /\ StartPool(CasesAt(k))
        BY <3>1
      <4>. HIDE DEF k
      <4>4. \E n \in Nat : DOMAIN CasesAt(k) = 1..n
        BY <1>1, <4>1, <4>2, CasesListed
      <4>. QED BY <2>1, <4>3, <4>4, StartPoolKept
    <3>2. CASE main' = "save" /\ UNCHANGED <<stage, poolVars>>
      BY <2>1, <3>2 DEF Pool, Working
    <3>. QED BY <2>2, <3>1, <3>2 DEF ToStage
  <2>3. CASE Return("failed") \/ Return("canceled")
    BY <1>4, <2>1, <2>3
  <2>. QED BY <1>10, <2>2, <2>3 DEF RunTestCase
<1>11. CASE Save
  BY <1>2, <1>11 DEF Save, Pool, Working
<1>12. CASE CancelParent
  BY <1>1, <1>5, <1>12 DEF CancelParent
<1>13. ASSUME NEW w \in Workers, TakeCase(w) PROVE Pool'
  <2>1. /\ main = "offer" /\ next \in DOMAIN results /\ at[w] = "idle" /\ next' = next + 1
        /\ at' = [at EXCEPT ![w] = "running"] /\ job' = [job EXCEPT ![w] = next]
        /\ UNCHANGED <<request, plan, main, stage, results, firstErr, truth>>
    BY <1>13 DEF TakeCase
  <2>2. \A i : Recorded(i) => Recorded(i)'
    BY <2>1 DEF Recorded, Ran, TrulyPasses, ConstraintsAt
  <2>3. \A i : Running(i) => Running(i)'
    BY <1>1, <2>1 DEF Running
  <2>4. ASSUME NEW i, i = next PROVE Running(i)'
    BY <1>1, <2>1, <2>4 DEF Running
  <2>5. CasesAt(stage)' = CasesAt(stage)
    BY <2>1 DEF CasesAt
  <2>6. ASSUME NEW i \in DOMAIN results', i < next' PROVE Recorded(i)' \/ firstErr' # "none" \/ Running(i)'
    <3>1. PICK n \in Nat : DOMAIN results = 1..n
      BY <1>2, <1>3, <2>1 DEF Working
    <3>2. i < next \/ i = next
      BY <1>1, <2>1, <2>6, <3>1
    <3>3. CASE i < next
      <4>1. Recorded(i) \/ firstErr # "none" \/ Running(i)
        BY <1>2, <2>1, <3>3 DEF Working
      <4>. QED BY <2>1, <2>2, <2>3, <4>1
    <3>4. CASE i = next
      BY <2>4, <3>4
    <3>. QED BY <3>2, <3>3, <3>4
  <2>7. \A v \in Workers : at'[v] = "running" => job'[v] \in DOMAIN results'
    BY <1>1, <1>2, <2>1 DEF Working
  <2>. QED BY <1>2, <2>1, <2>5, <2>6, <2>7 DEF Pool, Working
<1>14. ASSUME NEW w \in Workers, FinishCase(w) PROVE Pool'
  <2>0. PICK i \in Nat : i = job[w]
    BY <1>1
  <2>1. /\ at[w] = "running" /\ at' = [at EXCEPT ![w] = "idle"]
        /\ UNCHANGED <<request, plan, main, stage, next, job, firstErr, poolDone, parentDone>>
    BY <1>14 DEF FinishCase
  <2>2. PICK o \in Outcomes(stage, CasesAt(stage)[i]) : Record(i, o, i)
    BY <1>14, <2>0 DEF FinishCase
  <2>3. Working /\ i \in DOMAIN results
    BY <1>2, <2>0, <2>1
  <2>4. \A m \in DOMAIN o.metrics : o.metrics[m] \in Values
    BY DEF Outcomes
  <2>5. DOMAIN results' = DOMAIN results /\ \A j \in DOMAIN results : j # i => results'[j] = results[j]
    BY <2>2 DEF Record
  <2>6. CasesAt(stage)' = CasesAt(stage)
    BY <2>1 DEF CasesAt
  <2>7. Recorded(i)'
    BY <2>1, <2>2, <2>3, <2>4, CaseRecorded
  <2>8. ASSUME NEW j \in DOMAIN results, j # i, Recorded(j) PROVE Recorded(j)'
    <3>1. Ran(stage, j)' /\ truth'[<<stage, j>>] = truth[<<stage, j>>]
      BY <2>1, <2>2, <2>8, OthersStay DEF Recorded
    <3>. QED BY <2>1, <2>5, <2>8, <3>1 DEF Recorded, TrulyPasses, ConstraintsAt
  <2>9. ASSUME NEW j, j # i, Running(j) PROVE Running(j)'
    BY <1>1, <2>0, <2>1, <2>9 DEF Running
  <2>10. ASSUME NEW j \in DOMAIN results', j < next'
         PROVE  Recorded(j)' \/ firstErr' # "none" \/ Running(j)'
    <3>1. j \in DOMAIN results /\ j < next
      BY <2>1, <2>5, <2>10
    <3>2. Recorded(j) \/ firstErr # "none" \/ Running(j)
      BY <1>2, <2>3, <3>1
    <3>3. CASE j = i
      BY <2>7, <3>3
    <3>4. CASE j # i
      BY <2>1, <2>8, <2>9, <3>1, <3>2, <3>4
    <3>. QED BY <3>3, <3>4
  <2>11. \A v \in Workers : at'[v] = "running" => job'[v] \in DOMAIN results'
    BY <1>1, <1>2, <2>1, <2>3, <2>5
  <2>. QED BY <1>2, <2>1, <2>3, <2>5, <2>6, <2>10, <2>11 DEF Pool, Working
<1>15. ASSUME NEW w \in Workers, FailCase(w) PROVE Pool'
  <2>1. /\ at[w] = "running" /\ at' = [at EXCEPT ![w] = "idle"]
        /\ UNCHANGED <<request, plan, main, stage, next, job, results>>
    BY <1>15 DEF FailCase
  <2>2. firstErr' # "none" /\ poolDone' = TRUE
    BY <1>1, <1>15 DEF FailCase, SetError
  <2>3. CasesAt(stage)' = CasesAt(stage)
    BY <2>1 DEF CasesAt
  <2>4. \A v \in Workers : at'[v] = "running" => at[v] = "running"
    BY <1>1, <2>1
  <2>. QED BY <1>2, <2>1, <2>2, <2>3, <2>4 DEF Pool, Working
<1>16. ASSUME NEW w \in Workers, LeavePool(w) PROVE Pool'
  <2>1. /\ at[w] = "idle" /\ at' = [at EXCEPT ![w] = "gone"]
        /\ UNCHANGED <<request, plan, main, stage, next, job, results, firstErr, poolDone, parentDone, truth>>
    BY <1>16 DEF LeavePool
  <2>2. \A i : Recorded(i) => Recorded(i)'
    BY <2>1 DEF Recorded, Ran, TrulyPasses, ConstraintsAt
  <2>3. \A i : Running(i) => Running(i)'
    BY <1>1, <2>1 DEF Running
  <2>4. CasesAt(stage)' = CasesAt(stage)
    BY <2>1 DEF CasesAt
  <2>5. \A v \in Workers : at'[v] = "running" => at[v] = "running"
    BY <1>1, <2>1
  <2>. QED BY <1>2, <2>1, <2>2, <2>3, <2>4, <2>5 DEF Pool, Working
<1>17. ASSUME NEW w \in Workers, WorkerStep(w) PROVE Pool'
  BY <1>13, <1>14, <1>15, <1>16, <1>17 DEF WorkerStep
<1>. QED BY <1>6, <1>7, <1>8, <1>9, <1>10, <1>11, <1>12, <1>17 DEF Next, CallerStep, Rest
\* The report, made of complete results.
LEMMA ReportMade ==
  ASSUME Types, Complete, stage = 0, evaluated' = WithRanks(results, RankingAt(stage)),
         \A i \in Passing(results) : HasObjective(results[i].metrics, RankingAt(stage)),
         UNCHANGED <<truth, request>>
  PROVE  Reporting'
<1>. DEFINE ranking == RankingAt(stage)
            out == WithRanks(results, ranking)
            P == Passing(results)
<1>1. /\ Rankable(results, ranking)
      /\ \A i \in DOMAIN results : (i \in P) = TrulyPasses(stage, i)
      /\ \A i, j \in P : RanksBefore(results, ranking, i, j) => TrulyBefore(stage, i, j)
      /\ \A i \in P : TrulyWorth(stage, i) \in Int
  BY CompleteIsRankable
<1>2. \A i \in DOMAIN results : Recorded(i)
  BY DEF Complete
<1>3. \A i \in DOMAIN results : results[i].rank = 0 /\ {"rank", "value"} \subseteq DOMAIN results[i]
  <2>1. ASSUME NEW i \in DOMAIN results
        PROVE  results[i].rank = 0 /\ {"rank", "value"} \subseteq DOMAIN results[i]
    <3>1. Recorded(i)
      BY <1>2
    <3>. QED BY <3>1 DEF Recorded
  <2>. QED BY <2>1
<1>4. /\ DOMAIN out = DOMAIN results
      /\ \A i \in DOMAIN results :
           /\ out[i].tags = results[i].tags /\ out[i].passed = results[i].passed
           /\ out[i].rank \in Nat
           /\ out[i].rank > 0 <=> i \in P
      /\ \A i, j \in P :
           /\ out[i].rank < out[j].rank => RanksBefore(results, ranking, i, j)
           /\ i # j => out[i].rank # out[j].rank
  BY <1>1, <1>3, RanksGiven
<1>5. evaluated' = out
  OBVIOUS
<1>6. \E n \in Nat : DOMAIN results = 1..n
  BY <1>1 DEF Rankable
<1>7. UNCHANGED <<truth, request>>
  OBVIOUS
<1>. HIDE DEF out, P, ranking
<1>8. ASSUME NEW i \in DOMAIN results PROVE ReportedCase(i)'
  <2>1. /\ Ran(stage, i)
        /\ results[i].tags = truth[<<stage, i>>].tags /\ results[i].passed = TrulyPasses(stage, i)
    BY <1>2 DEF Recorded
  <2>2. /\ out[i].tags = truth[<<0, i>>].tags /\ out[i].passed = TrulyPasses(0, i)
        /\ out[i].rank \in Nat /\ (out[i].rank > 0 <=> TrulyPasses(0, i)) /\ Ran(0, i)
        /\ TrulyPasses(0, i) => TrulyWorth(0, i) \in Int
    BY <1>1, <1>4, <2>1
  <2>. QED BY <1>5, <1>7, <2>2 DEF ReportedCase, Ran, TrulyPasses, TrulyWorth, ConstraintsAt, RankingAt
<1>9. ASSUME NEW i \in DOMAIN results, NEW j \in DOMAIN results PROVE RankedBefore(i, j)'
  <2>1. TrulyPasses(0, i) /\ TrulyPasses(0, j) =>
          /\ out[i].rank < out[j].rank => TrulyBefore(0, i, j)
          /\ i # j => out[i].rank # out[j].rank
    BY <1>1, <1>4
  <2>. QED BY <1>5, <1>7, <2>1 DEF RankedBefore, TrulyPasses, TrulyBefore, TrulyWorth, ConstraintsAt, RankingAt
<1>. QED BY <1>4, <1>5, <1>6, <1>8, <1>9 DEF Reporting

\* A report stays, and is made of what all the cases came to.
LEMMA ReportingKept ==
  ASSUME IInv, [Next]_vars
  PROVE  Reporting'
<1>. USE DEF planVars, callVars, poolVars, vars
<1>1. request' = request /\ (main # "compile" => plan' = plan) /\ job \in [Workers -> Nat]
  BY PlanKept DEF IInv, Types
<1>2. /\ \E n \in Nat : DOMAIN evaluated = 1..n
      /\ \A i \in DOMAIN evaluated : ReportedCase(i)
      /\ \A i, j \in DOMAIN evaluated : RankedBefore(i, j)
  BY DEF IInv, Reporting
<1>3. ASSUME evaluated' = evaluated,
             \A i \in DOMAIN evaluated : <<0, i>> \in DOMAIN truth' /\ truth'[<<0, i>>] = truth[<<0, i>>]
      PROVE  Reporting'
  <2>1. ASSUME NEW i \in DOMAIN evaluated PROVE ReportedCase(i)'
    <3>1. ReportedCase(i)
      BY <1>2
    <3>. QED BY <1>1, <1>3, <3>1 DEF ReportedCase, Ran, TrulyPasses, TrulyWorth, ConstraintsAt, RankingAt
  <2>2. ASSUME NEW i \in DOMAIN evaluated, NEW j \in DOMAIN evaluated PROVE RankedBefore(i, j)'
    <3>1. RankedBefore(i, j)
      BY <1>2
    <3>. QED BY <1>1, <1>3, <3>1 DEF RankedBefore, TrulyPasses, TrulyBefore, TrulyWorth, ConstraintsAt, RankingAt
  <2>. QED BY <1>2, <1>3, <2>1, <2>2 DEF Reporting
<1>4. ASSUME UNCHANGED <<evaluated, truth>> PROVE Reporting'
  <2>1. \A i \in DOMAIN evaluated : <<0, i>> \in DOMAIN truth
    BY <1>2 DEF ReportedCase, Ran
  <2>. QED BY <1>3, <1>4, <2>1
<1>5. ASSUME NEW how, Return(how) PROVE Reporting'
  BY <1>4, <1>5 DEF Return
<1>6. ASSUME NEW k, ToStage(k), UNCHANGED evaluated PROVE Reporting'
  BY <1>4, <1>6 DEF ToStage, StartPool
<1>7. CASE UNCHANGED vars
  BY <1>4, <1>7
<1>8. CASE Compile
  <2>1. UNCHANGED <<evaluated, truth>>
    BY <1>8 DEF Compile, Return, StartPool
  <2>. QED BY <1>4, <2>1
<1>9. CASE ConcludePool
  <2>1. main = "wait" /\ AllGone
    BY <1>9 DEF ConcludePool
  <2>2. CASE Return(firstErr) \/ Return("canceled") \/ Return("failed") \/ Return("no case passed")
    BY <1>5, <2>2
  <2>3. CASE UNCHANGED <<stage, poolVars, evaluated>>
    BY <1>4, <2>3
  <2>4. CASE /\ firstErr = "none" /\ ~(parentDone /\ results # <<>>)
             /\ \A i \in Passing(results) : HasObjective(results[i].metrics, RankingAt(stage))
             /\ stage = 0 /\ evaluated' = WithRanks(results, RankingAt(stage)) /\ ToStage(1)
    <3>1. Complete /\ Types
      BY <2>1, <2>4, PoolIsComplete DEF IInv
    <3>2. truth' = truth
      BY <2>4 DEF ToStage, StartPool
    <3>. QED BY <1>1, <2>4, <3>1, <3>2, ReportMade
  <2>5. CASE firstErr # "none" \/ (parentDone /\ results # <<>>)
    BY <1>9, <2>2, <2>5 DEF ConcludePool
  <2>6. CASE ~(firstErr # "none" \/ (parentDone /\ results # <<>>))
    <3>1. UseResults
      BY <1>9, <2>6 DEF ConcludePool
    <3>. QED BY <2>2, <2>3, <2>4, <2>6, <3>1 DEF UseResults
  <2>. QED BY <2>5, <2>6
<1>10. CASE RunTestCase
  <2>1. CASE ToStage(stage + 1) /\ UNCHANGED callVars
    BY <1>6, <2>1
  <2>2. CASE Return("failed") \/ Return("canceled")
    BY <1>5, <2>2
  <2>. QED BY <1>10, <2>1, <2>2 DEF RunTestCase
<1>11. CASE CloseJobs \/ Save \/ CancelParent
  BY <1>4, <1>11 DEF CloseJobs, Save, CancelParent
<1>12. ASSUME NEW w \in Workers, FinishCase(w) PROVE Reporting'
  <2>1. PICK i \in Nat : i = job[w]
    BY <1>1
  <2>2. at[w] = "running" /\ evaluated' = evaluated
    BY <1>12 DEF FinishCase
  <2>3. PICK o \in Outcomes(stage, CasesAt(stage)[i]) : Record(i, o, i)
    BY <1>12, <2>1 DEF FinishCase
  <2>4. Working /\ (stage = 0 => evaluated = <<>>)
    BY <2>2 DEF IInv, Pool, Stages
  <2>5. ASSUME NEW j \in DOMAIN evaluated
        PROVE  <<0, j>> \in DOMAIN truth' /\ truth'[<<0, j>>] = truth[<<0, j>>]
    <3>1. stage # 0
      <4>1. evaluated = <<>> => DOMAIN evaluated = {}
        OBVIOUS
      <4>. QED BY <2>4, <4>1
    <3>2. Ran(0, j)
      BY <1>2 DEF ReportedCase
    <3>3. Ran(0, j)' /\ truth'[<<0, j>>] = truth[<<0, j>>]
      BY <2>3, <3>1, <3>2, OthersStay
    <3>. QED BY <3>3 DEF Ran
  <2>. QED BY <1>3, <2>2, <2>5
<1>13. ASSUME NEW w \in Workers, TakeCase(w) \/ FailCase(w) \/ LeavePool(w) PROVE Reporting'
  BY <1>4, <1>13 DEF TakeCase, FailCase, LeavePool
<1>14. ASSUME NEW w \in Workers, WorkerStep(w) PROVE Reporting'
  BY <1>12, <1>13, <1>14 DEF WorkerStep
<1>. QED BY <1>7, <1>8, <1>9, <1>10, <1>11, <1>14 DEF Next, CallerStep, Rest

\* The choices stay, and a new one is made of what all the train cases came to.
LEMMA ChoosingKept ==
  ASSUME IInv, [Next]_vars
  PROVE  Choosing'
<1>. USE DEF planVars, callVars, poolVars, vars
<1>1. request' = request /\ (main # "compile" => plan' = plan) /\ chosen \in Seq([train : Nat, test : Nat])
      /\ job \in [Workers -> Nat] /\ at \in [Workers -> {"off", "idle", "running", "gone"}]
  BY PlanKept DEF IInv, Types
<1>2. \A k \in DOMAIN chosen : Choice(k)
  BY DEF IInv, Choosing
<1>3. ASSUME UNCHANGED <<chosen, truth, plan>> PROVE Choosing'
  <2>1. ASSUME NEW k, Choice(k) PROVE Choice(k)'
    <3>1. UNCHANGED <<request, chosen, truth, plan>>
      BY <1>1, <1>3
    <3>. QED BY <2>1, <3>1 DEF Choice, Ran, TrulyPasses, TrulyBefore, TrulyWorth, ConstraintsAt, RankingAt
  <2>. QED BY <1>2, <1>3, <2>1, SMTT(30) DEF Choosing
<1>4. ASSUME NEW how, Return(how), plan' = plan PROVE Choosing'
  BY <1>3, <1>4 DEF Return
<1>5. ASSUME NEW k, ToStage(k), UNCHANGED <<plan, chosen>> PROVE Choosing'
  <2>1. truth' = truth
    BY <1>5 DEF ToStage, StartPool
  <2>. QED BY <1>3, <1>5, <2>1
<1>6. CASE UNCHANGED vars
  BY <1>3, <1>6
<1>7. CASE Compile
  <2>1. chosen' = chosen
    BY <1>7 DEF Compile, Return
  <2>2. chosen = <<>>
    BY <1>7 DEF IInv, Stages, Compile
  <2>3. DOMAIN chosen' = {}
    BY <2>1, <2>2
  <2>. QED BY <2>3 DEF Choosing
<1>8. CASE ConcludePool
  <2>1. main = "wait" /\ AllGone /\ plan' = plan
    BY <1>1, <1>8 DEF ConcludePool
  <2>2. CASE Return(firstErr) \/ Return("canceled") \/ Return("failed") \/ Return("no case passed")
    BY <1>4, <2>1, <2>2
  <2>3. CASE ToStage(1) /\ UNCHANGED chosen
    BY <1>5, <2>1, <2>3
  <2>4. CASE /\ firstErr = "none" /\ ~(parentDone /\ results # <<>>)
             /\ \A i \in Passing(results) : HasObjective(results[i].metrics, RankingAt(stage))
             /\ stage # 0 /\ Passing(results) # {}
             /\ chosen' = Append(chosen, [train |-> Best(RankingAt(stage)),
                                          test |-> MatchingTestCase(plan.steps[stage], Best(RankingAt(stage)))])
             /\ main' = "test" /\ UNCHANGED <<stage, poolVars>>
    <3>. DEFINE best == Best(RankingAt(stage))
                step == plan.steps[stage]
                test == MatchingTestCase(step, best)
                choice == [train |-> best, test |-> test]
    <3>1. Complete /\ Types
      BY <2>1, <2>4, PoolIsComplete DEF IInv
    <3>2. /\ best \in DOMAIN step.train
          /\ \A i \in DOMAIN step.train : Ran(stage, i)
          /\ TrulyPasses(stage, best)
          /\ \A i \in DOMAIN step.train : i # best /\ TrulyPasses(stage, i) => TrulyBefore(stage, best, i)
          /\ step.test[test].parameters = step.train[best].parameters
          /\ stage \in 1..Len(plan.steps) /\ Len(plan.steps) \in Nat
          /\ best \in Nat /\ test \in Nat
      BY <2>4, <3>1, ChoiceMade
    <3>3. chosen' = Append(chosen, choice)
      BY <2>4
    <3>. HIDE DEF best, test
    <3>4. choice.train = best /\ choice.test = test /\ choice \in [train : Nat, test : Nat]
      BY <3>2
    <3>5. Len(chosen) + 1 = stage
      <4>1. Len(chosen) = (IF stage = 0 THEN 0 ELSE stage - 1)
        BY <2>1 DEF IInv, Stages, Working
      <4>. QED BY <2>4, <3>2, <4>1
    <3>. HIDE DEF choice
    <3>6. /\ DOMAIN chosen' = DOMAIN chosen \cup {stage}
          /\ chosen'[stage] = choice
          /\ \A k \in DOMAIN chosen : chosen'[k] = chosen[k]
      BY <1>1, <3>3, <3>4, <3>5
    <3>7. UNCHANGED <<truth, request, plan>>
      BY <1>1, <2>1, <2>4
    <3>8. ASSUME NEW k \in DOMAIN chosen PROVE Choice(k)'
      <4>1. Choice(k) /\ chosen'[k] = chosen[k]
        BY <1>2, <3>6
      <4>. QED BY <3>7, <4>1 DEF Choice, Ran, TrulyPasses, TrulyBefore, TrulyWorth, ConstraintsAt, RankingAt
    <3>9. ASSUME NEW k, k = stage PROVE Choice(k)'
      <4>1. PICK b \in Nat : b = best
        BY <3>2
      <4>2. chosen'[k].train = b /\ plan'.steps[k].test[chosen'[k].test].parameters = plan'.steps[k].train[b].parameters
            /\ b \in DOMAIN plan'.steps[k].train
        BY <3>2, <3>4, <3>6, <3>7, <3>9, <4>1
      <4>3. \A i \in DOMAIN plan'.steps[k].train : Ran(k, i)'
        BY <3>2, <3>7, <3>9 DEF Ran
      <4>4. TrulyPasses(k, b)'
        BY <3>2, <3>7, <3>9, <4>1 DEF TrulyPasses, ConstraintsAt
      <4>5. ASSUME NEW i \in DOMAIN plan'.steps[k].train, i # b, TrulyPasses(k, i)' PROVE TrulyBefore(k, b, i)'
        <5>1. TrulyPasses(k, i)
          BY <3>7, <4>5 DEF TrulyPasses, ConstraintsAt
        <5>2. TrulyBefore(k, b, i)
          BY <3>2, <3>7, <3>9, <4>1, <4>5, <5>1
        <5>. QED BY <3>7, <5>2 DEF TrulyBefore, TrulyWorth, RankingAt
      <4>. QED BY <4>2, <4>3, <4>4, <4>5 DEF Choice
    <3>. QED BY <3>6, <3>8, <3>9 DEF Choosing
  <2>5. CASE firstErr # "none" \/ (parentDone /\ results # <<>>)
    BY <1>8, <2>2, <2>5 DEF ConcludePool
  <2>6. CASE ~(firstErr # "none" \/ (parentDone /\ results # <<>>))
    <3>1. UseResults
      BY <1>8, <2>6 DEF ConcludePool
    <3>. QED BY <2>2, <2>3, <2>4, <2>6, <3>1 DEF UseResults
  <2>. QED BY <2>5, <2>6
<1>9. CASE RunTestCase
  <2>1. plan' = plan
    BY <1>9 DEF RunTestCase
  <2>2. CASE ToStage(stage + 1) /\ UNCHANGED callVars
    BY <1>5, <2>1, <2>2
  <2>3. CASE Return("failed") \/ Return("canceled")
    BY <1>4, <2>1, <2>3
  <2>. QED BY <1>9, <2>2, <2>3 DEF RunTestCase
<1>10. CASE CloseJobs \/ Save \/ CancelParent
  BY <1>3, <1>10 DEF CloseJobs, Save, CancelParent
<1>11. ASSUME NEW w \in Workers, FinishCase(w) PROVE Choosing'
  <2>1. PICK i \in Nat : i = job[w]
    BY <1>1
  <2>2. at[w] = "running" /\ UNCHANGED <<request, plan, chosen>>
    BY <1>11 DEF FinishCase
  <2>3. PICK o \in Outcomes(stage, CasesAt(stage)[i]) : Record(i, o, i)
    BY <1>11, <2>1 DEF FinishCase
  <2>4. Working
    BY <2>2 DEF IInv, Pool
  <2>5. stage \in 0..Len(plan.steps) /\ Len(plan.steps) \in Nat
    <3>1. plan \in Drafts(request) /\ stage \in 0..Len(plan.steps) /\ request \in Requests
      BY <2>4 DEF IInv, Stages, Working, Types
    <3>. QED BY <3>1, DraftsWellMade DEF WellMade
  <2>6. ASSUME NEW k \in DOMAIN chosen PROVE k # stage
    <3>1. Len(chosen) = (IF stage = 0 THEN 0 ELSE stage - 1)
      BY <2>4 DEF IInv, Stages
    <3>. QED BY <1>1, <2>5, <3>1
  <2>7. ASSUME NEW k \in DOMAIN chosen PROVE Choice(k)'
    <3>1. Choice(k) /\ k # stage
      BY <1>2, <2>6
    <3>. DEFINE best == chosen[k].train
                step == plan.steps[k]
    <3>2. \A j \in DOMAIN step.train : Ran(k, j)' /\ truth'[<<k, j>>] = truth[<<k, j>>]
      <4>1. ASSUME NEW j \in DOMAIN step.train PROVE Ran(k, j)' /\ truth'[<<k, j>>] = truth[<<k, j>>]
        <5>1. Ran(k, j) /\ <<k, j>> # <<stage, i>>
          BY <3>1 DEF Choice
        <5>. QED BY <2>3, <5>1, OthersStay
      <4>. QED BY <4>1
    <3>3. best \in DOMAIN step.train
      BY <3>1 DEF Choice
    <3>4. \A j \in DOMAIN step.train :
            /\ TrulyPasses(k, j)' = TrulyPasses(k, j)
            /\ TrulyBefore(k, best, j)' = TrulyBefore(k, best, j)
      BY <2>2, <3>2, <3>3 DEF TrulyPasses, TrulyBefore, TrulyWorth, ConstraintsAt, RankingAt
    <3>5. chosen'[k] = chosen[k] /\ plan'.steps[k] = step
      BY <2>2
    <3>6. best' = best
      BY <2>2
    <3>. QED BY <3>1, <3>2, <3>3, <3>4, <3>5, <3>6 DEF Choice
  <2>. QED BY <2>2, <2>7 DEF Choosing
<1>12. ASSUME NEW w \in Workers, TakeCase(w) \/ FailCase(w) \/ LeavePool(w) PROVE Choosing'
  BY <1>3, <1>12 DEF TakeCase, FailCase, LeavePool
<1>13. ASSUME NEW w \in Workers, WorkerStep(w) PROVE Choosing'
  BY <1>11, <1>12, <1>13 DEF WorkerStep
<1>. QED BY <1>6, <1>7, <1>8, <1>9, <1>10, <1>13 DEF Next, CallerStep, Rest

\* The invariant is inductive.
LEMMA InvariantKept == IInv /\ [Next]_vars => IInv'
<1>. SUFFICES ASSUME IInv, [Next]_vars PROVE IInv'
  OBVIOUS
<1>1. Types' /\ Stages' /\ Pool' /\ Choosing' /\ Reporting'
  BY TypesKept, StagesKept, PoolKept, ChoosingKept, ReportingKept
<1>2. Causes'
  BY CausesKept DEF IInv
<1>. QED BY <1>1, <1>2 DEF IInv

-----------------------------------------------------------------------------
(* The theorems                                                            *)

\* RunEvaluation keeps the invariant from its first step on, whoever is cancelled or fails.
THEOREM Invariance == Spec => []IInv
<1>1. Init => IInv
  BY Initially
<1>2. IInv /\ [Next]_vars => IInv'
  BY InvariantKept
<1>. QED BY <1>1, <1>2, PTL DEF Spec

\* The error of an evaluation is "canceled" only if its caller was: of the errors of the
\* cases setError keeps the first, never that of a case which this one has stopped.
THEOREM CauseIsRoot == Spec => []RootCause
<1>1. IInv => RootCause
  BY DEF IInv, Causes, RootCause
<1>. QED BY <1>1, Invariance, PTL

\* Each step of the walk-forward tests the parameters of the best of its train cases, ties
\* going to the id that is first as a string (case-10 before case-2), in whatever order
\* the workers finish (runWalkForward).
THEOREM BestIsChosen == Spec => []ChosenByTraining
<1>1. IInv => ChosenByTraining
  BY DEF IInv, Choosing, Choice, ChosenByTraining
<1>. QED BY <1>1, Invariance, PTL

\* Whatever plan CompileEvaluation makes, no test sees a day of its training, and periods
\* follow each other day by day (buildWalkForwardSteps, yearlyPeriods, rollingPeriods).
THEOREM TestsStayUnseen == Spec => []TestsAreUnseen
<1>1. ASSUME IInv PROVE TestsAreUnseen
  <2>1. request \in Requests /\ (plan = NoPlan \/ plan \in Drafts(request))
    BY <1>1 DEF IInv, Types
  <2>2. CASE plan = NoPlan
    <3>1. Len(plan.steps) = 0 /\ Len(plan.cases) = 0 /\ DOMAIN plan.cases = {}
      BY <2>2 DEF NoPlan
    <3>2. 1..Len(plan.steps) = {} /\ 1..(Len(plan.cases) - 1) = {}
      BY <3>1
    <3>. QED BY <3>1, <3>2 DEF TestsAreUnseen
  <2>3. CASE plan \in Drafts(request)
    <3>1. Unseen(request, plan)
      BY <2>1, <2>3, DraftsUnseen
    <3>. QED BY <3>1 DEF Unseen, TestsAreUnseen
  <2>. QED BY <2>1, <2>2, <2>3
<1>. QED BY <1>1, Invariance, PTL

\* Every case computes each metric that a ranking or a constraint reads of it, whatever
\* the document includes and excludes (evaluationWithRequiredMetricDependencies).
THEOREM MetricsAreComputed == Spec => []EveryMetricRead
<1>1. ASSUME IInv PROVE EveryMetricRead
  <2>1. request \in Requests /\ (plan = NoPlan \/ plan \in Drafts(request))
    BY <1>1 DEF IInv, Types
  <2>2. CASE plan = NoPlan
    <3>1. DOMAIN plan.cases = {} /\ DOMAIN plan.steps = {}
      BY <2>2 DEF NoPlan
    <3>. QED BY <3>1 DEF EveryMetricRead
  <2>3. CASE plan \in Drafts(request)
    <3>1. /\ ValidRequest(request)
          /\ \A i \in DOMAIN plan.cases : plan.cases[i].metrics = ReportedMetrics(request)
          /\ \A k \in DOMAIN plan.steps : \A i \in DOMAIN plan.steps[k].train :
               plan.steps[k].train[i].metrics = ReportedMetrics(request)
      BY <2>1, <2>3, CasesCompute
    <3>2. RequiredMetrics(request) \subseteq ReportedMetrics(request)
      BY <2>1, <3>1, ComputedIsReported
    <3>3. ASSUME NEW k PROVE MetricsRead(k) \subseteq ReportedMetrics(request)
      <4>1. \/ RankingAt(k) = request.ranking /\ ConstraintsAt(k) = request.constraints
            \/ RankingAt(k) = WalkForwardRanking(request) /\ ConstraintsAt(k) = WalkForwardConstraints(request)
        BY DEF RankingAt, ConstraintsAt
      <4>2. MetricsRead(k) \subseteq RequiredMetrics(request)
        BY <3>1, <4>1, ReadIsRequired DEF MetricsRead
      <4>. QED BY <3>2, <4>2
    <3>. QED BY <3>1, <3>3 DEF EveryMetricRead
  <2>. QED BY <2>1, <2>2, <2>3
<1>. QED BY <1>1, Invariance, PTL

\* The ranks and the regime split reported are those of what the cases came to, for any
\* number of cases and workers (applyRanks, BuildRegimeSplit).
THEOREM ReportIsTrue == Spec => []ReportFitsCases
<1>1. ASSUME IInv PROVE ReportFitsCases
  <2>. DEFINE cases == DOMAIN evaluated
              split == RegimeSplit(evaluated)
  <2>1. PICK n \in Nat : cases = 1..n
    BY <1>1 DEF IInv, Reporting
  <2>2. ASSUME NEW i \in cases
        PROVE  /\ evaluated[i].tags = truth[<<0, i>>].tags /\ evaluated[i].passed = TrulyPasses(0, i)
               /\ evaluated[i].rank \in Nat
               /\ (evaluated[i].rank > 0) = TrulyPasses(0, i)
               /\ TrulyPasses(0, i) => TrulyWorth(0, i) \in Int
    <3>1. ReportedCase(i)
      BY <1>1 DEF IInv, Reporting
    <3>2. TrulyPasses(0, i) \in BOOLEAN
      BY DEF TrulyPasses, PassesConstraints
    <3>. QED BY <3>1, <3>2 DEF ReportedCase
  <2>3. ASSUME NEW i \in cases, NEW j \in cases, TrulyPasses(0, i), TrulyPasses(0, j)
        PROVE  /\ i \in Nat /\ j \in Nat
               /\ (evaluated[i].rank < evaluated[j].rank) = (i # j /\ TrulyBefore(0, i, j))
               /\ i # j => evaluated[i].rank # evaluated[j].rank
    <3>. DEFINE a == evaluated[i].rank
                b == evaluated[j].rank
    <3>1. /\ a < b => TrulyBefore(0, i, j)
          /\ b < a => TrulyBefore(0, j, i)
          /\ i # j => a # b
      BY <1>1, <2>3 DEF IInv, Reporting, RankedBefore
    <3>2. a \in Nat /\ b \in Nat /\ TrulyWorth(0, i) \in Int /\ TrulyWorth(0, j) \in Int /\ i \in Nat /\ j \in Nat
      <4>1. a \in Nat /\ TrulyWorth(0, i) \in Int
        BY <2>2, <2>3
      <4>2. b \in Nat /\ TrulyWorth(0, j) \in Int
        BY <2>2, <2>3
      <4>3. i \in Nat /\ j \in Nat
        <5>1. i \in 1..n /\ j \in 1..n
          BY <2>1
        <5>. QED BY <5>1
      <4>. HIDE DEF a, b
      <4>. QED BY <4>1, <4>2, <4>3
    <3>3. i # j => ~(TrulyBefore(0, i, j) /\ TrulyBefore(0, j, i))
      <4>1. ~(IdBefore(i, j) /\ IdBefore(j, i))
        BY <3>2, IdsInOrder
      <4>. QED BY <3>2, <4>1 DEF TrulyBefore
    <3>. HIDE DEF a, b
    <3>4. a < b <=> (i # j /\ TrulyBefore(0, i, j))
      <4>1. CASE i = j
        <5>1. a = b
          BY <4>1 DEF a, b
        <5>. QED BY <3>2, <4>1, <5>1
      <4>2. CASE i # j
        BY <3>1, <3>2, <3>3, <4>2
      <4>. QED BY <4>1, <4>2
    <3>5. (a < b) \in BOOLEAN /\ (i # j /\ TrulyBefore(0, i, j)) \in BOOLEAN
      BY <3>2
    <3>6. (a < b) = (i # j /\ TrulyBefore(0, i, j))
      BY <3>4, <3>5
    <3>. QED BY <3>1, <3>2, <3>6 DEF a, b
  <2>4. ASSUME NEW tag \in DOMAIN split
        PROVE  LET mine   == {i \in cases : tag \in truth[<<0, i>>].tags}
                   passed == {i \in mine : TrulyPasses(0, i)}
                   best   == split[tag].best
               IN  /\ split[tag].cases = Cardinality(mine) /\ split[tag].passed = Cardinality(passed)
                   /\ best \in IF passed = {} THEN mine ELSE passed
                   /\ \A i \in passed : i = best \/ TrulyBefore(0, best, i)
    <3>. DEFINE mine   == {i \in cases : tag \in truth[<<0, i>>].tags}
                passed == {i \in mine : TrulyPasses(0, i)}
                tagged == {i \in cases : tag \in evaluated[i].tags}
                best   == BestTagged(evaluated, tag)
    <3>1. /\ split[tag] = [cases |-> Cardinality(tagged), passed |-> Cardinality(Passing(evaluated) \cap tagged), best |-> best]
          /\ tagged # {}
      BY DEF RegimeSplit, BestTagged
    <3>2. tagged = mine
      BY <2>2
    <3>3. Passing(evaluated) \cap tagged = passed
      BY <2>2, <3>2 DEF Passing
    <3>4. /\ best \in tagged
          /\ \A i \in tagged : evaluated[i].rank > 0 => evaluated[best].rank > 0 /\ evaluated[best].rank <= evaluated[i].rank
      <4>1. \A i \in 1..n : evaluated[i].rank \in Nat
        BY <2>1, <2>2
      <4>2. DOMAIN evaluated = 1..n /\ tagged = {i \in 1..n : tag \in evaluated[i].tags}
        BY <2>1
      <4>. HIDE DEF best
      <4>. QED BY <3>1, <4>1, <4>2, BestOfTag DEF best
    <3>. HIDE DEF best, split, tagged
    <3>5. ASSUME NEW i \in passed PROVE best \in passed /\ (i = best \/ TrulyBefore(0, best, i))
      <4>1. i \in cases /\ best \in cases /\ TrulyPasses(0, i) /\ best \in mine
        BY <3>2, <3>4, <3>5
      <4>2. evaluated[best].rank > 0 /\ evaluated[best].rank <= evaluated[i].rank
        BY <2>2, <3>2, <3>4, <3>5, <4>1
      <4>3. TrulyPasses(0, best)
        BY <2>2, <4>1, <4>2
      <4>4. CASE i # best
        <5>1. evaluated[best].rank < evaluated[i].rank
          BY <2>2, <2>3, <4>1, <4>2, <4>3, <4>4
        <5>. QED BY <2>3, <4>1, <4>3, <5>1
      <4>. QED BY <4>1, <4>3, <4>4
    <3>. HIDE DEF mine, passed
    <3>6. best \in IF passed = {} THEN mine ELSE passed
      BY <3>2, <3>4, <3>5
    <3>7. /\ split[tag].cases = Cardinality(mine) /\ split[tag].passed = Cardinality(passed)
          /\ split[tag].best = best
      BY <3>1, <3>2, <3>3
    <3>. QED BY <3>5, <3>6, <3>7 DEF mine, passed
  <2>. HIDE DEF split
  <2>. QED BY <2>2, <2>3, <2>4 DEF ReportFitsCases, split
<1>. QED BY <1>1, Invariance, PTL
=============================================================================

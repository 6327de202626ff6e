------------------------------ MODULE Induction ------------------------------
(***************************************************************************)
(* Lemmas by induction for the other proof modules. The induction theorems *)
(* of the library take a predicate as a parameter; here the predicate is a *)
(* set, the step of a recursion is a function, and induction itself is the *)
(* well-foundedness of < on Nat.                                           *)
(***************************************************************************)
EXTENDS Lists, FiniteSetTheorems, SequenceTheorems, WellFoundedInduction, TLAPS

\* A set that has 0 and with every number the next one has them all.
LEMMA SetInduction ==
  ASSUME NEW S, 0 \in S, \A n \in Nat : n \in S => n + 1 \in S
  PROVE  Nat \subseteq S
<1>. DEFINE T == Nat \ S
            R == OpToRel(<, Nat)
<1>1. SUFFICES ASSUME T # {} PROVE FALSE
  OBVIOUS
<1>2. PICK x \in T : \A y \in T : ~(<<y, x>> \in R)
  <2>1. IsWellFoundedOn(R, Nat)
    BY NatLessThanWellFounded
  <2>2. T \subseteq Nat
    OBVIOUS
  <2>. HIDE DEF R, T
  <2>. QED BY <1>1, <2>1, <2>2, WFMin
<1>3. \A y \in T : ~(y < x)
  BY <1>2 DEF OpToRel
<1>4. x # 0 /\ x - 1 \in Nat
  OBVIOUS
<1>5. x - 1 \in S
  BY <1>3, <1>4
<1>. QED BY <1>4, <1>5

\* What `step` leads to from `base`, one step after the other.
Recursions(N, S, base, step) ==
  {f \in [0..N -> S] : f[0] = base /\ \A n \in 1..N : f[n] = step[n][f[n - 1]]}

\* A recursion whose steps stay in a set has its values in that set.
LEMMA RecursionExists ==
  ASSUME NEW N \in Nat, NEW S, NEW base \in S, NEW step \in [1..N -> [S -> S]]
  PROVE  Recursions(N, S, base, step) # {}
<1>. DEFINE Upto(k) == \E f \in [0..k -> S] : f[0] = base /\ \A n \in 1..k : f[n] = step[n][f[n - 1]]
            K == {k \in Nat : k <= N => Upto(k)}
<1>1. 0 \in K
  <2>1. Upto(0)
    <3>. DEFINE g == [n \in 0..0 |-> base]
    <3>1. g \in [0..0 -> S] /\ g[0] = base
      OBVIOUS
    <3>2. \A n \in 1..0 : g[n] = step[n][g[n - 1]]
      OBVIOUS
    <3>. QED BY <3>1, <3>2
  <2>. QED BY <2>1
<1>2. ASSUME NEW k \in Nat, k \in K PROVE k + 1 \in K
  <2>1. SUFFICES ASSUME k + 1 <= N PROVE Upto(k + 1)
    OBVIOUS
  <2>2. PICK f \in [0..k -> S] : f[0] = base /\ \A n \in 1..k : f[n] = step[n][f[n - 1]]
    BY <1>2, <2>1
  <2>. DEFINE g == [n \in 0..(k + 1) |-> IF n = k + 1 THEN step[k + 1][f[k]] ELSE f[n]]
  <2>3. step[k + 1][f[k]] \in S
    <3>1. k + 1 \in 1..N /\ f[k] \in S
      BY <2>1, <2>2
    <3>. QED BY <3>1
  <2>4. g \in [0..(k + 1) -> S] /\ g[0] = base
    BY <2>2, <2>3
  <2>5. ASSUME NEW n \in 1..(k + 1) PROVE g[n] = step[n][g[n - 1]]
    <3>1. g[n - 1] = f[n - 1]
      OBVIOUS
    <3>2. CASE n = k + 1
      BY <3>1, <3>2
    <3>3. CASE n \in 1..k
      <4>1. g[n] = f[n]
        BY <3>3
      <4>. QED BY <2>2, <3>1, <3>3, <4>1
    <3>. QED BY <3>2, <3>3
  <2>. HIDE DEF g
  <2>. QED BY <2>4, <2>5
<1>. HIDE DEF K
<1>3. Nat \subseteq K
  BY <1>1, <1>2, SetInduction
<1>. USE DEF K
<1>4. Upto(N)
  BY <1>3
<1>. QED BY <1>4 DEF Recursions

\* FlattenSeq is what its recursion says: it grows by one sequence after the other.
LEMMA FlattenPrefixes ==
  ASSUME NEW X, NEW ss \in Seq(Seq(X))
  PROVE  \E g \in [0..Len(ss) -> Seq(X)] :
           /\ g[0] = <<>>
           /\ \A n \in 1..Len(ss) : g[n] = g[n - 1] \o ss[n]
           /\ FlattenSeq(ss) = g[Len(ss)]
<1>. DEFINE N == Len(ss)
            step == [n \in 1..N |-> [s \in Seq(X) |-> s \o ss[n]]]
<1>1. N \in Nat /\ <<>> \in Seq(X) /\ \A n \in 1..N : ss[n] \in Seq(X)
  OBVIOUS
<1>2. step \in [1..N -> [Seq(X) -> Seq(X)]]
  BY <1>1
<1>3. PICK g \in [0..N -> Seq(X)] : g[0] = <<>> /\ \A n \in 1..N : g[n] = step[n][g[n - 1]]
  <2>. DEFINE S == Seq(X)
              base == <<>>
  <2>1. N \in Nat /\ base \in S /\ step \in [1..N -> [S -> S]]
    BY <1>1, <1>2
  <2>. HIDE DEF step, N, S, base
  <2>2. Recursions(N, S, base, step) # {}
    BY <2>1, RecursionExists
  <2>. QED BY <2>2 DEF S, base, Recursions
<1>4. ASSUME NEW n \in 1..N PROVE g[n] = g[n - 1] \o ss[n]
  <2>1. g[n - 1] \in Seq(X)
    <3>. HIDE DEF N, step
    <3>. QED BY <1>1, <1>3
  <2>2. step[n][g[n - 1]] = g[n - 1] \o ss[n]
    BY <2>1
  <2>. QED BY <1>3, <2>2
<1>5. CASE N = 0
  BY <1>3, <1>5 DEF FlattenSeq
<1>6. CASE N > 0
  <2>. DEFINE P(f) == f = [i \in 1..Len(ss) |-> IF i = 1 THEN ss[i] ELSE f[i - 1] \o ss[i]]
              h == [i \in 1..N |-> g[i]]
              c == CHOOSE f : P(f)
  <2>1. P(h)
    <3>1. g[1] = ss[1]
      <4>1. ss[1] \in Seq(X) /\ 1 \in 1..N
        BY <1>1, <1>6
      <4>2. g[1] = g[0] \o ss[1]
        <5>1. g[1] = g[1 - 1] \o ss[1]
          BY <1>4, <4>1
        <5>2. 1 - 1 = 0
          OBVIOUS
        <5>. QED BY <5>1, <5>2
      <4>3. <<>> \o ss[1] = ss[1]
        BY <4>1
      <4>. QED BY <1>3, <4>2, <4>3
    <3>2. \A i \in 1..N : h[i] = IF i = 1 THEN ss[i] ELSE h[i - 1] \o ss[i]
      <4>1. ASSUME NEW i \in 1..N PROVE h[i] = IF i = 1 THEN ss[i] ELSE h[i - 1] \o ss[i]
        <5>1. CASE i = 1
          BY <3>1, <5>1
        <5>2. CASE i # 1
          <6>1. h[i] = g[i] /\ h[i - 1] = g[i - 1]
            BY <1>1, <5>2
          <6>. QED BY <1>4, <5>2, <6>1
        <5>. QED BY <5>1, <5>2
      <4>. QED BY <4>1
    <3>. QED BY <3>2
  <2>2. P(c)
    <3>. HIDE DEF P
    <3>. QED BY <2>1
  <2>3. FlattenSeq(ss) = c[N]
    BY <1>6 DEF FlattenSeq
  <2>. DEFINE K == {k \in Nat : k + 1 <= N => c[k + 1] = h[k + 1]}
  <2>. HIDE DEF c
  <2>4. \A i \in 1..N : c[i] = IF i = 1 THEN ss[i] ELSE c[i - 1] \o ss[i]
    BY <2>2
  <2>5. \A i \in 1..N : h[i] = IF i = 1 THEN ss[i] ELSE h[i - 1] \o ss[i]
    BY <2>1
  <2>. HIDE DEF h
  <2>6. 0 \in K
    BY <1>6, <2>4, <2>5
  <2>7. ASSUME NEW k \in Nat, k \in K PROVE k + 1 \in K
    BY <1>1, <2>4, <2>5, <2>7
  <2>8. Nat \subseteq K
    <3>. HIDE DEF K
    <3>. QED BY <2>6, <2>7, SetInduction
  <2>9. c[N] = h[N]
    <3>1. N - 1 \in Nat /\ (N - 1) + 1 = N
      BY <1>1, <1>6
    <3>2. N - 1 \in K
      BY <2>8, <3>1
    <3>. QED BY <3>1, <3>2
  <2>10. h[N] = g[N]
    BY <1>1, <1>6 DEF h
  <2>. QED BY <1>3, <1>4, <2>3, <2>9, <2>10
<1>7. N = 0 \/ N > 0
  BY <1>1
<1>. QED BY <1>5, <1>6, <1>7

\* Picked takes its elements from the given indexes, each once and in their order, and
\* leaves none out.
LEMMA PickedElements ==
  ASSUME NEW X, NEW s \in Seq(X), NEW indexes
  PROVE  /\ Picked(s, indexes) \in Seq(X)
         /\ \E e \in [DOMAIN Picked(s, indexes) -> DOMAIN s] :
              /\ \A m \in DOMAIN Picked(s, indexes) : e[m] \in indexes /\ Picked(s, indexes)[m] = s[e[m]]
              /\ \A m, n \in DOMAIN Picked(s, indexes) : m < n => e[m] < e[n]
              /\ \A i \in DOMAIN s : i \in indexes => \E m \in DOMAIN Picked(s, indexes) : e[m] = i
<1>. DEFINE ss == [i \in DOMAIN s |-> IF i \in indexes THEN <<s[i]>> ELSE <<>>]
            From(t, e, k) ==
              /\ e \in [1..Len(t) -> 1..k]
              /\ \A m \in 1..Len(t) : e[m] \in indexes /\ t[m] = s[e[m]]
              /\ \A m, n \in 1..Len(t) : m < n => e[m] < e[n]
              /\ \A i \in 1..k : i \in indexes => \E m \in 1..Len(t) : e[m] = i
<1>1. ss \in Seq(Seq(X)) /\ Len(ss) = Len(s) /\ Len(s) \in Nat
  <2>1. DOMAIN s = 1..Len(s) /\ Len(s) \in Nat
    OBVIOUS
  <2>2. \A i \in DOMAIN s : ss[i] \in Seq(X)
    OBVIOUS
  <2>3. ss \in [1..Len(s) -> Seq(X)]
    BY <2>1, <2>2
  <2>. HIDE DEF ss
  <2>. QED BY <2>1, <2>3
<1>2. PICK g \in [0..Len(ss) -> Seq(X)] :
           /\ g[0] = <<>>
           /\ \A n \in 1..Len(ss) : g[n] = g[n - 1] \o ss[n]
           /\ FlattenSeq(ss) = g[Len(ss)]
  <2>. HIDE DEF ss
  <2>. QED BY <1>1, FlattenPrefixes
<1>. DEFINE K == {k \in Nat : k <= Len(s) => \E e : From(g[k], e, k)}
<1>3. 0 \in K
  <2>1. From(<<>>, [m \in 1..0 |-> m], 0)
    <3>1. Len(<<>>) = 0 /\ [m \in 1..0 |-> m] \in [1..0 -> 1..0] /\ 1..0 = {}
      OBVIOUS
    <3>. QED BY <3>1
  <2>. HIDE DEF From
  <2>2. From(g[0], [m \in 1..0 |-> m], 0)
    BY <1>2, <2>1
  <2>. QED BY <2>2
<1>4. ASSUME NEW k \in Nat, k \in K PROVE k + 1 \in K
  <2>1. SUFFICES ASSUME k + 1 <= Len(s) PROVE \E e : From(g[k + 1], e, k + 1)
    <3>. HIDE DEF From
    <3>. QED OBVIOUS
  <2>2. PICK e : From(g[k], e, k)
    <3>. HIDE DEF From
    <3>1. k <= Len(s)
      BY <1>1, <2>1
    <3>. QED BY <1>4, <3>1
  <2>3. g[k] \in Seq(X) /\ g[k + 1] = g[k] \o ss[k + 1] /\ s[k + 1] \in X /\ k + 1 \in DOMAIN s
    <3>1. k \in 0..Len(ss) /\ k + 1 \in 1..Len(ss) /\ (k + 1) - 1 = k
      BY <1>1, <2>1
    <3>2. s[k + 1] \in X /\ k + 1 \in DOMAIN s
      BY <2>1
    <3>3. g[k] \in Seq(X)
      BY <1>2, <3>1
    <3>4. g[k + 1] = g[(k + 1) - 1] \o ss[k + 1]
      <4>. HIDE DEF ss
      <4>. QED BY <1>2, <3>1
    <3>. HIDE DEF ss
    <3>. QED BY <3>1, <3>2, <3>3, <3>4
  <2>4. CASE k + 1 \notin indexes
    <3>1. g[k + 1] = g[k]
      BY <2>3, <2>4
    <3>2. From(g[k], e, k + 1)
      <4>. DEFINE t == g[k]
      <4>1. From(t, e, k) /\ Len(t) \in Nat
        <5>. HIDE DEF From
        <5>1. From(t, e, k)
          BY <2>2
        <5>2. t \in Seq(X)
          BY <2>3
        <5>. QED BY <5>1, <5>2
      <4>. HIDE DEF t
      <4>2. e \in [1..Len(t) -> 1..(k + 1)]
        BY <4>1
      <4>3. \A i \in 1..(k + 1) : i \in indexes => \E m \in 1..Len(t) : e[m] = i
        BY <2>4, <4>1
      <4>4. From(t, e, k + 1)
        BY <4>1, <4>2, <4>3
      <4>. QED BY <4>4 DEF t
    <3>. HIDE DEF From
    <3>. QED BY <3>1, <3>2
  <2>5. CASE k + 1 \in indexes
    <3>. DEFINE t == g[k]
                f == [m \in 1..(Len(t) + 1) |-> IF m = Len(t) + 1 THEN k + 1 ELSE e[m]]
    <3>1. t \in Seq(X) /\ g[k + 1] = Append(t, s[k + 1])
      BY <2>3, <2>5
    <3>. HIDE DEF t
    <3>2. /\ Len(t) \in Nat /\ Len(Append(t, s[k + 1])) = Len(t) + 1
          /\ \A m \in 1..Len(t) : Append(t, s[k + 1])[m] = t[m]
          /\ Append(t, s[k + 1])[Len(t) + 1] = s[k + 1]
      BY <2>3, <3>1
    <3>3. From(t, e, k)
      BY <2>2 DEF t
    <3>4. From(Append(t, s[k + 1]), f, k + 1)
      <4>1. f \in [1..(Len(t) + 1) -> 1..(k + 1)]
        BY <3>2, <3>3
      <4>2. \A m \in 1..(Len(t) + 1) : f[m] \in indexes /\ Append(t, s[k + 1])[m] = s[f[m]]
        BY <2>5, <3>2, <3>3
      <4>3. ASSUME NEW m \in 1..(Len(t) + 1), NEW n \in 1..(Len(t) + 1), m < n PROVE f[m] < f[n]
        <5>1. m \in 1..Len(t) /\ f[m] = e[m] /\ e[m] \in 1..k
          BY <3>2, <3>3, <4>3
        <5>2. CASE n = Len(t) + 1
          BY <5>1, <5>2
        <5>3. CASE n \in 1..Len(t)
          BY <3>3, <4>3, <5>1, <5>3
        <5>. QED BY <3>2, <5>2, <5>3
      <4>4. ASSUME NEW i \in 1..(k + 1), i \in indexes PROVE \E m \in 1..(Len(t) + 1) : f[m] = i
        <5>1. CASE i = k + 1
          <6>1. Len(t) + 1 \in 1..(Len(t) + 1) /\ f[Len(t) + 1] = k + 1
            BY <3>2
          <6>. QED BY <5>1, <6>1
        <5>2. CASE i \in 1..k
          <6>1. PICK m \in 1..Len(t) : e[m] = i
            BY <3>3, <4>4, <5>2
          <6>2. m \in 1..(Len(t) + 1) /\ f[m] = e[m]
            BY <3>2
          <6>. QED BY <6>1, <6>2
        <5>. QED BY <5>1, <5>2
      <4>. HIDE DEF f
      <4>. QED BY <3>2, <4>1, <4>2, <4>3, <4>4
    <3>. HIDE DEF From, f
    <3>. QED BY <3>1, <3>4
  <2>. QED BY <2>4, <2>5
<1>5. Len(s) \in K
  <2>1. Nat \subseteq K
    <3>. HIDE DEF K
    <3>. QED BY <1>3, <1>4, SetInduction
  <2>. HIDE DEF K
  <2>. QED BY <1>1, <2>1
<1>6. PICK e : From(g[Len(s)], e, Len(s))
  <2>. HIDE DEF From
  <2>1. Len(s) <= Len(s)
    BY <1>1
  <2>. QED BY <1>5, <2>1
<1>7. Picked(s, indexes) = g[Len(s)]
  BY <1>1, <1>2 DEF Picked
<1>8. g[Len(s)] \in Seq(X)
  BY <1>1, <1>2
<1>. DEFINE t == g[Len(s)]
<1>9. DOMAIN t = 1..Len(t) /\ DOMAIN s = 1..Len(s)
  BY <1>8
<1>10. From(t, e, Len(s))
  BY <1>6
<1>. HIDE DEF ss, t
<1>11. e \in [DOMAIN t -> DOMAIN s]
  BY <1>9, <1>10
<1>12. \A i \in DOMAIN s : i \in indexes => \E m \in DOMAIN t : e[m] = i
  BY <1>9, <1>10
<1>13. Picked(s, indexes) = t /\ t \in Seq(X)
  BY <1>7, <1>8 DEF t
<1>14. \A m \in DOMAIN t : e[m] \in indexes /\ t[m] = s[e[m]]
  BY <1>9, <1>10
<1>15. \A m, n \in DOMAIN t : m < n => e[m] < e[n]
  BY <1>9, <1>10
<1>. HIDE DEF From
<1>. QED BY <1>11, <1>12, <1>13, <1>14, <1>15

\* Numbers below a bound have a greatest one.
LEMMA GreatestExists ==
  ASSUME NEW b \in Nat, NEW T \in SUBSET (0..b), T # {}
  PROVE  \E x \in T : \A y \in T : x >= y
<1>. DEFINE K == {k \in Nat : \A S \in SUBSET (0..k) : S # {} => \E x \in S : \A y \in S : x >= y}
<1>1. 0 \in K
  <2>1. ASSUME NEW S \in SUBSET (0..0), S # {} PROVE \E x \in S : \A y \in S : x >= y
    <3>1. \A x \in S : x = 0
      OBVIOUS
    <3>2. 0 \in S
      BY <2>1, <3>1
    <3>. QED BY <3>1, <3>2
  <2>. QED BY <2>1
<1>2. ASSUME NEW k \in Nat, k \in K PROVE k + 1 \in K
  <2>1. ASSUME NEW S \in SUBSET (0..(k + 1)), S # {}
        PROVE  \E x \in S : \A y \in S : x >= y
    <3>1. CASE k + 1 \in S
      BY <3>1
    <3>2. CASE k + 1 \notin S
      <4>1. S \in SUBSET (0..k)
        BY <3>2
      <4>. QED BY <1>2, <2>1, <4>1
    <3>. QED BY <3>1, <3>2
  <2>. QED BY <2>1
<1>3. Nat \subseteq K
  <2>. HIDE DEF K
  <2>. QED BY <1>1, <1>2, SetInduction
<1>. QED BY <1>3

\* Some numbers have a least one.
LEMMA LeastExists ==
  ASSUME NEW T \in SUBSET Nat, T # {}
  PROVE  \E x \in T : \A y \in T : x <= y
<1>. DEFINE R == OpToRel(<, Nat)
<1>1. PICK x \in T : \A y \in T : ~(<<y, x>> \in R)
  <2>1. IsWellFoundedOn(R, Nat)
    BY NatLessThanWellFounded
  <2>. HIDE DEF R
  <2>. QED BY <2>1, WFMin
<1>2. \A y \in T : ~(y < x)
  BY <1>1 DEF OpToRel
<1>. QED BY <1>2

-----------------------------------------------------------------------------
(* Orders. A relation is a set of pairs.                                   *)

StrictOrder(R, S) ==
  /\ \A x \in S : <<x, x>> \notin R
  /\ \A x, y, z \in S : <<x, y>> \in R /\ <<y, z>> \in R => <<x, z>> \in R
  /\ \A x, y \in S : x # y => <<x, y>> \in R \/ <<y, x>> \in R

\* A finite set has a last element in any order of it.
LEMMA LastExists ==
  ASSUME NEW S, NEW R, StrictOrder(R, S), NEW T \in SUBSET S, IsFiniteSet(T), T # {}
  PROVE  \E x \in T : \A y \in T \ {x} : <<y, x>> \in R
<1>. DEFINE HasLast(U) == \E x \in U : \A y \in U \ {x} : <<y, x>> \in R
            K == {k \in Nat : \A U \in SUBSET S : IsFiniteSet(U) /\ Cardinality(U) = k + 1 => HasLast(U)}
<1>1. 0 \in K
  <2>1. ASSUME NEW U \in SUBSET S, IsFiniteSet(U), Cardinality(U) = 0 + 1 PROVE HasLast(U)
    <3>1. PICK x : U = {x}
      <4>1. Cardinality(U) = 1
        BY <2>1
      <4>. QED BY <2>1, <4>1, FS_Singleton
    <3>. QED BY <3>1
  <2>. QED BY <2>1
<1>2. ASSUME NEW k \in Nat, k \in K PROVE k + 1 \in K
  <2>1. ASSUME NEW U \in SUBSET S, IsFiniteSet(U), Cardinality(U) = (k + 1) + 1 PROVE HasLast(U)
    <3>1. PICK u : u \in U
      BY <2>1, FS_EmptySet
    <3>. DEFINE V == U \ {u}
    <3>2. V \in SUBSET S /\ IsFiniteSet(V) /\ Cardinality(V) = k + 1
      BY <2>1, <3>1, FS_RemoveElement
    <3>3. PICK x \in V : \A y \in V \ {x} : <<y, x>> \in R
      BY <1>2, <3>2
    <3>4. CASE <<u, x>> \in R
      <4>1. \A y \in U \ {x} : <<y, x>> \in R
        BY <3>3, <3>4
      <4>. QED BY <3>3, <4>1
    <3>5. CASE <<x, u>> \in R
      <4>1. \A y \in U \ {u} : <<y, u>> \in R
        BY <3>1, <3>3, <3>5 DEF StrictOrder
      <4>. QED BY <3>1, <4>1
    <3>6. <<u, x>> \in R \/ <<x, u>> \in R
      BY <3>1, <3>3 DEF StrictOrder
    <3>. QED BY <3>4, <3>5, <3>6
  <2>. HIDE DEF HasLast
  <2>. QED BY <2>1
<1>3. Nat \subseteq K
  <2>. HIDE DEF K
  <2>. QED BY <1>1, <1>2, SetInduction
<1>4. Cardinality(T) \in Nat /\ Cardinality(T) # 0
  BY FS_CardinalityType, FS_EmptySet
<1>. DEFINE n == Cardinality(T) - 1
<1>5. n \in Nat /\ Cardinality(T) = n + 1
  BY <1>4
<1>. HIDE DEF n, HasLast
<1>6. HasLast(T)
  BY <1>3, <1>5
<1>. QED BY <1>6 DEF HasLast

\* The sequences that list S in the order R.
Orderings(S, R) ==
  {s \in [1..Cardinality(S) -> S] :
     /\ \A i, j \in 1..Cardinality(S) : i # j => s[i] # s[j]
     /\ \A i, j \in 1..Cardinality(S) : i < j => <<s[i], s[j]>> \in R}

\* A finite set can be sorted.
LEMMA SortExists ==
  ASSUME NEW S, IsFiniteSet(S), NEW R, StrictOrder(R, S)
  PROVE  Orderings(S, R) # {}
<1>. DEFINE K == {k \in Nat : \A U \in SUBSET S :
                    IsFiniteSet(U) /\ Cardinality(U) = k => Orderings(U, R) # {}}
<1>1. 0 \in K
  <2>1. ASSUME NEW U \in SUBSET S, IsFiniteSet(U), Cardinality(U) = 0 PROVE Orderings(U, R) # {}
    <3>. DEFINE s == [i \in 1..0 |-> 0]
    <3>1. s \in [1..0 -> U] /\ 1..0 = {}
      OBVIOUS
    <3>2. s \in Orderings(U, R)
      <4>. HIDE DEF s
      <4>. QED BY <2>1, <3>1 DEF Orderings
    <3>. QED BY <3>2
  <2>. QED BY <2>1
<1>2. ASSUME NEW k \in Nat, k \in K PROVE k + 1 \in K
  <2>1. ASSUME NEW U \in SUBSET S, IsFiniteSet(U), Cardinality(U) = k + 1 PROVE Orderings(U, R) # {}
    <3>1. U # {}
      BY <2>1, FS_EmptySet
    <3>2. PICK x \in U : \A y \in U \ {x} : <<y, x>> \in R
      BY <2>1, <3>1, LastExists
    <3>. DEFINE V == U \ {x}
    <3>3. V \in SUBSET S /\ IsFiniteSet(V) /\ Cardinality(V) = k
      <4>1. IsFiniteSet(V) /\ Cardinality(V) = Cardinality(U) - 1
        BY <2>1, <3>2, FS_RemoveElement
      <4>. QED BY <2>1, <4>1
    <3>4. PICK s : s \in Orderings(V, R)
      BY <1>2, <3>3
    <3>5. /\ s \in [1..k -> V]
          /\ \A i, j \in 1..k : i # j => s[i] # s[j]
          /\ \A i, j \in 1..k : i < j => <<s[i], s[j]>> \in R
      BY <3>3, <3>4 DEF Orderings
    <3>. DEFINE t == [i \in 1..(k + 1) |-> IF i = k + 1 THEN x ELSE s[i]]
    <3>6. \A i \in 1..(k + 1) :
            (i = k + 1 /\ t[i] = x) \/ (i \in 1..k /\ t[i] = s[i] /\ t[i] \in V)
      <4>1. ASSUME NEW i \in 1..(k + 1)
            PROVE  (i = k + 1 /\ t[i] = x) \/ (i \in 1..k /\ t[i] = s[i] /\ t[i] \in V)
        <5>1. CASE i = k + 1
          BY <5>1
        <5>2. CASE i # k + 1
          <6>1. i \in 1..k /\ t[i] = s[i]
            BY <5>2
          <6>2. s[i] \in V
            <7>. HIDE DEF V, t
            <7>. QED BY <3>5, <6>1
          <6>. QED BY <6>1, <6>2
        <5>. QED BY <5>1, <5>2
      <4>. HIDE DEF t
      <4>. QED BY <4>1
    <3>7. t \in [1..(k + 1) -> U]
      BY <3>2, <3>6
    <3>. HIDE DEF t
    <3>8. ASSUME NEW i \in 1..(k + 1), NEW j \in 1..(k + 1), i < j PROVE t[i] # t[j] /\ <<t[i], t[j]>> \in R
      <4>1. i \in 1..k /\ t[i] = s[i] /\ t[i] \in V
        BY <3>6, <3>8
      <4>2. CASE j = k + 1
        BY <3>2, <3>6, <4>1, <4>2
      <4>3. CASE j \in 1..k
        <5>1. t[j] = s[j]
          BY <3>6, <4>3
        <5>. QED BY <3>5, <3>8, <4>1, <4>3, <5>1
      <4>. QED BY <4>2, <4>3
    <3>9. \A i, j \in 1..(k + 1) : i # j => t[i] # t[j]
      <4>1. ASSUME NEW i \in 1..(k + 1), NEW j \in 1..(k + 1), i # j PROVE t[i] # t[j]
        <5>1. i < j \/ j < i
          BY <4>1
        <5>. QED BY <3>8, <5>1
      <4>. QED BY <4>1
    <3>10. t \in Orderings(U, R)
      BY <2>1, <3>7, <3>8, <3>9 DEF Orderings
    <3>. QED BY <3>10
  <2>. QED BY <2>1
<1>3. Nat \subseteq K
  <2>. HIDE DEF K
  <2>. QED BY <1>1, <1>2, SetInduction
<1>4. Cardinality(S) \in Nat
  BY FS_CardinalityType
<1>. QED BY <1>3, <1>4

\* A sequence that lists a finite set has every element of it.
LEMMA OrderingsCover ==
  ASSUME NEW S, IsFiniteSet(S), NEW s \in [1..Cardinality(S) -> S],
         \A i, j \in 1..Cardinality(S) : i # j => s[i] # s[j]
  PROVE  \A x \in S : \E i \in 1..Cardinality(S) : s[i] = x
<1>. DEFINE n == Cardinality(S)
<1>1. n \in Nat
  BY FS_CardinalityType
<1>2. IsFiniteSet(1..n) /\ Cardinality(1..n) = n
  BY <1>1, FS_Interval
<1>3. s \in Injection(1..n, S)
  BY DEF Injection, IsInjective
<1>4. s \in Surjection(1..n, S)
  <2>. HIDE DEF n
  <2>1. Cardinality(1..n) = Cardinality(S)
    BY <1>2 DEF n
  <2>. QED BY <1>3, <2>1, FS_Injection
<1>. QED BY <1>4 DEF Surjection

-----------------------------------------------------------------------------
(* Recursions over the subsets of a finite set                             *)

\* If a set is good as soon as some set with one element less is, then all are.
LEMMA SubsetInduction ==
  ASSUME NEW S, IsFiniteSet(S), NEW G, {} \in G,
         \A T \in SUBSET S : T # {} => \E x \in T : T \ {x} \in G => T \in G
  PROVE  S \in G
<1>. DEFINE K == {k \in Nat : \A T \in SUBSET S : IsFiniteSet(T) /\ Cardinality(T) = k => T \in G}
<1>1. 0 \in K
  BY FS_EmptySet
<1>2. ASSUME NEW k \in Nat, k \in K PROVE k + 1 \in K
  <2>1. ASSUME NEW T \in SUBSET S, IsFiniteSet(T), Cardinality(T) = k + 1 PROVE T \in G
    <3>1. T # {}
      BY <2>1, FS_EmptySet
    <3>2. PICK x \in T : T \ {x} \in G => T \in G
      BY <3>1
    <3>. DEFINE U == T \ {x}
    <3>3. IsFiniteSet(U) /\ Cardinality(U) = Cardinality(T) - 1
      BY <2>1, FS_RemoveElement
    <3>4. Cardinality(U) = k
      BY <2>1, <3>3
    <3>. QED BY <1>2, <3>2, <3>3, <3>4
  <2>. QED BY <2>1
<1>3. Nat \subseteq K
  <2>. HIDE DEF K
  <2>. QED BY <1>1, <1>2, SetInduction
<1>4. Cardinality(S) \in Nat
  BY FS_CardinalityType
<1>. QED BY <1>3, <1>4

\* What `step` makes of a set: it takes one element after the other, as `pick` says.
SetRecursions(S, V, base, pick, step) ==
  {f \in [SUBSET S -> V] :
     \A T \in SUBSET S : f[T] = IF T = {} THEN base ELSE step[pick[T]][f[T \ {pick[T]}]]}

\* Such a recursion has its values where its steps stay.
LEMMA SetRecursionExists ==
  ASSUME NEW S, IsFiniteSet(S), NEW V, NEW base \in V, NEW step \in [S -> [V -> V]],
         NEW pick, \A T \in SUBSET S : T # {} => pick[T] \in T
  PROVE  SetRecursions(S, V, base, pick, step) # {}
<1>. DEFINE Eq(f, T) == f[T] = IF T = {} THEN base ELSE step[pick[T]][f[T \ {pick[T]}]]
            Small(k) == {T \in SUBSET S : T = {} \/ (IsFiniteSet(T) /\ Cardinality(T) <= k)}
            K == {k \in Nat : \E f \in [SUBSET S -> V] : \A T \in Small(k) : Eq(f, T)}
<1>1. 0 \in K
  <2>. DEFINE f == [T \in SUBSET S |-> base]
  <2>1. f \in [SUBSET S -> V]
    OBVIOUS
  <2>2. ASSUME NEW T \in Small(0) PROVE Eq(f, T)
    <3>1. T = {}
      <4>1. CASE IsFiniteSet(T) /\ Cardinality(T) <= 0
        <5>1. Cardinality(T) = 0
          BY <4>1, FS_CardinalityType
        <5>. QED BY <4>1, <5>1, FS_EmptySet
      <4>. QED BY <4>1
    <3>2. f[T] = base
      OBVIOUS
    <3>. QED BY <3>1, <3>2
  <2>. HIDE DEF f, Eq, Small
  <2>. QED BY <2>1, <2>2
<1>2. ASSUME NEW k \in Nat, k \in K PROVE k + 1 \in K
  <2>1. PICK f \in [SUBSET S -> V] : \A T \in Small(k) : Eq(f, T)
    BY <1>2
  <2>. DEFINE g == [T \in SUBSET S |-> IF T = {} THEN base ELSE step[pick[T]][f[T \ {pick[T]}]]]
  <2>2. g \in [SUBSET S -> V]
    <3>1. ASSUME NEW T \in SUBSET S, T # {} PROVE step[pick[T]][f[T \ {pick[T]}]] \in V
      <4>1. pick[T] \in S /\ f[T \ {pick[T]}] \in V
        BY <3>1
      <4>. QED BY <4>1
    <3>. QED BY <3>1
  <2>3. \A T \in Small(k) : g[T] = f[T]
    BY <2>1
  <2>4. ASSUME NEW T \in Small(k + 1) PROVE Eq(g, T)
    <3>1. CASE T = {}
      BY <3>1
    <3>2. CASE T # {}
      <4>. DEFINE U == T \ {pick[T]}
      <4>1. IsFiniteSet(T) /\ Cardinality(T) <= k + 1 /\ pick[T] \in T /\ Cardinality(T) \in Nat
        BY <3>2, FS_CardinalityType
      <4>2. IsFiniteSet(U) /\ Cardinality(U) = Cardinality(T) - 1
        <5>. DEFINE x == pick[T]
        <5>1. x \in T
          BY <4>1
        <5>. HIDE DEF x
        <5>2. IsFiniteSet(T \ {x}) /\ Cardinality(T \ {x}) = Cardinality(T) - 1
          BY <4>1, <5>1, FS_RemoveElement
        <5>. QED BY <5>2 DEF x
      <4>3. Cardinality(U) <= k
        BY <4>1, <4>2
      <4>4. U \in Small(k)
        BY <4>2, <4>3
      <4>5. g[U] = f[U]
        BY <2>3, <4>4
      <4>6. g[T] = step[pick[T]][f[U]]
        BY <3>2
      <4>. HIDE DEF g, U
      <4>7. g[T] = step[pick[T]][g[U]]
        BY <4>5, <4>6
      <4>. QED BY <3>2, <4>7 DEF U
    <3>. QED BY <3>1, <3>2
  <2>. HIDE DEF g, Eq, Small
  <2>. QED BY <2>2, <2>4
<1>3. Nat \subseteq K
  <2>. HIDE DEF K
  <2>. QED BY <1>1, <1>2, SetInduction
<1>4. Cardinality(S) \in Nat
  BY FS_CardinalityType
<1>5. PICK f \in [SUBSET S -> V] : \A T \in Small(Cardinality(S)) : Eq(f, T)
  BY <1>3, <1>4
<1>6. \A T \in SUBSET S : T \in Small(Cardinality(S))
  BY FS_Subset
<1>7. \A T \in SUBSET S : Eq(f, T)
  <2>. HIDE DEF Eq, Small
  <2>. QED BY <1>5, <1>6
<1>. QED BY <1>7 DEF SetRecursions

-----------------------------------------------------------------------------
(* Loops that collect items, from a start to a place where they stop       *)

Chains(X, stops, item, hop) ==
  {f \in [Nat -> Seq(X)] :
     \A s \in Nat : f[s] = IF s \in stops THEN <<>> ELSE <<item[s]>> \o f[hop[s]]}

\* A loop that goes forward, and stops when it is beyond `last`, comes to an end.
LEMMA ChainExists ==
  ASSUME NEW last \in Int, NEW stops, NEW X, NEW item \in [Nat -> X], NEW hop \in [Nat -> Nat],
         \A s \in Nat : s \in stops \/ (s <= last /\ s < hop[s])
  PROVE  Chains(X, stops, item, hop) # {}
<1>. DEFINE Eq(f, s) == f[s] = IF s \in stops THEN <<>> ELSE <<item[s]>> \o f[hop[s]]
            Near(k) == {s \in Nat : last - s < k}
            K == {k \in Nat : \E f \in [Nat -> Seq(X)] : \A s \in Near(k) : Eq(f, s)}
<1>1. 0 \in K
  <2>. DEFINE f == [s \in Nat |-> <<>>]
  <2>1. f \in [Nat -> Seq(X)]
    OBVIOUS
  <2>2. ASSUME NEW s \in Near(0) PROVE Eq(f, s)
    <3>1. s \in stops /\ s \in Nat
      OBVIOUS
    <3>. QED BY <3>1
  <2>. HIDE DEF f, Eq, Near
  <2>. QED BY <2>1, <2>2
<1>2. ASSUME NEW k \in Nat, k \in K PROVE k + 1 \in K
  <2>1. PICK f \in [Nat -> Seq(X)] : \A s \in Near(k) : Eq(f, s)
    BY <1>2
  <2>. DEFINE g == [s \in Nat |-> IF s \in stops THEN <<>> ELSE <<item[s]>> \o f[hop[s]]]
  <2>2. g \in [Nat -> Seq(X)]
    <3>1. ASSUME NEW s \in Nat PROVE <<item[s]>> \o f[hop[s]] \in Seq(X) /\ <<>> \in Seq(X)
      <4>1. item[s] \in X /\ hop[s] \in Nat /\ f[hop[s]] \in Seq(X)
        OBVIOUS
      <4>. QED BY <4>1
    <3>. QED BY <3>1
  <2>3. \A s \in Near(k) : g[s] = f[s]
    BY <2>1
  <2>4. ASSUME NEW s \in Near(k + 1) PROVE Eq(g, s)
    <3>1. CASE s \in stops
      BY <3>1
    <3>2. CASE s \notin stops
      <4>1. hop[s] \in Nat /\ s < hop[s] /\ s \in Nat
        BY <3>2
      <4>2. hop[s] \in Near(k)
        BY <4>1
      <4>3. g[hop[s]] = f[hop[s]]
        BY <2>3, <4>2
      <4>4. g[s] = <<item[s]>> \o f[hop[s]]
        BY <3>2, <4>1
      <4>. HIDE DEF g
      <4>. QED BY <3>2, <4>3, <4>4
    <3>. QED BY <3>1, <3>2
  <2>. HIDE DEF g, Eq, Near
  <2>. QED BY <2>2, <2>4
<1>3. Nat \subseteq K
  <2>. HIDE DEF K
  <2>. QED BY <1>1, <1>2, SetInduction
<1>. DEFINE n == IF last < 0 THEN 0 ELSE last + 1
<1>4. n \in Nat /\ \A s \in Nat : s \in Near(n)
  OBVIOUS
<1>. HIDE DEF n
<1>5. PICK f \in [Nat -> Seq(X)] : \A s \in Near(n) : Eq(f, s)
  BY <1>3, <1>4
<1>6. \A s \in Nat : Eq(f, s)
  <2>. HIDE DEF Eq, Near
  <2>. QED BY <1>4, <1>5
<1>. QED BY <1>6 DEF Chains

\* What it has collected from s on is in L[s], if that holds where it stops and for
\* one item more.
LEMMA ChainValues ==
  ASSUME NEW last \in Int, NEW stops, NEW item, NEW hop \in [Nat -> Nat],
         \A s \in Nat : s \in stops \/ (s <= last /\ s < hop[s]),
         NEW f, \A s \in Nat : f[s] = IF s \in stops THEN <<>> ELSE <<item[s]>> \o f[hop[s]],
         NEW L, \A s \in Nat : s \in stops => <<>> \in L[s],
         \A s \in Nat : s \notin stops => \A t \in L[hop[s]] : <<item[s]>> \o t \in L[s]
  PROVE  \A s \in Nat : f[s] \in L[s]
<1>. DEFINE K == {k \in Nat : \A s \in Nat : last - s < k => f[s] \in L[s]}
<1>1. 0 \in K
  <2>1. ASSUME NEW s \in Nat, last - s < 0 PROVE f[s] \in L[s]
    <3>1. s \in stops
      BY <2>1
    <3>. QED BY <3>1
  <2>. QED BY <2>1
<1>2. ASSUME NEW k \in Nat, k \in K PROVE k + 1 \in K
  <2>1. ASSUME NEW s \in Nat, last - s < k + 1 PROVE f[s] \in L[s]
    <3>1. CASE s \in stops
      BY <3>1
    <3>2. CASE s \notin stops
      <4>1. hop[s] \in Nat /\ last - hop[s] < k
        BY <2>1, <3>2
      <4>2. f[hop[s]] \in L[hop[s]]
        BY <1>2, <4>1
      <4>3. f[s] = <<item[s]>> \o f[hop[s]]
        BY <3>2
      <4>. QED BY <3>2, <4>2, <4>3
    <3>. QED BY <3>1, <3>2
  <2>. QED BY <2>1
<1>3. Nat \subseteq K
  <2>. HIDE DEF K
  <2>. QED BY <1>1, <1>2, SetInduction
<1>4. ASSUME NEW s \in Nat PROVE f[s] \in L[s]
  <2>1. \E n \in Nat : last - s < n
    <3>. DEFINE n == IF last < 0 THEN 0 ELSE last + 1
    <3>1. n \in Nat /\ last - s < n
      OBVIOUS
    <3>. QED BY <3>1
  <2>. QED BY <1>3, <2>1
<1>. QED BY <1>4

-----------------------------------------------------------------------------
(* Lists                                                                   *)

\* One list more.
LEMMA FlattenAppend ==
  ASSUME NEW X, NEW ss \in Seq(Seq(X)), NEW s \in Seq(X)
  PROVE  FlattenSeq(Append(ss, s)) = FlattenSeq(ss) \o s
<1>. DEFINE N == Len(ss)
            tt == Append(ss, s)
<1>1. N \in Nat /\ tt \in Seq(Seq(X)) /\ Len(tt) = N + 1 /\ tt[N + 1] = s /\ \A n \in 1..N : tt[n] = ss[n]
  OBVIOUS
<1>2. PICK g \in [0..Len(ss) -> Seq(X)] :
         /\ g[0] = <<>>
         /\ \A n \in 1..Len(ss) : g[n] = g[n - 1] \o ss[n]
         /\ FlattenSeq(ss) = g[Len(ss)]
  BY FlattenPrefixes
<1>. HIDE DEF tt
<1>3. PICK h \in [0..Len(tt) -> Seq(X)] :
         /\ h[0] = <<>>
         /\ \A n \in 1..Len(tt) : h[n] = h[n - 1] \o tt[n]
         /\ FlattenSeq(tt) = h[Len(tt)]
  BY <1>1, FlattenPrefixes
<1>. DEFINE K == {k \in Nat : k <= N => g[k] = h[k]}
<1>4. 0 \in K
  BY <1>2, <1>3
<1>5. ASSUME NEW k \in Nat, k \in K PROVE k + 1 \in K
  <2>1. SUFFICES ASSUME k + 1 <= N PROVE g[k + 1] = h[k + 1]
    OBVIOUS
  <2>2. k + 1 \in 1..Len(ss) /\ k + 1 \in 1..Len(tt) /\ (k + 1) - 1 = k /\ k <= N
    BY <1>1, <2>1
  <2>3. g[k + 1] = g[(k + 1) - 1] \o ss[k + 1]
    BY <1>2, <2>2
  <2>4. h[k + 1] = h[(k + 1) - 1] \o tt[k + 1]
    BY <1>3, <2>2
  <2>. QED BY <1>1, <1>5, <2>2, <2>3, <2>4
<1>6. g[N] = h[N]
  <2>1. Nat \subseteq K
    <3>. HIDE DEF K
    <3>. QED BY <1>4, <1>5, SetInduction
  <2>2. N \in Nat /\ N <= N
    BY <1>1
  <2>. QED BY <2>1, <2>2
<1>7. h[N + 1] = h[N] \o s
  <2>1. N + 1 \in 1..Len(tt) /\ (N + 1) - 1 = N
    BY <1>1
  <2>2. h[N + 1] = h[(N + 1) - 1] \o tt[N + 1]
    BY <1>3, <2>1
  <2>. QED BY <1>1, <2>1, <2>2
<1>8. FlattenSeq(tt) = h[N + 1]
  BY <1>1, <1>3
<1>. QED BY <1>2, <1>6, <1>7, <1>8 DEF tt

\* The flattening of some lists is a list, of what is in them.
LEMMA FlattenType ==
  ASSUME NEW X, NEW ss \in Seq(Seq(X))
  PROVE  /\ FlattenSeq(ss) \in Seq(X)
         /\ \A k \in DOMAIN FlattenSeq(ss) : \E i \in DOMAIN ss : \E j \in DOMAIN ss[i] : FlattenSeq(ss)[k] = ss[i][j]
         /\ \A i \in DOMAIN ss : \A j \in DOMAIN ss[i] : \E k \in DOMAIN FlattenSeq(ss) : FlattenSeq(ss)[k] = ss[i][j]
<1>1. PICK g \in [0..Len(ss) -> Seq(X)] :
         /\ g[0] = <<>>
         /\ \A n \in 1..Len(ss) : g[n] = g[n - 1] \o ss[n]
         /\ FlattenSeq(ss) = g[Len(ss)]
  BY FlattenPrefixes
<1>. DEFINE N == Len(ss)
            From(t, n) == \A k \in DOMAIN t : \E i \in 1..n : \E j \in DOMAIN ss[i] : t[k] = ss[i][j]
            Into(t, n) == \A i \in 1..n : \A j \in DOMAIN ss[i] : \E k \in DOMAIN t : t[k] = ss[i][j]
            K == {k \in Nat : k <= N => From(g[k], k) /\ Into(g[k], k)}
<1>2. N \in Nat /\ DOMAIN ss = 1..N /\ \A n \in 1..N : ss[n] \in Seq(X) /\ DOMAIN ss[n] = 1..Len(ss[n])
  OBVIOUS
<1>3. 0 \in K
  <2>1. DOMAIN g[0] = {} /\ 1..0 = {}
    BY <1>1
  <2>. QED BY <2>1
<1>4. ASSUME NEW k \in Nat, k \in K PROVE k + 1 \in K
  <2>1. SUFFICES ASSUME k + 1 <= N PROVE From(g[k + 1], k + 1) /\ Into(g[k + 1], k + 1)
    <3>. HIDE DEF From, Into
    <3>. QED OBVIOUS
  <2>2. k + 1 \in 1..N /\ k \in 0..N /\ (k + 1) - 1 = k /\ k <= N
    <3>1. N \in Nat
      BY <1>2
    <3>. HIDE DEF N
    <3>. QED BY <2>1, <3>1
  <2>. DEFINE s == g[k]
              t == ss[k + 1]
              u == g[k + 1]
  <2>3. s \in Seq(X) /\ t \in Seq(X) /\ u = s \o t /\ From(s, k) /\ Into(s, k)
    <3>1. g[k + 1] = g[(k + 1) - 1] \o ss[k + 1]
      BY <1>1, <2>2
    <3>2. g[k] \in Seq(X) /\ ss[k + 1] \in Seq(X)
      BY <1>1, <1>2, <2>2
    <3>3. From(g[k], k) /\ Into(g[k], k)
      BY <1>4, <2>2
    <3>. QED BY <2>2, <3>1, <3>2, <3>3
  <2>. HIDE DEF s, u
  <2>4. /\ Len(s) \in Nat /\ Len(t) \in Nat /\ Len(u) = Len(s) + Len(t)
        /\ DOMAIN s = 1..Len(s) /\ DOMAIN t = 1..Len(t) /\ DOMAIN u = 1..Len(u)
        /\ \A j \in 1..Len(s) : u[j] = s[j]
        /\ \A j \in 1..Len(t) : u[Len(s) + j] = t[j]
    BY <2>3
  <2>5. From(u, k + 1)
    <3>1. ASSUME NEW m \in 1..Len(u)
          PROVE  \E i \in 1..(k + 1) : \E j \in DOMAIN ss[i] : u[m] = ss[i][j]
      <4>1. CASE m \in 1..Len(s)
        <5>1. PICK i \in 1..k : \E j \in DOMAIN ss[i] : s[m] = ss[i][j]
          BY <2>3, <2>4, <4>1
        <5>2. i \in 1..(k + 1) /\ u[m] = s[m]
          BY <2>4, <4>1
        <5>. QED BY <5>1, <5>2
      <4>2. CASE m \notin 1..Len(s)
        <5>1. m - Len(s) \in 1..Len(t) /\ Len(s) + (m - Len(s)) = m
          BY <2>4, <4>2
        <5>2. u[m] = t[m - Len(s)] /\ m - Len(s) \in DOMAIN t
          BY <2>4, <5>1
        <5>3. k + 1 \in 1..(k + 1)
          OBVIOUS
        <5>. QED BY <5>2, <5>3
      <4>. QED BY <4>1, <4>2
    <3>. HIDE DEF t
    <3>. QED BY <2>4, <3>1
  <2>6. Into(u, k + 1)
    <3>1. ASSUME NEW i \in 1..(k + 1), NEW j \in DOMAIN ss[i] PROVE \E m \in DOMAIN u : u[m] = ss[i][j]
      <4>1. CASE i = k + 1
        <5>1. j \in 1..Len(t) /\ u[Len(s) + j] = t[j]
          BY <2>4, <4>1
        <5>2. Len(s) + j \in DOMAIN u
          BY <2>4, <5>1
        <5>. QED BY <4>1, <5>1, <5>2
      <4>2. CASE i \in 1..k
        <5>1. PICK m \in DOMAIN s : s[m] = ss[i][j]
          BY <2>3, <4>2
        <5>2. m \in DOMAIN u /\ u[m] = s[m]
          <6>. HIDE DEF t
          <6>. QED BY <2>4, <5>1
        <5>. QED BY <5>1, <5>2
      <4>. QED BY <4>1, <4>2
    <3>. QED BY <3>1
  <2>. QED BY <2>5, <2>6 DEF u
<1>5. From(g[N], N) /\ Into(g[N], N)
  <2>1. Nat \subseteq K
    <3>. HIDE DEF K
    <3>. QED BY <1>3, <1>4, SetInduction
  <2>2. N \in Nat /\ N <= N
    BY <1>2
  <2>. HIDE DEF From, Into
  <2>. QED BY <2>1, <2>2
<1>. DEFINE t == g[N]
<1>6. t \in Seq(X) /\ t = FlattenSeq(ss)
  <2>1. N \in 0..Len(ss)
    BY <1>2
  <2>. QED BY <1>1, <2>1
<1>7. From(t, N) /\ Into(t, N)
  <2>. HIDE DEF From, Into
  <2>. QED BY <1>5
<1>. HIDE DEF t
<1>8. \A k \in DOMAIN t : \E i \in DOMAIN ss : \E j \in DOMAIN ss[i] : t[k] = ss[i][j]
  BY <1>2, <1>7
<1>9. \A i \in DOMAIN ss : \A j \in DOMAIN ss[i] : \E k \in DOMAIN t : t[k] = ss[i][j]
  BY <1>2, <1>7
<1>. HIDE DEF From, Into
<1>. QED BY <1>6, <1>8, <1>9

\* A function on 1..n is a list.
LEMMA ListOf ==
  ASSUME NEW n \in Nat, NEW X, NEW f \in [1..n -> X]
  PROVE  f \in Seq(X) /\ Len(f) = n /\ DOMAIN f = 1..n
OBVIOUS

\* A set that has the empty list and every list that is longer by one element.
LEMMA ListInduction ==
  ASSUME NEW X, NEW G, <<>> \in G,
         \A s \in Seq(X), x \in X : s \in G => Append(s, x) \in G
  PROVE  Seq(X) \subseteq G
<1>. DEFINE K == {k \in Nat : \A s \in Seq(X) : Len(s) = k => s \in G}
<1>1. 0 \in K
  OBVIOUS
<1>2. ASSUME NEW k \in Nat, k \in K PROVE k + 1 \in K
  <2>1. SUFFICES ASSUME NEW s \in Seq(X), Len(s) = k + 1 PROVE s \in G
    OBVIOUS
  <2>. DEFINE f == SubSeq(s, 1, k)
  <2>2. f \in Seq(X) /\ Len(f) = k /\ s[k + 1] \in X
    BY <2>1
  <2>3. s = Append(f, s[k + 1])
    BY <2>1
  <2>. HIDE DEF f
  <2>. QED BY <1>2, <2>2, <2>3
<1>3. Nat \subseteq K
  <2>. HIDE DEF K
  <2>. QED BY <1>1, <1>2, SetInduction
<1>4. \A s \in Seq(X) : Len(s) \in Nat
  OBVIOUS
<1>. QED BY <1>3, <1>4

\* The elements of s that are in E.
Where(s, E) == Picked(s, {i \in DOMAIN s : s[i] \in E})

\* Of no elements there is none,
LEMMA WhereEmpty == ASSUME NEW E PROVE Where(<<>>, E) = <<>>
<1>. DEFINE ss == [i \in DOMAIN <<>> |-> IF i \in {j \in DOMAIN <<>> : <<>>[j] \in E} THEN << <<>>[i] >> ELSE <<>>]
<1>1. ss = <<>>
  <2>1. DOMAIN <<>> = {}
    OBVIOUS
  <2>2. ss \in Seq({})
    OBVIOUS
  <2>. QED BY <2>1, <2>2
<1>2. FlattenSeq(<<>>) = <<>>
  BY DEF FlattenSeq
<1>. QED BY <1>1, <1>2 DEF Where, Picked

\* of one more element it is the last or not there,
LEMMA WhereAppend ==
  ASSUME NEW X, NEW s \in Seq(X), NEW x \in X, NEW E
  PROVE  Where(Append(s, x), E) = IF x \in E THEN Append(Where(s, E), x) ELSE Where(s, E)
<1>. DEFINE t == Append(s, x)
            Only(u) == [i \in DOMAIN u |-> IF i \in {j \in DOMAIN u : u[j] \in E} THEN <<u[i]>> ELSE <<>>]
            last == IF x \in E THEN <<x>> ELSE <<>>
<1>1. Len(s) \in Nat /\ DOMAIN s = 1..Len(s) /\ DOMAIN t = 1..(Len(s) + 1) /\ t[Len(s) + 1] = x
      /\ (\A i \in DOMAIN s : t[i] = s[i] /\ s[i] \in X)
  OBVIOUS
<1>. HIDE DEF t
<1>2. Only(s) \in Seq(Seq(X)) /\ Len(Only(s)) = Len(s) /\ last \in Seq(X)
  <2>1. \A i \in 1..Len(s) : Only(s)[i] \in Seq(X)
    BY <1>1
  <2>2. Only(s) \in [1..Len(s) -> Seq(X)]
    BY <1>1, <2>1
  <2>. HIDE DEF Only
  <2>. QED BY <1>1, <2>2
<1>3. Only(t) = Append(Only(s), last)
  <2>1. Only(t) \in Seq(Seq(X)) /\ Len(Only(t)) = Len(s) + 1
    <3>1. \A i \in 1..(Len(s) + 1) : Only(t)[i] \in Seq(X)
      BY <1>1
    <3>2. Only(t) \in [1..(Len(s) + 1) -> Seq(X)]
      BY <1>1, <3>1
    <3>. HIDE DEF Only
    <3>. QED BY <1>1, <3>2
  <2>2. \A i \in 1..Len(s) : Only(t)[i] = Only(s)[i]
    BY <1>1, SMTT(30)
  <2>3. Only(t)[Len(s) + 1] = last
    BY <1>1
  <2>. DEFINE u == Append(Only(s), last)
              Y == Seq(X)
  <2>. HIDE DEF Only, last, Y
  <2>4. u \in Seq(Y) /\ Len(u) = Len(s) + 1 /\ u[Len(s) + 1] = last /\ \A i \in 1..Len(s) : u[i] = Only(s)[i]
    BY <1>1, <1>2, AppendProperties DEF Y
  <2>5. \A i \in 1..(Len(s) + 1) : u[i] = Only(t)[i]
    <3>. HIDE DEF u
    <3>. QED BY <1>1, <2>2, <2>3, <2>4
  <2>. HIDE DEF u
  <2>6. u = Only(t)
    BY <2>1, <2>4, <2>5, SeqEqual DEF Y
  <2>. QED BY <2>6 DEF u
<1>4. FlattenSeq(Only(t)) = FlattenSeq(Only(s)) \o last
  <2>. HIDE DEF Only, last
  <2>. QED BY <1>2, <1>3, FlattenAppend
<1>5. Where(t, E) = Where(s, E) \o last
  BY <1>4 DEF Where, Picked
<1>6. Where(s, E) \in Seq(X)
  BY PickedElements DEF Where
<1>. HIDE DEF Only
<1>. QED BY <1>5, <1>6 DEF t

\* of elements they are elements,
LEMMA WhereType ==
  ASSUME NEW X, NEW s \in Seq(X), NEW E
  PROVE  Where(s, E) \in Seq(X)
BY PickedElements DEF Where

\* and of two lists they are those of the first and then those of the second.
LEMMA WhereConcat ==
  ASSUME NEW X, NEW s \in Seq(X), NEW t \in Seq(X), NEW E
  PROVE  Where(s \o t, E) = Where(s, E) \o Where(t, E)
<1>. DEFINE G == {u \in Seq(X) : Where(s \o u, E) = Where(s, E) \o Where(u, E)}
<1>1. <<>> \in G
  <2>1. s \o <<>> = s /\ Where(s, E) \o <<>> = Where(s, E)
    BY WhereType, ConcatEmptySeq
  <2>2. <<>> \in Seq(X) /\ Where(<<>>, E) = <<>>
    BY WhereEmpty
  <2>. QED BY <2>1, <2>2
<1>2. ASSUME NEW u \in Seq(X), NEW x \in X, u \in G PROVE Append(u, x) \in G
  <2>1. s \o Append(u, x) = Append(s \o u, x) /\ s \o u \in Seq(X) /\ Append(u, x) \in Seq(X)
    OBVIOUS
  <2>2. Where(Append(s \o u, x), E) = IF x \in E THEN Append(Where(s \o u, E), x) ELSE Where(s \o u, E)
    BY <2>1, WhereAppend
  <2>3. Where(Append(u, x), E) = IF x \in E THEN Append(Where(u, E), x) ELSE Where(u, E)
    BY WhereAppend
  <2>. DEFINE a == Where(s, E)
              b == Where(u, E)
  <2>4. a \in Seq(X) /\ b \in Seq(X) /\ Where(s \o u, E) = a \o b
    BY <1>2, WhereType
  <2>. HIDE DEF a, b
  <2>5. Append(a \o b, x) = a \o Append(b, x)
    <3>1. a \o b \in Seq(X) /\ <<x>> \in Seq(X)
      BY <2>4
    <3>2. Append(a \o b, x) = (a \o b) \o <<x>> /\ Append(b, x) = b \o <<x>>
      BY <2>4, <3>1, AppendIsConcat
    <3>3. (a \o b) \o <<x>> = a \o (b \o <<x>>)
      BY <2>4, <3>1, ConcatAssociative, SMTT(30)
    <3>. QED BY <3>2, <3>3
  <2>6. Where(Append(s \o u, x), E) = a \o Where(Append(u, x), E)
    BY <2>2, <2>3, <2>4, <2>5 DEF b
  <2>. QED BY <2>1, <2>6 DEF a
<1>3. Seq(X) \subseteq G
  <2>. HIDE DEF G
  <2>. QED BY <1>1, <1>2, ListInduction
<1>. QED BY <1>3

\* What is in E of a flattening is the flattening of what is in E.
LEMMA WhereFlatten ==
  ASSUME NEW X, NEW E
  PROVE  \A ss \in Seq(Seq(X)) :
           Where(FlattenSeq(ss), E) = FlattenSeq([i \in DOMAIN ss |-> Where(ss[i], E)])
<1>. DEFINE Each(ss) == [i \in DOMAIN ss |-> Where(ss[i], E)]
            G == {ss \in Seq(Seq(X)) : Where(FlattenSeq(ss), E) = FlattenSeq(Each(ss))}
<1>1. <<>> \in G
  <2>1. FlattenSeq(<<>>) = <<>>
    BY DEF FlattenSeq
  <2>2. Each(<<>>) = <<>> /\ <<>> \in Seq(Seq(X))
    OBVIOUS
  <2>. HIDE DEF Each
  <2>. QED BY <2>1, <2>2, WhereEmpty
<1>2. ASSUME NEW ss \in Seq(Seq(X)), NEW s \in Seq(X), ss \in G PROVE Append(ss, s) \in G
  <2>1. FlattenSeq(Append(ss, s)) = FlattenSeq(ss) \o s /\ FlattenSeq(ss) \in Seq(X)
    BY FlattenAppend, FlattenType
  <2>2. Where(FlattenSeq(ss) \o s, E) = Where(FlattenSeq(ss), E) \o Where(s, E)
    BY <2>1, WhereConcat
  <2>3. Each(ss) \in Seq(Seq(X)) /\ Len(Each(ss)) = Len(ss)
    <3>1. \A i \in DOMAIN ss : Where(ss[i], E) \in Seq(X)
      BY WhereType
    <3>2. DOMAIN ss = 1..Len(ss) /\ Len(ss) \in Nat
      OBVIOUS
    <3>3. \A i \in 1..Len(ss) : Each(ss)[i] \in Seq(X)
      BY <3>1, <3>2
    <3>4. DOMAIN Each(ss) = 1..Len(ss) /\ Each(ss) = [i \in 1..Len(ss) |-> Each(ss)[i]]
      BY <3>2
    <3>. HIDE DEF Each
    <3>5. Each(ss) \in [1..Len(ss) -> Seq(X)]
      BY <3>3, <3>4
    <3>. DEFINE Y == Seq(X)
                u == Each(ss)
    <3>6. u \in [1..Len(ss) -> Y]
      BY <3>5
    <3>. HIDE DEF u, Y
    <3>7. u \in Seq(Y) /\ Len(u) = Len(ss)
      BY <3>2, <3>6, ListOf
    <3>. QED BY <3>7 DEF u, Y
  <2>4. Each(Append(ss, s)) = Append(Each(ss), Where(s, E))
    <3>1. /\ DOMAIN Append(ss, s) = 1..(Len(ss) + 1) /\ DOMAIN ss = 1..Len(ss) /\ Len(ss) \in Nat
          /\ \A i \in 1..Len(ss) : Append(ss, s)[i] = ss[i]
          /\ Append(ss, s)[Len(ss) + 1] = s
      OBVIOUS
    <3>. DEFINE u == Append(Each(ss), Where(s, E))
                v == Each(Append(ss, s))
                Y == Seq(X)
    <3>2. DOMAIN v = 1..(Len(ss) + 1) /\ v[Len(ss) + 1] = Where(s, E) /\ \A i \in 1..Len(ss) : v[i] = Each(ss)[i]
      BY <3>1
    <3>3. Where(s, E) \in Seq(X)
      BY WhereType
    <3>. HIDE DEF Each, Y
    <3>4. u \in Seq(Y) /\ Len(u) = Len(ss) + 1 /\ u[Len(ss) + 1] = Where(s, E) /\ \A i \in 1..Len(ss) : u[i] = Each(ss)[i]
      BY <2>3, <3>1, <3>3, AppendProperties DEF Y
    <3>5. \A i \in 1..(Len(ss) + 1) : u[i] = v[i]
      <4>. HIDE DEF u, v
      <4>. QED BY <3>1, <3>2, <3>4
    <3>6. DOMAIN u = 1..(Len(ss) + 1) /\ u = [i \in DOMAIN u |-> u[i]]
      <4>. HIDE DEF u
      <4>. QED BY <3>4
    <3>7. v = [i \in DOMAIN v |-> v[i]]
      BY DEF Each
    <3>. HIDE DEF u, v
    <3>8. u = v
      BY <3>2, <3>5, <3>6, <3>7
    <3>. QED BY <3>8 DEF u, v
  <2>5. FlattenSeq(Append(Each(ss), Where(s, E))) = FlattenSeq(Each(ss)) \o Where(s, E)
    <3>1. Where(s, E) \in Seq(X)
      BY WhereType
    <3>. HIDE DEF Each
    <3>. QED BY <2>3, <3>1, FlattenAppend
  <2>6. Where(FlattenSeq(ss), E) = FlattenSeq(Each(ss))
    BY <1>2
  <2>. HIDE DEF Each
  <2>7. Where(FlattenSeq(Append(ss, s)), E) = FlattenSeq(Each(Append(ss, s)))
    BY <2>1, <2>2, <2>4, <2>5, <2>6
  <2>8. Append(ss, s) \in Seq(Seq(X))
    OBVIOUS
  <2>. QED BY <2>7, <2>8
<1>3. Seq(Seq(X)) \subseteq G
  <2>. DEFINE Y == Seq(X)
  <2>1. \A ss \in Seq(Y), s \in Y : ss \in G => Append(ss, s) \in G
    BY <1>2
  <2>. HIDE DEF G, Y
  <2>2. Seq(Y) \subseteq G
    BY <1>1, <2>1, ListInduction
  <2>. QED BY <2>2 DEF Y
<1>. QED BY <1>3

-----------------------------------------------------------------------------
(* Sorting                                                                 *)

\* t is s with x put in behind the first m elements, the last of which it does not go
\* before.
PutIn(t, s, x, m, less) ==
  /\ m = 0 \/ <<x, s[m]>> \notin less
  /\ \A k \in (m + 1)..Len(s) : <<x, s[k]>> \in less
  /\ Len(t) = Len(s) + 1
  /\ \A k \in 1..m : t[k] = s[k]
  /\ t[m + 1] = x
  /\ \A k \in (m + 1)..Len(s) : t[k + 1] = s[k]

\* An element inserted is one of a list with those before it and those behind it.
LEMMA InsertedIs ==
  ASSUME NEW X, NEW s \in Seq(X), NEW x \in X, NEW less
  PROVE  /\ Inserted(s, x, less) \in Seq(X)
         /\ \E m \in 0..Len(s) : PutIn(Inserted(s, x, less), s, x, m, less)
<1>. DEFINE T == {0} \cup {k \in DOMAIN s : <<x, s[k]>> \notin less}
            m == Max(T)
<1>1. Len(s) \in Nat /\ DOMAIN s = 1..Len(s)
  OBVIOUS
<1>2. m \in T /\ \A k \in T : m >= k
  <2>1. T \in SUBSET (0..Len(s)) /\ T # {}
    BY <1>1
  <2>. HIDE DEF T
  <2>2. \E k \in T : \A j \in T : k >= j
    BY <1>1, <2>1, GreatestExists
  <2>. QED BY <2>2 DEF Max
<1>3. m \in 0..Len(s)
  <2>. HIDE DEF m
  <2>. QED BY <1>1, <1>2
<1>12. m = 0 \/ <<x, s[m]>> \notin less
  <2>. HIDE DEF m
  <2>. QED BY <1>2
<1>4. ASSUME NEW k \in (m + 1)..Len(s) PROVE <<x, s[k]>> \in less
  <2>. HIDE DEF m
  <2>1. k \in DOMAIN s /\ ~(m >= k)
    BY <1>1, <1>3
  <2>. QED BY <1>2, <2>1
<1>. DEFINE a == SubSeq(s, 1, m)
            b == SubSeq(s, m + 1, Len(s))
            t == (a \o <<x>>) \o b
<1>5. Inserted(s, x, less) = t
  <2>1. Inserted(s, x, less) = InsertAt(s, 1 + m, x)
    BY DEF Inserted
  <2>. HIDE DEF m
  <2>2. (1 + m) - 1 = m /\ 1 + m = m + 1
    BY <1>1, <1>3
  <2>. QED BY <2>1, <2>2 DEF InsertAt
<1>. HIDE DEF m, T
<1>6. a \in Seq(X) /\ Len(a) = m /\ \A k \in 1..m : a[k] = s[k]
  BY <1>1, <1>3
<1>7. b \in Seq(X) /\ Len(b) = Len(s) - m /\ \A k \in 1..(Len(s) - m) : b[k] = s[m + k]
  <2>1. \A k \in (m + 1)..Len(s) : s[k] \in X
    BY <1>1, <1>3
  <2>2. m + 1 \in Int /\ Len(s) \in Int
    BY <1>1, <1>3
  <2>3. /\ b \in Seq(X)
        /\ Len(b) = IF m + 1 <= Len(s) THEN Len(s) - (m + 1) + 1 ELSE 0
        /\ \A k \in 1..(Len(s) - (m + 1) + 1) : b[k] = s[(m + 1) + k - 1]
    BY <2>1, <2>2, SubSeqProperties, SMTT(30)
  <2>. HIDE DEF b
  <2>4. Len(s) - (m + 1) + 1 = Len(s) - m
    BY <1>1, <1>3
  <2>5. \A k \in 1..(Len(s) - m) : (m + 1) + k - 1 = m + k
    BY <1>1, <1>3
  <2>6. m + 1 > Len(s) => Len(s) - m = 0
    <3>1. \A d \in Nat : \A e \in 0..d : e + 1 > d => d - e = 0
      OBVIOUS
    <3>. QED BY <1>1, <1>3, <3>1
  <2>7. m \in Int /\ Len(s) \in Int /\ (m + 1 <= Len(s) \/ m + 1 > Len(s))
    BY <1>1, <1>3
  <2>. QED BY <1>1, <1>3, <2>3, <2>4, <2>5, <2>6, <2>7
<1>. HIDE DEF a, b
<1>8. a \o <<x>> \in Seq(X) /\ Len(a \o <<x>>) = m + 1 /\ (a \o <<x>>)[m + 1] = x
      /\ \A k \in 1..m : (a \o <<x>>)[k] = a[k]
  <2>1. a \o <<x>> = Append(a, x)
    BY <1>6, AppendIsConcat
  <2>. QED BY <1>3, <1>6, <2>1, AppendProperties
<1>9. t \in Seq(X) /\ Len(t) = Len(s) + 1
  BY <1>1, <1>3, <1>7, <1>8
<1>10. (\A k \in 1..m : t[k] = s[k]) /\ t[m + 1] = x
  <2>. DEFINE u == a \o <<x>>
  <2>1. u \in Seq(X) /\ Len(u) = m + 1 /\ u[m + 1] = x /\ \A k \in 1..m : u[k] = a[k]
    BY <1>8
  <2>. HIDE DEF u
  <2>2. \A k \in 1..(m + 1) : (u \o b)[k] = u[k]
    BY <1>3, <1>7, <2>1
  <2>. QED BY <1>3, <1>6, <2>1, <2>2 DEF u
<1>11. ASSUME NEW k \in (m + 1)..Len(s) PROVE t[k + 1] = s[k]
  <2>. DEFINE u == a \o <<x>>
  <2>1. u \in Seq(X) /\ Len(u) = m + 1
    BY <1>8
  <2>. HIDE DEF u
  <2>2. k - m \in 1..(Len(s) - m) /\ (m + 1) + (k - m) = k + 1 /\ m + (k - m) = k
    BY <1>1, <1>3
  <2>3. (u \o b)[(m + 1) + (k - m)] = b[k - m]
    BY <1>3, <1>7, <2>1, <2>2
  <2>. QED BY <1>7, <2>2, <2>3 DEF u
<1>. HIDE DEF t
<1>13. PutIn(t, s, x, m, less)
  BY <1>4, <1>9, <1>10, <1>11, <1>12 DEF PutIn
<1>. QED BY <1>3, <1>5, <1>9, <1>13

WeakOrder(R, S) ==
  /\ \A x, y \in S : <<x, y>> \in R => <<y, x>> \notin R
  /\ \A x, y, z \in S : <<x, y>> \notin R /\ <<y, z>> \notin R => <<x, z>> \notin R

\* An insertion sort rearranges 1..n, and sorts it if that can be done.
LEMMA InsertionSorts ==
  ASSUME NEW n \in Nat, NEW less
  PROVE  /\ InsertionSort(n, less) \in [1..n -> 1..n]
         /\ \A j, k \in 1..n : InsertionSort(n, less)[j] = InsertionSort(n, less)[k] => j = k
         /\ \A i \in 1..n : \E k \in 1..n : InsertionSort(n, less)[k] = i
         /\ WeakOrder(less, 1..n) =>
              \A j, k \in 1..n : j < k => <<InsertionSort(n, less)[k], InsertionSort(n, less)[j]>> \notin less
<1>. DEFINE X == 1..n
            step == [i \in 1..n |-> [s \in Seq(X) |-> Inserted(s, i, less)]]
            Is(f) == f = [i \in 0..n |-> IF i = 0 THEN <<>> ELSE Inserted(f[i - 1], i, less)]
            c == CHOOSE f : Is(f)
<1>1. ASSUME NEW i \in 1..n, NEW s \in Seq(X) PROVE Inserted(s, i, less) \in Seq(X)
  BY InsertedIs
<1>2. step \in [1..n -> [Seq(X) -> Seq(X)]]
  <2>. HIDE DEF X
  <2>1. \A i \in 1..n : [s \in Seq(X) |-> Inserted(s, i, less)] \in [Seq(X) -> Seq(X)]
    BY <1>1
  <2>. QED BY <2>1
<1>3. \E f \in [0..n -> Seq(X)] : Is(f)
  <2>. DEFINE S == Seq(X)
              base == <<>>
  <2>1. base \in S /\ step \in [1..n -> [S -> S]]
    <3>. HIDE DEF X, step
    <3>. QED BY <1>2
  <2>. HIDE DEF S, step, base
  <2>2. PICK f \in [0..n -> S] : f[0] = base /\ \A i \in 1..n : f[i] = step[i][f[i - 1]]
    <3>1. Recursions(n, S, base, step) # {}
      BY <2>1, RecursionExists
    <3>. QED BY <3>1 DEF Recursions
  <2>3. ASSUME NEW i \in 1..n PROVE f[i] = Inserted(f[i - 1], i, less)
    <3>1. f[i - 1] \in S
      BY <2>2
    <3>2. step[i][f[i - 1]] = Inserted(f[i - 1], i, less)
      BY <3>1 DEF step, S
    <3>. QED BY <2>2, <3>2
  <2>4. Is(f)
    <3>1. \A i \in 0..n : f[i] = IF i = 0 THEN <<>> ELSE Inserted(f[i - 1], i, less)
      BY <2>2, <2>3 DEF base
    <3>. QED BY <2>2, <3>1
  <2>. HIDE DEF Is
  <2>. QED BY <2>2, <2>4 DEF S
<1>4. PICK f \in [0..n -> Seq(X)] : Is(f)
  <2>. HIDE DEF Is, X
  <2>. QED BY <1>3
<1>5. Is(c)
  <2>. HIDE DEF Is
  <2>. QED BY <1>4
<1>6. InsertionSort(n, less) = c[n]
  BY DEF InsertionSort
<1>. HIDE DEF c
<1>7. c[0] = <<>> /\ \A i \in 1..n : c[i] = Inserted(c[i - 1], i, less)
  BY <1>5
<1>. DEFINE Good(s, k) ==
              /\ s \in Seq(X) /\ Len(s) = k
              /\ \A j \in 1..k : s[j] \in 1..k
              /\ \A j, l \in 1..k : s[j] = s[l] => j = l
              /\ WeakOrder(less, X) => \A j, l \in 1..k : j < l => <<s[l], s[j]>> \notin less
            K == {k \in Nat : k <= n => Good(c[k], k)}
<1>. HIDE DEF Is
<1>8. 0 \in K
  <2>1. Good(<<>>, 0)
    OBVIOUS
  <2>. HIDE DEF Good
  <2>. QED BY <1>7, <2>1
<1>9. ASSUME NEW k \in Nat, k \in K PROVE k + 1 \in K
  <2>1. SUFFICES ASSUME k + 1 <= n PROVE Good(c[k + 1], k + 1)
    <3>. HIDE DEF Good
    <3>. QED OBVIOUS
  <2>. DEFINE s == c[k]
              t == c[k + 1]
              i == k + 1
  <2>2. i \in 1..n /\ k <= n
    BY <2>1
  <2>3. Good(s, k)
    <3>. HIDE DEF Good
    <3>. QED BY <1>9, <2>2
  <2>4. t = Inserted(s, i, less)
    <3>1. (k + 1) - 1 = k
      OBVIOUS
    <3>. QED BY <1>7, <2>2, <3>1
  <2>. HIDE DEF s, t
  <2>5. s \in Seq(X) /\ Len(s) = k
    BY <2>3
  <2>6. PICK m \in 0..Len(s) : PutIn(Inserted(s, i, less), s, i, m, less)
    <3>1. i \in X
      BY <2>2
    <3>2. s \in Seq(X)
      BY <2>5
    <3>. HIDE DEF Good, X, i
    <3>. QED BY <3>1, <3>2, InsertedIs
  <2>14. m \in 0..k /\ t[m + 1] = k + 1
    <3>1. m \in 0..k
      BY <2>5
    <3>2. t[m + 1] = i
      <4>. HIDE DEF i
      <4>. QED BY <2>4, <2>6 DEF PutIn
    <3>. QED BY <3>1, <3>2
  <2>15. \A j \in 1..m : t[j] = s[j]
    BY <2>4, <2>6 DEF PutIn
  <2>16. \A j \in (m + 1)..k : t[j + 1] = s[j] /\ <<i, s[j]>> \in less
    <3>. HIDE DEF i
    <3>. QED BY <2>4, <2>5, <2>6 DEF PutIn
  <2>. DEFINE At(j) == IF j <= m THEN j ELSE j - 1
  <2>7. ASSUME NEW j \in 1..(k + 1), j # m + 1
        PROVE  At(j) \in 1..k /\ t[j] = s[At(j)]
    <3>1. CASE j <= m
      BY <2>14, <2>15, <3>1
    <3>2. CASE j > m
      <4>1. j - 1 \in (m + 1)..k /\ (j - 1) + 1 = j
        BY <2>7, <2>14, <3>2
      <4>2. t[(j - 1) + 1] = s[j - 1]
        BY <2>16, <4>1
      <4>. QED BY <3>2, <4>1, <4>2
    <3>. QED BY <3>1, <3>2
  <2>8. \A j \in 1..(k + 1) : t[j] \in 1..(k + 1)
    <3>1. ASSUME NEW j \in 1..(k + 1) PROVE t[j] \in 1..(k + 1)
      <4>1. CASE j = m + 1
        BY <2>14, <4>1
      <4>2. CASE j # m + 1
        <5>1. At(j) \in 1..k /\ t[j] = s[At(j)]
          BY <2>7, <4>2
        <5>2. s[At(j)] \in 1..k
          <6>. HIDE DEF At
          <6>. QED BY <2>3, <5>1
        <5>. HIDE DEF At
        <5>. QED BY <5>1, <5>2
      <4>. QED BY <4>1, <4>2
    <3>. QED BY <3>1
  <2>9. ASSUME NEW j \in 1..(k + 1), NEW l \in 1..(k + 1), j < l PROVE t[j] # t[l]
    <3>1. CASE j = m + 1
      <4>1. At(l) \in 1..k /\ t[l] = s[At(l)]
        BY <2>7, <2>9, <3>1
      <4>2. s[At(l)] \in 1..k
        <5>. HIDE DEF At
        <5>. QED BY <2>3, <4>1
      <4>. HIDE DEF At
      <4>. QED BY <2>14, <3>1, <4>1, <4>2
    <3>2. CASE l = m + 1
      <4>1. At(j) \in 1..k /\ t[j] = s[At(j)]
        BY <2>7, <2>9, <3>2
      <4>2. s[At(j)] \in 1..k
        <5>. HIDE DEF At
        <5>. QED BY <2>3, <4>1
      <4>. HIDE DEF At
      <4>. QED BY <2>14, <3>2, <4>1, <4>2
    <3>3. CASE j # m + 1 /\ l # m + 1
      <4>1. At(j) \in 1..k /\ t[j] = s[At(j)] /\ At(l) \in 1..k /\ t[l] = s[At(l)]
        BY <2>7, <3>3
      <4>2. At(j) # At(l)
        BY <2>9, <3>3
      <4>. HIDE DEF At
      <4>. QED BY <2>3, <4>1, <4>2
    <3>. QED BY <3>1, <3>2, <3>3
  <2>10. ASSUME WeakOrder(less, X), NEW j \in 1..(k + 1), NEW l \in 1..(k + 1), j < l
         PROVE  <<t[l], t[j]>> \notin less
    <3>0. (\A x \in 1..k : x \in X) /\ i \in X
      BY <2>2
    <3>1. CASE j = m + 1
      <4>1. l - 1 \in (m + 1)..k /\ (l - 1) + 1 = l
        BY <2>10, <2>14, <3>1
      <4>2. t[l] = s[l - 1] /\ <<i, s[l - 1]>> \in less
        <5>1. t[(l - 1) + 1] = s[l - 1] /\ <<i, s[l - 1]>> \in less
          BY <2>16, <4>1
        <5>. QED BY <4>1, <5>1
      <4>3. s[l - 1] \in X
        <5>1. l - 1 \in 1..k
          BY <2>14, <4>1
        <5>. QED BY <2>3, <3>0, <5>1
      <4>4. <<s[l - 1], i>> \notin less
        <5>. HIDE DEF X, i
        <5>. QED BY <2>10, <3>0, <4>2, <4>3 DEF WeakOrder
      <4>. QED BY <2>14, <3>1, <4>2, <4>4
    <3>2. CASE l = m + 1
      <4>1. j \in 1..m /\ m \in 1..k /\ t[j] = s[j] /\ t[l] = i
        BY <2>10, <2>14, <2>15, <3>2
      <4>2. <<i, s[m]>> \notin less
        <5>. HIDE DEF i
        <5>. QED BY <2>6, <4>1 DEF PutIn
      <4>3. s[m] \in X /\ s[j] \in X
        <5>1. m \in 1..k /\ j \in 1..k
          BY <4>1
        <5>. QED BY <2>3, <3>0, <5>1
      <4>4. j = m \/ <<s[m], s[j]>> \notin less
        <5>1. j \in 1..k /\ (j = m \/ j < m)
          BY <4>1
        <5>. QED BY <2>3, <2>10, <4>1, <5>1
      <4>5. <<i, s[j]>> \notin less
        <5>. HIDE DEF X, i
        <5>. QED BY <2>10, <3>0, <4>2, <4>3, <4>4 DEF WeakOrder
      <4>. QED BY <4>1, <4>5
    <3>3. CASE j # m + 1 /\ l # m + 1
      <4>1. At(j) \in 1..k /\ t[j] = s[At(j)] /\ At(l) \in 1..k /\ t[l] = s[At(l)]
        BY <2>7, <3>3
      <4>2. At(j) < At(l)
        BY <2>10, <3>3
      <4>. HIDE DEF At
      <4>. QED BY <2>3, <2>10, <4>1, <4>2
    <3>. QED BY <3>1, <3>2, <3>3
  <2>11. \A j, l \in 1..(k + 1) : t[j] = t[l] => j = l
    <3>1. ASSUME NEW j \in 1..(k + 1), NEW l \in 1..(k + 1), j # l PROVE t[j] # t[l]
      <4>1. j < l \/ l < j
        BY <3>1
      <4>. QED BY <2>9, <4>1
    <3>. QED BY <3>1
  <2>12. t \in Seq(X) /\ Len(t) = k + 1
    <3>1. i \in X
      BY <2>2
    <3>2. s \in Seq(X)
      BY <2>5
    <3>. HIDE DEF Good, X, i
    <3>3. Len(t) = Len(s) + 1
      BY <2>4, <2>6 DEF PutIn
    <3>. QED BY <2>4, <2>5, <3>1, <3>2, <3>3, InsertedIs
  <2>13. Good(t, k + 1)
    <3>. HIDE DEF X
    <3>. QED BY <2>8, <2>10, <2>11, <2>12
  <2>. HIDE DEF Good
  <2>. QED BY <2>13 DEF t
<1>. DEFINE o == c[n]
<1>10. Good(o, n)
  <2>1. Nat \subseteq K
    <3>. HIDE DEF K
    <3>. QED BY <1>8, <1>9, SetInduction
  <2>2. n <= n
    OBVIOUS
  <2>. HIDE DEF Good
  <2>. QED BY <2>1, <2>2
<1>. HIDE DEF o
<1>11. o \in [1..n -> 1..n]
  BY <1>10
<1>12. \A i \in 1..n : \E k \in 1..n : o[k] = i
  <2>. DEFINE S == 1..n
  <2>1. IsFiniteSet(S) /\ Cardinality(S) = n
    BY FS_Interval
  <2>2. o \in [1..Cardinality(S) -> S] /\ \A i, j \in 1..Cardinality(S) : i # j => o[i] # o[j]
    BY <1>10, <1>11, <2>1
  <2>. HIDE DEF S, Good
  <2>3. \A x \in S : \E i \in 1..Cardinality(S) : o[i] = x
    BY <2>1, <2>2, OrderingsCover
  <2>. QED BY <2>1, <2>3 DEF S
<1>13. o = InsertionSort(n, less)
  BY <1>6 DEF o
<1>14. /\ \A j, k \in 1..n : o[j] = o[k] => j = k
       /\ WeakOrder(less, 1..n) => \A j, k \in 1..n : j < k => <<o[k], o[j]>> \notin less
  BY <1>10
<1>. HIDE DEF Good
<1>. QED BY <1>11, <1>12, <1>13, <1>14

\* s in another order
Arranged(s, order) == [k \in DOMAIN s |-> s[order[k]]]

\* What a sort returns has the elements of what it got, each as often.
LEMMA ArrangedIs ==
  ASSUME NEW X, NEW s \in Seq(X), NEW less
  PROVE  LET order == InsertionSort(Len(s), less)
             t == Arranged(s, order)
         IN  /\ t \in Seq(X) /\ Len(t) = Len(s) /\ DOMAIN t = DOMAIN s
             /\ order \in [DOMAIN s -> DOMAIN s]
             /\ \A k \in DOMAIN s : t[k] = s[order[k]]
             /\ \A j, k \in DOMAIN s : order[j] = order[k] => j = k
             /\ \A i \in DOMAIN s : \E k \in DOMAIN s : order[k] = i
<1>. DEFINE n == Len(s)
            order == InsertionSort(n, less)
            t == Arranged(s, order)
<1>1. n \in Nat /\ DOMAIN s = 1..n /\ \A k \in 1..n : s[k] \in X
  OBVIOUS
<1>. HIDE DEF n
<1>2. /\ order \in [1..n -> 1..n]
      /\ \A j, k \in 1..n : order[j] = order[k] => j = k
      /\ \A i \in 1..n : \E k \in 1..n : order[k] = i
  BY <1>1, InsertionSorts
<1>. HIDE DEF order
<1>3. t = [k \in 1..n |-> s[order[k]]]
  BY <1>1 DEF Arranged
<1>4. t \in [1..n -> X]
  BY <1>1, <1>2, <1>3
<1>. HIDE DEF t
<1>5. t \in Seq(X) /\ Len(t) = n /\ DOMAIN t = 1..n
  BY <1>1, <1>4, ListOf
<1>. QED BY <1>1, <1>2, <1>3, <1>5 DEF n, order, t

\* SetToSeq lists a finite set.
LEMMA SetToSeqIs ==
  ASSUME NEW S, IsFiniteSet(S)
  PROVE  /\ SetToSeq(S) \in Seq(S) /\ Len(SetToSeq(S)) = Cardinality(S)
         /\ DOMAIN SetToSeq(S) = 1..Cardinality(S) /\ Cardinality(S) \in Nat
         /\ \A i, j \in DOMAIN SetToSeq(S) : SetToSeq(S)[i] = SetToSeq(S)[j] => i = j
         /\ \A x \in S : \E i \in DOMAIN SetToSeq(S) : SetToSeq(S)[i] = x
<1>. DEFINE n == Cardinality(S)
            f == SetToSeq(S)
<1>1. n \in Nat /\ ExistsBijection(1..n, S)
  BY FS_CardinalityType
<1>2. f \in [1..n -> S] /\ IsInjective(f)
  <2>1. \E g \in [1..n -> S] : IsInjective(g)
    BY <1>1 DEF ExistsBijection, Bijection, Injection
  <2>. QED BY <2>1 DEF SetToSeq
<1>. HIDE DEF f
<1>3. f \in Seq(S) /\ Len(f) = n /\ DOMAIN f = 1..n
  <2>. HIDE DEF n
  <2>. QED BY <1>1, <1>2, ListOf
<1>4. \A i, j \in 1..n : f[i] = f[j] => i = j
  BY <1>2, <1>3 DEF IsInjective
<1>5. \A x \in S : \E i \in 1..n : f[i] = x
  <2>1. \A i, j \in 1..n : i # j => f[i] # f[j]
    BY <1>4
  <2>. QED BY <1>2, <2>1, OrderingsCover
<1>. QED BY <1>1, <1>3, <1>4, <1>5 DEF f

\* A list of a set without repetition has all of it.
LEMMA SetToSeqsAre ==
  ASSUME NEW S, IsFiniteSet(S), NEW f \in SetToSeqs(S)
  PROVE  /\ f \in Seq(S) /\ Len(f) = Cardinality(S) /\ DOMAIN f = 1..Cardinality(S) /\ Cardinality(S) \in Nat
         /\ \A i, j \in DOMAIN f : f[i] = f[j] => i = j
         /\ \A x \in S : \E i \in DOMAIN f : f[i] = x
<1>. DEFINE n == Cardinality(S)
<1>1. n \in Nat
  BY FS_CardinalityType
<1>2. f \in [1..n -> S] /\ \A i, j \in 1..n : i # j => f[i] # f[j]
  BY DEF SetToSeqs
<1>3. \A x \in S : \E i \in 1..n : f[i] = x
  BY <1>2, OrderingsCover
<1>. HIDE DEF n
<1>4. f \in Seq(S) /\ Len(f) = n /\ DOMAIN f = 1..n
  BY <1>1, <1>2, ListOf
<1>. QED BY <1>1, <1>2, <1>3, <1>4 DEF n

-----------------------------------------------------------------------------
(* Sums, and the number of indexes                                         *)

\* The sum of a list is the last of its partial sums.
LEMMA TotalIs ==
  ASSUME NEW s \in Seq(Int)
  PROVE  \E f \in [0..Len(s) -> Int] :
           f[0] = 0 /\ (\A i \in 1..Len(s) : f[i] = f[i - 1] + s[i]) /\ Total(s) = f[Len(s)]
<1>. DEFINE n == Len(s)
            step == [i \in 1..n |-> [x \in Int |-> x + s[i]]]
            Is(f) == f = [i \in 0..n |-> IF i = 0 THEN 0 ELSE f[i - 1] + s[i]]
            c == CHOOSE f : Is(f)
<1>1. n \in Nat /\ \A i \in 1..n : s[i] \in Int
  OBVIOUS
<1>2. step \in [1..n -> [Int -> Int]]
  BY <1>1
<1>3. PICK f \in [0..n -> Int] : f[0] = 0 /\ \A i \in 1..n : f[i] = step[i][f[i - 1]]
  <2>. DEFINE base == 0
              S == Int
  <2>1. base \in S /\ step \in [1..n -> [S -> S]]
    BY <1>2
  <2>. HIDE DEF step, n, base, S
  <2>2. Recursions(n, S, base, step) # {}
    BY <1>1, <2>1, RecursionExists
  <2>. QED BY <2>2 DEF Recursions, base, S
<1>4. Is(f)
  <2>1. ASSUME NEW i \in 1..n PROVE f[i] = f[i - 1] + s[i]
    <3>1. f[i - 1] \in Int
      BY <1>1, <1>3
    <3>2. step[i][f[i - 1]] = f[i - 1] + s[i]
      BY <3>1
    <3>. QED BY <1>3, <3>2
  <2>. HIDE DEF n, step
  <2>. QED BY <1>3, <2>1
<1>5. Is(c)
  <2>. HIDE DEF Is
  <2>. QED BY <1>4
<1>6. Total(s) = c[n]
  BY DEF Total
<1>. HIDE DEF c
<1>7. c[0] = 0 /\ \A i \in 1..n : c[i] = c[i - 1] + s[i]
  BY <1>1, <1>5
<1>8. c = [i \in 0..n |-> c[i]]
  BY <1>5
<1>. HIDE DEF Is
<1>. DEFINE K == {k \in Nat : k <= n => c[k] \in Int}
<1>9. 0 \in K
  BY <1>7
<1>10. ASSUME NEW k \in Nat, k \in K PROVE k + 1 \in K
  <2>1. SUFFICES ASSUME k + 1 <= n PROVE c[k + 1] \in Int
    OBVIOUS
  <2>2. k + 1 \in 1..n /\ (k + 1) - 1 = k /\ k <= n
    BY <1>1, <2>1
  <2>3. c[k + 1] = c[k] + s[k + 1]
    BY <1>7, <2>2
  <2>. QED BY <1>1, <1>10, <2>2, <2>3
<1>11. Nat \subseteq K
  <2>. HIDE DEF K
  <2>. QED BY <1>9, <1>10, SetInduction
<1>12. c \in [0..n -> Int]
  <2>1. \A i \in 0..n : c[i] \in Int
    BY <1>1, <1>11
  <2>. QED BY <1>8, <2>1
<1>. QED BY <1>6, <1>7, <1>12

\* The sum of a list of integers is one.
LEMMA TotalType == ASSUME NEW s \in Seq(Int) PROVE Total(s) \in Int
<1>1. Len(s) \in Nat
  OBVIOUS
<1>. QED BY <1>1, TotalIs

\* Of a list of zeros it is zero.
LEMMA TotalOfZeros ==
  ASSUME NEW s \in Seq(Int), \A i \in DOMAIN s : s[i] = 0
  PROVE  Total(s) = 0
<1>1. PICK f \in [0..Len(s) -> Int] :
        f[0] = 0 /\ (\A i \in 1..Len(s) : f[i] = f[i - 1] + s[i]) /\ Total(s) = f[Len(s)]
  BY TotalIs
<1>2. Len(s) \in Nat /\ \A i \in 1..Len(s) : s[i] = 0
  OBVIOUS
<1>. DEFINE n == Len(s)
            K == {k \in Nat : k <= n => f[k] = 0}
<1>3. 0 \in K
  BY <1>1
<1>4. ASSUME NEW k \in Nat, k \in K PROVE k + 1 \in K
  <2>1. SUFFICES ASSUME k + 1 <= n PROVE f[k + 1] = 0
    OBVIOUS
  <2>2. k + 1 \in 1..n /\ (k + 1) - 1 = k /\ k <= n
    BY <1>2, <2>1
  <2>. QED BY <1>1, <1>2, <1>4, <2>2
<1>5. Nat \subseteq K
  <2>. HIDE DEF K
  <2>. QED BY <1>3, <1>4, SetInduction
<1>. QED BY <1>1, <1>2, <1>5

\* A list that differs from another in one element has a sum that differs by as much.
LEMMA TotalOfChanged ==
  ASSUME NEW s \in Seq(Int), NEW t \in Seq(Int), Len(s) = Len(t), NEW m \in 1..Len(s),
         \A i \in 1..Len(s) : i # m => t[i] = s[i]
  PROVE  Total(t) = Total(s) + t[m] - s[m]
<1>1. PICK f \in [0..Len(s) -> Int] :
        f[0] = 0 /\ (\A i \in 1..Len(s) : f[i] = f[i - 1] + s[i]) /\ Total(s) = f[Len(s)]
  BY TotalIs
<1>2. PICK g \in [0..Len(s) -> Int] :
        g[0] = 0 /\ (\A i \in 1..Len(s) : g[i] = g[i - 1] + t[i]) /\ Total(t) = g[Len(s)]
  BY TotalIs
<1>3. Len(s) \in Nat /\ \A i \in 1..Len(s) : s[i] \in Int /\ t[i] \in Int
  OBVIOUS
<1>. DEFINE n == Len(s)
            K == {k \in Nat : k <= n => g[k] = IF k < m THEN f[k] ELSE f[k] + t[m] - s[m]}
<1>4. 0 \in K
  BY <1>1, <1>2
<1>5. ASSUME NEW k \in Nat, k \in K PROVE k + 1 \in K
  <2>1. SUFFICES ASSUME k + 1 <= n PROVE g[k + 1] = IF k + 1 < m THEN f[k + 1] ELSE f[k + 1] + t[m] - s[m]
    OBVIOUS
  <2>2. k + 1 \in 1..n /\ (k + 1) - 1 = k /\ k <= n /\ k \in 0..n
    BY <1>3, <2>1
  <2>3. f[k + 1] = f[k] + s[k + 1] /\ g[k + 1] = g[k] + t[k + 1]
    BY <1>1, <1>2, <2>2
  <2>4. f[k] \in Int /\ g[k] \in Int /\ s[k + 1] \in Int /\ t[k + 1] \in Int /\ s[m] \in Int /\ t[m] \in Int
    BY <1>3, <2>2
  <2>5. g[k] = IF k < m THEN f[k] ELSE f[k] + t[m] - s[m]
    BY <1>5, <2>2
  <2>6. k + 1 # m => t[k + 1] = s[k + 1]
    BY <2>2
  <2>. HIDE DEF n, K
  <2>. QED BY <2>3, <2>4, <2>5, <2>6, SMTT(30)
<1>6. Nat \subseteq K
  <2>. HIDE DEF K
  <2>. QED BY <1>4, <1>5, SetInduction
<1>. QED BY <1>1, <1>2, <1>3, <1>6

\* The first elements of a list.
LEMMA CutIs ==
  ASSUME NEW X, NEW s \in Seq(X), NEW n \in Int
  PROVE  /\ Cut(s, n) \in Seq(X)
         /\ Len(Cut(s, n)) = IF n < 0 THEN 0 ELSE IF n < Len(s) THEN n ELSE Len(s)
         /\ \A k \in DOMAIN Cut(s, n) : k \in DOMAIN s /\ Cut(s, n)[k] = s[k]
<1>1. Len(s) \in Nat /\ DOMAIN s = 1..Len(s) /\ \A i \in 1..Len(s) : s[i] \in X
  OBVIOUS
<1>2. CASE n < Len(s)
  <2>1. \A i \in 1..n : s[i] \in X
    BY <1>1, <1>2
  <2>2. /\ SubSeq(s, 1, n) \in Seq(X)
        /\ Len(SubSeq(s, 1, n)) = IF 1 <= n THEN n - 1 + 1 ELSE 0
        /\ \A i \in 1..(n - 1 + 1) : SubSeq(s, 1, n)[i] = s[1 + i - 1]
    BY <2>1, SubSeqProperties
  <2>. DEFINE t == SubSeq(s, 1, n)
  <2>3. DOMAIN t = 1..Len(t)
    BY <2>2
  <2>. HIDE DEF t
  <2>4. Cut(s, n) = t
    BY <1>2 DEF Cut, t
  <2>5. t \in Seq(X) /\ Len(t) = IF n < 0 THEN 0 ELSE n
    BY <2>2 DEF t
  <2>6. ASSUME NEW k \in 1..Len(t) PROVE k \in 1..Len(s) /\ t[k] = s[k]
    <3>1. k \in 1..(n - 1 + 1) /\ 1 + k - 1 = k /\ k \in 1..Len(s)
      BY <1>1, <1>2, <2>5
    <3>. QED BY <2>2, <3>1 DEF t
  <2>. QED BY <1>1, <1>2, <2>3, <2>4, <2>5, <2>6
<1>3. CASE ~(n < Len(s))
  <2>1. Cut(s, n) = s
    BY <1>3 DEF Cut
  <2>. QED BY <1>1, <1>3, <2>1
<1>. QED BY <1>2, <1>3
=============================================================================

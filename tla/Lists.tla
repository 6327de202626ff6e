------------------------------- MODULE Lists -------------------------------
(***************************************************************************)
(* Lists: parts of them, their sums and their order. All is written with   *)
(* recursive functions and sets of positions, which can be reasoned about. *)
(***************************************************************************)
EXTENDS Integers, SequencesExt

\* A sequence, of whatever.
IsList(s) == s \in Seq(Range(s))

\* The elements of s at the given indexes, in their order.
Picked(s, indexes) ==
  FlattenSeq([i \in DOMAIN s |-> IF i \in indexes THEN <<s[i]>> ELSE <<>>])

\* if n < len(s) { s = s[:n] }
Cut(s, n) == IF n < Len(s) THEN SubSeq(s, 1, n) ELSE s

Total(s) ==
  LET sum[i \in 0..Len(s)] == IF i = 0 THEN 0 ELSE sum[i - 1] + s[i]
  IN  sum[Len(s)]

\* The order of tuples.
Below(u, v) == \E i \in DOMAIN u : u[i] < v[i] /\ \A j \in 1..(i - 1) : u[j] = v[j]

\* Behind the last of those sorted so far that i does not go before.
Inserted(sorted, i, less) ==
  InsertAt(sorted, 1 + Max({0} \cup {k \in DOMAIN sorted : <<i, sorted[k]>> \notin less}), i)

\* 1..n in the order in which an insertion sort leaves them, whatever the pairs in
\* less are, of which the first shall go before the second.
InsertionSort(n, less) ==
  LET sorted[i \in 0..n] == IF i = 0 THEN <<>> ELSE Inserted(sorted[i - 1], i, less)
  IN  sorted[n]

Order(s, Less(_, _)) ==
  InsertionSort(Len(s), {p \in (DOMAIN s) \X (DOMAIN s) : Less(s[p[1]], s[p[2]])})

\* slices.SortFunc, which is this sort for at most 12 elements.
SortFunc(s, Less(_, _)) ==
  LET order == Order(s, Less) IN [k \in DOMAIN s |-> s[order[k]]]

\* The elements of a set, sorted.
SortSet(S, Less(_, _)) == SortFunc(SetToSeq(S), Less)
=============================================================================

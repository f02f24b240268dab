----------------------------- MODULE Enumeration -----------------------------
(***************************************************************************)
(* Sets of numbers in order, the elements of a sequence without            *)
(* repetitions, and sums, in the form that proofs can use: the community   *)
(* operators for them rest on SortSeq of the module TLC and on folds.      *)
(***************************************************************************)
EXTENDS Naturals, Sequences, FiniteSets

\* sorted(): the elements of a finite set of numbers, the smallest first.
InOrder(S) ==
  CHOOSE p \in [1 .. Cardinality(S) -> S] :
    \A i, j \in 1 .. Cardinality(S) : i < j => p[i] < p[j]

\* The places of a sequence at which an element that is not in S occurs first.
FirstPlaces(s, S) ==
  {i \in DOMAIN s : s[i] \notin S /\ \A j \in 1 .. (i - 1) : s[j] # s[i]}

\* The elements of a sequence that are not in S, each at its first place.
Missing(s, S) ==
  LET places == InOrder(FirstPlaces(s, S))
  IN  [k \in 1 .. Cardinality(FirstPlaces(s, S)) |-> s[places[k]]]

\* The sum of a sequence of numbers.
SumOf(s) ==
  LET upTo[n \in 0 .. Len(s)] == IF n = 0 THEN 0 ELSE upTo[n - 1] + s[n]
  IN  upTo[Len(s)]
=============================================================================

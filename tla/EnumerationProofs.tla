-------------------------- MODULE EnumerationProofs --------------------------
(***************************************************************************)
(* Lemmas about Enumeration: what is chosen exists.                        *)
(***************************************************************************)
EXTENDS Enumeration, TLAPS, FiniteSetTheorems, WellFoundedInduction

\* Every set of numbers that is not empty has a least element.
LEMMA LeastNumber ==
  ASSUME NEW S \in SUBSET Nat, S # {}
  PROVE  \E x \in S : \A y \in S : x <= y
<1>1. PICK x \in S : \A y \in S : ~(<<y, x>> \in OpToRel(<, Nat))
  BY NatLessThanWellFounded, WFMin
<1>2. ASSUME NEW y \in S PROVE x <= y
  <2>1. ~(y < x)
    BY <1>1 DEF OpToRel
  <2> QED
    BY <2>1
<1> QED
  BY <1>2

\* A list of n numbers in order.
Lists(p, n, S) ==
  /\ p \in [1 .. n -> S]
  /\ \A i, j \in 1 .. n : i < j => p[i] < p[j]

\* A list in order with a greater number at its end is in order.
LEMMA OneMore ==
  ASSUME NEW S \in SUBSET Nat, NEW x \in S, \A y \in S : x <= y,
         NEW n \in Nat, NEW p, Lists(p, n, S \ {x})
  PROVE  \E q : Lists(q, n + 1, S)
<1> DEFINE q == [i \in 1 .. (n + 1) |-> IF i = 1 THEN x ELSE p[i - 1]]
<1>1. ASSUME NEW i \in 1 .. (n + 1), i # 1
      PROVE  i - 1 \in 1 .. n /\ p[i - 1] \in S \ {x} /\ q[i] = p[i - 1]
  BY <1>1 DEF Lists
<1>2. q \in [1 .. (n + 1) -> S]
  BY <1>1
<1>3. ASSUME NEW i \in 1 .. (n + 1), NEW j \in 1 .. (n + 1), i < j
      PROVE  q[i] < q[j]
  <2>1. j # 1
    BY <1>3
  <2>2. q[j] = p[j - 1] /\ p[j - 1] \in S \ {x} /\ j - 1 \in 1 .. n
    BY <1>1, <2>1
  <2>3. CASE i = 1
    <3>1. q[i] = x /\ x \in Nat /\ q[j] \in Nat
      BY <2>2, <2>3
    <3>2. x <= q[j] /\ q[j] # x
      BY <2>2
    <3> QED
      BY <3>1, <3>2
  <2>4. CASE i # 1
    <3>1. q[i] = p[i - 1] /\ i - 1 \in 1 .. n
      BY <1>1, <2>4
    <3> QED
      BY <1>3, <2>2, <3>1 DEF Lists
  <2> QED
    BY <2>3, <2>4
<1> HIDE DEF q
<1> QED
  BY <1>2, <1>3 DEF Lists

\* A finite set of numbers can be listed in order: there is no least number of
\* elements for which it cannot.
LEMMA InOrderExists ==
  ASSUME NEW S \in SUBSET Nat, IsFiniteSet(S)
  PROVE  \E p : Lists(p, Cardinality(S), S)
<1> DEFINE Unlisted(T) == IsFiniteSet(T) /\ ~\E p : Lists(p, Cardinality(T), T)
           Sizes == {n \in Nat : \E T \in SUBSET Nat :
                                   Unlisted(T) /\ Cardinality(T) = n}
<1>1. CASE Sizes # {}
  <2>1. PICK n \in Sizes : \A k \in Sizes : n <= k
    BY <1>1, LeastNumber
  <2>2. PICK T \in SUBSET Nat : Unlisted(T) /\ Cardinality(T) = n
    BY <2>1
  <2>3. n \in Nat
    BY <2>1
  <2>4. T # {}
    <3> SUFFICES ASSUME T = {} PROVE FALSE
      OBVIOUS
    <3>1. Cardinality(T) = 0
      BY FS_EmptySet
    <3> DEFINE p == [i \in 1 .. 0 |-> 0]
    <3>2. Lists(p, 0, T)
      BY DEF Lists
    <3> QED
      BY <2>2, <3>1, <3>2
  <2>5. PICK x \in T : \A y \in T : x <= y
    BY <2>4, LeastNumber
  <2>6. IsFiniteSet(T \ {x}) /\ Cardinality(T \ {x}) = n - 1
    BY <2>2, FS_RemoveElement
  <2>7. n # 0
    BY <2>2, <2>4, FS_EmptySet
  <2>8. n - 1 \in Nat /\ n - 1 \notin Sizes
    BY <2>1, <2>3, <2>7
  <2>9. PICK p : Lists(p, n - 1, T \ {x})
    BY <2>6, <2>8
  <2>10. \E q : Lists(q, (n - 1) + 1, T)
    BY <2>5, <2>8, <2>9, OneMore
  <2>11. (n - 1) + 1 = n
    BY <2>3
  <2> QED
    BY <2>2, <2>10, <2>11
<1>2. CASE Sizes = {}
  <2>1. Cardinality(S) \in Nat
    BY FS_CardinalityType
  <2> QED
    BY <1>2, <2>1
<1> QED
  BY <1>1, <1>2

\* sorted() lists elements of the set, increasing.
LEMMA InOrderLists ==
  ASSUME NEW S \in SUBSET Nat, IsFiniteSet(S)
  PROVE  /\ InOrder(S) \in [1 .. Cardinality(S) -> S]
         /\ \A i, j \in 1 .. Cardinality(S) : i < j => InOrder(S)[i] < InOrder(S)[j]
         /\ Cardinality(S) \in Nat
<1>1. \E p \in [1 .. Cardinality(S) -> S] :
        \A i, j \in 1 .. Cardinality(S) : i < j => p[i] < p[j]
  BY InOrderExists DEF Lists
<1> QED
  BY <1>1, FS_CardinalityType DEF InOrder

\* A list of all elements in order leaves none out.
LEMMA ListsAll ==
  ASSUME NEW S \in SUBSET Nat, IsFiniteSet(S), NEW p,
         Lists(p, Cardinality(S), S), NEW x \in S
  PROVE  \E i \in 1 .. Cardinality(S) : p[i] = x
<1> DEFINE n == Cardinality(S)
<1>1. n \in Nat
  BY FS_CardinalityType
<1>2. p \in [1 .. n -> S]
  BY DEF Lists
<1>3. ASSUME NEW i \in 1 .. n, NEW j \in 1 .. n, p[i] = p[j]
      PROVE  i = j
  <2>1. p[i] \in Nat /\ p[j] \in Nat
    BY <1>2
  <2>2. ~(i < j) /\ ~(j < i)
    BY <1>3, <2>1 DEF Lists
  <2> QED
    BY <2>2
<1>4. p \in Injection(1 .. n, S)
  BY <1>2, <1>3 DEF Injection, IsInjective
<1>5. Cardinality(1 .. n) = n
  BY <1>1, FS_Interval
<1>6. p \in Surjection(1 .. n, S)
  BY <1>4, <1>5, FS_Injection
<1> QED
  BY <1>6 DEF Surjection

\* There is only one list in order.
LEMMA ListsOnce ==
  ASSUME NEW S \in SUBSET Nat, IsFiniteSet(S), NEW p, NEW q,
         Lists(p, Cardinality(S), S), Lists(q, Cardinality(S), S)
  PROVE  p = q
<1> DEFINE n == Cardinality(S)
           Bad == {i \in 1 .. n : p[i] # q[i]}
<1>1. n \in Nat
  BY FS_CardinalityType
<1>2. p \in [1 .. n -> S] /\ q \in [1 .. n -> S]
  BY DEF Lists
<1>3. ASSUME NEW f, NEW g, Lists(f, n, S), Lists(g, n, S), NEW i \in 1 .. n,
             \A k \in 1 .. n : k < i => f[k] = g[k], f[i] < g[i]
      PROVE  FALSE
  <2>1. f[i] \in S /\ g \in [1 .. n -> S] /\ f \in [1 .. n -> S]
    BY <1>3 DEF Lists
  <2> DEFINE y == f[i]
  <2>2. Lists(g, Cardinality(S), S) /\ y \in S
    BY <1>3, <2>1
  <2> HIDE DEF y
  <2>3. \E j \in 1 .. n : g[j] = y
    BY <2>2, ListsAll
  <2>4. PICK j \in 1 .. n : g[j] = f[i]
    BY <2>3 DEF y
  <2>5. g[j] \in Nat /\ g[i] \in Nat
    BY <2>1
  <2>6. ~(i < j) /\ i # j
    BY <1>3, <2>4, <2>5 DEF Lists
  <2>7. j < i
    BY <2>6
  <2>8. f[j] = f[i] /\ f[j] < f[i] /\ f[i] \in Nat
    BY <1>3, <2>1, <2>4, <2>7 DEF Lists
  <2> QED
    BY <2>8
<1>4. CASE Bad # {}
  <2>1. Bad \in SUBSET Nat
    BY <1>1
  <2>2. PICK i \in Bad : \A k \in Bad : i <= k
    BY <1>4, <2>1, LeastNumber
  <2>3. i \in 1 .. n /\ p[i] # q[i] /\ p[i] \in Nat /\ q[i] \in Nat
    BY <1>2
  <2>4. \A k \in 1 .. n : k < i => p[k] = q[k] /\ q[k] = p[k]
    BY <2>2
  <2>5. p[i] < q[i] \/ q[i] < p[i]
    BY <2>3
  <2> HIDE DEF Bad
  <2> QED
    BY <1>3, <2>3, <2>4, <2>5
<1>5. CASE Bad = {}
  <2>1. \A i \in 1 .. n : p[i] = q[i]
    BY <1>5
  <2>2. /\ p = [i \in 1 .. n |-> p[i]]
        /\ q = [i \in 1 .. n |-> q[i]]
    BY <1>2
  <2>3. [i \in 1 .. n |-> p[i]] = [i \in 1 .. n |-> q[i]]
    BY <2>1
  <2> QED
    BY <2>2, <2>3, Zenon
<1> QED
  BY <1>4, <1>5

\* A number above all others comes last.
LEMMA InOrderOneMore ==
  ASSUME NEW S \in SUBSET Nat, IsFiniteSet(S), NEW x \in Nat,
         \A y \in S : y < x
  PROVE  /\ Cardinality(S \cup {x}) = Cardinality(S) + 1
         /\ Cardinality(S) \in Nat
         /\ \A i \in 1 .. Cardinality(S) : InOrder(S \cup {x})[i] = InOrder(S)[i]
         /\ InOrder(S \cup {x})[Cardinality(S) + 1] = x
<1> DEFINE T == S \cup {x}
           n == Cardinality(S)
           p == InOrder(S)
           q == [i \in 1 .. (n + 1) |-> IF i = n + 1 THEN x ELSE p[i]]
<1>1. x \notin S
  OBVIOUS
<1>2. n \in Nat /\ IsFiniteSet(T) /\ Cardinality(T) = n + 1
  BY <1>1, FS_CardinalityType, FS_AddElement
<1>3. /\ p \in [1 .. n -> S]
      /\ \A i, j \in 1 .. n : i < j => p[i] < p[j]
  BY InOrderLists
<1> HIDE DEF n, p
<1>4. q \in [1 .. (n + 1) -> T]
  <2>1. \A i \in 1 .. (n + 1) : i # n + 1 => i \in 1 .. n
    BY <1>2
  <2> QED
    BY <1>3, <2>1
<1>5. ASSUME NEW i \in 1 .. (n + 1), NEW j \in 1 .. (n + 1), i < j
      PROVE  q[i] < q[j]
  <2>1. i \in 1 .. n /\ i # n + 1
    BY <1>2, <1>5
  <2>2. q[i] = p[i] /\ p[i] \in S
    BY <1>3, <2>1
  <2>3. CASE j = n + 1
    BY <2>2, <2>3
  <2>4. CASE j # n + 1
    <3>1. j \in 1 .. n
      BY <1>2, <2>4
    <3> QED
      BY <1>3, <1>5, <2>1, <2>2, <2>4, <3>1
  <2> QED
    BY <2>3, <2>4
<1>6. Lists(q, Cardinality(T), T)
  <2> HIDE DEF q
  <2> QED
    BY <1>2, <1>4, <1>5 DEF Lists
<1>7. Lists(InOrder(T), Cardinality(T), T)
  BY <1>2, InOrderLists DEF Lists
<1>8. InOrder(T) = q
  BY <1>2, <1>6, <1>7, ListsOnce
<1>9. \A i \in 1 .. n : i \in 1 .. (n + 1) /\ i # n + 1
  BY <1>2
<1>10. n + 1 \in 1 .. (n + 1)
  BY <1>2
<1> QED
  BY <1>2, <1>8, <1>9, <1>10 DEF n, p

\* What Missing() keeps of a sequence is of the sequence, not in the set, and there
\* once.
LEMMA MissingElements ==
  ASSUME NEW A, NEW s \in Seq(A), NEW S
  PROVE  /\ Missing(s, S) \in Seq(A)
         /\ \A i \in DOMAIN Missing(s, S) :
              Missing(s, S)[i] \notin S /\ \E k \in DOMAIN s : s[k] = Missing(s, S)[i]
         /\ \A i, j \in DOMAIN Missing(s, S) :
              i # j => Missing(s, S)[i] # Missing(s, S)[j]
<1> DEFINE P == FirstPlaces(s, S)
           p == InOrder(P)
<1>1. P \in SUBSET (1 .. Len(s)) /\ P \in SUBSET Nat
  BY DEF FirstPlaces
<1>2. IsFiniteSet(P)
  BY <1>1, FS_Interval, FS_Subset
<1>3. /\ p \in [1 .. Cardinality(P) -> P]
      /\ \A i, j \in 1 .. Cardinality(P) : i < j => p[i] < p[j]
      /\ Cardinality(P) \in Nat
  BY <1>1, <1>2, InOrderLists
<1>4. Missing(s, S) = [k \in 1 .. Cardinality(P) |-> s[p[k]]]
  BY DEF Missing
<1>5. \A i \in P : i \in 1 .. Len(s) /\ s[i] \in A /\ s[i] \notin S
  BY <1>1 DEF FirstPlaces
<1>6. \A i, j \in P : j < i => s[j] # s[i]
  BY <1>1 DEF FirstPlaces
<1> HIDE DEF P, p
<1>7. \A k \in 1 .. Cardinality(P) : p[k] \in P
  BY <1>3
<1>8. Missing(s, S) \in Seq(A) /\ DOMAIN Missing(s, S) = 1 .. Cardinality(P)
  BY <1>3, <1>4, <1>5, <1>7
<1>9. \A i, j \in 1 .. Cardinality(P) : i # j => s[p[i]] # s[p[j]]
  <2> SUFFICES ASSUME NEW i \in 1 .. Cardinality(P),
                      NEW j \in 1 .. Cardinality(P), i # j
               PROVE  s[p[i]] # s[p[j]]
    OBVIOUS
  <2>1. i < j \/ j < i
    BY <1>3
  <2>2. p[i] < p[j] \/ p[j] < p[i]
    BY <1>3, <2>1
  <2> QED
    BY <1>6, <1>7, <2>2
<1> QED
  BY <1>4, <1>5, <1>7, <1>8, <1>9

-----------------------------------------------------------------------------
(* Sums.                                                                   *)

\* The sums of the beginnings of a sequence.
Sums(f, s) == f = [n \in 0 .. Len(s) |-> IF n = 0 THEN 0 ELSE f[n - 1] + s[n]]

\* Partial sums with one more are partial sums.
LEMMA OneMoreSum ==
  ASSUME NEW s \in Seq(Nat), Len(s) # 0, NEW f,
         Sums(f, SubSeq(s, 1, Len(s) - 1))
  PROVE  \E g : Sums(g, s)
<1> DEFINE t == SubSeq(s, 1, Len(s) - 1)
           m == Len(s) - 1
           g == [n \in 0 .. Len(s) |-> IF n = Len(s) THEN f[m] + s[Len(s)]
                                                     ELSE f[n]]
<1>1. m \in Nat /\ Len(s) = m + 1
  OBVIOUS
<1>2. Len(t) = m /\ \A n \in 1 .. m : t[n] = s[n]
  BY <1>1
<1> HIDE DEF m
<1>3. ASSUME NEW n \in 0 .. Len(s)
      PROVE  g[n] = IF n = 0 THEN 0 ELSE g[n - 1] + s[n]
  <2>1. CASE n = Len(s)
    <3>1. n # 0 /\ n - 1 = m /\ n - 1 # Len(s) /\ n - 1 \in 0 .. Len(s)
      BY <1>1, <2>1
    <3> QED
      BY <2>1, <3>1
  <2>2. CASE n # Len(s) /\ n # 0
    <3>1. /\ n \in 1 .. m /\ n \in 0 .. m
          /\ n - 1 \in 0 .. Len(s) /\ n - 1 # Len(s)
      BY <1>1, <2>2
    <3>2. n \in 0 .. Len(t) /\ n # 0
      BY <1>2, <2>2, <3>1
    <3>3. f[n] = f[n - 1] + t[n]
      BY <3>2 DEF Sums
    <3> QED
      BY <1>2, <2>2, <3>1, <3>3
  <2>3. CASE n # Len(s) /\ n = 0
    BY <1>1, <1>2, <2>3 DEF Sums
  <2> QED
    BY <2>1, <2>2, <2>3
<1>4. Sums(g, s)
  <2> DEFINE h == [n \in 0 .. Len(s) |-> IF n = 0 THEN 0 ELSE g[n - 1] + s[n]]
  <2>1. DOMAIN g = 0 .. Len(s) /\ \A n \in 0 .. Len(s) : g[n] = h[n]
    BY <1>3
  <2>2. g = h
    BY <2>1
  <2> QED
    BY <2>2 DEF Sums
<1> QED
  BY <1>4

\* Every sequence has partial sums: there is no shortest one without.
LEMMA SumsExist ==
  ASSUME NEW s \in Seq(Nat)
  PROVE  \E f : Sums(f, s)
<1> DEFINE Without(t) == t \in Seq(Nat) /\ ~\E f : Sums(f, t)
           Lengths == {n \in Nat : \E t : Without(t) /\ Len(t) = n}
<1>1. CASE Lengths # {}
  <2>1. PICK n \in Lengths : \A k \in Lengths : n <= k
    BY <1>1, LeastNumber
  <2>2. PICK t : Without(t) /\ Len(t) = n
    BY <2>1
  <2>3. CASE Len(t) = 0
    <3> DEFINE f == [i \in 0 .. 0 |-> 0]
    <3>1. f = [i \in 0 .. Len(t) |-> IF i = 0 THEN 0 ELSE f[i - 1] + t[i]]
      BY <2>3
    <3> QED
      BY <2>2, <3>1 DEF Sums
  <2>4. CASE Len(t) # 0
    <3> DEFINE u == SubSeq(t, 1, Len(t) - 1)
    <3>1. /\ u \in Seq(Nat) /\ Len(u) \in Nat /\ Len(u) < n
      BY <2>2, <2>4
    <3> HIDE DEF u
    <3>2. Len(u) \notin Lengths
      BY <2>1, <3>1
    <3>3. \E f : Sums(f, u)
      BY <3>1, <3>2
    <3> QED
      BY <2>2, <2>4, <3>3, OneMoreSum DEF u
  <2> QED
    BY <2>3, <2>4
<1>2. CASE Lengths = {}
  BY <1>2
<1> QED
  BY <1>1, <1>2

\* SumOf() is the last of the sums.
LEMMA SumIsLast ==
  ASSUME NEW s \in Seq(Nat)
  PROVE  \E f : Sums(f, s) /\ SumOf(s) = f[Len(s)]
<1> DEFINE upTo ==
      CHOOSE f : f = [n \in 0 .. Len(s) |-> IF n = 0 THEN 0 ELSE f[n - 1] + s[n]]
<1>1. Sums(upTo, s)
  BY SumsExist DEF Sums
<1>2. SumOf(s) = upTo[Len(s)]
  BY DEF SumOf
<1> QED
  BY <1>1, <1>2

\* Sums of the same numbers are the same.
LEMMA SumsAgree ==
  ASSUME NEW s \in Seq(Nat), NEW t \in Seq(Nat), Len(s) <= Len(t),
         \A n \in 1 .. Len(s) : s[n] = t[n],
         NEW f, NEW g, Sums(f, s), Sums(g, t)
  PROVE  \A n \in 0 .. Len(s) : f[n] = g[n] /\ f[n] \in Nat
<1> DEFINE Bad == {n \in 0 .. Len(s) : ~(f[n] = g[n] /\ f[n] \in Nat)}
<1>1. CASE Bad # {}
  <2>1. Bad \in SUBSET Nat
    OBVIOUS
  <2>2. PICK n \in Bad : \A k \in Bad : n <= k
    BY <1>1, <2>1, LeastNumber
  <2>3. n \in 0 .. Len(s) /\ n \in 0 .. Len(t)
    OBVIOUS
  <2>4. CASE n = 0
    BY <2>2, <2>3, <2>4 DEF Sums
  <2>5. CASE n # 0
    <3>1. n - 1 \in 0 .. Len(s) /\ n - 1 \notin Bad /\ n \in 1 .. Len(s)
      BY <2>2, <2>3, <2>5
    <3>2. f[n - 1] = g[n - 1] /\ f[n - 1] \in Nat
      BY <3>1
    <3>3. f[n] = f[n - 1] + s[n] /\ g[n] = g[n - 1] + t[n]
      BY <2>3, <2>5 DEF Sums
    <3>4. s[n] = t[n] /\ s[n] \in Nat
      BY <3>1
    <3> QED
      BY <2>2, <3>2, <3>3, <3>4
  <2> QED
    BY <2>4, <2>5
<1>2. CASE Bad = {}
  BY <1>2
<1> QED
  BY <1>1, <1>2

\* Nothing sums to zero, and one more number adds to the sum.
LEMMA SumOfNothing == SumOf(<<>>) = 0
<1>1. <<>> \in Seq(Nat) /\ Len(<<>>) = 0
  OBVIOUS
<1>2. PICK f : Sums(f, <<>>) /\ SumOf(<<>>) = f[0]
  BY <1>1, SumIsLast
<1>3. f[0] = 0
  BY <1>1, <1>2 DEF Sums
<1> QED
  BY <1>2, <1>3

\* The sum with one more number.
LEMMA SumOfOneMore ==
  ASSUME NEW s \in Seq(Nat), NEW x \in Nat
  PROVE  SumOf(Append(s, x)) = SumOf(s) + x /\ SumOf(s) \in Nat
<1> DEFINE t == Append(s, x)
<1>1. /\ t \in Seq(Nat) /\ Len(t) = Len(s) + 1 /\ Len(s) \in Nat
      /\ t[Len(s) + 1] = x /\ \A n \in 1 .. Len(s) : s[n] = t[n]
  OBVIOUS
<1>2. PICK f : Sums(f, s) /\ SumOf(s) = f[Len(s)]
  BY SumIsLast
<1> HIDE DEF t
<1>3. PICK g : Sums(g, t) /\ SumOf(t) = g[Len(t)]
  BY <1>1, SumIsLast
<1>4. f[Len(s)] = g[Len(s)] /\ f[Len(s)] \in Nat
  BY <1>1, <1>2, <1>3, SumsAgree
<1>5. /\ Len(s) + 1 \in 0 .. Len(t) /\ Len(s) + 1 # 0
      /\ (Len(s) + 1) - 1 = Len(s)
  BY <1>1
<1>6. g[Len(s) + 1] = g[Len(s)] + t[Len(s) + 1]
  BY <1>3, <1>5 DEF Sums
<1>7. SumOf(t) = SumOf(s) + x /\ SumOf(s) \in Nat
  BY <1>1, <1>2, <1>3, <1>4, <1>6
<1> QED
  BY <1>7 DEF t

\* A beginning sums to no more than the whole.
LEMMA SumOfBeginning ==
  ASSUME NEW s \in Seq(Nat), NEW k \in 0 .. Len(s)
  PROVE  SumOf(SubSeq(s, 1, k)) <= SumOf(s)
<1> DEFINE To(n) == SumOf(SubSeq(s, 1, n))
           Bad == {n \in k .. Len(s) : ~(To(k) <= To(n))}
<1>1. \A n \in 0 .. Len(s) : SubSeq(s, 1, n) \in Seq(Nat) /\ To(n) \in Nat
  <2>1. \A n \in 0 .. Len(s) : SubSeq(s, 1, n) \in Seq(Nat)
    OBVIOUS
  <2> QED
    BY <2>1, SumOfOneMore, 0 \in Nat
<1>2. CASE Bad # {}
  <2>1. Bad \in SUBSET Nat
    OBVIOUS
  <2>2. PICK n \in Bad : \A j \in Bad : n <= j
    BY <1>2, <2>1, LeastNumber
  <2>3. n \in 0 .. Len(s) /\ n # k /\ n > k
    BY <1>1
  <2>4. n - 1 \in k .. Len(s) /\ n - 1 \notin Bad /\ n - 1 \in 0 .. Len(s)
    BY <2>2, <2>3
  <2>5. SubSeq(s, 1, n) = Append(SubSeq(s, 1, n - 1), s[n]) /\ s[n] \in Nat
    BY <2>3
  <2>6. To(n) = To(n - 1) + s[n]
    BY <1>1, <2>4, <2>5, SumOfOneMore
  <2>7. To(k) <= To(n - 1)
    BY <2>4
  <2>8. To(k) \in Nat /\ To(n - 1) \in Nat
    BY <1>1, <2>4
  <2> HIDE DEF To
  <2>9. To(k) <= To(n)
    BY <2>5, <2>6, <2>7, <2>8
  <2> QED
    BY <2>2, <2>9
<1>3. CASE Bad = {}
  <2>1. To(k) <= To(Len(s))
    BY <1>3
  <2>2. SubSeq(s, 1, Len(s)) = s
    OBVIOUS
  <2> QED
    BY <2>1, <2>2
<1> QED
  BY <1>2, <1>3

-----------------------------------------------------------------------------
(* Sequences with other elements, and what Missing() finds.                *)

\* A function on the numbers up to n is a sequence.
LEMMA FunctionIsSequence ==
  ASSUME NEW Y, NEW n \in Nat, NEW f \in [1 .. n -> Y]
  PROVE  f \in Seq(Y) /\ Len(f) = n
OBVIOUS

\* A sequence is one of whatever set its elements are in.
LEMMA ElementsElsewhere ==
  ASSUME NEW Y, NEW f \in Seq(Y), NEW Z, \A i \in 1 .. Len(f) : f[i] \in Z
  PROVE  f \in Seq(Z)
<1>1. Len(f) \in Nat /\ DOMAIN f = 1 .. Len(f) /\ f \in [1 .. Len(f) -> Y]
  OBVIOUS
<1>2. f \in [1 .. Len(f) -> Z]
  BY <1>1
<1> QED
  BY <1>1, <1>2, FunctionIsSequence

\* And Missing() misses none of them.
LEMMA MissingAll ==
  ASSUME NEW A, NEW s \in Seq(A), NEW S, NEW k \in DOMAIN s, s[k] \notin S
  PROVE  \E i \in DOMAIN Missing(s, S) : Missing(s, S)[i] = s[k]
<1> DEFINE P == FirstPlaces(s, S)
           p == InOrder(P)
           Same == {j \in DOMAIN s : s[j] = s[k]}
<1>1. P \in SUBSET (1 .. Len(s)) /\ P \in SUBSET Nat
  BY DEF FirstPlaces
<1>2. IsFiniteSet(P)
  BY <1>1, FS_Interval, FS_Subset
<1>3. Lists(p, Cardinality(P), P) /\ Cardinality(P) \in Nat
  BY <1>1, <1>2, InOrderLists DEF Lists
<1>4. Missing(s, S) = [i \in 1 .. Cardinality(P) |-> s[p[i]]]
  BY DEF Missing
<1>5. PICK j \in Same : \A i \in Same : j <= i
  <2>1. Same \in SUBSET Nat /\ k \in Same
    OBVIOUS
  <2> QED
    BY <2>1, LeastNumber
<1>6. j \in P
  <2>1. j \in DOMAIN s /\ s[j] \notin S /\ j \in Nat
    BY <1>5
  <2>2. \A i \in 1 .. (j - 1) : i \in DOMAIN s /\ ~(j <= i)
    BY <2>1
  <2>3. \A i \in 1 .. (j - 1) : s[i] # s[j]
    BY <1>5, <2>2
  <2> QED
    BY <2>1, <2>3 DEF FirstPlaces
<1> HIDE DEF P, p
<1>7. PICK i \in 1 .. Cardinality(P) : p[i] = j
  BY <1>1, <1>2, <1>3, <1>6, ListsAll
<1> QED
  BY <1>4, <1>5, <1>7
=============================================================================

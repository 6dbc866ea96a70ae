--------------------------- MODULE OrderingProofs ---------------------------
(***************************************************************************)
(* What the operators of Ordering return, for every finite set and every   *)
(* sequence, and what FlattenSeq does.                                     *)
(*                                                                         *)
(* Orders need no induction: in a strict total order, what comes before    *)
(* one element is a proper subset of what comes before a later one, so the *)
(* numbers of predecessors differ, and a finite set has no more of them    *)
(* than it has elements: each number belongs to exactly one element.       *)
(*                                                                         *)
(* An order is given as the set of its pairs: the provers do not           *)
(* instantiate a lemma whose parameter is an operator.  For the same       *)
(* reason induction over the numbers is stated of a set of numbers, and    *)
(* rests on the first position a set of positions has.  It is what the     *)
(* recursive function behind FlattenSeq takes.                             *)
(***************************************************************************)
EXTENDS Ordering, FiniteSetTheorems, FunctionTheorems, SequenceTheorems,
        WellFoundedInduction, TLAPS

IsStrictOrder(R, S) ==
  /\ \A x \in S : <<x, x>> \notin R
  /\ \A x, y, z \in S : <<x, y>> \in R /\ <<y, z>> \in R => <<x, z>> \in R
  /\ \A x, y \in S : x = y \/ <<x, y>> \in R \/ <<y, x>> \in R

\* What comes before x in S.
Below(x, S, R) == {y \in S : <<y, x>> \in R}

\* Predecessors number fewer than elements, and more the later an element is.
LEMMA RankIncreases ==
  ASSUME NEW S, IsFiniteSet(S), NEW R, IsStrictOrder(R, S)
  PROVE  /\ \A x \in S : /\ IsFiniteSet(Below(x, S, R))
                         /\ Cardinality(Below(x, S, R)) \in 0..(Cardinality(S) - 1)
         /\ \A x, y \in S :
              <<x, y>> \in R => Cardinality(Below(x, S, R)) < Cardinality(Below(y, S, R))
<1>1. ASSUME NEW x \in S
      PROVE  /\ IsFiniteSet(Below(x, S, R))
             /\ Cardinality(Below(x, S, R)) \in 0..(Cardinality(S) - 1)
  <2>1. Below(x, S, R) \in SUBSET (S \ {x})
    BY DEF Below, IsStrictOrder
  <2>2. IsFiniteSet(S \ {x}) /\ Cardinality(S \ {x}) = Cardinality(S) - 1
    BY FS_RemoveElement
  <2>3. /\ IsFiniteSet(Below(x, S, R))
        /\ Cardinality(Below(x, S, R)) <= Cardinality(S) - 1
    BY <2>1, <2>2, FS_Subset
  <2>4. Cardinality(Below(x, S, R)) \in Nat /\ Cardinality(S) \in Nat
    BY <2>3, FS_CardinalityType
  <2>5. QED
    BY <2>3, <2>4
<1>2. ASSUME NEW x \in S, NEW y \in S, <<x, y>> \in R
      PROVE  Cardinality(Below(x, S, R)) < Cardinality(Below(y, S, R))
  <2>1. Below(x, S, R) \in SUBSET Below(y, S, R)
    BY <1>2 DEF Below, IsStrictOrder
  <2>2. x \in Below(y, S, R) /\ x \notin Below(x, S, R)
    BY <1>2 DEF Below, IsStrictOrder
  <2>3. Cardinality(Below(x, S, R)) <= Cardinality(Below(y, S, R))
    BY <1>1, <2>1, FS_Subset
  <2>4. Cardinality(Below(x, S, R)) # Cardinality(Below(y, S, R))
    BY <1>1, <2>1, <2>2, FS_Subset
  <2>5. Cardinality(Below(x, S, R)) \in Nat /\ Cardinality(Below(y, S, R)) \in Nat
    BY <1>1, FS_CardinalityType
  <2>6. QED
    BY <2>3, <2>4, <2>5
<1>3. QED
  BY <1>1, <1>2

\* Every number of predecessors below the number of elements is some element's.
LEMMA EveryRankIsTaken ==
  ASSUME NEW S, IsFiniteSet(S), NEW R, IsStrictOrder(R, S),
         NEW k \in 1..Cardinality(S)
  PROVE  \E x \in S : Cardinality(Below(x, S, R)) = k - 1
<1> DEFINE n == Cardinality(S)
           rank == [x \in S |-> Cardinality(Below(x, S, R)) + 1]
<1>1. n \in Nat
  BY FS_CardinalityType
<1>2. rank \in [S -> 1..n]
  <2>1. \A x \in S : Cardinality(Below(x, S, R)) \in 0..(n - 1)
    BY RankIncreases
  <2>2. \A x \in S : Cardinality(Below(x, S, R)) + 1 \in 1..n
    BY <1>1, <2>1
  <2>3. QED
    BY <2>2
<1>3. \A x, y \in S : rank[x] = rank[y] => x = y
  <2>1. SUFFICES ASSUME NEW x \in S, NEW y \in S, x # y, rank[x] = rank[y]
                 PROVE  FALSE
    OBVIOUS
  <2>2. <<x, y>> \in R \/ <<y, x>> \in R
    BY <2>1 DEF IsStrictOrder
  <2>3. /\ Cardinality(Below(x, S, R)) \in 0..(n - 1)
        /\ Cardinality(Below(y, S, R)) \in 0..(n - 1)
        /\ \/ Cardinality(Below(x, S, R)) < Cardinality(Below(y, S, R))
           \/ Cardinality(Below(y, S, R)) < Cardinality(Below(x, S, R))
    BY <2>2, RankIncreases
  <2>4. QED
    BY <1>1, <2>1, <2>3
<1>4. rank \in Injection(S, 1..n)
  <2> HIDE DEF rank
  <2> QED
    BY <1>2, <1>3, Fun_IsInj
<1>5. IsFiniteSet(1..n) /\ Cardinality(1..n) = n
  <2> HIDE DEF n
  <2>1. Cardinality(1..n) = IF 1 > n THEN 0 ELSE n - 1 + 1
    BY <1>1, FS_Interval
  <2>2. QED
    BY <1>1, <2>1, FS_Interval
<1>6. rank \in Surjection(S, 1..n)
  <2> HIDE DEF rank, n
  <2>1. Cardinality(S) = Cardinality(1..n)
    BY <1>5 DEF n
  <2>2. QED
    BY <1>4, <1>5, <2>1, FS_Injection
<1>7. PICK x \in S : rank[x] = k
  <2>1. k \in 1..n
    OBVIOUS
  <2> HIDE DEF rank, n
  <2>2. \A t \in 1..n : \E x \in S : rank[x] = t
    BY <1>6, Fun_SurjectionProperties
  <2>3. QED
    BY <2>1, <2>2
<1>8. Cardinality(Below(x, S, R)) \in 0..(n - 1)
  BY RankIncreases
<1>9. QED
  BY <1>1, <1>7, <1>8

\* A function that puts in the k-th place an element with k - 1 others before it
\* lists the whole set, from the first to the last.
IsListing(f, S, R) ==
  /\ f \in [1..Cardinality(S) -> S]
  /\ \A j, k \in 1..Cardinality(S) : j < k => <<f[j], f[k]>> \in R
  /\ \A x \in S : \E k \in 1..Cardinality(S) : f[k] = x

\* The sequence that has each element at its rank is one.
LEMMA ListedByRank ==
  ASSUME NEW S, IsFiniteSet(S), NEW R, IsStrictOrder(R, S),
         NEW f \in [1..Cardinality(S) -> S],
         \A k \in 1..Cardinality(S) : Cardinality(Below(f[k], S, R)) = k - 1
  PROVE  IsListing(f, S, R)
<1> DEFINE n == Cardinality(S)
<1>1. n \in Nat
  BY FS_CardinalityType
<1>2. ASSUME NEW k \in 1..n
      PROVE  f[k] \in S /\ Cardinality(Below(f[k], S, R)) = k - 1
  OBVIOUS
<1>4. ASSUME NEW x \in S, NEW y \in S,
             Cardinality(Below(x, S, R)) <= Cardinality(Below(y, S, R)), x # y
      PROVE  <<x, y>> \in R
  <2>1. <<x, y>> \in R \/ <<y, x>> \in R
    BY <1>4 DEF IsStrictOrder
  <2>2. /\ Cardinality(Below(x, S, R)) \in 0..(n - 1)
        /\ Cardinality(Below(y, S, R)) \in 0..(n - 1)
        /\ <<y, x>> \in R => Cardinality(Below(y, S, R)) < Cardinality(Below(x, S, R))
    BY RankIncreases
  <2>3. QED
    BY <1>1, <1>4, <2>1, <2>2
<1>5. ASSUME NEW j \in 1..n, NEW k \in 1..n, j < k
      PROVE  <<f[j], f[k]>> \in R
  <2>1. /\ f[j] \in S /\ Cardinality(Below(f[j], S, R)) = j - 1
        /\ f[k] \in S /\ Cardinality(Below(f[k], S, R)) = k - 1
    BY <1>2
  <2>2. f[j] # f[k] /\ j - 1 <= k - 1
    BY <1>1, <1>5, <2>1
  <2>3. QED
    BY <1>4, <2>1, <2>2
<1>6. ASSUME NEW x \in S
      PROVE  \E k \in 1..n : f[k] = x
  <2> DEFINE m == Cardinality(Below(x, S, R))
  <2>1. m \in 0..(n - 1)
    BY RankIncreases
  <2>2. m + 1 \in 1..n /\ (m + 1) - 1 = m
    BY <1>1, <2>1
  <2>3. f[m + 1] \in S /\ Cardinality(Below(f[m + 1], S, R)) = m
    BY <1>2, <2>2
  <2>4. f[m + 1] = x
    <3>1. SUFFICES ASSUME f[m + 1] # x PROVE FALSE
      OBVIOUS
    <3>2. <<x, f[m + 1]>> \in R /\ <<f[m + 1], x>> \in R
      BY <1>1, <1>4, <2>1, <2>3, <3>1
    <3>3. QED
      BY <2>3, <3>2 DEF IsStrictOrder
  <2>5. QED
    BY <2>2, <2>4
<1>7. QED
  BY <1>5, <1>6 DEF IsListing

-----------------------------------------------------------------------------
(* Positions, filters and sorts.                                              *)

\* Positions of a sequence, listed upwards.
LEMMA PositionsInOrder ==
  ASSUME NEW n \in Nat, NEW I \in SUBSET (1..n)
  PROVE  /\ IsFiniteSet(I) /\ Cardinality(I) \in 0..n
         /\ InOrder(I, <) \in [1..Cardinality(I) -> I]
         /\ \A j, k \in 1..Cardinality(I) : j < k => InOrder(I, <)[j] < InOrder(I, <)[k]
         /\ \A i \in I : \E k \in 1..Cardinality(I) : InOrder(I, <)[k] = i
<1> DEFINE R == {p \in I \X I : p[1] < p[2]}
           f == InOrder(I, <)
<1>1. IsFiniteSet(I) /\ Cardinality(I) \in 0..n
  <2>1. IsFiniteSet(1..n) /\ Cardinality(1..n) = IF 1 > n THEN 0 ELSE n - 1 + 1
    BY FS_Interval
  <2>2. IsFiniteSet(I) /\ Cardinality(I) <= Cardinality(1..n)
    BY <2>1, FS_Subset
  <2>3. Cardinality(I) \in Nat
    BY <2>2, FS_CardinalityType
  <2>4. QED
    BY <2>1, <2>2, <2>3
<1>2. \A x, y \in I : <<x, y>> \in R <=> x < y
  OBVIOUS
<1>3. IsStrictOrder(R, I)
  <2> HIDE DEF R
  <2> QED
    BY <1>2 DEF IsStrictOrder
<1>4. \A x \in I : {y \in I : y < x} = Below(x, I, R)
  <2> HIDE DEF R
  <2> QED
    BY <1>2 DEF Below
<1>5. /\ f \in [1..Cardinality(I) -> I]
      /\ \A k \in 1..Cardinality(I) : Cardinality(Below(f[k], I, R)) = k - 1
  <2> HIDE DEF R
  <2>1. \A k \in 1..Cardinality(I) : \E x \in I : Cardinality({y \in I : y < x}) = k - 1
    <3>1. \A k \in 1..Cardinality(I) : \E x \in I : Cardinality(Below(x, I, R)) = k - 1
      BY <1>1, <1>3, EveryRankIsTaken
    <3>2. QED
      BY <1>4, <3>1
  <2>2. f = [k \in 1..Cardinality(I) |->
               CHOOSE x \in I : Cardinality({y \in I : y < x}) = k - 1]
    BY DEF InOrder
  <2> HIDE DEF f
  <2>3. \A k \in 1..Cardinality(I) :
          f[k] \in I /\ Cardinality({y \in I : y < f[k]}) = k - 1
    BY <2>1, <2>2
  <2>4. QED
    BY <1>4, <2>2, <2>3
<1>6. IsListing(f, I, R)
  <2> HIDE DEF R, f
  <2> QED
    BY <1>1, <1>3, <1>5, ListedByRank
<1>7. QED
  <2> HIDE DEF R
  <2> QED
    BY <1>1, <1>2, <1>6 DEF IsListing

\* The elements of s at positions I are those of sub, in their order.
IsPicked(sub, s, I) ==
  \E at \in [1..Len(sub) -> I] :
    /\ \A j, k \in 1..Len(sub) : j < k => at[j] < at[k]
    /\ \A i \in I : \E k \in 1..Len(sub) : at[k] = i
    /\ \A k \in 1..Len(sub) : sub[k] = s[at[k]]

\* A filter keeps the elements at its positions, in their order, each as often as
\* it is there.
LEMMA SubsequenceProperties ==
  ASSUME NEW T, NEW s \in Seq(T), NEW I \in SUBSET (1..Len(s))
  PROVE  /\ Subsequence(s, I) \in Seq(T)
         /\ Len(Subsequence(s, I)) \in 0..Len(s)
         /\ {Subsequence(s, I)[k] : k \in 1..Len(Subsequence(s, I))} = {s[i] : i \in I}
         /\ IsPicked(Subsequence(s, I), s, I)
<1> DEFINE m == Cardinality(I)
           at == InOrder(I, <)
           sub == Subsequence(s, I)
<1>1. Len(s) \in Nat
  OBVIOUS
<1>2. /\ m \in 0..Len(s)
      /\ at \in [1..m -> I]
      /\ \A j, k \in 1..m : j < k => at[j] < at[k]
      /\ \A i \in I : \E k \in 1..m : at[k] = i
  BY <1>1, PositionsInOrder
<1>3. sub = [k \in 1..m |-> s[at[k]]]
  <2>1. DOMAIN at = 1..m
    BY <1>2
  <2> HIDE DEF m, at
  <2>2. sub = [k \in DOMAIN at |-> s[at[k]]]
    BY DEF Subsequence, at
  <2>3. QED
    BY <2>1, <2>2
<1> HIDE DEF m, at, sub
<1>4. \A k \in 1..m : s[at[k]] \in T
  <2>1. \A i \in I : s[i] \in T
    BY ElementOfSeq
  <2>2. QED
    BY <1>2, <2>1
<1>5. sub \in Seq(T) /\ Len(sub) = m
  BY <1>2, <1>3, <1>4
<1>6. {sub[k] : k \in 1..m} = {s[i] : i \in I}
  BY <1>2, <1>3
<1>7. IsPicked(sub, s, I)
  BY <1>2, <1>3, <1>5 DEF IsPicked
<1>8. QED
  BY <1>2, <1>5, <1>6, <1>7 DEF sub

\* The elements of a sequence.
LEMMA ToSetSeq ==
  ASSUME NEW T, NEW s \in Seq(T)
  PROVE  ToSet(s) = {s[i] : i \in 1..Len(s)} /\ ToSet(s) \subseteq T
BY DEF ToSet

\* A set of positions has a first one.
LEMMA FirstPosition ==
  ASSUME NEW n \in Nat, NEW I \in SUBSET (1..n), I # {}
  PROVE  \E i \in I : \A j \in I : i <= j
<1> DEFINE m == Cardinality(I)
           at == InOrder(I, <)
<1>1. /\ m \in 0..n
      /\ at \in [1..m -> I]
      /\ \A j, k \in 1..m : j < k => at[j] < at[k]
      /\ \A i \in I : \E k \in 1..m : at[k] = i
  BY PositionsInOrder
<1> HIDE DEF m, at
<1>2. 1 \in 1..m /\ \A k \in 1..m : k = 1 \/ 1 < k
  <2>1. PICK k \in 1..m : at[k] \in I
    BY <1>1
  <2>2. m \in Nat
    BY <1>1
  <2>3. QED
    BY <2>1, <2>2
<1>3. \A k \in 1..m : at[k] \in Nat
  <2>1. \A i \in I : i \in Nat
    OBVIOUS
  <2>2. QED
    BY <1>1, <2>1
<1>4. \A k \in 1..m : at[1] <= at[k]
  BY <1>1, <1>2, <1>3
<1>5. at[1] \in I
  BY <1>1, <1>2
<1>6. QED
  BY <1>1, <1>4, <1>5

\* A filter keeps the elements of a set, all of them.
LEMMA AmongProperties ==
  ASSUME NEW T, NEW s \in Seq(T), NEW S
  PROVE  /\ Among(s, S) \in Seq(T)
         /\ ToSet(Among(s, S)) = ToSet(s) \cap S
         /\ IsInjective(s) => IsInjective(Among(s, S))
<1>1. DOMAIN s = 1..Len(s) /\ Len(s) \in Nat
  OBVIOUS
<1>2. PICK I \in SUBSET (1..Len(s)) : I = {i \in DOMAIN s : s[i] \in S}
  BY <1>1
<1>3. PICK sub : sub = Subsequence(s, I) /\ sub = Among(s, S)
  BY <1>2 DEF Among
<1>4. PICK n : n = Len(sub)
  OBVIOUS
<1>5. sub \in Seq(T)
  <2>1. Subsequence(s, I) \in Seq(T)
    BY SubsequenceProperties
  <2>2. QED
    BY <1>3, <2>1
<1>6. PICK at \in [1..n -> I] :
        /\ \A j, k \in 1..n : j < k => at[j] < at[k]
        /\ \A i \in I : \E k \in 1..n : at[k] = i
        /\ \A k \in 1..n : sub[k] = s[at[k]]
  <2>1. IsPicked(Subsequence(s, I), s, I)
    BY SubsequenceProperties
  <2>2. IsPicked(sub, s, I)
    BY <1>3, <2>1
  <2>3. QED
    BY <1>4, <2>2 DEF IsPicked
<1>7. DOMAIN sub = 1..n /\ n \in Nat
  BY <1>4, <1>5, LenProperties
<1>8. \A k \in 1..n : at[k] \in 1..Len(s) /\ s[at[k]] \in S
  BY <1>1, <1>2, <1>6
<1>9. ToSet(sub) = ToSet(s) \cap S
  <2>1. ToSet(sub) = {sub[k] : k \in 1..n} /\ ToSet(s) = {s[i] : i \in 1..Len(s)}
    BY <1>1, <1>7 DEF ToSet
  <2>2. \A k \in 1..n : sub[k] \in ToSet(s) \cap S
    BY <1>6, <1>8, <2>1
  <2>3. ASSUME NEW x \in ToSet(s) \cap S
        PROVE  x \in {sub[k] : k \in 1..n}
    <3>1. PICK i \in 1..Len(s) : s[i] = x
      BY <2>1
    <3>2. i \in I
      BY <1>1, <1>2, <2>3, <3>1
    <3>3. PICK k \in 1..n : at[k] = i
      BY <1>6, <3>2
    <3>4. QED
      BY <1>6, <3>1, <3>3
  <2>4. QED
    BY <2>1, <2>2, <2>3
<1>10. ASSUME IsInjective(s)
       PROVE  \A j, k \in 1..n : sub[j] = sub[k] => j = k
  <2>1. SUFFICES ASSUME NEW j \in 1..n, NEW k \in 1..n, j < k
                 PROVE  sub[j] # sub[k]
    BY <1>7
  <2>2. at[j] \in 1..Len(s) /\ at[k] \in 1..Len(s) /\ at[j] < at[k]
    BY <1>6, <1>8, <2>1
  <2>3. s[at[j]] # s[at[k]]
    BY <1>1, <1>10, <2>2 DEF IsInjective
  <2>4. QED
    BY <1>6, <2>3
<1>11. QED
  BY <1>3, <1>5, <1>7, <1>9, <1>10 DEF IsInjective

\* Removing duplicates leaves every element, once.
LEMMA DistinctProperties ==
  ASSUME NEW T, NEW s \in Seq(T)
  PROVE  /\ Distinct(s) \in Seq(T)
         /\ ToSet(Distinct(s)) = ToSet(s)
         /\ IsInjective(Distinct(s))
<1>1. DOMAIN s = 1..Len(s) /\ Len(s) \in Nat
  OBVIOUS
<1>2. PICK I \in SUBSET (1..Len(s)) :
        I = {i \in DOMAIN s : \A j \in 1..(i - 1) : s[j] # s[i]}
  BY <1>1
<1>3. PICK sub : sub = Subsequence(s, I) /\ sub = Distinct(s)
  BY <1>2 DEF Distinct
<1>4. PICK n : n = Len(sub)
  OBVIOUS
<1>5. sub \in Seq(T)
  <2>1. Subsequence(s, I) \in Seq(T)
    BY SubsequenceProperties
  <2>2. QED
    BY <1>3, <2>1
<1>6. PICK at \in [1..n -> I] :
        /\ \A j, k \in 1..n : j < k => at[j] < at[k]
        /\ \A i \in I : \E k \in 1..n : at[k] = i
        /\ \A k \in 1..n : sub[k] = s[at[k]]
  <2>1. IsPicked(Subsequence(s, I), s, I)
    BY SubsequenceProperties
  <2>2. IsPicked(sub, s, I)
    BY <1>3, <2>1
  <2>3. QED
    BY <1>4, <2>2 DEF IsPicked
<1>7. DOMAIN sub = 1..n /\ n \in Nat
  BY <1>4, <1>5, LenProperties
<1>8. \A k \in 1..n : /\ at[k] \in 1..Len(s)
                      /\ \A j \in 1..(at[k] - 1) : s[j] # s[at[k]]
  BY <1>1, <1>2, <1>6
<1>9. ToSet(sub) = ToSet(s)
  <2>1. ToSet(sub) = {sub[k] : k \in 1..n} /\ ToSet(s) = {s[i] : i \in 1..Len(s)}
    BY <1>1, <1>7 DEF ToSet
  <2>2. \A k \in 1..n : sub[k] \in ToSet(s)
    BY <1>6, <1>8, <2>1
  <2>3. ASSUME NEW x \in ToSet(s)
        PROVE  x \in {sub[k] : k \in 1..n}
    <3>1. PICK J \in SUBSET (1..Len(s)) : J = {i \in 1..Len(s) : s[i] = x}
      OBVIOUS
    <3>2. J # {}
      BY <2>1, <3>1
    <3>3. PICK i \in J : \A j \in J : i <= j
      BY <1>1, <3>2, FirstPosition
    <3>4. \A j \in 1..(i - 1) : s[j] # s[i]
      <4>1. SUFFICES ASSUME NEW j \in 1..(i - 1), s[j] = s[i] PROVE FALSE
        OBVIOUS
      <4>2. i \in 1..Len(s) /\ s[i] = x
        BY <3>1, <3>3
      <4>3. j \in J
        BY <1>1, <3>1, <4>1, <4>2
      <4>4. QED
        BY <3>3, <4>2, <4>3
    <3>5. i \in I /\ s[i] = x
      BY <1>1, <1>2, <3>1, <3>3, <3>4
    <3>6. PICK k \in 1..n : at[k] = i
      BY <1>6, <3>5
    <3>7. QED
      BY <1>6, <3>5, <3>6
  <2>4. QED
    BY <2>1, <2>2, <2>3
<1>10. \A j, k \in 1..n : sub[j] = sub[k] => j = k
  <2>1. SUFFICES ASSUME NEW j \in 1..n, NEW k \in 1..n, j < k
                 PROVE  sub[j] # sub[k]
    BY <1>7
  <2>2. at[j] \in 1..Len(s) /\ at[k] \in 1..Len(s) /\ at[j] < at[k]
    BY <1>6, <1>8, <2>1
  <2>3. at[j] \in 1..(at[k] - 1)
    BY <1>1, <2>2
  <2>4. s[at[j]] # s[at[k]]
    BY <1>8, <2>3
  <2>5. QED
    BY <1>6, <2>4
<1>11. QED
  BY <1>3, <1>5, <1>7, <1>9, <1>10 DEF IsInjective

\* A sequence is a sequence of its own elements.
LEMMA SeqOfItsOwn ==
  ASSUME NEW T, NEW s \in Seq(T)
  PROVE  s \in Seq(ToSet(s))
<1>1. /\ Len(s) \in Nat
      /\ s = [i \in 1..Len(s) |-> s[i]]
      /\ \A i \in 1..Len(s) : s[i] \in ToSet(s)
  BY ToSetSeq
<1>2. QED
  BY <1>1

\* The lesser of two numbers.
LEMMA MinOfTwo ==
  ASSUME NEW a \in Nat, NEW b \in Nat
  PROVE  Min({a, b}) = IF a <= b THEN a ELSE b
<1>1. \A x \in {a, b} : (\A y \in {a, b} : x <= y) <=> x = IF a <= b THEN a ELSE b
  OBVIOUS
<1>2. QED
  BY <1>1 DEF Min

\* The beginning of a sequence, up to a cap.
LEMMA BeginningProperties ==
  ASSUME NEW T, NEW s \in Seq(T), NEW n \in Nat
  PROVE  /\ SubSeq(s, 1, Min({n, Len(s)})) \in Seq(T)
         /\ Len(SubSeq(s, 1, Min({n, Len(s)}))) = IF n <= Len(s) THEN n ELSE Len(s)
         /\ \A i \in 1..Len(SubSeq(s, 1, Min({n, Len(s)}))) :
              i \in 1..Len(s) /\ SubSeq(s, 1, Min({n, Len(s)}))[i] = s[i]
<1>1. PICK m : m = Min({n, Len(s)})
  OBVIOUS
<1>2. Len(s) \in Nat /\ m \in Nat /\ m <= Len(s) /\ m = IF n <= Len(s) THEN n ELSE Len(s)
  BY <1>1, MinOfTwo
<1>3. \A i \in 1..m : s[i] \in T /\ i \in 1..Len(s)
  BY <1>2, ElementOfSeq
<1>4. /\ SubSeq(s, 1, m) \in Seq(T) /\ Len(SubSeq(s, 1, m)) = m
      /\ \A i \in 1..m : SubSeq(s, 1, m)[i] = s[i]
  BY <1>2, <1>3, SubSeqProperties
<1>5. QED
  BY <1>1, <1>2, <1>3, <1>4, Zenon

\* Places of two sequences joined.
LEMMA JoinPlaces ==
  ASSUME NEW T, NEW x \in Seq(T), NEW y \in Seq(T)
  PROVE  /\ x \o y \in Seq(T)
         /\ \A i \in 1..Len(x) : i \in 1..Len(x \o y) /\ (x \o y)[i] = x[i]
         /\ \A j \in 1..Len(y) :
              Len(x) + j \in 1..Len(x \o y) /\ (x \o y)[Len(x) + j] = y[j]
         /\ \A k \in 1..Len(x \o y) :
              k \in 1..Len(x) \/ \E j \in 1..Len(y) : k = Len(x) + j
         /\ ToSet(x \o y) = ToSet(x) \cup ToSet(y)
<1>1. Len(x) \in Nat /\ Len(y) \in Nat
  OBVIOUS
<1>2. PICK z \in Seq(T) : z = x \o y
  <2>1. x \o y \in Seq(T)
    OBVIOUS
  <2>2. QED
    BY <2>1
<1>3. /\ Len(z) = Len(x) + Len(y)
      /\ \A i \in 1..Len(x) : z[i] = x[i]
      /\ \A j \in 1..Len(y) : z[Len(x) + j] = y[j]
  BY <1>2
<1>4. /\ \A i \in 1..Len(x) : i \in 1..Len(z)
      /\ \A j \in 1..Len(y) : Len(x) + j \in 1..Len(z)
  BY <1>1, <1>3
<1>5. ASSUME NEW k \in 1..Len(z)
      PROVE  k \in 1..Len(x) \/ \E j \in 1..Len(y) : k = Len(x) + j
  <2>1. k \in 1..Len(x) \/ (k - Len(x) \in 1..Len(y) /\ k = Len(x) + (k - Len(x)))
    BY <1>1, <1>3
  <2>2. QED
    BY <2>1
<1>6. ToSet(z) = ToSet(x) \cup ToSet(y)
  <2>1. /\ ToSet(x) = {x[i] : i \in 1..Len(x)} /\ ToSet(y) = {y[j] : j \in 1..Len(y)}
        /\ ToSet(z) = {z[k] : k \in 1..Len(z)}
    BY ToSetSeq
  <2>2. \A k \in 1..Len(z) : z[k] \in ToSet(x) \cup ToSet(y)
    BY <1>3, <1>5, <2>1
  <2>3. \A i \in 1..Len(x) : x[i] \in ToSet(z)
    BY <1>3, <1>4, <2>1
  <2>4. \A j \in 1..Len(y) : y[j] \in ToSet(z)
    BY <1>3, <1>4, <2>1
  <2>5. QED
    BY <2>1, <2>2, <2>3, <2>4
<1>7. QED
  BY <1>2, <1>3, <1>4, <1>5, <1>6

-----------------------------------------------------------------------------
(* Induction, and sequences of sequences joined.                              *)

\* Induction over the natural numbers, for a property given as the set of the
\* numbers that have it: there is no least number without it.
LEMMA SetInduction ==
  ASSUME NEW S, 0 \in S, \A n \in Nat : n \in S => n + 1 \in S
  PROVE  \A n \in Nat : n \in S
<1>1. SUFFICES ASSUME NEW n \in Nat, n \notin S PROVE FALSE
  OBVIOUS
<1>2. PICK I \in SUBSET (1..n) : I = {i \in 1..n : i \notin S}
  OBVIOUS
<1>3. n \in I
  BY <1>1, <1>2
<1>4. PICK i \in I : \A j \in I : i <= j
  BY <1>3, FirstPosition
<1>5. i \in 1..n /\ i \notin S
  BY <1>2
<1>6. i - 1 \in S
  BY <1>2, <1>4, <1>5
<1>7. QED
  BY <1>5, <1>6

\* g is what FlattenSeq builds up over the first n elements of s.
Flattens(g, s, n) ==
  g = [i \in 1..n |-> IF i = 1 THEN s[i] ELSE g[i - 1] \o s[i]]

\* It can be built up over any beginning of s.
LEMMA FlattensExists ==
  ASSUME NEW T, NEW s \in Seq(Seq(T))
  PROVE  \A n \in Nat : n <= Len(s) => \E g \in [1..n -> Seq(T)] : Flattens(g, s, n)
<1> DEFINE S == {n \in Nat : n <= Len(s) => \E g \in [1..n -> Seq(T)] : Flattens(g, s, n)}
<1>1. 0 \in S
  <2>1. [i \in {} |-> <<>>] \in [1..0 -> Seq(T)]
    OBVIOUS
  <2>2. \A g \in [1..0 -> Seq(T)] : Flattens(g, s, 0)
    BY DEF Flattens
  <2>3. QED
    BY <2>1, <2>2
<1>2. ASSUME NEW n \in Nat, n \in S
      PROVE  n + 1 \in S
  <2>1. SUFFICES ASSUME n + 1 <= Len(s)
                 PROVE  \E h \in [1..(n + 1) -> Seq(T)] : Flattens(h, s, n + 1)
    OBVIOUS
  <2>2. PICK g \in [1..n -> Seq(T)] : Flattens(g, s, n)
    BY <1>2, <2>1
  <2>3. s[n + 1] \in Seq(T)
    BY <2>1
  <2> DEFINE h == [i \in 1..(n + 1) |-> IF i <= n THEN g[i]
                                        ELSE IF n = 0 THEN s[1] ELSE g[n] \o s[n + 1]]
  <2>4. h \in [1..(n + 1) -> Seq(T)]
    <3>1. n # 0 => g[n] \in Seq(T) /\ g[n] \o s[n + 1] \in Seq(T)
      BY <2>2, <2>3
    <3>2. n = 0 => s[1] \in Seq(T)
      BY <2>3
    <3>3. QED
      BY <3>1, <3>2
  <2>5. ASSUME NEW i \in 1..(n + 1)
        PROVE  h[i] = IF i = 1 THEN s[i] ELSE h[i - 1] \o s[i]
    <3>1. CASE i <= n
      <4>1. i \in 1..n
        BY <3>1
      <4>2. g[i] = IF i = 1 THEN s[i] ELSE g[i - 1] \o s[i]
        <5>1. Flattens(g, s, n)
          BY <2>2
        <5> HIDE DEF h, S
        <5>2. QED
          BY <4>1, <5>1, Zenon DEF Flattens
      <4>3. h[i] = g[i]
        BY <3>1
      <4>4. i # 1 => h[i - 1] = g[i - 1]
        BY <3>1
      <4>5. QED
        <5> HIDE DEF h
        <5> QED
          BY <4>2, <4>3, <4>4
    <3>2. CASE i = n + 1
      BY <3>2
    <3>3. QED
      BY <3>1, <3>2
  <2>6. Flattens(h, s, n + 1)
    <3> HIDE DEF h
    <3> QED
      BY <2>4, <2>5 DEF Flattens
  <2>7. QED
    BY <2>4, <2>6
<1>3. \A n \in Nat : n \in S
  <2> HIDE DEF S
  <2> QED
    BY <1>1, <1>2, SetInduction
<1>4. QED
  BY <1>3

\* In one way only.
LEMMA FlattensUnique ==
  ASSUME NEW s, NEW m \in Nat, NEW n \in Nat, NEW g, NEW h,
         Flattens(g, s, m), Flattens(h, s, n)
  PROVE  \A i \in Nat : 1 <= i /\ i <= m /\ i <= n => g[i] = h[i]
<1> DEFINE S == {i \in Nat : 1 <= i /\ i <= m /\ i <= n => g[i] = h[i]}
<1>1. 0 \in S
  OBVIOUS
<1>2. ASSUME NEW i \in Nat, i \in S
      PROVE  i + 1 \in S
  <2>1. SUFFICES ASSUME i + 1 <= m, i + 1 <= n
                 PROVE  g[i + 1] = h[i + 1]
    OBVIOUS
  <2>2. i + 1 \in 1..m /\ i + 1 \in 1..n /\ (i + 1) - 1 = i
    BY <2>1
  <2>3. g[i + 1] = IF i + 1 = 1 THEN s[i + 1] ELSE g[i] \o s[i + 1]
    BY <2>2 DEF Flattens
  <2>4. h[i + 1] = IF i + 1 = 1 THEN s[i + 1] ELSE h[i] \o s[i + 1]
    BY <2>2 DEF Flattens
  <2>5. i # 0 => g[i] = h[i]
    BY <1>2, <2>1
  <2>6. QED
    BY <2>3, <2>4, <2>5
<1>3. \A i \in Nat : i \in S
  <2> HIDE DEF S
  <2> QED
    BY <1>1, <1>2, SetInduction
<1>4. QED
  BY <1>3

\* So that is what FlattenSeq returns.
LEMMA FlattenIs ==
  ASSUME NEW s, NEW n \in Nat, Len(s) = n, NEW g, Flattens(g, s, n)
  PROVE  FlattenSeq(s) = IF n = 0 THEN s ELSE g[n]
<1>1. CASE n = 0
  BY <1>1 DEF FlattenSeq
<1>2. CASE n # 0
  <2> DEFINE h == CHOOSE f : f = [i \in 1..Len(s) |-> IF i = 1 THEN s[i] ELSE f[i - 1] \o s[i]]
  <2>1. FlattenSeq(s) = h[n]
    BY <1>2 DEF FlattenSeq
  <2>2. Flattens(h, s, n)
    BY DEF Flattens
  <2>3. QED
    BY <1>2, <2>1, <2>2, FlattensUnique
<1>3. QED
  BY <1>1, <1>2

\* A flattened sequence: of no sequence nothing, and one more is joined at the end.
LEMMA FlattenSteps ==
  ASSUME NEW T, NEW s \in Seq(Seq(T))
  PROVE  /\ FlattenSeq(s) \in Seq(T)
         /\ FlattenSeq(SubSeq(s, 1, 0)) = <<>>
         /\ SubSeq(s, 1, Len(s)) = s
         /\ \A n \in 0..Len(s) : FlattenSeq(SubSeq(s, 1, n)) \in Seq(T)
         /\ \A n \in 0..(Len(s) - 1) :
              FlattenSeq(SubSeq(s, 1, n + 1)) = FlattenSeq(SubSeq(s, 1, n)) \o s[n + 1]
<1>1. PICK g \in [1..Len(s) -> Seq(T)] : Flattens(g, s, Len(s))
  BY FlattensExists, LenProperties
<1>2. ASSUME NEW n \in 0..Len(s)
      PROVE  FlattenSeq(SubSeq(s, 1, n)) = IF n = 0 THEN <<>> ELSE g[n]
  <2>1. PICK t : t = SubSeq(s, 1, n)
    OBVIOUS
  <2>2. /\ t \in Seq(Seq(T)) /\ Len(t) = n
        /\ \A i \in 1..n : t[i] = s[i]
    BY <2>1
  <2>3. PICK h : h = [i \in 1..n |-> g[i]]
    OBVIOUS
  <2>4. \A i \in 1..n : g[i] = IF i = 1 THEN s[i] ELSE g[i - 1] \o s[i]
    <3>1. \A i \in 1..Len(s) : g[i] = IF i = 1 THEN s[i] ELSE g[i - 1] \o s[i]
      BY <1>1, Zenon DEF Flattens
    <3>2. \A i \in 1..n : i \in 1..Len(s)
      BY LenProperties
    <3>3. QED
      BY <3>1, <3>2, Zenon
  <2>5. \A i \in 1..n : h[i] = g[i] /\ (i # 1 => h[i - 1] = g[i - 1])
    BY <2>3
  <2>6. Flattens(h, t, n)
    <3>1. ASSUME NEW i \in 1..n
          PROVE  g[i] = IF i = 1 THEN t[i] ELSE h[i - 1] \o t[i]
      <4>1. t[i] = s[i] /\ (i # 1 => h[i - 1] = g[i - 1])
        BY <2>2, <2>5, Zenon
      <4>2. g[i] = IF i = 1 THEN s[i] ELSE g[i - 1] \o s[i]
        BY <2>4, Zenon
      <4>3. QED
        BY <4>1, <4>2, Zenon
    <3>2. h = [i \in 1..n |-> IF i = 1 THEN t[i] ELSE h[i - 1] \o t[i]]
      BY <2>3, <3>1, Zenon
    <3>3. QED
      BY <3>2, Zenon DEF Flattens
  <2>7. n \in Nat
    BY LenProperties
  <2>8. FlattenSeq(t) = IF n = 0 THEN t ELSE h[n]
    BY <2>2, <2>6, <2>7, FlattenIs
  <2>9. n = 0 => t = <<>>
    BY <2>2
  <2>10. n # 0 => h[n] = g[n]
    BY <2>5, <2>7
  <2>11. QED
    BY <2>1, <2>8, <2>9, <2>10
<1>3. SubSeq(s, 1, Len(s)) = s
  OBVIOUS
<1>4. ASSUME NEW n \in 0..Len(s)
      PROVE  FlattenSeq(SubSeq(s, 1, n)) \in Seq(T)
  <2>1. n # 0 => g[n] \in Seq(T)
    <3>1. n # 0 => n \in 1..Len(s)
      BY LenProperties
    <3>2. QED
      BY <1>1, <3>1
  <2>2. <<>> \in Seq(T)
    OBVIOUS
  <2>3. QED
    BY <1>2, <2>1, <2>2
<1>5. ASSUME NEW n \in 0..(Len(s) - 1)
      PROVE  FlattenSeq(SubSeq(s, 1, n + 1)) = FlattenSeq(SubSeq(s, 1, n)) \o s[n + 1]
  <2>1. n \in Nat /\ n + 1 \in 1..Len(s) /\ n \in 0..Len(s) /\ n + 1 \in 0..Len(s)
    BY LenProperties
  <2>2. g[n + 1] = IF n + 1 = 1 THEN s[n + 1] ELSE g[(n + 1) - 1] \o s[n + 1]
    BY <1>1, <2>1, Zenon DEF Flattens
  <2>3. (n + 1) - 1 = n /\ n + 1 # 0 /\ (n + 1 = 1 <=> n = 0)
    BY <2>1
  <2>4. FlattenSeq(SubSeq(s, 1, n + 1)) = g[n + 1]
    BY <1>2, <2>1, <2>3
  <2>5. FlattenSeq(SubSeq(s, 1, n)) = IF n = 0 THEN <<>> ELSE g[n]
    BY <1>2, <2>1
  <2>6. s[n + 1] \in Seq(T)
    BY <2>1
  <2>7. <<>> \o s[n + 1] = s[n + 1]
    BY <2>6
  <2>8. g[n + 1] = IF n = 0 THEN s[n + 1] ELSE g[n] \o s[n + 1]
    BY <2>2, <2>3
  <2>9. QED
    BY <2>4, <2>5, <2>7, <2>8
<1>6. 0 \in 0..Len(s) /\ Len(s) \in 0..Len(s)
  BY LenProperties
<1>7. FlattenSeq(s) \in Seq(T)
  BY <1>3, <1>4, <1>6
<1>8. FlattenSeq(SubSeq(s, 1, 0)) = <<>>
  BY <1>2, <1>6
<1>9. QED
  BY <1>3, <1>4, <1>5, <1>7, <1>8

\* F is the first n elements of s joined: after[i] is how long the first i are, and
\* each place of F is one of exactly one of them.
IsJoined(F, s, n, after) ==
  /\ after[0] = 0 /\ after[n] = Len(F)
  /\ \A i \in 1..n : after[i] = after[i - 1] + Len(s[i])
  /\ \A i \in 1..n : \A j \in 1..Len(s[i]) :
       after[i - 1] + j \in 1..Len(F) /\ F[after[i - 1] + j] = s[i][j]
  /\ \A k \in 1..Len(F) : \E i \in 1..n : \E j \in 1..Len(s[i]) : k = after[i - 1] + j

\* Every place of a flattened sequence belongs to one place of one part.
LEMMA FlattenPlaces ==
  ASSUME NEW T, NEW s \in Seq(Seq(T))
  PROVE  \E after \in [0..Len(s) -> Nat] : IsJoined(FlattenSeq(s), s, Len(s), after)
<1> DEFINE F(n) == FlattenSeq(SubSeq(s, 1, n))
           S == {n \in Nat : n <= Len(s) =>
                   \E after \in [0..n -> Nat] : IsJoined(F(n), s, n, after)}
<1>1. 0 \in S
  <2>1. F(0) = <<>> /\ Len(F(0)) = 0
    <3>1. FlattenSeq(SubSeq(s, 1, 0)) = <<>>
      BY FlattenSteps
    <3>2. QED
      BY <3>1
  <2>2. PICK after \in [0..0 -> Nat] : after = [i \in 0..0 |-> 0]
    OBVIOUS
  <2>3. after[0] = 0
    BY <2>2
  <2> HIDE DEF F
  <2>4. IsJoined(F(0), s, 0, after)
    BY <2>1, <2>3 DEF IsJoined
  <2>5. QED
    BY <2>4
<1>2. ASSUME NEW n \in Nat, n \in S
      PROVE  n + 1 \in S
  <2>0. n + 1 \in Nat
    OBVIOUS
  <2>1. SUFFICES ASSUME n + 1 <= Len(s)
                 PROVE  \E after \in [0..(n + 1) -> Nat] : IsJoined(F(n + 1), s, n + 1, after)
    BY <2>0, Zenon
  <2>2. Len(s) \in Nat
    OBVIOUS
  <2>3. PICK before \in [0..n -> Nat] : IsJoined(F(n), s, n, before)
    <3>1. n <= Len(s)
      BY <2>1, <2>2
    <3>2. QED
      BY <1>2, <3>1, Zenon
  <2>4. PICK p \in Seq(T) : p = F(n)
    <3>1. n \in 0..Len(s)
      BY <2>1, <2>2
    <3>2. QED
      BY <3>1, FlattenSteps
  <2>5. PICK x \in Seq(T) : x = s[n + 1]
    BY <2>1, <2>2
  <2>6. F(n + 1) = p \o x
    <3>1. n \in 0..(Len(s) - 1)
      BY <2>1, <2>2
    <3>2. QED
      BY <2>4, <2>5, <3>1, FlattenSteps
  <2> HIDE DEF F, S
  <2>7. /\ before[0] = 0 /\ before[n] = Len(p)
        /\ \A i \in 1..n : before[i] = before[i - 1] + Len(s[i])
        /\ \A i \in 1..n : \A j \in 1..Len(s[i]) :
             before[i - 1] + j \in 1..Len(p) /\ p[before[i - 1] + j] = s[i][j]
        /\ \A k \in 1..Len(p) : \E i \in 1..n : \E j \in 1..Len(s[i]) : k = before[i - 1] + j
    BY <2>3, <2>4 DEF IsJoined
  <2>8. PICK after \in [0..(n + 1) -> Nat] :
          after = [i \in 0..(n + 1) |-> IF i = n + 1 THEN Len(p) + Len(x) ELSE before[i]]
    <3>1. Len(p) + Len(x) \in Nat
      OBVIOUS
    <3>2. \A i \in 0..(n + 1) : i # n + 1 => before[i] \in Nat
      OBVIOUS
    <3>3. QED
      BY <3>1, <3>2
  <2>9. /\ after[n + 1] = Len(p) + Len(x)
        /\ \A i \in 0..n : after[i] = before[i]
    BY <2>8
  <2>10. /\ p \o x \in Seq(T) /\ Len(p \o x) = Len(p) + Len(x)
         /\ \A k \in 1..Len(p) : (p \o x)[k] = p[k]
         /\ \A j \in 1..Len(x) : (p \o x)[Len(p) + j] = x[j]
    OBVIOUS
  <2>11. after[0] = 0
    BY <2>7, <2>9
  <2>12. ASSUME NEW i \in 1..(n + 1)
         PROVE  /\ after[i] = after[i - 1] + Len(s[i])
                /\ \A j \in 1..Len(s[i]) :
                     /\ after[i - 1] + j \in 1..Len(p \o x)
                     /\ (p \o x)[after[i - 1] + j] = s[i][j]
    <3>1. CASE i = n + 1
      <4>1. after[i - 1] = Len(p)
        BY <2>7, <2>9, <3>1
      <4>2. s[i] = x /\ after[i] = Len(p) + Len(x)
        BY <2>5, <2>9, <3>1
      <4>3. \A j \in 1..Len(x) : Len(p) + j \in 1..(Len(p) + Len(x))
        OBVIOUS
      <4>4. QED
        BY <2>10, <4>1, <4>2, <4>3
    <3>2. CASE i # n + 1
      <4>1. i \in 1..n /\ i - 1 \in 0..n /\ i \in 0..n
        BY <3>2
      <4>2. after[i] = before[i] /\ after[i - 1] = before[i - 1]
        BY <2>9, <4>1
      <4>3. \A k \in 1..Len(p) : k \in 1..Len(p \o x)
        BY <2>10
      <4>4. after[i] = after[i - 1] + Len(s[i])
        BY <2>7, <4>1, <4>2
      <4>5. \A j \in 1..Len(s[i]) :
              after[i - 1] + j \in 1..Len(p) /\ p[after[i - 1] + j] = s[i][j]
        BY <2>7, <4>1, <4>2
      <4>6. \A j \in 1..Len(s[i]) : /\ after[i - 1] + j \in 1..Len(p \o x)
                                    /\ (p \o x)[after[i - 1] + j] = s[i][j]
        BY <2>10, <4>3, <4>5
      <4>7. QED
        BY <4>4, <4>6
    <3>3. QED
      BY <3>1, <3>2
  <2>13. ASSUME NEW k \in 1..Len(p \o x)
         PROVE  \E i \in 1..(n + 1) : \E j \in 1..Len(s[i]) : k = after[i - 1] + j
    <3>1. CASE k <= Len(p)
      <4>1. PICK i \in 1..n : \E j \in 1..Len(s[i]) : k = before[i - 1] + j
        BY <2>7, <3>1
      <4>2. i \in 1..(n + 1) /\ after[i - 1] = before[i - 1]
        BY <2>9
      <4>3. QED
        BY <4>1, <4>2
    <3>2. CASE k > Len(p)
      <4>1. k - Len(p) \in 1..Len(x)
        BY <2>10, <3>2
      <4>2. n + 1 \in 1..(n + 1) /\ s[n + 1] = x /\ after[(n + 1) - 1] = Len(p)
        BY <2>5, <2>7, <2>9
      <4>3. k = Len(p) + (k - Len(p))
        OBVIOUS
      <4>4. QED
        BY <4>1, <4>2, <4>3
    <3>3. QED
      BY <3>1, <3>2
  <2>14. IsJoined(p \o x, s, n + 1, after)
    BY <2>9, <2>10, <2>11, <2>12, <2>13 DEF IsJoined
  <2>15. QED
    BY <2>6, <2>14
<1>3. \A n \in Nat : n \in S
  <2> HIDE DEF S
  <2> QED
    BY <1>1, <1>2, SetInduction
<1>4. Len(s) \in Nat /\ F(Len(s)) = FlattenSeq(s)
  <2>1. SubSeq(s, 1, Len(s)) = s
    BY FlattenSteps
  <2>2. F(Len(s)) = FlattenSeq(s)
    BY <2>1, Zenon
  <2>3. QED
    BY <2>2, LenProperties
<1>5. QED
  <2> HIDE DEF F
  <2> QED
    BY <1>3, <1>4

\* A flattened sequence has the elements of its parts and no others.
LEMMA FlattenElements ==
  ASSUME NEW T, NEW s \in Seq(Seq(T))
  PROVE  /\ \A i \in 1..Len(s) : \A j \in 1..Len(s[i]) : s[i][j] \in ToSet(FlattenSeq(s))
         /\ \A x \in ToSet(FlattenSeq(s)) :
              \E i \in 1..Len(s) : \E j \in 1..Len(s[i]) : x = s[i][j]
<1>1. PICK F \in Seq(T) : F = FlattenSeq(s)
  BY FlattenSteps
<1>2. PICK after \in [0..Len(s) -> Nat] : IsJoined(F, s, Len(s), after)
  BY <1>1, FlattenPlaces
<1>3. ToSet(F) = {F[k] : k \in 1..Len(F)}
  BY ToSetSeq
<1>4. /\ \A i \in 1..Len(s) : \A j \in 1..Len(s[i]) :
           after[i - 1] + j \in 1..Len(F) /\ F[after[i - 1] + j] = s[i][j]
      /\ \A k \in 1..Len(F) :
           \E i \in 1..Len(s) : \E j \in 1..Len(s[i]) : k = after[i - 1] + j
  BY <1>2 DEF IsJoined
<1>5. ASSUME NEW x \in ToSet(F)
      PROVE  \E i \in 1..Len(s) : \E j \in 1..Len(s[i]) : x = s[i][j]
  <2>1. PICK k \in 1..Len(F) : x = F[k]
    BY <1>3
  <2>2. PICK i \in 1..Len(s) : \E j \in 1..Len(s[i]) : k = after[i - 1] + j
    BY <1>4
  <2>3. PICK j \in 1..Len(s[i]) : k = after[i - 1] + j
    BY <2>2
  <2>4. QED
    BY <1>4, <2>1, <2>3
<1>6. ASSUME NEW i \in 1..Len(s), NEW j \in 1..Len(s[i])
      PROVE  s[i][j] \in ToSet(F)
  BY <1>3, <1>4
<1>7. QED
  BY <1>1, <1>5, <1>6


-----------------------------------------------------------------------------
(* Positions. *)

\* A set of positions has a last one, and Max returns it.
LEMMA MaxOfPositions ==
  ASSUME NEW n \in Nat, NEW I \in SUBSET (1..n), I # {}
  PROVE  Max(I) \in I /\ \A j \in I : j <= Max(I)
<1>1. PICK J \in SUBSET (1..n) : J = {j \in 1..n : n + 1 - j \in I}
  OBVIOUS
<1>2. J # {}
  <2>1. PICK i \in I : i \in 1..n
    OBVIOUS
  <2>2. n + 1 - i \in 1..n /\ n + 1 - (n + 1 - i) = i
    BY <2>1
  <2>3. QED
    BY <1>1, <2>1, <2>2
<1>3. PICK f \in J : \A j \in J : f <= j
  BY <1>2, FirstPosition
<1>4. n + 1 - f \in I
  BY <1>1, <1>3
<1>5. ASSUME NEW j \in I PROVE j <= n + 1 - f
  <2>1. n + 1 - j \in J
    <3>1. n + 1 - j \in 1..n /\ n + 1 - (n + 1 - j) = j
      OBVIOUS
    <3>2. QED
      BY <1>1, <3>1
  <2>2. f <= n + 1 - j /\ f \in 1..n /\ j \in 1..n
    BY <1>3, <2>1
  <2>3. QED
    BY <2>2
<1>6. PICK x : x = CHOOSE y \in I : \A j \in I : y >= j
  OBVIOUS
<1>7. x \in I /\ \A j \in I : x >= j
  BY <1>4, <1>5, <1>6
<1>8. Max(I) = x
  BY <1>6 DEF Max
<1>9. QED
  BY <1>7, <1>8

\* The elements at adjoining positions are a piece of the sequence.
LEMMA PieceProperties ==
  ASSUME NEW T, NEW s \in Seq(T), NEW a \in Nat, NEW c \in Nat, a + c <= Len(s)
  PROVE  /\ Subsequence(s, (a + 1)..(a + c)) \in Seq(T)
         /\ Len(Subsequence(s, (a + 1)..(a + c))) = c
         /\ \A k \in 1..c : Subsequence(s, (a + 1)..(a + c))[k] = s[a + k]
<1>1. PICK I : I = (a + 1)..(a + c)
  OBVIOUS
<1>2. I \in SUBSET (1..Len(s)) /\ Len(s) \in Nat
  BY <1>1
<1>3. Cardinality(I) = c
  <2>1. a + 1 \in Int /\ a + c \in Int
    OBVIOUS
  <2>2. Cardinality((a + 1)..(a + c)) = IF a + 1 > a + c THEN 0 ELSE a + c - (a + 1) + 1
    BY <2>1, FS_Interval
  <2>3. QED
    BY <1>1, <2>2
<1>4. PICK at : at = InOrder(I, <)
  OBVIOUS
<1>5. ASSUME NEW k \in 1..c
      PROVE  at[k] = a + k
  <2>1. at[k] = CHOOSE x \in I : Cardinality({y \in I : y < x}) = k - 1
    BY <1>3, <1>4 DEF InOrder
  <2>2. ASSUME NEW x \in I PROVE Cardinality({y \in I : y < x}) = x - a - 1
    <3>1. {y \in I : y < x} = (a + 1)..(x - 1)
      BY <1>1
    <3>2. x \in Int /\ x >= a + 1
      BY <1>1
    <3>3. Cardinality((a + 1)..(x - 1)) = IF a + 1 > x - 1 THEN 0 ELSE x - 1 - (a + 1) + 1
      BY <3>2, FS_Interval
    <3>4. (IF a + 1 > x - 1 THEN 0 ELSE x - 1 - (a + 1) + 1) = x - a - 1
      BY <3>2
    <3>5. QED
      BY <3>1, <3>3, <3>4, Zenon
  <2>3. a + k \in I /\ \A x \in I : Cardinality({y \in I : y < x}) = k - 1 <=> x = a + k
    BY <1>1, <2>2
  <2>4. QED
    BY <2>1, <2>3
<1>6. DOMAIN at = 1..c
  BY <1>3, <1>4 DEF InOrder
<1>7. Subsequence(s, I) = [k \in 1..c |-> s[at[k]]]
  BY <1>4, <1>6 DEF Subsequence
<1>8. \A k \in 1..c : a + k \in 1..Len(s)
  OBVIOUS
<1>9. Subsequence(s, I) \in [1..c -> T]
  BY <1>5, <1>7, <1>8
<1>10. QED
  BY <1>1, <1>5, <1>7, <1>9


\* Different elements number as many as their places.
LEMMA ImageCount ==
  ASSUME NEW S, IsFiniteSet(S), NEW f, f = [x \in S |-> f[x]],
         \A x, y \in S : f[x] = f[y] => x = y
  PROVE  Cardinality({f[x] : x \in S}) = Cardinality(S)
<1>1. PICK T : T = {f[x] : x \in S}
  OBVIOUS
<1>2. f \in [S -> T]
  BY <1>1
<1>3. \A t \in T : \E x \in S : f[x] = t
  BY <1>1
<1>4. f \in Bijection(S, T)
  BY <1>2, <1>3, Fun_IsBij
<1>5. ExistsBijection(S, T)
  BY <1>4, Fun_ExistsBij
<1>6. QED
  BY <1>1, <1>5, FS_Bijection

\* Slices of any elements flatten to a slice of those elements.
LEMMA SlicesTogether ==
  ASSUME NEW n \in Nat, NEW s, s = [i \in 1..n |-> s[i]], \A i \in 1..n : IsSequence(s[i])
  PROVE  /\ s \in Seq(Seq(UNION {ToSet(s[i]) : i \in 1..n})) /\ Len(s) = n
         /\ IsSequence(FlattenSeq(s))
         /\ \A i \in 1..n : ToSet(s[i]) \subseteq ToSet(FlattenSeq(s))
         /\ \A x \in ToSet(FlattenSeq(s)) : \E i \in 1..n : x \in ToSet(s[i])
<1>1. PICK T : T = UNION {ToSet(s[i]) : i \in 1..n}
  OBVIOUS
<1>2. ASSUME NEW i \in 1..n
      PROVE  s[i] \in Seq(T)
  <2>1. PICK p : p = s[i]
    OBVIOUS
  <2>2. p \in Seq(ToSet(p)) /\ ToSet(p) \subseteq T
    BY <1>1, <2>1 DEF IsSequence
  <2>3. p \in Seq(T)
    BY <2>2
  <2>4. QED
    BY <2>1, <2>3
<1>3. s \in Seq(Seq(T)) /\ Len(s) = n
  <2>1. s \in [1..n -> Seq(T)]
    BY <1>2, Zenon
  <2>2. QED
    BY <2>1
<1>4. IsSequence(FlattenSeq(s))
  <2>1. FlattenSeq(s) \in Seq(T)
    BY <1>3, FlattenSteps
  <2>2. QED
    BY <2>1, SeqOfItsOwn DEF IsSequence
<1>5. /\ \A i \in 1..n : \A j \in 1..Len(s[i]) : s[i][j] \in ToSet(FlattenSeq(s))
      /\ \A x \in ToSet(FlattenSeq(s)) :
           \E i \in 1..n : \E j \in 1..Len(s[i]) : x = s[i][j]
  BY <1>3, FlattenElements
<1>6. ASSUME NEW i \in 1..n
      PROVE  \A x : x \in ToSet(s[i]) <=> \E j \in 1..Len(s[i]) : x = s[i][j]
  <2>1. PICK p \in Seq(T) : p = s[i]
    BY <1>2
  <2>2. ToSet(p) = {p[j] : j \in 1..Len(p)}
    BY ToSetSeq
  <2>3. QED
    BY <2>1, <2>2, Zenon
<1>7. ASSUME NEW i \in 1..n, NEW x \in ToSet(s[i])
      PROVE  x \in ToSet(FlattenSeq(s))
  <2>1. PICK j \in 1..Len(s[i]) : x = s[i][j]
    BY <1>6, <1>7
  <2>2. QED
    BY <1>5, <2>1
<1>8. ASSUME NEW x \in ToSet(FlattenSeq(s))
      PROVE  \E i \in 1..n : x \in ToSet(s[i])
  BY <1>5, <1>6, Zenon
<1>9. QED
  BY <1>1, <1>3, <1>4, <1>7, <1>8

\* A filter keeps as many elements as it has positions.
LEMMA SubsequenceCount ==
  ASSUME NEW T, NEW s \in Seq(T), NEW I \in SUBSET (1..Len(s))
  PROVE  Len(Subsequence(s, I)) = Cardinality(I)
<1>1. PICK at : at = InOrder(I, <)
  OBVIOUS
<1>2. Cardinality(I) \in Nat /\ at \in [1..Cardinality(I) -> I]
  <2>1. Len(s) \in Nat
    OBVIOUS
  <2>2. PICK n \in Nat : n = Len(s)
    BY <2>1
  <2>3. Cardinality(I) \in 0..n
    BY <2>2, PositionsInOrder
  <2>4. InOrder(I, <) \in [1..Cardinality(I) -> I]
    BY <2>2, PositionsInOrder
  <2>5. at \in [1..Cardinality(I) -> I]
    BY <1>1, <2>4, Zenon
  <2>6. Cardinality(I) \in Nat
    BY <2>3
  <2>7. QED
    BY <2>5, <2>6
<1>3. PICK m \in Nat : m = Cardinality(I) /\ DOMAIN at = 1..m
  BY <1>2
<1>4. Subsequence(s, I) = [k \in 1..m |-> s[at[k]]]
  BY <1>1, <1>3 DEF Subsequence
<1>5. QED
  BY <1>3, <1>4

\* The least position of a set is its minimum.
LEMMA MinIsLeast ==
  ASSUME NEW I \in SUBSET Nat, NEW i \in I, \A j \in I : i <= j
  PROVE  Min(I) = i
<1>1. PICK x : x = CHOOSE y \in I : \A j \in I : y <= j
  OBVIOUS
<1>2. x \in I /\ \A j \in I : x <= j
  BY <1>1
<1>3. Min(I) = x
  BY <1>1 DEF Min
<1>4. i <= x /\ x <= i /\ i \in Nat /\ x \in Nat
  BY <1>2
<1>5. QED
  BY <1>3, <1>4

\* Sums of parts that are not empty rise.
LEMMA SumsRise ==
  ASSUME NEW m \in Nat, NEW after \in [0..m -> Nat],
         \A i \in 1..m : after[i - 1] < after[i]
  PROVE  \A i, j \in 0..m : i < j => after[i] < after[j]
<1>1. PICK S : S = {n \in Nat : n <= m => \A i \in 0..m : i < n => after[i] < after[n]}
  OBVIOUS
<1>2. 0 \in S
  BY <1>1
<1>3. ASSUME NEW n \in Nat, n \in S
      PROVE  n + 1 \in S
  <2>1. SUFFICES ASSUME n + 1 <= m, NEW i \in 0..m, i < n + 1
                 PROVE  after[i] < after[n + 1]
    BY <1>1
  <2>2. n + 1 \in 1..m /\ n \in 0..m /\ n + 1 - 1 = n
    BY <2>1
  <2>3. after[n] < after[n + 1]
    BY <2>2
  <2>4. CASE i = n
    BY <2>3, <2>4
  <2>5. CASE i # n
    <3>1. i < n
      BY <2>1, <2>5
    <3>2. after[i] < after[n]
      BY <1>1, <1>3, <2>2, <3>1
    <3>3. after[i] \in Nat /\ after[n] \in Nat /\ after[n + 1] \in Nat
      BY <2>2
    <3>4. QED
      BY <2>3, <3>2, <3>3
  <2>6. QED
    BY <2>4, <2>5
<1>4. \A n \in Nat : n \in S
  BY <1>2, <1>3, SetInduction
<1>5. QED
  BY <1>1, <1>4

\* Moving the first element of y to the end of x leaves them the same together.
LEMMA OneMoved ==
  ASSUME NEW T, NEW x \in Seq(T), NEW y \in Seq(T), y # <<>>
  PROVE  /\ Append(x, Head(y)) \in Seq(T) /\ Tail(y) \in Seq(T)
         /\ Append(x, Head(y)) \o Tail(y) = x \o y
<1>1. PICK m \in Nat, n \in Nat : m = Len(x) /\ n = Len(y)
  OBVIOUS
<1>2. n # 0 /\ Head(y) = y[1] /\ y[1] \in T
  BY <1>1
<1>14. PICK h \in T : h = y[1] /\ h = Head(y)
  BY <1>2
<1>15. Append(x, h) \in Seq(T)
  OBVIOUS
<1>3. PICK a \in Seq(T) : a = Append(x, h)
  BY <1>15
<1>4. Len(a) = m + 1 /\ a[m + 1] = y[1] /\ \A i \in 1..m : a[i] = x[i]
  BY <1>1, <1>3, <1>14
<1>16. Tail(y) \in Seq(T)
  OBVIOUS
<1>5. PICK b \in Seq(T) : b = Tail(y)
  BY <1>16
<1>6. Len(b) = n - 1 /\ \A i \in 1..(n - 1) : b[i] = y[i + 1]
  BY <1>1, <1>2, <1>5
<1>17. a \o b \in Seq(T) /\ x \o y \in Seq(T)
  OBVIOUS
<1>7. PICK u \in Seq(T) : u = a \o b
  BY <1>17
<1>8. PICK v \in Seq(T) : v = x \o y
  BY <1>17
<1>9. /\ Len(u) = m + n
      /\ \A i \in 1..(m + 1) : u[i] = a[i]
      /\ \A i \in 1..(n - 1) : u[m + 1 + i] = b[i]
  <2>1. /\ Len(u) = Len(a) + Len(b)
        /\ \A i \in 1..Len(a) : u[i] = a[i]
        /\ \A i \in 1..Len(b) : u[Len(a) + i] = b[i]
    BY <1>7
  <2>2. Len(a) = m + 1 /\ Len(b) = n - 1 /\ m + 1 + (n - 1) = m + n
    BY <1>1, <1>4, <1>6
  <2>3. QED
    BY <2>1, <2>2
<1>10. /\ Len(v) = m + n
       /\ \A i \in 1..m : v[i] = x[i]
       /\ \A i \in 1..n : v[m + i] = y[i]
  BY <1>1, <1>8
<1>11. ASSUME NEW i \in 1..(m + n) PROVE u[i] = v[i]
  <2>1. CASE i \in 1..m
    BY <1>4, <1>9, <1>10, <2>1
  <2>2. CASE i = m + 1
    <3>1. 1 \in 1..n
      BY <1>2
    <3>2. u[m + 1] = y[1] /\ v[m + 1] = y[1]
      BY <1>4, <1>9, <1>10, <3>1
    <3>3. QED
      BY <2>2, <3>2
  <2>3. CASE i \in (m + 2)..(m + n)
    <3>1. PICK j \in 1..(n - 1) : i = m + 1 + j /\ j + 1 \in 1..n /\ m + (j + 1) = i
      <4>1. i - m - 1 \in 1..(n - 1)
        BY <2>3
      <4>2. i = m + 1 + (i - m - 1) /\ i - m - 1 + 1 \in 1..n /\ m + (i - m - 1 + 1) = i
        BY <2>3
      <4>3. QED
        BY <4>1, <4>2
    <3>2. u[m + 1 + j] = y[j + 1] /\ v[m + (j + 1)] = y[j + 1]
      BY <1>6, <1>9, <1>10, <3>1
    <3>3. QED
      BY <3>1, <3>2
  <2>4. QED
    BY <2>1, <2>2, <2>3
<1>12. u = v
  BY <1>9, <1>10, <1>11
<1>13. QED
  BY <1>3, <1>5, <1>7, <1>8, <1>12, <1>14

=============================================================================

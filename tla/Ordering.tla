------------------------------ MODULE Ordering ------------------------------
(***************************************************************************)
(* Filters and sorts of the program's slices, by the positions of their    *)
(* elements.  They say what SelectSeq and SortSeq compute, as first-order  *)
(* definitions that can be reasoned about as well as evaluated.            *)
(***************************************************************************)
EXTENDS Integers, FiniteSets, SequencesExt

\* A slice: a sequence of whatever its elements are.
IsSequence(s) == s \in Seq(ToSet(s))

\* The elements of a finite set from the first to the last, in a strict total
\* order: the k-th is the one with k - 1 others before it.
InOrder(S, Before(_, _)) ==
  [k \in 1..Cardinality(S) |->
     CHOOSE x \in S : Cardinality({y \in S : Before(y, x)}) = k - 1]

\* The elements of s at some of its positions, in the order of s.
Subsequence(s, positions) ==
  LET at == InOrder(positions, <) IN [k \in DOMAIN at |-> s[at[k]]]

\* The elements of s that are in S, in the order of s.
Among(s, S) == Subsequence(s, {i \in DOMAIN s : s[i] \in S})

\* Each element of s once, where it comes first.
Distinct(s) ==
  Subsequence(s, {i \in DOMAIN s : \A j \in 1..(i - 1) : s[j] # s[i]})

\* sort.SliceStable and slices.SortStableFunc: elements that compare equal stay
\* in the order they came.
StableSort(s, Less(_, _)) ==
  LET at == InOrder(DOMAIN s, LAMBDA i, j :
              Less(s[i], s[j]) \/ (~Less(s[j], s[i]) /\ i < j))
  IN  [k \in DOMAIN at |-> s[at[k]]]

=============================================================================

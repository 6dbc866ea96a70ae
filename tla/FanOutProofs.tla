---------------------------- MODULE FanOutProofs ----------------------------
(***************************************************************************)
(* Proofs about FanOut, for any number of sources and any naming of them.  *)
(*                                                                         *)
(* The inductive invariant is the collector's bookkeeping: a goroutine     *)
(* that has sent its result is either still in the channel or has been     *)
(* reported, never both and never twice, and the results collected so far  *)
(* are those reported plus those the expiry loop has already passed.       *)
(***************************************************************************)
EXTENDS FanOut, OrderingProofs

\* No source has two entries in a sequence of results.
OncePerSource(rs) ==
  \A j, k \in 1..Len(rs) : rs[j].index = rs[k].index => j = k
IndexesOf(rs) == {rs[k].index : k \in 1..Len(rs)}

ChannelInv ==
  /\ OncePerSource(pending)
  /\ \A i \in Sources : task[i] = "exited" <=> i \in IndexesOf(pending) \cup reported
  /\ IndexesOf(pending) \cap reported = {}
  /\ \A k \in 1..Len(pending) : pending[k].section = made[pending[k].index]
  /\ \A i \in Sources : task[i] \in {"sending", "exited"} => made[i] \in Section

CollectorInv ==
  /\ OncePerSource(results)
  /\ IndexesOf(results) = reported \cup 1..(cursor - 1)
  /\ \A k \in 1..Len(results) :
       results[k].index \in reported => results[k].section = made[results[k].index]
  /\ pc = "start" => \A i \in Sources : task[i] = "idle"
  /\ pc \in {"start", "collect", "drain"} => cursor = 1
  /\ pc \in {"order", "returned"} => IndexesOf(results) = Sources

ExpiryInv ==
  /\ pc = "drain" => ctx = "done"
  /\ pc = "expire" \/ cursor > 1 => ctx = "done" /\ inTime \subseteq reported
  /\ \A i \in inTime : task[i] = "exited"

Inv == TypeOK /\ ChannelInv /\ CollectorInv /\ ExpiryInv

\* Whose a section is, what it says of a source that broke, and what Run made of
\* them all.
HonestyInv ==
  /\ \A i \in broken : task[i] \in {"sending", "exited"} /\ made[i] = Failed(i)
  /\ \A i \in Sources : task[i] \in {"sending", "exited"} => made[i].source = i
  /\ \A k \in 1..Len(results) :
       /\ results[k].section.source = results[k].index
       /\ results[k].index \notin reported
            => results[k].section = Expired(results[k].index)
  /\ pc = "returned" =>
       /\ report.sections = OrderSections(results, Position, NumNamed)
       /\ report.cached = {s.source : s \in {t \in ToSet(report.sections) : t.cached}}

-----------------------------------------------------------------------------
(* Counting. *)

\* A counted interval.
LEMMA Counted ==
  ASSUME NEW n \in Nat
  PROVE  IsFiniteSet(1..n) /\ Cardinality(1..n) = n
<1>1. Cardinality(1..n) = IF 1 > n THEN 0 ELSE n - 1 + 1
  BY FS_Interval
<1>2. IsFiniteSet(1..n)
  BY FS_Interval
<1>3. QED
  BY <1>1, <1>2

\* Results of different sources among the indexes T number at most as many as T.
LEMMA AtMostAsMany ==
  ASSUME NEW rs \in Seq(Result), OncePerSource(rs),
         NEW T, IsFiniteSet(T), IndexesOf(rs) \subseteq T
  PROVE  Len(rs) <= Cardinality(T)
<1> DEFINE f == [k \in 1..Len(rs) |-> rs[k].index]
<1>1. f \in [1..Len(rs) -> T]
  BY DEF IndexesOf
<1>2. f \in Injection(1..Len(rs), T)
  BY <1>1, Fun_IsInj DEF OncePerSource
<1>3. Len(rs) \in Nat /\ Cardinality(1..Len(rs)) = Len(rs)
  <2>1. Len(rs) \in Nat
    OBVIOUS
  <2>2. QED
    BY <2>1, Counted
<1>4. QED
  BY <1>2, <1>3, FS_Injection

\* N results of different sources leave no source out.
LEMMA AllWhenFull ==
  ASSUME NEW rs \in Seq(Result), OncePerSource(rs), Len(rs) = N
  PROVE  IndexesOf(rs) = Sources
<1> USE NAssumption
<1> DEFINE f == [k \in 1..Len(rs) |-> rs[k].index]
<1>1. \A k \in 1..Len(rs) : rs[k].index \in Sources
  <2>1. \A k \in 1..Len(rs) : rs[k] \in Result
    OBVIOUS
  <2>2. QED
    BY <2>1 DEF Result
<1>2. f \in [1..Len(rs) -> Sources]
  BY <1>1
<1>3. f \in Injection(1..Len(rs), Sources)
  BY <1>2, Fun_IsInj DEF OncePerSource
<1>4. IsFiniteSet(Sources) /\ Cardinality(Sources) = N
  BY Counted DEF Sources
<1>5. Cardinality(1..Len(rs)) = Cardinality(Sources)
  BY <1>4 DEF Sources
<1>6. f \in Surjection(1..Len(rs), Sources)
  BY <1>3, <1>4, <1>5, FS_Injection
<1>7. \A i \in Sources : \E k \in 1..Len(rs) : f[k] = i
  BY <1>6, Fun_SurjectionProperties
<1>8. QED
  BY <1>1, <1>7 DEF IndexesOf

\* Different sources, all of them: N results.
LEMMA FullWhenAll ==
  ASSUME NEW rs \in Seq(Result), OncePerSource(rs), IndexesOf(rs) = Sources
  PROVE  Len(rs) = N
<1> USE NAssumption
<1> DEFINE f == [k \in 1..Len(rs) |-> rs[k].index]
<1>1. f \in [1..Len(rs) -> Sources]
  BY DEF IndexesOf
<1>2. f \in Surjection(1..Len(rs), Sources)
  BY <1>1, Fun_IsSurj DEF IndexesOf
<1>3. IsFiniteSet(Sources) /\ Cardinality(Sources) = N
  BY Counted DEF Sources
<1>4. Len(rs) \in Nat /\ Cardinality(1..Len(rs)) = Len(rs) /\ IsFiniteSet(1..Len(rs))
  <2>1. Len(rs) \in Nat
    OBVIOUS
  <2>2. QED
    BY <2>1, Counted
<1>5. N <= Len(rs)
  BY <1>2, <1>3, <1>4, FS_Surjection
<1>6. Len(rs) <= N
  BY <1>3, AtMostAsMany
<1>7. QED
  BY <1>4, <1>5, <1>6

-----------------------------------------------------------------------------
(* What appending to and taking from a sequence of results does to its        *)
(* indexes.                                                                   *)

\* An appended result adds its index; the others stay where they are.
LEMMA AppendIndexes ==
  ASSUME NEW rs \in Seq(Result), NEW r \in Result
  PROVE  /\ IndexesOf(Append(rs, r)) = IndexesOf(rs) \cup {r.index}
         /\ OncePerSource(rs) /\ r.index \notin IndexesOf(rs)
              => OncePerSource(Append(rs, r))
         /\ \A k \in 1..Len(Append(rs, r)) :
              \/ Append(rs, r)[k] = r
              \/ k \in 1..Len(rs) /\ Append(rs, r)[k] = rs[k]
<1>1. /\ Len(Append(rs, r)) = Len(rs) + 1
      /\ Append(rs, r)[Len(rs) + 1] = r
      /\ \A k \in 1..Len(rs) : Append(rs, r)[k] = rs[k]
      /\ Len(rs) \in Nat
  OBVIOUS
<1>2. IndexesOf(Append(rs, r)) = IndexesOf(rs) \cup {r.index}
  <2>1. ASSUME NEW x \in IndexesOf(Append(rs, r))
        PROVE  x \in IndexesOf(rs) \cup {r.index}
    BY <1>1, <2>1 DEF IndexesOf
  <2>2. IndexesOf(rs) \subseteq IndexesOf(Append(rs, r))
    BY <1>1 DEF IndexesOf
  <2>3. r.index \in IndexesOf(Append(rs, r))
    <3>1. Len(rs) + 1 \in 1..Len(Append(rs, r))
      BY <1>1
    <3>2. QED
      BY <1>1, <3>1 DEF IndexesOf
  <2>4. QED
    BY <2>1, <2>2, <2>3
<1>3. ASSUME OncePerSource(rs), r.index \notin IndexesOf(rs)
      PROVE  OncePerSource(Append(rs, r))
  <2>1. SUFFICES ASSUME NEW j \in 1..(Len(rs) + 1), NEW k \in 1..(Len(rs) + 1),
                        Append(rs, r)[j].index = Append(rs, r)[k].index
                 PROVE  j = k
    BY <1>1 DEF OncePerSource
  <2>2. CASE j \in 1..Len(rs) /\ k \in 1..Len(rs)
    BY <1>1, <1>3, <2>1, <2>2 DEF OncePerSource
  <2>3. CASE j = Len(rs) + 1 /\ k = Len(rs) + 1
    BY <2>3
  <2>4. CASE j = Len(rs) + 1 /\ k \in 1..Len(rs)
    BY <1>1, <1>3, <2>1, <2>4 DEF IndexesOf
  <2>5. CASE k = Len(rs) + 1 /\ j \in 1..Len(rs)
    BY <1>1, <1>3, <2>1, <2>5 DEF IndexesOf
  <2>6. QED
    BY <1>1, <2>2, <2>3, <2>4, <2>5
<1>4. \A k \in 1..Len(Append(rs, r)) : k = Len(rs) + 1 \/ k \in 1..Len(rs)
  BY <1>1
<1>5. QED
  BY <1>1, <1>2, <1>3, <1>4

\* Taking the first of results of different sources takes its index away.
LEMMA TailIndexes ==
  ASSUME NEW rs \in Seq(Result), rs # <<>>, OncePerSource(rs)
  PROVE  /\ Head(rs) \in Result
         /\ Head(rs).index \in IndexesOf(rs)
         /\ IndexesOf(Tail(rs)) = IndexesOf(rs) \ {Head(rs).index}
         /\ OncePerSource(Tail(rs))
<1>1. /\ Len(rs) \in Nat \ {0}
      /\ Len(Tail(rs)) = Len(rs) - 1
      /\ \A k \in 1..Len(Tail(rs)) : Tail(rs)[k] = rs[k + 1]
      /\ Head(rs) = rs[1]
      /\ Head(rs) \in Result
  BY HeadTailProperties, EmptySeq
<1>2. Head(rs).index \in IndexesOf(rs)
  BY <1>1 DEF IndexesOf
<1>3. IndexesOf(Tail(rs)) = IndexesOf(rs) \ {Head(rs).index}
  <2>1. ASSUME NEW k \in 1..Len(Tail(rs))
        PROVE  Tail(rs)[k].index \in IndexesOf(rs) \ {Head(rs).index}
    <3>1. k + 1 \in 1..Len(rs) /\ k + 1 # 1 /\ 1 \in 1..Len(rs)
      BY <1>1
    <3>2. QED
      BY <1>1, <3>1 DEF IndexesOf, OncePerSource
  <2>2. ASSUME NEW x \in IndexesOf(rs), x # Head(rs).index
        PROVE  x \in IndexesOf(Tail(rs))
    <3>1. PICK k \in 1..Len(rs) : rs[k].index = x
      BY DEF IndexesOf
    <3>2. k - 1 \in 1..Len(Tail(rs)) /\ Tail(rs)[k - 1] = rs[k]
      BY <1>1, <2>2, <3>1
    <3>3. QED
      BY <3>1, <3>2 DEF IndexesOf
  <2>3. QED
    BY <2>1, <2>2 DEF IndexesOf
<1>4. OncePerSource(Tail(rs))
  <2>1. SUFFICES ASSUME NEW j \in 1..Len(Tail(rs)), NEW k \in 1..Len(Tail(rs)),
                        Tail(rs)[j].index = Tail(rs)[k].index
                 PROVE  j = k
    BY DEF OncePerSource
  <2>2. j + 1 \in 1..Len(rs) /\ k + 1 \in 1..Len(rs)
    BY <1>1
  <2>3. rs[j + 1].index = rs[k + 1].index
    BY <1>1, <2>1
  <2>4. QED
    BY <2>2, <2>3 DEF OncePerSource
<1>5. QED
  BY <1>1, <1>2, <1>3, <1>4

-----------------------------------------------------------------------------
(* The documented order.                                                      *)

\* The order of the report is strict and total on the sources.
LEMMA PrecedesIsStrict ==
  /\ \A i \in Sources : ~Precedes(i, i)
  /\ \A i, j, k \in Sources : Precedes(i, j) /\ Precedes(j, k) => Precedes(i, k)
  /\ \A i, j \in Sources : i = j \/ Precedes(i, j) \/ Precedes(j, i)
<1>1. \A i \in Sources : i \in Nat /\ Position[i] \in Nat
  BY PositionAssumption, NAssumption DEF Sources
<1>2. QED
  BY <1>1 DEF Precedes

\* One pass per name and a last one for the rest, each in registration order, is
\* the order of the report.
LEMMA PassesAreInOrder ==
  ASSUME NEW i \in Sources, NEW j \in Sources
  PROVE  Precedes(i, j) <=>
           \/ Pass(i, Position, NumNamed) < Pass(j, Position, NumNamed)
           \/ Pass(i, Position, NumNamed) = Pass(j, Position, NumNamed) /\ i < j
<1>1. /\ Position[i] \in 0..NumNamed /\ Position[j] \in 0..NumNamed
      /\ NumNamed \in Nat /\ i \in Nat /\ j \in Nat
  BY PositionAssumption, NAssumption DEF Sources
<1>2. QED
  BY <1>1 DEF Precedes, Pass

\* orderSections gives back the sections of the results, each once, in the
\* documented order of their sources.
LEMMA OrderSectionsProperties ==
  ASSUME NEW rs \in Seq(Result), OncePerSource(rs)
  PROVE  \E at \in [1..Len(rs) -> 1..Len(rs)] :
           /\ OrderSections(rs, Position, NumNamed) = [k \in 1..Len(rs) |-> rs[at[k]].section]
           /\ \A j, k \in 1..Len(rs) : j < k => Precedes(rs[at[j]].index, rs[at[k]].index)
<1> DEFINE n == Len(rs)
           PassOf(r) == Pass(r.index, Position, NumNamed)
           Less(a, b) == PassOf(a) < PassOf(b) \/ (PassOf(a) = PassOf(b) /\ ByIndex(a, b))
           Earlier(i, j) == Less(rs[i], rs[j]) \/ (~Less(rs[j], rs[i]) /\ i < j)
           R == {p \in (1..n) \X (1..n) : Earlier(p[1], p[2])}
           at == InOrder(1..n, Earlier)
<1>1. n \in Nat /\ DOMAIN rs = 1..n
  OBVIOUS
<1>2. \A k \in 1..n : rs[k].index \in Sources
  <2>1. \A k \in 1..n : rs[k] \in Result
    OBVIOUS
  <2>2. QED
    BY <2>1 DEF Result
<1>3. \A i, j \in 1..n : Less(rs[i], rs[j]) <=> Precedes(rs[i].index, rs[j].index)
  BY <1>2, PassesAreInOrder DEF ByIndex
<1>4. \A i, j \in 1..n : i # j => rs[i].index # rs[j].index
  BY DEF OncePerSource
<1>5. \A i, j \in 1..n : <<i, j>> \in R <=> Earlier(i, j)
  BY SMTT(20)
<1>6. OrderSections(rs, Position, NumNamed) = [k \in DOMAIN at |-> rs[at[k]].section]
  BY <1>1 DEF OrderSections, StableSort
<1>7. at = [k \in 1..Cardinality(1..n) |->
              CHOOSE x \in 1..n : Cardinality({y \in 1..n : Earlier(y, x)}) = k - 1]
  BY DEF InOrder
<1>8. \A x \in 1..n : {y \in 1..n : Earlier(y, x)} = Below(x, 1..n, R)
  BY DEF Below
<1>9. \A i, j \in 1..n : Earlier(i, j) <=> Precedes(rs[i].index, rs[j].index)
  <2> HIDE DEF Less, n
  <2>1. TAKE i, j \in 1..n
  <2>2. CASE i = j
    BY <1>1, <1>2, <1>3, <2>2, PrecedesIsStrict
  <2>3. CASE i # j
    BY <1>2, <1>3, <1>4, <2>3, PrecedesIsStrict
  <2>4. QED
    BY <2>2, <2>3
<1> HIDE DEF n, PassOf, Less, Earlier, R, at
<1>10. \A i, j \in 1..n : <<i, j>> \in R <=> Precedes(rs[i].index, rs[j].index)
  BY <1>5, <1>9
<1>11. IsStrictOrder(R, 1..n)
  BY <1>2, <1>4, <1>10, PrecedesIsStrict DEF IsStrictOrder
<1>12. IsFiniteSet(1..n) /\ Cardinality(1..n) = n
  BY <1>1, Counted
<1>13. /\ at \in [1..n -> 1..n]
       /\ \A j, k \in 1..n : j < k => <<at[j], at[k]>> \in R
  <2>1. \A k \in 1..n : \E x \in 1..n : Cardinality(Below(x, 1..n, R)) = k - 1
    <3>1. ASSUME NEW k \in 1..Cardinality(1..n)
          PROVE  \E x \in 1..n : Cardinality(Below(x, 1..n, R)) = k - 1
      BY <1>11, <1>12, EveryRankIsTaken
    <3>2. QED
      BY <1>12, <3>1
  <2>2. \A k \in 1..n : \E x \in 1..n : Cardinality({y \in 1..n : Earlier(y, x)}) = k - 1
    BY <1>8, <2>1
  <2>3. at = [k \in 1..n |->
                CHOOSE x \in 1..n : Cardinality({y \in 1..n : Earlier(y, x)}) = k - 1]
    BY <1>7, <1>12
  <2>4. \A k \in 1..n : at[k] \in 1..n /\ Cardinality({y \in 1..n : Earlier(y, at[k])}) = k - 1
    BY <2>2, <2>3
  <2>5. at \in [1..n -> 1..n] /\ \A k \in 1..n : Cardinality(Below(at[k], 1..n, R)) = k - 1
    BY <1>8, <2>3, <2>4
  <2>6. IsListing(at, 1..n, R)
    BY <1>11, <1>12, <2>5, ListedByRank
  <2>7. QED
    BY <1>12, <2>6 DEF IsListing
<1>14. /\ OrderSections(rs, Position, NumNamed) = [k \in 1..n |-> rs[at[k]].section]
       /\ \A j, k \in 1..n : j < k => Precedes(rs[at[j]].index, rs[at[k]].index)
  BY <1>6, <1>10, <1>13
<1>15. QED
  BY <1>13, <1>14 DEF n

-----------------------------------------------------------------------------
(* The invariant holds initially and every step keeps it.                     *)

\* The invariant holds before the first launch.
LEMMA InitInv == Init => Inv
<1> SUFFICES ASSUME Init PROVE Inv
  OBVIOUS
<1> USE NAssumption DEF Init
<1>1. TypeOK
  BY DEF TypeOK, Sources
<1>2. ChannelInv
  BY DEF ChannelInv, OncePerSource, IndexesOf
<1>3. CollectorInv
  BY DEF CollectorInv, OncePerSource, IndexesOf
<1>4. ExpiryInv
  BY DEF ExpiryInv
<1>5. QED
  BY <1>1, <1>2, <1>3, <1>4 DEF Inv

\* What runOne returns is a section.
LEMMA RunOneSection ==
  ASSUME NEW i \in Sources, NEW o \in Outcome
  PROVE  RunOne(i, o) \in Section
BY DEF RunOne, Failed, Section, Outcome, Status

\* What expireOutstanding writes for a source is a result of that source.
LEMMA ExpiredResult ==
  ASSUME NEW i \in Sources
  PROVE  [index |-> i, section |-> Expired(i)] \in Result
BY DEF Expired, Failed, Section, Result, Status

\* The end of the context only starts the expiry.
LEMMA EndContextInv == Inv /\ EndContext => Inv'
<1> SUFFICES ASSUME Inv, EndContext PROVE Inv'
  OBVIOUS
<1> USE DEF EndContext, collectorVars
<1>1. TypeOK'
  BY DEF Inv, TypeOK
<1>2. ChannelInv'
  BY DEF Inv, ChannelInv, OncePerSource, IndexesOf
<1>3. CollectorInv'
  BY DEF Inv, CollectorInv, OncePerSource, IndexesOf
<1>4. ExpiryInv'
  BY DEF Inv, TypeOK, ExpiryInv
<1>5. QED
  BY <1>1, <1>2, <1>3, <1>4 DEF Inv

\* What a goroutine has in hand is in no channel and no report.
LEMMA FinishFetchInv ==
  ASSUME NEW i \in Sources, Inv, FinishFetch(i)
  PROVE  Inv'
<1> USE DEF FinishFetch, collectorVars
<1>1. PICK o \in Outcome : made' = [made EXCEPT ![i] = RunOne(i, o)]
  OBVIOUS
<1>2. RunOne(i, o) \in Section
  BY RunOneSection
<1>3. TypeOK'
  BY <1>1, <1>2 DEF Inv, TypeOK
<1>4. i \notin IndexesOf(pending) /\ i \notin reported
  BY DEF Inv, ChannelInv
<1>5. \A j \in Sources : j # i => made'[j] = made[j] /\ task'[j] = task[j]
  BY <1>1 DEF Inv, TypeOK
<1>6. \A k \in 1..Len(pending) : pending[k].index \in Sources /\ pending[k].index # i
  <2>1. \A k \in 1..Len(pending) : pending[k] \in Result
    BY DEF Inv, TypeOK
  <2>2. QED
    BY <1>4, <2>1 DEF Result, IndexesOf
<1>7. ChannelInv'
  BY <1>1, <1>2, <1>4, <1>5, <1>6 DEF Inv, TypeOK, ChannelInv, OncePerSource, IndexesOf
<1>8. CollectorInv'
  BY <1>4, <1>5 DEF Inv, TypeOK, CollectorInv, OncePerSource, IndexesOf
<1>9. ExpiryInv'
  BY <1>5 DEF Inv, TypeOK, ExpiryInv
<1>10. QED
  BY <1>3, <1>7, <1>8, <1>9 DEF Inv

\* A send moves a result from its goroutine to the channel.
LEMMA SendInv ==
  ASSUME NEW i \in Sources, Inv, Send(i)
  PROVE  Inv'
<1> USE DEF Send, collectorVars, historyVars
<1> DEFINE r == [index |-> i, section |-> made[i]]
<1>1. r \in Result /\ pending \in Seq(Result) /\ r.index = i /\ r.section = made[i]
  BY DEF Inv, TypeOK, ChannelInv, Result
<1>2. i \notin IndexesOf(pending) /\ i \notin reported
  BY DEF Inv, ChannelInv
<1>3. pending' = Append(pending, r)
  OBVIOUS
<1>4. IndexesOf(pending') = IndexesOf(pending) \cup {i} /\ OncePerSource(pending')
  BY <1>1, <1>2, <1>3, AppendIndexes DEF Inv, ChannelInv
<1>5. TypeOK'
  BY <1>1 DEF Inv, TypeOK
<1>6. ChannelInv'
  <2>1. \A j \in Sources : task'[j] = "exited" <=> j \in IndexesOf(pending') \cup reported'
    BY <1>4 DEF Inv, TypeOK, ChannelInv
  <2>2. \A k \in 1..Len(pending') : pending'[k].section = made'[pending'[k].index]
    BY <1>1, <1>3 DEF Inv, TypeOK, ChannelInv
  <2>3. \A j \in Sources : task'[j] \in {"sending", "exited"} => made'[j] \in Section
    BY DEF Inv, TypeOK, ChannelInv
  <2>4. IndexesOf(pending') \cap reported' = {}
    BY <1>2, <1>4 DEF Inv, ChannelInv
  <2>5. QED
    BY <1>4, <2>1, <2>2, <2>3, <2>4 DEF ChannelInv
<1>7. pc # "start"
  BY DEF Inv, CollectorInv
<1>8. CollectorInv'
  BY <1>7 DEF Inv, TypeOK, CollectorInv, OncePerSource, IndexesOf
<1>9. ExpiryInv'
  BY DEF Inv, TypeOK, ExpiryInv
<1>10. QED
  BY <1>5, <1>6, <1>8, <1>9 DEF Inv

\* A launched source has sent nothing.
LEMMA LaunchInv == Inv /\ Launch => Inv'
<1> SUFFICES ASSUME Inv, Launch PROVE Inv'
  OBVIOUS
<1> USE DEF Launch, historyVars
<1>1. TypeOK'
  BY DEF Inv, TypeOK
<1>2. IndexesOf(pending) \subseteq Sources /\ reported \subseteq Sources
  <2>1. \A k \in 1..Len(pending) : pending[k] \in Result
    BY DEF Inv, TypeOK
  <2>2. QED
    BY <2>1 DEF Inv, TypeOK, Result, IndexesOf
<1>3. IndexesOf(pending) = {} /\ reported = {}
  BY <1>2 DEF Inv, ChannelInv, CollectorInv
<1>4. ChannelInv'
  <2>1. \A i \in Sources : task'[i] = "running"
    OBVIOUS
  <2>2. IndexesOf(pending') = {} /\ reported' = {}
    BY <1>3 DEF IndexesOf
  <2>3. OncePerSource(pending')
    BY DEF Inv, ChannelInv, OncePerSource
  <2>4. 1..Len(pending') = {}
    BY <2>2 DEF IndexesOf
  <2>5. QED
    BY <2>1, <2>2, <2>3, <2>4 DEF ChannelInv
<1>5. CollectorInv'
  BY DEF Inv, CollectorInv, OncePerSource, IndexesOf
<1>6. ExpiryInv'
  BY DEF Inv, TypeOK, ExpiryInv, CollectorInv
<1>7. QED
  BY <1>1, <1>4, <1>5, <1>6 DEF Inv

\* A receive moves a result from the channel to the report.
LEMMA ReceiveInv == Inv /\ Receive => Inv'
<1> SUFFICES ASSUME Inv, Receive PROVE Inv'
  OBVIOUS
<1> USE DEF Receive, Accept, historyVars
<1> DEFINE r == Head(pending)
<1>1. /\ pending \in Seq(Result) /\ pending # <<>> /\ OncePerSource(pending)
      /\ results \in Seq(Result) /\ OncePerSource(results)
  BY DEF Inv, TypeOK, ChannelInv, CollectorInv
<1>2. /\ r \in Result
      /\ r.index \in IndexesOf(pending)
      /\ IndexesOf(Tail(pending)) = IndexesOf(pending) \ {r.index}
      /\ OncePerSource(Tail(pending))
  BY <1>1, TailIndexes
<1>3. r.index \in Sources /\ r.section \in Section
  BY <1>2 DEF Result
<1>4. cursor = 1 /\ IndexesOf(results) = reported
  <2>1. cursor = 1
    BY DEF Inv, CollectorInv
  <2>2. QED
    BY <2>1 DEF Inv, CollectorInv
<1>5. r.index \notin reported
  BY <1>2 DEF Inv, ChannelInv
<1>6. /\ IndexesOf(results') = IndexesOf(results) \cup {r.index}
      /\ OncePerSource(results')
  BY <1>1, <1>2, <1>4, <1>5, AppendIndexes
<1>7. TypeOK'
  <2>1. pending' \in Seq(Result) /\ results' \in Seq(Result) /\ observed' \in Seq(Section)
    BY <1>1, <1>2, <1>3, HeadTailProperties DEF Inv, TypeOK
  <2>2. QED
    BY <1>3, <2>1 DEF Inv, TypeOK
<1>8. ChannelInv'
  <2>1. \A i \in Sources : task'[i] = "exited" <=> i \in IndexesOf(pending') \cup reported'
    BY <1>2 DEF Inv, ChannelInv
  <2>2. IndexesOf(pending') \cap reported' = {}
    BY <1>2 DEF Inv, ChannelInv
  <2>3. \A k \in 1..Len(pending') : pending'[k].section = made'[pending'[k].index]
    BY <1>1, HeadTailProperties DEF Inv, TypeOK, ChannelInv
  <2>4. QED
    BY <1>2, <2>1, <2>2, <2>3 DEF Inv, ChannelInv
<1>9. CollectorInv'
  <2>1. r.section = made[r.index]
    BY <1>1 DEF Inv, ChannelInv
  <2>2. \A k \in 1..Len(results') : results'[k].index \in reported'
                                      => results'[k].section = made'[results'[k].index]
    <3>1. \A k \in 1..Len(results) : results[k].index \in reported
      BY <1>4 DEF IndexesOf
    <3>2. \A k \in 1..Len(results') : results'[k] = r \/ (k \in 1..Len(results) /\ results'[k] = results[k])
      BY <1>1, <1>2, AppendIndexes
    <3>3. QED
      BY <2>1, <3>1, <3>2 DEF Inv, CollectorInv
  <2>3. QED
    BY <1>4, <1>6, <2>2 DEF Inv, CollectorInv
<1>10. ExpiryInv'
  BY DEF Inv, ExpiryInv
<1>11. QED
  BY <1>7, <1>8, <1>9, <1>10 DEF Inv

\* The expiry loop writes a result for a source that has none.
LEMMA ExpireOneInv == Inv /\ ExpireOne => Inv'
<1> SUFFICES ASSUME Inv, ExpireOne PROVE Inv'
  OBVIOUS
<1> USE NAssumption DEF ExpireOne, Accept, historyVars
<1> DEFINE r == [index |-> cursor, section |-> Expired(cursor)]
<1>1. /\ cursor \in Sources /\ cursor \in Nat \ {0} /\ cursor <= N /\ cursor' = cursor + 1
      /\ 1..(cursor' - 1) = (1..(cursor - 1)) \cup {cursor}
      /\ r \in Result /\ r.index = cursor /\ r.section \in Section
  <2>1. r \in Result
    BY ExpiredResult
  <2>2. QED
    BY <2>1 DEF Sources, Result
<1>2. /\ results \in Seq(Result) /\ OncePerSource(results)
      /\ IndexesOf(results) = reported \cup 1..(cursor - 1)
  BY DEF Inv, TypeOK, CollectorInv
<1>3. ChannelInv'
  BY DEF Inv, ChannelInv, OncePerSource, IndexesOf
<1>4. ExpiryInv'
  BY DEF Inv, ExpiryInv
<1>5. CASE cursor \in reported
  <2>1. UNCHANGED <<results, observed>>
    BY <1>5
  <2>2. IndexesOf(results') = reported' \cup 1..(cursor' - 1)
    BY <1>1, <1>2, <1>5, <2>1
  <2>3. CollectorInv'
    BY <1>2, <2>1, <2>2 DEF Inv, CollectorInv
  <2>4. TypeOK'
    BY <1>1, <2>1 DEF Inv, TypeOK
  <2>5. QED
    BY <1>3, <1>4, <2>3, <2>4 DEF Inv
<1>6. CASE cursor \notin reported
  <2>1. results' = Append(results, r) /\ observed' = Append(observed, r.section)
    BY <1>6
  <2>2. cursor \notin IndexesOf(results)
    BY <1>1, <1>2, <1>6
  <2>3. /\ IndexesOf(results') = IndexesOf(results) \cup {cursor}
        /\ OncePerSource(results')
    BY <1>1, <1>2, <2>1, <2>2, AppendIndexes
  <2>4. TypeOK'
    BY <1>1, <2>1 DEF Inv, TypeOK
  <2>5. \A k \in 1..Len(results') : results'[k].index \in reported'
                                      => results'[k].section = made'[results'[k].index]
    <3>1. \A k \in 1..Len(results') : results'[k] = r \/ (k \in 1..Len(results) /\ results'[k] = results[k])
      BY <1>1, <1>2, <2>1, AppendIndexes
    <3>2. QED
      BY <1>1, <1>6, <3>1 DEF Inv, CollectorInv
  <2>6. CollectorInv'
    BY <1>1, <1>2, <2>3, <2>5 DEF Inv, CollectorInv
  <2>7. QED
    BY <1>3, <1>4, <2>4, <2>6 DEF Inv
<1>7. QED
  BY <1>5, <1>6

\* The steps that only move the collector on.
LEMMA MoveInv ==
  Inv /\ (StartExpired \/ AllCollected \/ StopWaiting \/ EndDrain \/ EndExpire \/ Return)
    => Inv'
<1> SUFFICES ASSUME Inv,
                    StartExpired \/ AllCollected \/ StopWaiting \/ EndDrain \/ EndExpire \/ Return
             PROVE  Inv'
  OBVIOUS
<1> USE NAssumption DEF historyVars
<1>1. UNCHANGED <<ctx, cursor, task, made, pending, results, reported, observed, inTime, broken>>
  BY DEF StartExpired, AllCollected, StopWaiting, EndDrain, EndExpire, Return
<1>2. ChannelInv'
  BY <1>1 DEF Inv, ChannelInv, OncePerSource, IndexesOf
<1>3. TypeOK'
  BY <1>1 DEF Inv, TypeOK, StartExpired, AllCollected, StopWaiting, EndDrain, EndExpire, Return
<1>4. IndexesOf(results') = IndexesOf(results) /\ (OncePerSource(results) => OncePerSource(results'))
  BY <1>1 DEF IndexesOf, OncePerSource
<1>5. pc' \in {"order", "returned"} => IndexesOf(results) = Sources
  <2>1. CASE AllCollected
    BY <2>1, AllWhenFull DEF AllCollected, Inv, TypeOK, CollectorInv
  <2>2. CASE EndExpire
    <3>1. 1..(cursor - 1) = Sources
      BY <2>2 DEF EndExpire, Sources
    <3>2. QED
      BY <3>1 DEF Inv, TypeOK, CollectorInv
  <2>3. CASE Return
    BY <2>3 DEF Return, Inv, CollectorInv
  <2>4. QED
    BY <2>1, <2>2, <2>3 DEF StartExpired, StopWaiting, EndDrain
<1>6. pc' # "start" /\ (pc' \in {"collect", "drain"} => pc = "collect")
  BY DEF StartExpired, AllCollected, StopWaiting, EndDrain, EndExpire, Return
<1>7. CollectorInv'
  BY <1>1, <1>4, <1>5, <1>6 DEF Inv, CollectorInv
<1>8. ExpiryInv'
  <2>1. CASE StartExpired
    <3>1. inTime = {}
      BY <2>1 DEF StartExpired, Inv, TypeOK, ExpiryInv, CollectorInv
    <3>2. QED
      BY <1>1, <2>1, <3>1 DEF StartExpired, Inv, ExpiryInv
  <2>2. CASE EndDrain
    <3>1. IndexesOf(pending) = {}
      BY <2>2 DEF EndDrain, IndexesOf
    <3>2. inTime \subseteq reported
      BY <3>1 DEF Inv, TypeOK, ChannelInv, ExpiryInv
    <3>3. QED
      BY <1>1, <2>2, <3>2 DEF EndDrain, Inv, ExpiryInv
  <2>3. CASE StopWaiting
    BY <1>1, <2>3 DEF StopWaiting, Inv, ExpiryInv, CollectorInv
  <2>4. CASE AllCollected \/ EndExpire \/ Return
    BY <1>1, <2>4 DEF AllCollected, EndExpire, Return, Inv, ExpiryInv
  <2>5. QED
    BY <2>1, <2>2, <2>3, <2>4
<1>9. QED
  BY <1>2, <1>3, <1>7, <1>8 DEF Inv

\* Every step keeps the invariant.
LEMMA NextInv == Inv /\ [Next]_vars => Inv'
<1>1. ASSUME Inv, UNCHANGED vars PROVE Inv'
  BY <1>1 DEF vars, historyVars, Inv, TypeOK, ChannelInv, CollectorInv, ExpiryInv,
              OncePerSource, IndexesOf
<1>2. ASSUME Inv, Collector PROVE Inv'
  BY <1>2, LaunchInv, ReceiveInv, ExpireOneInv, MoveInv DEF Collector
<1>3. ASSUME Inv, Finished PROVE Inv'
  BY <1>1, <1>3 DEF Finished
<1>4. QED
  BY <1>1, <1>2, <1>3, EndContextInv, FinishFetchInv, SendInv DEF Next

\* The invariant holds of every reachable state.
LEMMA SpecInv == Spec => []Inv
BY InitInv, NextInv, PTL DEF Spec

-----------------------------------------------------------------------------
(* The report says of each source what became of it.                          *)

\* Nothing has been made before the first launch.
LEMMA InitHonesty == Init => HonestyInv
BY DEF Init, HonestyInv

\* A source that broke is made to look failed; any other keeps its section.
LEMMA FinishFetchHonesty ==
  ASSUME NEW i \in Sources, Inv, HonestyInv, FinishFetch(i)
  PROVE  HonestyInv'
<1> USE DEF FinishFetch, collectorVars
<1>1. PICK o \in Outcome :
        /\ made' = [made EXCEPT ![i] = RunOne(i, o)]
        /\ broken' = IF o.panics \/ o.err THEN broken \cup {i} ELSE broken
  OBVIOUS
<1>2. RunOne(i, o).source = i /\ (o.panics \/ o.err => RunOne(i, o) = Failed(i))
  BY DEF RunOne, Failed
<1>3. i \notin broken /\ broken \subseteq Sources
  BY DEF HonestyInv, Inv, TypeOK
<1>4. /\ made'[i] = RunOne(i, o) /\ task'[i] = "sending"
      /\ \A j \in Sources : j # i => made'[j] = made[j] /\ task'[j] = task[j]
  BY <1>1 DEF Inv, TypeOK
<1>5. UNCHANGED <<results, reported, pc, report>>
  OBVIOUS
<1>6. \A j \in broken' : task'[j] \in {"sending", "exited"} /\ made'[j] = Failed(j)
  BY <1>1, <1>2, <1>3, <1>4 DEF HonestyInv
<1>7. \A j \in Sources : task'[j] \in {"sending", "exited"} => made'[j].source = j
  BY <1>2, <1>4 DEF HonestyInv
<1>8. QED
  BY <1>5, <1>6, <1>7 DEF HonestyInv

\* What is received is what was made, and it goes on the end of the results.
LEMMA ReceiveHonesty == Inv /\ HonestyInv /\ Receive => HonestyInv'
<1> SUFFICES ASSUME Inv, HonestyInv, Receive PROVE HonestyInv'
  OBVIOUS
<1> USE DEF Receive, Accept, historyVars
<1>1. /\ pending \in Seq(Result) /\ pending # <<>> /\ OncePerSource(pending)
      /\ results \in Seq(Result)
  BY DEF Inv, TypeOK, ChannelInv
<1>2. PICK r : r = Head(pending)
  OBVIOUS
<1>3. r \in Result /\ r = pending[1] /\ 1 \in 1..Len(pending) /\ r.index \in IndexesOf(pending)
  <2>1. r \in Result /\ r.index \in IndexesOf(pending)
    BY <1>1, <1>2, TailIndexes
  <2>2. QED
    BY <1>1, <1>2, <2>1, HeadTailProperties, EmptySeq
<1>4. r.index \in Sources /\ r.section = made[r.index] /\ task[r.index] = "exited"
  BY <1>3 DEF Inv, ChannelInv, Result
<1>5. r.section.source = r.index
  BY <1>4 DEF HonestyInv
<1>6. results' = Append(results, r) /\ reported' = reported \cup {r.index} /\ pc' # "returned"
  BY <1>2
<1>7. \A k \in 1..Len(results') :
        results'[k] = r \/ (k \in 1..Len(results) /\ results'[k] = results[k])
  BY <1>1, <1>3, <1>6, AppendIndexes
<1>8. \A k \in 1..Len(results') :
        /\ results'[k].section.source = results'[k].index
        /\ results'[k].index \notin reported'
             => results'[k].section = Expired(results'[k].index)
  BY <1>5, <1>6, <1>7 DEF HonestyInv
<1>9. QED
  BY <1>6, <1>8 DEF HonestyInv

\* What the budget cut off is written down as expired.
LEMMA ExpireOneHonesty == Inv /\ HonestyInv /\ ExpireOne => HonestyInv'
<1> SUFFICES ASSUME Inv, HonestyInv, ExpireOne PROVE HonestyInv'
  OBVIOUS
<1> USE DEF ExpireOne, Accept, historyVars
<1>1. CASE cursor \in reported
  BY <1>1 DEF HonestyInv
<1>2. CASE cursor \notin reported
  <2>1. PICK r : r = [index |-> cursor, section |-> Expired(cursor)]
    OBVIOUS
  <2>2. r \in Result /\ results \in Seq(Result)
    BY <2>1, ExpiredResult DEF Inv, TypeOK
  <2>3. r.section = Expired(r.index) /\ r.section.source = r.index
    BY <2>1 DEF Expired, Failed
  <2>4. results' = Append(results, r) /\ UNCHANGED <<reported, pc, task, made, broken>>
    BY <1>2, <2>1
  <2>5. \A k \in 1..Len(results') :
          results'[k] = r \/ (k \in 1..Len(results) /\ results'[k] = results[k])
    BY <2>2, <2>4, AppendIndexes
  <2>6. \A k \in 1..Len(results') :
          /\ results'[k].section.source = results'[k].index
          /\ results'[k].index \notin reported'
               => results'[k].section = Expired(results'[k].index)
    BY <2>3, <2>4, <2>5 DEF HonestyInv
  <2>7. pc' # "returned"
    BY <2>4
  <2>8. QED
    BY <2>4, <2>6, <2>7 DEF HonestyInv
<1>3. QED
  BY <1>1, <1>2

\* Every step keeps it.
LEMMA NextHonesty == Inv /\ HonestyInv /\ [Next]_vars => HonestyInv'
<1> SUFFICES ASSUME Inv, HonestyInv, [Next]_vars PROVE HonestyInv'
  OBVIOUS
<1>1. ASSUME UNCHANGED vars PROVE HonestyInv'
  BY <1>1 DEF vars, historyVars, HonestyInv
<1>2. CASE EndContext
  BY <1>2 DEF EndContext, collectorVars, HonestyInv
<1>3. ASSUME NEW i \in Sources, Send(i) PROVE HonestyInv'
  <2>1. UNCHANGED <<results, reported, pc, report, made, broken>>
    BY <1>3 DEF Send, collectorVars, historyVars
  <2>2. \A j \in Sources : task'[j] \in {"sending", "exited"}
                             <=> task[j] \in {"sending", "exited"}
    BY <1>3 DEF Send, Inv, TypeOK
  <2>3. broken \subseteq Sources
    BY DEF Inv, TypeOK
  <2>4. QED
    BY <2>1, <2>2, <2>3 DEF HonestyInv
<1>4. CASE Launch
  <2>1. UNCHANGED <<results, reported, report, made, broken>> /\ pc' # "returned"
    BY <1>4 DEF Launch, historyVars
  <2>2. broken = {}
    <3>1. \A i \in Sources : task[i] = "idle"
      BY <1>4 DEF Launch, Inv, CollectorInv
    <3>2. QED
      BY <3>1 DEF HonestyInv, Inv, TypeOK
  <2>3. \A i \in Sources : task'[i] = "running"
    BY <1>4 DEF Launch
  <2>4. QED
    BY <2>1, <2>2, <2>3 DEF HonestyInv
<1>5. CASE Return
  <2>1. UNCHANGED <<results, reported, task, made, broken>>
    BY <1>5 DEF Return, historyVars
  <2>2. PICK sections :
          /\ sections = OrderSections(results, Position, NumNamed)
          /\ report' = [sections |-> sections,
                         cached |-> {sections[k].source : k \in {j \in DOMAIN sections :
                                                                   sections[j].cached}}]
    BY <1>5 DEF Return
  <2>3. {sections[k].source : k \in {j \in DOMAIN sections : sections[j].cached}}
          = {s.source : s \in {t \in ToSet(sections) : t.cached}}
    BY DEF ToSet
  <2>4. report'.sections = sections /\ results' = results
    BY <2>1, <2>2
  <2>5. /\ report'.sections = OrderSections(results', Position, NumNamed)
        /\ report'.cached = {s.source : s \in {t \in ToSet(report'.sections) : t.cached}}
    BY <2>2, <2>3, <2>4
  <2>6. QED
    BY <2>1, <2>5 DEF HonestyInv
<1>6. CASE StartExpired \/ AllCollected \/ StopWaiting \/ EndDrain \/ EndExpire
  <2>1. UNCHANGED <<results, reported, task, made, broken>> /\ pc' # "returned"
    BY <1>6 DEF StartExpired, AllCollected, StopWaiting, EndDrain, EndExpire, historyVars
  <2>2. QED
    BY <2>1 DEF HonestyInv
<1>7. QED
  BY <1>1, <1>2, <1>3, <1>4, <1>5, <1>6, FinishFetchHonesty, ReceiveHonesty, ExpireOneHonesty
     DEF Next, Collector, Finished

\* It holds of every reachable state.
LEMMA SpecHonesty == Spec => []HonestyInv
BY InitHonesty, NextHonesty, SpecInv, PTL DEF Spec

-----------------------------------------------------------------------------
(* The theorems.                                                              *)

\* Every state of the fan-out is well typed: in particular what the collector
\* keeps are results of registered sources (assess.go:180-226).
THEOREM TypeCorrect == Spec => []TypeOK
<1>1. Inv => TypeOK
  BY DEF Inv
<1>2. QED
  BY <1>1, SpecInv, PTL

\* However many sources there are and however they answer, panic, hang or run out
\* of budget, the finished collection holds exactly one result per source
\* (assess.go:139-142, 228-238).
THEOREM ExactlyOneSection == Spec => []EverySourceOnce
<1>1. Inv => EverySourceOnce
  <2>1. SUFFICES ASSUME Inv, pc \in {"order", "returned"}
                 PROVE  Len(results) = N /\ \A i \in Sources : i \in IndexesOf(results)
    BY DEF EverySourceOnce, IndexesOf
  <2>2. results \in Seq(Result) /\ OncePerSource(results) /\ IndexesOf(results) = Sources
    BY <2>1 DEF Inv, TypeOK, CollectorInv
  <2>3. QED
    BY <2>2, FullWhenAll
<1>2. QED
  BY <1>1, SpecInv, PTL

\* A goroutine that has not sent yet never finds the channel full, whoever is or
\* is not receiving (assess.go:166-171).
THEOREM SendsNeverBlock == Spec => []RoomForEverySend
<1>1. Inv => RoomForEverySend
  <2>1. SUFFICES ASSUME Inv, NEW i \in Sources, task[i] \in {"running", "sending"}
                 PROVE  Len(pending) < N
    BY DEF RoomForEverySend, Capacity
  <2>2. pending \in Seq(Result) /\ OncePerSource(pending)
    BY <2>1 DEF Inv, TypeOK, ChannelInv
  <2>3. IndexesOf(pending) \subseteq Sources \ {i}
    <3>1. \A k \in 1..Len(pending) : pending[k] \in Result
      BY <2>2
    <3>2. i \notin IndexesOf(pending)
      BY <2>1 DEF Inv, ChannelInv
    <3>3. QED
      BY <3>1, <3>2 DEF Result, IndexesOf
  <2>4. IsFiniteSet(Sources) /\ Cardinality(Sources) = N
    BY NAssumption, Counted DEF Sources
  <2>5. IsFiniteSet(Sources \ {i}) /\ Cardinality(Sources \ {i}) = N - 1
    BY <2>4, FS_RemoveElement
  <2>6. Len(pending) <= Cardinality(Sources \ {i})
    BY <2>2, <2>3, <2>5, AtMostAsMany
  <2>7. Len(pending) \in Nat
    BY <2>2
  <2>8. QED
    BY <2>5, <2>6, <2>7, NAssumption
<1>2. QED
  BY <1>1, SpecInv, PTL

\* An answer that was in the channel when the context ended is never replaced by
\* an expired section (assess.go:207-210).
THEOREM AnswersInTimeAreKept == Spec => []DeliveredAnswersAreKept
<1>1. Inv => DeliveredAnswersAreKept
  <2>1. SUFFICES ASSUME Inv, NEW k \in 1..Len(results), results[k].index \in inTime
                 PROVE  results[k].section = made[results[k].index]
    BY DEF DeliveredAnswersAreKept
  <2>2. results[k].index \in reported
    <3>1. CASE cursor > 1
      BY <2>1, <3>1 DEF Inv, ExpiryInv
    <3>2. CASE cursor = 1
      BY <2>1, <3>2 DEF Inv, CollectorInv, IndexesOf
    <3>3. QED
      <4>1. cursor \in 1..(N + 1)
        BY <2>1 DEF Inv, TypeOK
      <4>2. QED
        BY <3>1, <3>2, <4>1, NAssumption
  <2>3. QED
    BY <2>1, <2>2 DEF Inv, CollectorInv
<1>2. QED
  BY <1>1, SpecInv, PTL

\* The report the reader gets lists one section per source in the documented
\* order, and a source that broke is in it as failed and never as served from the
\* cache, however the results arrived (assess.go:153-160, 283-303, 310-350).
THEOREM ReportTellsTheTruth == Spec => []ReportIsHonest
<1>1. Inv /\ HonestyInv => ReportIsHonest
  <2>1. SUFFICES ASSUME Inv, HonestyInv, pc = "returned"
                 PROVE  /\ Len(report.sections) = N
                        /\ \A j, k \in 1..N : j < k =>
                             Precedes(report.sections[j].source, report.sections[k].source)
                        /\ \A k \in 1..N : report.sections[k].source \in broken =>
                             /\ report.sections[k].status = "failed"
                             /\ report.sections[k].source \notin report.cached
    BY DEF ReportIsHonest
  <2>2. /\ results \in Seq(Result) /\ OncePerSource(results) /\ Len(results) = N
    <3>1. results \in Seq(Result) /\ OncePerSource(results) /\ IndexesOf(results) = Sources
      BY <2>1 DEF Inv, TypeOK, CollectorInv
    <3>2. QED
      BY <3>1, FullWhenAll
  <2>3. PICK sections : sections = report.sections
    OBVIOUS
  <2>4. PICK at \in [1..N -> 1..N] :
          /\ sections = [k \in 1..N |-> results[at[k]].section]
          /\ \A j, k \in 1..N :
               j < k => Precedes(results[at[j]].index, results[at[k]].index)
    <3>1. sections = OrderSections(results, Position, NumNamed)
      BY <2>1, <2>3 DEF HonestyInv
    <3>2. QED
      BY <2>2, <3>1, OrderSectionsProperties
  <2>5. \A k \in 1..N : sections[k] = results[at[k]].section
                         /\ sections[k].source = results[at[k]].index
    BY <2>1, <2>2, <2>4 DEF HonestyInv
  <2>6. ASSUME NEW k \in 1..N, sections[k].source \in broken
        PROVE  sections[k].status = "failed" /\ sections[k].cached = FALSE
    <3>1. PICK i : i = sections[k].source
      OBVIOUS
    <3>2. at[k] \in 1..Len(results) /\ results[at[k]].index = i /\ results[at[k]].section = sections[k]
      BY <2>2, <2>4, <2>5, <3>1
    <3>3. CASE i \in reported
      <4>1. sections[k] = made[i]
        BY <2>1, <3>2, <3>3 DEF Inv, CollectorInv
      <4>2. sections[k] = Failed(i)
        BY <2>1, <2>6, <3>1, <4>1 DEF HonestyInv
      <4>3. QED
        BY <4>2 DEF Failed
    <3>4. CASE i \notin reported
      <4>1. sections[k] = Expired(i)
        BY <2>1, <3>2, <3>4 DEF HonestyInv
      <4>2. QED
        BY <4>1 DEF Expired, Failed
    <3>5. QED
      BY <3>3, <3>4
  <2>7. \A k \in 1..N : sections[k].source \in broken => sections[k].source \notin report.cached
    <3>1. report.cached = {s.source : s \in {t \in ToSet(sections) : t.cached}}
      BY <2>1, <2>3 DEF HonestyInv
    <3>2. ToSet(sections) = {sections[k] : k \in 1..N}
      BY <2>4 DEF ToSet
    <3>3. QED
      BY <2>6, <3>1, <3>2
  <2>8. Len(sections) = N
    BY <2>4, NAssumption
  <2>9. \A j, k \in 1..N : j < k => Precedes(sections[j].source, sections[k].source)
    BY <2>4, <2>5
  <2>10. QED
    BY <2>3, <2>6, <2>7, <2>8, <2>9
<1>2. QED
  BY <1>1, SpecInv, SpecHonesty, PTL

-----------------------------------------------------------------------------
(* The fan-out implements Assessment, step by step.                           *)

\* The mapped state, as functions of what the collector has gathered.
AnswerIn(rs, i) ==
  LET mine == {k \in 1..Len(rs) : rs[k].index = i}
  IN IF mine = {} THEN None ELSE rs[CHOOSE k \in mine : TRUE].section
TimesIn(ss, i) == Cardinality({k \in 1..Len(ss) : ss[k].source = i})

Answers(rs) == [i \in Sources |-> AnswerIn(rs, i)]
Tellings(ss) == [i \in Sources |-> TimesIn(ss, i)]

\* A source's answer is the section of its result, if it has one.
LEMMA AnswerFound ==
  ASSUME NEW rs \in Seq(Result), OncePerSource(rs), NEW i \in Sources
  PROVE  /\ i \notin IndexesOf(rs) => AnswerIn(rs, i) = None
         /\ \A k \in 1..Len(rs) : rs[k].index = i => AnswerIn(rs, i) = rs[k].section
<1>1. i \notin IndexesOf(rs) => {k \in 1..Len(rs) : rs[k].index = i} = {}
  BY DEF IndexesOf
<1>2. ASSUME NEW k \in 1..Len(rs), rs[k].index = i
      PROVE  AnswerIn(rs, i) = rs[k].section
  <2>1. PICK mine : mine = {j \in 1..Len(rs) : rs[j].index = i}
    OBVIOUS
  <2>2. mine = {k}
    BY <1>2, <2>1 DEF OncePerSource
  <2>3. AnswerIn(rs, i) = rs[CHOOSE j \in mine : TRUE].section
    BY <2>1, <2>2 DEF AnswerIn
  <2>4. (CHOOSE j \in mine : TRUE) = k
    BY <2>2
  <2>5. QED
    BY <2>3, <2>4
<1>3. QED
  BY <1>1, <1>2 DEF AnswerIn

\* A new result answers for its source and for no other.
LEMMA AnswerAdded ==
  ASSUME NEW rs \in Seq(Result), OncePerSource(rs),
         NEW r \in Result, r.index \notin IndexesOf(rs)
  PROVE  Answers(Append(rs, r)) = [Answers(rs) EXCEPT ![r.index] = r.section]
<1>1. r.index \in Sources
  BY DEF Result
<1>2. PICK longer : longer = Append(rs, r)
  OBVIOUS
<1>3. longer \in Seq(Result) /\ OncePerSource(longer) /\ Len(rs) \in Nat
      /\ IndexesOf(longer) = IndexesOf(rs) \cup {r.index}
  BY <1>2, AppendIndexes
<1>4. /\ Len(longer) = Len(rs) + 1 /\ longer[Len(rs) + 1] = r
      /\ \A k \in 1..Len(rs) : longer[k] = rs[k]
  BY <1>2
<1>5. AnswerIn(longer, r.index) = r.section
  <2>1. Len(rs) + 1 \in 1..Len(longer)
    BY <1>3, <1>4
  <2>2. QED
    BY <1>1, <1>3, <1>4, <2>1, AnswerFound
<1>6. ASSUME NEW i \in Sources, i # r.index
      PROVE  AnswerIn(longer, i) = AnswerIn(rs, i)
  <2>1. CASE i \notin IndexesOf(rs)
    <3>1. i \notin IndexesOf(longer)
      BY <1>3, <1>6, <2>1
    <3>2. AnswerIn(longer, i) = None
      BY <1>3, <3>1, AnswerFound
    <3>3. QED
      BY <2>1, <3>2, AnswerFound
  <2>2. CASE i \in IndexesOf(rs)
    <3>1. PICK k \in 1..Len(rs) : rs[k].index = i
      BY <2>2 DEF IndexesOf
    <3>2. k \in 1..Len(longer) /\ longer[k] = rs[k]
      BY <1>3, <1>4
    <3>3. AnswerIn(longer, i) = longer[k].section
      BY <1>3, <3>1, <3>2, AnswerFound
    <3>4. AnswerIn(rs, i) = rs[k].section
      BY <3>1, AnswerFound
    <3>5. QED
      BY <3>2, <3>3, <3>4
  <2>3. QED
    BY <2>1, <2>2
<1>7. QED
  BY <1>1, <1>2, <1>5, <1>6 DEF Answers

\* The observer is told once more about one source, and of no other.
LEMMA TellingAdded ==
  ASSUME NEW ss \in Seq(Section), NEW s \in Section
  PROVE  Tellings(Append(ss, s)) = [Tellings(ss) EXCEPT ![s.source] = @ + 1]
<1>1. s.source \in Sources
  BY DEF Section
<1>2. PICK longer, n : longer = Append(ss, s) /\ n = Len(ss)
  OBVIOUS
<1>3. /\ n \in Nat /\ Len(longer) = n + 1 /\ longer[n + 1] = s
      /\ \A k \in 1..n : longer[k] = ss[k]
  BY <1>2
<1>4. ASSUME NEW i \in Sources
      PROVE  TimesIn(longer, i) = IF i = s.source THEN TimesIn(ss, i) + 1 ELSE TimesIn(ss, i)
  <2>1. PICK old : old = {k \in 1..n : ss[k].source = i}
    OBVIOUS
  <2>2. PICK new : new = {k \in 1..(n + 1) : longer[k].source = i}
    OBVIOUS
  <2>3. TimesIn(ss, i) = Cardinality(old) /\ TimesIn(longer, i) = Cardinality(new)
    BY <1>2, <1>3, <2>1, <2>2 DEF TimesIn
  <2>4. IsFiniteSet(old)
    <3>1. IsFiniteSet(1..n)
      BY <1>3, Counted
    <3>2. QED
      BY <2>1, <3>1, FS_Subset
  <2>5. n + 1 \notin old
    BY <1>3, <2>1
  <2>6. CASE i = s.source
    <3>1. new = old \cup {n + 1}
      BY <1>3, <2>1, <2>2, <2>6
    <3>2. Cardinality(new) = Cardinality(old) + 1
      BY <2>4, <2>5, <3>1, FS_AddElement
    <3>3. QED
      BY <2>3, <2>6, <3>2
  <2>7. CASE i # s.source
    <3>1. new = old
      BY <1>3, <2>1, <2>2, <2>7
    <3>2. QED
      BY <2>3, <2>7, <3>1
  <2>8. QED
    BY <2>6, <2>7
<1>5. QED
  BY <1>1, <1>2, <1>4 DEF Tellings

\* The collector's first state is Assessment's.
LEMMA PromiseInit == Init => Promise!Init
<1> SUFFICES ASSUME Init PROVE Promise!Init
  OBVIOUS
<1>1. results = <<>> /\ observed = <<>> /\ pc = "start"
  BY DEF Init
<1>2. \A i \in Sources : AnswerOf(i) = None
  BY <1>1 DEF AnswerOf
<1>3. \A i \in Sources : TimesTold(i) = 0
  <2>1. \A i \in Sources : {k \in 1..Len(observed) : observed[k].source = i} = {}
    BY <1>1
  <2>2. QED
    BY <2>1, FS_EmptySet DEF TimesTold
<1>4. QED
  BY <1>1, <1>2, <1>3 DEF Promise!Init

\* Recording a result the report does not have yet is a contribution.
LEMMA AcceptContributes ==
  ASSUME NEW r \in Result, Inv, Accept(r), r.index \notin IndexesOf(results),
         r.section.source = r.index, pc # "returned", pc' # "returned"
  PROVE  Promise!Contribute(r.index)
<1>1. /\ results \in Seq(Result) /\ OncePerSource(results) /\ observed \in Seq(Section)
  BY DEF Inv, TypeOK, CollectorInv
<1>2. r.index \in Sources /\ r.section \in Section
  BY DEF Result
<1>3. Answers(results') = [Answers(results) EXCEPT ![r.index] = r.section]
  BY <1>1, AnswerAdded DEF Accept
<1>4. Tellings(observed') = [Tellings(observed) EXCEPT ![r.index] = @ + 1]
  BY <1>1, <1>2, TellingAdded DEF Accept
<1>5. Answers(results)[r.index] = None
  BY <1>1, <1>2, AnswerFound DEF Answers
<1>6. /\ [i \in Sources |-> AnswerOf(i)] = Answers(results)
      /\ [i \in Sources |-> TimesTold(i)] = Tellings(observed)
      /\ [i \in Sources |-> AnswerOf(i)]' = Answers(results')
      /\ [i \in Sources |-> TimesTold(i)]' = Tellings(observed')
  BY DEF AnswerOf, AnswerIn, Answers, TimesTold, TimesIn, Tellings
<1>7. QED
  BY <1>2, <1>3, <1>4, <1>5, <1>6 DEF Promise!Contribute

\* A step that leaves results and observer alone and does not return is none of
\* Assessment's.
LEMMA OtherStepsStutter ==
  UNCHANGED <<results, observed>> /\ (pc' = "returned" <=> pc = "returned")
    => UNCHANGED Promise!vars
<1> SUFFICES ASSUME UNCHANGED <<results, observed>>, pc' = "returned" <=> pc = "returned"
             PROVE  UNCHANGED Promise!vars
  OBVIOUS
<1>1. [i \in Sources |-> AnswerOf(i)]' = [i \in Sources |-> AnswerOf(i)]
  BY DEF AnswerOf
<1>2. [i \in Sources |-> TimesTold(i)]' = [i \in Sources |-> TimesTold(i)]
  BY DEF TimesTold
<1>3. (pc = "returned")' = (pc = "returned")
  OBVIOUS
<1>4. QED
  BY <1>1, <1>2, <1>3 DEF Promise!vars

\* Every step of the fan-out is one of Assessment's or a stutter.
LEMMA PromiseStep ==
  Inv /\ HonestyInv /\ [Next]_vars => [Promise!Next]_(Promise!vars)
<1> SUFFICES ASSUME Inv, HonestyInv, [Next]_vars
             PROVE  Promise!Next \/ UNCHANGED Promise!vars
  OBVIOUS
<1>1. CASE UNCHANGED vars
  BY <1>1, OtherStepsStutter DEF vars
<1>2. CASE EndContext \/ \E i \in Sources : FinishFetch(i) \/ Send(i)
  <2>1. UNCHANGED <<results, observed, pc>>
    BY <1>2 DEF EndContext, FinishFetch, Send, collectorVars
  <2>2. QED
    BY <2>1, OtherStepsStutter
<1>3. CASE StartExpired \/ Launch \/ AllCollected \/ StopWaiting \/ EndDrain \/ EndExpire
  <2>1. UNCHANGED <<results, observed>> /\ pc # "returned" /\ pc' # "returned"
    BY <1>3 DEF StartExpired, Launch, AllCollected, StopWaiting, EndDrain, EndExpire
  <2>2. QED
    BY <2>1, OtherStepsStutter
<1>4. CASE Receive
  <2>1. PICK r : r = Head(pending)
    OBVIOUS
  <2>2. r \in Result /\ r.index \in IndexesOf(pending) /\ r = pending[1] /\ 1 \in 1..Len(pending)
    <3>1. pending \in Seq(Result) /\ pending # <<>> /\ OncePerSource(pending)
      BY <1>4 DEF Receive, Inv, TypeOK, ChannelInv
    <3>2. r \in Result /\ r.index \in IndexesOf(pending)
      BY <2>1, <3>1, TailIndexes
    <3>3. QED
      BY <2>1, <3>1, <3>2, HeadTailProperties, EmptySeq
  <2>3. r.index \in Sources /\ r.section = made[r.index] /\ task[r.index] = "exited"
    BY <2>2 DEF Inv, ChannelInv, Result
  <2>4. r.section.source = r.index
    BY <2>3 DEF HonestyInv
  <2>5. r.index \notin IndexesOf(results)
    <3>1. cursor = 1 /\ r.index \notin reported
      BY <1>4, <2>2 DEF Receive, Inv, ChannelInv, CollectorInv
    <3>2. QED
      BY <3>1 DEF Inv, CollectorInv
  <2>6. Accept(r) /\ pc # "returned" /\ pc' # "returned"
    BY <1>4, <2>1 DEF Receive
  <2>7. Promise!Contribute(r.index)
    BY <2>2, <2>4, <2>5, <2>6, AcceptContributes
  <2>8. QED
    BY <2>3, <2>7 DEF Promise!Next
<1>5. CASE ExpireOne
  <2>1. CASE cursor \in reported
    <3>1. UNCHANGED <<results, observed, pc>>
      BY <1>5, <2>1 DEF ExpireOne
    <3>2. QED
      BY <3>1, OtherStepsStutter
  <2>2. CASE cursor \notin reported
    <3>1. PICK r : r = [index |-> cursor, section |-> Expired(cursor)]
      OBVIOUS
    <3>2. cursor \in Sources /\ r \in Result /\ r.index = cursor /\ r.section.source = r.index
      BY <1>5, <3>1, ExpiredResult DEF ExpireOne, Expired, Failed
    <3>3. r.index \notin IndexesOf(results)
      <4>1. cursor \in Nat
        BY <3>2, NAssumption DEF Sources
      <4>2. QED
        BY <2>2, <3>2, <4>1 DEF Inv, CollectorInv
    <3>4. Accept(r) /\ pc # "returned" /\ pc' # "returned"
      BY <1>5, <2>2, <3>1 DEF ExpireOne
    <3>5. Promise!Contribute(r.index)
      BY <3>2, <3>3, <3>4, AcceptContributes
    <3>6. QED
      BY <3>2, <3>5 DEF Promise!Next
  <2>3. QED
    BY <2>1, <2>2
<1>6. CASE Return
  <2>1. UNCHANGED <<results, observed>> /\ pc = "order" /\ pc' = "returned"
    BY <1>6 DEF Return
  <2>2. [i \in Sources |-> AnswerOf(i)]' = [i \in Sources |-> AnswerOf(i)]
    BY <2>1 DEF AnswerOf
  <2>3. [i \in Sources |-> TimesTold(i)]' = [i \in Sources |-> TimesTold(i)]
    BY <2>1 DEF TimesTold
  <2>4. ASSUME NEW i \in Sources
        PROVE  AnswerOf(i) # None
    <3>1. /\ results \in Seq(Result) /\ OncePerSource(results) /\ i \in IndexesOf(results)
      BY <2>1 DEF Inv, TypeOK, CollectorInv
    <3>2. PICK k \in 1..Len(results) : results[k].index = i
      BY <3>1 DEF IndexesOf
    <3>3. AnswerIn(results, i) = results[k].section
      BY <3>1, <3>2, AnswerFound
    <3>4. AnswerOf(i) = results[k].section
      BY <3>3 DEF AnswerOf, AnswerIn
    <3>5. results[k].section.source = i
      BY <3>2 DEF HonestyInv
    <3>6. i # 0
      BY NAssumption DEF Sources
    <3>7. QED
      BY <3>4, <3>5, <3>6 DEF None
  <2>5. Promise!Deliver
    BY <2>1, <2>2, <2>3, <2>4 DEF Promise!Deliver
  <2>6. QED
    BY <2>5 DEF Promise!Next
<1>7. QED
  BY <1>1, <1>2, <1>3, <1>4, <1>5, <1>6 DEF Next, Collector, Finished

\* The fan-out is an implementation of the assessment its callers are promised, in
\* everything but the promise that the report comes at all: a section contributed
\* once is never changed, the observer hears of each exactly once and as it is
\* recorded, and Run returns only with every source accounted for
\* (assess.go:139-142, 180-240).
THEOREM FanOutRefinesAssessment ==
  Spec => Promise!Init /\ [][Promise!Next]_(Promise!vars)
BY PromiseInit, PromiseStep, SpecInv, SpecHonesty, PTL DEF Spec

=============================================================================

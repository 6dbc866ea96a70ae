------------------------------ MODULE NVDProofs ------------------------------
(***************************************************************************)
(* Proofs about CachedNVD and the walk of NVDFetch inside it, for any      *)
(* CPEs, any dictionary and CVE lists, any caps and any page sizes, and    *)
(* about the RateLimiter in front of it, for any number of callers, any    *)
(* interval and any lateness of the timers.                                *)
(*                                                                         *)
(* A walk keeps three things true of the CPEs it has behind it: the        *)
(* queries are the first match strings of the entity, each says what NVD   *)
(* knows, and the CVEs collected are a beginning of what NVD lists for     *)
(* each.  A walk that ends with a result adds that the rest is listed as   *)
(* unqueried and that the CVEs are sorted.  A cached row is such a result  *)
(* of the match strings of its own CPEs, so it is one of any entity with   *)
(* the same CPEs.                                                          *)
(*                                                                         *)
(* The limiter's slots form a queue whose neighbours are at least an       *)
(* interval apart, so slots n places apart are n intervals apart; a        *)
(* request leaves in its own slot or at most Lateness after it, because    *)
(* the clock cannot pass a sleeping caller's slot by more than that.  That *)
(* a window holds no more requests than NVD allows then is counting: they  *)
(* have different grants, and the last of the grants is less than Quota    *)
(* places behind the first.                                                *)
(***************************************************************************)
EXTENDS CachedNVD, RateLimiter, OrderingProofs, TLAPS

\* What a query says is what NVD knows.
QueryOK(q) ==
  /\ q \in Query
  /\ Unverified(q) <=> q.cpe \notin Registered
  /\ q.total = Len(CVEsOf[q.cpe])

\* The queries of a walk over match strings m so far.
QueriesOK(m, qs) ==
  /\ qs \in Seq(Query)
  /\ Len(qs) <= MaxCPEs
  /\ Len(qs) <= Len(m)
  /\ \A i \in 1..Len(qs) : QueryOK(qs[i]) /\ qs[i].cpe = m[i]

\* The CVEs collected: of each query the first so many, and none twice.
FirstOf(q, n) == ToSet(SubSeq(CVEsOf[q.cpe], 1, Min({n, q.total})))
Collected(qs, vs) ==
  \E taken \in [DOMAIN qs -> 0..ResultsPerCPE] :
    ToSet(vs) = UNION {FirstOf(qs[i], taken[i]) : i \in DOMAIN qs}
CVEsOK(qs, vs) ==
  /\ vs \in Seq(Vulns)
  /\ IsInjective(vs)
  /\ Collected(qs, vs)

\* A result that Fetch returns: what was not queried is listed, CVEs are in order.
ResultOK(m, qs, rest, vs) ==
  /\ QueriesOK(m, qs)
  /\ CVEsOK(qs, vs)
  /\ rest = SubSeq(m, Len(qs) + 1, Len(m))
  /\ \A i, j \in DOMAIN vs : i < j => Before(vs[i], vs[j])

WalkInv ==
  /\ IsInjective(matches)
  /\ QueriesOK(matches, queries)
  /\ CVEsOK(queries, cves)
  /\ Requesting => Len(queries) < Len(matches) /\ Len(queries) < MaxCPEs

\* The answers so far on the CPE under way.
RequestInv ==
  /\ stage = "cves" =>
       /\ start \in 0..ResultsPerCPE
       /\ start <= Len(CVEsOf[Current])
       /\ vulns = SubSeq(CVEsOf[Current], 1, start)
  /\ stage \in {"dictionary", "vendor"} => CVEsOf[Current] = <<>>
  /\ stage = "vendor" => Current \notin Registered

\* A section that carries a result carries a whole one.
SectionInv ==
  stage = "done" =>
    \/ section.status # "ok" /\ ~section.data
    \/ section = Judged(queries) /\ ResultOK(matches, queries, unqueried, cves)

CacheInv ==
  /\ matches = MatchStrings(cpes)
  /\ row # NoRow =>
       /\ row.cpes \in Entities
       /\ ResultOK(MatchStrings(row.cpes), row.queries, row.unqueried, row.cves)
       /\ Judged(row.queries).status = "ok"

Inv == CachedTypeOK /\ WalkInv /\ RequestInv /\ SectionInv /\ CacheInv

-----------------------------------------------------------------------------
(* What the operators return.                                                 *)

\* Match strings are well formed, and each is there once.
LEMMA MatchStringsType ==
  ASSUME NEW entity \in Entities
  PROVE  MatchStrings(entity) \in Seq(Matches) /\ IsInjective(MatchStrings(entity))
<1> DEFINE T == {MatchOf[c] : c \in CPEs}
           ms == [i \in DOMAIN entity |-> MatchOf[entity[i]]]
           well == Among(ms, Matches)
<1>1. ms \in Seq(T)
  <2>1. entity \in Seq(CPEs)
    BY NVDAssumption DEF NVDAssumption
  <2>2. \A i \in 1..Len(entity) : MatchOf[entity[i]] \in T
    BY <2>1, ElementOfSeq
  <2>3. QED
    BY <2>1, <2>2
<1> HIDE DEF ms, T
<1>2. well \in Seq(T) /\ ToSet(well) = ToSet(ms) \cap Matches
  BY <1>1, AmongProperties
<1> HIDE DEF well
<1>3. well \in Seq(Matches)
  <2>1. ToSet(well) = {well[i] : i \in 1..Len(well)}
    BY <1>2, ToSetSeq
  <2>2. \A i \in 1..Len(well) : well[i] \in Matches
    BY <1>2, <2>1
  <2>3. QED
    BY <1>2, <2>2
<1>4. Distinct(well) \in Seq(Matches) /\ IsInjective(Distinct(well))
  BY <1>3, DistinctProperties
<1>5. QED
  BY <1>4 DEF MatchStrings, well, ms

\* The order of CVEs is strict and total.
LEMMA BeforeIsStrict ==
  /\ \A v \in Vulns : ~Before(v, v)
  /\ \A u, v, w \in Vulns : Before(u, v) /\ Before(v, w) => Before(u, w)
  /\ \A v, w \in Vulns : v = w \/ Before(v, w) \/ Before(w, v)
<1>1. \A v \in Vulns : v \in Nat /\ Score[v] \in Nat
  BY NVDAssumption DEF NVDAssumption
<1>2. QED
  BY <1>1 DEF Before

\* Sorting keeps the CVEs, each once, and puts them in their order.
LEMMA SortVulnsProperties ==
  ASSUME NEW vs \in Seq(Vulns), IsInjective(vs)
  PROVE  /\ SortVulns(vs) \in Seq(Vulns)
         /\ IsInjective(SortVulns(vs))
         /\ ToSet(SortVulns(vs)) = ToSet(vs)
         /\ \A i, j \in DOMAIN SortVulns(vs) :
              i < j => Before(SortVulns(vs)[i], SortVulns(vs)[j])
<1> DEFINE n == Len(vs)
           S == 1..n
           Earlier(i, j) == Before(vs[i], vs[j]) \/ (~Before(vs[j], vs[i]) /\ i < j)
           R == {p \in S \X S : Earlier(p[1], p[2])}
           at == InOrder(S, Earlier)
<1>1. n \in Nat /\ DOMAIN vs = S /\ \A i \in S : vs[i] \in Vulns
  OBVIOUS
<1>2. \A i, j \in S : i # j => vs[i] # vs[j]
  BY <1>1 DEF IsInjective
<1>3. \A i, j \in S : <<i, j>> \in R <=> Before(vs[i], vs[j])
  <2>1. \A i, j \in S : <<i, j>> \in R <=> Earlier(i, j)
    OBVIOUS
  <2>2. \A i, j \in S : Earlier(i, j) <=> Before(vs[i], vs[j])
    BY <1>1, <1>2, BeforeIsStrict
  <2>3. QED
    BY <2>1, <2>2
<1>4. IsFiniteSet(S) /\ Cardinality(S) = n
  <2>1. Cardinality(1..n) = IF 1 > n THEN 0 ELSE n - 1 + 1
    BY <1>1, FS_Interval, SMTT(30)
  <2>2. IsFiniteSet(1..n)
    BY <1>1, FS_Interval
  <2>3. QED
    BY <1>1, <2>1, <2>2
<1>5. IsStrictOrder(R, S)
  <2> HIDE DEF R, S, n
  <2> QED
    BY <1>1, <1>2, <1>3, BeforeIsStrict DEF IsStrictOrder
<1>6. \A x \in S : {y \in S : Earlier(y, x)} = Below(x, S, R)
  BY DEF Below
<1>7. at = [k \in 1..n |-> CHOOSE x \in S : Cardinality({y \in S : Earlier(y, x)}) = k - 1]
  <2>1. at = [k \in 1..Cardinality(S) |->
                CHOOSE x \in S : Cardinality({y \in S : Earlier(y, x)}) = k - 1]
    BY DEF InOrder
  <2> HIDE DEF at, S, Earlier
  <2>2. QED
    BY <1>4, <2>1
<1>8. SortVulns(vs) = [k \in DOMAIN at |-> vs[at[k]]]
  BY <1>1 DEF SortVulns, StableSort
<1> HIDE DEF S, R, n, at, Earlier
<1>9. \A k \in 1..n : \E x \in S : Cardinality({y \in S : Earlier(y, x)}) = k - 1
  <2>1. \A k \in 1..n : \E x \in S : Cardinality(Below(x, S, R)) = k - 1
    BY <1>4, <1>5, EveryRankIsTaken
  <2>2. QED
    BY <1>6, <2>1
<1>10. \A k \in 1..n : at[k] \in S /\ Cardinality({y \in S : Earlier(y, at[k])}) = k - 1
  BY <1>7, <1>9
<1>11. at \in [1..n -> S] /\ \A k \in 1..n : Cardinality(Below(at[k], S, R)) = k - 1
  BY <1>6, <1>7, <1>10
<1>12. IsListing(at, S, R)
  BY <1>4, <1>5, <1>11, ListedByRank
<1>13. /\ at \in [1..n -> S]
       /\ \A j, k \in 1..n : j < k => Before(vs[at[j]], vs[at[k]])
       /\ \A x \in S : \E k \in 1..n : at[k] = x
  BY <1>3, <1>4, <1>12 DEF IsListing
<1>14. SortVulns(vs) = [k \in 1..n |-> vs[at[k]]]
  BY <1>8, <1>13
<1>15. \A k \in 1..n : vs[at[k]] \in Vulns
  BY <1>1, <1>13
<1>16. SortVulns(vs) \in Seq(Vulns) /\ DOMAIN SortVulns(vs) = 1..n
  BY <1>1, <1>14, <1>15
<1>17. \A j, k \in 1..n : vs[at[j]] = vs[at[k]] => j = k
  <2>1. \A j, k \in 1..n : j < k => vs[at[j]] # vs[at[k]]
    BY <1>13, <1>15, BeforeIsStrict
  <2>2. QED
    BY <1>1, <2>1
<1>18. ToSet(SortVulns(vs)) = ToSet(vs)
  <2>1. ToSet(vs) = {vs[i] : i \in S}
    BY <1>1 DEF ToSet
  <2>2. ToSet(SortVulns(vs)) = {vs[at[k]] : k \in 1..n}
    BY <1>14 DEF ToSet
  <2>3. QED
    BY <1>13, <2>1, <2>2
<1>19. QED
  BY <1>13, <1>14, <1>16, <1>17, <1>18 DEF IsInjective

\* CVEs already in the result are passed over, and only they.
LEMMA UnseenProperties ==
  ASSUME NEW vs \in Seq(Vulns), IsInjective(vs), cves \in Seq(Vulns)
  PROVE  /\ Unseen(vs) \in Seq(Vulns)
         /\ ToSet(Unseen(vs)) = ToSet(vs) \ ToSet(cves)
         /\ IsInjective(Unseen(vs))
<1>1. PICK S : S = ToSet(vs) \ ToSet(cves)
  OBVIOUS
<1>2. Unseen(vs) = Among(vs, S)
  BY <1>1 DEF Unseen
<1>3. /\ Among(vs, S) \in Seq(Vulns) /\ IsInjective(Among(vs, S))
      /\ ToSet(Among(vs, S)) = ToSet(vs) \cap S
  BY AmongProperties
<1>4. QED
  BY <1>1, <1>2, <1>3

\* Adding the CVEs of one more CPE keeps every CVE there once.
LEMMA JoinedProperties ==
  ASSUME NEW vs \in Seq(Vulns), IsInjective(vs), cves \in Seq(Vulns), IsInjective(cves)
  PROVE  /\ cves \o Unseen(vs) \in Seq(Vulns)
         /\ IsInjective(cves \o Unseen(vs))
         /\ ToSet(cves \o Unseen(vs)) = ToSet(cves) \cup ToSet(vs)
<1> DEFINE new == Unseen(vs)
           all == cves \o new
           m == Len(cves)
           n == Len(new)
<1>1. new \in Seq(Vulns) /\ ToSet(new) = ToSet(vs) \ ToSet(cves) /\ IsInjective(new)
  BY UnseenProperties
<1> HIDE DEF new
<1>2. /\ all \in Seq(Vulns) /\ Len(all) = m + n /\ m \in Nat /\ n \in Nat
      /\ \A i \in 1..m : all[i] = cves[i]
      /\ \A i \in (m + 1)..(m + n) : all[i] = new[i - m]
  BY <1>1, ConcatProperties, LenProperties
<1>3. /\ DOMAIN all = 1..(m + n) /\ DOMAIN cves = 1..m /\ DOMAIN new = 1..n
  BY <1>1, <1>2, LenProperties
<1> HIDE DEF all, m, n
<1>4. /\ \A i \in 1..m : cves[i] \in ToSet(cves)
      /\ \A i \in 1..n : new[i] \in ToSet(vs) /\ new[i] \notin ToSet(cves)
  BY <1>1, <1>3 DEF ToSet
<1>4a. /\ \A i, j \in 1..m : cves[i] = cves[j] => i = j
      /\ \A i, j \in 1..n : new[i] = new[j] => i = j
  BY <1>1, <1>3 DEF IsInjective
<1>5. \A i, j \in 1..(m + n) : all[i] = all[j] => i = j
  <2>1. SUFFICES ASSUME NEW i \in 1..(m + n), NEW j \in 1..(m + n), i < j
                 PROVE  all[i] # all[j]
    BY <1>2
  <2>2. CASE j <= m
    <3>1. i \in 1..m /\ j \in 1..m /\ i # j
      BY <1>2, <2>1, <2>2
    <3>2. cves[i] # cves[j]
      BY <1>4a, <3>1
    <3>3. QED
      BY <1>2, <3>1, <3>2
  <2>3. CASE i <= m /\ ~(j <= m)
    <3>1. i \in 1..m /\ j \in (m + 1)..(m + n) /\ j - m \in 1..n
      BY <1>2, <2>1, <2>3
    <3>2. QED
      BY <1>2, <1>4, <3>1
  <2>4. CASE ~(i <= m)
    <3>1. /\ i \in (m + 1)..(m + n) /\ j \in (m + 1)..(m + n)
          /\ i - m \in 1..n /\ j - m \in 1..n /\ i - m # j - m
      BY <1>2, <2>1, <2>4
    <3>2. new[i - m] # new[j - m]
      BY <1>4a, <3>1
    <3>3. QED
      BY <1>2, <3>1, <3>2
  <2>5. QED
    BY <1>2, <2>2, <2>3, <2>4
<1>6. ToSet(all) = ToSet(cves) \cup ToSet(vs)
  <2>1. ToSet(all) = {all[i] : i \in 1..(m + n)}
    BY <1>3 DEF ToSet
  <2>2. ASSUME NEW i \in 1..(m + n)
        PROVE  all[i] \in ToSet(cves) \cup ToSet(vs)
    <3>1. i \in 1..m \/ (i \in (m + 1)..(m + n) /\ i - m \in 1..n)
      BY <1>2
    <3>2. QED
      BY <1>2, <1>4, <3>1
  <2>3. ASSUME NEW i \in 1..m
        PROVE  cves[i] \in {all[k] : k \in 1..(m + n)}
    <3>1. i \in 1..(m + n)
      BY <1>2
    <3>2. all[i] = cves[i]
      BY <1>2
    <3>3. QED
      BY <3>1, <3>2, Zenon
  <2>4. ASSUME NEW i \in 1..n
        PROVE  new[i] \in {all[k] : k \in 1..(m + n)}
    <3>1. m + i \in (m + 1)..(m + n) /\ (m + i) - m = i /\ m + i \in 1..(m + n)
      BY <1>2
    <3>2. all[m + i] = new[i]
      BY <1>2, <3>1
    <3>3. QED
      BY <3>1, <3>2
  <2>5. ToSet(cves) = {cves[i] : i \in 1..m} /\ ToSet(new) = {new[i] : i \in 1..n}
    BY <1>3 DEF ToSet
  <2>6. ToSet(cves) \cup ToSet(vs) = ToSet(cves) \cup ToSet(new)
    BY <1>1
  <2>7. QED
    BY <2>1, <2>2, <2>3, <2>4, <2>5, <2>6
<1>7. QED
  BY <1>2, <1>3, <1>5, <1>6 DEF IsInjective, all, new

\* A beginning of a CPE's CVEs, each once.
LEMMA FirstCVEsType ==
  ASSUME NEW m \in Matches, NEW n \in 0..Len(CVEsOf[m])
  PROVE  /\ SubSeq(CVEsOf[m], 1, n) \in Seq(Vulns)
         /\ Len(SubSeq(CVEsOf[m], 1, n)) = n
         /\ IsInjective(SubSeq(CVEsOf[m], 1, n))
<1> DEFINE s == CVEsOf[m]
           t == SubSeq(s, 1, n)
<1>1. s \in Seq(Vulns) /\ IsInjective(s)
  BY NVDAssumption DEF NVDAssumption
<1>2. Len(s) \in Nat /\ DOMAIN s = 1..Len(s) /\ n \in Nat /\ n <= Len(s)
  BY <1>1, LenProperties
<1> HIDE DEF s
<1>3. \A i \in 1..n : s[i] \in Vulns
  BY <1>1, <1>2, ElementOfSeq
<1>4. t \in Seq(Vulns) /\ Len(t) = n /\ \A i \in 1..n : t[i] = s[i]
  BY <1>2, <1>3, SubSeqProperties
<1>5. DOMAIN t = 1..n
  BY <1>4, LenProperties
<1>6. QED
  BY <1>1, <1>2, <1>4, <1>5 DEF IsInjective, s

\* One more query, with the first n of its CVEs.
LEMMA CollectMore ==
  ASSUME NEW q \in Query, q.total = Len(CVEsOf[q.cpe]),
         NEW n \in 0..ResultsPerCPE, n <= q.total,
         queries \in Seq(Query), CVEsOK(queries, cves)
  PROVE  CVEsOK(Append(queries, q), cves \o Unseen(SubSeq(CVEsOf[q.cpe], 1, n)))
<1> DEFINE vs == SubSeq(CVEsOf[q.cpe], 1, n)
           len == Len(queries)
           qs == Append(queries, q)
<1>1. q.cpe \in Matches /\ q.total \in Nat /\ n \in Nat
  BY NVDAssumption DEF Query, NVDAssumption
<1>2. vs \in Seq(Vulns) /\ IsInjective(vs)
  BY <1>1, FirstCVEsType
<1>3. FirstOf(q, n) = ToSet(vs)
  BY <1>1, MinOfTwo DEF FirstOf
<1> HIDE DEF vs
<1>4. /\ cves \o Unseen(vs) \in Seq(Vulns)
      /\ IsInjective(cves \o Unseen(vs))
      /\ ToSet(cves \o Unseen(vs)) = ToSet(cves) \cup ToSet(vs)
  BY <1>2, JoinedProperties DEF CVEsOK
<1>5. /\ len \in Nat /\ DOMAIN queries = 1..len /\ DOMAIN qs = 1..(len + 1)
      /\ \A i \in 1..len : qs[i] = queries[i]
      /\ qs[len + 1] = q
  BY AppendProperties, LenProperties
<1> HIDE DEF len, qs
<1>6. PICK taken \in [1..len -> 0..ResultsPerCPE] :
        ToSet(cves) = UNION {FirstOf(queries[i], taken[i]) : i \in 1..len}
  BY <1>5 DEF CVEsOK, Collected
<1> DEFINE more == [i \in 1..(len + 1) |-> IF i = len + 1 THEN n ELSE taken[i]]
<1>7. /\ more \in [1..(len + 1) -> 0..ResultsPerCPE]
      /\ \A i \in 1..len : more[i] = taken[i]
      /\ more[len + 1] = n
  BY <1>5
<1> HIDE DEF more
<1>8. UNION {FirstOf(qs[i], more[i]) : i \in 1..(len + 1)} = ToSet(cves) \cup ToSet(vs)
  <2>1. \A i \in 1..(len + 1) : i = len + 1 \/ i \in 1..len
    BY <1>5
  <2>2. \A i \in 1..len : FirstOf(qs[i], more[i]) = FirstOf(queries[i], taken[i])
    BY <1>5, <1>7
  <2>3. FirstOf(qs[len + 1], more[len + 1]) = ToSet(vs)
    BY <1>3, <1>5, <1>7
  <2>4. len + 1 \in 1..(len + 1) /\ \A i \in 1..len : i \in 1..(len + 1)
    BY <1>5
  <2>5. ASSUME NEW v
        PROVE  (\E i \in 1..(len + 1) : v \in FirstOf(qs[i], more[i]))
                 <=> (\E i \in 1..len : v \in FirstOf(queries[i], taken[i])) \/ v \in ToSet(vs)
    BY <2>1, <2>2, <2>3, <2>4
  <2>6. ASSUME NEW v
        PROVE  v \in ToSet(cves) <=> \E i \in 1..len : v \in FirstOf(queries[i], taken[i])
    BY <1>6
  <2>7. ASSUME NEW v
        PROVE  v \in UNION {FirstOf(qs[i], more[i]) : i \in 1..(len + 1)}
                 <=> v \in ToSet(cves) \cup ToSet(vs)
    <3>1. v \in UNION {FirstOf(qs[i], more[i]) : i \in 1..(len + 1)}
            <=> \E i \in 1..(len + 1) : v \in FirstOf(qs[i], more[i])
      OBVIOUS
    <3>2. QED
      BY <2>5, <2>6, <3>1
  <2>8. QED
    BY <2>7
<1>9. Collected(qs, cves \o Unseen(vs))
  <2>1. ToSet(cves \o Unseen(vs)) = UNION {FirstOf(qs[i], more[i]) : i \in DOMAIN qs}
    BY <1>4, <1>5, <1>8
  <2>2. more \in [DOMAIN qs -> 0..ResultsPerCPE]
    BY <1>5, <1>7
  <2>3. QED
    BY <2>1, <2>2 DEF Collected
<1>10. CVEsOK(qs, cves \o Unseen(vs))
  BY <1>4, <1>9 DEF CVEsOK
<1>11. QED
  BY <1>10 DEF vs, qs

\* Two pages that follow each other are one.
LEMMA PagesJoin ==
  ASSUME NEW m \in Matches, NEW a \in Nat, NEW n \in Nat, a + n <= Len(CVEsOf[m])
  PROVE  SubSeq(CVEsOf[m], 1, a) \o SubSeq(CVEsOf[m], a + 1, a + n) = SubSeq(CVEsOf[m], 1, a + n)
<1>1. PICK s \in Seq(Vulns) : s = CVEsOf[m]
  BY NVDAssumption DEF NVDAssumption
<1>2. Len(s) \in Nat /\ a + n <= Len(s) /\ \A i \in 1..Len(s) : s[i] \in Vulns
  BY <1>1, ElementOfSeq, LenProperties
<1>3. /\ SubSeq(s, 1, a) \in Seq(Vulns)
      /\ Len(SubSeq(s, 1, a)) = a
      /\ \A i \in 1..a : SubSeq(s, 1, a)[i] = s[i]
  BY <1>2, SubSeqProperties
<1>4. /\ SubSeq(s, a + 1, a + n) \in Seq(Vulns)
      /\ Len(SubSeq(s, a + 1, a + n)) = n
      /\ \A i \in 1..n : SubSeq(s, a + 1, a + n)[i] = s[a + i]
  <2>1. \A i \in (a + 1)..(a + n) : s[i] \in Vulns
    BY <1>2
  <2>2. CASE n = 0
    BY <2>1, <2>2, SubSeqProperties
  <2>3. CASE n # 0
    <3>1. a + 1 <= a + n /\ a + 1 \in Int /\ a + n \in Int /\ (a + n) - (a + 1) + 1 = n
      BY <2>3
    <3>2. /\ SubSeq(s, a + 1, a + n) \in Seq(Vulns)
          /\ Len(SubSeq(s, a + 1, a + n)) = n
          /\ \A i \in 1..n : SubSeq(s, a + 1, a + n)[i] = s[a + 1 + i - 1]
      BY <2>1, <3>1, SubSeqProperties
    <3>3. \A i \in 1..n : a + 1 + i - 1 = a + i
      OBVIOUS
    <3>4. QED
      BY <3>2, <3>3
  <2>4. QED
    BY <2>2, <2>3
<1>5. /\ SubSeq(s, 1, a + n) \in Seq(Vulns)
      /\ Len(SubSeq(s, 1, a + n)) = a + n
      /\ \A i \in 1..(a + n) : SubSeq(s, 1, a + n)[i] = s[i]
  <2>1. \A i \in 1..(a + n) : s[i] \in Vulns
    BY <1>2
  <2>2. a + n \in Nat
    OBVIOUS
  <2>3. QED
    BY <2>1, <2>2, SubSeqProperties
<1> DEFINE both == SubSeq(s, 1, a) \o SubSeq(s, a + 1, a + n)
<1>6. /\ both \in Seq(Vulns) /\ Len(both) = a + n
      /\ \A i \in 1..a : both[i] = s[i]
      /\ \A i \in (a + 1)..(a + n) : both[i] = s[i]
  <2>1. /\ both \in Seq(Vulns) /\ Len(both) = a + n
        /\ \A i \in 1..a : both[i] = SubSeq(s, 1, a)[i]
        /\ \A i \in (a + 1)..(a + n) : both[i] = SubSeq(s, a + 1, a + n)[i - a]
    <3> DEFINE first == SubSeq(s, 1, a)
               next == SubSeq(s, a + 1, a + n)
    <3>1. first \in Seq(Vulns) /\ next \in Seq(Vulns) /\ Len(first) = a /\ Len(next) = n
      BY <1>3, <1>4
    <3> HIDE DEF first, next
    <3>2. /\ first \o next \in Seq(Vulns)
          /\ Len(first \o next) = Len(first) + Len(next)
          /\ \A i \in 1..(Len(first) + Len(next)) : (first \o next)[i] =
               IF i <= Len(first) THEN first[i] ELSE next[i - Len(first)]
      BY <3>1, ConcatProperties
    <3>3. \A i \in 1..(a + n) : both[i] = IF i <= a THEN first[i] ELSE next[i - a]
      BY <3>1, <3>2 DEF first, next
    <3>4. /\ \A i \in 1..a : i \in 1..(a + n) /\ i <= a
          /\ \A i \in (a + 1)..(a + n) : i \in 1..(a + n) /\ ~(i <= a)
      OBVIOUS
    <3>5. both \in Seq(Vulns) /\ Len(both) = a + n
      BY <3>1, <3>2 DEF first, next
    <3> HIDE DEF both
    <3>6. QED
      BY <3>3, <3>4, <3>5 DEF first, next
  <2>2. \A i \in (a + 1)..(a + n) : i - a \in 1..n /\ a + (i - a) = i
    OBVIOUS
  <2>3. QED
    BY <1>3, <1>4, <2>1, <2>2
<1> HIDE DEF both
<1>7. \A i \in 1..(a + n) : both[i] = SubSeq(s, 1, a + n)[i]
  <2>1. \A i \in 1..(a + n) : i \in 1..a \/ i \in (a + 1)..(a + n)
    OBVIOUS
  <2>2. QED
    BY <1>5, <1>6, <2>1
<1>8. both = SubSeq(s, 1, a + n)
  BY <1>5, <1>6, <1>7, SeqEqual
<1>9. QED
  BY <1>1, <1>8 DEF both

\* What a walk that has asked nothing knows.
LEMMA NothingAsked ==
  ASSUME NEW m \in Seq(Matches)
  PROVE  QueriesOK(m, <<>>) /\ CVEsOK(<<>>, <<>>)
<1>1. QueriesOK(m, <<>>)
  BY NVDAssumption DEF QueriesOK, NVDAssumption
<1>2. Collected(<<>>, <<>>)
  <2> DEFINE taken == [i \in {} |-> 0]
  <2>1. taken \in [DOMAIN <<>> -> 0..ResultsPerCPE]
    OBVIOUS
  <2>2. ToSet(<<>>) = UNION {FirstOf(<<>>[i], taken[i]) : i \in DOMAIN <<>>}
    <3>1. DOMAIN <<>> = {}
      OBVIOUS
    <3>2. ToSet(<<>>) = {}
      BY <3>1 DEF ToSet
    <3>3. UNION {FirstOf(<<>>[i], taken[i]) : i \in {}} = {}
      BY Zenon
    <3>4. QED
      BY <3>1, <3>2, <3>3
  <2>3. QED
    BY <2>1, <2>2 DEF Collected
<1>3. QED
  BY <1>1, <1>2 DEF CVEsOK, IsInjective

\* A walk that ends with a result ends with a whole one.
LEMMA WalkConcludes ==
  ASSUME CachedTypeOK, WalkInv, Conclude, UNCHANGED <<matches, queries>>
  PROVE  /\ unqueried' \in Seq(Matches) /\ cves' \in Seq(Vulns)
         /\ section' \in [status : {"ok", "failed", "skipped"}, data : BOOLEAN]
         /\ section' = Judged(queries')
         /\ ResultOK(matches', queries', unqueried', cves')
<1>1. /\ unqueried' = Rest /\ cves' = SortVulns(cves) /\ section' = Judged(queries)
      /\ matches' = matches /\ queries' = queries
  BY DEF Conclude
<1>2. /\ cves' \in Seq(Vulns) /\ IsInjective(cves') /\ ToSet(cves') = ToSet(cves)
      /\ \A i, j \in DOMAIN cves' : i < j => Before(cves'[i], cves'[j])
  BY <1>1, SortVulnsProperties DEF WalkInv, CVEsOK
<1>3. CVEsOK(queries, cves')
  BY <1>2 DEF WalkInv, CVEsOK, Collected
<1>4. unqueried' \in Seq(Matches)
  <2>1. matches \in Seq(Matches) /\ Len(queries) + 1 \in 1..(Len(matches) + 1)
    BY DEF CachedTypeOK, TypeOK, WalkInv, QueriesOK
  <2>2. \A i \in (Len(queries) + 1)..Len(matches) : matches[i] \in Matches
    BY <2>1, ElementOfSeq
  <2>3. QED
    BY <1>1, <2>1, <2>2, SubSeqProperties DEF Rest
<1>5. /\ Judged(queries) \in [status : {"ok", "failed", "skipped"}, data : BOOLEAN]
  BY DEF Judged
<1>6. QED
  BY <1>1, <1>2, <1>3, <1>4, <1>5 DEF ResultOK, WalkInv, Rest

\* One more CPE is behind the walk, with what NVD knows of it.
LEMMA QueryKept ==
  ASSUME CachedTypeOK, WalkInv, Requesting,
         NEW total, NEW vs, NEW verification \in Verification,
         NEW n \in 0..ResultsPerCPE, n <= total,
         total = Len(CVEsOf[Current]), vs = SubSeq(CVEsOf[Current], 1, n),
         verification = "unverified" <=> Current \notin Registered,
         AppendQuery(total, vs, verification), UNCHANGED matches
  PROVE  /\ queries' \in Seq(Query) /\ Len(queries') <= MaxCPEs
         /\ cves' \in Seq(Vulns) /\ WalkInv'
<1> DEFINE q == [cpe |-> Current, total |-> total, verification |-> verification]
<1>1. /\ matches \in Seq(Matches) /\ Len(queries) \in Nat
      /\ Len(queries) < Len(matches) /\ Len(queries) < MaxCPEs
      /\ queries \in Seq(Query) /\ Len(matches) \in Nat /\ MaxCPEs \in Nat
  BY NVDAssumption DEF CachedTypeOK, TypeOK, WalkInv, QueriesOK, NVDAssumption
<1>2. Current \in Matches /\ Current = matches[Len(queries) + 1]
  BY <1>1, ElementOfSeq DEF Current
<1>3. total \in Nat
  BY <1>2, NVDAssumption DEF NVDAssumption
<1>4. q \in Query /\ q.cpe = Current /\ q.total = total /\ QueryOK(q)
  BY <1>2, <1>3 DEF Query, QueryOK, Unverified
<1>5. /\ queries' = Append(queries, q)
      /\ cves' = cves \o Unseen(SubSeq(CVEsOf[q.cpe], 1, n))
      /\ stage' = "cpe" /\ matches' = matches
  BY <1>4 DEF AppendQuery, Verified
<1> HIDE DEF q
<1>6. CVEsOK(queries', cves')
  BY <1>1, <1>4, <1>5, CollectMore DEF WalkInv
<1>7. /\ queries' \in Seq(Query) /\ Len(queries') = Len(queries) + 1
      /\ \A i \in 1..Len(queries) : queries'[i] = queries[i]
      /\ queries'[Len(queries) + 1] = q
  BY <1>1, <1>4, <1>5, AppendProperties
<1>8. \A i \in 1..Len(queries') : QueryOK(queries'[i]) /\ queries'[i].cpe = matches[i]
  <2>1. \A i \in 1..Len(queries') : i \in 1..Len(queries) \/ i = Len(queries) + 1
    BY <1>1, <1>7
  <2>2. \A i \in 1..Len(queries) : QueryOK(queries[i]) /\ queries[i].cpe = matches[i]
    BY DEF WalkInv, QueriesOK
  <2>3. QED
    BY <1>2, <1>4, <1>7, <2>1, <2>2
<1>9. QueriesOK(matches', queries')
  BY <1>1, <1>5, <1>7, <1>8 DEF QueriesOK
<1>10. QED
  BY <1>1, <1>5, <1>6, <1>7, <1>9 DEF WalkInv, CVEsOK, Requesting

-----------------------------------------------------------------------------
(* The invariant is inductive.                                                *)

\* What a walk leaves alone between two runs.
LEMMA CacheIsLeftAlone ==
  ASSUME Inv, UNCHANGED <<matches, cacheVars>>
  PROVE  /\ CacheInv' /\ cpes' \in Entities /\ cached' \in BOOLEAN
         /\ row' # NoRow => row'.cpes \in Entities
BY DEF Inv, CacheInv, CachedTypeOK, cacheVars

\* The invariant holds at first.
LEMMA InitInv ==
  ASSUME CachedInit
  PROVE  Inv
<1>1. /\ matches \in Seq(Matches) /\ IsInjective(matches)
      /\ QueriesOK(matches, queries) /\ CVEsOK(queries, cves)
  BY MatchStringsType, NothingAsked DEF CachedInit, Init
<1>2. CachedTypeOK
  <2>1. queries \in Seq(Query) /\ Len(queries) <= MaxCPEs /\ cves \in Seq(Vulns)
    BY <1>1 DEF QueriesOK, CVEsOK
  <2>2. matches \in Seq(Matches) /\ unqueried \in Seq(Matches) /\ vulns \in Seq(Vulns)
    BY <1>1 DEF CachedInit, Init
  <2>3. QED
    BY <2>1, <2>2 DEF CachedTypeOK, TypeOK, CachedInit, Init
<1>3. WalkInv /\ RequestInv /\ SectionInv
  BY <1>1 DEF WalkInv, RequestInv, SectionInv, Requesting, CachedInit, Init
<1>4. CacheInv
  BY DEF CacheInv, CachedInit
<1>5. QED
  BY <1>2, <1>3, <1>4 DEF Inv

\* ... when there is nothing to ask for,
LEMMA SkipInv ==
  ASSUME Inv, Skip, UNCHANGED cacheVars
  PROVE  Inv'
<1>1. CachedTypeOK'
  BY CacheIsLeftAlone DEF Inv, CachedTypeOK, TypeOK, Skip
<1>2. WalkInv' /\ RequestInv'
  BY DEF Inv, WalkInv, RequestInv, Requesting, Skip
<1>3. SectionInv'
  BY DEF SectionInv, Skip
<1>4. QED
  BY <1>1, <1>2, <1>3, CacheIsLeftAlone DEF Inv, Skip

\* ... when a CPE is turned to,
LEMMA AskInv ==
  ASSUME Inv, Ask, UNCHANGED cacheVars
  PROVE  Inv'
<1>1. CachedTypeOK'
  BY CacheIsLeftAlone DEF Inv, CachedTypeOK, TypeOK, Ask
<1>2. WalkInv' /\ RequestInv' /\ SectionInv'
  BY DEF Inv, WalkInv, RequestInv, SectionInv, Requesting, Current, Ask
<1>3. QED
  BY <1>1, <1>2, CacheIsLeftAlone DEF Inv, Ask

\* ... when one is done with,
LEMMA NextCPEInv ==
  ASSUME Inv, NextCPE, UNCHANGED cacheVars
  PROVE  Inv'
<1>1. /\ Len(queries) < Len(matches) /\ Len(queries) < MaxCPEs
      /\ Len(queries) \in Nat /\ matches \in Seq(Matches)
  BY NVDAssumption
  DEF Inv, CachedTypeOK, TypeOK, WalkInv, QueriesOK, NVDAssumption, NextCPE, WalkOver
<1>2. CachedTypeOK'
  BY CacheIsLeftAlone DEF Inv, CachedTypeOK, TypeOK, NextCPE
<1>3. WalkInv' /\ SectionInv'
  BY <1>1 DEF Inv, WalkInv, SectionInv, NextCPE
<1>4. RequestInv'
  <2>1. Current' = Current /\ stage' = "cves" /\ start' = 0 /\ vulns' = <<>>
    BY DEF NextCPE, Current
  <2>2. Current \in Matches
    BY <1>1, ElementOfSeq DEF Current
  <2>3. CVEsOf[Current] \in Seq(Vulns) /\ ResultsPerCPE \in Nat
    BY <2>2, NVDAssumption DEF NVDAssumption
  <2>4. SubSeq(CVEsOf[Current], 1, 0) = <<>> /\ Len(CVEsOf[Current]) \in Nat
    BY <2>3, SubSeqEmpty
  <2>5. QED
    BY <2>1, <2>3, <2>4 DEF RequestInv
<1>5. QED
  BY <1>2, <1>3, <1>4, CacheIsLeftAlone DEF Inv, NextCPE

\* ... and when the section is made of the answers;
LEMMA ConcludeInv ==
  ASSUME Inv, EndWalk \/ RunsOut, UNCHANGED cacheVars
  PROVE  Inv'
<1>1. /\ Conclude /\ UNCHANGED <<matches, start, vulns, queries>>
      /\ inFlight' \in BOOLEAN /\ stage' = "done"
  BY DEF Inv, CachedTypeOK, TypeOK, EndWalk, RunsOut, Conclude
<1>2. /\ unqueried' \in Seq(Matches) /\ cves' \in Seq(Vulns)
      /\ section' \in [status : {"ok", "failed", "skipped"}, data : BOOLEAN]
      /\ section' = Judged(queries')
      /\ ResultOK(matches', queries', unqueried', cves')
  BY <1>1, WalkConcludes DEF Inv
<1>3. CachedTypeOK'
  BY <1>1, <1>2, CacheIsLeftAlone DEF Inv, CachedTypeOK, TypeOK
<1>4. WalkInv' /\ RequestInv' /\ SectionInv'
  BY <1>1, <1>2 DEF Inv, WalkInv, RequestInv, SectionInv, Requesting, ResultOK
<1>5. QED
  BY <1>1, <1>3, <1>4, CacheIsLeftAlone DEF Inv

\* A query is kept: the rest of the invariant.
LEMMA QueryInv ==
  ASSUME Inv, UNCHANGED <<matches, unqueried, section, cacheVars>>,
         stage' = "cpe", inFlight' \in BOOLEAN, start' \in Nat, vulns' \in Seq(Vulns),
         queries' \in Seq(Query), Len(queries') <= MaxCPEs, cves' \in Seq(Vulns), WalkInv'
  PROVE  Inv'
<1>1. CachedTypeOK'
  BY CacheIsLeftAlone DEF Inv, CachedTypeOK, TypeOK
<1>2. RequestInv' /\ SectionInv'
  BY DEF RequestInv, SectionInv
<1>3. QED
  BY <1>1, <1>2, CacheIsLeftAlone DEF Inv

\* The CPE under way is one of the entity's.
LEMMA CurrentType ==
  ASSUME Inv, Requesting
  PROVE  /\ Current \in Matches
         /\ CVEsOf[Current] \in Seq(Vulns) /\ Len(CVEsOf[Current]) \in Nat
         /\ CVEsOf[Current] # <<>> => Current \in Registered
<1>1. /\ matches \in Seq(Matches) /\ Len(queries) \in Nat /\ Len(matches) \in Nat
      /\ Len(queries) < Len(matches)
  BY DEF Inv, CachedTypeOK, TypeOK, WalkInv, QueriesOK
<1>2. Current \in Matches
  BY <1>1, ElementOfSeq DEF Current
<1>3. QED
  BY <1>2, NVDAssumption DEF NVDAssumption

\* it holds when the dictionary answers,
LEMMA DictionaryInv ==
  ASSUME Inv, Dictionary, UNCHANGED cacheVars
  PROVE  Inv'
<1>1. Requesting /\ CVEsOf[Current] = <<>> /\ inFlight' \in BOOLEAN
  BY DEF Dictionary, Requesting, Response, Inv, RequestInv
<1>2. CASE Current \in Registered
  <2>1. AppendQuery(0, <<>>, "in dictionary") /\ stage' = "cpe"
    BY <1>2 DEF Dictionary, AppendQuery
  <2>2. 0 = Len(CVEsOf[Current]) /\ <<>> = SubSeq(CVEsOf[Current], 1, 0)
    BY <1>1, SubSeqEmpty
  <2>3. "in dictionary" \in Verification /\ 0 \in 0..ResultsPerCPE
    BY NVDAssumption DEF Verification, NVDAssumption
  <2>4. UNCHANGED matches /\ CachedTypeOK /\ WalkInv
    BY DEF Dictionary, Inv
  <2>5. /\ queries' \in Seq(Query) /\ Len(queries') <= MaxCPEs
        /\ cves' \in Seq(Vulns) /\ WalkInv'
    <3>1. "in dictionary" = "unverified" <=> Current \notin Registered
      BY <1>2
    <3>2. 0 <= 0
      OBVIOUS
    <3>3. QED
      BY <1>1, <2>1, <2>2, <2>3, <2>4, <3>1, <3>2, QueryKept
  <2>6. start' \in Nat /\ vulns' \in Seq(Vulns)
    BY DEF Dictionary, Inv, CachedTypeOK, TypeOK
  <2>7. QED
    BY <1>1, <2>1, <2>5, <2>6, QueryInv DEF Dictionary
<1>3. CASE Current \notin Registered
  <2>1. /\ stage' = "vendor" /\ Current' = Current
        /\ UNCHANGED <<matches, start, vulns, queries, unqueried, cves, section>>
    BY <1>3 DEF Dictionary, Current
  <2>2. CachedTypeOK'
    BY <1>1, <2>1, CacheIsLeftAlone DEF Inv, CachedTypeOK, TypeOK
  <2>3. WalkInv' /\ RequestInv' /\ SectionInv'
    BY <1>1, <1>3, <2>1 DEF Inv, WalkInv, RequestInv, SectionInv, Requesting
  <2>4. QED
    BY <2>1, <2>2, <2>3, CacheIsLeftAlone DEF Inv
<1>4. QED
  BY <1>2, <1>3

\* ... or a page of a vendor's CPEs comes,
LEMMA VendorInv ==
  ASSUME Inv, Vendor, UNCHANGED cacheVars
  PROVE  Inv'
<1>1. /\ Requesting /\ CVEsOf[Current] = <<>> /\ Current \notin Registered
      /\ inFlight' \in BOOLEAN
  BY DEF Vendor, Requesting, Response, Inv, RequestInv
<1>2. AppendQuery(0, <<>>, "unverified") /\ stage' = "cpe"
  BY DEF Vendor, AppendQuery
<1>3. 0 = Len(CVEsOf[Current]) /\ <<>> = SubSeq(CVEsOf[Current], 1, 0)
  BY <1>1, SubSeqEmpty
<1>4. "unverified" \in Verification /\ 0 \in 0..ResultsPerCPE
  BY NVDAssumption DEF Verification, NVDAssumption
<1>5. UNCHANGED matches /\ CachedTypeOK /\ WalkInv
  BY DEF Vendor, Inv
<1>6. /\ queries' \in Seq(Query) /\ Len(queries') <= MaxCPEs
      /\ cves' \in Seq(Vulns) /\ WalkInv'
  <2>1. "unverified" = "unverified" <=> Current \notin Registered
    BY <1>1
  <2>2. 0 <= 0
    OBVIOUS
  <2>3. QED
    BY <1>1, <1>2, <1>3, <1>4, <1>5, <2>1, <2>2, QueryKept
<1>7. start' \in Nat /\ vulns' \in Seq(Vulns)
  BY DEF Vendor, Inv, CachedTypeOK, TypeOK
<1>8. QED
  BY <1>1, <1>2, <1>6, <1>7, QueryInv DEF Vendor

\* ... or a page of CVEs,
LEMMA CVEPageInv ==
  ASSUME Inv, NEW n \in 0..ResultsPerCPE, CVEPage(n), UNCHANGED cacheVars
  PROVE  Inv'
<1> DEFINE found == CVEsOf[Current]
           next == vulns \o SubSeq(found, start + 1, start + n)
<1>1. Requesting /\ inFlight' \in BOOLEAN /\ ResultsPerCPE \in Nat
  BY NVDAssumption DEF CVEPage, Requesting, Response, NVDAssumption
<1>2. /\ Current \in Matches /\ found \in Seq(Vulns) /\ Len(found) \in Nat
      /\ found # <<>> => Current \in Registered
  BY <1>1, CurrentType
<1>3. /\ start \in 0..ResultsPerCPE /\ start <= Len(found)
      /\ vulns = SubSeq(found, 1, start)
  BY DEF Inv, RequestInv, CVEPage
<1>4. n <= PerPage /\ start + n <= Len(found)
  BY DEF CVEPage
<1>5. Len(vulns) = start
  BY <1>2, <1>3, FirstCVEsType
<1>6. start + n \in 0..ResultsPerCPE /\ start + n \in 0..Len(found)
  <2>1. MaxPerPage \in Nat /\ start \in Int /\ n \in Nat
    BY <1>1, <1>3, NVDAssumption DEF NVDAssumption
  <2>2. PerPage <= ResultsPerCPE - start
    BY <1>1, <1>5, <2>1 DEF PerPage
  <2>3. PerPage \in Int
    BY <1>1, <1>5, <2>1 DEF PerPage
  <2>4. QED
    BY <1>1, <1>2, <1>3, <1>4, <2>1, <2>2, <2>3
<1>7. next = SubSeq(found, 1, start + n) /\ next \in Seq(Vulns)
  <2>1. start \in Nat /\ n \in Nat
    BY <1>1, <1>3
  <2>2. next = SubSeq(found, 1, start + n)
    BY <1>2, <1>3, <1>4, <2>1, PagesJoin
  <2>3. QED
    BY <1>2, <1>6, <2>2, FirstCVEsType
<1>8. /\ start' = start + n /\ vulns' = next /\ stage = "cves"
      /\ UNCHANGED <<matches, unqueried, section>>
  BY DEF CVEPage, NextStart
<1> HIDE DEF next
<1>9. CASE UNCHANGED <<stage, queries, cves>>
  <2>1. Current' = Current
    BY <1>8, <1>9 DEF Current
  <2>2. CachedTypeOK'
    BY <1>1, <1>6, <1>7, <1>8, <1>9, CacheIsLeftAlone DEF Inv, CachedTypeOK, TypeOK
  <2>3. WalkInv' /\ RequestInv' /\ SectionInv'
    BY <1>6, <1>7, <1>8, <1>9, <2>1 DEF Inv, WalkInv, RequestInv, SectionInv, Requesting
  <2>4. QED
    BY <1>8, <2>2, <2>3, CacheIsLeftAlone DEF Inv
<1>10. CASE found # <<>> /\ AppendQuery(Len(found), next, "by results")
  <2>1. "by results" \in Verification /\ ("by results" = "unverified" <=> Current \notin Registered)
    BY <1>2, <1>10 DEF Verification
  <2>2. UNCHANGED matches /\ CachedTypeOK /\ WalkInv
    BY <1>8 DEF Inv
  <2>3. start + n <= Len(found)
    BY <1>4
  <2>4. /\ queries' \in Seq(Query) /\ Len(queries') <= MaxCPEs
        /\ cves' \in Seq(Vulns) /\ WalkInv'
    BY <1>1, <1>6, <1>7, <1>10, <2>1, <2>2, <2>3, QueryKept
  <2>5. stage' = "cpe" /\ start' \in Nat /\ vulns' \in Seq(Vulns)
    <3>1. start + n \in Nat
      BY <1>1, <1>6
    <3>2. QED
      BY <1>7, <1>8, <1>10, <3>1 DEF AppendQuery
  <2>6. QED
    BY <1>1, <1>8, <2>4, <2>5, QueryInv
<1>11. CASE found = <<>> /\ stage' = "dictionary" /\ UNCHANGED <<queries, cves>>
  <2>1. Current' = Current
    BY <1>8, <1>11 DEF Current
  <2>2. CachedTypeOK'
    BY <1>1, <1>6, <1>7, <1>8, <1>11, CacheIsLeftAlone DEF Inv, CachedTypeOK, TypeOK
  <2>3. WalkInv' /\ RequestInv' /\ SectionInv'
    BY <1>1, <1>8, <1>11, <2>1 DEF Inv, WalkInv, RequestInv, SectionInv, Requesting
  <2>4. QED
    BY <1>8, <2>2, <2>3, CacheIsLeftAlone DEF Inv
<1>12. QED
  BY <1>9, <1>10, <1>11 DEF CVEPage, next

\* ... and when a request fails;
LEMMA FailsInv ==
  ASSUME Inv, Fails, UNCHANGED cacheVars
  PROVE  Inv'
<1>1. CachedTypeOK'
  BY CacheIsLeftAlone DEF Inv, CachedTypeOK, TypeOK, Fails, Response
<1>2. WalkInv' /\ RequestInv' /\ SectionInv'
  BY DEF Inv, WalkInv, RequestInv, SectionInv, Requesting, Fails
<1>3. QED
  BY <1>1, <1>2, CacheIsLeftAlone DEF Inv, Fails

\* What a section's status tells of the queries.
LEMMA OkIsWhole ==
  ASSUME NEW qs, Judged(qs).status = "ok"
  PROVE  Judged(qs) = [status |-> "ok", data |-> TRUE]
BY DEF Judged

\* it holds when another run starts,
LEMMA NewRunInv ==
  ASSUME Inv, NewRun
  PROVE  Inv'
<1>1. PICK entity \in Entities :
        cpes' = entity /\ matches' = MatchStrings(entity) /\ (Hit(entity) \/ Miss)
  BY DEF NewRun
<1>2. inFlight' = FALSE /\ start' = 0 /\ vulns' = <<>> /\ row' = row
  BY DEF NewRun
<1>3. matches' \in Seq(Matches) /\ IsInjective(matches')
  BY <1>1, MatchStringsType
<1>4. CacheInv' /\ (row' # NoRow => row'.cpes \in Entities)
  BY <1>1, <1>2 DEF Inv, CacheInv
<1>5. CASE Hit(entity)
  <2>1. row.cpes = entity /\ row # NoRow
    <3>1. entity \in Seq(CPEs) /\ Malformed \notin CPEs
      BY NVDAssumption DEF NVDAssumption
    <3>2. <<Malformed>> \notin Seq(CPEs)
      <4>1. Len(<<Malformed>>) = 1 /\ <<Malformed>>[1] = Malformed
        OBVIOUS
      <4>2. QED
        BY <3>1, <4>1, ElementOfSeq
    <3>3. NoRow.cpes = <<Malformed>>
      BY DEF NoRow
    <3>4. QED
      BY <1>5, <3>1, <3>2, <3>3 DEF Hit, SameInputs
  <2>2. /\ ResultOK(matches', queries', unqueried', cves')
        /\ section' = Judged(queries') /\ stage' = "done" /\ cached' = TRUE
        /\ section' = [status |-> "ok", data |-> TRUE]
    BY <1>1, <1>5, <2>1, OkIsWhole DEF Hit, Inv, CacheInv
  <2>3. unqueried' \in Seq(Matches)
    <3>1. /\ unqueried' = SubSeq(matches', Len(queries') + 1, Len(matches'))
          /\ queries' \in Seq(Query)
      BY <2>2 DEF ResultOK, QueriesOK
    <3>2. /\ Len(queries') + 1 \in Int /\ Len(matches') \in Int
          /\ \A i \in (Len(queries') + 1)..Len(matches') : i \in 1..Len(matches')
      BY <1>3, <3>1
    <3>3. \A i \in (Len(queries') + 1)..Len(matches') : matches'[i] \in Matches
      BY <1>3, <3>2, ElementOfSeq
    <3>4. QED
      BY <3>1, <3>2, <3>3, SubSeqProperties
  <2>4. CachedTypeOK'
    <3>1. /\ queries' \in Seq(Query) /\ Len(queries') <= MaxCPEs /\ cves' \in Seq(Vulns)
      BY <2>2 DEF ResultOK, QueriesOK, CVEsOK
    <3>2. start' \in Nat /\ vulns' \in Seq(Vulns)
      BY <1>2
    <3>3. inFlight' \in BOOLEAN
      BY <1>2
    <3>4. stage' \in {"cpe", "cves", "dictionary", "vendor", "done"}
      BY <2>2
    <3>5. section' \in [status : {"ok", "failed", "skipped"}, data : BOOLEAN] \cup {None}
      BY <2>2
    <3>6. cpes' \in Entities /\ cached' \in BOOLEAN
      BY <1>1, <2>2
    <3>7. QED
      BY <1>3, <1>4, <2>3, <3>1, <3>2, <3>3, <3>4, <3>5, <3>6 DEF CachedTypeOK, TypeOK
  <2>5. WalkInv' /\ RequestInv' /\ SectionInv'
    BY <1>3, <2>2 DEF WalkInv, RequestInv, SectionInv, Requesting, ResultOK
  <2>6. QED
    BY <1>4, <2>4, <2>5 DEF Inv
<1>6. CASE Miss
  <2>1. /\ queries' = <<>> /\ unqueried' = <<>> /\ cves' = <<>> /\ section' = None
        /\ stage' = "cpe" /\ cached' = FALSE
    BY <1>6 DEF Miss
  <2>2. QueriesOK(matches', queries') /\ CVEsOK(queries', cves')
    BY <1>3, <2>1, NothingAsked
  <2>3. unqueried' \in Seq(Matches) /\ vulns' \in Seq(Vulns)
    BY <1>2, <2>1
  <2>4. CachedTypeOK'
    BY <1>1, <1>2, <1>3, <1>4, <2>1, <2>2, <2>3
    DEF CachedTypeOK, TypeOK, QueriesOK, CVEsOK
  <2>5. WalkInv' /\ RequestInv' /\ SectionInv'
    BY <1>3, <2>1, <2>2 DEF WalkInv, RequestInv, SectionInv, Requesting
  <2>6. QED
    BY <1>4, <2>4, <2>5 DEF Inv
<1>7. QED
  BY <1>1, <1>5, <1>6

\* ... and when an answer is stored,
LEMMA RecordInv ==
  ASSUME Inv, Record
  PROVE  Inv'
<1>1. UNCHANGED <<vars, cpes, cached>> /\ stage = "done" /\ section.status = "ok"
  BY DEF Record
<1>2. /\ row'.cpes = cpes /\ row'.queries = queries
      /\ row'.unqueried = unqueried /\ row'.cves = cves
  BY DEF Record
<1>3. section = Judged(queries) /\ ResultOK(matches, queries, unqueried, cves)
  BY <1>1 DEF Inv, SectionInv
<1>4. /\ CacheInv' /\ row'.cpes \in Entities
  BY <1>1, <1>2, <1>3 DEF Inv, CacheInv, CachedTypeOK, vars
<1>5. CachedTypeOK'
  BY <1>1, <1>4 DEF Inv, CachedTypeOK, TypeOK, vars
<1>6. WalkInv' /\ RequestInv' /\ SectionInv'
  BY <1>1 DEF Inv, WalkInv, RequestInv, SectionInv, Requesting, Current, vars
<1>7. QED
  BY <1>4, <1>5, <1>6 DEF Inv

\* ... and when nothing happens.
LEMMA UnchangedInv ==
  ASSUME Inv, UNCHANGED <<vars, cacheVars>>
  PROVE  Inv'
BY DEF Inv, CachedTypeOK, TypeOK, WalkInv, RequestInv, SectionInv, CacheInv, Requesting, Current,
       vars, cacheVars

\* So every step keeps it.
LEMMA NextInv ==
  ASSUME Inv, [CachedNext]_cachedVars
  PROVE  Inv'
<1>1. CASE Next /\ UNCHANGED cacheVars
  BY <1>1, SkipInv, AskInv, NextCPEInv, ConcludeInv, CVEPageInv, DictionaryInv, VendorInv,
     FailsInv, UnchangedInv
  DEF Next, Answer, Finished
<1>2. CASE NewRun
  BY <1>2, NewRunInv
<1>3. CASE Record
  BY <1>3, RecordInv
<1>4. CASE UNCHANGED cachedVars
  BY <1>4, UnchangedInv DEF cachedVars
<1>5. QED
  BY <1>1, <1>2, <1>3, <1>4 DEF CachedNext

\* The invariant holds of every reachable state of every run, walked or served
\* from the cache (nvd.go:143-260).
THEOREM SpecInv == CachedSpec => []Inv
<1>1. CachedInit => Inv
  BY InitInv
<1>2. Inv /\ [CachedNext]_cachedVars => Inv'
  BY NextInv
<1>3. QED
  BY <1>1, <1>2, PTL DEF CachedSpec

-----------------------------------------------------------------------------
(* The properties.                                                            *)

\* Queries, results and cached rows are well formed, and no walk asks about more
\* CPEs than the cap, run after run of one service (nvd.go:247-311, cache.go).
THEOREM TypeCorrect == CachedSpec => []CachedTypeOK
<1>1. Inv => CachedTypeOK
  BY DEF Inv
<1>2. QED
  BY <1>1, SpecInv, PTL

\* The first so many and the rest are the whole.
LEMMA RestJoins ==
  ASSUME NEW m \in Seq(Matches), NEW qs, QueriesOK(m, qs)
  PROVE  [i \in DOMAIN qs |-> qs[i].cpe] \o SubSeq(m, Len(qs) + 1, Len(m)) = m
<1> DEFINE n == Len(qs)
           asked == [i \in DOMAIN qs |-> qs[i].cpe]
           rest == SubSeq(m, n + 1, Len(m))
<1>1. /\ n \in Nat /\ DOMAIN qs = 1..n /\ Len(m) \in Nat /\ n <= Len(m)
      /\ \A i \in 1..n : qs[i].cpe = m[i]
  BY DEF QueriesOK
<1>2. \A i \in 1..Len(m) : m[i] \in Matches
  BY ElementOfSeq
<1>3. \A i \in 1..n : asked[i] = m[i] /\ asked[i] \in Matches
  BY <1>1, <1>2
<1>4. asked \in Seq(Matches) /\ Len(asked) = n
  <2>1. asked = [i \in 1..n |-> qs[i].cpe]
    BY <1>1
  <2> HIDE DEF n
  <2>2. QED
    BY <1>1, <1>3, <2>1
<1> HIDE DEF asked, n
<1>5. /\ rest \in Seq(Matches)
      /\ Len(rest) = Len(m) - n
      /\ \A i \in 1..(Len(m) - n) : rest[i] = m[n + i]
  <2>1. /\ \A i \in (n + 1)..Len(m) : m[i] \in Matches
        /\ n + 1 \in Int /\ Len(m) \in Int
    BY <1>1, <1>2
  <2>2. /\ rest \in Seq(Matches)
        /\ Len(rest) = IF n + 1 <= Len(m) THEN Len(m) - (n + 1) + 1 ELSE 0
        /\ \A i \in 1..(Len(m) - (n + 1) + 1) : rest[i] = m[n + 1 + i - 1]
    BY <2>1, SubSeqProperties
  <2>3. /\ Len(m) - (n + 1) + 1 = Len(m) - n
        /\ ~(n + 1 <= Len(m)) => Len(m) - n = 0
    BY <1>1
  <2>4. Len(rest) = Len(m) - n
    BY <2>2, <2>3
  <2>5. ASSUME NEW i \in 1..(Len(m) - n)
        PROVE  rest[i] = m[n + i]
    <3>1. i \in 1..(Len(m) - (n + 1) + 1) /\ n + 1 + i - 1 = n + i
      BY <1>1
    <3>2. rest[i] = m[n + 1 + i - 1]
      BY <2>2, <3>1
    <3>3. QED
      BY <3>1, <3>2
  <2>6. QED
    BY <2>2, <2>4, <2>5
<1> HIDE DEF rest
<1>6. /\ asked \o rest \in Seq(Matches)
      /\ Len(asked \o rest) = Len(asked) + Len(rest)
      /\ \A i \in 1..(Len(asked) + Len(rest)) : (asked \o rest)[i] =
           IF i <= Len(asked) THEN asked[i] ELSE rest[i - Len(asked)]
  BY <1>4, <1>5, ConcatProperties
<1>7. Len(asked) + Len(rest) = Len(m)
  BY <1>1, <1>4, <1>5
<1>8. ASSUME NEW i \in 1..Len(m)
      PROVE  (asked \o rest)[i] = m[i]
  <2>1. CASE i <= n
    <3>1. i \in 1..n
      BY <1>1, <2>1
    <3>2. QED
      BY <1>3, <1>4, <1>6, <1>7, <2>1, <3>1
  <2>2. CASE ~(i <= n)
    <3>1. i - n \in 1..(Len(m) - n) /\ n + (i - n) = i
      BY <1>1, <2>2
    <3>2. QED
      BY <1>4, <1>5, <1>6, <1>7, <2>2, <3>1
  <2>3. QED
    BY <2>1, <2>2
<1>9. asked \o rest = m
  BY <1>6, <1>7, <1>8, SeqEqual
<1>10. QED
  BY <1>9 DEF asked, rest, n

\* A partial answer is never mistaken for a complete one, whatever ended the walk
\* and whether the section came from the cache (nvd.go:247-251, 269-281).
THEOREM PartialAnswersAreWhole == CachedSpec => []NothingIsForgotten
<1>1. Inv => NothingIsForgotten
  <2>1. SUFFICES ASSUME Inv, stage = "done", section.data
                 PROVE  /\ [i \in DOMAIN queries |-> queries[i].cpe] \o unqueried = matches
                        /\ IsInjective(matches)
    BY DEF NothingIsForgotten
  <2>2. /\ QueriesOK(matches, queries)
        /\ unqueried = SubSeq(matches, Len(queries) + 1, Len(matches))
    BY <2>1 DEF Inv, SectionInv, ResultOK
  <2>3. matches \in Seq(Matches) /\ IsInjective(matches)
    BY <2>1 DEF Inv, CachedTypeOK, TypeOK, WalkInv
  <2>4. QED
    BY <2>2, <2>3, RestJoins
<1>2. QED
  BY <1>1, SpecInv, PTL

\* What every query says of its CPE is what NVD knows of it, on the way and in the
\* result (nvd.go:109-115).
THEOREM ZerosMeanSomething == CachedSpec => []ZerosAreExplained
<1>1. Inv => ZerosAreExplained
  BY DEF Inv, WalkInv, QueriesOK, QueryOK, ZerosAreExplained
<1>2. QED
  BY <1>1, SpecInv, PTL

\* The verdict read off a section is the truth about its CPEs, and the section's
\* status agrees with it (nvd.go:300-309, assess.go:62-74).
THEOREM VerdictIsRight == CachedSpec => []VerdictMatchesSection
<1>1. Inv => VerdictMatchesSection
  <2>1. SUFFICES ASSUME Inv, stage = "done", Known
                 PROVE  /\ AnyVerified <=> \E i \in DOMAIN queries : queries[i].cpe \in Registered
                        /\ AnyVerified <=> section.status = "ok"
    BY DEF VerdictMatchesSection
  <2>2. section = Judged(queries) /\ queries # <<>>
    BY <2>1 DEF Inv, SectionInv, Known
  <2>3. \A i \in DOMAIN queries : Unverified(queries[i]) <=> queries[i].cpe \notin Registered
    BY <2>1 DEF Inv, WalkInv, QueriesOK, QueryOK
  <2>4. AnyVerified <=> \E i \in DOMAIN queries : queries[i].cpe \in Registered
    BY <2>3 DEF AnyVerified
  <2>5. AnyVerified <=> section.status = "ok"
    BY <2>2 DEF AnyVerified, Judged
  <2>6. QED
    BY <2>4, <2>5
<1>2. QED
  BY <1>1, SpecInv, PTL

\* The CVEs of a result are the first so many of each CPE asked about, pages and
\* shared CVEs notwithstanding, each once and in the one order (nvd.go:290-296,
\* 311, 352-390, 664-673).
THEOREM CVEsAreWhole == CachedSpec => []EachCVEOnceInOrder
<1>1. Inv => EachCVEOnceInOrder
  <2>1. SUFFICES ASSUME Inv, stage = "done", section.data
                 PROVE  /\ \A i, j \in DOMAIN cves : i < j => Before(cves[i], cves[j])
                        /\ \E taken \in [DOMAIN queries -> 0..ResultsPerCPE] :
                             ToSet(cves) = UNION {FirstCVEs(i, taken[i]) : i \in DOMAIN queries}
    BY DEF EachCVEOnceInOrder
  <2>2. ResultOK(matches, queries, unqueried, cves)
    BY <2>1 DEF Inv, SectionInv
  <2>3. PICK taken \in [DOMAIN queries -> 0..ResultsPerCPE] :
          ToSet(cves) = UNION {FirstOf(queries[i], taken[i]) : i \in DOMAIN queries}
    BY <2>2 DEF ResultOK, CVEsOK, Collected
  <2>4. \A i \in DOMAIN queries : FirstCVEs(i, taken[i]) = FirstOf(queries[i], taken[i])
    BY DEF FirstCVEs, FirstOf
  <2>5. ToSet(cves) = UNION {FirstCVEs(i, taken[i]) : i \in DOMAIN queries}
    BY <2>3, <2>4
  <2>6. QED
    BY <2>2, <2>5 DEF ResultOK
<1>2. QED
  BY <1>1, SpecInv, PTL

-----------------------------------------------------------------------------
(* The rate limiter. *)

\* n.last is the slot of the latest grant.
LastInv ==
  \A k \in 1..Len(granted) : granted[k].slot + Interval * (Len(granted) - k) <= last

\* Slots keep their distance, counted in places.
SlotsInv ==
  \A j, k \in 1..Len(granted) :
    j < k => granted[j].slot + Interval * (k - j) <= granted[k].slot

\* Nobody oversleeps, and no request is early or late.
TimerInv ==
  /\ \A c \in Callers : slot[c] # 0 => now <= granted[slot[c]].slot + Lateness
  /\ \A r \in sent :
       /\ granted[r.grant].slot <= r.at
       /\ r.at <= granted[r.grant].slot + Lateness

LimiterTypes ==
  /\ now \in Nat
  /\ last \in Nat
  /\ slot \in [Callers -> 0..Len(granted)]
  /\ granted \in Seq(Grant)
  /\ sent \subseteq [grant : 1..Len(granted), at : Nat]

LimiterInv == LimiterTypes /\ LastInv /\ SlotsInv /\ TimerInv

\* What a delay is measured from: n.last is the zero time, an interval before any
\* clock, or the slot of the latest grant and nothing later.
GapInv ==
  /\ Interval <= now
  /\ granted = <<>> => last = 0
  /\ granted # <<>> => last = granted[Len(granted)].slot

\* The invariant holds before the first reservation.
LEMMA LimiterInitInv == LimiterInit => LimiterInv
BY LimiterAssumption DEF LimiterInit, LimiterInv, LimiterTypes, LastInv, SlotsInv, TimerInv

\* n + 1 intervals are n intervals and one more.
LEMMA OneMoreInterval ==
  ASSUME NEW a \in Int, NEW n \in Int
  PROVE  Interval * (a + 1 - n) = Interval * (a - n) + Interval
BY LimiterAssumption

\* The slot a reservation takes: not before now, and an interval after the last.
LEMMA NextSlotSpaced ==
  ASSUME LimiterTypes
  PROVE  /\ NextSlot \in Nat
         /\ now <= NextSlot
         /\ last + Interval <= NextSlot
BY LimiterAssumption DEF LimiterTypes, NextSlot

\* A reservation takes the next slot.
LEMMA ReserveInv ==
  ASSUME NEW c \in Callers, LimiterInv, Reserve(c)
  PROVE  LimiterInv'
<1> DEFINE g == [asked |-> now, slot |-> NextSlot]
           n == Len(granted)
<1> USE LimiterAssumption
<1>1. /\ g \in Grant /\ g.slot = NextSlot /\ g.asked = now
      /\ granted \in Seq(Grant) /\ n \in Nat
      /\ last \in Nat /\ now \in Nat /\ slot \in [Callers -> 0..n]
      /\ sent \subseteq [grant : 1..n, at : Nat]
  BY NextSlotSpaced DEF LimiterInv, LimiterTypes, Grant
<1>2. /\ granted' = Append(granted, g) /\ last' = NextSlot /\ now' = now
  BY DEF Reserve
<1>3. /\ granted' \in Seq(Grant)
      /\ Len(granted') = n + 1
      /\ granted'[n + 1] = g
      /\ \A k \in 1..n : granted'[k] = granted[k] /\ granted[k] \in Grant
      /\ \A k \in 1..(n + 1) : k \in 1..n \/ k = n + 1
  BY <1>1, <1>2
<1>4. \/ /\ NextSlot = now
         /\ sent' = sent \cup {[grant |-> n + 1, at |-> now]}
         /\ slot' = slot
      \/ /\ NextSlot # now
         /\ sent' = sent
         /\ slot' = [slot EXCEPT ![c] = n + 1]
  BY DEF Reserve
<1>5. LimiterTypes'
  <2>1. last' \in Nat /\ now' \in Nat
    BY <1>1, <1>2, NextSlotSpaced DEF LimiterInv
  <2>2. slot' \in [Callers -> 0..(n + 1)]
    BY <1>1, <1>4
  <2>3. sent' \subseteq [grant : 1..(n + 1), at : Nat]
    BY <1>1, <1>4
  <2>4. QED
    BY <1>3, <2>1, <2>2, <2>3 DEF LimiterTypes
<1>6. \A k \in 1..n : granted[k].slot + Interval * (n + 1 - k) <= NextSlot
  <2>1. SUFFICES ASSUME NEW k \in 1..n
                 PROVE  granted[k].slot + Interval * (n + 1 - k) <= NextSlot
    OBVIOUS
  <2>2. granted[k].slot + Interval * (n - k) <= last
    BY DEF LimiterInv, LastInv
  <2>3. Interval * (n + 1 - k) = Interval * (n - k) + Interval
    BY <1>1, OneMoreInterval
  <2>4. granted[k].slot \in Nat /\ Interval * (n - k) \in Int
    <3>1. granted[k] \in Grant
      BY <1>3
    <3>2. granted[k].slot \in Nat
      BY <3>1 DEF Grant
    <3>3. n - k \in Int
      BY <1>1
    <3>4. QED
      BY <3>2, <3>3
  <2>5. last + Interval <= NextSlot /\ NextSlot \in Nat
    BY NextSlotSpaced DEF LimiterInv
  <2>6. QED
    BY <1>1, <2>2, <2>3, <2>4, <2>5
<1>7. LastInv'
  <2>1. SUFFICES ASSUME NEW k \in 1..(n + 1)
                 PROVE  granted'[k].slot + Interval * (n + 1 - k) <= NextSlot
    BY <1>2, <1>3 DEF LastInv
  <2>2. CASE k \in 1..n
    BY <1>3, <1>6, <2>2
  <2>3. CASE k = n + 1
    <3>1. Interval * (n + 1 - k) = 0
      BY <1>1, <2>3
    <3>2. NextSlot \in Nat
      BY NextSlotSpaced DEF LimiterInv
    <3>3. QED
      BY <1>1, <1>3, <2>3, <3>1, <3>2
  <2>4. QED
    BY <1>3, <2>2, <2>3
<1>8. SlotsInv'
  <2>1. SUFFICES ASSUME NEW j \in 1..(n + 1), NEW k \in 1..(n + 1), j < k
                 PROVE  granted'[j].slot + Interval * (k - j) <= granted'[k].slot
    BY <1>3 DEF SlotsInv
  <2> HIDE DEF g, n
  <2>0. j \in 1..n
    BY <1>1, <2>1
  <2>2. CASE k \in 1..n
    <3>1. granted[j].slot + Interval * (k - j) <= granted[k].slot
      BY <2>0, <2>1, <2>2 DEF LimiterInv, SlotsInv, n
    <3>2. QED
      BY <1>3, <2>0, <2>2, <3>1
  <2>3. CASE k = n + 1
    <3>1. granted'[k].slot = NextSlot /\ granted'[j].slot = granted[j].slot
      BY <1>1, <1>3, <2>0, <2>3
    <3>2. granted[j].slot + Interval * (n + 1 - j) <= NextSlot
      BY <1>6, <2>0
    <3>3. n + 1 - j = k - j
      BY <1>1, <2>0, <2>3
    <3>4. QED
      BY <3>1, <3>2, <3>3
  <2>4. QED
    BY <1>3, <2>2, <2>3
<1>9. TimerInv'
  <2>1. ASSUME NEW d \in Callers, slot'[d] # 0
        PROVE  now' <= granted'[slot'[d]].slot + Lateness
    <3>1. CASE slot'[d] = slot[d]
      BY <1>1, <1>2, <1>3, <2>1, <3>1 DEF LimiterInv, TimerInv
    <3>2. CASE slot'[d] # slot[d]
      BY <1>1, <1>2, <1>3, <1>4, <2>1, <3>2, NextSlotSpaced DEF LimiterInv
    <3>3. QED
      BY <3>1, <3>2
  <2>2. ASSUME NEW r \in sent'
        PROVE  granted'[r.grant].slot <= r.at /\ r.at <= granted'[r.grant].slot + Lateness
    <3>1. CASE r \in sent
      BY <1>1, <1>3, <3>1 DEF LimiterInv, TimerInv
    <3>2. CASE r \notin sent
      BY <1>1, <1>3, <1>4, <2>2, <3>2
    <3>3. QED
      BY <3>1, <3>2
  <2>3. QED
    BY <2>1, <2>2 DEF TimerInv
<1>10. QED
  BY <1>5, <1>7, <1>8, <1>9 DEF LimiterInv

\* A caller that wakes leaves in its slot, or at most Lateness after it.
LEMMA ProceedInv ==
  ASSUME NEW c \in Callers, LimiterInv, Proceed(c)
  PROVE  LimiterInv'
<1> USE LimiterAssumption DEF Proceed
<1>1. slot[c] \in 1..Len(granted) /\ now \in Nat
  BY DEF LimiterInv, LimiterTypes
<1>2. LimiterTypes'
  BY <1>1 DEF LimiterInv, LimiterTypes
<1>3. LastInv' /\ SlotsInv'
  BY DEF LimiterInv, LastInv, SlotsInv
<1>4. TimerInv'
  <2>1. \A d \in Callers : slot'[d] # 0 => slot'[d] = slot[d]
    BY DEF LimiterInv, LimiterTypes
  <2>2. \A d \in Callers : slot'[d] # 0 => now' <= granted'[slot'[d]].slot + Lateness
    BY <2>1 DEF LimiterInv, TimerInv
  <2>3. \A r \in sent' :
          granted'[r.grant].slot <= r.at /\ r.at <= granted'[r.grant].slot + Lateness
    BY <1>1 DEF LimiterInv, TimerInv
  <2>4. QED
    BY <2>2, <2>3 DEF TimerInv
<1>5. QED
  BY <1>2, <1>3, <1>4 DEF LimiterInv

\* Every step keeps the invariant.
LEMMA LimiterNextInv == LimiterInv /\ [LimiterNext]_limiterVars => LimiterInv'
<1> USE LimiterAssumption
<1>1. ASSUME LimiterInv, UNCHANGED limiterVars PROVE LimiterInv'
  BY <1>1 DEF limiterVars, LimiterInv, LimiterTypes, LastInv, SlotsInv, TimerInv
<1>2. ASSUME LimiterInv, NEW c \in Callers, GiveUp(c) PROVE LimiterInv'
  <2>1. \A d \in Callers : slot'[d] # 0 => slot'[d] = slot[d]
    BY <1>2 DEF GiveUp, LimiterInv, LimiterTypes
  <2>2. LimiterTypes' /\ LastInv' /\ SlotsInv'
    BY <1>2 DEF GiveUp, LimiterInv, LimiterTypes, LastInv, SlotsInv
  <2>3. TimerInv'
    BY <1>2, <2>1 DEF GiveUp, LimiterInv, TimerInv
  <2>4. QED
    BY <2>2, <2>3 DEF LimiterInv
<1>3. ASSUME LimiterInv, Tick PROVE LimiterInv'
  <2>1. LimiterTypes' /\ LastInv' /\ SlotsInv'
    BY <1>3 DEF Tick, LimiterInv, LimiterTypes, LastInv, SlotsInv
  <2>2. \A d \in Callers : slot[d] # 0 => granted[slot[d]].slot \in Nat
    <3>1. \A k \in 1..Len(granted) : granted[k] \in Grant
      BY <1>3 DEF LimiterInv, LimiterTypes
    <3>2. \A d \in Callers : slot[d] # 0 => slot[d] \in 1..Len(granted)
      BY <1>3 DEF LimiterInv, LimiterTypes
    <3>3. QED
      BY <3>1, <3>2 DEF Grant
  <2>3. TimerInv'
    BY <1>3, <2>2 DEF Tick, LimiterInv, LimiterTypes, TimerInv
  <2>4. QED
    BY <2>1, <2>3 DEF LimiterInv
<1>4. ASSUME LimiterInv, Quiet PROVE LimiterInv'
  BY <1>1, <1>4 DEF Quiet
<1>5. QED
  BY <1>1, <1>2, <1>3, <1>4, ReserveInv, ProceedInv DEF LimiterNext

\* A departure at most Lateness late takes at most Lateness off the distance d of two slots.
LEMMA Shift ==
  ASSUME NEW a \in Int, NEW b \in Int, NEW d \in Int, NEW x \in Int, NEW y \in Int,
         x <= a + Lateness, a + d <= b, b <= y
  PROVE  y + Lateness >= x + d
BY LimiterAssumption

\* The invariant holds of every reachable state.
LEMMA LimiterSpecInv == LimiterSpec => []LimiterInv
BY LimiterInitInv, LimiterNextInv, PTL DEF LimiterSpec

-----------------------------------------------------------------------------
(* The theorems.                                                              *)

\* n.last and every reservation stay instants of the clock, and a request leaves in
\* the slot it reserved and in no other (nvd.go:533-560).
THEOREM LimiterTypeCorrect == LimiterSpec => []LimiterTypeOK
<1>1. LimiterInv => LimiterTypeOK
  BY DEF LimiterInv, LimiterTypes, TimerInv, InItsSlot, LimiterTypeOK
<1>2. QED
  BY <1>1, LimiterSpecInv, PTL

\* Whoever calls and whoever gives up, requests n places apart in the queue leave
\* at least n intervals apart, less the timers' lateness (nvd.go:532-556).
THEOREM Spacing == LimiterSpec => []RequestsApart
<1>1. LimiterInv => RequestsApart
  <2>1. SUFFICES ASSUME LimiterInv, NEW r \in sent, NEW s \in sent, r.grant < s.grant
                 PROVE  s.at + Lateness >= r.at + Interval * (s.grant - r.grant)
    BY DEF RequestsApart
  <2>2. /\ r.grant \in 1..Len(granted) /\ s.grant \in 1..Len(granted)
        /\ r.at \in Nat /\ s.at \in Nat
    BY <2>1 DEF LimiterInv, LimiterTypes
  <2>3. /\ granted[r.grant].slot \in Nat /\ granted[s.grant].slot \in Nat
        /\ Interval * (s.grant - r.grant) \in Int
    <3>1. granted[r.grant] \in Grant /\ granted[s.grant] \in Grant
      BY <2>1, <2>2 DEF LimiterInv, LimiterTypes
    <3>2. QED
      BY <2>2, <3>1, LimiterAssumption, SMTT(20) DEF Grant
  <2>4. granted[r.grant].slot + Interval * (s.grant - r.grant) <= granted[s.grant].slot
    BY <2>1, <2>2 DEF LimiterInv, SlotsInv
  <2>5. r.at <= granted[r.grant].slot + Lateness /\ granted[s.grant].slot <= s.at
    BY <2>1 DEF LimiterInv, TimerInv
  <2> DEFINE a == granted[r.grant].slot
             b == granted[s.grant].slot
             d == Interval * (s.grant - r.grant)
  <2>6. /\ a \in Int /\ b \in Int /\ d \in Int /\ r.at \in Int /\ s.at \in Int
        /\ r.at <= a + Lateness /\ a + d <= b /\ b <= s.at
    BY <2>2, <2>3, <2>4, <2>5
  <2> HIDE DEF a, b, d
  <2>7. s.at + Lateness >= r.at + d
    BY <2>6, Shift
  <2>8. QED
    BY <2>7 DEF d
<1>2. QED
  BY <1>1, LimiterSpecInv, PTL

-----------------------------------------------------------------------------
(* Delays.                                                                    *)

\* A reservation is late only by the gap to the slot before it.
LEMMA ReserveGap ==
  ASSUME NEW c \in Callers, LimiterTypeOK, GapInv, NoNeedlessDelay, Reserve(c)
  PROVE  GapInv' /\ NoNeedlessDelay'
<1> DEFINE g == [asked |-> now, slot |-> NextSlot]
           n == Len(granted)
<1>1. /\ g \in Grant /\ g.slot = NextSlot /\ g.asked = now
      /\ granted \in Seq(Grant) /\ n \in Nat
      /\ last \in Nat /\ now \in Nat
  BY NextSlotSpaced DEF LimiterTypeOK, LimiterTypes, Grant
<1>2. granted' = Append(granted, g) /\ last' = NextSlot /\ now' = now
  BY DEF Reserve
<1>3. /\ Len(granted') = n + 1
      /\ granted' # <<>>
      /\ granted'[n + 1] = g
      /\ \A k \in 1..n : granted'[k] = granted[k]
      /\ granted = <<>> <=> n = 0
  BY <1>1, <1>2
<1>4. GapInv'
  BY <1>1, <1>2, <1>3 DEF GapInv
<1>5. g.slot > g.asked => n + 1 > 1 /\ g.slot = granted[n].slot + Interval
  <2>1. SUFFICES ASSUME now < last + Interval
                 PROVE  n + 1 > 1 /\ NextSlot = granted[n].slot + Interval
    BY <1>1, LimiterAssumption DEF NextSlot, LimiterAssumption
  <2>2. n # 0
    BY <1>1, <1>3, <2>1, LimiterAssumption DEF GapInv, LimiterAssumption
  <2>3. last = granted[n].slot
    BY <1>3, <2>2 DEF GapInv
  <2>4. QED
    BY <1>1, <2>1, <2>2, <2>3 DEF NextSlot
<1>6. NoNeedlessDelay'
  <2>1. SUFFICES ASSUME NEW k \in 1..(n + 1), granted'[k].slot > granted'[k].asked
                 PROVE  k > 1 /\ granted'[k].slot = granted'[k - 1].slot + Interval
    BY <1>3 DEF NoNeedlessDelay
  <2> HIDE DEF g, n
  <2>2. CASE k \in 1..n
    <3>1. k > 1 /\ granted[k].slot = granted[k - 1].slot + Interval
      BY <1>3, <2>1, <2>2 DEF NoNeedlessDelay, n
    <3>2. k - 1 \in 1..n
      BY <1>1, <2>2, <3>1
    <3>3. QED
      BY <1>3, <2>2, <3>1, <3>2
  <2>3. CASE k = n + 1
    <3>1. n + 1 > 1 /\ g.slot = granted[n].slot + Interval
      BY <1>3, <1>5, <2>1, <2>3
    <3>2. n \in 1..n /\ k - 1 = n
      BY <1>1, <2>3, <3>1
    <3>3. QED
      BY <1>3, <2>3, <3>1, <3>2
  <2>4. QED
    BY <1>1, <2>2, <2>3
<1>7. QED
  BY <1>4, <1>6

\* The limiter slows a caller only as far as the gap to the slot before it asks
\* for: there is no padding, and a slot given up delays nobody by more than
\* itself (nvd.go:533-548).
THEOREM Promptness == LimiterSpec => []NoNeedlessDelay
<1>1. LimiterInit => GapInv /\ NoNeedlessDelay
  BY LimiterAssumption DEF LimiterInit, GapInv, NoNeedlessDelay, LimiterAssumption
<1>2. LimiterTypeOK /\ GapInv /\ NoNeedlessDelay /\ [LimiterNext]_limiterVars => GapInv' /\ NoNeedlessDelay'
  <2>1. SUFFICES ASSUME LimiterTypeOK, GapInv, NoNeedlessDelay, [LimiterNext]_limiterVars
                 PROVE  GapInv' /\ NoNeedlessDelay'
    OBVIOUS
  <2>2. ASSUME NEW c \in Callers, Proceed(c) \/ GiveUp(c)
        PROVE  GapInv' /\ NoNeedlessDelay'
    BY <2>1, <2>2 DEF Proceed, GiveUp, GapInv, NoNeedlessDelay
  <2>3. CASE Tick
    BY <2>1, <2>3, LimiterAssumption DEF Tick, LimiterTypeOK, GapInv, NoNeedlessDelay, LimiterAssumption
  <2>4. CASE Quiet \/ UNCHANGED limiterVars
    BY <2>1, <2>4 DEF Quiet, limiterVars, GapInv, NoNeedlessDelay
  <2>5. QED
    BY <2>1, <2>2, <2>3, <2>4, ReserveGap DEF LimiterNext
<1>3. QED
  BY <1>1, <1>2, LimiterTypeCorrect, PTL DEF LimiterSpec

-----------------------------------------------------------------------------
(* The quota.                                                                 *)

\* A grant is one caller's and lets one request out.
OnceInv ==
  /\ \A r, s \in sent : r.grant = s.grant => r = s
  /\ \A r \in sent : \A c \in Callers : slot[c] # r.grant
  /\ \A c, d \in Callers : slot[c] # 0 /\ slot[c] = slot[d] => c = d

\* A reservation is a new grant, a departure the end of one.
LEMMA NextOnce ==
  ASSUME LimiterTypeOK, OnceInv, [LimiterNext]_limiterVars
  PROVE  OnceInv'
<1>1. /\ \A c \in Callers : slot[c] \in 0..Len(granted)
      /\ \A r \in sent : r.grant \in 1..Len(granted)
      /\ slot \in [Callers -> 0..Len(granted)]
      /\ Len(granted) \in Nat
  BY DEF LimiterTypeOK
<1>2. ASSUME NEW c \in Callers, Reserve(c)
      PROVE  OnceInv'
  <2> DEFINE n == Len(granted)
  <2>1. \/ /\ sent' = sent \cup {[grant |-> n + 1, at |-> now]}
           /\ slot' = slot
        \/ /\ sent' = sent
           /\ slot' = [slot EXCEPT ![c] = n + 1]
    BY <1>2 DEF Reserve
  <2>2. /\ \A r \in sent : r.grant # n + 1
        /\ \A d \in Callers : slot[d] # n + 1
    BY <1>1
  <2> HIDE DEF n
  <2>3. QED
    BY <1>1, <2>1, <2>2 DEF OnceInv
<1>3. ASSUME NEW c \in Callers, Proceed(c)
      PROVE  OnceInv'
  <2>1. /\ slot[c] # 0
        /\ sent' = sent \cup {[grant |-> slot[c], at |-> now]}
        /\ slot' = [slot EXCEPT ![c] = 0]
    BY <1>3 DEF Proceed
  <2>2. \A d \in Callers : slot'[d] = IF d = c THEN 0 ELSE slot[d]
    BY <1>1, <2>1
  <2>3. QED
    BY <1>1, <2>1, <2>2 DEF OnceInv
<1>4. ASSUME NEW c \in Callers, GiveUp(c)
      PROVE  OnceInv'
  <2>1. /\ sent' = sent
        /\ \A d \in Callers : slot'[d] = IF d = c THEN 0 ELSE slot[d]
    BY <1>1, <1>4 DEF GiveUp
  <2>2. QED
    BY <1>1, <2>1 DEF OnceInv
<1>5. CASE Tick \/ Quiet \/ UNCHANGED limiterVars
  BY <1>5 DEF Tick, Quiet, limiterVars, OnceInv
<1>6. QED
  BY <1>2, <1>3, <1>4, <1>5 DEF LimiterNext

\* Requests that leave within Quota intervals are within Quota places of each other.
LEMMA WithinAWindow ==
  ASSUME LimiterTypeOK, RequestsApart, OnceInv, NEW t \in Nat, NEW r \in sent, NEW s \in sent,
         t <= r.at, s.at + Lateness < t + Quota * Interval
  PROVE  s.grant < r.grant + Quota
<1>1. /\ r.grant \in Nat /\ s.grant \in Nat /\ r.at \in Nat /\ s.at \in Nat
      /\ Quota \in Nat /\ Interval \in Nat /\ Lateness \in Nat
  BY LimiterAssumption DEF LimiterTypeOK
<1>2. SUFFICES ASSUME r.grant + Quota <= s.grant
               PROVE  FALSE
  BY <1>1
<1> DEFINE d == s.grant - r.grant
<1>3. d \in Nat /\ Quota <= d
  BY <1>1, <1>2
<1>4. r.at + Interval * d <= s.at + Lateness
  <2>1. CASE r.grant < s.grant
    BY <1>1, <2>1 DEF RequestsApart
  <2>2. CASE r.grant = s.grant
    \* Then the quota is nothing, and so is the window.
    <3>1. Quota = 0 /\ r = s
      BY <1>1, <1>2, <2>2 DEF OnceInv
    <3>2. Quota * Interval = 0
      BY <1>1, <3>1
    <3>3. QED
      BY <1>1, <3>1, <3>2
  <2>3. r.grant < s.grant \/ r.grant = s.grant
    BY <1>1, <1>2
  <2>4. QED
    BY <2>1, <2>2, <2>3
<1> HIDE DEF d
<1>5. Quota * Interval <= Interval * d
  <2>1. PICK e \in Nat : d = Quota + e
    <3>1. d - Quota \in Nat /\ d = Quota + (d - Quota)
      BY <1>1, <1>3
    <3>2. QED
      BY <3>1
  <2>2. Interval * d = Quota * Interval + Interval * e
    BY <1>1, <2>1
  <2>3. Interval * e \in Nat /\ Quota * Interval \in Nat
    BY <1>1, <2>1
  <2>4. QED
    BY <2>2, <2>3
<1>6. Interval * d \in Int /\ Quota * Interval \in Int
  BY <1>1, <1>3
<1>7. QED
  BY <1>1, <1>4, <1>5, <1>6

\* So a window holds no more requests than there are such places.
LEMMA WindowCount ==
  ASSUME LimiterTypeOK, RequestsApart, OnceInv, NEW t \in Nat
  PROVE  Cardinality({r \in sent : t <= r.at /\ r.at + Lateness < t + Quota * Interval})
           <= Quota
<1> DEFINE W == {r \in sent : t <= r.at /\ r.at + Lateness < t + Quota * Interval}
           n == Len(granted)
           G == {g \in 1..n : \E r \in W : r.grant = g}
<1> SUFFICES Cardinality(W) <= Quota
  OBVIOUS
<1>1. n \in Nat /\ Quota \in Nat /\ \A r \in sent : r.grant \in 1..n
  BY LimiterAssumption DEF LimiterTypeOK
<1>2. CASE W = {}
  BY <1>1, <1>2, FS_EmptySet
<1>3. CASE W # {}
  <2>1. G \in SUBSET (1..n) /\ G # {}
    BY <1>1, <1>3
  <2>2. PICK m \in G : \A g \in G : m <= g
    BY <1>1, <2>1, FirstPosition
  <2>3. PICK first \in W : first.grant = m
    BY <2>2
  <2>4. m \in Int
    BY <1>1, <2>1, <2>2
  <2> PICK end \in Int : end = m + Quota - 1
    BY <1>1, <2>4
  <2> DEFINE T == m..end
             place == [r \in W |-> r.grant]
  <2>5. \A r \in W : r.grant \in T
    <3>1. SUFFICES ASSUME NEW r \in W
                   PROVE  r.grant \in T
      OBVIOUS
    <3>2. r.grant \in G
      BY <1>1
    <3>3. r.grant < first.grant + Quota
      BY <2>3, WithinAWindow
    <3>4. m <= r.grant /\ r.grant \in Int
      BY <1>1, <2>2, <3>2
    <3>5. QED
      BY <1>1, <2>3, <2>4, <3>3, <3>4
  <2>6. IsFiniteSet(T) /\ Cardinality(T) = Quota
    <3>1. IsFiniteSet(T) /\ Cardinality(T) = IF m > end THEN 0 ELSE end - m + 1
      BY <2>4, FS_Interval
    <3>2. QED
      BY <1>1, <2>4, <3>1
  <2> HIDE DEF T
  <2>7. \A r, s \in W : r.grant = s.grant => r = s
    BY DEF OnceInv
  <2> HIDE DEF W, G
  <2>8. place \in Injection(W, T)
    <3>1. place \in [W -> T]
      BY <2>5
    <3>2. \A r, s \in W : place[r] = place[s] => r = s
      BY <2>7
    <3>3. QED
      BY <3>1, <3>2 DEF Injection, IsInjective
  <2>9. Cardinality(W) <= Cardinality(T)
    BY <2>6, <2>8, FS_Injection
  <2>10. QED
    BY <2>6, <2>9
<1>4. QED
  BY <1>2, <1>3

\* NVD's published limit, whoever calls and whoever gives up: no rolling window
\* holds more than Quota requests (nvd.go:29-35, 532-556).
THEOREM QuotaIsKept == LimiterSpec => []WindowQuota
<1>1. LimiterInit => OnceInv
  BY DEF LimiterInit, OnceInv
<1>2. LimiterTypeOK /\ OnceInv /\ [LimiterNext]_limiterVars => OnceInv'
  BY NextOnce
<1>3. LimiterTypeOK /\ RequestsApart /\ OnceInv => WindowQuota
  <2>1. SUFFICES ASSUME LimiterTypeOK, RequestsApart, OnceInv, NEW t \in 0..MaxTime
                 PROVE  Cardinality({r \in sent :
                           t <= r.at /\ r.at + Lateness < t + Quota * Interval}) <= Quota
    BY DEF WindowQuota
  <2>2. t \in Nat
    OBVIOUS
  <2>3. QED
    BY <2>1, <2>2, WindowCount
<1>4. QED
  BY <1>1, <1>2, <1>3, LimiterTypeCorrect, Spacing, PTL DEF LimiterSpec

=============================================================================

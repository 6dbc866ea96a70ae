--------------------------- MODULE LookupsProofs ----------------------------
(***************************************************************************)
(* Proofs about Lookups, for any entities, any answers of the services and *)
(* any caps.                                                               *)
(*                                                                         *)
(* Each source keeps an account of the lookups it has behind it.  OSV's    *)
(* rows are the advisories of the pages read so far, each once under the   *)
(* first package that has it, and the pages of the package under way are   *)
(* kept apart until it is finished.  The breach list's rows hold every     *)
(* entry of the names asked so far.  FedRAMP's rows and BitSight's company *)
(* and rating are functions of the answer that came.  An answer is given   *)
(* only when no lookup is left, so then the accounts are complete.         *)
(***************************************************************************)
EXTENDS Lookups, OrderingProofs, TLAPS

\* What OSV says of package p, and what a query records of it.
QueryOn(p) ==
  [package |-> p, total |-> Len(ReadOf(p)), truncated |-> Len(PagesOf[p]) > MaxPages]

\* Advisory v is a row for the first of the packages that has it.
FirstAffected(v, p, packages) ==
  \E k \in DOMAIN packages :
    /\ packages[k] = p
    /\ Contains(ReadOf(packages[k]), v)
    /\ \A l \in 1..(k - 1) : ~Contains(ReadOf(packages[l]), v)

\* Rows account for the first n of some packages.
RowsOn(packages, n, rs) ==
  /\ rs \in Seq([id : DOMAIN Rank, package : DOMAIN PagesOf])
  /\ \A i, j \in DOMAIN rs : rs[i].id = rs[j].id => i = j
  /\ {rs[i].id : i \in DOMAIN rs} = UNION {ToSet(ReadOf(packages[k])) : k \in 1..n}
  /\ \A i \in DOMAIN rs : FirstAffected(rs[i].id, rs[i].package, packages)

OSVInv ==
  source = "osv" =>
    /\ keys = ent.packages
    /\ Len(queries) = done
    /\ \A i \in 1..done : queries[i] = QueryOn(ent.packages[i])
    /\ status = "none" /\ done < Len(keys) =>
         /\ page <= Len(PagesOf[Key])
         /\ batch = FlattenSeq(SubSeq(PagesOf[Key], 1, page - 1))
    /\ status # "failed" => RowsOn(ent.packages, done, rows)
    /\ status = "ok" => \A i, j \in DOMAIN rows : i < j => Worse(rows[i], rows[j])

\* Rows hold every entry of the first n of some names, and no report twice.
ListedFor(names, n, rs) ==
  /\ IsSequence(rs)
  /\ \A i, j \in DOMAIN rs : i # j /\ rs[i].url = rs[j].url => rs[i].url = Blank
  /\ \A i \in 1..n : \A b \in ToSet(BreachesOf[Normal[names[i]]]) :
       \E k \in DOMAIN rs :
         IF b.url = Blank THEN rs[k].org = b.org /\ rs[k].searchedAs = names[i]
                          ELSE rs[k].url = b.url

CAAGInv ==
  source = "caag" =>
    /\ keys = FirstOf(VendorNames(ent), MaxNames)
    /\ status # "failed" => ListedFor(keys, done, rows)

FedRAMPInv ==
  source = "fedramp" =>
    /\ Len(keys) = 1
    /\ done = 1 => /\ reply.listing \in Listings
                   /\ rows = Matched(VendorNames(ent), Records(reply.listing))

\* What the search found settles the company, and the company the last lookup.
SearchInv ==
  /\ keys # <<>>
  /\ keys[1] = FirstDomain(ent)[1]
  /\ reply.found \in Companies
  /\ reply.found = <<>> => Len(keys) = 1 /\ company = NoCompany
  /\ reply.found # <<>> =>
       /\ company = Selected(reply.found, keys[1])
       /\ Len(keys) = 2 /\ keys[2] = company.guid

BitSightInv ==
  source = "bitsight" =>
    /\ done = 0 => keys = FirstDomain(ent) /\ company = NoCompany
    /\ done > 0 => SearchInv
    /\ done = 2 => reply.detail \in Ratings /\ rows = <<Rated(reply.detail)>>
    /\ done = 2 => reply.detail.current # 0 \/ reply.detail.series # <<>>

OutcomeInv ==
  /\ source # "osv" => queries = <<>>
  /\ source = "manual" => Len(keys) = 1
  /\ status \in {"ok", "skipped"} => done = Len(keys)
  /\ status = "ok" => ~NothingToSay

Inv == TypeOK /\ OSVInv /\ CAAGInv /\ FedRAMPInv /\ BitSightInv /\ OutcomeInv

-----------------------------------------------------------------------------
(* OSV. *)

\* The pages of a package, read up to some page and up to the cap.
LEMMA ReadSoFar ==
  ASSUME NEW p \in DOMAIN PagesOf
  PROVE  /\ PagesOf[p] \in Seq(Seq(DOMAIN Rank)) /\ Len(PagesOf[p]) \in Nat \ {0}
         /\ FlattenSeq(SubSeq(PagesOf[p], 1, 0)) = <<>>
         /\ \A n \in 0..Len(PagesOf[p]) :
              FlattenSeq(SubSeq(PagesOf[p], 1, n)) \in Seq(DOMAIN Rank)
         /\ \A n \in 1..Len(PagesOf[p]) :
              FlattenSeq(SubSeq(PagesOf[p], 1, n))
                = FlattenSeq(SubSeq(PagesOf[p], 1, n - 1)) \o PagesOf[p][n]
         /\ \A n \in 1..Len(PagesOf[p]) :
              (n = Len(PagesOf[p]) /\ n <= MaxPages) \/ n = MaxPages =>
                ReadOf(p) = FlattenSeq(SubSeq(PagesOf[p], 1, n))
         /\ ReadOf(p) \in Seq(DOMAIN Rank)
<1>1. PICK s \in Seq(Seq(DOMAIN Rank)) : s = PagesOf[p] /\ s # <<>>
  BY LookupsAssumption DEF LookupsAssumption
<1>2. Len(s) \in Nat \ {0} /\ MaxPages \in Nat \ {0}
  BY <1>1, LookupsAssumption DEF LookupsAssumption
<1>3. /\ FlattenSeq(SubSeq(s, 1, 0)) = <<>>
      /\ \A n \in 0..Len(s) : FlattenSeq(SubSeq(s, 1, n)) \in Seq(DOMAIN Rank)
      /\ \A n \in 0..(Len(s) - 1) :
           FlattenSeq(SubSeq(s, 1, n + 1)) = FlattenSeq(SubSeq(s, 1, n)) \o s[n + 1]
  BY FlattenSteps
<1>4. ASSUME NEW n \in 1..Len(s)
      PROVE  FlattenSeq(SubSeq(s, 1, n)) = FlattenSeq(SubSeq(s, 1, n - 1)) \o s[n]
  <2>1. n - 1 \in 0..(Len(s) - 1) /\ (n - 1) + 1 = n
    BY <1>2
  <2>2. FlattenSeq(SubSeq(s, 1, (n - 1) + 1))
          = FlattenSeq(SubSeq(s, 1, n - 1)) \o s[(n - 1) + 1]
    BY <1>3, <2>1, Zenon
  <2>3. QED
    BY <2>1, <2>2, Zenon
<1>5. PICK m : m = Min({MaxPages, Len(s)})
  OBVIOUS
<1>6. m = (IF MaxPages <= Len(s) THEN MaxPages ELSE Len(s)) /\ m \in 0..Len(s)
  <2>1. MaxPages \in Nat /\ Len(s) \in Nat
    BY <1>2
  <2>2. Min({MaxPages, Len(s)}) = IF MaxPages <= Len(s) THEN MaxPages ELSE Len(s)
    BY <2>1, MinOfTwo
  <2>3. QED
    BY <1>5, <2>1, <2>2
<1>7. ReadOf(p) = FlattenSeq(SubSeq(s, 1, m))
  BY <1>1, <1>5 DEF ReadOf, FirstOf
<1>8. \A n \in 1..Len(s) : (n = Len(s) /\ n <= MaxPages) \/ n = MaxPages => n = m
  BY <1>2, <1>6
<1>9. QED
  BY <1>1, <1>2, <1>3, <1>4, <1>6, <1>7, <1>8

\* An advisory a package has is one of those read for it.
LEMMA ReadContains ==
  ASSUME NEW p \in DOMAIN PagesOf, NEW v
  PROVE  Contains(ReadOf(p), v) <=> v \in ToSet(ReadOf(p))
<1>1. PICK s \in Seq(DOMAIN Rank) : s = ReadOf(p)
  BY ReadSoFar
<1>2. ToSet(s) = {s[i] : i \in 1..Len(s)}
  BY ToSetSeq
<1>3. QED
  BY <1>1, <1>2 DEF Contains

Row == [id : DOMAIN Rank, package : DOMAIN PagesOf]

\* The rows of a finished package are added: what is new, once, under its name.
LEMMA MergeRows ==
  ASSUME ent \in Entities, NEW n \in 0..(Len(ent.packages) - 1), RowsOn(ent.packages, n, rows),
         NEW p, p = ent.packages[n + 1], NEW vulns, vulns = ReadOf(p)
  PROVE  RowsOn(ent.packages, n + 1, Merge(vulns, p))
<1>1. PICK packages \in Seq(DOMAIN PagesOf) : packages = ent.packages
  BY LookupsAssumption DEF LookupsAssumption
<1>2. /\ n \in Nat /\ n + 1 \in 1..Len(packages) /\ p = packages[n + 1]
      /\ p \in DOMAIN PagesOf /\ DOMAIN packages = 1..Len(packages)
  <2>1. Len(packages) \in Nat /\ n \in 0..(Len(packages) - 1)
    BY <1>1
  <2>2. n \in Nat /\ n + 1 \in 1..Len(packages)
    BY <2>1
  <2>3. QED
    BY <1>1, <2>2
<1>2a. vulns \in Seq(DOMAIN Rank)
  BY <1>2, ReadSoFar
<1>2b. PICK m, ids : m = Len(rows) /\ ids = {rows[i].id : i \in DOMAIN rows}
  OBVIOUS
<1>3. /\ rows \in Seq(Row) /\ DOMAIN rows = 1..m /\ m \in Nat
      /\ \A i, j \in 1..m : rows[i].id = rows[j].id => i = j
      /\ ids = UNION {ToSet(ReadOf(packages[k])) : k \in 1..n}
      /\ \A i \in 1..m : FirstAffected(rows[i].id, rows[i].package, packages)
  <2>1. /\ rows \in Seq(Row)
        /\ \A i, j \in DOMAIN rows : rows[i].id = rows[j].id => i = j
        /\ ids = UNION {ToSet(ReadOf(packages[k])) : k \in 1..n}
        /\ \A i \in DOMAIN rows : FirstAffected(rows[i].id, rows[i].package, packages)
    BY <1>1, <1>2b, Zenon DEF RowsOn, Row
  <2>2. DOMAIN rows = 1..m /\ m \in Nat
    BY <1>2b, <2>1, LenProperties
  <2>3. QED
    BY <2>1, <2>2, Zenon
<1>4. PICK new \in Seq(DOMAIN Rank) :
        /\ new = Distinct(Among(vulns, ToSet(vulns) \ ids))
        /\ ToSet(new) = ToSet(vulns) \ ids
        /\ IsInjective(new)
  <2>1. PICK S : S = ToSet(vulns) \ ids
    OBVIOUS
  <2>2. Among(vulns, S) \in Seq(DOMAIN Rank) /\ ToSet(Among(vulns, S)) = ToSet(vulns) \cap S
    BY <1>2a, AmongProperties
  <2>3. /\ Distinct(Among(vulns, S)) \in Seq(DOMAIN Rank)
        /\ ToSet(Distinct(Among(vulns, S))) = ToSet(Among(vulns, S))
        /\ IsInjective(Distinct(Among(vulns, S)))
    BY <2>2, DistinctProperties
  <2>4. QED
    BY <2>1, <2>2, <2>3
<1>5. PICK l : l = Len(new)
  OBVIOUS
<1>6. /\ l \in Nat /\ DOMAIN new = 1..l
      /\ \A j \in 1..l : new[j] \in DOMAIN Rank /\ new[j] \in ToSet(vulns) /\ new[j] \notin ids
      /\ \A j, k \in 1..l : new[j] = new[k] => j = k
      /\ \A v \in ToSet(vulns) : v \notin ids => \E j \in 1..l : v = new[j]
  <2>1. ToSet(new) = {new[j] : j \in 1..l}
    BY <1>5, ToSetSeq
  <2>2. l \in Nat /\ DOMAIN new = 1..l /\ \A j \in 1..l : new[j] \in DOMAIN Rank
    BY <1>5
  <2>3. \A j \in 1..l : new[j] \in ToSet(vulns) \ ids
    BY <1>4, <2>1, Zenon
  <2>4. \A j, k \in 1..l : new[j] = new[k] => j = k
    <3>1. \A j, k \in DOMAIN new : new[j] = new[k] => j = k
      BY <1>4, Zenon DEF IsInjective
    <3>2. QED
      BY <2>2, <3>1
  <2>5. \A v \in ToSet(vulns) \ ids : \E j \in 1..l : v = new[j]
    <3>1. ToSet(vulns) \ ids = {new[j] : j \in 1..l}
      BY <1>4, <2>1, Zenon
    <3>2. QED
      BY <3>1, SMT
  <2>6. QED
    BY <2>2, <2>3, <2>4, <2>5
<1>7. PICK add \in Seq(Row) :
        /\ add = [k \in DOMAIN new |-> [id |-> new[k], package |-> p]]
        /\ Len(add) = l
        /\ \A j \in 1..l : add[j].id = new[j] /\ add[j].package = p
  <2>1. \A j \in 1..l : [id |-> new[j], package |-> p] \in Row
    BY <1>1, <1>6 DEF Row
  <2>2. PICK add : add = [k \in 1..l |-> [id |-> new[k], package |-> p]]
    OBVIOUS
  <2>3. \A j \in 1..l : add[j] = [id |-> new[j], package |-> p]
    BY <2>2
  <2>4. add \in Seq(Row) /\ Len(add) = l
    BY <1>6, <2>1, <2>2
  <2>5. QED
    BY <1>6, <2>2, <2>3, <2>4
<1>8. PICK all \in Seq(Row) : all = rows \o add /\ all = Merge(vulns, p)
  <2>1. rows \o add \in Seq(Row)
    BY <1>3, <1>7, JoinPlaces
  <2>2. QED
    BY <1>2b, <1>4, <1>7, <2>1, Zenon DEF Merge
<1>9. /\ \A i \in 1..m : i \in 1..Len(all) /\ all[i] = rows[i]
      /\ \A j \in 1..l : m + j \in 1..Len(all) /\ all[m + j] = add[j]
      /\ \A k \in 1..Len(all) : k \in 1..m \/ \E j \in 1..l : k = m + j
  <2>1. rows \in Seq(Row) /\ add \in Seq(Row)
    BY <1>3
  <2>2. /\ \A i \in 1..Len(rows) :
             i \in 1..Len(rows \o add) /\ (rows \o add)[i] = rows[i]
        /\ \A j \in 1..Len(add) :
             /\ Len(rows) + j \in 1..Len(rows \o add)
             /\ (rows \o add)[Len(rows) + j] = add[j]
        /\ \A k \in 1..Len(rows \o add) :
             k \in 1..Len(rows) \/ \E j \in 1..Len(add) : k = Len(rows) + j
    BY <2>1, JoinPlaces
  <2>3. rows \o add = all /\ Len(rows) = m /\ Len(add) = l
    BY <1>2b, <1>7, <1>8
  <2>4. QED
    BY <2>2, <2>3, Zenon
<1>10. DOMAIN all = 1..Len(all)
  OBVIOUS
<1>10a. \A j \in 1..l : all[m + j].id = new[j] /\ all[m + j].package = p
  <2>1. \A j \in 1..l : all[m + j] = add[j]
    BY <1>9, Zenon
  <2>2. \A j \in 1..l : add[j].id = new[j] /\ add[j].package = p
    BY <1>7, Zenon
  <2>3. QED
    BY <2>1, <2>2, Zenon
<1>11. \A i \in 1..m : rows[i].id \in ids
  BY <1>2b, <1>3
<1>12. ASSUME NEW i \in DOMAIN all, NEW j \in DOMAIN all, all[i].id = all[j].id
       PROVE  i = j
  <2>1. /\ i \in 1..m \/ \E k \in 1..l : i = m + k
        /\ j \in 1..m \/ \E k \in 1..l : j = m + k
    BY <1>9, <1>10
  <2>2. \A k \in 1..l : all[m + k].id = new[k] /\ new[k] \notin ids
    BY <1>6, <1>10a, Zenon
  <2>3. \A k \in 1..m : all[k].id = rows[k].id /\ rows[k].id \in ids
    BY <1>9, <1>11, Zenon
  <2>4. CASE i \in 1..m /\ j \in 1..m
    <3>1. rows[i].id = rows[j].id
      BY <1>12, <2>3, <2>4, Zenon
    <3>2. QED
      BY <1>3, <2>4, <3>1
  <2>5. CASE i \in 1..m /\ \E k \in 1..l : j = m + k
    <3>1. PICK k \in 1..l : j = m + k
      BY <2>5
    <3>2. all[j].id \notin ids /\ all[i].id \in ids
      BY <2>2, <2>3, <2>5, <3>1, Zenon
    <3>3. QED
      BY <1>12, <3>2, Zenon
  <2>6. CASE j \in 1..m /\ \E k \in 1..l : i = m + k
    <3>1. PICK k \in 1..l : i = m + k
      BY <2>6
    <3>2. all[i].id \notin ids /\ all[j].id \in ids
      BY <2>2, <2>3, <2>6, <3>1, Zenon
    <3>3. QED
      BY <1>12, <3>2, Zenon
  <2>7. CASE (\E k \in 1..l : i = m + k) /\ \E k \in 1..l : j = m + k
    <3>1. PICK a \in 1..l : i = m + a
      BY <2>7
    <3>2. PICK b \in 1..l : j = m + b
      BY <2>7
    <3>3. new[a] = new[b]
      BY <1>12, <2>2, <3>1, <3>2, Zenon
    <3>4. a = b
      BY <1>6, <3>3, Zenon
    <3>5. QED
      BY <3>1, <3>2, <3>4, Zenon
  <2>8. QED
    BY <2>1, <2>4, <2>5, <2>6, <2>7
<1>13. {all[i].id : i \in DOMAIN all} = UNION {ToSet(ReadOf(packages[k])) : k \in 1..(n + 1)}
  <2>1. 1..(n + 1) = 1..n \cup {n + 1}
    BY <1>2
  <2>2. vulns = ReadOf(packages[n + 1])
    BY <1>2, Zenon
  <2>3. UNION {ToSet(ReadOf(packages[k])) : k \in 1..(n + 1)} = ids \cup ToSet(vulns)
    <3>1. ASSUME NEW v
          PROVE  v \in UNION {ToSet(ReadOf(packages[k])) : k \in 1..(n + 1)}
                   <=> v \in ids \cup ToSet(vulns)
      BY <1>3, <2>1, <2>2, Zenon
    <3>2. QED
      BY <3>1, Zenon
  <2>4. \A i \in DOMAIN all : all[i].id \in ids \cup ToSet(vulns)
    <3>1. \A i \in 1..m : all[i].id \in ids
      BY <1>9, <1>11, Zenon
    <3>2. \A j \in 1..l : all[m + j].id \in ToSet(vulns)
      BY <1>6, <1>10a, Zenon
    <3>3. QED
      BY <1>9, <1>10, <3>1, <3>2, Zenon
  <2>5. ASSUME NEW v \in ids
        PROVE  \E i \in DOMAIN all : all[i].id = v
    <3>1. PICK i \in 1..m : rows[i].id = v
      BY <1>2b, <1>3
    <3>2. QED
      BY <1>9, <1>10, <3>1
  <2>6. ASSUME NEW v \in ToSet(vulns), v \notin ids
        PROVE  \E i \in DOMAIN all : all[i].id = v
    <3>1. PICK j \in 1..l : v = new[j]
      BY <1>6, <2>6
    <3>2. QED
      BY <1>9, <1>10, <1>10a, <3>1, Zenon
  <2>7. QED
    BY <2>3, <2>4, <2>5, <2>6
<1>14. ASSUME NEW i \in DOMAIN all
       PROVE  FirstAffected(all[i].id, all[i].package, packages)
  <2>1. CASE i \in 1..m
    BY <1>3, <1>9, <2>1
  <2>2. ASSUME NEW j \in 1..l, i = m + j
        PROVE  FirstAffected(all[i].id, all[i].package, packages)
    <3>1. /\ all[i].id = new[j] /\ all[i].package = p
          /\ new[j] \in ToSet(ReadOf(p)) /\ new[j] \notin ids
      BY <1>6, <1>10a, <2>2, Zenon
    <3>2. n + 1 \in DOMAIN packages /\ packages[n + 1] = p
      BY <1>2
    <3>3. Contains(ReadOf(packages[n + 1]), new[j])
      BY <1>2, <3>1, <3>2, ReadContains
    <3>4. ASSUME NEW k \in 1..((n + 1) - 1)
          PROVE  ~Contains(ReadOf(packages[k]), new[j])
      <4>1. k \in 1..n /\ packages[k] \in DOMAIN PagesOf
        BY <1>2
      <4>2. new[j] \notin ToSet(ReadOf(packages[k]))
        BY <1>3, <3>1, <4>1
      <4>3. QED
        BY <4>1, <4>2, ReadContains
    <3>5. QED
      BY <3>1, <3>2, <3>3, <3>4 DEF FirstAffected
  <2>3. QED
    BY <1>9, <1>10, <2>1, <2>2
<1>15. RowsOn(ent.packages, n + 1, all)
  BY <1>1, <1>12, <1>13, <1>14, Zenon DEF RowsOn, Row
<1>16. QED
  BY <1>8, <1>15

\* A fetch's rows, sorted: the same ones, worst first.
LEMMA SortRows ==
  ASSUME NEW rs \in Seq(Row), \A i, j \in DOMAIN rs : rs[i].id = rs[j].id => i = j
  PROVE  /\ StableSort(rs, Worse) \in Seq(Row)
         /\ DOMAIN StableSort(rs, Worse) = 1..Len(rs)
         /\ \A i, j \in 1..Len(rs) :
              i < j => Worse(StableSort(rs, Worse)[i], StableSort(rs, Worse)[j])
         /\ \A i \in 1..Len(rs) : \E k \in 1..Len(rs) : StableSort(rs, Worse)[i] = rs[k]
         /\ \A k \in 1..Len(rs) : \E i \in 1..Len(rs) : StableSort(rs, Worse)[i] = rs[k]
<1> DEFINE n == Len(rs)
           S == 1..n
           Earlier(i, j) == Worse(rs[i], rs[j]) \/ (~Worse(rs[j], rs[i]) /\ i < j)
           R == {p \in S \X S : Earlier(p[1], p[2])}
           at == InOrder(S, Earlier)
           sorted == StableSort(rs, Worse)
<1>1. n \in Nat /\ DOMAIN rs = S /\ \A i \in S : rs[i] \in Row
  OBVIOUS
<1>2. \A i \in S : rs[i].id \in Int /\ Rank[rs[i].id] \in Int
  BY <1>1, LookupsAssumption DEF LookupsAssumption, Row
<1>3. \A i, j \in S : i # j => rs[i].id # rs[j].id
  BY <1>1
<1>4. \A i, j \in S : <<i, j>> \in R <=> Worse(rs[i], rs[j])
  <2>1. \A i, j \in S : <<i, j>> \in R <=> Earlier(i, j)
    OBVIOUS
  <2>2. ASSUME NEW i \in S, NEW j \in S
        PROVE  Earlier(i, j) <=> Worse(rs[i], rs[j])
    BY <1>1, <1>2, <1>3 DEF Worse
  <2>3. QED
    BY <2>1, <2>2
<1>5. IsFiniteSet(S) /\ Cardinality(S) = n
  <2>1. Cardinality(1..n) = IF 1 > n THEN 0 ELSE n - 1 + 1
    BY <1>1, FS_Interval, SMTT(20)
  <2>2. IsFiniteSet(1..n)
    BY <1>1, FS_Interval
  <2>3. QED
    BY <1>1, <2>1, <2>2
<1>6. IsStrictOrder(R, S)
  <2> HIDE DEF R, S, n
  <2>1. /\ \A i \in S : ~Worse(rs[i], rs[i])
        /\ \A i, j, k \in S : Worse(rs[i], rs[j]) /\ Worse(rs[j], rs[k]) => Worse(rs[i], rs[k])
        /\ \A i, j \in S : i = j \/ Worse(rs[i], rs[j]) \/ Worse(rs[j], rs[i])
    BY <1>2, <1>3 DEF Worse
  <2>2. QED
    BY <1>4, <2>1 DEF IsStrictOrder
<1>7. \A x \in S : {y \in S : Earlier(y, x)} = Below(x, S, R)
  BY DEF Below
<1>8. at = [k \in 1..n |-> CHOOSE x \in S : Cardinality({y \in S : Earlier(y, x)}) = k - 1]
  <2>1. at = [k \in 1..Cardinality(S) |->
                CHOOSE x \in S : Cardinality({y \in S : Earlier(y, x)}) = k - 1]
    BY DEF InOrder
  <2> HIDE DEF at, S, Earlier
  <2>2. QED
    BY <1>5, <2>1
<1>9. sorted = [k \in DOMAIN at |-> rs[at[k]]]
  BY <1>1 DEF StableSort
<1> HIDE DEF S, R, n, at, Earlier, sorted
<1>10. \A k \in 1..n : at[k] \in S /\ Cardinality({y \in S : Earlier(y, at[k])}) = k - 1
  <2>1. \A k \in 1..n : \E x \in S : Cardinality(Below(x, S, R)) = k - 1
    BY <1>5, <1>6, EveryRankIsTaken
  <2>2. \A k \in 1..n : \E x \in S : Cardinality({y \in S : Earlier(y, x)}) = k - 1
    BY <1>7, <2>1
  <2>3. QED
    BY <1>8, <2>2
<1>11. IsListing(at, S, R)
  <2>1. at \in [1..n -> S] /\ \A k \in 1..n : Cardinality(Below(at[k], S, R)) = k - 1
    BY <1>7, <1>8, <1>10
  <2>2. QED
    BY <1>5, <1>6, <2>1, ListedByRank
<1>12. /\ at \in [1..n -> S]
       /\ \A j, k \in 1..n : j < k => Worse(rs[at[j]], rs[at[k]])
       /\ \A x \in S : \E k \in 1..n : at[k] = x
  BY <1>4, <1>5, <1>11 DEF IsListing
<1>13. sorted = [k \in 1..n |-> rs[at[k]]]
  BY <1>9, <1>12
<1>14. \A k \in 1..n : sorted[k] = rs[at[k]] /\ at[k] \in S /\ rs[at[k]] \in Row
  BY <1>1, <1>12, <1>13
<1>15. sorted \in Seq(Row) /\ DOMAIN sorted = 1..n
  BY <1>1, <1>13, <1>14
<1>16. \A i, j \in 1..n : i < j => Worse(sorted[i], sorted[j])
  BY <1>12, <1>14, Zenon
<1>17. ASSUME NEW k \in S
       PROVE  \E i \in 1..n : sorted[i] = rs[k]
  <2>1. PICK i \in 1..n : at[i] = k
    BY <1>12
  <2>2. QED
    BY <1>14, <2>1
<1>18. QED
  BY <1>14, <1>15, <1>16, <1>17 DEF n, S, sorted

\* Sorting changes nothing else about what the rows account for.
LEMMA SortedRowsOn ==
  ASSUME NEW n, RowsOn(ent.packages, n, rows)
  PROVE  /\ RowsOn(ent.packages, n, StableSort(rows, Worse))
         /\ \A i, j \in DOMAIN StableSort(rows, Worse) :
              i < j => Worse(StableSort(rows, Worse)[i], StableSort(rows, Worse)[j])
<1>1. PICK m, sorted : m = Len(rows) /\ sorted = StableSort(rows, Worse)
  OBVIOUS
<1>2. /\ rows \in Seq(Row)
      /\ \A i, j \in DOMAIN rows : rows[i].id = rows[j].id => i = j
      /\ \A i \in DOMAIN rows : FirstAffected(rows[i].id, rows[i].package, ent.packages)
  BY Zenon DEF RowsOn, Row
<1>3. m \in Nat /\ DOMAIN rows = 1..m
  BY <1>1, <1>2, LenProperties
<1>4. /\ sorted \in Seq(Row) /\ DOMAIN sorted = 1..m
      /\ \A i, j \in 1..m : i < j => Worse(sorted[i], sorted[j])
      /\ \A i \in 1..m : \E k \in 1..m : sorted[i] = rows[k]
      /\ \A k \in 1..m : \E i \in 1..m : sorted[i] = rows[k]
  BY <1>1, <1>2, SortRows
<1>5. \A i \in 1..m : sorted[i].id \in Int /\ Rank[sorted[i].id] \in Int
  <2>1. \A i \in 1..m : sorted[i] \in Row
    BY <1>4, ElementOfSeq, LenProperties
  <2>2. QED
    BY <2>1, LookupsAssumption DEF LookupsAssumption, Row
<1>6. \A i, j \in DOMAIN sorted : sorted[i].id = sorted[j].id => i = j
  <2>1. SUFFICES ASSUME NEW i \in 1..m, NEW j \in 1..m, i < j
                 PROVE  sorted[i].id # sorted[j].id
    <3>1. DOMAIN sorted = 1..m /\ \A i, j \in 1..m : i = j \/ i < j \/ j < i
      BY <1>3, <1>4
    <3>2. QED
      BY <3>1
  <2>2. Worse(sorted[i], sorted[j])
    BY <1>4, <2>1
  <2>3. QED
    BY <1>5, <2>2 DEF Worse
<1>7. {sorted[i].id : i \in DOMAIN sorted} = {rows[i].id : i \in DOMAIN rows}
  <2>1. \A i \in DOMAIN sorted : \E k \in DOMAIN rows : sorted[i].id = rows[k].id
    BY <1>3, <1>4
  <2>2. \A k \in DOMAIN rows : \E i \in DOMAIN sorted : sorted[i].id = rows[k].id
    BY <1>3, <1>4
  <2>3. QED
    BY <2>1, <2>2
<1>8. \A i \in DOMAIN sorted : FirstAffected(sorted[i].id, sorted[i].package, ent.packages)
  <2>1. SUFFICES ASSUME NEW i \in DOMAIN sorted
                 PROVE  FirstAffected(sorted[i].id, sorted[i].package, ent.packages)
    OBVIOUS
  <2>2. PICK k \in DOMAIN rows : sorted[i] = rows[k]
    BY <1>3, <1>4
  <2>3. QED
    BY <1>2, <2>2, Zenon
<1>9. RowsOn(ent.packages, n, sorted)
  BY <1>4, <1>6, <1>7, <1>8, Zenon DEF RowsOn, Row
<1>10. \A i, j \in DOMAIN sorted : i < j => Worse(sorted[i], sorted[j])
  BY <1>4, Zenon
<1>11. QED
  BY <1>1, <1>9, <1>10, Zenon

-----------------------------------------------------------------------------
(* The names of a vendor.                                                     *)

\* A picked sequence begins with the first position picked.
LEMMA FirstPicked ==
  ASSUME NEW sub, Len(sub) \in Nat, NEW s, NEW n \in Nat, NEW I \in SUBSET (1..n),
         IsPicked(sub, s, I), NEW i \in I, \A j \in I : i <= j
  PROVE  1 \in 1..Len(sub) /\ sub[1] = s[i]
<1>1. PICK at \in [1..Len(sub) -> I] :
        /\ \A j, k \in 1..Len(sub) : j < k => at[j] < at[k]
        /\ \A x \in I : \E k \in 1..Len(sub) : at[k] = x
        /\ \A k \in 1..Len(sub) : sub[k] = s[at[k]]
  BY DEF IsPicked
<1>2. PICK k \in 1..Len(sub) : at[k] = i
  BY <1>1
<1>3. 1 \in 1..Len(sub)
  BY <1>2
<1>4. at[1] \in I /\ i <= at[1] /\ at[1] \in 1..n /\ i \in 1..n
  BY <1>1, <1>3
<1>5. k = 1
  <2>1. SUFFICES ASSUME 1 < k PROVE FALSE
    BY <1>2, <1>3
  <2>2. at[1] < i
    BY <1>1, <1>2, <1>3, <2>1
  <2>3. QED
    BY <1>4, <2>2
<1>6. QED
  BY <1>1, <1>2, <1>3, <1>5

\* The names that say something.
Telling(e) == {n \in ToSet(e.names) : Normal[n] # Blank}

\* vendorNames holds each of them once by what it normalizes to, the first of them first.
LEMMA VendorNamesAre ==
  ASSUME NEW e \in Entities
  PROVE  /\ VendorNames(e) \in Seq(DOMAIN Normal)
         /\ \A i \in 1..Len(VendorNames(e)) : VendorNames(e)[i] \in Telling(e)
         /\ \A i, j \in 1..Len(VendorNames(e)) :
              Normal[VendorNames(e)[i]] = Normal[VendorNames(e)[j]] => i = j
         /\ \A n \in Telling(e) :
              \E i \in 1..Len(VendorNames(e)) : Normal[VendorNames(e)[i]] = Normal[n]
         /\ VendorNames(e) # <<>> => VendorNames(e)[1] = Among(e.names, Telling(e))[1]
         /\ VendorNames(e) # <<>> /\ Normal[e.names[1]] # Blank =>
              VendorNames(e)[1] = e.names[1]
<1>1. PICK s \in Seq(DOMAIN Normal) : s = e.names
  BY LookupsAssumption DEF LookupsAssumption
<1>2. PICK l : l = Len(s)
  OBVIOUS
<1>3. l \in Nat /\ DOMAIN s = 1..l /\ ToSet(s) = {s[i] : i \in 1..l}
  BY <1>2, ToSetSeq
<1>4. PICK I \in SUBSET (1..l) :
        I = {i \in 1..l : Normal[s[i]] # Blank /\ \A j \in 1..(i - 1) : Normal[s[j]] # Normal[s[i]]}
  OBVIOUS
<1>5. PICK sub : sub = Subsequence(s, I) /\ sub = VendorNames(e)
  BY <1>1, <1>3, <1>4 DEF VendorNames
<1>6. PICK m : m = Len(sub)
  OBVIOUS
<1>7. sub \in Seq(DOMAIN Normal) /\ IsPicked(sub, s, I) /\ DOMAIN sub = 1..m /\ m \in Nat
  <2>1. Subsequence(s, I) \in Seq(DOMAIN Normal) /\ IsPicked(Subsequence(s, I), s, I)
    BY <1>2, SubsequenceProperties
  <2>2. sub \in Seq(DOMAIN Normal) /\ IsPicked(sub, s, I)
    BY <1>5, <2>1
  <2>3. QED
    BY <1>6, <2>2, LenProperties
<1>8. PICK at \in [1..m -> I] :
        /\ \A j, k \in 1..m : j < k => at[j] < at[k]
        /\ \A i \in I : \E k \in 1..m : at[k] = i
        /\ \A k \in 1..m : sub[k] = s[at[k]]
  BY <1>6, <1>7 DEF IsPicked
<1>9. \A k \in 1..m : /\ at[k] \in 1..l
                      /\ Normal[s[at[k]]] # Blank
                      /\ \A j \in 1..(at[k] - 1) : Normal[s[j]] # Normal[s[at[k]]]
  BY <1>4, <1>8
<1>10. \A i \in 1..m : sub[i] \in Telling(e)
  BY <1>1, <1>3, <1>8, <1>9 DEF Telling
<1>11. \A i, j \in 1..m : Normal[sub[i]] = Normal[sub[j]] => i = j
  <2>1. SUFFICES ASSUME NEW i \in 1..m, NEW j \in 1..m, i < j
                 PROVE  Normal[sub[i]] # Normal[sub[j]]
    BY <1>7
  <2>2. at[i] \in 1..l /\ at[j] \in 1..l /\ at[i] < at[j]
    BY <1>8, <1>9, <2>1
  <2>3. at[i] \in 1..(at[j] - 1)
    BY <1>3, <2>2
  <2>4. QED
    BY <1>8, <1>9, <2>3
<1>12. ASSUME NEW x \in Telling(e)
       PROVE  \E i \in I : Normal[s[i]] = Normal[x]
  <2>1. PICK J \in SUBSET (1..l) : J = {i \in 1..l : Normal[s[i]] = Normal[x]}
    OBVIOUS
  <2>2. J # {} /\ Normal[x] # Blank
    BY <1>1, <1>3, <2>1 DEF Telling
  <2>3. PICK i \in J : \A j \in J : i <= j
    BY <1>3, <2>2, FirstPosition
  <2>4. i \in 1..l /\ Normal[s[i]] = Normal[x]
    BY <2>1
  <2>5. ASSUME NEW j \in 1..(i - 1), Normal[s[j]] = Normal[s[i]] PROVE FALSE
    <3>1. j \in 1..l /\ j < i
      BY <1>3, <2>4
    <3>2. j \in J
      BY <2>1, <2>4, <2>5, <3>1
    <3>3. QED
      BY <2>3, <2>4, <3>1, <3>2
  <2>6. i \in I
    BY <1>4, <2>2, <2>4, <2>5
  <2>7. QED
    BY <2>4, <2>6
<1>13. ASSUME NEW x \in Telling(e)
       PROVE  \E k \in 1..m : Normal[sub[k]] = Normal[x]
  <2>1. PICK i \in I : Normal[s[i]] = Normal[x]
    BY <1>12
  <2>2. PICK k \in 1..m : at[k] = i
    BY <1>8
  <2>3. QED
    BY <1>8, <2>1, <2>2
<1>14. ASSUME sub # <<>>
       PROVE  sub[1] = Among(s, Telling(e))[1]
  <2>1. PICK J \in SUBSET (1..l) : J = {i \in DOMAIN s : s[i] \in Telling(e)}
    BY <1>3
  <2>2. 1 \in 1..m /\ sub[1] \in Telling(e)
    <3>1. m # 0
      BY <1>6, <1>7, <1>14, EmptySeq
    <3>2. 1 \in 1..m
      BY <1>7, <3>1
    <3>3. QED
      BY <1>10, <3>2
  <2>3. at[1] \in J
    BY <1>3, <1>8, <1>9, <2>1, <2>2
  <2>4. PICK i \in J : \A j \in J : i <= j
    BY <1>3, <2>3, FirstPosition
  <2>5. i \in 1..l /\ s[i] \in Telling(e) /\ Normal[s[i]] # Blank
    BY <1>3, <2>1 DEF Telling
  <2>6. \A j \in 1..(i - 1) : Normal[s[j]] # Normal[s[i]]
    <3>1. SUFFICES ASSUME NEW j \in 1..(i - 1), Normal[s[j]] = Normal[s[i]] PROVE FALSE
      OBVIOUS
    <3>2. j \in 1..l /\ j < i
      BY <1>3, <2>5
    <3>3. s[j] \in Telling(e)
      BY <1>1, <1>3, <2>5, <3>1, <3>2 DEF Telling
    <3>4. j \in J
      BY <1>3, <2>1, <3>2, <3>3
    <3>5. QED
      BY <2>4, <2>5, <3>2, <3>4
  <2>7. i \in I
    BY <1>4, <2>5, <2>6
  <2>8. \A j \in I : i <= j
    <3>1. SUFFICES ASSUME NEW j \in I PROVE i <= j
      OBVIOUS
    <3>2. j \in DOMAIN s /\ s[j] \in Telling(e)
      BY <1>1, <1>3, <1>4 DEF Telling
    <3>3. QED
      BY <2>1, <2>4, <3>2
  <2>9. sub[1] = s[i]
    BY <1>3, <1>6, <1>7, <2>7, <2>8, FirstPicked, ZenonT(30)
  <2>10. Among(s, Telling(e)) = Subsequence(s, J)
    BY <2>1 DEF Among
  <2>11. /\ Len(Subsequence(s, J)) \in Nat
         /\ IsPicked(Subsequence(s, J), s, J)
    BY <1>2, <2>1, SubsequenceProperties
  <2>12. Subsequence(s, J)[1] = s[i]
    BY <1>3, <2>4, <2>11, FirstPicked
  <2>13. QED
    BY <2>9, <2>10, <2>12
<1>15. ASSUME sub # <<>>, Normal[s[1]] # Blank
       PROVE  sub[1] = s[1]
  <2>1. m # 0
    BY <1>6, <1>7, <1>15, EmptySeq
  <2>2. 1 \in 1..m /\ at[1] \in 1..l
    BY <1>7, <1>9, <2>1
  <2>3. 1 \in 1..l /\ \A j \in 1..l : 1 <= j
    BY <1>3, <2>2
  <2>4. 1 \in I /\ \A j \in I : 1 <= j
    BY <1>4, <1>15, <2>3
  <2>5. PICK k \in 1..m : at[k] = 1
    BY <1>8, <2>4
  <2>6. ~(at[1] < 1) /\ (1 < k => at[1] < at[k])
    BY <1>3, <1>8, <2>2
  <2>7. k = 1
    BY <1>7, <2>2, <2>5, <2>6
  <2>8. QED
    BY <1>8, <2>2, <2>5, <2>7
<1>16. QED
  BY <1>1, <1>5, <1>6, <1>7, <1>10, <1>11, <1>13, <1>14, <1>15

\* So there are as many of them as there are different ones.
LEMMA VendorNamesCount ==
  ASSUME NEW e \in Entities
  PROVE  Len(VendorNames(e)) = Cardinality({Normal[n] : n \in ToSet(e.names)} \ {Blank})
<1>1. PICK T : T = {Normal[n] : n \in ToSet(e.names)} \ {Blank}
  OBVIOUS
<1>2. PICK s \in Seq(DOMAIN Normal) : s = VendorNames(e)
  BY VendorNamesAre
<1>3. PICK m : m = Len(s)
  OBVIOUS
<1>4. m \in Nat
  BY <1>3
<1>5. /\ \A i \in 1..m : s[i] \in Telling(e)
      /\ \A i, j \in 1..m : Normal[s[i]] = Normal[s[j]] => i = j
      /\ \A n \in Telling(e) : \E i \in 1..m : Normal[s[i]] = Normal[n]
  BY <1>2, <1>3, VendorNamesAre
<1>6. PICK f : f = [i \in 1..m |-> Normal[s[i]]]
  OBVIOUS
<1>7. \A i \in 1..m : f[i] = Normal[s[i]] /\ f[i] \in T
  BY <1>1, <1>5, <1>6 DEF Telling
<1>8. f \in [1..m -> T]
  BY <1>6, <1>7
<1>9. \A i, j \in 1..m : f[i] = f[j] => i = j
  BY <1>5, <1>7
<1>10. \A t \in T : \E i \in 1..m : f[i] = t
  <2>1. SUFFICES ASSUME NEW t \in T PROVE \E i \in 1..m : f[i] = t
    OBVIOUS
  <2>2. PICK n \in Telling(e) : t = Normal[n]
    BY <1>1 DEF Telling
  <2>3. QED
    BY <1>5, <1>7, <2>2
<1>11. f \in Bijection(1..m, T)
  BY <1>8, <1>9, <1>10, Fun_IsBij
<1>12. ExistsBijection(1..m, T)
  BY <1>11, Fun_ExistsBij
<1>13. IsFiniteSet(1..m) /\ Cardinality(1..m) = m
  <2>1. Cardinality(1..m) = IF 1 > m THEN 0 ELSE m - 1 + 1
    BY <1>4, FS_Interval
  <2>2. QED
    BY <1>4, <2>1, FS_Interval
<1>14. Cardinality(T) = m
  BY <1>12, <1>13, FS_Bijection
<1>15. QED
  BY <1>1, <1>2, <1>3, <1>14

-----------------------------------------------------------------------------
(* The California Attorney General's list.                                    *)

\* Each key of a fetch is a name of the vendor, and its page a sequence.
LEMMA CAAGKeys ==
  ASSUME ent \in Entities, keys = FirstOf(VendorNames(ent), MaxNames)
  PROVE  /\ keys \in Seq(DOMAIN Normal)
         /\ Len(keys) = IF MaxNames <= Len(VendorNames(ent)) THEN MaxNames
                                                             ELSE Len(VendorNames(ent))
         /\ \A i \in 1..Len(keys) :
              keys[i] \in Telling(ent) /\ IsSequence(BreachesOf[Normal[keys[i]]])
<1>1. PICK names \in Seq(DOMAIN Normal) : names = VendorNames(ent)
  BY VendorNamesAre
<1>2. MaxNames \in Nat
  BY LookupsAssumption DEF LookupsAssumption
<1>3. keys = SubSeq(names, 1, Min({MaxNames, Len(names)}))
  BY <1>1, Zenon DEF FirstOf
<1>4. /\ keys \in Seq(DOMAIN Normal)
      /\ Len(keys) = IF MaxNames <= Len(names) THEN MaxNames ELSE Len(names)
      /\ \A i \in 1..Len(keys) : i \in 1..Len(names) /\ keys[i] = names[i]
  <2>1. /\ SubSeq(names, 1, Min({MaxNames, Len(names)})) \in Seq(DOMAIN Normal)
        /\ Len(SubSeq(names, 1, Min({MaxNames, Len(names)})))
             = IF MaxNames <= Len(names) THEN MaxNames ELSE Len(names)
        /\ \A i \in 1..Len(SubSeq(names, 1, Min({MaxNames, Len(names)}))) :
             i \in 1..Len(names) /\ SubSeq(names, 1, Min({MaxNames, Len(names)}))[i] = names[i]
    BY <1>1, <1>2, BeginningProperties
  <2>2. QED
    BY <1>3, <2>1, Zenon
<1>5. \A i \in 1..Len(names) : names[i] \in Telling(ent)
  BY <1>1, VendorNamesAre
<1>6. \A n \in Telling(ent) : IsSequence(BreachesOf[Normal[n]])
  BY LookupsAssumption DEF LookupsAssumption, Telling
<1>7. QED
  BY <1>1, <1>4, <1>5, <1>6, Zenon

\* The rows of one name's page are added: each report that is not there yet, once,
\* and every entry without one.
LEMMA PageListed ==
  ASSUME ent \in Entities, keys = FirstOf(VendorNames(ent), MaxNames),
         NEW n \in 0..(Len(keys) - 1), ListedFor(keys, n, rows)
  PROVE  ListedFor(keys, n + 1, Listed(BreachesOf[Normal[keys[n + 1]]], keys[n + 1]))
<1>1. Len(keys) \in Nat /\ n \in Nat /\ n + 1 \in 1..Len(keys)
  BY CAAGKeys, LenProperties
<1>2. PICK key, B : key = keys[n + 1] /\ B = ToSet(BreachesOf[Normal[keys[n + 1]]])
  OBVIOUS
<1>2a. PICK bs \in Seq(B) : bs = BreachesOf[Normal[key]]
  BY <1>1, <1>2, CAAGKeys DEF IsSequence
<1>3. PICK m, c : m = Len(rows) /\ c = Len(bs)
  OBVIOUS
<1>4. /\ rows \in Seq(ToSet(rows)) /\ m \in Nat /\ DOMAIN rows = 1..m
      /\ c \in Nat /\ DOMAIN bs = 1..c
  <2>1. rows \in Seq(ToSet(rows))
    BY DEF ListedFor, IsSequence
  <2>2. QED
    BY <1>3, <2>1, LenProperties
<1>5. PICK I \in SUBSET (1..c) :
        I = {i \in 1..c : \/ bs[i].url = Blank
                          \/ /\ \A k \in 1..m : rows[k].url # bs[i].url
                             /\ \A j \in 1..(i - 1) : bs[j].url # bs[i].url}
  OBVIOUS
<1>5a. I = Unlisted(bs)
  BY <1>4, <1>5, Zenon DEF Unlisted
<1>5b. \A i \in 1..c : i \in I <=>
         \/ bs[i].url = Blank
         \/ /\ \A k \in 1..m : rows[k].url # bs[i].url
            /\ \A j \in 1..(i - 1) : bs[j].url # bs[i].url
  BY <1>5
<1>6. PICK new \in Seq(B) : new = Subsequence(bs, I) /\ IsPicked(new, bs, I)
  BY <1>3, SubsequenceProperties
<1>7. PICK l \in Nat : l = Len(new) /\ DOMAIN new = 1..l
  BY <1>6, LenProperties
<1>8. PICK at \in [1..l -> I] :
        /\ \A i \in I : \E k \in 1..l : at[k] = i
        /\ \A j, k \in 1..l : j < k => at[j] < at[k]
        /\ \A k \in 1..l : new[k] = bs[at[k]]
  <2>1. PICK at \in [1..Len(new) -> I] :
          /\ \A j, k \in 1..Len(new) : j < k => at[j] < at[k]
          /\ \A i \in I : \E k \in 1..Len(new) : at[k] = i
          /\ \A k \in 1..Len(new) : new[k] = bs[at[k]]
    BY <1>6, Zenon DEF IsPicked
  <2>2. QED
    BY <1>7, <2>1
<1>8a. PICK added :
         added = [k \in DOMAIN new |->
                    [org |-> new[k].org, url |-> new[k].url, searchedAs |-> key]]
  OBVIOUS
<1>9. \A k \in 1..l : /\ added[k].org = bs[at[k]].org /\ added[k].url = bs[at[k]].url
                      /\ added[k].searchedAs = key
                      /\ at[k] \in 1..c /\ at[k] \in I
  <2>1. \A k \in 1..l : added[k] = [org |-> new[k].org, url |-> new[k].url, searchedAs |-> key]
    BY <1>7, <1>8a
  <2>2. ASSUME NEW k \in 1..l
        PROVE  /\ added[k].org = new[k].org /\ added[k].url = new[k].url
               /\ added[k].searchedAs = key
    <3>1. added[k] = [org |-> new[k].org, url |-> new[k].url, searchedAs |-> key]
      BY <2>1
    <3>2. QED
      BY <3>1
  <2>3. \A k \in 1..l : new[k] = bs[at[k]] /\ at[k] \in I /\ at[k] \in 1..c
    BY <1>8
  <2>4. QED
    BY <2>2, <2>3, Zenon
<1>10. PICK T : T = ToSet(rows) \cup {added[k] : k \in 1..l}
  OBVIOUS
<1>11. rows \in Seq(T) /\ added \in Seq(T) /\ Len(added) = l
  <2>1. \A i \in 1..m : rows[i] \in T
    BY <1>3, <1>4, <1>10, ElementOfSeq
  <2>2. rows = [i \in 1..m |-> rows[i]]
    BY <1>3, <1>4
  <2>3. rows \in Seq(T)
    <3>1. m \in Nat /\ [i \in 1..m |-> rows[i]] \in Seq(T)
      BY <1>4, <2>1
    <3>2. QED
      BY <2>2, <3>1, Zenon
  <2>4. added = [k \in 1..l |-> added[k]]
    BY <1>7, <1>8a
  <2>5. \A k \in 1..l : added[k] \in T
    BY <1>10
  <2>6. added \in Seq(T) /\ Len(added) = l
    BY <1>7, <2>4, <2>5
  <2>7. QED
    BY <2>3, <2>6
<1>12. PICK all \in Seq(T) : all = rows \o added
  BY <1>11, JoinPlaces
<1>13. /\ \A i \in 1..m : i \in 1..Len(all) /\ all[i] = rows[i]
       /\ \A j \in 1..l : m + j \in 1..Len(all) /\ all[m + j] = added[j]
       /\ \A k \in 1..Len(all) : k \in 1..m \/ \E j \in 1..l : k = m + j
  <2>1. /\ \A i \in 1..Len(rows) : i \in 1..Len(all) /\ all[i] = rows[i]
        /\ \A j \in 1..Len(added) :
             Len(rows) + j \in 1..Len(all) /\ all[Len(rows) + j] = added[j]
        /\ \A k \in 1..Len(all) :
             k \in 1..Len(rows) \/ \E j \in 1..Len(added) : k = Len(rows) + j
    <3>0. rows \in Seq(T) /\ added \in Seq(T)
      BY <1>11
    <3>1. /\ \A i \in 1..Len(rows) :
               i \in 1..Len(rows \o added) /\ (rows \o added)[i] = rows[i]
          /\ \A j \in 1..Len(added) :
               /\ Len(rows) + j \in 1..Len(rows \o added)
               /\ (rows \o added)[Len(rows) + j] = added[j]
          /\ \A k \in 1..Len(rows \o added) :
               k \in 1..Len(rows) \/ \E j \in 1..Len(added) : k = Len(rows) + j
      BY <3>0, JoinPlaces
    <3>2. QED
      BY <1>12, <3>1, Zenon
  <2>2. Len(rows) = m /\ Len(added) = l
    BY <1>3, <1>11
  <2>3. QED
    BY <2>1, <2>2
<1>14. DOMAIN all = 1..Len(all) /\ Len(all) \in Nat
  BY <1>12, LenProperties
<1>15. IsSequence(all)
  BY <1>12, SeqOfItsOwn DEF IsSequence
<1>16. ASSUME NEW j \in 1..l, NEW k \in 1..m, rows[k].url = added[j].url
       PROVE  rows[k].url = Blank
  <2>1. added[j].url = bs[at[j]].url /\ at[j] \in 1..c /\ at[j] \in I
    BY <1>9, Zenon
  <2>2. bs[at[j]].url = Blank
    BY <1>5b, <1>16, <2>1
  <2>3. QED
    BY <1>16, <2>1, <2>2
<1>17. ASSUME NEW j \in 1..l, NEW k \in 1..l, j < k, added[j].url = added[k].url
       PROVE  added[k].url = Blank
  <2>1. at[j] \in 1..c /\ at[k] \in 1..c /\ at[k] \in I
    BY <1>9, Zenon
  <2>2. at[j] < at[k]
    BY <1>8, <1>17
  <2>3. at[j] \in 1..(at[k] - 1)
    BY <1>4, <2>1, <2>2
  <2>4. added[j].url = bs[at[j]].url /\ added[k].url = bs[at[k]].url
    BY <1>9, Zenon
  <2>5. QED
    BY <1>5b, <1>17, <2>1, <2>3, <2>4
<1>18. ASSUME NEW i \in DOMAIN all, NEW j \in DOMAIN all, i # j, all[i].url = all[j].url
       PROVE  all[i].url = Blank
  <2>1. /\ i \in 1..m \/ \E k \in 1..l : i = m + k
        /\ j \in 1..m \/ \E k \in 1..l : j = m + k
    BY <1>13, <1>14
  <2>2. CASE i \in 1..m /\ j \in 1..m
    <3>1. \A a, b \in 1..m : a # b /\ rows[a].url = rows[b].url => rows[a].url = Blank
      BY <1>4 DEF ListedFor
    <3>2. all[i] = rows[i] /\ all[j] = rows[j]
      BY <1>13, <2>2, Zenon
    <3>3. QED
      BY <1>18, <2>2, <3>1, <3>2
  <2>3. ASSUME NEW k \in 1..l, i = m + k, j \in 1..m
        PROVE  all[i].url = Blank
    <3>1. all[i] = added[k] /\ all[j] = rows[j]
      BY <1>13, <2>3, Zenon
    <3>2. QED
      BY <1>16, <1>18, <2>3, <3>1
  <2>4. ASSUME NEW k \in 1..l, j = m + k, i \in 1..m
        PROVE  all[i].url = Blank
    <3>1. all[j] = added[k] /\ all[i] = rows[i]
      BY <1>13, <2>4, Zenon
    <3>2. QED
      BY <1>16, <1>18, <2>4, <3>1
  <2>5. ASSUME NEW a \in 1..l, NEW b \in 1..l, i = m + a, j = m + b
        PROVE  all[i].url = Blank
    <3>1. all[i] = added[a] /\ all[j] = added[b]
      BY <1>13, <2>5, Zenon
    <3>2. a < b \/ b < a
      BY <1>4, <1>7, <1>18, <2>5
    <3>3. QED
      BY <1>17, <1>18, <3>1, <3>2
  <2>6. QED
    BY <2>1, <2>2, <2>3, <2>4, <2>5
<1>19. ASSUME NEW i \in 1..(n + 1), NEW b \in ToSet(BreachesOf[Normal[keys[i]]])
       PROVE  \E k \in DOMAIN all :
                IF b.url = Blank THEN all[k].org = b.org /\ all[k].searchedAs = keys[i]
                                 ELSE all[k].url = b.url
  <2>1. CASE i \in 1..n
    <3>1. PICK k \in 1..m :
            IF b.url = Blank THEN rows[k].org = b.org /\ rows[k].searchedAs = keys[i]
                             ELSE rows[k].url = b.url
      BY <1>4, <2>1 DEF ListedFor
    <3>2. k \in DOMAIN all /\ all[k] = rows[k]
      BY <1>13, <1>14
    <3>3. QED
      BY <3>1, <3>2
  <2>2. CASE i = n + 1
    <3>1. PICK x \in 1..c : bs[x] = b
      <4>1. b \in ToSet(bs)
        BY <1>2, <1>2a, <2>2, Zenon
      <4>2. ToSet(bs) = {bs[x] : x \in 1..c}
        BY <1>3, ToSetSeq
      <4>3. QED
        BY <4>1, <4>2
    <3>2. ASSUME NEW y \in I, bs[y].url = b.url, b.url = Blank => y = x
          PROVE  \E k \in DOMAIN all :
                   IF b.url = Blank THEN all[k].org = b.org /\ all[k].searchedAs = keys[i]
                                    ELSE all[k].url = b.url
      <4>1. PICK k \in 1..l : at[k] = y
        BY <1>8
      <4>2. m + k \in DOMAIN all /\ all[m + k] = added[k]
        BY <1>13, <1>14
      <4>3. added[k].org = bs[y].org /\ added[k].url = bs[y].url /\ added[k].searchedAs = key
        BY <1>9, <4>1, Zenon
      <4>4. b.url = Blank => bs[y].org = b.org
        BY <3>1, <3>2, Zenon
      <4>5. keys[i] = key
        BY <1>2, <2>2, Zenon
      <4>6. IF b.url = Blank THEN all[m + k].org = b.org /\ all[m + k].searchedAs = keys[i]
                             ELSE all[m + k].url = b.url
        BY <3>2, <4>2, <4>3, <4>4, <4>5
      <4>7. QED
        BY <4>2, <4>6
    <3>3. CASE b.url = Blank
      <4>1. x \in I /\ bs[x].url = b.url
        BY <1>5b, <3>1, <3>3
      <4>2. QED
        BY <3>2, <4>1
    <3>4. CASE b.url # Blank /\ \E k \in 1..m : rows[k].url = b.url
      BY <1>13, <1>14, <3>4
    <3>5. CASE b.url # Blank /\ \A k \in 1..m : rows[k].url # b.url
      <4>1. PICK J \in SUBSET (1..c) : J = {y \in 1..c : bs[y].url = b.url}
        OBVIOUS
      <4>2. x \in J
        BY <3>1, <4>1
      <4>3. PICK y \in J : \A z \in J : y <= z
        BY <1>4, <4>2, FirstPosition
      <4>4. y \in 1..c /\ bs[y].url = b.url
        BY <4>1
      <4>5. \A j \in 1..(y - 1) : bs[j].url # bs[y].url
        <5>1. SUFFICES ASSUME NEW j \in 1..(y - 1), bs[j].url = bs[y].url PROVE FALSE
          OBVIOUS
        <5>2. j \in 1..c /\ j < y
          BY <1>4, <4>4
        <5>3. QED
          BY <4>1, <4>3, <4>4, <5>1, <5>2
      <4>6. y \in I
        BY <1>5b, <3>5, <4>4, <4>5
      <4>7. QED
        BY <3>2, <3>5, <4>4, <4>6
    <3>6. QED
      BY <3>3, <3>4, <3>5
  <2>3. QED
    BY <1>1, <2>1, <2>2
<1>20. ListedFor(keys, n + 1, all)
  BY <1>15, <1>18, <1>19, Zenon DEF ListedFor
<1>21. all = Listed(BreachesOf[Normal[keys[n + 1]]], keys[n + 1])
  BY <1>2, <1>2a, <1>5a, <1>6, <1>8a, <1>12, Zenon DEF Listed
<1>22. QED
  BY <1>20, <1>21, Zenon

-----------------------------------------------------------------------------
(* FedRAMP.                                                                   *)

\* The least of some positions.
LEMMA MinOfPositions ==
  ASSUME NEW n \in Nat, NEW I \in SUBSET (1..n), I # {}
  PROVE  Min(I) \in I /\ \A j \in I : Min(I) <= j
<1>1. \E i \in I : \A j \in I : i <= j
  BY FirstPosition
<1>2. QED
  BY <1>1 DEF Min

\* The offerings matched are the listing's that are the vendor's, told as they match.
LEMMA MatchedAreTheVendors ==
  ASSUME ent \in Entities, VendorNames(ent) # <<>>, reply.listing \in Listings,
         rows = Matched(VendorNames(ent), Records(reply.listing))
  PROVE  OfferingsAreTheVendors
<1>1. PICK L, first : /\ L = ToSet(reply.listing)
                      /\ first = Normal[Among(ent.names, Telling(ent))[1]]
  OBVIOUS
<1>2. PICK R : R = {r \in L : r.csp # Blank /\ r.cso # Blank}
  OBVIOUS
<1>3. PICK listing \in Seq(L) : listing = reply.listing
  BY <1>1, LookupsAssumption DEF LookupsAssumption, IsSequence
<1>4. PICK records \in Seq(L) : records = Records(listing) /\ ToSet(records) = R
  <2>1. Records(listing) = Among(listing, R)
    BY <1>1, <1>2, <1>3, Zenon DEF Records
  <2>2. /\ Among(listing, R) \in Seq(L)
        /\ ToSet(Among(listing, R)) = ToSet(listing) \cap R
    BY AmongProperties
  <2>3. ToSet(listing) \cap R = R
    BY <1>1, <1>2, <1>3
  <2>4. QED
    BY <2>1, <2>2, <2>3, Zenon
<1>5. PICK names \in Seq(DOMAIN Normal) : names = VendorNames(ent)
  BY VendorNamesAre
<1>6. PICK m \in Nat : m = Len(names) /\ DOMAIN names = 1..m
  BY <1>5, LenProperties
<1>7. /\ \A i \in 1..m : names[i] \in Telling(ent)
      /\ \A i, j \in 1..m : Normal[names[i]] = Normal[names[j]] => i = j
      /\ \A n \in Telling(ent) : \E i \in 1..m : Normal[names[i]] = Normal[n]
      /\ names # <<>> => names[1] = Among(ent.names, Telling(ent))[1]
      /\ names # <<>> /\ Normal[ent.names[1]] # Blank => names[1] = ent.names[1]
  <2>1. /\ \A i \in 1..Len(names) : names[i] \in Telling(ent)
        /\ \A i, j \in 1..Len(names) : Normal[names[i]] = Normal[names[j]] => i = j
        /\ \A n \in Telling(ent) : \E i \in 1..Len(names) : Normal[names[i]] = Normal[n]
        /\ names # <<>> => names[1] = Among(ent.names, Telling(ent))[1]
        /\ names # <<>> /\ Normal[ent.names[1]] # Blank => names[1] = ent.names[1]
    <3>1. \A i \in 1..Len(names) : names[i] \in Telling(ent)
      BY <1>5, VendorNamesAre
    <3>2. \A i, j \in 1..Len(names) : Normal[names[i]] = Normal[names[j]] => i = j
      BY <1>5, VendorNamesAre
    <3>3. \A n \in Telling(ent) : \E i \in 1..Len(names) : Normal[names[i]] = Normal[n]
      BY <1>5, VendorNamesAre
    <3>4. names # <<>> => names[1] = Among(ent.names, Telling(ent))[1]
      BY <1>5, VendorNamesAre
    <3>5. names # <<>> /\ Normal[ent.names[1]] # Blank => names[1] = ent.names[1]
      BY <1>5, VendorNamesAre
    <3>6. QED
      BY <3>1, <3>2, <3>3, <3>4, <3>5
  <2>2. QED
    BY <1>6, <2>1
<1>8. /\ 1 \in 1..m /\ Normal[names[1]] = first /\ first # Blank
      /\ Normal[ent.names[1]] # Blank => first = Normal[ent.names[1]]
  <2>1. names # <<>> /\ m # 0
    BY <1>5, <1>6, EmptySeq
  <2>2. 1 \in 1..m
    BY <1>6, <2>1
  <2>3. QED
    BY <1>1, <1>7, <2>1, <2>2 DEF Telling
<1> DEFINE Matches(r) == {i \in DOMAIN names : Normal[names[i]] = Normal[r.csp]}
<1>9. PICK M : M = {r \in R : Matches(r) # {}}
  OBVIOUS
<1>10. PICK matching \in Seq(L) :
         /\ matching = Among(records, {r \in ToSet(records) : Matches(r) # {}})
         /\ ToSet(matching) = M
  <2>1. {r \in ToSet(records) : Matches(r) # {}} = M
    BY <1>4, <1>9, Zenon
  <2>2. /\ Among(records, M) \in Seq(L)
        /\ ToSet(Among(records, M)) = ToSet(records) \cap M
    BY AmongProperties
  <2>3. ToSet(records) \cap M = M
    BY <1>4, <1>9
  <2>4. QED
    BY <2>1, <2>2, <2>3, Zenon
<1>11. PICK l \in Nat : l = Len(matching) /\ DOMAIN matching = 1..l
  BY LenProperties
<1>12. rows = [k \in 1..l |->
                 [record |-> matching[k],
                  alias |-> IF Min(Matches(matching[k])) = 1
                              THEN Blank
                              ELSE names[Min(Matches(matching[k]))]]]
  <2>1. rows = Matched(names, records)
    BY <1>3, <1>4, <1>5, Zenon
  <2>2. Matched(names, records) = [k \in DOMAIN matching |->
                              [record |-> matching[k],
                               alias |-> IF Min(Matches(matching[k])) = 1
                                           THEN Blank
                                           ELSE names[Min(Matches(matching[k]))]]]
    BY <1>10 DEF Matched
  <2>3. QED
    BY <1>11, <2>1, <2>2, Zenon
<1>13. ASSUME NEW r
       PROVE  /\ \A i \in Matches(r) : i \in 1..m /\ Normal[names[i]] = Normal[r.csp]
              /\ Matches(r) \in SUBSET (1..m)
              /\ Matches(r) # {} <=> \E n \in Telling(ent) : Normal[r.csp] = Normal[n]
              /\ Normal[r.csp] = first => 1 \in Matches(r)
  <2>1. \A i : i \in Matches(r) <=> i \in 1..m /\ Normal[names[i]] = Normal[r.csp]
    BY <1>6
  <2> HIDE DEF Matches
  <2>2. Matches(r) \in SUBSET (1..m)
    BY <2>1
  <2>3. ASSUME Matches(r) # {}
        PROVE  \E n \in Telling(ent) : Normal[r.csp] = Normal[n]
    <3>1. PICK i \in 1..m : Normal[names[i]] = Normal[r.csp]
      BY <2>1, <2>3
    <3>2. QED
      BY <1>7, <3>1
  <2>4. ASSUME NEW n \in Telling(ent), Normal[r.csp] = Normal[n]
        PROVE  Matches(r) # {}
    <3>1. PICK i \in 1..m : Normal[names[i]] = Normal[n]
      BY <1>7
    <3>2. QED
      BY <2>1, <2>4, <3>1
  <2>5. Normal[r.csp] = first => 1 \in Matches(r)
    BY <1>8, <2>1
  <2>6. QED
    BY <2>1, <2>2, <2>3, <2>4, <2>5
<1> HIDE DEF Matches
<1>14. ASSUME NEW k \in 1..l
       PROVE  /\ rows[k].record = matching[k] /\ matching[k] \in M
              /\ IF Normal[rows[k].record.csp] = first
                   THEN rows[k].alias = Blank
                   ELSE /\ rows[k].alias \in Telling(ent)
                        /\ Normal[rows[k].alias] = Normal[rows[k].record.csp]
  <2>1. matching[k] \in M
    <3>1. ToSet(matching) = {matching[i] : i \in 1..l}
      BY <1>11, ToSetSeq
    <3>2. QED
      BY <1>10, <3>1
  <2>2. PICK r, i : r = matching[k] /\ i = Min(Matches(r))
    OBVIOUS
  <2>3. /\ i \in Matches(r) /\ \A j \in Matches(r) : i <= j
    <3>1. Matches(r) # {} /\ Matches(r) \in SUBSET (1..m)
      BY <1>9, <1>13, <2>1, <2>2
    <3>2. QED
      BY <2>2, <3>1, MinOfPositions
  <2>4. rows[k].record = r /\ rows[k].alias = IF i = 1 THEN Blank ELSE names[i]
    BY <1>12, <2>2
  <2>5. i \in 1..m /\ Normal[names[i]] = Normal[r.csp] /\ names[i] \in Telling(ent)
    BY <1>7, <1>13, <2>3
  <2>6. CASE Normal[r.csp] = first
    <3>1. i = 1
      BY <1>13, <2>3, <2>5, <2>6
    <3>2. QED
      BY <2>1, <2>2, <2>4, <2>6, <3>1
  <2>7. CASE Normal[r.csp] # first
    <3>1. i # 1
      BY <1>8, <2>5, <2>7
    <3>2. QED
      BY <2>1, <2>2, <2>4, <2>5, <2>7, <3>1
  <2>8. QED
    BY <2>6, <2>7
<1>15. DOMAIN rows = 1..l
  BY <1>12
<1>16. {rows[i].record : i \in DOMAIN rows}
          = {r \in R : \E n \in Telling(ent) : Normal[r.csp] = Normal[n]}
  <2>1. {rows[i].record : i \in 1..l} = {matching[i] : i \in 1..l}
    <3>1. \A i \in 1..l : rows[i].record = matching[i]
      BY <1>14
    <3>2. QED
      BY <3>1
  <2>2. {matching[i] : i \in 1..l} = M
    <3>1. ToSet(matching) = {matching[i] : i \in 1..l}
      BY <1>11, ToSetSeq
    <3>2. QED
      BY <1>10, <3>1, Zenon
  <2>3. M = {r \in R : \E n \in Telling(ent) : Normal[r.csp] = Normal[n]}
    BY <1>9, <1>13
  <2>4. QED
    BY <1>15, <2>1, <2>2, <2>3, Zenon
<1>17. \A i \in DOMAIN rows :
         IF Normal[rows[i].record.csp] = first
           THEN rows[i].alias = Blank
           ELSE /\ rows[i].alias \in Telling(ent)
                /\ Normal[rows[i].alias] = Normal[rows[i].record.csp]
  BY <1>14, <1>15, Zenon
<1>18. PICK canonical : canonical = Normal[ent.names[1]]
  OBVIOUS
<1>19. ASSUME NEW i \in DOMAIN rows, NEW csp, csp = Normal[rows[i].record.csp]
       PROVE  \/ rows[i].alias = Blank /\ csp = canonical
              \/ rows[i].alias = Blank /\ canonical = Blank /\ csp = first
              \/ /\ rows[i].alias \in Telling(ent)
                 /\ Normal[rows[i].alias] = csp /\ csp # canonical
  <2>1. CASE csp = first
    <3>1. rows[i].alias = Blank
      BY <1>17, <1>19, <2>1, Zenon
    <3>2. canonical = Blank \/ csp = canonical
      BY <1>8, <1>18, <2>1
    <3>3. QED
      BY <2>1, <3>1, <3>2
  <2>2. CASE csp # first
    <3>1. rows[i].alias \in Telling(ent) /\ Normal[rows[i].alias] = csp
      BY <1>17, <1>19, <2>2, Zenon
    <3>2. csp # Blank
      BY <3>1 DEF Telling
    <3>3. csp # canonical
      BY <1>8, <1>18, <2>2, <3>2
    <3>4. QED
      BY <3>1, <3>3
  <2>3. QED
    BY <2>1, <2>2
<1>20. \A i \in DOMAIN rows :
         LET csp == Normal[rows[i].record.csp]
         IN  \/ rows[i].alias = Blank /\ csp = canonical
             \/ rows[i].alias = Blank /\ canonical = Blank /\ csp = first
             \/ rows[i].alias \in Telling(ent) /\ Normal[rows[i].alias] = csp /\ csp # canonical
  BY <1>19, ZenonT(30)
<1>21. /\ R = {r \in ToSet(reply.listing) : r.csp # Blank /\ r.cso # Blank}
       /\ canonical = Normal[ent.names[1]]
       /\ first = Normal[Among(ent.names, Telling(ent))[1]]
  BY <1>1, <1>2, <1>18, Zenon
<1>22. QED
  BY <1>16, <1>20, <1>21, Zenon DEF OfferingsAreTheVendors, Telling

-----------------------------------------------------------------------------
(* BitSight.                                                                  *)

\* The company chosen is at the domain if any is, and the others are named.
LEMMA SelectedIsTheCompanys ==
  ASSUME NEW found \in Companies, found # <<>>, NEW domain
  PROVE  /\ (\E c \in ToSet(found) : c.domain = domain) => Selected(found, domain).domain = domain
         /\ {c.guid : c \in ToSet(found)}
              = {Selected(found, domain).guid} \cup Selected(found, domain).others
         /\ Selected(found, domain).guid # Blank
<1>1. PICK F, D : F = ToSet(found) /\ D = {c \in ToSet(found) : c.domain = domain}
  OBVIOUS
<1>2. found \in Seq(F) /\ \A c \in F : c.guid # Blank
  BY <1>1, LookupsAssumption DEF LookupsAssumption, IsSequence
<1>3. PICK l \in Nat : l = Len(found) /\ DOMAIN found = 1..l
  BY <1>2, LenProperties
<1>4. F = {found[i] : i \in 1..l}
  BY <1>1, <1>2, <1>3, ToSetSeq
<1>5. PICK exact \in Seq(F) : exact = Among(found, D) /\ ToSet(exact) = F \cap D
  BY <1>1, <1>2, AmongProperties
<1>6. exact # <<>> => exact[1] \in F \cap D
  <2>1. exact # <<>> => 1 \in 1..Len(exact)
    BY EmptySeq, LenProperties
  <2>2. ToSet(exact) = {exact[i] : i \in 1..Len(exact)}
    BY ToSetSeq
  <2>3. QED
    BY <1>5, <2>1, <2>2
<1>7. exact = <<>> => D = {}
  <2>1. exact = <<>> => ToSet(exact) = {}
    BY DEF ToSet
  <2>2. D \subseteq F
    BY <1>1
  <2>3. QED
    BY <1>5, <2>1, <2>2
<1>8. found[1] \in F
  <2>1. l # 0
    BY <1>2, <1>3, EmptySeq
  <2>2. QED
    BY <1>3, <1>4, <2>1
<1>9. PICK chosen : chosen = IF exact = <<>> THEN found[1] ELSE exact[1]
  OBVIOUS
<1>10. chosen \in F /\ (D # {} => chosen \in D)
  BY <1>6, <1>7, <1>8, <1>9
<1>11. Selected(found, domain)
         = [guid |-> chosen.guid, domain |-> chosen.domain,
            others |-> {found[i].guid : i \in DOMAIN found} \ {chosen.guid}]
  BY <1>1, <1>5, <1>9, Zenon DEF Selected
<1>12. {found[i].guid : i \in DOMAIN found} = {c.guid : c \in F}
  BY <1>3, <1>4
<1>13. /\ Selected(found, domain).guid = chosen.guid
       /\ Selected(found, domain).domain = chosen.domain
       /\ Selected(found, domain).others = {c.guid : c \in F} \ {chosen.guid}
  <2>1. PICK others : others = {c.guid : c \in F} \ {chosen.guid}
    OBVIOUS
  <2>2. Selected(found, domain)
          = [guid |-> chosen.guid, domain |-> chosen.domain, others |-> others]
    BY <1>11, <1>12, <2>1, Zenon
  <2>3. QED
    BY <2>1, <2>2
<1>14. (\E c \in ToSet(found) : c.domain = domain) => Selected(found, domain).domain = domain
  BY <1>1, <1>10, <1>13
<1>15. {c.guid : c \in ToSet(found)}
         = {Selected(found, domain).guid} \cup Selected(found, domain).others
  BY <1>1, <1>10, <1>13
<1>16. QED
  BY <1>2, <1>10, <1>13, <1>14, <1>15

\* A series has a newest entry.
LEMMA LatestIsNewest ==
  ASSUME NEW detail \in Ratings, detail.series # <<>>
  PROVE  /\ Latest(detail.series) \in ToSet(detail.series)
         /\ \A e \in ToSet(detail.series) : e.date <= Latest(detail.series).date
<1>1. PICK E : E = ToSet(detail.series)
  OBVIOUS
<1>2. PICK s \in Seq(E) : s = detail.series /\ \A e \in E : e.date \in Int
  <2>1. detail.series \in Seq([date : Int, rating : Int])
    BY LookupsAssumption DEF LookupsAssumption
  <2>2. detail.series \in Seq(E) /\ E \subseteq [date : Int, rating : Int]
    BY <1>1, <2>1, SeqOfItsOwn, ToSetSeq
  <2>3. QED
    BY <2>2
<1>3. PICK n \in Nat : n = Len(s) /\ DOMAIN s = 1..n
  BY LenProperties
<1>4. 1 \in 1..n /\ \A i \in 1..n : s[i] \in E /\ s[i].date \in Int
  <2>1. n # 0
    BY <1>2, <1>3, EmptySeq
  <2>2. \A i \in 1..n : s[i] \in E
    BY <1>3, ElementOfSeq
  <2>3. QED
    BY <1>2, <2>1, <2>2
<1> DEFINE Newer(i, j) == s[i].date > s[j].date \/ (s[i].date = s[j].date /\ i <= j)
<1>5. PICK R : R = {p \in (1..n) \X (1..n) : p[1] # p[2] /\ Newer(p[1], p[2])}
  OBVIOUS
<1>6. \A i, j \in 1..n : <<i, j>> \in R <=> i # j /\ Newer(i, j)
  BY <1>5
<1>7. IsStrictOrder(R, 1..n)
  <2>1. \A i, j, k \in 1..n : i # j /\ Newer(i, j) /\ j # k /\ Newer(j, k) => i # k /\ Newer(i, k)
    BY <1>4
  <2>2. \A i, j \in 1..n : i = j \/ Newer(i, j) \/ Newer(j, i)
    BY <1>4
  <2> HIDE DEF Newer
  <2>3. QED
    BY <1>6, <2>1, <2>2 DEF IsStrictOrder
<1>8. IsFiniteSet(1..n) /\ Cardinality(1..n) = n
  <2>1. n \in Int /\ 1 \in Int /\ n \in Nat
    OBVIOUS
  <2>2. Cardinality(1..n) = IF 1 > n THEN 0 ELSE n - 1 + 1
    BY <2>1, FS_Interval
  <2>3. IsFiniteSet(1..n)
    BY <2>1, FS_Interval
  <2>4. QED
    BY <2>1, <2>2, <2>3
<1> HIDE DEF Newer
<1>9. PICK i \in 1..n : Cardinality(Below(i, 1..n, R)) = 1 - 1
  BY <1>4, <1>7, <1>8, EveryRankIsTaken
<1>10. \A j \in 1..n : <<j, i>> \notin R
  <2>1. IsFiniteSet(Below(i, 1..n, R))
    BY <1>7, <1>8, RankIncreases
  <2>2. Below(i, 1..n, R) = {}
    BY <1>9, <2>1, FS_EmptySet
  <2>3. QED
    BY <2>2 DEF Below
<1>11. \A j \in 1..n : Newer(i, j)
  <2>1. \A j \in 1..n : i # j => <<i, j>> \in R
    BY <1>7, <1>10 DEF IsStrictOrder
  <2>2. Newer(i, i)
    BY <1>4 DEF Newer
  <2>3. QED
    BY <1>6, <2>1, <2>2
<1>12. PICK k : k = CHOOSE x \in DOMAIN s : \A j \in DOMAIN s : Newer(x, j)
  OBVIOUS
<1>13. k \in 1..n /\ \A j \in 1..n : Newer(k, j)
  BY <1>3, <1>11, <1>12
<1>14. Latest(s) = s[k]
  BY <1>12 DEF Latest, Newer
<1>15. \A j \in 1..n : s[j].date <= s[k].date
  BY <1>4, <1>13 DEF Newer
<1>16. E = {s[j] : j \in 1..n}
  <2>1. ToSet(s) = {s[j] : j \in 1..n}
    BY <1>3, ToSetSeq
  <2>2. QED
    BY <1>1, <1>2, <2>1, Zenon
<1>17. QED
  BY <1>1, <1>2, <1>4, <1>13, <1>14, <1>15, <1>16

-----------------------------------------------------------------------------
(* The invariant.                                                             *)

\* A fetch starts out with no more lookups than there may be of them.
LEMMA KeysType ==
  ASSUME NEW e \in Entities
  PROVE  /\ \A src \in Sources : IsSequence(KeysOf(src, e))
         /\ IsSequence(FirstDomain(e)) /\ Len(FirstDomain(e)) \in {0, 1}
         /\ IsSequence(VendorNames(e)) /\ IsSequence(FirstOf(VendorNames(e), MaxNames))
<1>1. ASSUME NEW T, NEW s \in Seq(T), NEW n \in Nat
      PROVE  /\ IsSequence(FirstOf(s, n))
             /\ Len(FirstOf(s, n)) = IF n <= Len(s) THEN n ELSE Len(s)
  <2>1. /\ SubSeq(s, 1, Min({n, Len(s)})) \in Seq(T)
        /\ Len(SubSeq(s, 1, Min({n, Len(s)}))) = IF n <= Len(s) THEN n ELSE Len(s)
    BY BeginningProperties
  <2>2. SubSeq(s, 1, Min({n, Len(s)})) \in Seq(ToSet(SubSeq(s, 1, Min({n, Len(s)}))))
    BY <2>1, SeqOfItsOwn
  <2>3. QED
    BY <2>1, <2>2, Zenon DEF IsSequence, FirstOf
<1>2. PICK domains \in Seq(ToSet(e.domains)) : domains = e.domains
  BY LookupsAssumption DEF LookupsAssumption, IsSequence
<1>3. PICK among \in Seq(ToSet(e.domains)) :
        among = Among(e.domains, ToSet(e.domains) \ {Blank})
  <2>1. Among(domains, ToSet(e.domains) \ {Blank}) \in Seq(ToSet(e.domains))
    BY AmongProperties
  <2>2. QED
    BY <1>2, <2>1, Zenon
<1>4. IsSequence(FirstDomain(e)) /\ Len(FirstDomain(e)) \in {0, 1}
  <2>1. FirstDomain(e) = FirstOf(among, 1) /\ Len(among) \in Nat
    BY <1>3 DEF FirstDomain
  <2>2. 1 \in Nat
    OBVIOUS
  <2>3. IsSequence(FirstOf(among, 1))
    BY <1>1, <2>2, Zenon
  <2>4. Len(FirstOf(among, 1)) = IF 1 <= Len(among) THEN 1 ELSE Len(among)
    BY <1>1, <2>2, Zenon
  <2>5. QED
    BY <2>1, <2>3, <2>4
<1>5. PICK names \in Seq(DOMAIN Normal) : names = VendorNames(e)
  BY VendorNamesAre
<1>6. IsSequence(VendorNames(e)) /\ IsSequence(FirstOf(VendorNames(e), MaxNames))
  <2>1. MaxNames \in Nat
    BY LookupsAssumption DEF LookupsAssumption
  <2>2. IsSequence(FirstOf(names, MaxNames))
    BY <1>1, <2>1, Zenon
  <2>3. IsSequence(names)
    BY SeqOfItsOwn DEF IsSequence
  <2>4. QED
    BY <1>5, <2>2, <2>3, Zenon
<1>7. IsSequence(e.packages)
  <2>1. e.packages \in Seq(DOMAIN PagesOf)
    BY LookupsAssumption DEF LookupsAssumption
  <2>2. QED
    BY <2>1, SeqOfItsOwn DEF IsSequence
<1>8. IsSequence(<<"the marketplace">>) /\ IsSequence(<<"the entry">>)
  <2>1. \A x : <<x>> \in Seq({x})
    OBVIOUS
  <2>2. QED
    BY <2>1, SeqOfItsOwn DEF IsSequence
<1>9. \A src \in Sources : IsSequence(KeysOf(src, e))
  BY <1>4, <1>6, <1>7, <1>8 DEF Sources, KeysOf
<1>10. QED
  BY <1>4, <1>6, <1>9

\* It starts with nothing behind it.
LEMMA InitInv == Init => Inv
<1>1. SUFFICES ASSUME Init PROVE Inv
  OBVIOUS
<1>2. /\ source \in Sources /\ ent \in Entities /\ keys = KeysOf(source, ent)
      /\ done = 0 /\ page = 1 /\ batch = <<>> /\ queries = <<>> /\ rows = <<>>
      /\ company = NoCompany /\ status = "none"
  BY <1>1 DEF Init
<1>3. IsSequence(keys) /\ Len(keys) \in Nat
  <2>1. IsSequence(keys)
    BY <1>2, KeysType
  <2>2. QED
    BY <2>1 DEF IsSequence
<1>4. MaxPages \in Nat \ {0} /\ MaxNames \in Nat
  BY LookupsAssumption DEF LookupsAssumption
<1>5. TypeOK
  <2>1. source = "caag" => Len(keys) <= MaxNames
    <3>1. ASSUME source = "caag" PROVE Len(keys) <= MaxNames
      <4>1. keys = FirstOf(VendorNames(ent), MaxNames)
        BY <1>2, <3>1 DEF KeysOf
      <4>2. Len(VendorNames(ent)) \in Nat
        BY <1>2, VendorNamesAre, LenProperties
      <4>3. QED
        BY <1>2, <1>4, <4>1, <4>2, CAAGKeys
    <3>2. QED
      BY <3>1
  <2>2. IsSequence(queries) /\ Len(queries) = 0
    BY <1>2 DEF IsSequence
  <2>3. batch \in Seq(DOMAIN Rank)
    BY <1>2
  <2>4. QED
    BY <1>2, <1>3, <1>4, <2>1, <2>2, <2>3 DEF TypeOK
<1>6. OSVInv
  <2>1. SUFFICES ASSUME source = "osv" PROVE OSVInv
    BY DEF OSVInv
  <2>2. keys = ent.packages /\ Len(queries) = 0
    BY <1>2, <2>1 DEF KeysOf
  <2>3. ASSUME 0 < Len(keys)
        PROVE  page <= Len(PagesOf[Key]) /\ batch = FlattenSeq(SubSeq(PagesOf[Key], 1, page - 1))
    <3>1. Key \in DOMAIN PagesOf
      <4>1. ent.packages \in Seq(DOMAIN PagesOf) /\ 1 \in 1..Len(keys)
        BY <1>2, <1>3, <2>3, LookupsAssumption DEF LookupsAssumption
      <4>2. Key = keys[1]
        BY <1>2 DEF Key
      <4>3. QED
        BY <2>2, <4>1, <4>2, ElementOfSeq
    <3>2. Len(PagesOf[Key]) \in Nat \ {0} /\ FlattenSeq(SubSeq(PagesOf[Key], 1, 0)) = <<>>
      BY <3>1, ReadSoFar
    <3>3. page - 1 = 0
      BY <1>2
    <3>4. QED
      BY <1>2, <3>2, <3>3
  <2>4. RowsOn(ent.packages, 0, rows)
    <3>1. rows \in Seq([id : DOMAIN Rank, package : DOMAIN PagesOf]) /\ DOMAIN rows = {}
      BY <1>2
    <3>2. 1..0 = {}
      OBVIOUS
    <3>3. QED
      BY <3>1, <3>2, Zenon DEF RowsOn
  <2>5. \A i \in 1..0 : FALSE
    OBVIOUS
  <2>6. QED
    BY <1>2, <2>2, <2>3, <2>4, <2>5 DEF OSVInv
<1>7. CAAGInv
  <2>1. ListedFor(keys, 0, rows)
    <3>1. IsSequence(rows) /\ DOMAIN rows = {} /\ 1..0 = {}
      BY <1>2 DEF IsSequence
    <3>2. QED
      BY <3>1, Zenon DEF ListedFor
  <2>2. QED
    BY <1>2, <2>1 DEF CAAGInv, KeysOf
<1>8. FedRAMPInv
  <2>1. source = "fedramp" => keys = <<"the marketplace">>
    BY <1>2 DEF KeysOf
  <2>2. Len(<<"the marketplace">>) = 1
    OBVIOUS
  <2>3. source = "fedramp" => Len(keys) = 1
    BY <2>1, <2>2, Zenon
  <2>4. done # 1
    BY <1>2
  <2>5. QED
    BY <2>3, <2>4, Zenon DEF FedRAMPInv
<1>9. BitSightInv
  BY <1>2 DEF BitSightInv, KeysOf
<1>10. OutcomeInv
  BY <1>2 DEF OutcomeInv, KeysOf
<1>11. QED
  BY <1>5, <1>6, <1>7, <1>8, <1>9, <1>10 DEF Inv

\* A response to a request: what the request was about.
LEMMA AskedKey ==
  ASSUME Inv, NEW src, Asking(src)
  PROVE  /\ IsSequence(keys) /\ Len(keys) \in Nat
         /\ done \in Nat /\ done + 1 \in 1..Len(keys) /\ done \in 0..(Len(keys) - 1)
         /\ source = src /\ src \in Sources /\ status = "none"
         /\ ent \in Entities /\ IsSequence(queries) /\ Len(queries) <= done
         /\ batch \in Seq(DOMAIN Rank) /\ page \in 1..MaxPages
         /\ src = "caag" => Len(keys) <= MaxNames
<1>1. Len(keys) \in Nat
  BY DEF Inv, TypeOK, IsSequence
<1>2. QED
  BY <1>1 DEF Inv, TypeOK, Asking

\* A page is one more of its package's, and the last one settles the package.
LEMMA OSVPageInv == Inv /\ OSVPage => Inv'
<1>1. SUFFICES ASSUME Inv, OSVPage PROVE Inv'
  OBVIOUS
<1>2. PICK n \in Nat : /\ n = done /\ n + 1 \in 1..Len(keys) /\ n \in 0..(Len(keys) - 1)
                       /\ source = "osv" /\ status = "none" /\ ent \in Entities
  BY <1>1, AskedKey DEF OSVPage
<1>3. /\ IsSequence(keys) /\ IsSequence(queries) /\ batch \in Seq(DOMAIN Rank)
      /\ page \in 1..MaxPages /\ Len(keys) \in Nat
  BY <1>1, AskedKey DEF OSVPage
<1>4. UNCHANGED <<source, ent, keys, company, reply, status>>
  BY <1>1 DEF OSVPage
<1>5. /\ keys = ent.packages /\ Len(queries) = n
      /\ \A i \in 1..n : queries[i] = QueryOn(ent.packages[i])
      /\ page <= Len(PagesOf[Key])
      /\ batch = FlattenSeq(SubSeq(PagesOf[Key], 1, page - 1))
      /\ RowsOn(ent.packages, n, rows)
  BY <1>1, <1>2, <1>3 DEF Inv, OSVInv
<1>6. PICK p \in DOMAIN PagesOf : p = Key /\ p = ent.packages[n + 1] /\ p = keys[n + 1]
  <2>1. ent.packages \in Seq(DOMAIN PagesOf)
    BY <1>2, LookupsAssumption DEF LookupsAssumption
  <2>2. keys[n + 1] \in DOMAIN PagesOf
    BY <1>2, <1>5, <2>1, ElementOfSeq
  <2>3. QED
    BY <1>2, <1>5, <2>2 DEF Key
<1>7. MaxPages \in Nat \ {0} /\ page \in Nat \ {0}
  BY <1>3, LookupsAssumption DEF LookupsAssumption
<1>8. PICK vulns \in Seq(DOMAIN Rank) :
        /\ vulns = batch \o PagesOf[p][page]
        /\ vulns = FlattenSeq(SubSeq(PagesOf[p], 1, page))
        /\ page = Len(PagesOf[p]) \/ page = MaxPages => vulns = ReadOf(p)
  <2>1. page \in 1..Len(PagesOf[p]) /\ page \in 0..Len(PagesOf[p])
    BY <1>5, <1>6, <1>7, ReadSoFar
  <2>2. /\ FlattenSeq(SubSeq(PagesOf[p], 1, page)) \in Seq(DOMAIN Rank)
        /\ FlattenSeq(SubSeq(PagesOf[p], 1, page))
             = FlattenSeq(SubSeq(PagesOf[p], 1, page - 1)) \o PagesOf[p][page]
    BY <2>1, ReadSoFar
  <2>3. page = Len(PagesOf[p]) \/ page = MaxPages
          => ReadOf(p) = FlattenSeq(SubSeq(PagesOf[p], 1, page))
    <3>1. (page = Len(PagesOf[p]) /\ page <= MaxPages) \/ page = MaxPages
            => ReadOf(p) = FlattenSeq(SubSeq(PagesOf[p], 1, page))
      BY <2>1, ReadSoFar, Zenon
    <3>2. page <= MaxPages
      BY <1>3, <1>7
    <3>3. QED
      BY <3>1, <3>2
  <2>4. batch \o PagesOf[p][page] = FlattenSeq(SubSeq(PagesOf[p], 1, page))
    BY <1>5, <1>6, <2>2, Zenon
  <2>5. QED
    BY <2>2, <2>3, <2>4, Zenon
<1>9. Len(PagesOf[p]) \in Nat /\ page <= Len(PagesOf[p])
  BY <1>5, <1>6, ReadSoFar
<1>10. CASE page < Len(PagesOf[Key]) /\ page < MaxPages
  <2>1. /\ batch' = vulns /\ page' = page + 1
        /\ UNCHANGED <<done, queries, rows>>
    BY <1>1, <1>6, <1>8, <1>10 DEF OSVPage
  <2>2. page' \in 1..MaxPages /\ page' <= Len(PagesOf[p]) /\ page' - 1 = page
    BY <1>6, <1>7, <1>9, <1>10, <2>1
  <2>3. TypeOK'
    BY <1>1, <1>4, <2>1, <2>2 DEF Inv, TypeOK
  <2>4. Key' = p
    BY <1>2, <1>4, <1>6, <2>1 DEF Key
  <2>5. batch' = FlattenSeq(SubSeq(PagesOf[Key'], 1, page' - 1))
    BY <1>8, <2>1, <2>2, <2>4, Zenon
  <2>6. page' <= Len(PagesOf[Key'])
    BY <2>2, <2>4
  <2>7. OSVInv'
    BY <1>2, <1>4, <1>5, <2>1, <2>5, <2>6 DEF OSVInv
  <2>8. CAAGInv' /\ FedRAMPInv' /\ BitSightInv' /\ OutcomeInv'
    BY <1>2, <1>4 DEF CAAGInv, FedRAMPInv, BitSightInv, OutcomeInv
  <2>9. QED
    BY <2>3, <2>7, <2>8 DEF Inv
<1>11. CASE ~(page < Len(PagesOf[Key]) /\ page < MaxPages)
  <2>1. PICK q : q = QueryOn(p)
    OBVIOUS
  <2>2. page = Len(PagesOf[p]) \/ page = MaxPages
    BY <1>3, <1>6, <1>7, <1>9, <1>11
  <2>3. vulns = ReadOf(p)
    BY <1>8, <2>2
  <2>4. Truncated = (Len(PagesOf[p]) > MaxPages)
    <3>1. page = MaxPages /\ page < Len(PagesOf[p]) <=> Len(PagesOf[p]) > MaxPages
      BY <1>3, <1>7, <1>9, <2>2
    <3>2. QED
      BY <1>6, <3>1 DEF Truncated
  <2>5. [package |-> Key, total |-> Len(vulns), truncated |-> Truncated] = q
    BY <1>6, <2>1, <2>3, <2>4, Zenon DEF QueryOn
  <2>6. /\ queries' = Append(queries, q)
        /\ rows' = Merge(vulns, p)
        /\ batch' = <<>> /\ page' = 1 /\ done' = n + 1
    <3>1. /\ queries' = Append(queries, [package |-> Key, total |-> Len(vulns),
                                          truncated |-> Truncated])
          /\ rows' = Merge(vulns, Key)
          /\ batch' = <<>> /\ page' = 1 /\ done' = done + 1
      BY <1>1, <1>6, <1>8, <1>11 DEF OSVPage
    <3>2. QED
      BY <1>2, <1>6, <2>5, <3>1, Zenon
  <2>7. PICK T : T = ToSet(queries) \cup {q}
    OBVIOUS
  <2>8. queries \in Seq(T)
    <3>1. queries \in Seq(ToSet(queries)) /\ ToSet(queries) \subseteq T
      BY <1>3, <2>7 DEF IsSequence
    <3>2. QED
      BY <3>1
  <2>9. /\ queries' \in Seq(T) /\ Len(queries') = n + 1 /\ queries'[n + 1] = q
        /\ \A i \in 1..n : queries'[i] = queries[i]
    <3>1. q \in T
      BY <2>7
    <3>2. QED
      BY <1>2, <1>5, <2>6, <2>8, <3>1
  <2>10. IsSequence(queries')
    BY <2>9, SeqOfItsOwn DEF IsSequence
  <2>11. \A i \in 1..(n + 1) : queries'[i] = QueryOn(ent.packages[i])
    <3>1. \A i \in 1..(n + 1) : i \in 1..n \/ i = n + 1
      BY <1>2
    <3>2. queries'[n + 1] = QueryOn(ent.packages[n + 1])
      BY <1>6, <2>1, <2>9, Zenon
    <3>3. QED
      BY <1>5, <2>9, <3>1, <3>2, Zenon
  <2>12. TypeOK'
    <3>1. batch' \in Seq(DOMAIN Rank) /\ page' \in 1..MaxPages /\ done' \in 0..Len(keys)
      BY <1>2, <1>7, <2>6
    <3>2. Len(queries') <= done'
      BY <1>2, <2>6, <2>9
    <3>3. QED
      BY <1>1, <1>2, <1>4, <2>10, <3>1, <3>2 DEF Inv, TypeOK
  <2>13. RowsOn(ent.packages, n + 1, rows')
    BY <1>2, <1>5, <1>6, <2>3, <2>6, MergeRows
  <2>14. ASSUME n + 1 < Len(keys)
         PROVE  /\ page' <= Len(PagesOf[Key'])
                /\ batch' = FlattenSeq(SubSeq(PagesOf[Key'], 1, page' - 1))
    <3>1. Key' = keys[n + 1 + 1] /\ n + 1 + 1 \in 1..Len(keys)
      BY <1>2, <1>3, <1>4, <2>6, <2>14 DEF Key
    <3>2. Key' \in DOMAIN PagesOf
      <4>1. ent.packages \in Seq(DOMAIN PagesOf)
        BY <1>2, LookupsAssumption DEF LookupsAssumption
      <4>2. QED
        BY <1>5, <3>1, <4>1, ElementOfSeq
    <3>3. /\ Len(PagesOf[Key']) \in Nat \ {0}
          /\ FlattenSeq(SubSeq(PagesOf[Key'], 1, 0)) = <<>>
      BY <3>2, ReadSoFar
    <3>4. page' - 1 = 0
      BY <2>6
    <3>5. QED
      BY <2>6, <3>3, <3>4
  <2>15. OSVInv'
    BY <1>2, <1>4, <1>5, <2>6, <2>9, <2>11, <2>13, <2>14 DEF OSVInv
  <2>16. CAAGInv' /\ FedRAMPInv' /\ BitSightInv' /\ OutcomeInv'
    BY <1>2, <1>4 DEF CAAGInv, FedRAMPInv, BitSightInv, OutcomeInv
  <2>17. QED
    BY <2>12, <2>15, <2>16 DEF Inv
<1>12. QED
  BY <1>10, <1>11

\* A name's page is listed.
LEMMA CAAGPageInv == Inv /\ CAAGPage => Inv'
<1>1. SUFFICES ASSUME Inv, CAAGPage PROVE Inv'
  OBVIOUS
<1>2. PICK n \in Nat : /\ n = done /\ n + 1 \in 1..Len(keys) /\ n \in 0..(Len(keys) - 1)
                       /\ source = "caag" /\ status = "none" /\ ent \in Entities
                       /\ Len(queries) <= n /\ Len(keys) \in Nat
  BY <1>1, AskedKey DEF CAAGPage
<1>3. /\ UNCHANGED <<source, ent, keys, page, batch, queries, company, reply, status>>
      /\ done' = n + 1
      /\ rows' = Listed(BreachesOf[Normal[keys[n + 1]]], keys[n + 1])
  BY <1>1, <1>2 DEF CAAGPage, Key
<1>4. keys = FirstOf(VendorNames(ent), MaxNames) /\ ListedFor(keys, n, rows)
  BY <1>1, <1>2 DEF Inv, CAAGInv
<1>5. ListedFor(keys, n + 1, rows')
  BY <1>2, <1>3, <1>4, PageListed
<1>6. TypeOK'
  <2>1. n + 1 \in 0..Len(keys) /\ Len(queries) <= n + 1
    <3>1. Len(queries) \in Nat
      BY <1>1 DEF Inv, TypeOK, IsSequence
    <3>2. QED
      BY <1>2, <3>1
  <2>2. QED
    BY <1>1, <1>3, <2>1 DEF Inv, TypeOK
<1>7. CAAGInv'
  BY <1>3, <1>4, <1>5 DEF CAAGInv
<1>8. OSVInv' /\ FedRAMPInv' /\ BitSightInv'
  BY <1>2, <1>3 DEF OSVInv, FedRAMPInv, BitSightInv
<1>9. OutcomeInv'
  BY <1>1, <1>2, <1>3 DEF Inv, OutcomeInv
<1>10. QED
  BY <1>6, <1>7, <1>8, <1>9 DEF Inv

\* The listing that came is matched, or the section has failed.
LEMMA FedRAMPListingInv == Inv /\ FedRAMPListing => Inv'
<1>1. SUFFICES ASSUME Inv, FedRAMPListing PROVE Inv'
  OBVIOUS
<1>2. /\ source = "fedramp" /\ status = "none" /\ done \in Nat
      /\ done + 1 \in 1..Len(keys) /\ Len(queries) <= done /\ Len(queries) \in Nat
  <2>1. Len(queries) \in Nat
    BY <1>1 DEF Inv, TypeOK, IsSequence
  <2>2. QED
    BY <1>1, <2>1, AskedKey DEF FedRAMPListing
<1>3. Len(keys) = 1 /\ done = 0
  <2>1. Len(keys) = 1
    BY <1>1, <1>2, Zenon DEF Inv, FedRAMPInv
  <2>2. QED
    BY <1>2, <2>1
<1>4. UNCHANGED <<source, ent, keys, page, batch, queries, company>>
  BY <1>1 DEF FedRAMPListing
<1>5. PICK listing \in Listings :
        /\ reply' = [reply EXCEPT !.listing = listing]
        /\ \/ status' = "failed" /\ UNCHANGED <<rows, done>>
           \/ /\ rows' = Matched(VendorNames(ent), Records(listing))
              /\ done' = done + 1 /\ UNCHANGED status
  BY <1>1 DEF FedRAMPListing
<1>6. done' \in {0, 1} /\ status' \in {"none", "failed"}
  BY <1>2, <1>3, <1>5
<1>7. TypeOK'
  <2>1. Len(queries) <= done' /\ done' \in 0..Len(keys)
    BY <1>2, <1>3, <1>6
  <2>2. QED
    BY <1>1, <1>4, <1>6, <2>1 DEF Inv, TypeOK
<1>8. ASSUME done' = 1
      PROVE  /\ reply'.listing \in Listings
             /\ rows' = Matched(VendorNames(ent'), Records(reply'.listing))
  <2>1. rows' = Matched(VendorNames(ent), Records(listing))
    BY <1>3, <1>5, <1>8
  <2>2. reply'.listing = listing
    BY <1>5
  <2>3. ent' = ent
    BY <1>4
  <2>4. QED
    BY <2>1, <2>2, <2>3, Zenon
<1>9. FedRAMPInv'
  <2>1. Len(keys') = 1
    BY <1>3, <1>4
  <2>2. QED
    BY <1>8, <2>1, Zenon DEF FedRAMPInv
<1>10. OSVInv' /\ CAAGInv' /\ BitSightInv'
  BY <1>2, <1>4 DEF OSVInv, CAAGInv, BitSightInv
<1>11. OutcomeInv'
  BY <1>1, <1>2, <1>4, <1>6 DEF Inv, OutcomeInv
<1>12. QED
  BY <1>7, <1>9, <1>10, <1>11 DEF Inv

\* The search settles the company, if it finds one, and the lookup of its rating.
LEMMA BitSightSearchInv == Inv /\ BitSightSearch => Inv'
<1>1. SUFFICES ASSUME Inv, BitSightSearch PROVE Inv'
  OBVIOUS
<1>2. /\ source = "bitsight" /\ status = "none" /\ done = 0 /\ ent \in Entities
      /\ done + 1 \in 1..Len(keys) /\ Len(queries) <= done /\ IsSequence(keys)
      /\ Len(queries) \in Nat /\ Len(keys) \in Nat
  <2>1. Len(queries) \in Nat
    BY <1>1 DEF Inv, TypeOK, IsSequence
  <2>2. QED
    BY <1>1, <2>1, AskedKey DEF BitSightSearch
<1>3. keys = FirstDomain(ent) /\ company = NoCompany
  BY <1>1, <1>2 DEF Inv, BitSightInv
<1>4. Len(keys) = 1
  <2>1. Len(keys) \in {0, 1}
    BY <1>2, <1>3, KeysType
  <2>2. QED
    BY <1>2, <2>1
<1>5. UNCHANGED <<source, ent, page, batch, queries, rows, status>> /\ done' = 1
  BY <1>1 DEF BitSightSearch
<1>6. PICK found \in Companies :
        /\ reply' = [reply EXCEPT !.found = found]
        /\ IF found = <<>>
             THEN UNCHANGED <<keys, company>>
             ELSE /\ company' = Selected(found, Key)
                  /\ keys' = Append(keys, company'.guid)
  BY <1>1 DEF BitSightSearch
<1>7. reply'.found = found
  BY <1>6
<1>8. keys' # <<>> /\ keys'[1] = keys[1] /\ IsSequence(keys') /\ Len(keys') \in {1, 2}
  <2>1. CASE found = <<>>
    <3>1. keys # <<>>
      BY <1>4
    <3>2. QED
      BY <1>2, <1>4, <1>6, <2>1, <3>1
  <2>2. CASE found # <<>>
    <3>1. PICK T, g : g = company'.guid /\ T = ToSet(keys) \cup {g}
      OBVIOUS
    <3>2. keys \in Seq(T)
      <4>1. keys \in Seq(ToSet(keys)) /\ ToSet(keys) \subseteq T
        BY <1>2, <3>1 DEF IsSequence
      <4>2. QED
        BY <4>1
    <3>3. keys' = Append(keys, g) /\ g \in T
      BY <1>6, <2>2, <3>1
    <3>4. keys' \in Seq(T) /\ Len(keys') = 2 /\ keys'[1] = keys[1]
      <4>1. /\ Append(keys, g) \in Seq(T) /\ Len(Append(keys, g)) = Len(keys) + 1
            /\ \A i \in 1..Len(keys) : Append(keys, g)[i] = keys[i]
        BY <3>2, <3>3, AppendProperties
      <4>2. QED
        BY <1>4, <3>3, <4>1
    <3>5. keys' # <<>>
      BY <3>4
    <3>6. QED
      BY <3>4, <3>5, SeqOfItsOwn DEF IsSequence
  <2>3. QED
    BY <2>1, <2>2
<1>9. found # <<>> =>
        /\ company' = Selected(found, keys'[1])
        /\ Len(keys') = 2 /\ keys'[2] = company'.guid
  <2>1. SUFFICES ASSUME found # <<>>
                 PROVE  /\ company' = Selected(found, keys'[1])
                        /\ Len(keys') = 2 /\ keys'[2] = company'.guid
    OBVIOUS
  <2>2. Key = keys[1]
    BY <1>2 DEF Key
  <2>3. PICK g : g = company'.guid
    OBVIOUS
  <2>4. company' = Selected(found, keys'[1]) /\ keys' = Append(keys, g)
    BY <1>6, <1>8, <2>1, <2>2, <2>3
  <2>5. keys \in Seq(ToSet(keys))
    BY <1>2 DEF IsSequence
  <2>6. Len(Append(keys, g)) = Len(keys) + 1 /\ Append(keys, g)[Len(keys) + 1] = g
    BY <2>5
  <2>7. Len(keys') = 2 /\ keys'[2] = g
    BY <1>4, <2>4, <2>6
  <2>8. QED
    BY <2>3, <2>4, <2>7, Zenon
<1>10. found = <<>> => Len(keys') = 1 /\ company' = NoCompany'
  <2>1. NoCompany' = NoCompany
    BY DEF NoCompany
  <2>2. QED
    BY <1>3, <1>4, <1>6, <2>1
<1>11. SearchInv'
  <2>1. keys'[1] = FirstDomain(ent')[1]
    BY <1>3, <1>5, <1>8
  <2>2. QED
    BY <1>7, <1>8, <1>9, <1>10, <2>1 DEF SearchInv
<1>12. TypeOK'
  <2>1. done' \in 0..Len(keys') /\ Len(queries) <= done'
    BY <1>2, <1>5, <1>8
  <2>2. QED
    BY <1>1, <1>2, <1>5, <1>8, <2>1 DEF Inv, TypeOK
<1>13. BitSightInv'
  BY <1>5, <1>11 DEF BitSightInv
<1>14. OSVInv' /\ CAAGInv' /\ FedRAMPInv'
  BY <1>2, <1>5 DEF OSVInv, CAAGInv, FedRAMPInv
<1>15. OutcomeInv'
  BY <1>1, <1>2, <1>5 DEF Inv, OutcomeInv
<1>16. QED
  BY <1>12, <1>13, <1>14, <1>15 DEF Inv

\* The detail is the rating, or the section has failed.
LEMMA BitSightRatingInv == Inv /\ BitSightRating => Inv'
<1>1. SUFFICES ASSUME Inv, BitSightRating PROVE Inv'
  OBVIOUS
<1>2. /\ source = "bitsight" /\ status = "none" /\ done = 1 /\ IsSequence(keys)
      /\ done + 1 \in 1..Len(keys) /\ Len(queries) <= done
      /\ Len(queries) \in Nat /\ Len(keys) \in Nat
  <2>1. Len(queries) \in Nat
    BY <1>1 DEF Inv, TypeOK, IsSequence
  <2>2. QED
    BY <1>1, <2>1, AskedKey DEF BitSightRating
<1>3. SearchInv
  BY <1>1, <1>2 DEF Inv, BitSightInv
<1>4. UNCHANGED <<source, ent, keys, page, batch, queries, company>>
  BY <1>1 DEF BitSightRating
<1>5. PICK detail \in Ratings :
        \/ status' = "failed" /\ UNCHANGED <<rows, done, reply>>
        \/ /\ detail.current # 0 \/ detail.series # <<>>
           /\ rows' = <<Rated(detail)>> /\ done' = 2
           /\ reply' = [reply EXCEPT !.detail = detail]
           /\ UNCHANGED status
  BY <1>1 DEF BitSightRating
<1>6. reply'.found = reply.found
  <2>1. CASE UNCHANGED reply
    BY <2>1
  <2>2. CASE reply' = [reply EXCEPT !.detail = detail]
    BY <2>2
  <2>3. QED
    BY <1>5, <2>1, <2>2
<1>7. done' \in {1, 2} /\ status' \in {"none", "failed"} /\ Len(keys) = 2
  <2>1. Len(keys) \in {1, 2}
    <3>1. reply.found = <<>> \/ reply.found # <<>>
      OBVIOUS
    <3>2. QED
      BY <1>3, <3>1 DEF SearchInv
  <2>2. done' \in {1, 2} /\ status' \in {"none", "failed"}
    BY <1>2, <1>5
  <2>3. PICK l \in Nat : l = Len(keys)
    BY <1>2
  <2>4. l \in {1, 2} /\ 2 \in 1..l
    BY <1>2, <2>1, <2>3
  <2>5. l = 2
    BY <2>4
  <2>6. QED
    BY <2>2, <2>3, <2>5
<1>8. SearchInv'
  <2>1. NoCompany' = NoCompany
    BY DEF NoCompany
  <2>2. QED
    BY <1>3, <1>4, <1>6, <2>1 DEF SearchInv
<1>9. ASSUME done' = 2
      PROVE  /\ reply'.detail \in Ratings /\ rows' = <<Rated(reply'.detail)>>
             /\ reply'.detail.current # 0 \/ reply'.detail.series # <<>>
  <2>1. /\ detail.current # 0 \/ detail.series # <<>>
        /\ rows' = <<Rated(detail)>>
        /\ reply' = [reply EXCEPT !.detail = detail]
    BY <1>2, <1>5, <1>9
  <2>2. reply'.detail = detail
    BY <2>1
  <2>3. QED
    BY <2>1, <2>2
<1>10. BitSightInv'
  BY <1>7, <1>8, <1>9 DEF BitSightInv
<1>11. TypeOK'
  <2>1. done' \in 0..Len(keys) /\ Len(queries) <= done'
    BY <1>2, <1>7
  <2>2. QED
    BY <1>1, <1>2, <1>4, <1>7, <2>1 DEF Inv, TypeOK
<1>12. OSVInv' /\ CAAGInv' /\ FedRAMPInv'
  BY <1>2, <1>4 DEF OSVInv, CAAGInv, FedRAMPInv
<1>13. OutcomeInv'
  BY <1>1, <1>2, <1>4, <1>7 DEF Inv, OutcomeInv
<1>14. QED
  BY <1>10, <1>11, <1>12, <1>13 DEF Inv

\* The store answers a manual source.
LEMMA ManualEntryInv == Inv /\ ManualEntry => Inv'
<1>1. SUFFICES ASSUME Inv, ManualEntry PROVE Inv'
  OBVIOUS
<1>2. /\ source = "manual" /\ status = "none" /\ done \in Nat
      /\ done + 1 \in 1..Len(keys) /\ Len(queries) <= done /\ Len(queries) \in Nat
  <2>1. Len(queries) \in Nat
    BY <1>1 DEF Inv, TypeOK, IsSequence
  <2>2. QED
    BY <1>1, <2>1, AskedKey DEF ManualEntry
<1>3. Len(keys) = 1 /\ done = 0
  <2>1. Len(keys) = 1
    BY <1>1, <1>2 DEF Inv, OutcomeInv
  <2>2. QED
    BY <1>2, <2>1
<1>4. /\ UNCHANGED <<source, ent, keys, page, batch, queries, company, reply, status>>
      /\ done' = 1
  BY <1>1 DEF ManualEntry
<1>5. TypeOK'
  <2>1. done' \in 0..Len(keys) /\ Len(queries) <= done'
    BY <1>2, <1>3, <1>4
  <2>2. QED
    BY <1>1, <1>4, <2>1 DEF Inv, TypeOK
<1>6. OSVInv' /\ CAAGInv' /\ FedRAMPInv' /\ BitSightInv'
  BY <1>2, <1>4 DEF OSVInv, CAAGInv, FedRAMPInv, BitSightInv
<1>7. OutcomeInv'
  BY <1>1, <1>2, <1>3, <1>4 DEF Inv, OutcomeInv
<1>8. QED
  BY <1>5, <1>6, <1>7 DEF Inv

\* A section that failed says nothing, so it says nothing wrong.
LEMMA RequestFailsInv == Inv /\ RequestFails => Inv'
<1>1. SUFFICES ASSUME Inv, RequestFails PROVE Inv'
  OBVIOUS
<1>2. /\ status = "none" /\ done \in Nat /\ done < Len(keys) /\ Len(keys) \in Nat
      /\ ent \in Entities
  <2>1. PICK src \in Sources : Asking(src)
    BY <1>1 DEF RequestFails
  <2>2. QED
    BY <1>1, <2>1, AskedKey
<1>3. /\ status' = "failed"
      /\ UNCHANGED <<source, ent, keys, done, page, batch, queries, company, reply>>
  BY <1>1 DEF RequestFails
<1>4. TypeOK'
  BY <1>1, <1>3 DEF Inv, TypeOK
<1>5. OSVInv'
  BY <1>1, <1>3 DEF Inv, OSVInv
<1>6. CAAGInv'
  BY <1>1, <1>3 DEF Inv, CAAGInv
<1>7. FedRAMPInv'
  <2>1. source = "fedramp" => Len(keys) = 1
    BY <1>1, Zenon DEF Inv, FedRAMPInv
  <2>2. PICK l \in Nat : l = Len(keys) /\ done < l
    BY <1>2
  <2>3. source = "fedramp" => done # 1
    BY <2>1, <2>2
  <2>4. QED
    BY <1>3, <2>1, <2>3 DEF FedRAMPInv
<1>8. BitSightInv'
  <2>1. SUFFICES ASSUME source = "bitsight" PROVE BitSightInv'
    BY <1>3 DEF BitSightInv
  <2>2. /\ done = 0 => keys = FirstDomain(ent) /\ company = NoCompany
        /\ done > 0 => SearchInv
    BY <1>1, <2>1 DEF Inv, BitSightInv
  <2>3. done # 2
    <3>1. done > 0 => Len(keys) \in {1, 2}
      <4>1. reply.found = <<>> \/ reply.found # <<>>
        OBVIOUS
      <4>2. QED
        BY <2>2, <4>1 DEF SearchInv
    <3>2. PICK l \in Nat : l = Len(keys) /\ done < l
      BY <1>2
    <3>3. done > 0 => l \in {1, 2}
      BY <3>1, <3>2
    <3>4. PICK d \in Nat : d = done /\ d < l
      BY <1>2, <3>2
    <3>5. d > 0 => l = 1 \/ l = 2
      BY <3>3, <3>4
    <3>6. d # 2
      BY <3>4, <3>5
    <3>7. QED
      BY <3>4, <3>6
  <2>4. NoCompany' = NoCompany
    BY DEF NoCompany
  <2>5. SearchInv => SearchInv'
    BY <1>3, <2>4 DEF SearchInv
  <2>6. QED
    BY <1>3, <2>2, <2>3, <2>4, <2>5 DEF BitSightInv
<1>9. OutcomeInv'
  BY <1>1, <1>3 DEF Inv, OutcomeInv
<1>10. QED
  BY <1>4, <1>5, <1>6, <1>7, <1>8, <1>9 DEF Inv

\* Nothing but the status, and the order of OSV's rows, changes at the end.
LEMMA ConcludeInv == Inv /\ (Skip \/ Answer) => Inv'
<1>1. SUFFICES ASSUME Inv, Skip \/ Answer PROVE Inv'
  OBVIOUS
<1>2. /\ status = "none" /\ done = Len(keys)
      /\ status' \in {"ok", "skipped"}
      /\ UNCHANGED <<source, ent, keys, done, page, batch, queries, company, reply>>
  BY <1>1 DEF Skip, Answer
<1>3. /\ source # "osv" => rows' = rows
      /\ source = "osv" /\ status' = "ok" => rows' = StableSort(rows, Worse)
      /\ status' # "ok" => rows' = rows
      /\ status' = "ok" => ~NothingToSay
  BY <1>1, Zenon DEF Skip, Answer
<1>4. TypeOK'
  BY <1>1, <1>2 DEF Inv, TypeOK
<1>5. OSVInv'
  <2>1. SUFFICES ASSUME source = "osv" PROVE OSVInv'
    BY <1>2 DEF OSVInv
  <2>2. /\ keys = ent.packages /\ Len(queries) = done
        /\ \A i \in 1..done : queries[i] = QueryOn(ent.packages[i])
        /\ RowsOn(ent.packages, done, rows)
    BY <1>1, <1>2, <2>1 DEF Inv, OSVInv
  <2>3. /\ RowsOn(ent.packages, done, rows')
        /\ status' = "ok" => \A i, j \in DOMAIN rows' : i < j => Worse(rows'[i], rows'[j])
    <3>1. CASE status' = "ok"
      <4>1. rows' = StableSort(rows, Worse)
        BY <1>3, <2>1, <3>1, Zenon
      <4>2. QED
        BY <2>2, <4>1, SortedRowsOn, Zenon
    <3>2. CASE status' # "ok"
      BY <1>3, <2>2, <3>2, Zenon
    <3>3. QED
      BY <3>1, <3>2
  <2>4. QED
    BY <1>2, <2>2, <2>3 DEF OSVInv
<1>6. CAAGInv'
  <2>1. source = "caag" => rows' = rows
    BY <1>3
  <2>2. QED
    BY <1>1, <1>2, <2>1 DEF Inv, CAAGInv
<1>7. FedRAMPInv'
  <2>1. source = "fedramp" => rows' = rows
    BY <1>3
  <2>2. QED
    BY <1>1, <1>2, <2>1 DEF Inv, FedRAMPInv
<1>8. BitSightInv'
  <2>1. SUFFICES ASSUME source = "bitsight" PROVE BitSightInv'
    BY <1>2 DEF BitSightInv
  <2>2. rows' = rows
    BY <1>3, <2>1
  <2>3. NoCompany' = NoCompany
    BY DEF NoCompany
  <2>4. SearchInv => SearchInv'
    BY <1>2, <2>3 DEF SearchInv
  <2>5. QED
    BY <1>1, <1>2, <2>1, <2>2, <2>3, <2>4 DEF Inv, BitSightInv
<1>9. OutcomeInv'
  <2>1. status' = "ok" => ~NothingToSay'
    <3>1. NoCompany' = NoCompany
      BY DEF NoCompany
    <3>2. source = "manual" => rows' = rows
      BY <1>3
    <3>3. QED
      BY <1>2, <1>3, <3>1, <3>2 DEF NothingToSay
  <2>2. QED
    BY <1>1, <1>2, <2>1 DEF Inv, OutcomeInv
<1>10. QED
  BY <1>4, <1>5, <1>6, <1>7, <1>8, <1>9 DEF Inv

\* Nothing changes, and so does nothing of this.
LEMMA UnchangedInv == Inv /\ UNCHANGED vars => Inv'
<1>1. SUFFICES ASSUME Inv, UNCHANGED vars PROVE Inv'
  OBVIOUS
<1>2. UNCHANGED <<source, ent, keys, done, page, batch, queries, rows, company, reply, status>>
  BY <1>1 DEF vars
<1>3. NoCompany' = NoCompany
  BY DEF NoCompany
<1>4. TypeOK' /\ OSVInv' /\ CAAGInv'
  BY <1>1, <1>2 DEF Inv, TypeOK, OSVInv, CAAGInv, Key
<1>5. FedRAMPInv' /\ OutcomeInv'
  BY <1>1, <1>2, <1>3 DEF Inv, FedRAMPInv, OutcomeInv, NothingToSay
<1>6. BitSightInv'
  BY <1>1, <1>2, <1>3 DEF Inv, BitSightInv, SearchInv
<1>7. QED
  BY <1>4, <1>5, <1>6 DEF Inv

\* Every step keeps the invariant.
LEMMA NextInv == Inv /\ [Next]_vars => Inv'
<1>1. SUFFICES ASSUME Inv, [Next]_vars PROVE Inv'
  OBVIOUS
<1>2. CASE Answered
  BY <1>1, <1>2, OSVPageInv, CAAGPageInv, FedRAMPListingInv, BitSightSearchInv,
     BitSightRatingInv, ManualEntryInv DEF Answered
<1>3. CASE RequestFails
  BY <1>1, <1>3, RequestFailsInv
<1>4. CASE Skip \/ Answer
  BY <1>1, <1>4, ConcludeInv
<1>5. CASE UNCHANGED vars
  BY <1>1, <1>5, UnchangedInv
<1>6. QED
  BY <1>1, <1>2, <1>3, <1>4, <1>5 DEF Next, Finished

\* The invariant holds of every behaviour.
LEMMA SpecInv == Spec => []Inv
BY InitInv, NextInv, PTL DEF Spec

-----------------------------------------------------------------------------
(* The theorems.                                                              *)

\* Lookups, pages and rows keep their types, whatever the services send.
THEOREM TypeCorrect == Spec => []TypeOK
<1>1. Inv => TypeOK
  BY DEF Inv
<1>2. QED
  BY <1>1, SpecInv, PTL

\* An answer of OSV covers all the packages with each advisory once, worst first,
\* under the first package that has it; an answer of the breach list covers all the
\* names it has room for, with every report listed under them, once.
THEOREM AnswersAreComplete == Spec => []AnswersAreWhole
<1>1. ASSUME Inv PROVE AnswersAreWhole
  <2>1. SUFFICES ASSUME status = "ok"
                 PROVE  /\ source = "osv" => OSVIsWhole
                        /\ source = "caag" => CAAGIsWhole
    BY DEF AnswersAreWhole
  <2>2. done = Len(keys) /\ ent \in Entities /\ IsSequence(keys) /\ Len(keys) \in Nat
    <3>1. Len(keys) \in Nat
      BY <1>1 DEF Inv, TypeOK, IsSequence
    <3>2. QED
      BY <1>1, <2>1, <3>1 DEF Inv, TypeOK, OutcomeInv
  <2>3. ASSUME source = "osv" PROVE OSVIsWhole
    <3>1. /\ keys = ent.packages /\ Len(queries) = done
          /\ \A i \in 1..done : queries[i] = QueryOn(ent.packages[i])
          /\ RowsOn(ent.packages, done, rows)
          /\ \A i, j \in DOMAIN rows : i < j => Worse(rows[i], rows[j])
      BY <1>1, <2>1, <2>3 DEF Inv, OSVInv
    <3>2. IsSequence(queries) /\ DOMAIN queries = 1..Len(queries)
      BY <1>1, LenProperties DEF Inv, TypeOK, IsSequence
    <3>3. PICK packages \in Seq(DOMAIN PagesOf) : packages = ent.packages
      BY <2>2, LookupsAssumption DEF LookupsAssumption
    <3>4. PICK n \in Nat : n = done /\ n = Len(packages) /\ DOMAIN packages = 1..n
      BY <2>2, <3>1, <3>3, LenProperties
    <3>5. Len(queries) = Len(ent.packages)
      BY <3>1, <3>3, <3>4
    <3>6. \A i \in DOMAIN queries : queries[i] = QueryOn(ent.packages[i])
      BY <3>1, <3>2, <3>4
    <3>7. {rows[i].id : i \in DOMAIN rows}
            = UNION {ToSet(ReadOf(p)) : p \in ToSet(ent.packages)}
      <4>1. {rows[i].id : i \in DOMAIN rows}
              = UNION {ToSet(ReadOf(packages[k])) : k \in 1..n}
        BY <3>1, <3>3, <3>4, ZenonT(30) DEF RowsOn
      <4>2. ToSet(packages) = {packages[k] : k \in 1..n}
        BY <3>4, ToSetSeq
      <4>3. ASSUME NEW v
            PROVE  v \in UNION {ToSet(ReadOf(packages[k])) : k \in 1..n}
                     <=> v \in UNION {ToSet(ReadOf(p)) : p \in ToSet(packages)}
        BY <4>2, Zenon
      <4>4. QED
        BY <3>3, <4>1, <4>3, Zenon
    <3>8. \A i \in DOMAIN rows : FirstAffected(rows[i].id, rows[i].package, ent.packages)
      BY <3>1, Zenon DEF RowsOn
    <3>9. QED
      BY <3>1, <3>5, <3>6, <3>7, <3>8, Zenon DEF OSVIsWhole, QueryOn, FirstAffected
  <2>4. ASSUME source = "caag" PROVE CAAGIsWhole
    <3>1. keys = FirstOf(VendorNames(ent), MaxNames) /\ ListedFor(keys, Len(keys), rows)
      BY <1>1, <2>1, <2>2, <2>4 DEF Inv, CAAGInv
    <3>2. PICK c \in Nat : /\ c = Len(VendorNames(ent))
                           /\ c = Cardinality({Normal[n] : n \in ToSet(ent.names)} \ {Blank})
      BY <2>2, VendorNamesAre, VendorNamesCount, LenProperties
    <3>3. MaxNames \in Nat
      BY LookupsAssumption DEF LookupsAssumption
    <3>4. Len(keys) = Min({MaxNames, c})
      BY <2>2, <3>1, <3>2, <3>3, CAAGKeys, MinOfTwo
    <3>5. DOMAIN keys = 1..Len(keys)
      BY <2>2, LenProperties DEF IsSequence
    <3>6. QED
      BY <3>1, <3>2, <3>4, <3>5, Zenon DEF CAAGIsWhole, ListedFor
  <2>5. QED
    BY <2>3, <2>4
<1>2. QED
  BY <1>1, SpecInv, PTL

\* An offering reported is the vendor's under one of its names, and says which if it
\* is not the canonical one, unless that one says nothing and the match is by the
\* first name that does; a rating is of the company at the domain if the search
\* knows it, and current (fedramp.go:253-300, bitsight.go:281-376).
THEOREM MatchesAreToldOf == Spec => []MatchesAreDisclosed
<1>1. ASSUME Inv PROVE MatchesAreDisclosed
  <2>1. SUFFICES ASSUME status = "ok"
                 PROVE  /\ source = "fedramp" /\ VendorNames(ent) # <<>>
                             => OfferingsAreTheVendors
                        /\ source = "bitsight" => RatingIsTheCompanys
    BY DEF MatchesAreDisclosed
  <2>2. done = Len(keys) /\ ent \in Entities /\ IsSequence(keys) /\ ~NothingToSay
    BY <1>1, <2>1 DEF Inv, TypeOK, OutcomeInv
  <2>3. ASSUME source = "fedramp", VendorNames(ent) # <<>> PROVE OfferingsAreTheVendors
    <3>1. Len(keys) = 1
      BY <1>1, <2>3, Zenon DEF Inv, FedRAMPInv
    <3>2. reply.listing \in Listings
          /\ rows = Matched(VendorNames(ent), Records(reply.listing))
      BY <1>1, <2>2, <2>3, <3>1, Zenon DEF Inv, FedRAMPInv
    <3>3. QED
      BY <2>2, <2>3, <3>2, MatchedAreTheVendors
  <2>4. ASSUME source = "bitsight" PROVE RatingIsTheCompanys
    <3>1. company # NoCompany
      BY <2>2, <2>4 DEF NothingToSay
    <3>2. done \in Nat /\ (done = 0 => company = NoCompany) /\ (done > 0 => SearchInv)
      BY <1>1, <2>4 DEF Inv, TypeOK, BitSightInv
    <3>3. SearchInv
      BY <3>1, <3>2
    <3>4. PICK found \in Companies :
            /\ found = reply.found /\ found # <<>>
            /\ company = Selected(found, keys[1])
            /\ Len(keys) = 2 /\ keys[2] = company.guid
      BY <3>1, <3>3 DEF SearchInv
    <3>5. PICK detail \in Ratings :
            /\ detail = reply.detail /\ rows = <<Rated(detail)>>
            /\ detail.current # 0 \/ detail.series # <<>>
      BY <1>1, <2>2, <2>4, <3>4 DEF Inv, BitSightInv
    <3>6. /\ (\E c \in ToSet(found) : c.domain = keys[1]) => company.domain = keys[1]
          /\ {c.guid : c \in ToSet(found)} = {keys[2]} \cup company.others
      BY <3>4, SelectedIsTheCompanys
    <3>7. PICK row : row = Rated(detail) /\ rows[1] = row
      BY <3>5
    <3>8. detail.series \in Seq([date : Int, rating : Int])
      BY LookupsAssumption DEF LookupsAssumption
    <3>9. CASE detail.series = <<>>
      <4>1. ToSet(detail.series) = {}
        BY <3>9 DEF ToSet
      <4>2. row.rating = detail.current
        BY <3>5, <3>7, <3>9 DEF Rated
      <4>3. QED
        BY <3>4, <3>5, <3>6, <3>7, <4>1, <4>2 DEF RatingIsTheCompanys
    <3>10. CASE detail.series # <<>>
      <4>1. PICK latest : /\ latest = Latest(detail.series)
                          /\ latest \in ToSet(detail.series)
                          /\ \A e \in ToSet(detail.series) : e.date <= latest.date
        BY <3>10, LatestIsNewest
      <4>2. latest \in [date : Int, rating : Int]
        BY <3>8, <4>1, ToSetSeq
      <4>3. row = [rating |-> IF detail.current # 0 THEN detail.current ELSE latest.rating,
                   date |-> latest.date]
        BY <3>7, <3>10, <4>1 DEF Rated
      <4>4. row.date = latest.date
        BY <4>3
      <4>5. row.rating = detail.current \/ (detail.current = 0 /\ row = latest)
        <5>1. PICK d \in Int, q \in Int : latest = [date |-> d, rating |-> q]
          BY <4>2
        <5>2. latest.rating = q /\ latest.date = d
          BY <5>1
        <5>3. row = [rating |-> IF detail.current # 0 THEN detail.current ELSE q, date |-> d]
          BY <4>3, <5>2
        <5>4. CASE detail.current # 0
          <6>1. row = [rating |-> detail.current, date |-> d]
            BY <5>3, <5>4, Zenon
          <6>2. row.rating = detail.current
            BY <6>1
          <6>3. QED
            BY <6>2
        <5>5. CASE detail.current = 0
          <6>1. row = [rating |-> q, date |-> d]
            BY <5>3, <5>5
          <6>2. row = latest
            BY <5>1, <6>1
          <6>3. QED
            BY <5>5, <6>2
        <5>6. QED
          BY <5>4, <5>5
      <4>6. \A e \in ToSet(detail.series) : e.date <= row.date
        BY <4>1, <4>4
      <4>7. row.rating = detail.current
              \/ (detail.current = 0 /\ row \in ToSet(detail.series))
        BY <4>1, <4>5
      <4>8. QED
        BY <3>4, <3>5, <3>6, <3>7, <4>6, <4>7 DEF RatingIsTheCompanys
    <3>11. QED
      BY <3>9, <3>10
  <2>5. QED
    BY <2>3, <2>4
<1>2. QED
  BY <1>1, SpecInv, PTL


-----------------------------------------------------------------------------
(* The refinement of Lookup. *)

\* A lookup is one of those there may be: only BitSight's search adds to what the
\* fetch started out with, and it adds one.
Bounded ==
  /\ Len(keys) \in Nat /\ Len(keys) <= MaxLookups
  /\ DOMAIN keys = 1..Len(keys)
  /\ done \in 0..Len(keys)

\* So it stays within them.
LEMMA KeysBounded == Inv => Bounded
<1> SUFFICES ASSUME Inv PROVE Bounded
  OBVIOUS
<1>1. /\ IsSequence(keys) /\ done \in 0..Len(keys) /\ source \in Sources /\ ent \in Entities
      /\ source = "caag" => Len(keys) <= MaxNames
  BY DEF Inv, TypeOK
<1>2. Len(keys) \in Nat /\ DOMAIN keys = 1..Len(keys)
  BY <1>1, LenProperties DEF IsSequence
<1>3. MaxLookups \in Nat /\ MaxNames \in Nat /\ MaxLookups >= MaxNames /\ MaxLookups >= 2
  BY LookupsAssumption DEF LookupsAssumption
<1>4. Len(ent.packages) <= MaxLookups
  BY <1>1, LookupsAssumption DEF LookupsAssumption
<1>5. SUFFICES Len(keys) <= MaxLookups
  BY <1>1, <1>2 DEF Bounded
<1>6. CASE source = "osv"
  <2>1. keys = ent.packages
    BY <1>6 DEF Inv, OSVInv
  <2>2. QED
    BY <1>1, <1>2, <1>4, <2>1
<1>7. CASE source = "bitsight"
  <2>1. Len(keys) \in {0, 1, 2}
    <3>1. CASE done = 0
      <4>1. keys = FirstDomain(ent)
        BY <1>7, <3>1 DEF Inv, BitSightInv
      <4>2. QED
        BY <1>1, <4>1, KeysType
    <3>2. CASE done # 0
      <4>1. done > 0
        BY <1>1, <1>2, <3>2
      <4>2. SearchInv
        BY <1>7, <4>1 DEF Inv, BitSightInv
      <4>3. QED
        BY <4>2 DEF SearchInv
    <3>3. QED
      BY <3>1, <3>2
  <2>2. \A n \in Nat : n \in {0, 1, 2} => n <= 2
    OBVIOUS
  <2>3. Len(keys) <= 2
    BY <1>2, <2>1, <2>2, Zenon
  <2>4. QED
    BY <1>2, <1>3, <2>3
<1>8. CASE source \in {"fedramp", "manual"}
  <2>1. Len(keys) = 1
    BY <1>8 DEF Inv, FedRAMPInv, OutcomeInv
  <2>2. QED
    BY <1>1, <1>2, <1>3, <2>1
<1>9. CASE source = "caag"
  BY <1>1, <1>2, <1>3, <1>9
<1>10. QED
  BY <1>1, <1>6, <1>7, <1>8, <1>9 DEF Sources

\* And so it is after every step.
LEMMA KeysBoundedNext == Inv' => Bounded'
BY KeysBounded, PTL

\* It starts with all its lookups open.
LEMMA PromiseInit == Init => Promise!Init
<1>1. SUFFICES ASSUME Init PROVE Promise!Init
  OBVIOUS
<1>2. Inv /\ done = 0 /\ status = "none"
  BY <1>1, InitInv DEF Init
<1>3. {i \in DOMAIN keys : i > done} \in SUBSET (1..MaxLookups)
  <2>1. PICK n \in Nat : n = Len(keys) /\ DOMAIN keys = 1..n /\ n <= MaxLookups
    BY <1>2, KeysBounded DEF Bounded
  <2>2. MaxLookups \in Nat
    BY LookupsAssumption DEF LookupsAssumption
  <2>3. QED
    BY <2>1, <2>2
<1>4. 1..done = {}
  BY <1>2
<1>5. QED
  BY <1>2, <1>3, <1>4 DEF Promise!Init

\* The lookup under way is answered, whatever it adds to the others.
LEMMA AnsweredStep ==
  ASSUME Inv, Inv', status = "none", UNCHANGED status, done < Len(keys), done' = done + 1,
         Len(keys) <= Len(keys')
  PROVE  Promise!Progress
<1>1. PICK n \in Nat : n = Len(keys) /\ DOMAIN keys = 1..n /\ n <= MaxLookups
  BY KeysBounded, ZenonT(30) DEF Bounded
<1>2. PICK m \in Nat : m = Len(keys') /\ DOMAIN keys' = 1..m /\ m <= MaxLookups
  BY KeysBoundedNext DEF Bounded
<1>3. PICK d \in Nat : d = done
  BY <1>1, KeysBounded DEF Bounded
<1>4. d < n /\ n <= m /\ MaxLookups \in Nat /\ done' = d + 1
  BY <1>1, <1>2, <1>3, LookupsAssumption DEF LookupsAssumption
<1>5. PICK more : more = {i \in 1..m : i > n}
  OBVIOUS
<1>6. {i \in 1..m : i > d + 1} = ({i \in 1..n : i > d} \ {d + 1}) \cup more
  BY <1>4, <1>5
<1>7. more \in SUBSET ((1..MaxLookups) \ ({i \in 1..n : i > d} \cup 1..d))
  BY <1>2, <1>4, <1>5
<1>8. 1..(d + 1) = 1..d \cup {d + 1} /\ d + 1 \in {i \in 1..n : i > d} /\ d + 1 \in 1..MaxLookups
  BY <1>1, <1>4
<1>9. /\ {i \in DOMAIN keys : i > done} = {i \in 1..n : i > d} /\ 1..done = 1..d
      /\ {i \in DOMAIN keys' : i > done'} = {i \in 1..m : i > d + 1} /\ 1..done' = 1..(d + 1)
  BY <1>1, <1>2, <1>3, <1>4
<1>10. Promise!Answer(d + 1)
  BY <1>6, <1>7, <1>8, <1>9 DEF Promise!Answer
<1>11. QED
  BY <1>8, <1>10 DEF Promise!Progress

\* A lookup that fails is the end of the fetch.
LEMMA FailedStep ==
  ASSUME Inv, status = "none", status' = "failed", UNCHANGED <<keys, done>>, done < Len(keys)
  PROVE  Promise!Fail
<1>1. PICK n \in Nat : n = Len(keys) /\ DOMAIN keys = 1..n /\ done \in 0..n
  BY KeysBounded DEF Bounded
<1>2. n \in {i \in DOMAIN keys : i > done}
  BY <1>1
<1>3. QED
  BY <1>2 DEF Promise!Fail

\* A source concludes with no lookup left.
LEMMA ConcludedStep ==
  ASSUME Inv, status = "none", status' \in {"ok", "skipped"}, UNCHANGED <<keys, done>>,
         done = Len(keys)
  PROVE  Promise!Progress
<1>1. PICK n \in Nat : n = Len(keys) /\ DOMAIN keys = 1..n
  BY KeysBounded DEF Bounded
<1>2. {i \in DOMAIN keys : i > done} = {}
  BY <1>1
<1>3. QED
  BY <1>2 DEF Promise!Progress, Promise!Conclude

\* Every step of a source is one the promise allows: the pages of OSV before a
\* package's last change nothing it speaks of.
LEMMA PromiseStep ==
  Inv /\ Inv' /\ [Next]_vars => [Promise!Progress \/ Promise!Fail]_(Promise!vars)
<1>1. SUFFICES ASSUME Inv, Inv', [Next]_vars
               PROVE  [Promise!Progress \/ Promise!Fail]_(Promise!vars)
  OBVIOUS
<1>2. ASSUME UNCHANGED <<keys, done, status>>
      PROVE  [Promise!Progress \/ Promise!Fail]_(Promise!vars)
  BY <1>2 DEF Promise!vars
<1>3. Len(keys) \in Nat /\ done \in Nat
  BY <1>1, KeysBounded DEF Bounded
<1>4. CASE OSVPage
  <2>1. /\ status = "none" /\ done < Len(keys) /\ UNCHANGED <<keys, status>>
        /\ UNCHANGED done \/ done' = done + 1
    BY <1>4 DEF OSVPage, Asking
  <2>2. QED
    BY <1>1, <1>2, <1>3, <2>1, AnsweredStep
<1>5. CASE CAAGPage
  <2>1. /\ status = "none" /\ done < Len(keys) /\ UNCHANGED <<keys, status>>
        /\ done' = done + 1
    BY <1>5 DEF CAAGPage, Asking
  <2>2. QED
    BY <1>1, <1>3, <2>1, AnsweredStep
<1>6. CASE ManualEntry
  <2>1. /\ status = "none" /\ done < Len(keys) /\ UNCHANGED <<keys, status>>
        /\ done' = 1 /\ Len(keys) = 1
    BY <1>1, <1>6 DEF ManualEntry, Asking, Inv, OutcomeInv
  <2>2. done' = done + 1
    BY <1>3, <2>1
  <2>3. QED
    BY <1>1, <1>3, <2>1, <2>2, AnsweredStep
<1>7. CASE FedRAMPListing \/ BitSightRating
  <2>1. /\ status = "none" /\ done < Len(keys) /\ UNCHANGED keys
        /\ \/ status' = "failed" /\ UNCHANGED done
           \/ done' = done + 1 /\ UNCHANGED status
    BY <1>7 DEF FedRAMPListing, BitSightRating, Asking
  <2>2. QED
    BY <1>1, <1>3, <2>1, AnsweredStep, FailedStep
<1>8. CASE BitSightSearch
  <2>1. /\ status = "none" /\ done < Len(keys) /\ done = 0 /\ done' = 1 /\ UNCHANGED status
        /\ UNCHANGED keys \/ keys' = Append(keys, company'.guid)
    BY <1>8 DEF BitSightSearch, Asking
  <2>2. Len(keys) <= Len(keys')
    <3>1. IsSequence(keys) /\ IsSequence(keys')
      BY <1>1 DEF Inv, TypeOK
    <3>2. ASSUME keys' = Append(keys, company'.guid) PROVE Len(keys') = Len(keys) + 1
      BY <3>1, <3>2 DEF IsSequence
    <3>3. QED
      BY <1>3, <2>1, <3>2
  <2>3. QED
    BY <1>1, <1>3, <2>1, <2>2, AnsweredStep
<1>9. CASE RequestFails
  <2>1. /\ status = "none" /\ done < Len(keys) /\ status' = "failed" /\ UNCHANGED <<keys, done>>
    BY <1>9 DEF RequestFails, Asking
  <2>2. QED
    BY <1>1, <2>1, FailedStep
<1>10. CASE Skip \/ Answer
  <2>1. /\ status = "none" /\ done = Len(keys) /\ status' \in {"ok", "skipped"}
        /\ UNCHANGED <<keys, done>>
    BY <1>10 DEF Skip, Answer
  <2>2. QED
    BY <1>1, <2>1, ConcludedStep
<1>11. CASE Finished \/ UNCHANGED vars
  BY <1>2, <1>11 DEF Finished, vars
<1>12. QED
  BY <1>1, <1>4, <1>5, <1>6, <1>7, <1>8, <1>9, <1>10, <1>11
  DEF Next, Answered

\* The five sources keep the promise of module Lookup, whatever the services send and
\* whichever request fails: OK or skipped only with every lookup answered, failed
\* only while one was open.  (The safety part of ImplementsLookup.)
THEOREM LookupsRefineLookup ==
  Spec => Promise!Init /\ [][Promise!Progress \/ Promise!Fail]_(Promise!vars)
BY PromiseInit, PromiseStep, SpecInv, PTL DEF Spec

=============================================================================

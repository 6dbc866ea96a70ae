------------------------------ MODULE NVDFetch ------------------------------
(***************************************************************************)
(* The NVD source's Fetch (internal/sources/nvd.go): for each resolved     *)
(* CPE, page through its CVEs and, when there are none, ask the CPE        *)
(* dictionary whether the zero means a clean product or an invented one.   *)
(*                                                                         *)
(* Every request of the walk may be answered, run out of time or fail, so  *)
(* a step of this module is what the walk does with one response.  The     *)
(* limiter in front of the requests is module RateLimiter.  What NVD       *)
(* knows does not change under one walk.                                   *)
(***************************************************************************)
EXTENDS Integers, FiniteSets, Ordering

CONSTANTS
  CPEs,          \* CPE names a resolution or an override may supply
  Entities,      \* the CPEs entities may have, each a sequence in the order they came
  MatchOf,       \* CPE -> its match string, or Malformed
  Malformed,
  CVEsOf,        \* match string -> the CVEs NVD lists for it, in NVD's order
  Registered,    \* match strings in NVD's CPE dictionary
  Score,         \* CVE -> base score; CVE ids are ordered as numbers
  MaxCPEs,       \* n.maxCPEs
  ResultsPerCPE, \* n.resultsPerCPE
  MaxPerPage     \* nvdMaxResultsPerPage

Matches == {MatchOf[c] : c \in CPEs} \ {Malformed}
Vulns   == DOMAIN Score

ASSUME NVDAssumption ==
  /\ Entities \subseteq Seq(CPEs)
  /\ Malformed \notin CPEs
  /\ MaxCPEs \in Nat \ {0}
  /\ ResultsPerCPE \in Nat \ {0}
  /\ MaxPerPage \in Nat \ {0}
  /\ Vulns \subseteq Nat
  /\ Score \in [Vulns -> Nat]
  /\ CVEsOf \in [Matches -> Seq(Vulns)]
  /\ \A m \in Matches : IsInjective(CVEsOf[m])
  /\ Registered \subseteq Matches
  /\ \A m \in Matches : CVEsOf[m] # <<>> => m \in Registered

VARIABLES
  matches,   \* the match strings of the entity's CPEs
  stage,     \* the request the walk needs next, or where it stands
  inFlight,  \* that request has left the rate limiter
  start,     \* startIndex of the next page
  vulns,     \* the CVEs of the CPE under way
  queries,   \* result.Queries
  unqueried, \* result.Unqueried
  cves,      \* result.CVEs
  section    \* what Fetch returned: its status and whether it carries the result

vars == <<matches, stage, inFlight, start, vulns, queries, unqueried, cves, section>>

Verification == {"by results", "in dictionary", "unverified"}
Query == [cpe : Matches, total : Nat, verification : Verification]
Unverified(q) == q.verification = "unverified"

None == [status |-> "none", data |-> FALSE]

TypeOK ==
  /\ matches \in Seq(Matches)
  /\ stage \in {"cpe", "cves", "dictionary", "vendor", "done"}
  /\ inFlight \in BOOLEAN
  /\ start \in Nat
  /\ vulns \in Seq(Vulns)
  /\ queries \in Seq(Query)
  /\ Len(queries) <= MaxCPEs
  /\ unqueried \in Seq(Matches)
  /\ cves \in Seq(Vulns)
  /\ section \in [status : {"ok", "failed", "skipped"}, data : BOOLEAN] \cup {None}

\* cpeMatchStrings: well-formed match strings, each once, in order of appearance.
MatchStrings(cpes) ==
  Distinct(Among([i \in DOMAIN cpes |-> MatchOf[cpes[i]]], Matches))

\* The order of result.CVEs: by score descending, then by id.
Before(v, w) == Score[v] > Score[w] \/ (Score[v] = Score[w] /\ v < w)

SortVulns(vs) == StableSort(vs, Before)

Init ==
  /\ \E entity \in Entities : matches = MatchStrings(entity)
  /\ stage = "cpe"
  /\ inFlight = FALSE
  /\ start = 0
  /\ vulns = <<>>
  /\ queries = <<>>
  /\ unqueried = <<>>
  /\ cves = <<>>
  /\ section = None

\* The CPE under way.
Current == matches[Len(queries) + 1]

\* What the walk had not reached.
Rest == SubSeq(matches, Len(queries) + 1, Len(matches))

\* Mutant of Judged: one invented CPE is enough to fail the section.
JudgedByAnyCPE(qs) ==
  IF \E i \in DOMAIN qs : Unverified(qs[i])
    THEN [status |-> "failed", data |-> TRUE]
    ELSE [status |-> "ok", data |-> TRUE]

\* The section of a walk that ended: no CPE queried was real, or an answer.
Judged(qs) ==
  IF qs # <<>> /\ (\A i \in DOMAIN qs : Unverified(qs[i]))
    THEN [status |-> "failed", data |-> TRUE]
    ELSE [status |-> "ok", data |-> TRUE]

\* Fetch returns the walk's result.
Conclude ==
  /\ unqueried' = Rest
  /\ section' = Judged(queries)
  /\ cves' = SortVulns(cves)
  /\ stage' = "done"

\* Nothing to look up.
Skip ==
  /\ stage = "cpe"
  /\ matches = <<>>
  /\ section' = [status |-> "skipped", data |-> FALSE]
  /\ stage' = "done"
  /\ UNCHANGED <<matches, inFlight, start, vulns, queries, unqueried, cves>>

\* Mutant of WalkOver: the cap is off by one.
WalkOverPastCap == Len(queries) = Len(matches) \/ Len(queries) > MaxCPEs

\* Every CPE is done, or the cap is reached and the rest are left unqueried.
WalkOver == Len(queries) = Len(matches) \/ Len(queries) >= MaxCPEs

\* queryCPE starts on the next CPE.
NextCPE ==
  /\ stage = "cpe"
  /\ ~WalkOver
  /\ stage' = "cves"
  /\ start' = 0
  /\ vulns' = <<>>
  /\ UNCHANGED <<matches, inFlight, queries, unqueried, cves, section>>

\* The loop over the CPEs is over.
EndWalk ==
  /\ stage = "cpe"
  /\ matches # <<>>
  /\ WalkOver
  /\ Conclude
  /\ UNCHANGED <<matches, inFlight, start, vulns, queries>>

Requesting == stage \in {"cves", "dictionary", "vendor"}

\* get: the limiter lets the request leave.
Ask ==
  /\ Requesting /\ ~inFlight
  /\ inFlight' = TRUE
  /\ UNCHANGED <<matches, stage, start, vulns, queries, unqueried, cves, section>>

\* The response to the request in flight.
Response == inFlight /\ inFlight' = FALSE

\* How many CVEs the next page asks for.
PerPage ==
  LET wanted == ResultsPerCPE - Len(vulns)
  IN  IF wanted > MaxPerPage THEN MaxPerPage ELSE wanted

\* The CVEs that are not in the result yet.
Unseen(vs) == Among(vs, ToSet(vs) \ ToSet(cves))

Verified(total, verification) ==
  Append(queries, [cpe |-> Current, total |-> total, verification |-> verification])

\* queryCPE returned: Fetch keeps the query and the CVEs it has not seen.
AppendQuery(total, vs, verification) ==
  /\ queries' = Verified(total, verification)
  /\ cves' = cves \o Unseen(vs)
  /\ stage' = "cpe"

\* Mutant of NextStart: the next page starts after the page size.
NextStartByPageSize(n) == start + PerPage

\* The next page starts after the CVEs that came.
NextStart(n) == start + n

\* Mutant of LastPage: an empty page does not end the loop.
LastPageNeverEmpty(n, next, found) ==
  NextStart(n) >= Len(found) \/ Len(next) >= ResultsPerCPE

\* The loop ends on an empty page, at the last CVE, or with enough of them.
LastPage(n, next, found) ==
  n = 0 \/ NextStart(n) >= Len(found) \/ Len(next) >= ResultsPerCPE

\* A page of n CVEs arrives: NVD may send fewer than asked, and none at all.
CVEPage(n) ==
  LET found == CVEsOf[Current]
      next  == vulns \o SubSeq(found, start + 1, start + n)
  IN  /\ stage = "cves"
      /\ Response
      /\ n <= PerPage /\ start + n <= Len(found)
      /\ start' = NextStart(n)
      /\ vulns' = next
      /\ IF ~LastPage(n, next, found)
           THEN UNCHANGED <<stage, queries, cves>>
           ELSE IF found # <<>>
             THEN AppendQuery(Len(found), next, "by results")
             ELSE stage' = "dictionary" /\ UNCHANGED <<queries, cves>>
      /\ UNCHANGED <<matches, unqueried, section>>

\* Mutant of Dictionary: the dictionary's answer is not asked for.
DictionaryTrusted ==
  /\ stage = "dictionary"
  /\ Response
  /\ AppendQuery(0, <<>>, "in dictionary")
  /\ UNCHANGED <<matches, start, vulns, unqueried, section>>

\* cpeExists answers.  Only an unknown CPE is worth the vendor's product list.
Dictionary ==
  /\ stage = "dictionary"
  /\ Response
  /\ IF Current \in Registered
       THEN AppendQuery(0, <<>>, "in dictionary")
       ELSE stage' = "vendor" /\ UNCHANGED <<queries, cves>>
  /\ UNCHANGED <<matches, start, vulns, unqueried, section>>

\* vendorProducts answers.
Vendor ==
  /\ stage = "vendor"
  /\ Response
  /\ AppendQuery(0, <<>>, "unverified")
  /\ UNCHANGED <<matches, start, vulns, unqueried, section>>

\* A request runs out of time or is cancelled: what came back is still true.
RunsOut ==
  /\ Requesting
  /\ Conclude
  /\ inFlight' = FALSE
  /\ UNCHANGED <<matches, start, vulns, queries>>

\* A request fails in any other way: the section fails and carries no result.
Fails ==
  /\ Requesting /\ Response
  /\ section' = [status |-> "failed", data |-> FALSE]
  /\ stage' = "done"
  /\ UNCHANGED <<matches, start, vulns, queries, unqueried, cves>>

\* What the walk does as long as its requests are answered.
Answer ==
  \/ Skip
  \/ Ask
  \/ NextCPE
  \/ EndWalk
  \/ \E n \in 0..ResultsPerCPE : CVEPage(n)
  \/ Dictionary
  \/ Vendor

Finished == stage = "done" /\ UNCHANGED vars

Next == Answer \/ RunsOut \/ Fails \/ Finished

\* Every request ends, with an answer or without.  Running out of time and
\* failing are not promised, so the loop must end on answers alone.
Spec == Init /\ [][Next]_vars /\ WF_vars(Answer)

-----------------------------------------------------------------------------
(* CPEsVerified (internal/assess/assess.go): the verdict read off a section. *)

Known == section.data /\ queries # <<>>
AnyVerified == \E i \in DOMAIN queries : ~Unverified(queries[i])

-----------------------------------------------------------------------------
(* Properties. *)

\* A partial answer is never mistaken for a complete one: the queried and the
\* unqueried CPEs of a result are the entity's match strings, each once and in
\* order, however the walk ended (nvd.go:247-251, 269-281).
NothingIsForgotten ==
  stage = "done" /\ section.data =>
    /\ [i \in DOMAIN queries |-> queries[i].cpe] \o unqueried = matches
    /\ IsInjective(matches)

\* "No known CVEs" and "this CPE was invented" are never confused: what a query
\* says of a CPE is what NVD knows of it (nvd.go:109-115).
ZerosAreExplained ==
  \A i \in DOMAIN queries :
    /\ Unverified(queries[i]) <=> queries[i].cpe \notin Registered
    /\ queries[i].total = Len(CVEsOf[queries[i].cpe])

\* The resolution cache's verdict is right and the section agrees with it: a
\* mapping judged invented fails with its evidence, one with a real CPE is an
\* answer (nvd.go:300-309, assess.go:62-74).
VerdictMatchesSection ==
  stage = "done" /\ Known =>
    /\ AnyVerified <=> \E i \in DOMAIN queries : queries[i].cpe \in Registered
    /\ AnyVerified <=> section.status = "ok"

\* The CVEs of an answer are, of every CPE asked about, the first so many NVD
\* lists - pages of any length follow each other without a gap - and those that
\* products of one vendor share are there once, in an order that depends on
\* nothing but the CVEs (nvd.go:290-296, 311, 352-390, 664-673).
FirstCVEs(i, n) == ToSet(SubSeq(CVEsOf[queries[i].cpe], 1, Min({n, queries[i].total})))
EachCVEOnceInOrder ==
  stage = "done" /\ section.data =>
    /\ \A i, j \in DOMAIN cves : i < j => Before(cves[i], cves[j])
    /\ \E taken \in [DOMAIN queries -> 0..ResultsPerCPE] :
         ToSet(cves) = UNION {FirstCVEs(i, taken[i]) : i \in DOMAIN queries}

\* A server that disagrees with itself cannot spin the walk: every run ends even
\* if its deadline never comes (nvd.go:383-387).
WalkEnds == (stage # "done") ~> (stage = "done")

\* What the unverified section says of the CPEs it was given (nvd.go:642): that
\* none of them exists.
NoneExist ==
  section = [status |-> "failed", data |-> TRUE] =>
    \A i \in DOMAIN matches : matches[i] \notin Registered

=============================================================================

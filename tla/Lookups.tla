------------------------------ MODULE Lookups ------------------------------
(***************************************************************************)
(* The sources that look a vendor up by what it resolved to: OSV by        *)
(* package, the California Attorney General's breach list and the FedRAMP  *)
(* marketplace by name, BitSight by domain; and a manual source, which     *)
(* looks for what an analyst recorded (internal/sources/osv.go, caag.go,   *)
(* fedramp.go, bitsight.go, manual.go).                                    *)
(*                                                                         *)
(* A fetch of any of them is a sequence of lookups; one step is what it    *)
(* does with one response.  A response may be anything the service sends:  *)
(* one the source cannot make sense of, and a status other than 200, fails *)
(* like a request that was not answered.                                   *)
(***************************************************************************)
EXTENDS Integers, Ordering

CONSTANTS
  Entities,   \* what vendors resolve to: [packages, names, domains]
  Blank,      \* a field that is empty once trimmed
  Normal,     \* name -> what normalizeVendorName makes of it, Blank if nothing
  PagesOf,    \* package -> OSV's pages of advisories on it
  Rank,       \* advisory -> rank of its severity; advisory ids are ordered as numbers
  MaxPages,   \* osvMaxPages
  BreachesOf, \* normalized name -> the rows [org, url] the list's filter finds
  MaxNames,   \* caagMaxNames
  Listings,   \* listing pages the marketplace may serve: sequences of [csp, cso]
  MinRecords, \* f.minRecords
  Companies,  \* what BitSight's search may find: sequences of [guid, domain]
  Ratings,    \* what it may say of one: [current, series], dates as numbers
  MaxLookups  \* bound: lookups of one fetch, and so packages of one entity

\* What comes from a service is what parses, and no company is without a GUID.
ASSUME LookupsAssumption ==
  /\ MaxPages \in Nat \ {0}
  /\ MaxNames \in Nat \ {0}
  /\ MinRecords \in Nat
  /\ MaxLookups \in Nat /\ MaxLookups >= MaxNames /\ MaxLookups >= 2
  /\ DOMAIN Rank \subseteq Int
  /\ \A v \in DOMAIN Rank : Rank[v] \in Int
  /\ \A p \in DOMAIN PagesOf : PagesOf[p] \in Seq(Seq(DOMAIN Rank)) \ {<<>>}
  /\ \A e \in Entities :
       /\ e.packages \in Seq(DOMAIN PagesOf) /\ Len(e.packages) <= MaxLookups
       /\ IsSequence(e.domains)
       /\ e.names \in Seq(DOMAIN Normal)
       /\ \A n \in ToSet(e.names) :
            Normal[n] # Blank => IsSequence(BreachesOf[Normal[n]])
  /\ \A listing \in Listings : IsSequence(listing)
  /\ \A found \in Companies : IsSequence(found) /\ \A c \in ToSet(found) : c.guid # Blank
  /\ \A detail \in Ratings : detail.series \in Seq([date : Int, rating : Int])

VARIABLES
  source,  \* whose Fetch it is
  ent,     \* the resolved entity
  keys,    \* the lookups the fetch has found to make, in order
  done,    \* how many of them were answered
  page,    \* the page of OSV's answer that is asked for
  batch,   \* the advisories of the pages so far
  queries, \* result.Queries
  rows,    \* result.Vulns, Entries or Offerings, or the rating
  company, \* the search result selectCompany chose, and the GUIDs of the others
  reply,   \* history: the listing, or the companies and the rating, that came
  status   \* the section's status

Sources == {"osv", "caag", "fedramp", "bitsight", "manual"}

vars == <<source, ent, keys, done, page, batch, queries, rows, company, reply, status>>

NoReply == [listing |-> <<>>, found |-> <<>>, detail |-> [current |-> 0, series |-> <<>>]]
NoCompany == [guid |-> Blank, domain |-> Blank, others |-> {}]

TypeOK ==
  /\ source \in Sources
  /\ ent \in Entities
  /\ IsSequence(keys)
  /\ done \in 0..Len(keys)
  /\ page \in 1..MaxPages
  /\ batch \in Seq(DOMAIN Rank)
  /\ IsSequence(queries) /\ Len(queries) <= done
  /\ source = "caag" => Len(keys) <= MaxNames
  /\ status \in {"none", "ok", "failed", "skipped"}

FirstOf(s, n) == SubSeq(s, 1, Min({n, Len(s)}))

\* vendorNames: the canonical name, the aliases and the analyst's own words, each
\* once by what it normalizes to; a name of which nothing is left is no name.
VendorNames(e) ==
  LET first(i) == \A j \in 1..(i - 1) : Normal[e.names[j]] # Normal[e.names[i]]
  IN  Subsequence(e.names, {i \in DOMAIN e.names : Normal[e.names[i]] # Blank /\ first(i)})

\* firstNonEmpty: the one domain that is searched for.
FirstDomain(e) == FirstOf(Among(e.domains, ToSet(e.domains) \ {Blank}), 1)

\* Mutant of KeysOf: the cap on names is left out.
KeysOfUncapped(src, e) ==
  CASE src = "osv" -> e.packages
    [] src = "caag" -> VendorNames(e)
    [] src = "fedramp" -> <<"the marketplace">>
    [] src = "bitsight" -> FirstDomain(e)
    [] src = "manual" -> <<"the entry">>

\* What a fetch starts out to look up.
KeysOf(src, e) ==
  CASE src = "osv" -> e.packages
    [] src = "caag" -> FirstOf(VendorNames(e), MaxNames)
    [] src = "fedramp" -> <<"the marketplace">>
    [] src = "bitsight" -> FirstDomain(e)
    [] src = "manual" -> <<"the entry">>

Init ==
  /\ source \in Sources
  /\ ent \in Entities
  /\ keys = KeysOf(source, ent)
  /\ done = 0
  /\ page = 1
  /\ batch = <<>>
  /\ queries = <<>>
  /\ rows = <<>>
  /\ company = NoCompany
  /\ reply = NoReply
  /\ status = "none"

Key == keys[done + 1]

\* The request for a lookup of this source is out.
Asking(src) == source = src /\ status = "none" /\ done < Len(keys)

-----------------------------------------------------------------------------
(* OSV. *)

\* Each advisory once, under the package that first surfaced it.
Merge(vulns, package) ==
  LET new == Distinct(Among(vulns, ToSet(vulns) \ {rows[i].id : i \in DOMAIN rows}))
  IN  rows \o [k \in DOMAIN new |-> [id |-> new[k], package |-> package]]

\* Mutant of Truncated: a package whose last page is the cap's counts as cut short.
TruncatedAtCap == page = MaxPages

\* The last page the cap allows still came with a token.
Truncated == page = MaxPages /\ page < Len(PagesOf[Key])

\* The next page of a package, until one comes without a token or the cap is reached.
OSVPage ==
  /\ Asking("osv")
  /\ LET vulns == batch \o PagesOf[Key][page]
     IN  IF page < Len(PagesOf[Key]) /\ page < MaxPages
           THEN /\ batch' = vulns
                /\ page' = page + 1
                /\ UNCHANGED <<done, queries, rows>>
           ELSE /\ queries' = Append(queries, [package |-> Key, total |-> Len(vulns),
                                               truncated |-> Truncated])
                /\ rows' = Merge(vulns, Key)
                /\ batch' = <<>>
                /\ page' = 1
                /\ done' = done + 1
  /\ UNCHANGED <<source, ent, keys, company, reply, status>>

\* sortOSVVulns: by severity, unrated last, then by id.
Worse(v, w) == Rank[v.id] < Rank[w.id] \/ (Rank[v.id] = Rank[w.id] /\ v.id < w.id)

-----------------------------------------------------------------------------
(* The California Attorney General's list. *)

\* The entries of a page that are not listed yet: one without a report has nothing to
\* be recognized by.
Unlisted(breaches) ==
  {i \in DOMAIN breaches :
     \/ breaches[i].url = Blank
     \/ /\ \A k \in DOMAIN rows : rows[k].url # breaches[i].url
        /\ \A j \in 1..(i - 1) : breaches[j].url # breaches[i].url}

\* They are added, with the name they were searched as.
Listed(breaches, name) ==
  LET new == Subsequence(breaches, Unlisted(breaches))
  IN  rows \o [k \in DOMAIN new |-> [org |-> new[k].org, url |-> new[k].url,
                                     searchedAs |-> name]]

\* One name's page: a report already listed under another name is not listed again.
CAAGPage ==
  /\ Asking("caag")
  /\ rows' = Listed(BreachesOf[Normal[Key]], Key)
  /\ done' = done + 1
  /\ UNCHANGED <<source, ent, keys, page, batch, queries, company, reply, status>>

-----------------------------------------------------------------------------
(* FedRAMP. *)

\* parseFedRAMPRecords: groups without a provider and an offering are something else.
Records(listing) == Among(listing, {r \in ToSet(listing) : r.csp # Blank /\ r.cso # Blank})

\* matchFedRAMPOfferings: what a vendor's name matches exactly, with the name that
\* did unless it is the first.
Matched(names, records) ==
  LET Matches(r) == {i \in DOMAIN names : Normal[names[i]] = Normal[r.csp]}
      matching == Among(records, {r \in ToSet(records) : Matches(r) # {}})
  IN  [k \in DOMAIN matching |->
         LET i == Min(Matches(matching[k]))
         IN  [record |-> matching[k], alias |-> IF i = 1 THEN Blank ELSE names[i]]]

\* The listing arrives; one with too few records is a page whose layout changed.
FedRAMPListing ==
  /\ Asking("fedramp")
  /\ \E listing \in Listings :
       /\ reply' = [reply EXCEPT !.listing = listing]
       /\ \/ /\ Len(Records(listing)) < MinRecords
             /\ status' = "failed"
             /\ UNCHANGED <<rows, done>>
          \/ /\ Len(Records(listing)) >= MinRecords
             /\ rows' = Matched(VendorNames(ent), Records(listing))
             /\ done' = done + 1
             /\ UNCHANGED status
  /\ UNCHANGED <<source, ent, keys, page, batch, queries, company>>

-----------------------------------------------------------------------------
(* BitSight. *)

\* selectCompany: the first whose primary domain is the one searched for, else the
\* first; the others are named.
Selected(found, domain) ==
  LET exact == Among(found, {c \in ToSet(found) : c.domain = domain})
      chosen == IF exact = <<>> THEN found[1] ELSE exact[1]
  IN  [guid |-> chosen.guid, domain |-> chosen.domain,
       others |-> {found[i].guid : i \in DOMAIN found} \ {chosen.guid}]

\* The search answers, and calls for the rating of the company chosen from it.
BitSightSearch ==
  /\ Asking("bitsight") /\ done = 0
  /\ \E found \in Companies :
       /\ reply' = [reply EXCEPT !.found = found]
       /\ IF found = <<>>
            THEN UNCHANGED <<keys, company>>
            ELSE /\ company' = Selected(found, Key)
                 /\ keys' = Append(keys, company'.guid)
  /\ done' = 1
  /\ UNCHANGED <<source, ent, page, batch, queries, rows, status>>

\* Mutant of Latest: the order the series arrives in is trusted.
LatestAsSent(series) == series[1]

\* The newest entry of a series, whatever order it arrives in.
Latest(series) ==
  series[CHOOSE i \in DOMAIN series :
           \A j \in DOMAIN series :
             \/ series[i].date > series[j].date
             \/ series[i].date = series[j].date /\ i <= j]

\* parseRatingDetail: the current rating, dated by the series, or its newest entry.
Rated(detail) ==
  LET latest == IF detail.series = <<>>
                  THEN [date |-> 0, rating |-> 0]
                  ELSE Latest(detail.series)
  IN  [rating |-> IF detail.current # 0 THEN detail.current ELSE latest.rating,
       date |-> latest.date]

\* The company's detail answers; with neither a rating nor a series it is unusable.
BitSightRating ==
  /\ Asking("bitsight") /\ done = 1
  /\ \E detail \in Ratings :
       \/ /\ detail.current = 0 /\ detail.series = <<>>
          /\ status' = "failed"
          /\ UNCHANGED <<rows, done, reply>>
       \/ /\ detail.current # 0 \/ detail.series # <<>>
          /\ rows' = <<Rated(detail)>>
          /\ done' = 2
          /\ reply' = [reply EXCEPT !.detail = detail]
          /\ UNCHANGED status
  /\ UNCHANGED <<source, ent, keys, page, batch, queries, company>>

-----------------------------------------------------------------------------
(* A manual source. *)

\* The store answers: the analyst recorded an entry under the source's name, or none.
ManualEntry ==
  /\ Asking("manual")
  /\ \E entry \in {<<>>, <<"recorded">>} : rows' = entry
  /\ done' = 1
  /\ UNCHANGED <<source, ent, keys, page, batch, queries, company, reply, status>>

-----------------------------------------------------------------------------
(* Every source. *)

\* Mutant of RequestFails: the failed lookup is passed over.
RequestFailsQuietly ==
  /\ \E src \in Sources : Asking(src)
  /\ keys' = RemoveAt(keys, done + 1)
  /\ UNCHANGED <<source, ent, done, page, batch, queries, rows, company, reply, status>>

\* A request fails, times out, is refused, or its answer makes no sense: the whole
\* section fails, and carries nothing of what was found before.
RequestFails ==
  /\ \E src \in Sources : Asking(src)
  /\ rows' = <<>>
  /\ status' = "failed"
  /\ UNCHANGED <<source, ent, keys, done, page, batch, queries, company, reply>>

\* Every lookup there is was answered, and there was nothing to look up: no package
\* or domain, no company that matches, no entry.
NothingToSay ==
  \/ source = "osv" /\ keys = <<>>
  \/ source = "bitsight" /\ company = NoCompany
  \/ source = "manual" /\ rows = <<>>

Skip ==
  /\ status = "none" /\ done = Len(keys)
  /\ NothingToSay
  /\ status' = "skipped"
  /\ UNCHANGED <<source, ent, keys, done, page, batch, queries, rows, company, reply>>

Answer ==
  /\ status = "none" /\ done = Len(keys)
  /\ ~NothingToSay
  /\ rows' = IF source = "osv" THEN StableSort(rows, Worse) ELSE rows
  /\ status' = "ok"
  /\ UNCHANGED <<source, ent, keys, done, page, batch, queries, company, reply>>

Answered ==
  \/ OSVPage \/ CAAGPage \/ FedRAMPListing \/ BitSightSearch \/ BitSightRating
  \/ ManualEntry

Finished == status # "none" /\ UNCHANGED vars

Next == Answered \/ RequestFails \/ Skip \/ Answer \/ Finished

\* Every request ends, answered or not: the sources' timeouts see to that.
Spec == Init /\ [][Next]_vars /\ WF_vars(Answered \/ RequestFails \/ Skip \/ Answer)

-----------------------------------------------------------------------------
(* Properties. *)

ReadOf(p) == FlattenSeq(FirstOf(PagesOf[p], MaxPages))

\* An OSV answer covers every package: each advisory of the pages that were read is
\* there once, worst first, under the first package it affects, and a package says
\* it was cut short exactly when OSV had more (osv.go:135-159, 168-191, 374-387).
OSVIsWhole ==
  /\ Len(queries) = Len(ent.packages)
  /\ \A i \in DOMAIN queries :
       LET p == ent.packages[i]
       IN  queries[i] = [package |-> p, total |-> Len(ReadOf(p)),
                         truncated |-> Len(PagesOf[p]) > MaxPages]
  /\ {rows[i].id : i \in DOMAIN rows} = UNION {ToSet(ReadOf(p)) : p \in ToSet(ent.packages)}
  /\ \A i, j \in DOMAIN rows : i < j => Worse(rows[i], rows[j])
  /\ \A i \in DOMAIN rows : \E k \in DOMAIN ent.packages :
       /\ ent.packages[k] = rows[i].package
       /\ Contains(ReadOf(ent.packages[k]), rows[i].id)
       /\ \A l \in 1..(k - 1) : ~Contains(ReadOf(ent.packages[l]), rows[i].id)

\* A CA AG answer covers the first names of the vendor that say something, no two
\* the same, and holds every report listed under one of them once
\* (caag.go:105-140, fedramp.go:277-300).
CAAGIsWhole ==
  /\ Len(keys) = Min({MaxNames, Cardinality({Normal[n] : n \in ToSet(ent.names)} \ {Blank})})
  /\ \A i, j \in DOMAIN rows : i # j /\ rows[i].url = rows[j].url => rows[i].url = Blank
  /\ \A i \in DOMAIN keys : \A b \in ToSet(BreachesOf[Normal[keys[i]]]) :
       \E k \in DOMAIN rows :
         IF b.url = Blank THEN rows[k].org = b.org /\ rows[k].searchedAs = keys[i]
                          ELSE rows[k].url = b.url

\* An answer is the whole answer: a source that is OK has been told about every
\* package or name it started out with.  OSV says so of a package where the cap on
\* pages cut it short; CA AG's cap on names leaves no word, only the list of the
\* names that were searched (osv.go:374-387, caag.go:105-113).
AnswersAreWhole ==
  status = "ok" =>
    /\ source = "osv" => OSVIsWhole
    /\ source = "caag" => CAAGIsWhole

\* The offerings are all those listed under a name of the vendor, and one that is
\* not listed under the canonical name tells by which alias it is the vendor's, but
\* for this: of a canonical name of which normalization leaves nothing the first
\* name that says something takes the place, and a match by that one is not told
\* (fedramp.go:76, 253-275, 277-300).
OfferingsAreTheVendors ==
  LET names == {n \in ToSet(ent.names) : Normal[n] # Blank}
      canonical == Normal[ent.names[1]]
      first == Normal[Among(ent.names, names)[1]]
      records == {r \in ToSet(reply.listing) : r.csp # Blank /\ r.cso # Blank}
  IN  /\ {rows[i].record : i \in DOMAIN rows}
           = {r \in records : \E n \in names : Normal[r.csp] = Normal[n]}
      /\ \A i \in DOMAIN rows :
           LET csp == Normal[rows[i].record.csp]
           IN  \/ rows[i].alias = Blank /\ csp = canonical
               \/ rows[i].alias = Blank /\ canonical = Blank /\ csp = first
               \/ rows[i].alias \in names /\ Normal[rows[i].alias] = csp /\ csp # canonical

\* What the comments say without that exception (fedramp.go:76, 265-266): a match
\* that is not the canonical name's tells by which alias it is.  TLC refutes it with
\* a canonical name in a script of which normalization leaves nothing.
AliasesAreNamed ==
  status = "ok" /\ source = "fedramp" =>
    \A i \in DOMAIN rows :
      Normal[rows[i].record.csp] # Normal[ent.names[1]] => rows[i].alias # Blank

\* The rating is of the company at the domain if the search knows it, every other
\* company it found is named beside it, and no older score of a series passes for
\* the current one (bitsight.go:281-308, 331-376).
RatingIsTheCompanys ==
  LET found == ToSet(reply.found)
      entries == ToSet(reply.detail.series)
  IN  /\ (\E c \in found : c.domain = keys[1]) => company.domain = keys[1]
      /\ {c.guid : c \in found} = {keys[2]} \cup company.others
      /\ \A e \in entries : e.date <= rows[1].date
      /\ \/ rows[1].rating = reply.detail.current
         \/ reply.detail.current = 0 /\ rows[1] \in entries

\* What is reported of a vendor is the vendor's, and where the match was not the
\* plain one the answer says what it was, with the one exception named at
\* OfferingsAreTheVendors: another company's rating or authorization looks like any
\* other (fedramp.go:253-275, bitsight.go:281-308, 331-376).
MatchesAreDisclosed ==
  status = "ok" =>
    /\ source = "fedramp" /\ VendorNames(ent) # <<>> => OfferingsAreTheVendors
    /\ source = "bitsight" => RatingIsTheCompanys

\* Each source keeps the promise of module Lookup: OK only with every lookup
\* answered, failed only when one was not, and over in any case.
Promise == INSTANCE Lookup WITH
  Key <- 1..MaxLookups,
  open <- {i \in DOMAIN keys : i > done},
  answered <- 1..done

ImplementsLookup == Promise!Spec

=============================================================================

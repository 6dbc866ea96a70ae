------------------------------ MODULE Research ------------------------------
(***************************************************************************)
(* The checklist research source (internal/sources/research.go and         *)
(* research_parse.go): a model with a web-search tool answers a fixed list *)
(* of questions, and a claim is kept only with a citation the search       *)
(* really returned.                                                        *)
(*                                                                         *)
(* A reply is the sequence of its claims in the order parseResearch reads  *)
(* them.  A claim is [label, kind, value, urls, answer, place]: answer is  *)
(* what its list asks of it beside the value - that a lawsuit is           *)
(* concluded, what a location is, one of three answers - and place where a *)
(* location is.  The model may claim anything and cite anything.           *)
(***************************************************************************)
EXTENDS Naturals, Ordering

CONSTANTS
  Replies,      \* what the model may answer
  Searches,     \* what the search may have returned: sequences of [title, url]
  Page,         \* URL -> what normalizeCitationURL makes of it, Blank if nothing
  Blank,        \* a field that is empty once trimmed
  MaxCitations, \* researchMaxCitations
  MaxShown      \* show, in formatDropped

Kinds == {"field", "breach", "lawsuit", "location", "tri"}

\* What qualifies a lawsuit or a location.
Qualified == {"concluded", "headquarters", "operational"}

\* A reply names every entry it makes by its place in the checklist, and there is no
\* page without a URL.
ASSUME ResearchAssumption ==
  /\ MaxCitations \in Nat \ {0}
  /\ MaxShown \in Nat
  /\ Page[Blank] = Blank
  /\ \A results \in Searches : IsSequence(results)
  /\ \A reply \in Replies :
       /\ IsSequence(reply)
       /\ \A i, j \in DOMAIN reply : reply[i].label = reply[j].label => i = j
       /\ \A c \in ToSet(reply) :
            /\ c.kind \in Kinds /\ IsSequence(c.urls)
            /\ c.kind \in {"lawsuit", "location"} =>
                 c.answer \in Qualified \cup {"pending", "unlabelled"}

VARIABLES
  asked,   \* history: the reply and the search results it came with
  checked, \* the Research parseResearch made of them
  section  \* what Fetch returned: the status and, of an empty checklist, the error

researchVars == <<asked, checked, section>>

NoReply == [reply |-> <<>>, results |-> <<>>]
Unchecked == [findings |-> <<>>, tris |-> <<>>, dropped |-> <<>>]
NoSection == [status |-> "none", shown |-> <<>>, more |-> 0]

ResearchTypeOK ==
  /\ asked.reply = <<>> \/ asked.reply \in Replies
  /\ \A i \in DOMAIN checked.findings : Len(checked.findings[i].citations) <= MaxCitations
  /\ section.status \in {"none", "ok", "failed", "skipped"}
  /\ Len(section.shown) <= MaxShown

ResearchInit ==
  /\ asked = NoReply
  /\ checked = Unchecked
  /\ section = NoSection

Upto(s, n) == SubSeq(s, 1, Min({n, Len(s)}))

-----------------------------------------------------------------------------
(* parseResearch. *)

\* newResultIndex: the results by page; of two with the same page the later stays.
ResultOn(results, p) == results[Max({i \in DOMAIN results : Page[results[i].url] = p})]

Known(results, url) ==
  Page[url] # Blank /\ \E i \in DOMAIN results : Page[results[i].url] = Page[url]

\* The URLs the search returned, each page where it is cited first.
Fresh(urls, results) ==
  {i \in DOMAIN urls :
     Known(results, urls[i]) /\ \A j \in 1..(i - 1) : Page[urls[j]] # Page[urls[i]]}

\* Mutant of Citations: the cap is left to the prompt.
CitationsUncapped(urls, results) ==
  LET cited == Subsequence(urls, Fresh(urls, results))
  IN  [kept |-> [k \in DOMAIN cited |-> ResultOn(results, Page[cited[k]])],
       unknown |-> Subsequence(urls, {i \in DOMAIN urls : ~Known(results, urls[i])})]

\* citations: the results the URLs point at, each once, until there are enough;
\* a URL up to there that no search returned is noted.
Citations(urls, results) ==
  LET cited == Upto(Subsequence(urls, Fresh(urls, results)), MaxCitations)
      enough(i) == Cardinality({j \in Fresh(urls, results) : j < i}) >= MaxCitations
      unknown == {i \in DOMAIN urls :
                    urls[i] # Blank /\ ~Known(results, urls[i]) /\ ~enough(i)}
  IN  [kept |-> [k \in DOMAIN cited |-> ResultOn(results, Page[cited[k]])],
       unknown |-> Subsequence(urls, unknown)]

Note(c, why) == [label |-> c.label, why |-> why]

\* finding: what is added to the checklist and to the notes for a claim of a value.
FindingOf(c, results) ==
  LET cited == Citations(c.urls, results)
      fabricated == [i \in DOMAIN cited.unknown |-> Note(c, "not in the search results")]
  IN  CASE c.value = Blank -> [findings |-> <<>>, dropped |-> <<>>]
        [] c.value # Blank /\ cited.kept = <<>> ->
             [findings |-> <<>>, dropped |-> Append(fabricated, Note(c, "uncited"))]
        [] OTHER ->
             [findings |-> <<[label |-> c.label, kind |-> c.kind, value |-> c.value,
                              place |-> c.place, citations |-> cited.kept]>>,
              dropped |-> fabricated]

Nothing == [findings |-> <<>>, dropped |-> <<>>]

\* Mutant of Listed: a lawsuit or location that does not qualify goes without a note.
ListedSilently(c, results) ==
  IF c.answer \in Qualified
    THEN FindingOf(c, results)
    ELSE Nothing

\* lawsuits and locations: an entry must be concluded, or labelled, before its claim
\* is looked at.
Listed(c, results) ==
  IF c.answer \in Qualified
    THEN FindingOf(c, results)
    ELSE [Nothing EXCEPT !.dropped = <<Note(c, "does not qualify")>>]

TriAnswers == {"yes", "no_evidence_found", "not_applicable"}

\* Mutant of TriOf: an uncited yes is kept as it stands.
TriOfUncited(c, results) ==
  [answer |-> IF c.answer \in TriAnswers THEN c.answer ELSE "no_evidence_found",
   found |-> IF c.answer = "yes" THEN FindingOf(c, results) ELSE Nothing]

\* tri: only a yes has evidence, and without any it is no yes.
TriOf(c, results) ==
  LET found == FindingOf(c, results)
      refused(why) == [answer |-> "no_evidence_found",
                       found |-> [Nothing EXCEPT !.dropped = Append(why, Note(c, "not an answer"))]]
  IN  CASE c.answer \notin TriAnswers -> refused(<<>>)
        [] c.answer = "yes" /\ found.findings = <<>> -> refused(found.dropped)
        [] c.answer = "yes" /\ found.findings # <<>> -> [answer |-> "yes", found |-> found]
        [] OTHER -> [answer |-> c.answer, found |-> Nothing]

\* What one claim adds to the checklist and to the notes.
Found(c, results) ==
  CASE c.kind = "tri" -> TriOf(c, results).found
    [] c.kind \in {"lawsuit", "location"} -> Listed(c, results)
    [] OTHER -> FindingOf(c, results)

ParseResearch(reply, results) ==
  LET tris == Subsequence(reply, {i \in DOMAIN reply : reply[i].kind = "tri"})
  IN  [findings |-> FlattenSeq([i \in DOMAIN reply |-> Found(reply[i], results).findings]),
       tris |-> [k \in DOMAIN tris |-> [label |-> tris[k].label,
                                        answer |-> TriOf(tris[k], results).answer]],
       dropped |-> FlattenSeq([i \in DOMAIN reply |-> Found(reply[i], results).dropped])]

-----------------------------------------------------------------------------
(* Fetch. *)

\* Answered: the two three-valued questions are not counted.
Answered(research) ==
  Cardinality({i \in DOMAIN research.findings : research.findings[i].kind # "tri"})

\* An empty checklist is a failure that says what was dropped.
SectionOf(research) ==
  IF Answered(research) > 0
    THEN [NoSection EXCEPT !.status = "ok"]
    ELSE [status |-> "failed",
          shown |-> Upto(research.dropped, MaxShown),
          more |-> Len(research.dropped) - Len(Upto(research.dropped, MaxShown))]

\* There is no API key.
ResearchSkipped ==
  /\ section = NoSection
  /\ section' = [NoSection EXCEPT !.status = "skipped"]
  /\ UNCHANGED <<asked, checked>>

\* The call fails, the model declines, or the reply is not a checklist.
ResearchFails ==
  /\ section = NoSection
  /\ section' = [NoSection EXCEPT !.status = "failed"]
  /\ UNCHANGED <<asked, checked>>

\* A reply is checked.
ResearchAnswers ==
  /\ section = NoSection
  /\ \E reply \in Replies, results \in Searches :
       /\ asked' = [reply |-> reply, results |-> results]
       /\ checked' = ParseResearch(reply, results)
  /\ section' = SectionOf(checked')

Fetch == ResearchSkipped \/ ResearchFails \/ ResearchAnswers

-----------------------------------------------------------------------------
(* Properties. *)

CitedBy(c, r) == \E i \in DOMAIN c.urls : Page[c.urls[i]] = Page[r.url]

\* What the checklist says it can show: every claim in it is one the model made and
\* comes with one or two different pages the search returned and the claim cited,
\* and a "yes" stands only on such a claim (research_parse.go:84-159).
FindingsAreCited ==
  /\ \A i \in DOMAIN checked.findings :
       LET f == checked.findings[i]
           pages == {Page[f.citations[j].url] : j \in DOMAIN f.citations}
       IN  /\ Len(f.citations) \in 1..MaxCitations
           /\ Cardinality(pages) = Len(f.citations)
           /\ \E c \in ToSet(asked.reply) :
                /\ c.label = f.label /\ c.value = f.value
                /\ \A r \in ToSet(f.citations) : CitedBy(c, r) /\ Contains(asked.results, r)
  /\ \A t \in ToSet(checked.tris) :
       t.answer = "yes" <=> \E f \in ToSet(checked.findings) : f.label = t.label

=============================================================================

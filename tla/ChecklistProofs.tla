-------------------------- MODULE ChecklistProofs --------------------------
(***************************************************************************)
(* Proofs about Checklist, for any replies, search results and other       *)
(* sections and any caps.                                                  *)
(*                                                                         *)
(* Two invariants carry them.  ResearchInv: the checklist is nothing yet,  *)
(* or what the parser makes of some reply and some search, and the section *)
(* follows from it.  ReportInv: what was printed and what is to be are     *)
(* together the content of the assembled sections, until a line fails.     *)
(* The rest is about operators: what the parser keeps of a claim           *)
(* (Citations to FoundIs, joined in ParsedIs), how a section is laid out   *)
(* (SectionIsLaid), where each begins in the report (HeadingsAre), and     *)
(* what is printed of the research section (ResearchLinesAre).             *)
(***************************************************************************)
EXTENDS Checklist, OrderingProofs, TLAPS

-----------------------------------------------------------------------------
(* Citations. *)

\* The result a page stands for is one the search returned, on that page.
LEMMA ResultIsKnown ==
  ASSUME NEW results, IsSequence(results), NEW url, Known(results, url)
  PROVE  /\ ResultOn(results, Page[url]) \in ToSet(results)
         /\ Page[ResultOn(results, Page[url]).url] = Page[url]
<1>1. PICK n \in Nat : n = Len(results) /\ DOMAIN results = 1..n
  BY LenProperties DEF IsSequence
<1>2. PICK I \in SUBSET (1..n) : I = {i \in DOMAIN results : Page[results[i].url] = Page[url]}
  BY <1>1
<1>3. I # {}
  BY <1>2 DEF Known
<1>4. PICK i : i = Max(I)
  OBVIOUS
<1>5. i \in I
  BY <1>3, <1>4, MaxOfPositions
<1>6. ResultOn(results, Page[url]) = results[i]
  BY <1>2, <1>4 DEF ResultOn
<1>7. results[i] \in ToSet(results)
  BY <1>1, <1>2, <1>5 DEF ToSet
<1>8. QED
  BY <1>2, <1>5, <1>6, <1>7

\* What a claim is left with: results the search returned and the claim cites, no page
\* twice and not too many, and at least one if it cites any that was returned.
IsCited(kept, urls, results) ==
  /\ IsSequence(kept) /\ Len(kept) <= MaxCitations
  /\ \A k \in DOMAIN kept :
       /\ kept[k] \in ToSet(results) /\ Page[kept[k].url] # Blank
       /\ \E i \in DOMAIN urls : Page[urls[i]] = Page[kept[k].url]
  /\ \A j, k \in DOMAIN kept : Page[kept[j].url] = Page[kept[k].url] => j = k
  /\ (\E i \in DOMAIN urls : Known(results, urls[i])) => kept # <<>>

\* A page is cited where it comes first.
LEMMA FreshIsFirst ==
  ASSUME NEW urls, IsSequence(urls), NEW results,
         NEW i \in DOMAIN urls, Known(results, urls[i])
  PROVE  Fresh(urls, results) # {}
<1>1. PICK n \in Nat : n = Len(urls) /\ DOMAIN urls = 1..n
  BY LenProperties DEF IsSequence
<1>2. PICK I \in SUBSET (1..n) : I = {j \in 1..n : Page[urls[j]] = Page[urls[i]]}
  OBVIOUS
<1>3. I # {}
  BY <1>1, <1>2
<1>4. PICK f \in I : \A j \in I : f <= j
  BY <1>3, FirstPosition
<1>5. Known(results, urls[f])
  BY <1>2, <1>4 DEF Known
<1>6. f \in 1..n /\ \A j \in 1..(f - 1) : Page[urls[j]] # Page[urls[f]]
  BY <1>2, <1>4
<1>7. QED
  BY <1>1, <1>5, <1>6 DEF Fresh

\* The citations the parser keeps are such, however often and in whatever spelling a
\* page is cited, and what it notes of the others is a list of URLs.
LEMMA CitationsAreKnown ==
  ASSUME NEW urls, IsSequence(urls), NEW results, IsSequence(results)
  PROVE  /\ IsCited(Citations(urls, results).kept, urls, results)
         /\ IsSequence(Citations(urls, results).unknown)
<1>1. PICK n \in Nat : n = Len(urls) /\ DOMAIN urls = 1..n
  BY LenProperties DEF IsSequence
<1>2. PICK F \in SUBSET (1..n) : F = Fresh(urls, results)
  BY <1>1 DEF Fresh
<1>3. PICK sub \in Seq(ToSet(urls)) : sub = Subsequence(urls, F) /\ IsPicked(sub, urls, F)
  <2>1. urls \in Seq(ToSet(urls))
    BY DEF IsSequence
  <2>2. QED
    BY <1>1, <2>1, SubsequenceProperties
<1>4. PICK at \in [1..Len(sub) -> F] :
        /\ \A j, k \in 1..Len(sub) : j < k => at[j] < at[k]
        /\ \A i \in F : \E k \in 1..Len(sub) : at[k] = i
        /\ \A k \in 1..Len(sub) : sub[k] = urls[at[k]]
  BY <1>3 DEF IsPicked
<1>5. MaxCitations \in Nat \ {0}
  BY ResearchAssumption DEF ResearchAssumption
<1>6. PICK cited : cited = Upto(sub, MaxCitations)
  OBVIOUS
<1>7. PICK m \in Nat :
        /\ cited \in Seq(ToSet(urls)) /\ Len(cited) = m /\ DOMAIN cited = 1..m
        /\ m <= MaxCitations /\ m <= Len(sub) /\ (m = 0 => Len(sub) = 0)
        /\ \A k \in 1..m : k \in 1..Len(sub) /\ cited[k] = sub[k]
  <2>1. /\ cited \in Seq(ToSet(urls))
        /\ Len(cited) = IF MaxCitations <= Len(sub) THEN MaxCitations ELSE Len(sub)
        /\ \A k \in 1..Len(cited) : k \in 1..Len(sub) /\ cited[k] = sub[k]
    BY <1>3, <1>5, <1>6, BeginningProperties, SMTT(20) DEF Upto
  <2>2. Len(cited) \in Nat /\ DOMAIN cited = 1..Len(cited) /\ Len(sub) \in Nat
    BY <1>3, <2>1, LenProperties
  <2>3. QED
    BY <1>5, <2>1, <2>2
<1>8. PICK kept : kept = [k \in 1..m |-> ResultOn(results, Page[cited[k]])]
  OBVIOUS
<1>9. Citations(urls, results).kept = kept
  BY <1>2, <1>3, <1>6, <1>7, <1>8 DEF Citations
<1>10. ASSUME NEW k \in 1..m
       PROVE  /\ at[k] \in 1..n /\ at[k] \in F /\ Known(results, urls[at[k]])
              /\ kept[k] \in ToSet(results)
              /\ Page[kept[k].url] = Page[urls[at[k]]] /\ Page[kept[k].url] # Blank
  <2>1. k \in 1..Len(sub) /\ cited[k] = urls[at[k]]
    BY <1>4, <1>7
  <2>2. at[k] \in F /\ at[k] \in 1..n
    BY <1>4, <2>1
  <2>3. Known(results, urls[at[k]])
    BY <1>2, <2>2 DEF Fresh
  <2>4. kept[k] = ResultOn(results, Page[urls[at[k]]])
    BY <1>8, <2>1
  <2>5. /\ kept[k] \in ToSet(results)
        /\ Page[kept[k].url] = Page[urls[at[k]]]
    BY <2>3, <2>4, ResultIsKnown
  <2>6. Page[urls[at[k]]] # Blank
    BY <2>3 DEF Known
  <2>7. QED
    BY <2>2, <2>3, <2>5, <2>6
<1>11. kept \in Seq(ToSet(results)) /\ Len(kept) = m /\ DOMAIN kept = 1..m
  <2>1. kept \in [1..m -> ToSet(results)]
    <3>1. \A k \in 1..m : kept[k] \in ToSet(results)
      BY <1>10
    <3>2. QED
      BY <1>8, <3>1
  <2>2. QED
    BY <2>1
<1>12. ASSUME NEW j \in 1..m, NEW k \in 1..m, j < k
       PROVE  Page[kept[j].url] # Page[kept[k].url]
  <2>1. at[j] < at[k] /\ at[j] \in 1..n /\ at[k] \in 1..n
    BY <1>4, <1>7, <1>10, <1>12
  <2>2. at[j] \in 1..(at[k] - 1)
    BY <2>1
  <2>3. Page[urls[at[j]]] # Page[urls[at[k]]]
    BY <1>2, <1>10, <2>2 DEF Fresh
  <2>4. QED
    BY <1>10, <2>3
<1>13. \A j, k \in 1..m : Page[kept[j].url] = Page[kept[k].url] => j = k
  <2>1. \A j, k \in 1..m : j < k \/ k < j \/ j = k
    OBVIOUS
  <2>2. QED
    BY <1>12, <2>1
<1>14. ASSUME NEW i \in DOMAIN urls, Known(results, urls[i])
       PROVE  kept # <<>>
  <2>1. F # {}
    BY <1>2, <1>14, FreshIsFirst
  <2>2. Len(sub) # 0
    <3>1. \E k \in 1..Len(sub) : TRUE
      BY <1>4, <2>1
    <3>2. 1..0 = {}
      OBVIOUS
    <3>3. QED
      BY <3>1, <3>2
  <2>3. m # 0
    BY <1>7, <2>2
  <2>4. QED
    BY <1>11, <2>3
<1>15. IsCited(kept, urls, results)
  <2>1. IsSequence(kept) /\ Len(kept) <= MaxCitations
    <3>1. IsSequence(kept)
      BY <1>11, SeqOfItsOwn DEF IsSequence
    <3>2. QED
      BY <1>7, <1>11, <3>1
  <2>2. \A k \in 1..m : /\ kept[k] \in ToSet(results) /\ Page[kept[k].url] # Blank
                        /\ \E i \in DOMAIN urls : Page[urls[i]] = Page[kept[k].url]
    BY <1>1, <1>10, Zenon
  <2>3. QED
    BY <1>11, <1>13, <1>14, <2>1, <2>2, Zenon DEF IsCited
<1>16. IsSequence(Citations(urls, results).unknown)
  <2>1. PICK I \in SUBSET (1..n) : Citations(urls, results).unknown = Subsequence(urls, I)
    <3>1. PICK I : /\ I = {i \in 1..n : /\ urls[i] # Blank /\ ~Known(results, urls[i])
                                        /\ ~(Cardinality({j \in F : j < i}) >= MaxCitations)}
      OBVIOUS
    <3>2. Citations(urls, results).unknown = Subsequence(urls, I)
      BY <1>1, <1>2, <3>1 DEF Citations
    <3>3. QED
      BY <3>1, <3>2
  <2>2. urls \in Seq(ToSet(urls))
    BY DEF IsSequence
  <2>3. Subsequence(urls, I) \in Seq(ToSet(urls))
    BY <1>1, <2>2, SubsequenceProperties
  <2>4. QED
    BY <2>1, <2>3, SeqOfItsOwn DEF IsSequence
<1>17. QED
  BY <1>9, <1>15, <1>16


-----------------------------------------------------------------------------
(* Claims. *)

\* A claim of a reply, as the parser reads it.
IsClaim(c) ==
  /\ c.kind \in Kinds /\ IsSequence(c.urls)
  /\ c.kind \in {"lawsuit", "location"} =>
       c.answer \in Qualified \cup {"pending", "unlabelled"}

\* What is kept of a claim is the claim with its citations, and what is noted, its.
FoundFor(found, c, results) ==
  /\ \/ found.findings = <<>>
     \/ \E kept : /\ kept # <<>> /\ IsCited(kept, c.urls, results)
                  /\ found.findings = <<[label |-> c.label, kind |-> c.kind, value |-> c.value,
                                         place |-> c.place, citations |-> kept]>>
  /\ IsSequence(found.dropped)
  /\ \A d \in ToSet(found.dropped) : d.label = c.label

\* One more note is a note.
LEMMA NoteAppended ==
  ASSUME NEW notes, IsSequence(notes), NEW label, NEW note, note.label = label,
         \A d \in ToSet(notes) : d.label = label
  PROVE  /\ IsSequence(Append(notes, note)) /\ Append(notes, note) # <<>>
         /\ \A d \in ToSet(Append(notes, note)) : d.label = label
<1>1. PICK T : T = ToSet(notes) \cup {note}
  OBVIOUS
<1>2. notes \in Seq(T) /\ note \in T
  BY <1>1 DEF IsSequence
<1>3. Append(notes, note) \in Seq(T) /\ Append(notes, note) # <<>>
  BY <1>2
<1>4. ToSet(Append(notes, note)) \subseteq T
  BY <1>3, ToSetSeq
<1>5. IsSequence(Append(notes, note))
  BY <1>3, SeqOfItsOwn DEF IsSequence
<1>6. QED
  BY <1>1, <1>3, <1>4, <1>5

\* A value is kept with its citations, or noted if the search supports none of them.
LEMMA FindingIs ==
  ASSUME NEW c, IsSequence(c.urls), NEW results, IsSequence(results)
  PROVE  /\ FoundFor(FindingOf(c, results), c, results)
         /\ c.value # Blank /\ FindingOf(c, results).findings = <<>> =>
              /\ FindingOf(c, results).dropped # <<>>
              /\ \A i \in DOMAIN c.urls : ~Known(results, c.urls[i])
<1>1. PICK cited : cited = Citations(c.urls, results)
  OBVIOUS
<1>2. IsCited(cited.kept, c.urls, results) /\ IsSequence(cited.unknown)
  BY <1>1, CitationsAreKnown
<1>3. PICK fabricated :
        fabricated = [i \in DOMAIN cited.unknown |-> Note(c, "not in the search results")]
  OBVIOUS
<1>4. IsSequence(fabricated) /\ \A d \in ToSet(fabricated) : d.label = c.label
  <2>1. PICK n \in Nat : n = Len(cited.unknown) /\ DOMAIN cited.unknown = 1..n
    BY <1>2, LenProperties DEF IsSequence
  <2>2. PICK note : note = Note(c, "not in the search results")
    OBVIOUS
  <2>3. fabricated = [i \in 1..n |-> note]
    BY <1>3, <2>1, <2>2
  <2>4. fabricated \in Seq({note})
    BY <2>3
  <2>5. note.label = c.label
    BY <2>2 DEF Note
  <2>6. ToSet(fabricated) \subseteq {note}
    BY <2>4, ToSetSeq
  <2>7. IsSequence(fabricated)
    BY <2>4, SeqOfItsOwn DEF IsSequence
  <2>8. QED
    BY <2>5, <2>6, <2>7
<1>5. CASE c.value = Blank
  <2>1. FindingOf(c, results) = [findings |-> <<>>, dropped |-> <<>>]
    BY <1>5 DEF FindingOf
  <2>2. IsSequence(<<>>) /\ ToSet(<<>>) = {}
    BY DEF IsSequence, ToSet
  <2>3. QED
    BY <1>5, <2>1, <2>2 DEF FoundFor
<1>6. CASE c.value # Blank /\ cited.kept = <<>>
  <2>1. PICK note : note = Note(c, "uncited")
    OBVIOUS
  <2>6. note.label = c.label
    BY <2>1 DEF Note
  <2>2. FindingOf(c, results) = [findings |-> <<>>, dropped |-> Append(fabricated, note)]
    BY <1>1, <1>3, <1>6, <2>1 DEF FindingOf
  <2>3. /\ IsSequence(Append(fabricated, note)) /\ Append(fabricated, note) # <<>>
        /\ \A d \in ToSet(Append(fabricated, note)) : d.label = c.label
    BY <1>4, <2>6, NoteAppended
  <2>4. \A i \in DOMAIN c.urls : ~Known(results, c.urls[i])
    BY <1>2, <1>6 DEF IsCited
  <2>5. QED
    BY <2>2, <2>3, <2>4 DEF FoundFor
<1>7. CASE c.value # Blank /\ cited.kept # <<>>
  <2>1. PICK f : f = [label |-> c.label, kind |-> c.kind, value |-> c.value,
                      place |-> c.place, citations |-> cited.kept]
    OBVIOUS
  <2>2. FindingOf(c, results) = [findings |-> <<f>>, dropped |-> fabricated]
    BY <1>1, <1>3, <1>7, <2>1 DEF FindingOf
  <2>3. <<f>> # <<>>
    OBVIOUS
  <2>4. /\ FindingOf(c, results).findings = <<f>>
        /\ FindingOf(c, results).dropped = fabricated
    BY <2>2
  <2>5. QED
    BY <1>2, <1>4, <1>7, <2>1, <2>3, <2>4, Zenon DEF FoundFor
<1>8. QED
  BY <1>5, <1>6, <1>7

\* Nothing is found for a claim without a note, and so nothing at all for one with
\* an empty value, an answer of its own or one that does not count.
LEMMA NothingFor ==
  ASSUME NEW c, NEW results
  PROVE  FoundFor(Nothing, c, results)
<1>1. IsSequence(<<>>) /\ ToSet(<<>>) = {}
  BY DEF IsSequence, ToSet
<1>2. QED
  BY <1>1 DEF Nothing, FoundFor

\* A lawsuit or location is held to its qualification first.
LEMMA ListedIs ==
  ASSUME NEW c, IsClaim(c), NEW results, IsSequence(results)
  PROVE  /\ FoundFor(Listed(c, results), c, results)
         /\ c.answer \in Qualified => Listed(c, results) = FindingOf(c, results)
         /\ c.answer \notin Qualified =>
              Listed(c, results).findings = <<>> /\ Listed(c, results).dropped # <<>>
<1>1. CASE c.answer \in Qualified
  BY <1>1, FindingIs DEF IsClaim, Listed
<1>2. CASE c.answer \notin Qualified
  <2>1. PICK note : note = Note(c, "does not qualify")
    OBVIOUS
  <2>2. Listed(c, results) = [findings |-> <<>>, dropped |-> <<note>>]
    BY <1>2, <2>1 DEF Listed, Nothing
  <2>3. IsSequence(<<note>>) /\ ToSet(<<note>>) = {note} /\ <<note>> # <<>>
    BY DEF IsSequence, ToSet
  <2>4. note.label = c.label
    BY <2>1 DEF Note
  <2>5. Listed(c, results).findings = <<>> /\ Listed(c, results).dropped = <<note>>
    BY <2>2
  <2>6. FoundFor(Listed(c, results), c, results)
    BY <2>3, <2>4, <2>5 DEF FoundFor
  <2>7. QED
    BY <1>2, <2>3, <2>5, <2>6
<1>3. QED
  BY <1>1, <1>2

\* A yes stands exactly when its evidence was kept; an answer refused is noted.
LEMMA TriIs ==
  ASSUME NEW c, IsClaim(c), NEW results, IsSequence(results)
  PROVE  /\ FoundFor(TriOf(c, results).found, c, results)
         /\ TriOf(c, results).answer = "yes" <=> TriOf(c, results).found.findings # <<>>
         /\ TriOf(c, results).found.findings # <<>> => c.answer = "yes"
         /\ c.answer \notin TriAnswers => TriOf(c, results).found.dropped # <<>>
         /\ c.answer = "yes" =>
              \/ TriOf(c, results).found = FindingOf(c, results)
              \/ /\ TriOf(c, results).found.dropped # <<>>
                 /\ FindingOf(c, results).findings = <<>>
<1>1. PICK note : note = Note(c, "not an answer")
  OBVIOUS
<1>11. note.label = c.label
  BY <1>1 DEF Note
<1>2. IsSequence(<<>>) /\ ToSet(<<>>) = {}
  BY DEF IsSequence, ToSet
<1>3. ASSUME NEW why, IsSequence(why), \A d \in ToSet(why) : d.label = c.label
      PROVE  /\ FoundFor([Nothing EXCEPT !.dropped = Append(why, note)], c, results)
             /\ [Nothing EXCEPT !.dropped = Append(why, note)].dropped # <<>>
             /\ [Nothing EXCEPT !.dropped = Append(why, note)].findings = <<>>
  <2>1. [Nothing EXCEPT !.dropped = Append(why, note)]
          = [findings |-> <<>>, dropped |-> Append(why, note)]
    BY DEF Nothing
  <2>2. /\ IsSequence(Append(why, note)) /\ Append(why, note) # <<>>
        /\ \A d \in ToSet(Append(why, note)) : d.label = c.label
    BY <1>3, <1>11, NoteAppended
  <2>3. QED
    BY <2>1, <2>2 DEF FoundFor
<1>4. PICK found : found = FindingOf(c, results)
  OBVIOUS
<1>5. FoundFor(found, c, results)
  BY <1>4, FindingIs DEF IsClaim
<1>6. CASE c.answer \notin TriAnswers
  <2>1. /\ TriOf(c, results).answer = "no_evidence_found"
        /\ TriOf(c, results).found = [Nothing EXCEPT !.dropped = Append(<<>>, note)]
    BY <1>1, <1>4, <1>6 DEF TriOf, TriAnswers, Nothing
  <2>2. c.answer # "yes" /\ "no_evidence_found" # "yes"
    BY <1>6 DEF TriAnswers
  <2>3. QED
    BY <1>2, <1>3, <2>1, <2>2, Zenon
<1>7. CASE c.answer = "yes" /\ found.findings = <<>>
  <2>1. /\ TriOf(c, results).answer = "no_evidence_found"
        /\ TriOf(c, results).found = [Nothing EXCEPT !.dropped = Append(found.dropped, note)]
    BY <1>1, <1>4, <1>7 DEF TriOf, TriAnswers
  <2>2. IsSequence(found.dropped) /\ \A d \in ToSet(found.dropped) : d.label = c.label
    BY <1>5 DEF FoundFor
  <2>3. "no_evidence_found" # "yes" /\ c.answer \in TriAnswers
    BY <1>7 DEF TriAnswers
  <2>4. QED
    BY <1>3, <1>4, <1>7, <2>1, <2>2, <2>3, ZenonT(30)
<1>8. CASE c.answer = "yes" /\ found.findings # <<>>
  <2>1. TriOf(c, results) = [answer |-> "yes", found |-> found]
    BY <1>1, <1>4, <1>8 DEF TriOf, TriAnswers
  <2>2. QED
    BY <1>4, <1>5, <1>8, <2>1 DEF TriAnswers
<1>9. CASE c.answer \in TriAnswers /\ c.answer # "yes"
  <2>1. TriOf(c, results) = [answer |-> c.answer, found |-> Nothing]
    BY <1>1, <1>9 DEF TriOf
  <2>2. Nothing.findings = <<>>
    BY DEF Nothing
  <2>3. QED
    BY <1>9, <2>1, <2>2, NothingFor
<1>10. QED
  BY <1>6, <1>7, <1>8, <1>9

\* What the question of a claim asks for beside its value.
IsAnswered(c) ==
  /\ c.kind = "tri" => c.answer = "yes"
  /\ c.kind \in {"lawsuit", "location"} => c.answer \in Qualified

\* Whatever kind a claim is of, it is kept exactly if the search supports it and its
\* question has nothing against its answer, and noted if not.
LEMMA FoundIs ==
  ASSUME NEW c, IsClaim(c), NEW results, IsSequence(results)
  PROVE  /\ FoundFor(Found(c, results), c, results)
         /\ c.kind = "tri" =>
              (TriOf(c, results).answer = "yes" <=> Found(c, results).findings # <<>>)
         /\ Found(c, results).findings # <<>> => IsAnswered(c)
         /\ c.value # Blank /\ (c.kind = "tri" => c.answer \notin TriAnswers \ {"yes"})
            /\ Found(c, results).findings = <<>> =>
              /\ Found(c, results).dropped # <<>>
              /\ IsAnswered(c) => \A i \in DOMAIN c.urls : ~Known(results, c.urls[i])
<1>1. CASE c.kind = "tri"
  <2>1. Found(c, results) = TriOf(c, results).found
    BY <1>1 DEF Found
  <2>2. IsAnswered(c) <=> c.answer = "yes"
    BY <1>1 DEF IsAnswered
  <2>3. c.answer \notin TriAnswers \ {"yes"} => c.answer = "yes" \/ c.answer \notin TriAnswers
    OBVIOUS
  <2>4. QED
    BY <1>1, <2>1, <2>2, <2>3, TriIs, FindingIs DEF IsClaim, TriAnswers
<1>2. CASE c.kind \in {"lawsuit", "location"}
  <2>1. Found(c, results) = Listed(c, results)
    BY <1>2 DEF Found
  <2>2. IsAnswered(c) <=> c.answer \in Qualified
    BY <1>2 DEF IsAnswered
  <2>3. QED
    BY <1>2, <2>1, <2>2, ListedIs, FindingIs DEF IsClaim
<1>3. CASE c.kind \in {"field", "breach"}
  <2>1. Found(c, results) = FindingOf(c, results)
    BY <1>3 DEF Found
  <2>2. IsAnswered(c)
    BY <1>3 DEF IsAnswered
  <2>3. QED
    BY <1>3, <2>1, <2>2, FindingIs DEF IsClaim
<1>4. QED
  BY <1>1, <1>2, <1>3 DEF IsClaim, Kinds


-----------------------------------------------------------------------------
(* The checklist. *)

\* The claims of a reply are what the parser can read.
LEMMA RepliesAre ==
  ASSUME NEW reply \in Replies
  PROVE  /\ IsSequence(reply) /\ Len(reply) \in Nat /\ DOMAIN reply = 1..Len(reply)
         /\ \A i \in 1..Len(reply) : IsClaim(reply[i]) /\ reply[i] \in ToSet(reply)
         /\ \A c \in ToSet(reply) : IsClaim(c) /\ \E i \in 1..Len(reply) : c = reply[i]
         /\ \A c, d \in ToSet(reply) : c.label = d.label => c = d
<1>1. /\ IsSequence(reply)
      /\ \A i, j \in DOMAIN reply : reply[i].label = reply[j].label => i = j
      /\ \A c \in ToSet(reply) : IsClaim(c)
  BY ResearchAssumption DEF ResearchAssumption, IsClaim
<1>2. Len(reply) \in Nat /\ DOMAIN reply = 1..Len(reply)
  BY <1>1, LenProperties DEF IsSequence
<1>3. ToSet(reply) = {reply[i] : i \in 1..Len(reply)}
  BY <1>1, ToSetSeq DEF IsSequence
<1>4. QED
  BY <1>1, <1>2, <1>3

\* The checklist holds what is found for each claim, and its notes likewise.
IsParsed(research, reply, results) ==
  /\ IsSequence(research.findings) /\ IsSequence(research.dropped)
  /\ IsSequence(research.tris)
  /\ \A f \in ToSet(research.findings) :
       \E c \in ToSet(reply) : f \in ToSet(Found(c, results).findings)
  /\ \A c \in ToSet(reply) :
       /\ ToSet(Found(c, results).findings) \subseteq ToSet(research.findings)
       /\ ToSet(Found(c, results).dropped) \subseteq ToSet(research.dropped)
  /\ \A t \in ToSet(research.tris) :
       \E c \in ToSet(reply) :
         /\ c.kind = "tri" /\ t.label = c.label
         /\ t.answer = TriOf(c, results).answer

\* That is what parseResearch returns.
LEMMA ParsedIs ==
  ASSUME NEW reply \in Replies, NEW results \in Searches
  PROVE  IsParsed(ParseResearch(reply, results), reply, results)
<1>1. PICK n \in Nat : n = Len(reply) /\ DOMAIN reply = 1..n
  BY RepliesAre
<1>2. IsSequence(results)
  BY ResearchAssumption DEF ResearchAssumption
<1>3. ASSUME NEW i \in 1..n
      PROVE  /\ IsSequence(Found(reply[i], results).findings)
             /\ IsSequence(Found(reply[i], results).dropped)
  <2>1. IsClaim(reply[i])
    BY <1>1, RepliesAre
  <2>2. FoundFor(Found(reply[i], results), reply[i], results)
    BY <1>2, <2>1, FoundIs
  <2>3. \A x : IsSequence(<<x>>) /\ IsSequence(<<>>)
    BY DEF IsSequence, ToSet
  <2>4. QED
    BY <2>2, <2>3, Zenon DEF FoundFor
<1>4. PICK fs : fs = [i \in 1..n |-> Found(reply[i], results).findings]
  OBVIOUS
<1>5. PICK ds : ds = [i \in 1..n |-> Found(reply[i], results).dropped]
  OBVIOUS
<1>6. /\ IsSequence(FlattenSeq(fs))
      /\ \A i \in 1..n : ToSet(fs[i]) \subseteq ToSet(FlattenSeq(fs))
      /\ \A x \in ToSet(FlattenSeq(fs)) : \E i \in 1..n : x \in ToSet(fs[i])
  <2>1. fs = [i \in 1..n |-> fs[i]] /\ \A i \in 1..n : IsSequence(fs[i])
    BY <1>3, <1>4
  <2>2. QED
    BY <2>1, SlicesTogether
<1>7. /\ IsSequence(FlattenSeq(ds))
      /\ \A i \in 1..n : ToSet(ds[i]) \subseteq ToSet(FlattenSeq(ds))
  <2>1. ds = [i \in 1..n |-> ds[i]] /\ \A i \in 1..n : IsSequence(ds[i])
    BY <1>3, <1>5
  <2>2. QED
    BY <2>1, SlicesTogether
<1>8. PICK I \in SUBSET (1..n) : I = {i \in 1..n : reply[i].kind = "tri"}
  OBVIOUS
<1>9. PICK tris : tris = Subsequence(reply, I)
  OBVIOUS
<1>19. /\ tris \in Seq(ToSet(reply))
       /\ {tris[k] : k \in 1..Len(tris)} = {reply[i] : i \in I}
  <2>1. reply \in Seq(ToSet(reply)) /\ I \in SUBSET (1..Len(reply))
    BY <1>1, RepliesAre DEF IsSequence
  <2>2. /\ Subsequence(reply, I) \in Seq(ToSet(reply))
        /\ {Subsequence(reply, I)[k] : k \in 1..Len(Subsequence(reply, I))} = {reply[i] : i \in I}
    BY <2>1, SubsequenceProperties, ZenonT(30)
  <2>3. QED
    BY <1>9, <2>2
<1>10. PICK m \in Nat : m = Len(tris) /\ DOMAIN tris = 1..m
  BY <1>19, LenProperties
<1>11. PICK ts : ts = [k \in 1..m |-> [label |-> tris[k].label,
                                       answer |-> TriOf(tris[k], results).answer]]
  OBVIOUS
<1>12. /\ ParseResearch(reply, results).findings = FlattenSeq(fs)
       /\ ParseResearch(reply, results).dropped = FlattenSeq(ds)
       /\ ParseResearch(reply, results).tris = ts
  BY <1>1, <1>4, <1>5, <1>8, <1>9, <1>10, <1>11 DEF ParseResearch
<1>13. \A f \in ToSet(FlattenSeq(fs)) :
         \E c \in ToSet(reply) : f \in ToSet(Found(c, results).findings)
  <2>1. SUFFICES ASSUME NEW f \in ToSet(FlattenSeq(fs))
                 PROVE  \E c \in ToSet(reply) : f \in ToSet(Found(c, results).findings)
    OBVIOUS
  <2>2. PICK i \in 1..n : f \in ToSet(fs[i])
    BY <1>6
  <2>3. reply[i] \in ToSet(reply)
    BY <1>1, RepliesAre
  <2>4. fs[i] = Found(reply[i], results).findings
    BY <1>4
  <2>5. QED
    BY <2>2, <2>3, <2>4
<1>14. ASSUME NEW c \in ToSet(reply)
       PROVE  /\ ToSet(Found(c, results).findings) \subseteq ToSet(FlattenSeq(fs))
              /\ ToSet(Found(c, results).dropped) \subseteq ToSet(FlattenSeq(ds))
  <2>1. PICK i \in 1..n : c = reply[i]
    BY <1>1, RepliesAre
  <2>2. fs[i] = Found(c, results).findings /\ ds[i] = Found(c, results).dropped
    BY <1>4, <1>5, <2>1
  <2>3. QED
    BY <1>6, <1>7, <2>2
<1>15. ASSUME NEW k \in 1..m
       PROVE  /\ tris[k] \in ToSet(reply) /\ tris[k].kind = "tri"
              /\ ts[k].label = tris[k].label
              /\ ts[k].answer = TriOf(tris[k], results).answer
  <2>1. PICK i \in I : tris[k] = reply[i]
    BY <1>10, <1>19
  <2>2. tris[k] \in ToSet(reply)
    BY <1>10, <1>19
  <2>3. QED
    BY <1>8, <1>11, <2>1, <2>2
<1>16. IsSequence(ts) /\ ToSet(ts) = {ts[k] : k \in 1..m}
  <2>1. ts \in [1..m -> {ts[k] : k \in 1..m}]
    BY <1>11
  <2>3. ts \in Seq({ts[k] : k \in 1..m}) /\ Len(ts) = m
    BY <2>1
  <2>2. QED
    BY <2>3, SeqOfItsOwn, ToSetSeq DEF IsSequence
<1>17. \A t \in ToSet(ts) :
         \E c \in ToSet(reply) :
           /\ c.kind = "tri" /\ t.label = c.label
           /\ t.answer = TriOf(c, results).answer
  BY <1>15, <1>16
<1>18. QED
  BY <1>6, <1>7, <1>12, <1>13, <1>14, <1>16, <1>17, Zenon DEF IsParsed


\* A list that is not empty has an element.
LEMMA FirstIsIn ==
  ASSUME NEW s, IsSequence(s), s # <<>>
  PROVE  \E x : x \in ToSet(s)
<1>1. PICK t \in Seq(ToSet(s)) : t = s
  BY DEF IsSequence
<1>2. 1 \in 1..Len(t) /\ ToSet(t) = {t[i] : i \in 1..Len(t)}
  <2>1. Len(t) # 0
    BY <1>1
  <2>2. QED
    BY <2>1, ToSetSeq
<1>3. QED
  BY <1>1, <1>2

\* A finding is its claim with the citations that were kept.
IsFinding(f, c, results) ==
  /\ f.label = c.label /\ f.kind = c.kind /\ f.value = c.value /\ f.place = c.place
  /\ IsCited(f.citations, c.urls, results) /\ f.citations # <<>>

\* Its citations are the claim's and the search's.
LEMMA FindingCites ==
  ASSUME NEW f, NEW c, NEW results, IsSequence(results), IsFinding(f, c, results),
         NEW r \in ToSet(f.citations)
  PROVE  CitedBy(c, r) /\ Contains(results, r) /\ r \in ToSet(results) /\ Page[r.url] # Blank
<1>1. PICK k \in DOMAIN f.citations : r = f.citations[k]
  BY DEF ToSet
<1>2. /\ r \in ToSet(results) /\ Page[r.url] # Blank
      /\ \E i \in DOMAIN c.urls : Page[c.urls[i]] = Page[r.url]
  BY <1>1 DEF IsFinding, IsCited
<1>3. ToSet(results) = {results[j] : j \in 1..Len(results)}
  BY ToSetSeq DEF IsSequence
<1>4. QED
  BY <1>2, <1>3 DEF CitedBy, Contains

\* Whatever is found for a claim is one.
LEMMA FoundAreFindings ==
  ASSUME NEW c, IsClaim(c), NEW results, IsSequence(results)
  PROVE  /\ \A f \in ToSet(Found(c, results).findings) : IsFinding(f, c, results)
         /\ Found(c, results).findings # <<>> <=> ToSet(Found(c, results).findings) # {}
<1>1. PICK found : found = Found(c, results)
  OBVIOUS
<1>2. FoundFor(found, c, results)
  BY <1>1, FoundIs
<1>3. \A x : ToSet(<<x>>) = {x} /\ <<x>> # <<>> /\ ToSet(<<>>) = {}
  BY DEF ToSet
<1>4. CASE found.findings = <<>>
  BY <1>1, <1>3, <1>4
<1>5. CASE found.findings # <<>>
  <2>1. PICK kept : /\ kept # <<>> /\ IsCited(kept, c.urls, results)
                    /\ found.findings = <<[label |-> c.label, kind |-> c.kind, value |-> c.value,
                                           place |-> c.place, citations |-> kept]>>
    BY <1>2, <1>5, Zenon DEF FoundFor
  <2>2. PICK f : f = [label |-> c.label, kind |-> c.kind, value |-> c.value,
                      place |-> c.place, citations |-> kept]
    OBVIOUS
  <2>3. f.citations = kept
    BY <2>2
  <2>4. IsFinding(f, c, results)
    BY <2>1, <2>2 DEF IsFinding
  <2>5. ToSet(found.findings) = {f}
    BY <1>3, <2>1, <2>2, Zenon
  <2>6. QED
    BY <1>1, <1>5, <2>4, <2>5
<1>6. QED
  BY <1>4, <1>5

\* The checklist was made from a reply to a search, or there is none.
ResearchInv ==
  \/ /\ asked = NoReply /\ checked = Unchecked
     /\ \E status \in {"none", "skipped", "failed"} :
          section = [NoSection EXCEPT !.status = status]
  \/ /\ asked.reply \in Replies /\ asked.results \in Searches
     /\ checked = ParseResearch(asked.reply, asked.results)
     /\ section = SectionOf(checked)

\* At first there is none.
LEMMA ResearchInvInit == ResearchInit => ResearchInv
<1>1. NoSection = [NoSection EXCEPT !.status = "none"]
  BY DEF NoSection
<1>2. QED
  BY <1>1 DEF ResearchInit, ResearchInv

\* Fetch makes it once, and nothing changes it after that.
LEMMA ResearchInvStep == ResearchInv /\ (Fetch \/ UNCHANGED researchVars) => ResearchInv'
<1>1. SUFFICES ASSUME ResearchInv, Fetch \/ UNCHANGED researchVars PROVE ResearchInv'
  OBVIOUS
<1>2. CASE ResearchSkipped \/ ResearchFails
  <2>1. /\ section = NoSection /\ UNCHANGED <<asked, checked>>
        /\ \/ section' = [NoSection EXCEPT !.status = "skipped"]
           \/ section' = [NoSection EXCEPT !.status = "failed"]
    BY <1>2 DEF ResearchSkipped, ResearchFails
  <2>2. section.status = "none"
    BY <2>1 DEF NoSection
  <2>3. SectionOf(checked).status \in {"ok", "failed"}
    BY DEF SectionOf, NoSection
  <2>4. asked = NoReply /\ checked = Unchecked
    BY <1>1, <2>2, <2>3 DEF ResearchInv
  <2>5. \E status \in {"none", "skipped", "failed"} :
          section' = [NoSection EXCEPT !.status = status]
    BY <2>1
  <2>6. QED
    BY <2>1, <2>4, <2>5 DEF ResearchInv
<1>3. CASE ResearchAnswers
  <2>1. PICK reply \in Replies, results \in Searches :
          /\ asked' = [reply |-> reply, results |-> results]
          /\ checked' = ParseResearch(reply, results)
    BY <1>3 DEF ResearchAnswers
  <2>2. asked'.reply = reply /\ asked'.results = results
    BY <2>1
  <2>3. section' = SectionOf(checked')
    BY <1>3 DEF ResearchAnswers
  <2>4. QED
    BY <2>1, <2>2, <2>3 DEF ResearchInv
<1>4. CASE UNCHANGED researchVars
  BY <1>1, <1>4 DEF researchVars, ResearchInv
<1>5. QED
  BY <1>1, <1>2, <1>3, <1>4 DEF Fetch

\* What the parser was given and what it made of that.
LEMMA CheckedIs ==
  ASSUME ResearchInv, asked # NoReply \/ section.status = "ok"
  PROVE  /\ asked.reply \in Replies /\ asked.results \in Searches
         /\ IsSequence(asked.results)
         /\ IsParsed(checked, asked.reply, asked.results)
         /\ section = SectionOf(checked)
<1>1. /\ asked.reply \in Replies /\ asked.results \in Searches
      /\ checked = ParseResearch(asked.reply, asked.results)
      /\ section = SectionOf(checked)
  <2>1. \A status : [NoSection EXCEPT !.status = status].status = status
    BY DEF NoSection
  <2>2. QED
    BY <2>1 DEF ResearchInv
<1>2. IsSequence(asked.results)
  BY <1>1, ResearchAssumption DEF ResearchAssumption
<1>3. QED
  BY <1>1, <1>2, ParsedIs

\* The caps on citations and on the notes that are shown hold.
LEMMA ResearchIsTyped == ResearchInv => ResearchTypeOK
<1>1. SUFFICES ASSUME ResearchInv PROVE ResearchTypeOK
  OBVIOUS
<1>2. MaxShown \in Nat
  BY ResearchAssumption DEF ResearchAssumption
<1>3. CASE asked = NoReply /\ checked = Unchecked /\ section.shown = <<>>
           /\ section.status \in {"none", "skipped", "failed"}
  <2>1. DOMAIN checked.findings = {} /\ Len(section.shown) <= MaxShown
    BY <1>2, <1>3 DEF Unchecked
  <2>2. QED
    BY <1>3, <2>1 DEF ResearchTypeOK, NoReply
<1>4. CASE /\ asked.reply \in Replies /\ asked.results \in Searches
           /\ checked = ParseResearch(asked.reply, asked.results)
           /\ section = SectionOf(checked)
  <2>1. IsParsed(checked, asked.reply, asked.results) /\ IsSequence(asked.results)
    BY <1>4, ParsedIs, ResearchAssumption DEF ResearchAssumption
  <2>2. ASSUME NEW i \in DOMAIN checked.findings
        PROVE  Len(checked.findings[i].citations) <= MaxCitations
    <3>1. PICK f : f = checked.findings[i]
      OBVIOUS
    <3>2. f \in ToSet(checked.findings)
      BY <3>1 DEF ToSet
    <3>3. PICK c \in ToSet(asked.reply) : f \in ToSet(Found(c, asked.results).findings)
      BY <2>1, <3>2 DEF IsParsed
    <3>4. IsClaim(c)
      BY <1>4, RepliesAre
    <3>5. IsFinding(f, c, asked.results)
      BY <2>1, <3>3, <3>4, FoundAreFindings
    <3>6. QED
      BY <3>1, <3>5 DEF IsFinding, IsCited
  <2>3. section.status \in {"ok", "failed"} /\ Len(section.shown) <= MaxShown
    <3>1. CASE Answered(checked) > 0
      BY <1>2, <1>4, <3>1 DEF SectionOf, NoSection
    <3>2. CASE ~(Answered(checked) > 0)
      <4>1. PICK dropped \in Seq(ToSet(checked.dropped)) : dropped = checked.dropped
        BY <2>1 DEF IsParsed, IsSequence
      <4>2. section.status = "failed" /\ section.shown = Upto(dropped, MaxShown)
        BY <1>4, <3>2, <4>1 DEF SectionOf
      <4>3. Len(Upto(dropped, MaxShown))
              = IF MaxShown <= Len(dropped) THEN MaxShown ELSE Len(dropped)
        BY <1>2, BeginningProperties DEF Upto
      <4>4. QED
        BY <1>2, <4>2, <4>3
    <3>3. QED
      BY <3>1, <3>2
  <2>4. QED
    BY <1>4, <2>2, <2>3 DEF ResearchTypeOK
<1>5. QED
  <2>1. \A status : /\ [NoSection EXCEPT !.status = status].status = status
                    /\ [NoSection EXCEPT !.status = status].shown = <<>>
    BY DEF NoSection
  <2>2. QED
    BY <1>1, <1>3, <1>4, <2>1, Zenon DEF ResearchInv

\* The findings are cited, and each yes has one.
LEMMA CheckedAreCited == ResearchInv => FindingsAreCited
<1>1. SUFFICES ASSUME ResearchInv PROVE FindingsAreCited
  OBVIOUS
<1>2. CASE checked = Unchecked
  <2>1. DOMAIN checked.findings = {} /\ ToSet(checked.tris) = {}
    BY <1>2 DEF Unchecked, ToSet
  <2>2. QED
    BY <2>1 DEF FindingsAreCited
<1>3. CASE /\ asked.reply \in Replies /\ asked.results \in Searches
           /\ checked = ParseResearch(asked.reply, asked.results)
  <2>1. IsParsed(checked, asked.reply, asked.results) /\ IsSequence(asked.results)
    BY <1>3, ParsedIs, ResearchAssumption DEF ResearchAssumption
  <2>2. \A c \in ToSet(asked.reply) : IsClaim(c)
    BY <1>3, RepliesAre
  <2>3. ASSUME NEW f \in ToSet(checked.findings)
        PROVE  \E c \in ToSet(asked.reply) : IsFinding(f, c, asked.results)
    <3>1. PICK c \in ToSet(asked.reply) : f \in ToSet(Found(c, asked.results).findings)
      BY <2>1, <2>3 DEF IsParsed
    <3>2. QED
      BY <2>1, <2>2, <3>1, FoundAreFindings
  <2>4. ASSUME NEW i \in DOMAIN checked.findings, NEW f, f = checked.findings[i]
        PROVE  /\ Len(f.citations) \in 1..MaxCitations
               /\ Cardinality({Page[f.citations[j].url] : j \in DOMAIN f.citations})
                    = Len(f.citations)
               /\ \E c \in ToSet(asked.reply) :
                    /\ c.label = f.label /\ c.value = f.value
                    /\ \A r \in ToSet(f.citations) : CitedBy(c, r) /\ Contains(asked.results, r)
    <3>1. f \in ToSet(checked.findings)
      BY <2>4 DEF ToSet
    <3>2. PICK c \in ToSet(asked.reply) : IsFinding(f, c, asked.results)
      BY <2>3, <3>1
    <3>3. PICK kept : kept = f.citations
      OBVIOUS
    <3>4. IsCited(kept, c.urls, asked.results) /\ kept # <<>>
      BY <3>2, <3>3 DEF IsFinding
    <3>5. PICK m \in Nat : m = Len(kept) /\ DOMAIN kept = 1..m
      BY <3>4, LenProperties DEF IsCited, IsSequence
    <3>6. m \in 1..MaxCitations
      <4>1. m # 0
        BY <3>4, <3>5 DEF IsCited, IsSequence
      <4>2. m <= MaxCitations /\ MaxCitations \in Nat
        BY <3>4, <3>5, ResearchAssumption DEF IsCited, ResearchAssumption
      <4>3. QED
        BY <4>1, <4>2
    <3>7. Cardinality({Page[kept[j].url] : j \in 1..m}) = m
      <4>1. PICK g : g = [j \in 1..m |-> Page[kept[j].url]]
        OBVIOUS
      <4>2. g = [j \in 1..m |-> g[j]] /\ \A j, k \in 1..m : g[j] = g[k] => j = k
        BY <3>4, <3>5, <4>1 DEF IsCited
      <4>3. IsFiniteSet(1..m) /\ Cardinality(1..m) = m
        <5>1. Cardinality(1..m) = IF 1 > m THEN 0 ELSE m - 1 + 1
          BY FS_Interval
        <5>2. QED
          BY <5>1, FS_Interval
      <4>4. Cardinality({g[j] : j \in 1..m}) = m
        BY <4>2, <4>3, ImageCount
      <4>5. {g[j] : j \in 1..m} = {Page[kept[j].url] : j \in 1..m}
        BY <4>1
      <4>6. QED
        BY <4>4, <4>5
    <3>8. ASSUME NEW r \in ToSet(kept)
          PROVE  CitedBy(c, r) /\ Contains(asked.results, r)
      BY <2>1, <3>2, <3>3, <3>8, FindingCites
    <3>9. c.label = f.label /\ c.value = f.value
      BY <3>2 DEF IsFinding
    <3>10. QED
      BY <3>3, <3>5, <3>6, <3>7, <3>8, <3>9
  <2>5. ASSUME NEW t \in ToSet(checked.tris)
        PROVE  t.answer = "yes" <=> \E f \in ToSet(checked.findings) : f.label = t.label
    <3>1. PICK c \in ToSet(asked.reply) : /\ c.kind = "tri" /\ t.label = c.label
                                          /\ t.answer = TriOf(c, asked.results).answer
      BY <2>1 DEF IsParsed
    <3>2. t.answer = "yes" <=> ToSet(Found(c, asked.results).findings) # {}
      BY <2>1, <2>2, <3>1, FoundIs, FoundAreFindings
    <3>3. ASSUME NEW f \in ToSet(checked.findings), f.label = t.label
          PROVE  f \in ToSet(Found(c, asked.results).findings)
      <4>1. PICK d \in ToSet(asked.reply) : f \in ToSet(Found(d, asked.results).findings)
        BY <2>1 DEF IsParsed
      <4>2. f.label = d.label
        BY <2>1, <2>2, <4>1, FoundAreFindings DEF IsFinding
      <4>3. d = c
        <5>1. \A x, y \in ToSet(asked.reply) : x.label = y.label => x = y
          BY <1>3, RepliesAre
        <5>2. d.label = c.label
          BY <3>1, <3>3, <4>2
        <5>3. QED
          BY <5>1, <5>2, Zenon
      <4>4. QED
        BY <4>1, <4>3
    <3>4. ASSUME NEW f \in ToSet(Found(c, asked.results).findings)
          PROVE  f \in ToSet(checked.findings) /\ f.label = t.label
      <4>1. f.label = c.label
        BY <2>1, <2>2, FoundAreFindings DEF IsFinding
      <4>2. QED
        BY <2>1, <3>1, <4>1 DEF IsParsed
    <3>5. QED
      BY <3>2, <3>3, <3>4
  <2>6. QED
    BY <2>4, <2>5, Zenon DEF FindingsAreCited
<1>4. QED
  BY <1>1, <1>2, <1>3 DEF ResearchInv


-----------------------------------------------------------------------------
(* A section of the report. *)

\* What the report is given: a section, none of whose own lines is one that only the
\* report prints.
IsSection(s) ==
  /\ s.status \in {"ok", "failed", "skipped"}
  /\ IsSequence(s.list) /\ IsSequence(s.lines)
  /\ \A l \in ToSet(s.lines) : l.what \notin {"summary", "heading", "row", "held"}

Heading(s) == [what |-> "heading", source |-> s.source, outcome |-> OutcomeOf(s)]

\* How a section is laid out: its heading, its n lines, c rows of its list and h lines
\* that say how many more there are.
IsLaid(p, s, all, n, c, h) ==
  /\ n \in Nat /\ c \in Nat /\ h \in {0, 1}
  /\ IsSequence(p) /\ Len(p) = 1 + n + c + h
  /\ p[1] = Heading(s)
  /\ n = Len(s.lines) /\ \A j \in 1..n : p[1 + j] = s.lines[j]
  /\ \A j \in 1..c : p[1 + n + j] = [what |-> "row", row |-> s.list[j]]
  /\ h = 1 => p[2 + n + c] = [what |-> "held", more |-> Len(s.list) - c]
  /\ IF s.status # "ok" THEN c = 0 /\ h = 0
       ELSE IF c = Len(s.list) THEN h = 0 ELSE h = 1 /\ ~all

\* The rows that are printed are the first of the list, all of them under --full.
LEMMA CappedIs ==
  ASSUME NEW list, IsSequence(list), NEW all \in BOOLEAN
  PROVE  /\ IsSequence(Capped(list, all)) /\ Len(Capped(list, all)) \in 0..Len(list)
         /\ Len(list) \in Nat
         /\ Len(Capped(list, all)) # Len(list) => ~all
<1>1. PICK rows \in Seq(ToSet(list)) : rows = list
  BY DEF IsSequence
<1>2. Len(rows) \in Nat /\ DetailCap \in Nat
  BY ReportAssumption DEF ReportAssumption
<1>3. CASE all
  BY <1>1, <1>2, <1>3 DEF Capped
<1>4. CASE ~all
  <2>1. PICK first : first = SubSeq(rows, 1, Min({DetailCap, Len(rows)}))
    OBVIOUS
  <2>2. /\ first \in Seq(ToSet(list))
        /\ Len(first) = IF DetailCap <= Len(rows) THEN DetailCap ELSE Len(rows)
    BY <1>2, <2>1, BeginningProperties
  <2>3. Capped(list, all) = first
    BY <1>1, <1>4, <2>1 DEF Capped
  <2>4. IsSequence(first)
    BY <2>2, SeqOfItsOwn DEF IsSequence
  <2>5. QED
    BY <1>1, <1>2, <1>4, <2>2, <2>3, <2>4
<1>5. QED
  BY <1>3, <1>4

\* A heading and three pieces behind it, in their places.
InPieces(p, T, head, x, y, z) ==
  /\ p \in Seq(T) /\ Len(p) = 1 + Len(x) + Len(y) + Len(z)
  /\ p[1] = head
  /\ \A j \in 1..Len(x) : p[1 + j] = x[j]
  /\ \A j \in 1..Len(y) : p[1 + Len(x) + j] = y[j]
  /\ \A j \in 1..Len(z) : p[1 + Len(x) + Len(y) + j] = z[j]

\* That is where joining puts them.
LEMMA FourPieces ==
  ASSUME NEW T, NEW head \in T, NEW x \in Seq(T), NEW y \in Seq(T), NEW z \in Seq(T)
  PROVE  InPieces(<<head>> \o (x \o y \o z), T, head, x, y, z)
<1>13. PICK all : all = <<head>> \o (x \o y \o z)
  OBVIOUS
<1>1. ASSUME NEW u \in Seq(T), NEW v \in Seq(T)
      PROVE  /\ u \o v \in Seq(T) /\ Len(u \o v) = Len(u) + Len(v)
             /\ \A j \in 1..Len(u) : (u \o v)[j] = u[j]
             /\ \A j \in 1..Len(v) : (u \o v)[Len(u) + j] = v[j]
  OBVIOUS
<1>2. PICK xy : xy = x \o y
  OBVIOUS
<1>3. /\ xy \in Seq(T) /\ Len(xy) = Len(x) + Len(y)
      /\ \A j \in 1..Len(x) : xy[j] = x[j]
      /\ \A j \in 1..Len(y) : xy[Len(x) + j] = y[j]
  BY <1>1, <1>2
<1>4. PICK xyz : xyz = xy \o z
  OBVIOUS
<1>5. /\ xyz \in Seq(T) /\ Len(xyz) = Len(xy) + Len(z)
      /\ \A j \in 1..Len(xy) : xyz[j] = xy[j]
      /\ \A j \in 1..Len(z) : xyz[Len(xy) + j] = z[j]
  BY <1>1, <1>3, <1>4, ZenonT(30)
<1>6. /\ all \in Seq(T) /\ Len(all) = 1 + Len(xyz) /\ all[1] = head
      /\ \A j \in 1..Len(xyz) : all[1 + j] = xyz[j]
  <2>1. all = <<head>> \o xyz
    BY <1>2, <1>4, <1>13
  <2>6. <<head>> \in Seq(T) /\ Len(<<head>>) = 1 /\ <<head>>[1] = head
    OBVIOUS
  <2>2. PICK h \in Seq(T) : h = <<head>> /\ Len(h) = 1 /\ h[1] = head
    BY <2>6
  <2>3. /\ h \o xyz \in Seq(T) /\ Len(h \o xyz) = Len(h) + Len(xyz)
        /\ \A j \in 1..Len(h) : (h \o xyz)[j] = h[j]
        /\ \A j \in 1..Len(xyz) : (h \o xyz)[Len(h) + j] = xyz[j]
    BY <1>1, <1>5, <2>2, Zenon
  <2>4. all = h \o xyz /\ 1 \in 1..Len(h)
    BY <2>1, <2>2
  <2>5. QED
    BY <2>2, <2>3, <2>4
<1>7. PICK a \in Nat, b \in Nat, c \in Nat : a = Len(x) /\ b = Len(y) /\ c = Len(z)
  OBVIOUS
<1>8. Len(xy) = a + b /\ Len(xyz) = a + b + c /\ Len(all) = 1 + a + b + c
  BY <1>3, <1>5, <1>6, <1>7
<1>9. ASSUME NEW j \in 1..a PROVE all[1 + j] = x[j]
  <2>1. j \in 1..Len(xy) /\ j \in 1..Len(xyz)
    BY <1>7, <1>8
  <2>2. QED
    BY <1>3, <1>5, <1>6, <1>7, <2>1
<1>10. ASSUME NEW j \in 1..b PROVE all[1 + a + j] = y[j]
  <2>1. a + j \in 1..Len(xy) /\ a + j \in 1..Len(xyz) /\ 1 + (a + j) = 1 + a + j
    BY <1>7, <1>8
  <2>2. all[1 + (a + j)] = xyz[a + j] /\ xyz[a + j] = xy[a + j] /\ xy[a + j] = y[j]
    BY <1>3, <1>5, <1>6, <1>7, <2>1
  <2>3. QED
    BY <2>1, <2>2
<1>11. ASSUME NEW j \in 1..c PROVE all[1 + a + b + j] = z[j]
  <2>1. a + b + j \in 1..Len(xyz) /\ 1 + (a + b + j) = 1 + a + b + j
    BY <1>7, <1>8
  <2>2. all[1 + (a + b + j)] = xyz[a + b + j] /\ xyz[a + b + j] = z[j]
    BY <1>5, <1>6, <1>7, <1>8, <2>1
  <2>3. QED
    BY <2>1, <2>2
<1>12. QED
  BY <1>6, <1>7, <1>8, <1>9, <1>10, <1>11, <1>13 DEF InPieces

\* Every section is laid out so.
LEMMA SectionIsLaid ==
  ASSUME NEW s, IsSection(s), NEW all \in BOOLEAN
  PROVE  \E n, c, h \in Nat : IsLaid(SectionLines(s, all), s, all, n, c, h)
<1>1. PICK head : head = Heading(s)
  OBVIOUS
<1>2. PICK n \in Nat : n = Len(s.lines)
  BY LenProperties DEF IsSection, IsSequence
<1>3. s.lines \in Seq(ToSet(s.lines))
  BY DEF IsSection, IsSequence
<1>4. CASE s.status # "ok"
  <2>1. PICK T : T = ToSet(s.lines) \cup {head}
    OBVIOUS
  <2>2. s.lines \in Seq(T) /\ head \in T
    BY <1>3, <2>1
  <2>3. PICK p : p = <<head>> \o s.lines
    OBVIOUS
  <2>4. /\ p \in Seq(T) /\ Len(p) = 1 + n /\ p[1] = head
        /\ \A j \in 1..n : p[1 + j] = s.lines[j]
    BY <1>2, <2>2, <2>3
  <2>5. SectionLines(s, all) = p
    BY <1>1, <1>4, <2>3 DEF SectionLines, Heading
  <2>6. IsSequence(p)
    BY <2>4, SeqOfItsOwn DEF IsSequence
  <2>7. IsLaid(p, s, all, n, 0, 0)
    BY <1>1, <1>2, <1>4, <2>4, <2>6 DEF IsLaid
  <2>8. QED
    BY <2>5, <2>7
<1>5. CASE s.status = "ok"
  <2>1. PICK m \in Nat, c \in Nat : /\ m = Len(s.list) /\ c = Len(Capped(s.list, all))
                                    /\ DOMAIN Capped(s.list, all) = 1..c
                                    /\ c <= m /\ (c # m => ~all)
    <3>1. /\ IsSequence(Capped(s.list, all)) /\ Len(Capped(s.list, all)) \in 0..Len(s.list)
          /\ Len(s.list) \in Nat
          /\ Len(Capped(s.list, all)) # Len(s.list) => ~all
      BY CappedIs DEF IsSection
    <3>2. DOMAIN Capped(s.list, all) = 1..Len(Capped(s.list, all))
      BY <3>1, LenProperties DEF IsSequence
    <3>3. QED
      BY <3>1, <3>2
  <2>2. PICK rows : rows = [j \in 1..c |-> [what |-> "row", row |-> s.list[j]]]
    OBVIOUS
  <2>3. PICK last : last = [what |-> "held", more |-> m - c]
    OBVIOUS
  <2>4. PICK held : held = IF m - c = 0 THEN <<>> ELSE <<last>>
    OBVIOUS
  <2>5. PICK T : T = ToSet(s.lines) \cup {head} \cup {rows[j] : j \in 1..c} \cup {last}
    OBVIOUS
  <2>6. s.lines \in Seq(T) /\ head \in T
    BY <1>3, <2>5
  <2>7. rows \in Seq(T) /\ Len(rows) = c
    <3>1. rows \in [1..c -> T]
      BY <2>2, <2>5
    <3>2. QED
      BY <3>1
  <2>8. PICK h \in {0, 1} : /\ held \in Seq(T) /\ Len(held) = h
                            /\ h = 0 <=> c = m
                            /\ h = 1 => held[1] = last
    <3>1. CASE c = m
      <4>1. held = <<>>
        BY <2>4, <3>1
      <4>2. QED
        BY <3>1, <4>1
    <3>2. CASE c # m
      <4>1. held = <<last>> /\ last \in T
        BY <2>4, <2>5, <3>2
      <4>2. held \in Seq(T) /\ Len(held) = 1 /\ held[1] = last
        BY <4>1
      <4>3. QED
        BY <3>2, <4>2
    <3>3. QED
      BY <3>1, <3>2
  <2>9. PICK p : p = <<head>> \o (s.lines \o rows \o held)
    OBVIOUS
  <2>10. /\ p \in Seq(T) /\ Len(p) = 1 + n + c + h /\ p[1] = head
         /\ \A j \in 1..n : p[1 + j] = s.lines[j]
         /\ \A j \in 1..c : p[1 + n + j] = rows[j]
         /\ \A j \in 1..h : p[1 + n + c + j] = held[j]
    <3>1. /\ p \in Seq(T) /\ Len(p) = 1 + Len(s.lines) + Len(rows) + Len(held)
          /\ p[1] = head
          /\ \A j \in 1..Len(s.lines) : p[1 + j] = s.lines[j]
          /\ \A j \in 1..Len(rows) : p[1 + Len(s.lines) + j] = rows[j]
          /\ \A j \in 1..Len(held) : p[1 + Len(s.lines) + Len(rows) + j] = held[j]
      <4>1. s.lines \in Seq(T) /\ rows \in Seq(T) /\ held \in Seq(T) /\ head \in T
        BY <2>6, <2>7, <2>8
      <4>2. InPieces(p, T, head, s.lines, rows, held)
        BY <2>9, <4>1, FourPieces, Zenon
      <4>3. QED
        BY <4>2 DEF InPieces
    <3>2. QED
      BY <1>2, <2>7, <2>8, <3>1
  <2>11. SectionLines(s, all) = p
    BY <1>1, <1>5, <2>1, <2>2, <2>3, <2>4, <2>9 DEF SectionLines, DataLines, Held, Heading
  <2>12. IsSequence(p)
    BY <2>10, SeqOfItsOwn DEF IsSequence
  <2>13. \A j \in 1..c : p[1 + n + j] = [what |-> "row", row |-> s.list[j]]
    BY <2>2, <2>10
  <2>14. h = 1 => p[2 + n + c] = [what |-> "held", more |-> Len(s.list) - c]
    <3>1. SUFFICES ASSUME h = 1 PROVE p[2 + n + c] = last
      BY <2>1, <2>3
    <3>2. 1 + n + c + 1 = 2 + n + c /\ 1 \in 1..h
      BY <3>1
    <3>3. QED
      BY <2>8, <2>10, <3>1, <3>2
  <2>15. IsLaid(p, s, all, n, c, h)
    <3>1. IF c = Len(s.list) THEN h = 0 ELSE h = 1 /\ ~all
      BY <2>1, <2>8
    <3>2. QED
      BY <1>1, <1>2, <1>5, <2>8, <2>10, <2>12, <2>13, <2>14, <3>1 DEF IsLaid
  <2>16. h \in Nat
    BY <2>8
  <2>17. QED
    BY <2>11, <2>15, <2>16
<1>6. QED
  BY <1>4, <1>5

-----------------------------------------------------------------------------
(* The report. *)

\* The kinds of line stay apart: behind the heading come the section's own lines, then
\* rows, then what is held back.
LEMMA LinesApart ==
  ASSUME NEW s, IsSection(s), NEW all, NEW p, NEW n, NEW c, NEW h,
         IsLaid(p, s, all, n, c, h), NEW j \in 1..Len(p)
  PROVE  /\ p[j].what = "heading" <=> j = 1
         /\ p[j].what = "row" <=> j \in (n + 2)..(n + c + 1)
         /\ p[j].what = "held" <=> j \in (n + c + 2)..(n + c + h + 1)
         /\ p[j].what \in {"heading", "row", "held"} \/ j - 1 \in 1..n
<1>1. n \in Nat /\ c \in Nat /\ h \in {0, 1} /\ j \in 1..(1 + n + c + h)
  BY DEF IsLaid
<1>2. CASE j = 1
  <2>1. p[j].what = "heading"
    BY <1>2 DEF IsLaid, Heading
  <2>2. j \notin (n + 2)..(n + c + 1) /\ j \notin (n + c + 2)..(n + c + h + 1)
    BY <1>1, <1>2
  <2>3. QED
    BY <1>2, <2>1, <2>2
<1>3. CASE j \in 2..(n + 1)
  <2>1. j - 1 \in 1..n /\ 1 + (j - 1) = j
    BY <1>1, <1>3
  <2>2. p[1 + (j - 1)] = s.lines[j - 1]
    BY <2>1 DEF IsLaid
  <2>3. s.lines[j - 1] \in ToSet(s.lines)
    <3>1. ToSet(s.lines) = {s.lines[i] : i \in 1..Len(s.lines)}
      BY ToSetSeq DEF IsSection, IsSequence
    <3>2. n = Len(s.lines)
      BY DEF IsLaid
    <3>3. QED
      BY <2>1, <3>1, <3>2
  <2>4. p[j].what \notin {"summary", "heading", "row", "held"}
    BY <2>1, <2>2, <2>3 DEF IsSection
  <2>5. j # 1 /\ j \notin (n + 2)..(n + c + 1) /\ j \notin (n + c + 2)..(n + c + h + 1)
    BY <1>1, <1>3
  <2>6. QED
    BY <2>1, <2>4, <2>5
<1>4. CASE j \in (n + 2)..(n + c + 1)
  <2>1. j - 1 - n \in 1..c /\ 1 + n + (j - 1 - n) = j
    BY <1>1, <1>4
  <2>2. p[1 + n + (j - 1 - n)] = [what |-> "row", row |-> s.list[j - 1 - n]]
    BY <2>1 DEF IsLaid
  <2>3. p[j].what = "row"
    BY <2>1, <2>2
  <2>4. j # 1 /\ j \notin (n + c + 2)..(n + c + h + 1)
    BY <1>1, <1>4
  <2>5. QED
    BY <1>4, <2>3, <2>4
<1>5. CASE j \in (n + c + 2)..(n + c + h + 1)
  <2>1. h = 1 /\ j = 2 + n + c
    BY <1>1, <1>5
  <2>2. p[j].what = "held"
    BY <2>1 DEF IsLaid
  <2>3. j # 1 /\ j \notin (n + 2)..(n + c + 1)
    BY <1>1, <1>5
  <2>4. QED
    BY <1>5, <2>2, <2>3
<1>6. QED
  <2>1. j = 1 \/ j \in 2..(n + 1) \/ j \in (n + 2)..(n + c + 1)
          \/ j \in (n + c + 2)..(n + c + h + 1)
    BY <1>1
  <2>2. QED
    BY <1>2, <1>3, <1>4, <1>5, <2>1

\* Sections a report can be made of.
AreSections(secs) == IsSequence(secs) /\ \A s \in ToSet(secs) : IsSection(s)

\* They have places, and each is a section.
LEMMA SectionsAre ==
  ASSUME NEW secs, AreSections(secs)
  PROVE  /\ Len(secs) \in Nat /\ DOMAIN secs = 1..Len(secs)
         /\ \A i \in 1..Len(secs) : IsSection(secs[i])
<1>1. Len(secs) \in Nat /\ DOMAIN secs = 1..Len(secs)
  BY LenProperties DEF AreSections, IsSequence
<1>2. ToSet(secs) = {secs[i] : i \in 1..Len(secs)}
  BY ToSetSeq DEF AreSections, IsSequence
<1>3. QED
  BY <1>1, <1>2 DEF AreSections

\* The lines of a report: after[i] of them, behind the summary, are those of the first
\* i sections.
IsLaidOut(F, secs, all, after) ==
  /\ IsSequence(F) /\ F[1] = Summary(secs)
  /\ after \in [0..Len(secs) -> Nat] /\ after[0] = 0 /\ Len(F) = 1 + after[Len(secs)]
  /\ \A i \in 1..Len(secs) :
       /\ after[i] = after[i - 1] + Len(SectionLines(secs[i], all))
       /\ \A j \in 1..Len(SectionLines(secs[i], all)) :
            /\ 1 + after[i - 1] + j \in 1..Len(F)
            /\ F[1 + after[i - 1] + j] = SectionLines(secs[i], all)[j]
  /\ \A k \in 2..Len(F) :
       \E i \in 1..Len(secs) : \E j \in 1..Len(SectionLines(secs[i], all)) :
         k = 1 + after[i - 1] + j

\* The content of a report is laid out so.
LEMMA ContentIs ==
  ASSUME NEW secs, AreSections(secs), NEW all \in BOOLEAN
  PROVE  \E after : IsLaidOut(Content(secs, all), secs, all, after)
<1>1. PICK m \in Nat : m = Len(secs) /\ DOMAIN secs = 1..m
  BY SectionsAre
<1>2. PICK parts : parts = [i \in 1..m |-> SectionLines(secs[i], all)]
  OBVIOUS
<1>3. ASSUME NEW i \in 1..m
      PROVE  IsSequence(parts[i])
  <2>1. PICK n, c, h \in Nat : IsLaid(SectionLines(secs[i], all), secs[i], all, n, c, h)
    BY <1>1, SectionsAre, SectionIsLaid
  <2>2. QED
    BY <1>2, <2>1 DEF IsLaid
<1>4. PICK T : T = UNION {ToSet(parts[i]) : i \in 1..m}
  OBVIOUS
<1>5. parts \in Seq(Seq(T)) /\ Len(parts) = m /\ IsSequence(FlattenSeq(parts))
  <2>1. parts = [i \in 1..m |-> parts[i]]
    BY <1>2
  <2>2. /\ parts \in Seq(Seq(UNION {ToSet(parts[i]) : i \in 1..m})) /\ Len(parts) = m
        /\ IsSequence(FlattenSeq(parts))
    BY <1>3, <2>1, SlicesTogether
  <2>3. QED
    BY <1>4, <2>2
<1>6. PICK G : G = FlattenSeq(parts)
  OBVIOUS
<1>7. PICK after \in [0..m -> Nat] : IsJoined(G, parts, m, after)
  <2>1. \E after \in [0..Len(parts) -> Nat] : IsJoined(FlattenSeq(parts), parts, Len(parts), after)
    BY <1>5, FlattenPlaces
  <2>2. QED
    BY <1>5, <1>6, <2>1
<1>8. PICK U : U = ToSet(G) \cup {Summary(secs)}
  OBVIOUS
<1>9. PICK g \in Nat : g = Len(G) /\ G \in Seq(U)
  <2>1. G \in Seq(ToSet(G))
    BY <1>5, <1>6 DEF IsSequence
  <2>2. QED
    BY <1>8, <2>1
<1>10. PICK F : F = <<Summary(secs)>> \o G
  OBVIOUS
<1>11. /\ F \in Seq(U) /\ Len(F) = 1 + g /\ F[1] = Summary(secs)
       /\ \A k \in 1..g : 1 + k \in 1..Len(F) /\ F[1 + k] = G[k]
  <2>1. PICK head \in U : head = Summary(secs)
    BY <1>8
  <2>2. F = <<head>> \o G
    BY <1>10, <2>1
  <2>3. /\ F \in Seq(U) /\ Len(F) = 1 + g /\ F[1] = head
        /\ \A k \in 1..g : 1 + k \in 1..Len(F) /\ F[1 + k] = G[k]
    BY <1>9, <2>2
  <2>4. QED
    BY <2>1, <2>3
<1>12. F = Content(secs, all)
  BY <1>1, <1>2, <1>6, <1>10 DEF Content
<1>13. IsSequence(F)
  BY <1>11, SeqOfItsOwn DEF IsSequence
<1>14. after[0] = 0 /\ Len(F) = 1 + after[m]
  BY <1>7, <1>9, <1>11 DEF IsJoined
<1>15. ASSUME NEW i \in 1..m
       PROVE  /\ after[i] = after[i - 1] + Len(SectionLines(secs[i], all))
              /\ \A j \in 1..Len(SectionLines(secs[i], all)) :
                   /\ 1 + after[i - 1] + j \in 1..Len(F)
                   /\ F[1 + after[i - 1] + j] = SectionLines(secs[i], all)[j]
  <2>1. PICK p : p = SectionLines(secs[i], all)
    OBVIOUS
  <2>2. p = parts[i]
    BY <1>2, <2>1
  <2>3. after[i] = after[i - 1] + Len(p)
    BY <1>7, <2>2 DEF IsJoined
  <2>4. ASSUME NEW j \in 1..Len(p)
        PROVE  1 + after[i - 1] + j \in 1..Len(F) /\ F[1 + after[i - 1] + j] = p[j]
    <3>1. after[i - 1] + j \in 1..g /\ G[after[i - 1] + j] = p[j]
      BY <1>7, <1>9, <2>2 DEF IsJoined
    <3>2. after[i - 1] \in Nat /\ j \in Int
      BY <1>7
    <3>3. 1 + (after[i - 1] + j) = 1 + after[i - 1] + j
      BY <3>2
    <3>4. QED
      BY <1>11, <3>1, <3>3
  <2>5. QED
    BY <2>1, <2>3, <2>4
<1>16. ASSUME NEW k \in 2..Len(F)
       PROVE  \E i \in 1..m : \E j \in 1..Len(SectionLines(secs[i], all)) :
                k = 1 + after[i - 1] + j
  <2>1. k - 1 \in 1..Len(G) /\ k \in Int
    BY <1>9, <1>11
  <2>2. PICK i \in 1..m : \E j \in 1..Len(parts[i]) : k - 1 = after[i - 1] + j
    BY <1>7, <2>1 DEF IsJoined
  <2>3. PICK j \in 1..Len(parts[i]) : k - 1 = after[i - 1] + j
    BY <2>2
  <2>4. PICK a \in Nat : a = after[i - 1]
    BY <1>7
  <2>5. k = 1 + after[i - 1] + j
    <3>1. j \in Int /\ k \in Int
      BY <2>1
    <3>2. k - 1 = a + j
      BY <2>3, <2>4, Zenon
    <3>3. k = 1 + a + j
      BY <3>1, <3>2
    <3>4. QED
      BY <2>4, <3>3
  <2>6. j \in 1..Len(SectionLines(secs[i], all))
    BY <1>2
  <2>7. QED
    BY <2>5, <2>6
<1>17. IsLaidOut(F, secs, all, after)
  BY <1>1, <1>7, <1>11, <1>13, <1>14, <1>15, <1>16 DEF IsLaidOut
<1>18. QED
  BY <1>12, <1>17

\* There is a heading where each section begins, and nowhere else.
HasHeadings(F, secs, after) ==
  /\ \A i \in 1..Len(secs) : /\ after[i - 1] + 2 \in 2..Len(F)
                             /\ F[after[i - 1] + 2] = Heading(secs[i])
  /\ \A k \in 1..Len(F) :
       F[k].what = "heading" <=> \E i \in 1..Len(secs) : k = after[i - 1] + 2
  /\ \A i, j \in 0..Len(secs) : i < j => after[i] < after[j]

\* The lines of a report have them.
LEMMA HeadingsAre ==
  ASSUME NEW secs, AreSections(secs), NEW all \in BOOLEAN, NEW F, NEW after,
         IsLaidOut(F, secs, all, after)
  PROVE  HasHeadings(F, secs, after)
<1>1. PICK m \in Nat : m = Len(secs) /\ \A i \in 1..m : IsSection(secs[i])
  BY SectionsAre
<1>2. ASSUME NEW i \in 1..m
      PROVE  /\ after[i - 1] + 2 \in 2..Len(F) /\ F[after[i - 1] + 2] = Heading(secs[i])
             /\ after[i - 1] < after[i]
             /\ \A j \in 1..Len(SectionLines(secs[i], all)) :
                  F[1 + after[i - 1] + j].what = "heading" <=> j = 1
  <2>1. PICK p : p = SectionLines(secs[i], all)
    OBVIOUS
  <2>2. PICK n, c, h \in Nat : IsLaid(p, secs[i], all, n, c, h)
    BY <1>1, <2>1, SectionIsLaid
  <2>3. /\ after[i] = after[i - 1] + Len(p)
        /\ \A j \in 1..Len(p) : /\ 1 + after[i - 1] + j \in 1..Len(F)
                                /\ F[1 + after[i - 1] + j] = p[j]
    BY <1>1, <2>1 DEF IsLaidOut
  <2>4. PICK a \in Nat : a = after[i - 1]
    <3>1. i - 1 \in 0..Len(secs) /\ after \in [0..Len(secs) -> Nat]
      BY <1>1 DEF IsLaidOut
    <3>2. QED
      BY <3>1
  <2>5. Len(p) = 1 + n + c + h /\ p[1] = Heading(secs[i])
    BY <2>2 DEF IsLaid
  <2>6. 1 \in 1..Len(p)
    BY <2>5
  <2>7. 1 + a + 1 \in 1..Len(F) /\ F[1 + a + 1] = p[1]
    BY <2>3, <2>4, <2>6
  <2>8. 1 + a + 1 = a + 2
    BY <2>4
  <2>9. a + 2 \in 2..Len(F) /\ F[a + 2] = Heading(secs[i])
    BY <2>5, <2>7, <2>8
  <2>10. a < after[i]
    BY <2>3, <2>4, <2>5
  <2>11. \A j \in 1..Len(p) : p[j].what = "heading" <=> j = 1
    BY <1>1, <2>2, LinesApart
  <2>12. QED
    BY <2>1, <2>3, <2>4, <2>9, <2>10, <2>11
<1>3. ASSUME NEW k \in 1..Len(F)
      PROVE  F[k].what = "heading" <=> \E i \in 1..m : k = after[i - 1] + 2
  <2>1. CASE k = 1
    <3>1. F[k].what # "heading"
      BY <2>1 DEF IsLaidOut, Summary
    <3>2. \A i \in 1..m : after[i - 1] + 2 # 1
      BY <1>2
    <3>3. QED
      BY <2>1, <3>1, <3>2
  <2>2. CASE k # 1
    <3>1. k \in 2..Len(F)
      BY <2>2
    <3>2. PICK i \in 1..m : \E j \in 1..Len(SectionLines(secs[i], all)) : k = 1 + after[i - 1] + j
      BY <1>1, <3>1 DEF IsLaidOut
    <3>3. PICK j \in 1..Len(SectionLines(secs[i], all)) : k = 1 + after[i - 1] + j
      BY <3>2
    <3>4. F[k].what = "heading" <=> j = 1
      BY <1>2, <3>3
    <3>5. PICK a \in Nat : a = after[i - 1]
      <4>1. i - 1 \in 0..Len(secs) /\ after \in [0..Len(secs) -> Nat]
        BY <1>1 DEF IsLaidOut
      <4>2. QED
        BY <4>1
    <3>6. ASSUME j = 1 PROVE k = after[i - 1] + 2
      <4>1. k = 1 + a + 1
        BY <3>3, <3>5, <3>6
      <4>2. 1 + a + 1 = a + 2
        BY <3>5
      <4>3. QED
        BY <3>5, <4>1, <4>2
    <3>7. ASSUME NEW d \in 1..m, k = after[d - 1] + 2 PROVE F[k].what = "heading"
      <4>1. F[k] = Heading(secs[d])
        BY <1>2, <3>7
      <4>2. QED
        BY <4>1 DEF Heading
    <3>8. QED
      BY <3>4, <3>6, <3>7
  <2>3. QED
    BY <2>1, <2>2
<1>4. \A i, j \in 0..m : i < j => after[i] < after[j]
  <2>1. after \in [0..m -> Nat]
    BY <1>1 DEF IsLaidOut
  <2>2. QED
    BY <1>2, <2>1, SumsRise
<1>5. QED
  BY <1>1, <1>2, <1>3, <1>4 DEF HasHeadings

\* The summary counts and names the sections of an outcome.
LEMMA BucketIs ==
  ASSUME NEW secs, AreSections(secs), NEW o
  PROVE  /\ Len(Bucket(secs, o)) = Cardinality({i \in 1..Len(secs) : OutcomeOf(secs[i]) = o})
         /\ \A i \in 1..Len(secs) :
              OutcomeOf(secs[i]) = o => Contains(Bucket(secs, o), secs[i].source)
<1>1. PICK m \in Nat : m = Len(secs) /\ DOMAIN secs = 1..m
  BY SectionsAre
<1>2. secs \in Seq(ToSet(secs))
  BY DEF AreSections, IsSequence
<1>3. PICK I \in SUBSET (1..m) : I = {i \in 1..m : OutcomeOf(secs[i]) = o}
  OBVIOUS
<1>4. PICK mine : mine = Subsequence(secs, I)
  OBVIOUS
<1>5. /\ mine \in Seq(ToSet(secs)) /\ Len(mine) = Cardinality(I)
      /\ {mine[k] : k \in 1..Len(mine)} = {secs[i] : i \in I}
  <2>1. I \in SUBSET (1..Len(secs))
    BY <1>1
  <2>2. /\ Subsequence(secs, I) \in Seq(ToSet(secs))
        /\ {Subsequence(secs, I)[k] : k \in 1..Len(Subsequence(secs, I))} = {secs[i] : i \in I}
    BY <1>2, <2>1, SubsequenceProperties, ZenonT(30)
  <2>3. Len(Subsequence(secs, I)) = Cardinality(I)
    BY <1>2, <2>1, SubsequenceCount
  <2>4. QED
    BY <1>4, <2>2, <2>3
<1>6. PICK d \in Nat : d = Len(mine) /\ DOMAIN mine = 1..d
  BY <1>5, LenProperties
<1>7. Bucket(secs, o) = [k \in 1..d |-> mine[k].source]
  BY <1>1, <1>3, <1>4, <1>6 DEF Bucket
<1>8. PICK b : b = Bucket(secs, o)
  OBVIOUS
<1>9. Len(b) = d /\ \A k \in 1..d : b[k] = mine[k].source
  BY <1>7, <1>8
<1>10. ASSUME NEW i \in 1..m, OutcomeOf(secs[i]) = o
       PROVE  Contains(b, secs[i].source)
  <2>1. PICK k \in 1..d : mine[k] = secs[i]
    BY <1>3, <1>5, <1>6, <1>10
  <2>2. b[k] = secs[i].source
    BY <1>9, <2>1
  <2>3. QED
    BY <1>9, <2>2 DEF Contains
<1>11. QED
  BY <1>1, <1>3, <1>5, <1>6, <1>8, <1>9, <1>10

\* Behind its heading, a section's rows are the first of its list, and as many as are
\* missing are said to be.
ListIsWhole(s, all, mine, rows, held) ==
  /\ \A i \in DOMAIN s.lines : Contains(mine, s.lines[i])
  /\ s.status = "ok" =>
       /\ \A i \in DOMAIN rows : rows[i].row = s.list[i]
       /\ IF Len(rows) = Len(s.list)
            THEN held = <<>>
            ELSE ~all /\ held = <<[what |-> "held", more |-> Len(s.list) - Len(rows)]>>

\* That holds of any section, printed as it is laid out.
LEMMA RowsAre ==
  ASSUME NEW s, IsSection(s), NEW all, NEW p, NEW n, NEW c, NEW h,
         IsLaid(p, s, all, n, c, h),
         NEW mine, IsSequence(mine), Len(mine) = Len(p) - 1,
         \A j \in 1..Len(mine) : mine[j] = p[j + 1],
         NEW rows, rows = Subsequence(mine, {i \in DOMAIN mine : mine[i].what = "row"}),
         NEW held, held = Subsequence(mine, {i \in DOMAIN mine : mine[i].what = "held"})
  PROVE  ListIsWhole(s, all, mine, rows, held)
<1>1. /\ n \in Nat /\ c \in Nat /\ h \in {0, 1} /\ Len(p) = 1 + n + c + h
      /\ n = Len(s.lines)
  BY DEF IsLaid
<1>2. Len(mine) = n + c + h /\ DOMAIN mine = 1..(n + c + h)
  <2>1. Len(mine) = n + c + h
    BY <1>1
  <2>2. DOMAIN mine = 1..Len(mine)
    BY LenProperties DEF IsSequence
  <2>3. QED
    BY <2>1, <2>2
<1>3. DOMAIN s.lines = 1..n
  BY <1>1, LenProperties DEF IsSection, IsSequence
<1>4. ASSUME NEW i \in 1..n PROVE Contains(mine, s.lines[i])
  <2>1. i \in 1..Len(mine) /\ 1 + i = i + 1
    BY <1>1, <1>2
  <2>2. mine[i] = p[1 + i]
    BY <2>1
  <2>3. p[1 + i] = s.lines[i]
    BY DEF IsLaid
  <2>4. QED
    BY <2>1, <2>2, <2>3 DEF Contains
<1>5. ASSUME NEW j \in 1..(n + c + h)
      PROVE  /\ mine[j].what = "row" <=> j \in (n + 1)..(n + c)
             /\ mine[j].what = "held" <=> j \in (n + c + 1)..(n + c + h)
  <2>1. j + 1 \in 1..Len(p) /\ j \in 1..Len(mine)
    BY <1>1, <1>2
  <2>2. mine[j] = p[j + 1]
    BY <2>1
  <2>3. /\ p[j + 1].what = "row" <=> j + 1 \in (n + 2)..(n + c + 1)
        /\ p[j + 1].what = "held" <=> j + 1 \in (n + c + 2)..(n + c + h + 1)
    BY <2>1, LinesApart
  <2>4. /\ j + 1 \in (n + 2)..(n + c + 1) <=> j \in (n + 1)..(n + c)
        /\ j + 1 \in (n + c + 2)..(n + c + h + 1) <=> j \in (n + c + 1)..(n + c + h)
    BY <1>1, SMTT(20)
  <2>5. QED
    BY <2>2, <2>3, <2>4
<1>6. /\ {i \in DOMAIN mine : mine[i].what = "row"} = (n + 1)..(n + c)
      /\ {i \in DOMAIN mine : mine[i].what = "held"} = (n + c + 1)..(n + c + h)
  <2>1. /\ (n + 1)..(n + c) \subseteq 1..(n + c + h)
        /\ (n + c + 1)..(n + c + h) \subseteq 1..(n + c + h)
    BY <1>1, SMTT(20)
  <2>2. QED
    BY <1>2, <1>5, <2>1
<1>7. mine \in Seq(ToSet(mine))
  BY DEF IsSequence
<1>8. rows \in Seq(ToSet(mine)) /\ Len(rows) = c /\ \A k \in 1..c : rows[k] = mine[n + k]
  <2>1. n + c <= Len(mine)
    BY <1>1, <1>2
  <2>2. rows = Subsequence(mine, (n + 1)..(n + c))
    BY <1>6
  <2>3. /\ Subsequence(mine, (n + 1)..(n + c)) \in Seq(ToSet(mine))
        /\ Len(Subsequence(mine, (n + 1)..(n + c))) = c
        /\ \A k \in 1..c : Subsequence(mine, (n + 1)..(n + c))[k] = mine[n + k]
    BY <1>1, <1>7, <2>1, PieceProperties, ZenonT(30)
  <2>4. QED
    BY <2>2, <2>3, Zenon
<1>9. held \in Seq(ToSet(mine)) /\ Len(held) = h /\ \A k \in 1..h : held[k] = mine[n + c + k]
  <2>1. (n + c) + h <= Len(mine) /\ n + c \in Nat /\ h \in Nat
    BY <1>1, <1>2
  <2>2. held = Subsequence(mine, (n + c + 1)..(n + c + h))
    BY <1>6
  <2>3. /\ Subsequence(mine, (n + c + 1)..(n + c + h)) \in Seq(ToSet(mine))
        /\ Len(Subsequence(mine, (n + c + 1)..(n + c + h))) = h
        /\ \A k \in 1..h : Subsequence(mine, (n + c + 1)..(n + c + h))[k] = mine[n + c + k]
    BY <1>7, <2>1, PieceProperties
  <2>4. QED
    BY <2>2, <2>3, Zenon
<1>15. DOMAIN rows = 1..c
  <2>1. DOMAIN rows = 1..Len(rows)
    BY <1>8, LenProperties
  <2>2. QED
    BY <1>8, <2>1
<1>10. SUFFICES ASSUME s.status = "ok"
                PROVE  /\ \A i \in DOMAIN rows : rows[i].row = s.list[i]
                       /\ IF c = Len(s.list)
                            THEN held = <<>>
                            ELSE ~all /\ held = <<[what |-> "held", more |-> Len(s.list) - c]>>
  BY <1>3, <1>4, <1>8 DEF ListIsWhole
<1>11. ASSUME NEW i \in DOMAIN rows PROVE rows[i].row = s.list[i]
  <2>1. i \in 1..c
    BY <1>11, <1>15
  <2>2. n + i \in 1..Len(mine) /\ n + i + 1 = 1 + n + i
    <3>1. n \in Nat /\ c \in Nat /\ h \in Nat /\ i \in 1..c
      BY <1>1, <2>1
    <3>2. n + i \in 1..(n + c + h) /\ n + i + 1 = 1 + n + i
      BY <3>1
    <3>3. QED
      BY <1>2, <3>2
  <2>3. rows[i] = p[1 + n + i]
    BY <1>8, <2>1, <2>2
  <2>4. p[1 + n + i] = [what |-> "row", row |-> s.list[i]]
    BY <2>1 DEF IsLaid
  <2>5. QED
    BY <2>3, <2>4
<1>12. CASE c = Len(s.list)
  <2>1. h = 0
    BY <1>10, <1>12 DEF IsLaid
  <2>2. held = <<>>
    BY <1>9, <2>1
  <2>3. QED
    BY <1>11, <1>12, <2>2
<1>13. CASE c # Len(s.list)
  <2>1. h = 1 /\ ~all
    BY <1>10, <1>13 DEF IsLaid
  <2>2. n + c + 1 \in 1..Len(mine) /\ n + c + 1 + 1 = 2 + n + c
    BY <1>1, <1>2, <2>1
  <2>3. held[1] = p[2 + n + c]
    BY <1>9, <2>1, <2>2
  <2>4. p[2 + n + c] = [what |-> "held", more |-> Len(s.list) - c]
    BY <2>1 DEF IsLaid
  <2>5. PICK last : last = [what |-> "held", more |-> Len(s.list) - c]
    OBVIOUS
  <2>6. held = <<last>>
    BY <1>9, <2>1, <2>3, <2>4, <2>5
  <2>7. QED
    BY <1>11, <1>13, <2>1, <2>5, <2>6
<1>14. QED
  BY <1>12, <1>13

\* What is printed below a section's heading is the rest of its lines.
LEMMA PrintedBelow ==
  ASSUME AreSections(sections), full \in BOOLEAN,
         NEW after, IsLaidOut(printed, sections, full, after),
         NEW i \in 1..Len(sections),
         NEW p, p = SectionLines(sections[i], full)
  PROVE  /\ IsSequence(PrintedOf(after[i - 1] + 2))
         /\ Len(PrintedOf(after[i - 1] + 2)) = Len(p) - 1
         /\ \A j \in 1..Len(PrintedOf(after[i - 1] + 2)) :
              PrintedOf(after[i - 1] + 2)[j] = p[j + 1]
<1>1. PICK m \in Nat : m = Len(sections)
  BY SectionsAre
<1>2. PICK N \in Nat : N = Len(printed) /\ DOMAIN printed = 1..N
  BY LenProperties DEF IsLaidOut, IsSequence
<1>3. /\ \A d \in 1..m : after[d - 1] + 2 \in 2..N
      /\ \A k \in 1..N : printed[k].what = "heading" <=> \E d \in 1..m : k = after[d - 1] + 2
      /\ \A d, e \in 0..m : d < e => after[d] < after[e]
  <2>1. HasHeadings(printed, sections, after)
    BY HeadingsAre
  <2>2. QED
    BY <1>1, <1>2, <2>1 DEF HasHeadings
<1>4. after \in [0..m -> Nat] /\ N = 1 + after[m]
  BY <1>1, <1>2 DEF IsLaidOut
<1>5. PICK a \in Nat, b \in Nat : a = after[i - 1] /\ b = after[i]
  <2>1. i - 1 \in 0..m /\ i \in 0..m
    BY <1>1
  <2>2. QED
    BY <1>4, <2>1
<1>6. /\ b = a + Len(p)
      /\ \A j \in 1..Len(p) : 1 + a + j \in 1..N /\ printed[1 + a + j] = p[j]
  BY <1>1, <1>2, <1>5 DEF IsLaidOut
<1>7. Len(p) \in Nat \ {0}
  <2>1. PICK n, c, h \in Nat : IsLaid(p, sections[i], full, n, c, h)
    BY <1>1, SectionsAre, SectionIsLaid
  <2>2. QED
    BY <2>1, LenProperties DEF IsLaid, IsSequence
<1>8. PICK next : next = {h \in Headings : h > a + 2}
  OBVIOUS
<1>9. \A h : h \in next <=> h \in 1..N /\ h > a + 2 /\ \E d \in 1..m : h = after[d - 1] + 2
  BY <1>2, <1>3, <1>8 DEF Headings
<1>10. ASSUME NEW d \in 1..m, after[d - 1] + 2 > a + 2
       PROVE  d > i
  <2>1. d - 1 \in 0..m /\ i - 1 \in 0..m /\ d \in Nat /\ i \in Nat
    BY <1>1
  <2>2. after[d - 1] \in Nat /\ after[d - 1] > a
    BY <1>4, <1>5, <1>10, <2>1
  <2>3. ~(d - 1 < i - 1) /\ d - 1 # i - 1
    BY <1>3, <1>5, <2>1, <2>2, SMTT(20)
  <2>4. QED
    BY <2>1, <2>3
<1>11. (IF next = {} THEN N ELSE Min(next) - 1) = b + 1
  <2>1. CASE i = m
    <3>1. next = {}
      BY <1>9, <1>10, <1>1, <2>1
    <3>2. QED
      BY <1>4, <1>5, <2>1, <3>1
  <2>2. CASE i # m
    <3>1. i + 1 \in 1..m /\ i + 1 - 1 = i /\ i \in 0..m /\ i - 1 \in 0..m /\ i - 1 < i
      BY <1>1, <2>2
    <3>2. b + 2 \in 2..N /\ b > a
      <4>1. PICK d \in 1..m : d = i + 1 /\ d - 1 = i
        BY <3>1
      <4>2. after[d - 1] + 2 \in 2..N
        BY <1>3, Zenon
      <4>3. after[i - 1] < after[i]
        BY <1>3, <3>1, Zenon
      <4>4. QED
        BY <1>5, <4>1, <4>2, <4>3
    <3>3. b + 2 \in next
      <4>5. PICK d \in 1..m : d = i + 1 /\ d - 1 = i
        BY <3>1
      <4>1. b + 2 = after[d - 1] + 2
        BY <1>5, <4>5
      <4>2. b + 2 \in 1..N /\ b + 2 > a + 2
        BY <3>2
      <4>3. \E e \in 1..m : b + 2 = after[e - 1] + 2
        BY <4>1, Zenon
      <4>4. QED
        BY <1>9, <4>2, <4>3, Zenon
    <3>4. ASSUME NEW h \in next PROVE b + 2 <= h
      <4>1. PICK d \in 1..m : h = after[d - 1] + 2
        BY <1>9, <3>4
      <4>2. d > i
        BY <1>9, <1>10, <3>4, <4>1
      <4>3. d - 1 \in 0..m /\ (i < d - 1 \/ i = d - 1)
        BY <4>2
      <4>4. after[d - 1] \in Nat
        BY <1>4, <4>3
      <4>5. b <= after[d - 1]
        BY <1>3, <1>5, <3>1, <4>3, <4>4
      <4>6. QED
        BY <4>1, <4>4, <4>5
    <3>5. next \in SUBSET Nat
      BY <1>9
    <3>6. Min(next) = b + 2
      BY <3>3, <3>4, <3>5, MinIsLeast
    <3>7. QED
      BY <3>3, <3>6
  <2>3. QED
    BY <2>1, <2>2
<1>12. PICK mine : mine = SubSeq(printed, a + 3, b + 1)
  OBVIOUS
<1>13. PrintedOf(a + 2) = mine
  <2>1. a + 2 + 1 = a + 3
    OBVIOUS
  <2>2. QED
    BY <1>2, <1>8, <1>11, <1>12, <2>1 DEF PrintedOf
<1>14. b + 1 <= N
  <2>1. i \in 0..m /\ m \in 0..m /\ (i < m \/ i = m)
    BY <1>1
  <2>2. after[m] \in Nat /\ b <= after[m]
    BY <1>3, <1>4, <1>5, <2>1, SMTT(20)
  <2>3. QED
    BY <1>4, <2>2
<1>15. /\ mine \in Seq(ToSet(printed)) /\ Len(mine) = b + 1 - (a + 3) + 1
       /\ \A j \in 1..Len(mine) : mine[j] = printed[a + 3 + j - 1]
  <2>1. printed \in Seq(ToSet(printed))
    BY DEF IsLaidOut, IsSequence
  <2>2. /\ a + 3 \in Int /\ b + 1 \in Int /\ b >= a + 1
        /\ (a + 3)..(b + 1) \subseteq 1..N
    BY <1>6, <1>7, <1>14
  <2>3. \A j \in (a + 3)..(b + 1) : printed[j] \in ToSet(printed)
    BY <1>2, <2>1, <2>2, ElementOfSeq
  <2>4. QED
    BY <1>12, <2>2, <2>3, SubSeqProperties
<1>16. Len(mine) = Len(p) - 1
  BY <1>6, <1>7, <1>15
<1>17. ASSUME NEW j \in 1..Len(mine) PROVE mine[j] = p[j + 1]
  <2>1. j + 1 \in 1..Len(p) /\ a + 3 + j - 1 = 1 + a + (j + 1)
    BY <1>7, <1>16
  <2>2. QED
    BY <1>6, <1>15, <2>1
<1>18. IsSequence(mine)
  BY <1>15, SeqOfItsOwn DEF IsSequence
<1>19. QED
  BY <1>5, <1>13, <1>16, <1>17, <1>18

\* A report whose content was all written is whole.
LEMMA WrittenIsWhole ==
  ASSUME AreSections(sections), full \in BOOLEAN, printed = Content(sections, full)
  PROVE  ReportIsWhole
<1>1. PICK after : IsLaidOut(printed, sections, full, after)
  BY ContentIs
<1>2. PICK m \in Nat : /\ m = Len(sections) /\ DOMAIN sections = 1..m
                       /\ \A i \in 1..m : IsSection(sections[i])
  BY SectionsAre
<1>3. PICK N \in Nat : N = Len(printed) /\ DOMAIN printed = 1..N
  BY <1>1, LenProperties DEF IsLaidOut, IsSequence
<1>4. HasHeadings(printed, sections, after)
  BY <1>1, HeadingsAre
<1>5. PICK g : g = [i \in 1..m |-> after[i - 1] + 2]
  OBVIOUS
<1>6. /\ \A i \in 1..m : /\ g[i] \in 2..N /\ printed[g[i]] = Heading(sections[i])
                         /\ g[i] = after[i - 1] + 2
      /\ \A k \in 1..N : printed[k].what = "heading" <=> \E i \in 1..m : k = g[i]
  BY <1>2, <1>3, <1>4, <1>5 DEF HasHeadings
<1>18. \A s : Heading(s).outcome = OutcomeOf(s) /\ Heading(s).source = s.source
  BY DEF Heading
<1>7. \A i, j \in 1..m : i < j => g[i] < g[j]
  <2>1. SUFFICES ASSUME NEW i \in 1..m, NEW j \in 1..m, i < j PROVE g[i] < g[j]
    OBVIOUS
  <2>2. i - 1 \in 0..m /\ j - 1 \in 0..m /\ i - 1 < j - 1
    BY <2>1
  <2>3. after[i - 1] < after[j - 1]
    BY <1>2, <1>4, <2>2 DEF HasHeadings
  <2>4. after[i - 1] \in Nat /\ after[j - 1] \in Nat
    BY <1>1, <1>2, <2>2 DEF IsLaidOut
  <2>5. QED
    BY <1>6, <2>3, <2>4
<1>8. \A i, j \in 1..m : g[i] = g[j] => i = j
  <2>1. SUFFICES ASSUME NEW i \in 1..m, NEW j \in 1..m, g[i] = g[j] PROVE i = j
    OBVIOUS
  <2>2. g[i] \in 2..N /\ g[j] \in 2..N /\ ~(g[i] < g[j]) /\ ~(g[j] < g[i])
    BY <1>6, <2>1
  <2>3. i < j \/ j < i \/ i = j
    OBVIOUS
  <2>4. QED
    BY <1>7, <2>2, <2>3
<1>9. Headings = {g[i] : i \in 1..m}
  BY <1>3, <1>6 DEF Headings
<1>10. ASSUME NEW I \in SUBSET (1..m)
       PROVE  Cardinality({g[i] : i \in I}) = Cardinality(I)
  <2>1. IsFiniteSet(I)
    <3>1. IsFiniteSet(1..m)
      BY FS_Interval
    <3>2. QED
      BY <3>1, FS_Subset
  <2>2. PICK f : f = [i \in I |-> g[i]]
    OBVIOUS
  <2>3. f = [i \in I |-> f[i]] /\ \A x, y \in I : f[x] = f[y] => x = y
    BY <1>8, <2>2
  <2>4. Cardinality({f[i] : i \in I}) = Cardinality(I)
    BY <2>1, <2>3, ImageCount
  <2>5. {f[i] : i \in I} = {g[i] : i \in I}
    BY <2>2
  <2>6. QED
    BY <2>4, <2>5
<1>11. ASSUME NEW i \in 0..m PROVE Cardinality(1..i) = i
  <2>1. Cardinality(1..i) = IF 1 > i THEN 0 ELSE i - 1 + 1
    BY FS_Interval
  <2>2. QED
    BY <2>1
<1>12. Cardinality(Headings) = Len(sections)
  BY <1>2, <1>9, <1>10, <1>11
<1>13. ASSUME NEW i \in 1..m
       PROVE  OutcomeOf(sections[i]) \in Outcomes
  BY DEF OutcomeOf, Outcomes
<1>14. ASSUME NEW o \in Outcomes
       PROVE  /\ printed[1].count[o] = Cardinality({k \in Headings : printed[k].outcome = o})
              /\ o # "ok" => printed[1].names[o] = Bucket(sections, o)
  <2>1. PICK I \in SUBSET (1..m) : I = {i \in 1..m : OutcomeOf(sections[i]) = o}
    OBVIOUS
  <2>2. \A i \in 1..m : printed[g[i]].outcome = OutcomeOf(sections[i])
    BY <1>6, <1>18
  <2>3. {k \in Headings : printed[k].outcome = o} = {g[i] : i \in I}
    BY <1>9, <2>1, <2>2
  <2>4. Len(Bucket(sections, o)) = Cardinality(I)
    BY <1>2, <2>1, BucketIs
  <2>5. printed[1] = Summary(sections)
    BY <1>1 DEF IsLaidOut
  <2>6. printed[1].count[o] = Len(Bucket(sections, o))
    BY <2>5 DEF Summary
  <2>7. o # "ok" => printed[1].names[o] = Bucket(sections, o)
    BY <2>5 DEF Summary
  <2>8. QED
    BY <1>10, <2>3, <2>4, <2>6, <2>7
<1>15. ASSUME NEW i \in 1..m
       PROVE  Cardinality({h \in Headings : h <= g[i]}) = i
  <2>1. ASSUME NEW j \in 1..m PROVE g[j] <= g[i] <=> j \in 1..i
    <3>1. g[j] \in 2..N /\ g[i] \in 2..N
      BY <1>6
    <3>2. j < i \/ i < j \/ i = j
      OBVIOUS
    <3>3. CASE j < i
      BY <1>7, <3>1, <3>3
    <3>4. CASE i < j
      <4>1. g[i] < g[j]
        BY <1>7, <3>4
      <4>2. QED
        BY <3>1, <3>4, <4>1
    <3>5. CASE i = j
      BY <3>1, <3>5
    <3>6. QED
      BY <3>2, <3>3, <3>4, <3>5
  <2>2. \A j \in 1..i : j \in 1..m
    OBVIOUS
  <2>3. {h \in Headings : h <= g[i]} = {g[j] : j \in 1..i}
    BY <1>9, <2>1, <2>2
  <2>4. Cardinality({g[j] : j \in 1..i}) = i
    BY <1>10, <1>11, <2>2
  <2>5. QED
    BY <2>3, <2>4
<1>16. ASSUME NEW k \in Headings
       PROVE  LET mine == PrintedOf(k)
                  at == Cardinality({h \in Headings : h <= k})
                  s == sections[at]
                  rows == Subsequence(mine, {i \in DOMAIN mine : mine[i].what = "row"})
                  held == Subsequence(mine, {i \in DOMAIN mine : mine[i].what = "held"})
              IN  /\ printed[k].source = s.source
                  /\ \/ printed[k].outcome = "ok"
                     \/ Contains(printed[1].names[printed[k].outcome], s.source)
                  /\ ListIsWhole(s, full, mine, rows, held)
  <2>1. PICK mine : mine = PrintedOf(k)
    OBVIOUS
  <2>2. PICK at : at = Cardinality({h \in Headings : h <= k})
    OBVIOUS
  <2>3. PICK s : s = sections[at]
    OBVIOUS
  <2>4. PICK rows : rows = Subsequence(mine, {i \in DOMAIN mine : mine[i].what = "row"})
    OBVIOUS
  <2>5. PICK held : held = Subsequence(mine, {i \in DOMAIN mine : mine[i].what = "held"})
    OBVIOUS
  <2>6. PICK i \in 1..m : k = g[i]
    BY <1>9
  <2>7. s = sections[i]
    BY <1>15, <2>2, <2>3, <2>6
  <2>8. printed[k].source = s.source /\ printed[k].outcome = OutcomeOf(s)
    <3>1. printed[k] = Heading(s)
      BY <1>6, <2>6, <2>7
    <3>2. QED
      BY <1>18, <3>1, Zenon
  <2>9. ASSUME OutcomeOf(s) # "ok"
        PROVE  Contains(printed[1].names[OutcomeOf(s)], s.source)
    <3>1. printed[1].names[OutcomeOf(s)] = Bucket(sections, OutcomeOf(s))
      BY <1>13, <1>14, <2>7, <2>9
    <3>2. Contains(Bucket(sections, OutcomeOf(s)), s.source)
      BY <1>2, <2>7, BucketIs
    <3>3. QED
      BY <3>1, <3>2
  <2>10. PICK p : p = SectionLines(sections[i], full)
    OBVIOUS
  <2>11. PICK n, c, h \in Nat : IsLaid(p, s, full, n, c, h)
    BY <1>2, <2>7, <2>10, SectionIsLaid
  <2>12. /\ IsSequence(mine) /\ Len(mine) = Len(p) - 1
        /\ \A j \in 1..Len(mine) : mine[j] = p[j + 1]
    <3>1. mine = PrintedOf(after[i - 1] + 2)
      BY <1>6, <2>1, <2>6
    <3>2. i \in 1..Len(sections)
      BY <1>2
    <3>3. QED
      BY <1>1, <2>10, <3>1, <3>2, PrintedBelow
  <2>13. IsSection(s)
    BY <1>2, <2>7
  <2>14. ListIsWhole(s, full, mine, rows, held)
    BY <2>4, <2>5, <2>11, <2>12, <2>13, RowsAre
  <2>15. /\ printed[k].source = s.source
         /\ \/ printed[k].outcome = "ok"
            \/ Contains(printed[1].names[printed[k].outcome], s.source)
         /\ ListIsWhole(s, full, mine, rows, held)
    BY <2>8, <2>9, <2>14
  <2>16. QED
    BY <2>1, <2>2, <2>3, <2>4, <2>5, <2>15, Zenon
<1>17. /\ Cardinality(Headings) = Len(sections)
       /\ \A o \in Outcomes :
            printed[1].count[o] = Cardinality({k \in Headings : printed[k].outcome = o})
  BY <1>12, <1>14
<1>19. QED
  BY <1>16, <1>17 DEF ReportIsWhole, ListIsWhole

-----------------------------------------------------------------------------
(* The section of the research source. *)

\* The notes are printed one a line.
LEMMA DroppedLinesAre ==
  ASSUME NEW notes, IsSequence(notes)
  PROVE  /\ IsSequence(DroppedLines(notes)) /\ Len(DroppedLines(notes)) = Len(notes)
         /\ Len(notes) \in Nat
         /\ \A l \in ToSet(DroppedLines(notes)) : l.what = "dropped"
         /\ \A d \in ToSet(notes) :
              \E l \in ToSet(DroppedLines(notes)) : l.what = "dropped" /\ l.label = d.label
<1>1. PICK n \in Nat : n = Len(notes) /\ DOMAIN notes = 1..n
  BY LenProperties DEF IsSequence
<1>2. PICK lines : lines = DroppedLines(notes)
  OBVIOUS
<1>3. /\ lines = [i \in 1..n |-> lines[i]]
      /\ \A i \in 1..n : lines[i].what = "dropped" /\ lines[i].label = notes[i].label
  BY <1>1, <1>2 DEF DroppedLines
<1>4. PICK T : T = {lines[i] : i \in 1..n}
  OBVIOUS
<1>5. lines \in Seq(T) /\ Len(lines) = n
  <2>1. lines \in [1..n -> T]
    BY <1>3, <1>4
  <2>2. QED
    BY <2>1
<1>6. IsSequence(lines) /\ ToSet(lines) = {lines[i] : i \in 1..n}
  BY <1>5, SeqOfItsOwn, ToSetSeq DEF IsSequence
<1>7. ToSet(notes) = {notes[i] : i \in 1..n}
  BY <1>1, ToSetSeq DEF IsSequence
<1>8. \A l \in ToSet(lines) : l.what = "dropped"
  BY <1>3, <1>6
<1>9. \A d \in ToSet(notes) : \E l \in ToSet(lines) : l.what = "dropped" /\ l.label = d.label
  <2>1. SUFFICES ASSUME NEW d \in ToSet(notes)
                 PROVE  \E l \in ToSet(lines) : l.what = "dropped" /\ l.label = d.label
    OBVIOUS
  <2>2. PICK i \in 1..n : d = notes[i]
    BY <1>7
  <2>3. lines[i] \in ToSet(lines)
    BY <1>6
  <2>4. QED
    BY <1>3, <2>2, <2>3
<1>10. QED
  BY <1>1, <1>2, <1>5, <1>6, <1>8, <1>9

\* A line shows a finding with its citations.
IsLineOf(l, f) ==
  l.what = "claim" /\ l.label = f.label /\ l.shown = Shown(f) /\ l.citations = f.citations

\* A finding is printed unless there is nothing to show of it.
LEMMA ClaimLinesAre ==
  ASSUME NEW f
  PROVE  /\ IsSequence(ClaimLines(f))
         /\ \A l \in ToSet(ClaimLines(f)) : l.what = "claim"
         /\ Shown(f) # Blank =>
              \E l \in ToSet(ClaimLines(f)) : IsLineOf(l, f)
<1>1. PICK line : line = [what |-> "claim", label |-> f.label, shown |-> Shown(f),
                          citations |-> f.citations]
  OBVIOUS
<1>2. IsLineOf(line, f)
  BY <1>1 DEF IsLineOf
<1>3. \A x : IsSequence(<<x>>) /\ ToSet(<<x>>) = {x}
  BY DEF IsSequence, ToSet
<1>4. IsSequence(<<>>) /\ ToSet(<<>>) = {}
  BY DEF IsSequence, ToSet
<1>5. ClaimLines(f) = IF Shown(f) = Blank THEN <<>> ELSE <<line>>
  BY <1>1 DEF ClaimLines
<1>6. CASE Shown(f) = Blank
  BY <1>4, <1>5, <1>6
<1>7. CASE Shown(f) # Blank
  BY <1>2, <1>3, <1>5, <1>7 DEF IsLineOf
<1>8. QED
  BY <1>6, <1>7

\* The checklist's lines are its claims, its answers and its notes.
LEMMA ResearchLinesAre ==
  ASSUME NEW research, IsSequence(research.findings), IsSequence(research.tris),
         IsSequence(research.dropped)
  PROVE  /\ IsSequence(ResearchLines(research))
         /\ \A l \in ToSet(ResearchLines(research)) : l.what \in {"claim", "tri", "dropped"}
         /\ \A f \in ToSet(research.findings) :
              Shown(f) # Blank =>
                \E l \in ToSet(ResearchLines(research)) : IsLineOf(l, f)
         /\ \A d \in ToSet(research.dropped) :
              \E l \in ToSet(ResearchLines(research)) : l.what = "dropped" /\ l.label = d.label
<1>1. PICK n \in Nat : n = Len(research.findings) /\ DOMAIN research.findings = 1..n
  BY LenProperties DEF IsSequence
<1>2. PICK cs : cs = [i \in 1..n |-> ClaimLines(research.findings[i])]
  OBVIOUS
<1>3. PICK claims : claims = FlattenSeq(cs)
  OBVIOUS
<1>4. /\ IsSequence(claims)
      /\ \A i \in 1..n : ToSet(cs[i]) \subseteq ToSet(claims)
      /\ \A x \in ToSet(claims) : \E i \in 1..n : x \in ToSet(cs[i])
  <2>1. cs = [i \in 1..n |-> cs[i]] /\ \A i \in 1..n : IsSequence(cs[i])
    BY <1>2, ClaimLinesAre
  <2>2. QED
    BY <1>3, <2>1, SlicesTogether
<1>5. \A l \in ToSet(claims) : l.what = "claim"
  <2>1. SUFFICES ASSUME NEW l \in ToSet(claims) PROVE l.what = "claim"
    OBVIOUS
  <2>2. PICK i \in 1..n : l \in ToSet(cs[i])
    BY <1>4
  <2>3. cs[i] = ClaimLines(research.findings[i])
    BY <1>2
  <2>4. QED
    BY <2>2, <2>3, ClaimLinesAre
<1>6. ASSUME NEW f \in ToSet(research.findings), Shown(f) # Blank
      PROVE  \E l \in ToSet(claims) : IsLineOf(l, f)
  <2>1. ToSet(research.findings) = {research.findings[i] : i \in 1..n}
    BY <1>1, ToSetSeq DEF IsSequence
  <2>2. PICK i \in 1..n : f = research.findings[i]
    BY <1>6, <2>1
  <2>3. cs[i] = ClaimLines(f)
    BY <1>2, <2>2
  <2>4. PICK l \in ToSet(ClaimLines(f)) : IsLineOf(l, f)
    BY <1>6, ClaimLinesAre
  <2>5. l \in ToSet(claims)
    BY <1>4, <2>3, <2>4
  <2>6. QED
    BY <2>4, <2>5
<1>7. PICK tris : tris = TriLines(research.tris)
  OBVIOUS
<1>8. IsSequence(tris) /\ \A l \in ToSet(tris) : l.what = "tri"
  <2>1. PICK m \in Nat : m = Len(research.tris) /\ DOMAIN research.tris = 1..m
    BY LenProperties DEF IsSequence
  <2>2. tris = [i \in 1..m |-> tris[i]] /\ \A i \in 1..m : tris[i].what = "tri"
    BY <1>7, <2>1 DEF TriLines
  <2>3. PICK T : T = {tris[i] : i \in 1..m}
    OBVIOUS
  <2>4. tris \in [1..m -> T]
    BY <2>2, <2>3
  <2>5. tris \in Seq(T) /\ Len(tris) = m
    BY <2>4
  <2>6. IsSequence(tris) /\ ToSet(tris) = {tris[i] : i \in 1..m}
    BY <2>5, SeqOfItsOwn, ToSetSeq DEF IsSequence
  <2>7. QED
    BY <2>2, <2>6
<1>9. PICK notes : notes = DroppedLines(research.dropped)
  OBVIOUS
<1>10. IsSequence(notes) /\ \A l \in ToSet(notes) : l.what = "dropped"
  BY <1>9, DroppedLinesAre
<1>11. ResearchLines(research) = (claims \o tris) \o notes
  BY <1>1, <1>2, <1>3, <1>7, <1>9 DEF ResearchLines
<1>12. PICK T : T = ToSet(claims) \cup ToSet(tris) \cup ToSet(notes)
  OBVIOUS
<1>13. claims \in Seq(T) /\ tris \in Seq(T) /\ notes \in Seq(T)
  BY <1>4, <1>8, <1>10, <1>12 DEF IsSequence
<1>14. PICK x : x = claims \o tris
  OBVIOUS
<1>15. x \in Seq(T) /\ ToSet(x) = ToSet(claims) \cup ToSet(tris)
  BY <1>13, <1>14, JoinPlaces
<1>16. PICK y : y = x \o notes
  OBVIOUS
<1>17. y \in Seq(T) /\ ToSet(y) = ToSet(claims) \cup ToSet(tris) \cup ToSet(notes)
  <2>1. y \in Seq(T) /\ ToSet(y) = ToSet(x) \cup ToSet(notes)
    BY <1>13, <1>15, <1>16, JoinPlaces
  <2>2. QED
    BY <1>15, <2>1
<1>18. ResearchLines(research) = y /\ IsSequence(y)
  BY <1>11, <1>14, <1>16, <1>17, SeqOfItsOwn DEF IsSequence
<1>19. \A d \in ToSet(research.dropped) :
         \E l \in ToSet(notes) : l.what = "dropped" /\ l.label = d.label
  BY <1>9, DroppedLinesAre
<1>20. QED
  BY <1>5, <1>6, <1>8, <1>10, <1>17, <1>18, <1>19

\* An empty checklist's error says how many of the notes are not shown with it.
LEMMA FailureIs ==
  ASSUME ResearchInv, section.status = "failed"
  PROVE  /\ IsSequence(section.shown) /\ Len(section.shown) \in Nat
         /\ section.more \in Nat /\ section.more + Len(section.shown) = Len(checked.dropped)
         /\ section.more = 0 => ToSet(checked.dropped) \subseteq ToSet(section.shown)
<1>1. IsSequence(<<>>) /\ Len(<<>>) = 0
  BY DEF IsSequence
<1>2. CASE checked = Unchecked /\ section = [NoSection EXCEPT !.status = "failed"]
  <2>1. section.shown = <<>> /\ section.more = 0 /\ checked.dropped = <<>>
    BY <1>2 DEF Unchecked, NoSection
  <2>2. QED
    BY <1>1, <2>1
<1>3. CASE /\ asked.reply \in Replies /\ asked.results \in Searches
           /\ checked = ParseResearch(asked.reply, asked.results)
           /\ section = SectionOf(checked)
  <2>1. IsSequence(checked.dropped)
    BY <1>3, ParsedIs DEF IsParsed
  <2>2. PICK dropped \in Seq(ToSet(checked.dropped)) : dropped = checked.dropped
    BY <2>1 DEF IsSequence
  <2>3. PICK shown : shown = Upto(dropped, MaxShown)
    OBVIOUS
  <2>4. section.shown = shown /\ section.more = Len(dropped) - Len(shown)
    <3>1. ~(Answered(checked) > 0)
      BY <1>3 DEF SectionOf, NoSection
    <3>2. section = [status |-> "failed", shown |-> shown, more |-> Len(dropped) - Len(shown)]
      BY <1>3, <2>2, <2>3, <3>1 DEF SectionOf
    <3>3. QED
      BY <3>2
  <2>5. /\ shown \in Seq(ToSet(checked.dropped))
        /\ Len(shown) = IF MaxShown <= Len(dropped) THEN MaxShown ELSE Len(dropped)
        /\ \A i \in 1..Len(shown) : i \in 1..Len(dropped) /\ shown[i] = dropped[i]
    <3>1. MaxShown \in Nat
      BY ResearchAssumption DEF ResearchAssumption
    <3>2. shown = SubSeq(dropped, 1, Min({MaxShown, Len(dropped)}))
      BY <2>3 DEF Upto
    <3>3. shown \in Seq(ToSet(checked.dropped))
      BY <2>2, <3>1, <3>2, BeginningProperties
    <3>4. Len(shown) = IF MaxShown <= Len(dropped) THEN MaxShown ELSE Len(dropped)
      BY <2>2, <3>1, <3>2, BeginningProperties
    <3>5. \A i \in 1..Len(shown) : i \in 1..Len(dropped) /\ shown[i] = dropped[i]
      BY <2>2, <3>1, <3>2, BeginningProperties
    <3>6. QED
      BY <3>3, <3>4, <3>5
  <2>6. IsSequence(shown) /\ Len(shown) \in Nat /\ Len(dropped) \in Nat
    BY <2>2, <2>5, SeqOfItsOwn, LenProperties DEF IsSequence
  <2>7. Len(shown) <= Len(dropped)
    BY <2>5, <2>6, ResearchAssumption DEF ResearchAssumption
  <2>8. ASSUME Len(shown) = Len(dropped) PROVE ToSet(dropped) \subseteq ToSet(shown)
    <3>1. ToSet(shown) = {shown[i] : i \in 1..Len(shown)}
      BY <2>5, ToSetSeq
    <3>2. ToSet(dropped) = {dropped[i] : i \in 1..Len(dropped)}
      BY ToSetSeq
    <3>3. QED
      BY <2>5, <2>8, <3>1, <3>2
  <2>9. QED
    BY <2>2, <2>4, <2>6, <2>7, <2>8
<1>4. QED
  <2>1. \A status : [NoSection EXCEPT !.status = status].status = status
    BY DEF NoSection
  <2>2. QED
    BY <1>2, <1>3, <2>1, Zenon DEF ResearchInv

\* The lines of an empty checklist are the notes that are shown and the error.
LEMMA FailureLinesAre ==
  ASSUME ResearchInv, section.status = "failed",
         NEW d, d = Len(section.shown), NEW lines, lines = ResearchSection.lines
  PROVE  /\ d \in Nat /\ IsSequence(lines) /\ Len(lines) = d + 1
         /\ \A j \in 1..d : lines[j].what = "dropped"
         /\ lines[d + 1].what = "error" /\ lines[d + 1].more = section.more
         /\ \A note \in ToSet(section.shown) :
              \E l \in ToSet(lines) : l.what = "dropped" /\ l.label = note.label
<1>1. PICK notes : notes = DroppedLines(section.shown)
  OBVIOUS
<1>2. PICK error : error = [what |-> "error", more |-> section.more]
  OBVIOUS
<1>3. /\ IsSequence(notes) /\ Len(notes) = d /\ d \in Nat
      /\ \A l \in ToSet(notes) : l.what = "dropped"
      /\ \A note \in ToSet(section.shown) :
           \E l \in ToSet(notes) : l.what = "dropped" /\ l.label = note.label
  BY <1>1, FailureIs, DroppedLinesAre
<1>4. lines = notes \o <<error>>
  BY <1>1, <1>2 DEF ResearchSection
<1>5. PICK T : T = ToSet(notes) \cup {error}
  OBVIOUS
<1>6. notes \in Seq(T) /\ error \in T
  BY <1>3, <1>5 DEF IsSequence
<1>7. /\ lines \in Seq(T) /\ Len(lines) = d + 1 /\ lines[d + 1] = error
      /\ \A j \in 1..d : lines[j] = notes[j]
  BY <1>3, <1>4, <1>6, SMTT(30)
<1>8. \A j \in 1..d : notes[j] \in ToSet(notes)
  <2>1. ToSet(notes) = {notes[j] : j \in 1..d}
    BY <1>3, ToSetSeq DEF IsSequence
  <2>2. QED
    BY <2>1
<1>9. IsSequence(lines)
  BY <1>7, SeqOfItsOwn DEF IsSequence
<1>10. error.what = "error" /\ error.more = section.more
  BY <1>2
<1>11. ToSet(notes) \subseteq ToSet(lines)
  <2>1. /\ ToSet(notes) = {notes[j] : j \in 1..d}
        /\ ToSet(lines) = {lines[j] : j \in 1..(d + 1)}
    BY <1>3, <1>7, ToSetSeq DEF IsSequence
  <2>2. \A j \in 1..d : j \in 1..(d + 1)
    BY <1>3
  <2>3. QED
    BY <1>7, <2>1, <2>2
<1>12. \A note \in ToSet(section.shown) :
         \E l \in ToSet(lines) : l.what = "dropped" /\ l.label = note.label
  BY <1>3, <1>11
<1>13. QED
  BY <1>3, <1>7, <1>8, <1>9, <1>10, <1>12

\* The section of the research source is one a report can print.
LEMMA ResearchIsSection ==
  ASSUME ResearchInv, section # NoSection
  PROVE  IsSection(ResearchSection)
<1>1. section.status \in {"ok", "failed", "skipped"}
  <2>1. \A status : [NoSection EXCEPT !.status = status].status = status
    BY DEF NoSection
  <2>2. [NoSection EXCEPT !.status = "none"] = NoSection
    BY DEF NoSection
  <2>3. SectionOf(checked).status \in {"ok", "failed"}
    BY DEF SectionOf, NoSection
  <2>4. QED
    BY <2>1, <2>2, <2>3 DEF ResearchInv
<1>2. /\ ResearchSection.status = section.status /\ ResearchSection.list = <<>>
      /\ IsSequence(<<>>)
  BY DEF ResearchSection, IsSequence
<1>3. PICK lines : lines = ResearchSection.lines
  OBVIOUS
<1>4. CASE section.status = "ok"
  <2>1. lines = ResearchLines(checked)
    BY <1>3, <1>4 DEF ResearchSection
  <2>2. IsParsed(checked, asked.reply, asked.results)
    BY <1>4, CheckedIs
  <2>3. IsSequence(lines) /\ \A l \in ToSet(lines) : l.what \in {"claim", "tri", "dropped"}
    BY <2>1, <2>2, ResearchLinesAre DEF IsParsed
  <2>4. QED
    BY <1>1, <1>2, <1>3, <2>3 DEF IsSection
<1>5. CASE section.status = "failed"
  <2>1. PICK d \in Nat : d = Len(section.shown)
    BY <1>5, FailureIs
  <2>2. /\ IsSequence(lines) /\ Len(lines) = d + 1
        /\ \A j \in 1..d : lines[j].what = "dropped"
        /\ lines[d + 1].what = "error"
    BY <1>3, <1>5, <2>1, FailureLinesAre
  <2>3. ToSet(lines) = {lines[j] : j \in 1..(d + 1)}
    BY <2>2, ToSetSeq DEF IsSequence
  <2>4. \A j \in 1..(d + 1) : j \in 1..d \/ j = d + 1
    OBVIOUS
  <2>5. \A l \in ToSet(lines) : l.what \in {"dropped", "error"}
    BY <2>2, <2>3, <2>4
  <2>6. QED
    BY <1>1, <1>2, <1>3, <2>2, <2>5 DEF IsSection
<1>6. CASE section.status = "skipped"
  <2>1. PICK note : note = [what |-> "note"]
    OBVIOUS
  <2>2. lines = <<note>>
    BY <1>3, <1>6, <2>1 DEF ResearchSection
  <2>3. IsSequence(<<note>>) /\ ToSet(<<note>>) = {note}
    BY DEF IsSequence, ToSet
  <2>4. note.what = "note"
    BY <2>1
  <2>5. QED
    BY <1>1, <1>2, <1>3, <2>2, <2>3, <2>4 DEF IsSection
<1>7. QED
  BY <1>1, <1>4, <1>5, <1>6

\* What Assembled hands to the report is a list of such sections, that one last.
LEMMA AssembledAre ==
  ASSUME ResearchInv, section # NoSection, NEW others \in Others,
         NEW secs, secs = Append(others, ResearchSection)
  PROVE  /\ AreSections(secs) /\ secs # <<>> /\ Len(secs) \in Nat \ {0}
         /\ secs[Len(secs)] = ResearchSection
         /\ \A i \in 1..(Len(secs) - 1) :
              \A l \in ToSet(secs[i].lines) : l.what \in {"query", "note", "error"}
<1>1. /\ IsSequence(others)
      /\ \A s \in ToSet(others) :
           IsSection(s) /\ \A l \in ToSet(s.lines) : l.what \in {"query", "note", "error"}
  <2>1. SUFFICES ASSUME NEW s \in ToSet(others)
                 PROVE  /\ IsSection(s)
                        /\ \A l \in ToSet(s.lines) : l.what \in {"query", "note", "error"}
    BY ChecklistAssumption DEF ChecklistAssumption
  <2>2. /\ s.status \in {"ok", "failed", "skipped"}
        /\ IsSequence(s.list) /\ IsSequence(s.lines)
        /\ \A l \in ToSet(s.lines) : l.what \in {"query", "note", "error"}
    BY ChecklistAssumption DEF ChecklistAssumption
  <2>3. \A l \in ToSet(s.lines) : l.what \notin {"summary", "heading", "row", "held"}
    BY <2>2
  <2>4. QED
    BY <2>2, <2>3, Zenon DEF IsSection
<1>2. PICK own : own = ResearchSection
  OBVIOUS
<1>3. IsSection(own)
  BY <1>2, ResearchIsSection
<1>4. PICK T : T = ToSet(others) \cup {own}
  OBVIOUS
<1>5. others \in Seq(T) /\ own \in T
  BY <1>1, <1>4 DEF IsSequence
<1>6. secs = Append(others, own)
  BY <1>2
<1>7. /\ secs \in Seq(T) /\ Len(secs) = Len(others) + 1 /\ Len(others) \in Nat
      /\ secs[Len(others) + 1] = own
      /\ \A i \in 1..Len(others) : secs[i] = others[i]
      /\ secs # <<>>
  BY <1>5, <1>6
<1>8. ToSet(secs) \subseteq T /\ IsSequence(secs)
  BY <1>7, ToSetSeq, SeqOfItsOwn DEF IsSequence
<1>9. AreSections(secs)
  BY <1>1, <1>3, <1>4, <1>8 DEF AreSections
<1>10. \A i \in 1..Len(others) : others[i] \in ToSet(others)
  <2>1. ToSet(others) = {others[i] : i \in 1..Len(others)}
    BY <1>1, ToSetSeq DEF IsSequence
  <2>2. QED
    BY <2>1
<1>11. ASSUME NEW i \in 1..(Len(secs) - 1)
       PROVE  \A l \in ToSet(secs[i].lines) : l.what \in {"query", "note", "error"}
  <2>1. i \in 1..Len(others)
    BY <1>7
  <2>2. secs[i] = others[i] /\ others[i] \in ToSet(others)
    BY <1>7, <1>10, <2>1
  <2>3. QED
    BY <1>1, <2>2
<1>12. QED
  BY <1>2, <1>7, <1>9, <1>11

-----------------------------------------------------------------------------
(* The report as it is printed. *)

\* Nothing has been rendered, or what was written and what is to be are together the
\* content of the sections that were assembled, until a line cannot be written.
ReportInv ==
  /\ full \in BOOLEAN /\ broken \in BOOLEAN
  /\ \/ sections = <<>> /\ printed = <<>> /\ todo = <<>> /\ ~broken
     \/ /\ section # NoSection
        /\ \E others \in Others : sections = Append(others, ResearchSection)
        /\ printed \in Seq(ToSet(Content(sections, full)))
        /\ todo \in Seq(ToSet(Content(sections, full)))
        /\ ~broken => printed \o todo = Content(sections, full)
        /\ broken => todo = <<>>

Inv == ResearchInv /\ ReportInv

\* It holds before anything is fetched.
LEMMA InvInit == Init => Inv
BY ResearchInvInit DEF Init, Inv, ReportInit, ReportInv

\* A fetch comes before the sections are assembled, which starts the printing; a line
\* that is written moves from what is to be printed to what was.
LEMMA InvNext == Inv /\ [Next]_vars => Inv'
<1>1. SUFFICES ASSUME Inv, [Next]_vars PROVE Inv'
  OBVIOUS
<1>2. CASE Fetch /\ UNCHANGED reportVars
  <2>1. ResearchInv'
    BY <1>1, <1>2, ResearchInvStep DEF Inv
  <2>2. section = NoSection
    BY <1>2 DEF Fetch, ResearchSkipped, ResearchFails, ResearchAnswers
  <2>3. ReportInv'
    BY <1>1, <1>2, <2>2 DEF Inv, ReportInv, reportVars
  <2>4. QED
    BY <2>1, <2>3 DEF Inv
<1>3. CASE Assembled /\ UNCHANGED researchVars
  <2>1. ResearchInv'
    BY <1>1, <1>3, ResearchInvStep DEF Inv
  <2>2. /\ section # NoSection /\ sections = <<>>
        /\ UNCHANGED <<full, printed, broken>>
    BY <1>3 DEF Assembled, Render
  <2>3. PICK others \in Others : /\ sections' = Append(others, ResearchSection)
                                 /\ todo' = Content(sections', full)
    BY <1>3 DEF Assembled, Render
  <2>4. full \in BOOLEAN /\ broken \in BOOLEAN /\ printed = <<>> /\ ~broken
    <3>1. \A others2 : sections # Append(others2, ResearchSection)
                         \/ ~(others2 \in Others) \/ sections # <<>>
      BY <1>1, <2>2, AssembledAre DEF Inv
    <3>2. QED
      BY <1>1, <2>2, <3>1 DEF Inv, ReportInv
  <2>5. PICK content : content = Content(sections', full)
    OBVIOUS
  <2>6. IsSequence(content)
    <3>1. AreSections(sections')
      BY <1>1, <2>2, <2>3, AssembledAre DEF Inv
    <3>2. PICK after : IsLaidOut(content, sections', full, after)
      BY <2>4, <2>5, <3>1, ContentIs
    <3>3. QED
      BY <3>2 DEF IsLaidOut
  <2>7. /\ <<>> \in Seq(ToSet(content)) /\ content \in Seq(ToSet(content))
        /\ <<>> \o content = content
    BY <2>6 DEF IsSequence
  <2>8. ResearchSection' = ResearchSection /\ section' = section
    BY <1>3 DEF researchVars, ResearchSection
  <2>9. ReportInv'
    <3>1. printed' = <<>> /\ todo' = content /\ full' = full /\ broken' = broken
      BY <2>2, <2>3, <2>4, <2>5
    <3>2. Content(sections', full') = content
      BY <2>5, <3>1
    <3>3. \E o \in Others : sections' = Append(o, ResearchSection')
      BY <2>3, <2>8
    <3>4. QED
      BY <2>2, <2>4, <2>7, <2>8, <3>1, <3>2, <3>3 DEF ReportInv
  <2>10. QED
    BY <2>1, <2>9 DEF Inv
<1>4. CASE Printf /\ UNCHANGED researchVars
  <2>1. ResearchInv'
    BY <1>1, <1>4, ResearchInvStep DEF Inv
  <2>2. todo # <<>> /\ UNCHANGED <<sections, full>>
    BY <1>4 DEF Printf
  <2>3. PICK content : content = Content(sections, full)
    OBVIOUS
  <2>4. /\ full \in BOOLEAN /\ broken \in BOOLEAN /\ section # NoSection
        /\ \E others \in Others : sections = Append(others, ResearchSection)
        /\ printed \in Seq(ToSet(content)) /\ todo \in Seq(ToSet(content))
        /\ ~broken => printed \o todo = content
        /\ ~broken
    BY <1>1, <2>2, <2>3 DEF Inv, ReportInv
  <2>5. /\ ResearchSection' = ResearchSection /\ section' = section
        /\ Content(sections', full') = content
    BY <1>4, <2>2, <2>3 DEF researchVars, ResearchSection
  <2>6. \E others \in Others : sections' = Append(others, ResearchSection')
    BY <2>2, <2>4, <2>5
  <2>7. CASE printed' = Append(printed, Head(todo)) /\ todo' = Tail(todo) /\ UNCHANGED broken
    <3>1. /\ printed' \in Seq(ToSet(content)) /\ todo' \in Seq(ToSet(content))
          /\ printed' \o todo' = printed \o todo
      <4>1. /\ Append(printed, Head(todo)) \in Seq(ToSet(content))
            /\ Tail(todo) \in Seq(ToSet(content))
            /\ Append(printed, Head(todo)) \o Tail(todo) = printed \o todo
        BY <2>2, <2>4, OneMoved, ZenonT(30)
      <4>2. QED
        BY <2>7, <4>1, Zenon
    <3>2. QED
      BY <2>1, <2>2, <2>4, <2>5, <2>6, <2>7, <3>1 DEF Inv, ReportInv
  <2>8. CASE broken' = TRUE /\ todo' = <<>> /\ UNCHANGED printed
    <3>1. <<>> \in Seq(ToSet(content))
      OBVIOUS
    <3>2. QED
      BY <2>1, <2>2, <2>4, <2>5, <2>6, <2>8, <3>1 DEF Inv, ReportInv
  <2>9. QED
    BY <1>4, <2>7, <2>8 DEF Printf
<1>5. CASE UNCHANGED vars
  <2>1. UNCHANGED researchVars /\ UNCHANGED reportVars
    BY <1>5 DEF vars
  <2>2. ResearchInv'
    BY <1>1, <2>1, ResearchInvStep DEF Inv
  <2>3. /\ ResearchSection' = ResearchSection /\ section' = section
        /\ UNCHANGED <<sections, full, todo, printed, broken>>
    BY <2>1 DEF researchVars, reportVars, ResearchSection
  <2>4. ReportInv'
    BY <1>1, <2>3 DEF Inv, ReportInv
  <2>5. QED
    BY <2>2, <2>4 DEF Inv
<1>6. QED
  BY <1>1, <1>2, <1>3, <1>4, <1>5 DEF Next, Finished

\* What has been written when Render returns nil is the whole content.
LEMMA RenderedIs ==
  ASSUME Inv, Rendered
  PROVE  /\ printed = Content(sections, full) /\ full \in BOOLEAN
         /\ section # NoSection
         /\ \E others \in Others : sections = Append(others, ResearchSection)
         /\ AreSections(sections)
<1>1. /\ section # NoSection /\ full \in BOOLEAN
      /\ printed \in Seq(ToSet(Content(sections, full))) /\ todo = <<>>
      /\ printed \o todo = Content(sections, full)
      /\ \E others \in Others : sections = Append(others, ResearchSection)
  BY DEF Inv, ReportInv, Rendered
<1>2. printed \o <<>> = printed
  BY <1>1
<1>3. AreSections(sections)
  BY <1>1, AssembledAre DEF Inv
<1>4. QED
  BY <1>1, <1>2, <1>3

\* The lines have the forms they are printed in.
LEMMA ReportIsTyped == Inv => ReportTypeOK
<1>1. SUFFICES ASSUME Inv PROVE ReportTypeOK
  OBVIOUS
<1>2. full \in BOOLEAN /\ broken \in BOOLEAN
  BY <1>1 DEF Inv, ReportInv
<1>3. CASE printed = <<>>
  <2>1. ToSet(printed) = {}
    BY <1>3 DEF ToSet
  <2>2. QED
    BY <1>2, <2>1 DEF ReportTypeOK
<1>4. CASE printed # <<>>
  <2>1. /\ section # NoSection
        /\ \E others \in Others : sections = Append(others, ResearchSection)
        /\ printed \in Seq(ToSet(Content(sections, full)))
    BY <1>1, <1>4 DEF Inv, ReportInv
  <2>2. AreSections(sections)
    BY <1>1, <2>1, AssembledAre DEF Inv
  <2>3. PICK F : F = Content(sections, full)
    OBVIOUS
  <2>4. PICK after : IsLaidOut(F, sections, full, after)
    BY <1>2, <2>2, <2>3, ContentIs
  <2>5. HasHeadings(F, sections, after)
    BY <1>2, <2>2, <2>4, HeadingsAre
  <2>6. ToSet(F) = {F[k] : k \in 1..Len(F)}
    BY <2>4, ToSetSeq DEF IsLaidOut, IsSequence
  <2>7. ASSUME NEW l \in ToSet(printed), l.what = "heading"
        PROVE  l.outcome \in Outcomes
    <3>1. l \in ToSet(F)
      BY <2>1, <2>3, <2>7, ToSetSeq
    <3>2. PICK k \in 1..Len(F) : l = F[k]
      BY <2>6, <3>1
    <3>3. PICK i \in 1..Len(sections) : k = after[i - 1] + 2
      BY <2>5, <2>7, <3>2 DEF HasHeadings
    <3>4. l = Heading(sections[i])
      BY <2>5, <3>2, <3>3 DEF HasHeadings
    <3>5. l.outcome = OutcomeOf(sections[i])
      BY <3>4 DEF Heading
    <3>6. OutcomeOf(sections[i]) \in Outcomes
      BY DEF OutcomeOf, Outcomes
    <3>7. QED
      BY <3>5, <3>6
  <2>8. QED
    BY <1>2, <2>7 DEF ReportTypeOK
<1>5. QED
  BY <1>3, <1>4

-----------------------------------------------------------------------------
(* What becomes of a claim. *)

\* The lines of a section are in the report.
LEMMA LinesArePrinted ==
  ASSUME NEW secs, AreSections(secs), NEW all \in BOOLEAN, NEW i \in 1..Len(secs),
         NEW l \in ToSet(secs[i].lines)
  PROVE  l \in ToSet(Content(secs, all))
<1>1. PICK F : F = Content(secs, all)
  OBVIOUS
<1>2. PICK after : IsLaidOut(F, secs, all, after)
  BY <1>1, ContentIs
<1>3. PICK s : s = secs[i] /\ IsSection(s)
  BY SectionsAre
<1>4. PICK p : p = SectionLines(s, all)
  OBVIOUS
<1>5. PICK n, c, h \in Nat : IsLaid(p, s, all, n, c, h)
  BY <1>3, <1>4, SectionIsLaid
<1>6. /\ n = Len(s.lines) /\ Len(p) = 1 + n + c + h
      /\ \A j \in 1..n : p[1 + j] = s.lines[j]
  BY <1>5 DEF IsLaid
<1>7. PICK j \in 1..n : l = s.lines[j]
  <2>1. PICK lines \in Seq(ToSet(s.lines)) : lines = s.lines
    BY <1>3 DEF IsSection, IsSequence
  <2>2. ToSet(lines) = {lines[d] : d \in 1..Len(lines)}
    BY ToSetSeq
  <2>3. QED
    BY <1>3, <1>6, <2>1, <2>2
<1>8. \A d \in 1..Len(p) : 1 + after[i - 1] + d \in 1..Len(F) /\ F[1 + after[i - 1] + d] = p[d]
  BY <1>2, <1>3, <1>4 DEF IsLaidOut
<1>9. 1 + j \in 1..Len(p)
  BY <1>6
<1>10. PICK k \in 1..Len(F) : F[k] = l
  BY <1>6, <1>7, <1>8, <1>9
<1>11. ToSet(F) = {F[d] : d \in 1..Len(F)}
  BY <1>2, ToSetSeq DEF IsLaidOut, IsSequence
<1>12. QED
  BY <1>1, <1>10, <1>11

\* A claim that stands is among the findings, and of any other there is a note.
LEMMA ClaimIsFound ==
  ASSUME ResearchInv, NEW c \in Claims
  PROVE  /\ IsSequence(asked.results) /\ IsParsed(checked, asked.reply, asked.results)
         /\ section = SectionOf(checked)
         /\ IF Stands(c)
              THEN \E f \in ToSet(checked.findings) : IsFinding(f, c, asked.results)
              ELSE \E d \in ToSet(checked.dropped) : d.label = c.label
<1>1. /\ c \in ToSet(asked.reply) /\ c.value # Blank
      /\ c.kind = "tri" => c.answer \notin TriAnswers \ {"yes"}
  BY DEF Claims
<1>2. asked # NoReply
  <2>1. ToSet(<<>>) = {}
    BY DEF ToSet
  <2>2. QED
    BY <1>1, <2>1 DEF NoReply
<1>3. /\ asked.reply \in Replies /\ IsSequence(asked.results)
      /\ IsParsed(checked, asked.reply, asked.results)
      /\ section = SectionOf(checked)
  BY <1>2, CheckedIs
<1>4. IsClaim(c)
  BY <1>1, <1>3, RepliesAre
<1>5. PICK found : found = Found(c, asked.results)
  OBVIOUS
<1>6. /\ FoundFor(found, c, asked.results)
      /\ found.findings # <<>> => IsAnswered(c)
      /\ found.findings = <<>> =>
           /\ found.dropped # <<>>
           /\ IsAnswered(c) => \A i \in DOMAIN c.urls : ~Known(asked.results, c.urls[i])
  BY <1>1, <1>3, <1>4, <1>5, FoundIs
<1>7. /\ ToSet(found.findings) \subseteq ToSet(checked.findings)
      /\ ToSet(found.dropped) \subseteq ToSet(checked.dropped)
  BY <1>1, <1>3, <1>5 DEF IsParsed
<1>8. Stands(c) <=> Supported(c) /\ IsAnswered(c)
  BY DEF Stands, IsAnswered
<1>9. CASE found.findings # <<>>
  <2>1. PICK f \in ToSet(found.findings) : IsFinding(f, c, asked.results)
    BY <1>3, <1>4, <1>5, <1>9, FoundAreFindings
  <2>2. f.citations # <<>> /\ IsSequence(f.citations)
    BY <2>1 DEF IsFinding, IsCited
  <2>3. PICK r : r \in ToSet(f.citations)
    BY <2>2, FirstIsIn
  <2>4. CitedBy(c, r) /\ r \in ToSet(asked.results) /\ Page[r.url] # Blank
    BY <1>3, <2>1, <2>3, FindingCites
  <2>5. Stands(c)
    BY <1>6, <1>8, <1>9, <2>4 DEF Supported
  <2>6. QED
    BY <1>3, <1>7, <2>1, <2>5
<1>10. CASE found.findings = <<>>
  <2>1. ASSUME Supported(c) PROVE \E i \in DOMAIN c.urls : Known(asked.results, c.urls[i])
    <3>1. PICK r \in ToSet(asked.results), i \in DOMAIN c.urls :
            Page[c.urls[i]] = Page[r.url] /\ Page[r.url] # Blank
      BY <2>1 DEF Supported, CitedBy
    <3>2. PICK n \in DOMAIN asked.results : r = asked.results[n]
      BY <3>1 DEF ToSet
    <3>3. QED
      BY <3>1, <3>2 DEF Known
  <2>2. ~Stands(c)
    BY <1>6, <1>8, <1>10, <2>1
  <2>3. IsSequence(found.dropped) /\ found.dropped # <<>>
    BY <1>6, <1>10 DEF FoundFor
  <2>4. PICK d : d \in ToSet(found.dropped)
    BY <2>3, FirstIsIn
  <2>5. d.label = c.label
    BY <1>6, <2>4 DEF FoundFor
  <2>6. QED
    BY <1>3, <1>7, <2>2, <2>4, <2>5
<1>11. QED
  BY <1>9, <1>10

\* The lines of the research section are printed.
LEMMA OwnLinesArePrinted ==
  ASSUME Inv, Rendered, NEW l \in ToSet(ResearchSection.lines)
  PROVE  l \in ToSet(printed)
<1>1. PICK others \in Others : sections = Append(others, ResearchSection)
  BY RenderedIs
<1>2. Len(sections) \in Nat \ {0} /\ sections[Len(sections)] = ResearchSection
  BY <1>1, RenderedIs, AssembledAre DEF Inv
<1>3. PICK i \in 1..Len(sections) : l \in ToSet(sections[i].lines)
  <2>1. Len(sections) \in 1..Len(sections)
    BY <1>2
  <2>2. QED
    BY <1>2, <2>1
<1>4. QED
  BY <1>3, RenderedIs, LinesArePrinted

\* In a section with data a claim that stands is printed with its sources if there is
\* anything to print it as, and any other is named as dropped.
LEMMA ClaimIsAccounted ==
  ASSUME Inv, Rendered, section.status = "ok", NEW c \in Claims
  PROVE  IF Stands(c)
           THEN \/ c.kind = "location" /\ c.place = Blank
                \/ \E l \in ToSet(printed) : PrintedFor(l, c)
           ELSE NamedAsDropped(c)
<1>1. c.value # Blank
  BY DEF Claims
<1>2. /\ IsSequence(asked.results)
      /\ IsSequence(checked.findings) /\ IsSequence(checked.tris) /\ IsSequence(checked.dropped)
  BY ClaimIsFound DEF Inv, IsParsed
<1>3. ResearchSection.lines = ResearchLines(checked)
  BY DEF ResearchSection
<1>4. CASE Stands(c)
  <2>1. PICK f \in ToSet(checked.findings) : IsFinding(f, c, asked.results)
    BY <1>4, ClaimIsFound DEF Inv
  <2>2. SUFFICES ASSUME ~(c.kind = "location" /\ c.place = Blank)
                 PROVE  \E l \in ToSet(printed) : PrintedFor(l, c)
    BY <1>4
  <2>3. Shown(f) = Shown(c) /\ Shown(f) # Blank /\ f.label = c.label
    BY <1>1, <2>1, <2>2 DEF IsFinding, Shown
  <2>4. PICK l \in ToSet(ResearchLines(checked)) : IsLineOf(l, f)
    BY <1>2, <2>1, <2>3, ResearchLinesAre
  <2>5. l \in ToSet(printed)
    BY <1>3, <2>4, OwnLinesArePrinted
  <2>6. f.citations # <<>>
    BY <2>1 DEF IsFinding
  <2>7. \A r \in ToSet(f.citations) : CitedBy(c, r) /\ Contains(asked.results, r)
    BY <1>2, <2>1, FindingCites
  <2>8. PrintedFor(l, c)
    BY <2>3, <2>4, <2>6, <2>7 DEF PrintedFor, IsLineOf
  <2>9. QED
    BY <2>5, <2>8
<1>5. CASE ~Stands(c)
  <2>1. PICK d \in ToSet(checked.dropped) : d.label = c.label
    BY <1>5, ClaimIsFound DEF Inv
  <2>2. PICK l \in ToSet(ResearchLines(checked)) : l.what = "dropped" /\ l.label = d.label
    BY <1>2, <2>1, ResearchLinesAre
  <2>3. l \in ToSet(printed)
    BY <1>3, <2>2, OwnLinesArePrinted
  <2>4. QED
    BY <1>5, <2>1, <2>2, <2>3 DEF NamedAsDropped
<1>6. QED
  BY <1>4, <1>5

\* A checklist that counts as empty has found nothing but evidence for a "yes".
LEMMA OnlyTris ==
  ASSUME NEW research, IsSequence(research.findings), ~(Answered(research) > 0),
         NEW f \in ToSet(research.findings)
  PROVE  f.kind = "tri"
<1>1. PICK n \in Nat : n = Len(research.findings) /\ DOMAIN research.findings = 1..n
  BY LenProperties DEF IsSequence
<1>2. PICK S \in SUBSET (1..n) : S = {i \in 1..n : research.findings[i].kind # "tri"}
  OBVIOUS
<1>3. IsFiniteSet(S) /\ Cardinality(S) \in Nat
  <2>1. IsFiniteSet(1..n)
    BY FS_Interval
  <2>2. IsFiniteSet(S)
    BY <2>1, FS_Subset, Zenon
  <2>3. QED
    BY <2>2, FS_CardinalityType, Zenon
<1>4. Answered(research) = Cardinality(S)
  BY <1>1, <1>2 DEF Answered
<1>5. S = {}
  BY <1>3, <1>4, FS_EmptySet
<1>6. PICK i \in 1..n : f = research.findings[i]
  BY <1>1 DEF ToSet
<1>7. QED
  BY <1>2, <1>5, <1>6

\* Of an empty checklist a claim that stands is such a "yes", and any other is named or
\* among the notes that are only counted.
LEMMA ClaimIsCounted ==
  ASSUME Inv, Rendered, section.status = "failed", NEW c \in Claims
  PROVE  IF Stands(c)
           THEN c.kind = "tri"
           ELSE \/ NamedAsDropped(c)
                \/ section.more > 0 /\ \E d \in ToSet(checked.dropped) : d.label = c.label
<1>1. IsSequence(checked.findings) /\ section = SectionOf(checked)
  BY ClaimIsFound DEF Inv, IsParsed
<1>2. ~(Answered(checked) > 0)
  BY <1>1 DEF SectionOf, NoSection
<1>3. CASE Stands(c)
  <2>1. PICK f \in ToSet(checked.findings) : IsFinding(f, c, asked.results)
    BY <1>3, ClaimIsFound DEF Inv
  <2>2. f.kind = "tri"
    BY <1>1, <1>2, OnlyTris
  <2>3. QED
    BY <1>3, <2>1, <2>2 DEF IsFinding
<1>4. CASE ~Stands(c)
  <2>1. PICK d \in ToSet(checked.dropped) : d.label = c.label
    BY <1>4, ClaimIsFound DEF Inv
  <2>2. CASE section.more = 0
    <3>1. d \in ToSet(section.shown)
      BY <2>1, <2>2, FailureIs DEF Inv
    <3>2. PICK l \in ToSet(ResearchSection.lines) : l.what = "dropped" /\ l.label = d.label
      BY <3>1, FailureLinesAre DEF Inv
    <3>3. l \in ToSet(printed)
      BY <3>2, OwnLinesArePrinted
    <3>4. QED
      BY <1>4, <2>1, <3>2, <3>3 DEF NamedAsDropped
  <2>3. CASE section.more # 0
    <3>1. section.more > 0
      BY <2>3, FailureIs DEF Inv
    <3>2. QED
      BY <1>4, <2>1, <3>1
  <2>4. QED
    BY <2>2, <2>3
<1>5. QED
  BY <1>3, <1>4

\* As many notes are printed with the error of an empty checklist as it says.
LEMMA NotesAreCounted ==
  ASSUME Inv, Rendered, section.status = "failed"
  PROVE  Cardinality({k \in DOMAIN printed : printed[k].what = "dropped"}) = Len(section.shown)
<1>1. PICK others \in Others : sections = Append(others, ResearchSection)
  BY RenderedIs
<1>2. PICK m \in Nat \ {0} :
        /\ m = Len(sections) /\ sections[m] = ResearchSection
        /\ \A i \in 1..(m - 1) :
             \A l \in ToSet(sections[i].lines) : l.what \in {"query", "note", "error"}
  BY <1>1, RenderedIs, AssembledAre DEF Inv
<1>3. AreSections(sections) /\ full \in BOOLEAN /\ printed = Content(sections, full)
  BY RenderedIs
<1>4. PICK after : IsLaidOut(printed, sections, full, after)
  BY <1>3, ContentIs
<1>5. PICK N \in Nat : N = Len(printed) /\ DOMAIN printed = 1..N
  BY <1>4, LenProperties DEF IsLaidOut, IsSequence
<1>6. PICK d \in Nat : d = Len(section.shown)
  BY FailureIs DEF Inv
<1>7. PICK own : own = ResearchSection
  OBVIOUS
<1>8. /\ own.status = "failed" /\ IsSequence(own.lines) /\ Len(own.lines) = d + 1
      /\ \A j \in 1..d : own.lines[j].what = "dropped"
      /\ own.lines[d + 1].what = "error"
  <2>1. own.status = "failed"
    BY <1>7 DEF ResearchSection
  <2>2. QED
    BY <1>6, <1>7, <2>1, FailureLinesAre DEF Inv
<1>9. ASSUME NEW i \in 1..m, NEW j \in 1..Len(SectionLines(sections[i], full))
      PROVE  SectionLines(sections[i], full)[j].what = "dropped" <=> i = m /\ j \in 2..(d + 1)
  <2>1. PICK s : s = sections[i]
    OBVIOUS
  <2>2. IsSection(s)
    BY <1>2, <1>3, <2>1, SectionsAre
  <2>3. PICK p : p = SectionLines(s, full)
    OBVIOUS
  <2>4. PICK n, c, h \in Nat : IsLaid(p, s, full, n, c, h)
    BY <1>3, <2>2, <2>3, SectionIsLaid
  <2>5. /\ n = Len(s.lines) /\ Len(p) = 1 + n + c + h
        /\ \A k \in 1..n : p[1 + k] = s.lines[k]
        /\ s.status # "ok" => c = 0 /\ h = 0
    BY <2>4 DEF IsLaid
  <2>6. p[j].what \in {"heading", "row", "held"} \/ j - 1 \in 1..n
    BY <2>1, <2>2, <2>3, <2>4, LinesApart
  <2>7. p[1].what = "heading"
    BY <2>4 DEF IsLaid, Heading
  <2>8. CASE i # m
    <3>1. i \in 1..(m - 1)
      BY <2>8
    <3>2. ASSUME j - 1 \in 1..n PROVE p[j].what # "dropped"
      <4>1. p[j] = s.lines[j - 1]
        <5>1. p[1 + (j - 1)] = s.lines[j - 1] /\ 1 + (j - 1) = j
          BY <2>5, <3>2
        <5>2. QED
          BY <5>1
      <4>2. s.lines[j - 1] \in ToSet(s.lines)
        <5>1. PICK lines \in Seq(ToSet(s.lines)) : lines = s.lines
          BY <2>2 DEF IsSection, IsSequence
        <5>2. ToSet(lines) = {lines[k] : k \in 1..Len(lines)}
          BY ToSetSeq
        <5>3. QED
          BY <2>5, <3>2, <5>1, <5>2
      <4>3. p[j].what \in {"query", "note", "error"}
        BY <1>2, <2>1, <3>1, <4>1, <4>2
      <4>4. QED
        BY <4>3
    <3>3. p[j].what # "dropped"
      BY <2>6, <3>2
    <3>4. QED
      BY <2>1, <2>3, <2>8, <3>3
  <2>9. CASE i = m
    <3>1. s = own
      BY <1>2, <1>7, <2>1, <2>9
    <3>2. n = d + 1 /\ Len(p) = d + 2
      BY <1>8, <2>5, <3>1
    <3>3. j \in 1..(d + 2)
      BY <2>1, <2>3, <3>2
    <3>4. CASE j = 1
      BY <2>1, <2>3, <2>7, <3>4
    <3>5. CASE j \in 2..(d + 1)
      <4>1. j - 1 \in 1..d /\ j - 1 \in 1..n /\ 1 + (j - 1) = j
        BY <3>2, <3>5
      <4>2. p[j].what = "dropped"
        BY <1>8, <2>5, <3>1, <4>1, ZenonT(30)
      <4>3. QED
        BY <2>1, <2>3, <2>9, <3>5, <4>2
    <3>6. CASE j = d + 2
      <4>1. d + 1 \in 1..n /\ 1 + (d + 1) = d + 2
        BY <3>2
      <4>2. p[d + 2] = own.lines[d + 1]
        BY <2>5, <3>1, <4>1
      <4>3. p[j].what = "error"
        BY <1>8, <3>6, <4>2
      <4>4. j \notin 2..(d + 1)
        BY <3>6
      <4>5. QED
        BY <2>1, <2>3, <4>3, <4>4
    <3>7. QED
      BY <3>3, <3>4, <3>5, <3>6
  <2>10. QED
    BY <2>8, <2>9
<1>10. PICK a \in Nat : a = after[m - 1]
  <2>1. m - 1 \in 0..Len(sections) /\ after \in [0..Len(sections) -> Nat]
    BY <1>2, <1>4 DEF IsLaidOut
  <2>2. QED
    BY <2>1
<1>11. Len(SectionLines(sections[m], full)) = d + 2
  <2>1. m \in 1..Len(sections)
    BY <1>2
  <2>2. PICK n, c, h \in Nat : IsLaid(SectionLines(own, full), own, full, n, c, h)
    BY <1>2, <1>3, <1>7, <2>1, SectionsAre, SectionIsLaid
  <2>3. /\ n = Len(own.lines) /\ Len(SectionLines(own, full)) = 1 + n + c + h
        /\ own.status # "ok" => c = 0 /\ h = 0
    BY <2>2 DEF IsLaid
  <2>4. QED
    BY <1>2, <1>7, <1>8, <2>3
<1>12. PICK g : g = [j \in 1..d |-> a + 2 + j]
  OBVIOUS
<1>13. {k \in DOMAIN printed : printed[k].what = "dropped"} = {g[j] : j \in 1..d}
  <2>1. ASSUME NEW j \in 1..d
        PROVE  g[j] \in 1..N /\ printed[g[j]].what = "dropped"
    <3>1. j + 1 \in 1..(d + 2) /\ 1 + a + (j + 1) = g[j] /\ j + 1 \in 2..(d + 1) /\ m \in 1..m
      BY <1>12
    <3>2. /\ 1 + after[m - 1] + (j + 1) \in 1..Len(printed)
          /\ printed[1 + after[m - 1] + (j + 1)] = SectionLines(sections[m], full)[j + 1]
      BY <1>2, <1>4, <1>11, <3>1 DEF IsLaidOut
    <3>3. SectionLines(sections[m], full)[j + 1].what = "dropped"
      BY <1>9, <1>11, <3>1
    <3>4. QED
      BY <1>5, <1>10, <3>1, <3>2, <3>3
  <2>2. ASSUME NEW k \in 1..N, printed[k].what = "dropped"
        PROVE  \E j \in 1..d : k = g[j]
    <3>1. k # 1
      BY <1>4, <2>2 DEF IsLaidOut, Summary
    <3>2. PICK i \in 1..m : \E j \in 1..Len(SectionLines(sections[i], full)) :
            k = 1 + after[i - 1] + j
      <4>1. k \in 2..Len(printed)
        BY <1>5, <3>1
      <4>2. QED
        BY <1>2, <1>4, <4>1 DEF IsLaidOut
    <3>3. PICK j \in 1..Len(SectionLines(sections[i], full)) : k = 1 + after[i - 1] + j
      BY <3>2
    <3>4. printed[k] = SectionLines(sections[i], full)[j]
      BY <1>2, <1>4, <3>3 DEF IsLaidOut
    <3>5. i = m /\ j \in 2..(d + 1)
      BY <1>9, <2>2, <3>4
    <3>6. k = 1 + a + j
      BY <1>10, <3>3, <3>5
    <3>7. j - 1 \in 1..d /\ k = a + 2 + (j - 1)
      BY <3>5, <3>6
    <3>8. g[j - 1] = k
      BY <1>12, <3>7
    <3>9. QED
      BY <3>7, <3>8
  <2>3. QED
    BY <1>5, <2>1, <2>2
<1>14. IsFiniteSet(1..d) /\ Cardinality(1..d) = d
  <2>1. Cardinality(1..d) = IF 1 > d THEN 0 ELSE d - 1 + 1
    BY FS_Interval
  <2>2. QED
    BY <2>1, FS_Interval
<1>15. g = [j \in 1..d |-> g[j]] /\ \A i, j \in 1..d : g[i] = g[j] => i = j
  BY <1>12
<1>16. Cardinality({g[j] : j \in 1..d}) = d
  BY <1>14, <1>15, ImageCount
<1>17. QED
  BY <1>6, <1>13, <1>16

-----------------------------------------------------------------------------
(* Theorems. *)

\* So it always holds.
LEMMA InvHolds == Spec => []Inv
<1>1. Init => Inv
  BY InvInit
<1>2. Inv /\ [Next]_vars => Inv'
  BY InvNext
<1>3. QED
  BY <1>1, <1>2, PTL DEF Spec

\* The checklist and the report keep their forms: no claim has more citations than are
\* printed of one, an error shows no more notes than it may, and a heading has one of
\* the four outcomes.
THEOREM TypeCorrect == Spec => []TypeOK
<1>1. Inv => TypeOK
  BY ResearchIsTyped, ReportIsTyped DEF Inv, TypeOK
<1>2. QED
  BY <1>1, InvHolds, PTL

\* Whatever a model answers and a search returns, no claim is in the checklist without
\* different pages the search returned and the model cited for it, and no yes without
\* such a claim.
THEOREM ClaimsAreCited == Spec => []FindingsAreCited
<1>1. Inv => FindingsAreCited
  BY CheckedAreCited DEF Inv
<1>2. QED
  BY <1>1, InvHolds, PTL

\* A report that was written has a heading for each section, a summary that agrees with
\* them, and lists that are complete or say how much they hold back.
THEOREM ReportsAreWhole == Spec => []ReportIsWhole
<1>1. Inv => ReportIsWhole
  <2>1. CASE Rendered
    BY <2>1, RenderedIs, WrittenIsWhole
  <2>2. CASE ~Rendered
    BY <2>2 DEF ReportIsWhole
  <2>3. QED
    BY <2>1, <2>2
<1>2. QED
  BY <1>1, InvHolds, PTL

\* No claim is lost on its way to the report: one that stands is printed with pages it
\* cites and the search returned, any other is named as dropped, and of an empty
\* checklist every claim that does not stand is named or among the notes its error
\* counts.  The two ways in which one that stands can be missing are named: a location
\* without a place, and a "yes" beside nothing else.
THEOREM NoClaimIsLost == Spec => []ClaimsAreAccounted
<1>1. Inv => ClaimsAreAccounted
  <2>1. SUFFICES ASSUME Inv, Rendered PROVE ClaimsAreAccounted
    BY DEF ClaimsAreAccounted
  <2>2. ASSUME section.status = "ok", NEW c \in Claims
        PROVE  IF Stands(c)
                 THEN \/ c.kind = "location" /\ c.place = Blank
                      \/ \E l \in ToSet(printed) : PrintedFor(l, c)
                 ELSE NamedAsDropped(c)
    BY <2>1, <2>2, ClaimIsAccounted
  <2>3. ASSUME section.status = "failed"
        PROVE  \E l \in ToSet(printed) :
                 /\ l.what = "error"
                 /\ l.more + Cardinality({k \in DOMAIN printed : printed[k].what = "dropped"})
                      = Len(checked.dropped)
                 /\ \A c \in Claims :
                      IF Stands(c)
                        THEN c.kind = "tri"
                        ELSE \/ NamedAsDropped(c)
                             \/ l.more > 0 /\ \E d \in ToSet(checked.dropped) : d.label = c.label
    <3>1. PICK d \in Nat : d = Len(section.shown) /\ section.more + d = Len(checked.dropped)
      BY <2>1, <2>3, FailureIs DEF Inv
    <3>2. Cardinality({k \in DOMAIN printed : printed[k].what = "dropped"}) = d
      BY <2>1, <2>3, <3>1, NotesAreCounted
    <3>3. PICK lines : lines = ResearchSection.lines
      OBVIOUS
    <3>4. /\ IsSequence(lines) /\ Len(lines) = d + 1
          /\ lines[d + 1].what = "error" /\ lines[d + 1].more = section.more
      BY <2>1, <2>3, <3>1, <3>3, FailureLinesAre DEF Inv
    <3>5. lines[d + 1] \in ToSet(lines)
      <4>1. ToSet(lines) = {lines[j] : j \in 1..(d + 1)}
        BY <3>4, ToSetSeq DEF IsSequence
      <4>2. QED
        BY <4>1
    <3>6. lines[d + 1] \in ToSet(printed)
      BY <2>1, <3>3, <3>5, OwnLinesArePrinted
    <3>7. \A c \in Claims :
            IF Stands(c)
              THEN c.kind = "tri"
              ELSE \/ NamedAsDropped(c)
                   \/ section.more > 0 /\ \E n \in ToSet(checked.dropped) : n.label = c.label
      BY <2>1, <2>3, ClaimIsCounted
    <3>8. QED
      BY <3>1, <3>2, <3>4, <3>6, <3>7
  <2>4. QED
    BY <2>2, <2>3 DEF ClaimsAreAccounted
<1>2. QED
  BY <1>1, InvHolds, PTL

=============================================================================

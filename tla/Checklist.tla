----------------------------- MODULE Checklist -----------------------------
(***************************************************************************)
(* From a model's claim to a line an analyst reads: the research source    *)
(* fetches and checks the checklist, its section joins those of the other  *)
(* sources, and the report is printed (internal/sources/research.go,       *)
(* internal/report/report.go, from.go).                                    *)
(***************************************************************************)
EXTENDS Research, Report

CONSTANT Others  \* the other sections an assessment may come with

\* Sections come with a status and the lines of their source: none of those is a
\* heading or says what only a printed list, or the checklist, can.
ASSUME ChecklistAssumption ==
  \A others \in Others :
    /\ IsSequence(others)
    /\ \A s \in ToSet(others) :
         /\ s.status \in {"ok", "failed", "skipped"}
         /\ IsSequence(s.list) /\ IsSequence(s.lines)
         /\ \A l \in ToSet(s.lines) : l.what \in {"query", "note", "error"}

vars == <<researchVars, reportVars>>

TypeOK == ResearchTypeOK /\ ReportTypeOK

Init == ResearchInit /\ ReportInit

\* finding: a claim is printed with its sources; a location is printed as its place.
Shown(f) == IF f.kind = "location" THEN f.place ELSE f.value

ClaimLines(f) ==
  IF Shown(f) = Blank
    THEN <<>>
    ELSE <<[what |-> "claim", label |-> f.label, shown |-> Shown(f), citations |-> f.citations]>>

DroppedLines(notes) ==
  [i \in DOMAIN notes |-> [what |-> "dropped", label |-> notes[i].label, why |-> notes[i].why]]

TriLines(tris) ==
  [i \in DOMAIN tris |-> [what |-> "tri", label |-> tris[i].label, answer |-> tris[i].answer]]

\* research: the claims, the three-valued answers, and what was dropped.
ResearchLines(research) ==
  FlattenSeq([i \in DOMAIN research.findings |-> ClaimLines(research.findings[i])])
    \o TriLines(research.tris)
    \o DroppedLines(research.dropped)

\* The section of the research source.  The error of an empty checklist lists the
\* first of what was dropped.
ResearchSection ==
  [source |-> "llm_research", status |-> section.status, list |-> <<>>,
   lines |-> CASE section.status = "ok" -> ResearchLines(checked)
               [] section.status = "failed" ->
                    DroppedLines(section.shown) \o <<[what |-> "error", more |-> section.more]>>
               [] section.status = "skipped" -> <<[what |-> "note"]>>]

\* FromResult: the sections of the assessment, in their order.
Assembled ==
  /\ section # NoSection /\ sections = <<>>
  /\ \E others \in Others : Render(Append(others, ResearchSection))

Finished == sections # <<>> /\ todo = <<>> /\ UNCHANGED vars

Next ==
  \/ Fetch /\ UNCHANGED reportVars
  \/ Assembled /\ UNCHANGED researchVars
  \/ Printf /\ UNCHANGED researchVars
  \/ Finished

Spec == Init /\ [][Next]_vars

-----------------------------------------------------------------------------
(* Properties. *)

\* What the model claimed.  What it says beside an answer that is no "yes" is no
\* evidence of anything (research_parse.go:147-151).
Claims == {c \in ToSet(asked.reply) :
             c.value # Blank /\ (c.kind = "tri" => c.answer \notin TriAnswers \ {"yes"})}

Supported(c) == \E r \in ToSet(asked.results) : CitedBy(c, r) /\ Page[r.url] # Blank

\* The search supports the claim, and what its question asks beside the value is there.
Stands(c) ==
  /\ Supported(c)
  /\ c.kind = "tri" => c.answer = "yes"
  /\ c.kind \in {"lawsuit", "location"} => c.answer \in Qualified

\* The line shows the claim with pages that it cites and the search returned.
PrintedFor(l, c) ==
  /\ l.what = "claim" /\ l.label = c.label /\ l.shown = Shown(c)
  /\ l.citations # <<>>
  /\ \A r \in ToSet(l.citations) : CitedBy(c, r) /\ Contains(asked.results, r)

NamedAsDropped(c) == \E l \in ToSet(printed) : l.what = "dropped" /\ l.label = c.label

\* A claim that stands is printed with its sources, any other is named as dropped.
\* One that stands may be missing in two ways: a location whose place is empty has
\* nothing to be printed as, and a "yes" does not keep the checklist from being
\* called empty.  Of an empty checklist, whose claims do not stand but for such a
\* "yes", the error counts the notes it does not show (research_parse.go:71-159,
\* research.go:134-136, 140-156, 366-376, 532-549, report.go:572-575, 592-598).
ClaimsAreAccounted ==
  Rendered =>
    /\ section.status = "ok" =>
         \A c \in Claims :
           IF Stands(c)
             THEN \/ c.kind = "location" /\ c.place = Blank
                  \/ \E l \in ToSet(printed) : PrintedFor(l, c)
             ELSE NamedAsDropped(c)
    /\ section.status = "failed" =>
         \E l \in ToSet(printed) :
           /\ l.what = "error"
           /\ l.more + Cardinality({k \in DOMAIN printed : printed[k].what = "dropped"})
                = Len(checked.dropped)
           /\ \A c \in Claims :
                IF Stands(c)
                  THEN c.kind = "tri"
                  ELSE \/ NamedAsDropped(c)
                       \/ l.more > 0 /\ \E d \in ToSet(checked.dropped) : d.label = c.label

\* What report.go:572-575 says without the first of the two: a location the search
\* supports is printed or named as dropped.  TLC refutes it with a headquarters of
\* which neither the city nor the country is given.
EveryLocationIsReported ==
  Rendered /\ section.status = "ok" =>
    \A c \in Claims :
      c.kind = "location" /\ Supported(c) =>
        \E l \in ToSet(printed) : l.what \in {"claim", "dropped"} /\ l.label = c.label

\* What research_parse.go:71 says of the validator and report.go:572-575 of the
\* report, of the two questions that weigh most: a "yes" the search supports is
\* printed or named as dropped.
EveryYesIsReported ==
  Rendered =>
    \A c \in ToSet(asked.reply) :
      c.kind = "tri" /\ c.answer = "yes" /\ c.value # Blank /\ Supported(c) =>
        \E l \in ToSet(printed) : l.what \in {"claim", "dropped"} /\ l.label = c.label

=============================================================================

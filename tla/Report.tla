------------------------------- MODULE Report -------------------------------
(***************************************************************************)
(* The terminal report (internal/report/report.go): what a section is      *)
(* called, the summary, the sections with their long lists cut, and the    *)
(* printer that keeps the first write error.                               *)
(*                                                                         *)
(* A section is [source, status, lines, list]: lines are the parts of its  *)
(* data that are printed whole, list the one that is cut to detailCap.     *)
(* The entity and the configuration above them are printed unconditionally *)
(* and left out, and so is all wording.                                    *)
(***************************************************************************)
EXTENDS Naturals, FiniteSets, Ordering

CONSTANTS
  ManualSources, \* r.ManualSources
  DetailCap      \* detailCap

ASSUME ReportAssumption == DetailCap \in Nat

VARIABLES
  sections, \* r.Sections
  full,     \* r.Full
  todo,     \* what Render has yet to print
  printed,  \* what was written
  broken    \* p.err is set

reportVars == <<sections, full, todo, printed, broken>>

Outcomes == {"ok", "failed", "unanswered", "awaiting"}

ReportTypeOK ==
  /\ full \in BOOLEAN
  /\ broken \in BOOLEAN
  /\ \A l \in ToSet(printed) : l.what = "heading" => l.outcome \in Outcomes

ReportInit ==
  /\ sections = <<>>
  /\ full \in BOOLEAN
  /\ todo = <<>>
  /\ printed = <<>>
  /\ broken = FALSE

\* outcomeOf: a skip is a gap in the data or a task for an analyst.
OutcomeOf(s) ==
  CASE s.status = "failed" -> "failed"
    [] s.status = "skipped" /\ s.source \in ManualSources -> "awaiting"
    [] s.status = "skipped" /\ s.source \notin ManualSources -> "unanswered"
    [] OTHER -> "ok"

\* Summarize: the sources of each outcome, in report order.
Bucket(secs, outcome) ==
  LET mine == Subsequence(secs, {i \in DOMAIN secs : OutcomeOf(secs[i]) = outcome})
  IN  [i \in DOMAIN mine |-> mine[i].source]

\* capped: the rows of a list that are printed.
Capped(list, all) == IF all THEN list ELSE SubSeq(list, 1, Min({DetailCap, Len(list)}))

\* held: how many rows were not printed.
Held(list, all) ==
  LET n == Len(list) - Len(Capped(list, all))
  IN  IF n = 0 THEN <<>> ELSE <<[what |-> "held", more |-> n]>>

\* bitsight, nvd, osv: what is printed whole, then the rows of the list and what is
\* held back of it; a section without a list to cut has none.
DataLines(s, all) ==
  s.lines \o [i \in DOMAIN Capped(s.list, all) |-> [what |-> "row", row |-> s.list[i]]]
    \o Held(s.list, all)

\* section: only a successful section has data to print.
SectionLines(s, all) ==
  <<[what |-> "heading", source |-> s.source, outcome |-> OutcomeOf(s)]>> \o
  (IF s.status = "ok" THEN DataLines(s, all) ELSE s.lines)

\* summary: how many there are of each outcome; those without an answer by name.
Summary(secs) ==
  [what |-> "summary",
   count |-> [o \in Outcomes |-> Len(Bucket(secs, o))],
   names |-> [o \in Outcomes \ {"ok"} |-> Bucket(secs, o)]]

Content(secs, all) ==
  <<Summary(secs)>> \o FlattenSeq([i \in DOMAIN secs |-> SectionLines(secs[i], all)])

\* Render starts on a finished assessment.
Render(secs) ==
  /\ sections' = secs
  /\ todo' = Content(secs, full)
  /\ UNCHANGED <<full, printed, broken>>

\* Mutant of Printf: a line is tried even after one could not be written.
PrintfOn ==
  /\ todo # <<>>
  /\ todo' = Tail(todo)
  /\ \/ printed' = Append(printed, Head(todo)) /\ broken' = FALSE
     \/ broken' = TRUE /\ UNCHANGED printed
  /\ UNCHANGED <<sections, full>>

\* printf: a line is written, or cannot be, and then none of those behind it is tried.
Printf ==
  /\ todo # <<>>
  /\ \/ printed' = Append(printed, Head(todo)) /\ todo' = Tail(todo) /\ UNCHANGED broken
     \/ broken' = TRUE /\ todo' = <<>> /\ UNCHANGED printed
  /\ UNCHANGED <<sections, full>>

-----------------------------------------------------------------------------
(* Properties. *)

\* Render has returned nil.
Rendered == sections # <<>> /\ todo = <<>> /\ ~broken

\* Where section i's lines begin and end in what was printed.
Headings == {k \in DOMAIN printed : printed[k].what = "heading"}
PrintedOf(k) ==
  LET next == {h \in Headings : h > k}
  IN  SubSeq(printed, k + 1, IF next = {} THEN Len(printed) ELSE Min(next) - 1)

\* A report that Render calls written is all there: the summary agrees with the
\* headings below it, every category without an answer is named at the top, and a
\* list either is complete or says how much of it is missing, which under --full
\* is nothing (report.go:91-99, 109-118, 192-252, 282-301).
ReportIsWhole ==
  Rendered =>
    /\ Cardinality(Headings) = Len(sections)
    /\ \A o \in Outcomes :
         printed[1].count[o] = Cardinality({k \in Headings : printed[k].outcome = o})
    /\ \A k \in Headings :
         LET mine == PrintedOf(k)
             at == Cardinality({h \in Headings : h <= k})
             s == sections[at]
             rows == Subsequence(mine, {i \in DOMAIN mine : mine[i].what = "row"})
             held == Subsequence(mine, {i \in DOMAIN mine : mine[i].what = "held"})
         IN  /\ printed[k].source = s.source
             /\ printed[k].outcome = "ok" \/ Contains(printed[1].names[printed[k].outcome], s.source)
             /\ \A i \in DOMAIN s.lines : Contains(mine, s.lines[i])
             /\ s.status = "ok" =>
                  /\ \A i \in DOMAIN rows : rows[i].row = s.list[i]
                  /\ IF Len(rows) = Len(s.list)
                       THEN held = <<>>
                       ELSE ~full /\ held = <<[what |-> "held", more |-> Len(s.list) - Len(rows)]>>

=============================================================================

---------------------------- MODULE SectionOrder ----------------------------
(***************************************************************************)
(* orderSections of internal/assess/assess.go, the one pure algorithm on   *)
(* the report's path: results arrive in whatever order the network         *)
(* decides, and leave in the documented reading order.                     *)
(*                                                                         *)
(* A result is a record with an "index", its source's registration index,  *)
(* and a "section".  position[i] says where the name of source i stands in *)
(* SectionOrder, counting from 1, and is 0 for a name that is not there.   *)
(***************************************************************************)
EXTENDS Ordering

\* Mutant of ByIndex: the order of arrival is taken for that of registration.
ByArrival(a, b) == FALSE

\* The comparison results are sorted by before the passes: registration index.
ByIndex(a, b) == a.index < b.index

\* Which pass over the sorted results takes the section of source i: there is
\* one for each name, in order, and a last one for the names that are unknown.
Pass(i, position, numNamed) ==
  IF position[i] = 0 THEN numNamed + 1 ELSE position[i]

\* Pass after pass, and within each pass as sorted.
OrderSections(rs, position, numNamed) ==
  LET PassOf(r) == Pass(r.index, position, numNamed)
      ordered == StableSort(rs, LAMBDA a, b :
                   \/ PassOf(a) < PassOf(b)
                   \/ PassOf(a) = PassOf(b) /\ ByIndex(a, b))
  IN [k \in DOMAIN ordered |-> ordered[k].section]

=============================================================================

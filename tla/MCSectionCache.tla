--------------------------- MODULE MCSectionCache ---------------------------
(***************************************************************************)
(* SectionCache for TLC: three runs of one vendor with two fingerprints.   *)
(* The source's own name is also a manual name, the case that Config keeps *)
(* out of one configuration and that the statements guard against anyway.  *)
(***************************************************************************)
EXTENDS SectionCache, TLC

Symmetry == Permutations(Runs) \cup Permutations(Fingerprints)

=============================================================================

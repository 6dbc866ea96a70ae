------------------------------ MODULE MCRunner ------------------------------
(***************************************************************************)
(* Runner for TLC: two goroutines, one registered CPE and one invented     *)
(* one, and the requests that differ in what they do to the cache.         *)
(***************************************************************************)
EXTENDS Runner, TLC

CONSTANTS real, fake

Plain == [noCache |-> FALSE, cpes |-> {}]

MCRequests ==
  {Plain, [Plain EXCEPT !.noCache = TRUE, !.cpes = {real}]}

Symmetry == Permutations(Runs)

=============================================================================

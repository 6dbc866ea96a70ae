------------------------------ MODULE MCFanOut ------------------------------
(***************************************************************************)
(* Instances of FanOut for TLC: three sources of which the second has a    *)
(* name that SectionOrder lists, registered between two that it does not.  *)
(***************************************************************************)
EXTENDS FanOut

MCPosition == <<0, 1, 0>>

=============================================================================

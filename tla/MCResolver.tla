----------------------------- MODULE MCResolver -----------------------------
(***************************************************************************)
(* Resolver for TLC: a vendor whose list is narrowed by the service, one   *)
(* the service's keyword finds nothing of and that registers a wildcard as *)
(* a product, an operating-system vendor that fits on a page, and two      *)
(* spellings NVD does not know.                                            *)
(***************************************************************************)
EXTENDS Resolver

CONSTANTS large, huge, osLarge, ghost, osGhost

MCRows ==
  [v \in Vendors |->
     CASE v = large -> <<"verify", "verify", "gateway">>
       [] v = huge -> <<"mobile", "-", "mobile", "verify">>
       [] v = osLarge -> <<"mobile", "gateway">>
       [] OTHER -> <<>>]

\* CPEs a model proposes: registered and seen, registered and off the page, invented
\* under a known vendor, of a vendor NVD does not know.
MCProposals ==
  {[vendor |-> large, product |-> "verify"],
   [vendor |-> large, product |-> "gateway"],
   [vendor |-> huge, product |-> "verify"],
   [vendor |-> osLarge, product |-> "mobile"],
   [vendor |-> osLarge, product |-> "verify"],
   [vendor |-> osGhost, product |-> "gateway"],
   Malformed}

MCReplies ==
  [vendors : BoundedSeq({large, huge, ghost, Malformed}, 2),
   cpes : BoundedSeq(MCProposals, 2)]

MCSelections == BoundedSeq(Products, 3)

=============================================================================

----------------------------- MODULE MCLookups -----------------------------
(***************************************************************************)
(* Lookups for TLC: packages with one page, with as many as the cap of two *)
(* allows and with one more, that share advisories; a vendor whose names   *)
(* overlap, one of which nothing is left once normalized; listings below   *)
(* and above the floor; companies at, under and beside the domain.         *)
(***************************************************************************)
EXTENDS Lookups

MCNormal ==
  [n \in {"Okta", "Okta, Inc.", "Auth0", "Acme", "Zeta", "kanji"} |->
     CASE n = "Okta, Inc." -> "Okta"
       [] n = "kanji" -> Blank
       [] OTHER -> n]

MCEntities ==
  [packages : {<<>>, <<"clean">>, <<"full", "long">>, <<"long", "full", "clean">>, <<"full", "full">>},
   names : {<<"kanji">>, <<"kanji", "Auth0">>, <<"Okta, Inc.", "Okta", "Auth0">>,
            <<"Acme", "Auth0", "Zeta", "Okta">>},
   domains : {<<>>, <<Blank, "okta.com">>}]

MCPagesOf ==
  [p \in {"clean", "full", "long"} |->
     CASE p = "clean" -> << <<>> >>
       [] p = "full" -> << <<1, 2>>, <<2>> >>
       [] p = "long" -> << <<4>>, <<2, 3>>, <<5>> >>]

MCRank == <<3, 0, 5, 3, 0>>

MCBreachesOf ==
  [n \in {"Okta", "Auth0", "Acme", "Zeta"} |->
     CASE n = "Okta" -> <<[org |-> "Okta, Inc.", url |-> "r1"], [org |-> "Okta", url |-> Blank]>>
       [] n = "Auth0" -> <<[org |-> "Auth0", url |-> "r2"], [org |-> "Okta, Inc.", url |-> "r1"]>>
       [] n = "Acme" -> <<[org |-> "Okta", url |-> Blank], [org |-> "Acme", url |-> "r3"]>>
       [] n = "Zeta" -> <<>>]

\* The marketplace's records; two more objects of its page are none.
MCListings ==
  LET records == {[csp |-> "Okta", cso |-> "Identity"], [csp |-> "Auth0", cso |-> "Auth"],
                  [csp |-> "Zeta", cso |-> "Zeta"], [csp |-> "kanji", cso |-> "Cloud"],
                  [csp |-> Blank, cso |-> "menu"], [csp |-> "Acme", cso |-> Blank]}
  IN  {SetToSeq(rs) : rs \in SUBSET records}

MCCompanies ==
  BoundedSeq({[guid |-> "g1", domain |-> "shop.okta.com"], [guid |-> "g2", domain |-> "okta.com"],
              [guid |-> "g3", domain |-> "okta.com"]}, 3)

MCRatings ==
  [current : {0, 750},
   series : BoundedSeq({[date |-> 1, rating |-> 600], [date |-> 2, rating |-> 700]}, 2)]

=============================================================================

----------------------------- MODULE MCNVDFetch -----------------------------
(***************************************************************************)
(* CachedNVD for TLC: a product with four CVEs, two versions of another    *)
(* that shares one of them, a clean product, an invented one and a         *)
(* malformed name.  Walks are cut by the cap of three CPEs and pages by    *)
(* the limits of two CVEs each and three in all.                           *)
(***************************************************************************)
EXTENDS CachedNVD

CONSTANTS gateway, verify1, verify2, clean, invented, broken

MCMatchOf ==
  [c \in {gateway, verify1, verify2, clean, invented, broken} |->
     CASE c = broken -> "malformed"
       [] c = gateway -> "gateway"
       [] c \in {verify1, verify2} -> "verify"
       [] c = clean -> "clean"
       [] OTHER -> "invented"]

MCCVEsOf ==
  [m \in {"gateway", "verify", "clean", "invented"} |->
     CASE m = "gateway" -> <<1, 2, 3, 4>>
       [] m = "verify" -> <<5, 2>>
       [] OTHER -> <<>>]

MCScore == [v \in 1..5 |-> CASE v = 2 -> 9 [] v = 5 -> 7 [] OTHER -> 5]

\* Up to two names of one kind each, two versions of a product, the same CPEs in
\* another order, and more of them than the cap.
MCEntities ==
  BoundedSeq({gateway, clean, invented}, 2) \cup
    {<<broken>>, <<verify1, verify2>>, <<verify1>>, <<gateway, verify1>>,
     <<verify1, gateway>>, <<gateway, broken, verify1, verify2, clean, invented>>,
     <<invented, clean, verify2, gateway>>}

MCRegistered == {"gateway", "verify", "clean"}

=============================================================================

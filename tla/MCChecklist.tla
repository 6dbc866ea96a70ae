---------------------------- MODULE MCChecklist ----------------------------
(***************************************************************************)
(* Checklist for TLC: replies of up to two claims, with sources that the   *)
(* search returned, made up, wrote in two ways or cited too many of,       *)
(* a pending case, an unlabelled location and one without a place, beside  *)
(* the two questions that are always answered; and assessments whose other *)
(* sections fail, wait for an analyst or have lists around the cap.        *)
(***************************************************************************)
EXTENDS Checklist

MCPage ==
  [u \in {"a", "a/", "b", "c", "made-up", "mailto:", Blank} |->
     CASE u = "a/" -> "a" [] u \in {"mailto:", Blank} -> Blank [] OTHER -> u]

Claim(label, kind, urls, answer, place) ==
  [label |-> label, kind |-> kind, value |-> "said", urls |-> urls, answer |-> answer, place |-> place]

MCClaims ==
  <<Claim("supplier", "field", <<"a", "a/", "made-up", "b", "c">>, "stated", Blank),
    Claim("service", "field", <<"made-up">>, "stated", Blank),
    [Claim("website", "field", <<"a">>, "stated", Blank) EXCEPT !.value = Blank],
    Claim("breach", "breach", <<"mailto:", Blank>>, "stated", Blank),
    Claim("lawsuit 0", "lawsuit", <<"b">>, "concluded", Blank),
    Claim("lawsuit 1", "lawsuit", <<"a">>, "pending", Blank),
    Claim("location 0", "location", <<"c">>, "headquarters", "Berlin"),
    Claim("location 1", "location", <<"a">>, "unlabelled", "Paris"),
    Claim("location 2", "location", <<"a">>, "operational", Blank)>>

Kaspersky ==
  {Claim("kaspersky", "tri", <<"a">>, "yes", Blank),
   Claim("kaspersky", "tri", <<"made-up">>, "yes", Blank),
   Claim("kaspersky", "tri", <<"a">>, "not_applicable", Blank),
   Claim("kaspersky", "tri", <<"a">>, "no", Blank)}

MOVEit ==
  {Claim("moveit", "tri", <<"b", "made-up">>, "yes", Blank),
   Claim("moveit", "tri", <<>>, "no_evidence_found", Blank)}

\* Up to two of the claims, in the order they are read, and the two questions.
MCReplies ==
  {[i \in 1..Len(chosen) |-> MCClaims[chosen[i]]] \o <<k, m>> :
     chosen \in {s \in BoundedSeq(DOMAIN MCClaims, 2) : \A i, j \in DOMAIN s : i < j => s[i] < s[j]},
     k \in Kaspersky, m \in MOVEit}

Result(title, url) == [title |-> title, url |-> url]

MCSearches ==
  {<<>>, <<Result("A", "a"), Result("B", "b"), Result("A, again", "a/")>>,
   <<Result("C", "c"), Result("B", "b"), Result("A", "a"), Result("mail", "mailto:")>>}

Rows(n) == [i \in 1..n |-> i]

Other(source, status, lines, n) ==
  [source |-> source, status |-> status, lines |-> lines, list |-> Rows(n)]

MCOthers ==
  {<<Other("nvd", "ok", <<[what |-> "query"]>>, 3), Other("osv", "ok", <<[what |-> "query"]>>, 2)>>,
   <<Other("nvd", "failed", <<[what |-> "error", more |-> 0]>>, 0),
     Other("osv", "skipped", <<[what |-> "note"]>>, 0),
     Other("soc2", "skipped", <<[what |-> "note"]>>, 0)>>}

=============================================================================

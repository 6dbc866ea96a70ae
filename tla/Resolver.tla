------------------------------ MODULE Resolver ------------------------------
(***************************************************************************)
(* Entity resolution (internal/sources/llm.go and resolve_cpe.go): a       *)
(* language model proposes CPE vendors and CPEs, NVD's dictionary says     *)
(* which exist, and if none of the CPEs does the model chooses products    *)
(* from the vendor's catalogue.                                            *)
(*                                                                         *)
(* One step is one answer of the model or of the dictionary, or the        *)
(* failure of one; the model may answer anything.  A CPE is a vendor       *)
(* prefix (cpe:2.3:<part>:<vendor>) and a product.  The domains and        *)
(* packages of a reply pass the same kind of filter as its CPEs and are    *)
(* not looked at again; they are left out.                                 *)
(***************************************************************************)
EXTENDS Integers, Ordering

CONSTANTS
  Vendors,             \* vendor prefixes
  Products,            \* product tokens
  Wildcards,           \* those normalizeCPE makes nothing of: "*" and "-"
  Malformed,           \* what the model may say in the place of an identifier
  NoItem,              \* the item of a note that is about a call that failed
  Rows,                \* vendor -> the product of each row NVD's dictionary has on it
  Matching,            \* products a keyword search for the service finds
  Replies,             \* what the model may propose: [vendors, cpes]
  Selections,          \* the products it may choose
  MaxVendorCandidates, \* maxVendorCandidates
  MaxSelectedProducts, \* maxSelectedProducts
  PageSize             \* nvdMaxResultsPerPage

CPE == [vendor : Vendors, product : Products]

ASSUME ResolverAssumption ==
  /\ Vendors \cap CPE = {}
  /\ Malformed \notin Vendors \cup CPE
  /\ Rows \in [Vendors -> Seq(Products)]
  /\ Replies \subseteq [vendors : Seq(Vendors \cup {Malformed}), cpes : Seq(CPE \cup {Malformed})]
  /\ Wildcards \subseteq Products
  /\ \A reply \in Replies : ToSet(reply.cpes) \cap [vendor : Vendors, product : Wildcards] = {}
  /\ Selections \subseteq Seq(Products)
  /\ MaxVendorCandidates \in Nat \ {0}
  /\ MaxSelectedProducts \in Nat \ {0}
  /\ PageSize \in Nat \ {0}

VARIABLES
  dir,        \* there is a dictionary to ask: r.dir is not nil
  stage,      \* the answer resolution waits for, or how it ended
  candidates, \* vendors findVendor has yet to try
  unknown,    \* vendors NVD said it does not know
  cat,        \* the CPECatalogue in hand
  cpes,       \* res.Entity.CPEs
  dropped,    \* res.Dropped: an item and why it went
  origin,     \* res.CPEOrigin
  requests,   \* history: pages of the dictionary asked for
  named       \* history: CPEs and malformed items the model came up with

resolverVars == <<dir, stage, candidates, unknown, cat, cpes, dropped, origin, requests, named>>

\* CPECatalogue: a page of the dictionary on one vendor, and how much of what NVD
\* has on it the page is.
Catalogue == [vendor : Vendors, products : SUBSET Products, rows : Nat,
              view : {"complete", "narrowed", "first page"}]
NoCatalogue == [vendor |-> "none", products |-> {}, rows |-> 0, view |-> "none"]

Reasons == {"malformed", "vendor unknown", "not registered", "unreachable",
            "selection failed", "invented", "beyond the cap"}

Unchecked == {"nvd disabled", "unreachable"}
Checked   == {"no vendor", "vendor unknown", "confirmed", "chosen", "selection failed"}

ResolverTypeOK ==
  /\ dir \in BOOLEAN
  /\ stage \in {"propose", "lookup", "narrow", "select", "done", "failed"}
  /\ candidates \in Seq(Vendors)
  /\ Len(candidates) <= MaxVendorCandidates
  /\ unknown \in Seq(Vendors)
  /\ cat \in Catalogue \cup {NoCatalogue}
  /\ cpes \in Seq(CPE)
  /\ dropped \subseteq [item : CPE \cup Vendors \cup {Malformed, NoItem}, why : Reasons]
  /\ origin \in Checked \cup Unchecked \cup {"none"}
  /\ requests \in 0..(MaxVendorCandidates + 1)
  /\ named \subseteq CPE \cup {Malformed}

ResolverInit ==
  /\ dir \in BOOLEAN
  /\ stage = "propose"
  /\ candidates = <<>>
  /\ unknown = <<>>
  /\ cat = NoCatalogue
  /\ cpes = <<>>
  /\ dropped = {}
  /\ origin = "none"
  /\ requests = 0
  /\ named = {}

\* Notes for the report: these items went, for this reason.
Notes(items, why) == {[item |-> i, why |-> why] : i \in items}

FirstOf(s, n) == SubSeq(s, 1, Min({n, Len(s)}))

-----------------------------------------------------------------------------
(* propose. *)

\* normalizeCPEVendor and normalizeCPE: what they make nothing of goes.
WellFormed(items) == Among(items, ToSet(items) \ {Malformed})

\* Mutant of VendorCandidates: the cap is off by one.
VendorCandidatesUncapped(vendors, proposed) ==
  FirstOf(Distinct(vendors \o [i \in DOMAIN proposed |-> proposed[i].vendor]),
          MaxVendorCandidates + 1)

\* vendorCandidates: the vendors the model named, then those of its CPEs.
VendorCandidates(vendors, proposed) ==
  FirstOf(Distinct(vendors \o [i \in DOMAIN proposed |-> proposed[i].vendor]),
          MaxVendorCandidates)

\* Resolution is over.
End(from) ==
  /\ origin' = from
  /\ stage' = "done"

\* parseResolution keeps what is well formed; groundCPEs takes over.
Propose ==
  /\ stage = "propose"
  /\ \E reply \in Replies :
       LET vendors  == WellFormed(reply.vendors)
           proposed == WellFormed(reply.cpes)
       IN  /\ named' = ToSet(reply.cpes)
           /\ dropped' = Notes((ToSet(reply.vendors) \cup ToSet(reply.cpes)) \cap {Malformed},
                               "malformed")
           /\ candidates' = VendorCandidates(vendors, proposed)
           /\ cpes' = proposed
  /\ \/ ~dir /\ End("nvd disabled")
     \/ dir /\ candidates' = <<>> /\ End("no vendor")
     \/ dir /\ candidates' # <<>> /\ stage' = "lookup" /\ UNCHANGED origin
  /\ UNCHANGED <<dir, unknown, cat, requests>>

\* The call fails, the model declines, or its reply is unusable: an error.
ProposeFails ==
  /\ stage = "propose"
  /\ stage' = "failed"
  /\ UNCHANGED <<dir, candidates, unknown, cat, cpes, dropped, origin, requests, named>>

-----------------------------------------------------------------------------
(* findVendor and the catalogue. *)

\* parseNVDCPEs: each product once, however many versions have a row.
ProductsOf(page) == ToSet(page)

\* cataloguePage: the first page of the dictionary on vendor v.
CataloguePage(v, narrowed) ==
  LET rows == IF narrowed THEN Among(Rows[v], Matching) ELSE Rows[v]
  IN  [vendor |-> v,
       products |-> ProductsOf(FirstOf(rows, PageSize)),
       rows |-> Len(rows),
       view |-> CASE narrowed -> "narrowed"
                  [] ~narrowed /\ Len(rows) <= PageSize -> "complete"
                  [] OTHER -> "first page"]

\* Mutant of Confirmed: a product of that name under any vendor will do.
ConfirmedByProduct(c) == Among(cpes, {p \in ToSet(cpes) : p.product \in c.products})

\* confirmedCPEs: the proposed CPEs the catalogue lists.
Confirmed(c) == Among(cpes, [vendor : {c.vendor}, product : c.products])

\* The vendor exists and the model guessed right: no second opinion is needed.
Confirm(c) ==
  /\ Confirmed(c) # <<>>
  /\ cpes' = Confirmed(c)
  /\ dropped' = dropped \cup Notes(ToSet(cpes) \ ToSet(Confirmed(c)), "not registered")
  /\ cat' = c
  /\ End("confirmed")
  /\ UNCHANGED <<candidates, unknown>>

\* None of the proposed CPEs survived, so the catalogue becomes the choice.
OfferCatalogue(c) ==
  /\ Confirmed(c) = <<>>
  /\ dropped' = dropped \cup Notes(ToSet(cpes), "not registered")
  /\ cpes' = <<>>
  /\ cat' = c
  /\ stage' = "select"
  /\ UNCHANGED <<candidates, unknown, origin>>

\* NVD does not know the vendor: the next one, or none is left and the CPEs go.
UnknownVendor(v) ==
  /\ unknown' = Append(unknown, v)
  /\ candidates' = Tail(candidates)
  /\ \/ /\ candidates' # <<>>
        /\ stage' = "lookup"
        /\ UNCHANGED <<cpes, dropped, origin>>
     \/ /\ candidates' = <<>>
        /\ dropped' = dropped \cup Notes(ToSet(unknown') \cup ToSet(cpes), "vendor unknown")
        /\ cpes' = <<>>
        /\ End("vendor unknown")
  /\ cat' = NoCatalogue

\* VendorProducts came back with catalogue c.
Found(c) ==
  \/ c.rows = 0 /\ UnknownVendor(c.vendor)
  \/ c.rows > 0 /\ (Confirm(c) \/ OfferCatalogue(c))

\* The first page on the vendor; a vendor too large for it is asked about again.
LookUp ==
  /\ stage = "lookup"
  /\ LET page == CataloguePage(Head(candidates), FALSE)
     IN  \/ page.view = "complete" /\ Found(page)
         \/ /\ page.view # "complete"
            /\ cat' = page
            /\ stage' = "narrow"
            /\ UNCHANGED <<candidates, unknown, cpes, dropped, origin>>
  /\ requests' = requests + 1
  /\ UNCHANGED <<dir, named>>

\* A keyword that matches nothing has said nothing about the vendor.
BetterOf(first, narrowed) == IF narrowed.rows = 0 THEN first ELSE narrowed

\* The page narrowed by the service.
Narrow ==
  /\ stage = "narrow"
  /\ Found(BetterOf(cat, CataloguePage(Head(candidates), TRUE)))
  /\ requests' = requests + 1
  /\ UNCHANGED <<dir, named>>

\* The dictionary is out of reach: the proposed CPEs stand, and say so.
DictionaryFails ==
  /\ stage \in {"lookup", "narrow"}
  /\ dropped' = dropped \cup Notes({NoItem}, "unreachable")
  /\ cat' = NoCatalogue
  /\ End("unreachable")
  /\ requests' = requests + 1
  /\ UNCHANGED <<dir, candidates, unknown, cpes, named>>

-----------------------------------------------------------------------------
(* selectProducts and partitionSelection. *)

AsCPEs(products) == {[vendor |-> cat.vendor, product |-> p] : p \in products}

\* Mutant of CutNotes: the cap trims without a word.
CutNotesSilent(accepted) == {}

\* Products accepted and then cut by our own cap.
CutNotes(accepted) ==
  Notes(AsCPEs(ToSet(accepted) \ ToSet(FirstOf(accepted, MaxSelectedProducts))),
        "beyond the cap")

\* Those of the model's picks that the catalogue lists.
Accepted(picks) == Distinct(Among(picks, cat.products))

\* What becomes a CPE of those within the cap: normalizeCPE makes nothing of a
\* wildcard, and no note of it is taken.
Kept(accepted) == Among(FirstOf(accepted, MaxSelectedProducts), Products \ Wildcards)

\* The model's choice, checked against the catalogue and capped.
Select ==
  /\ stage = "select"
  /\ \E picks \in Selections :
       LET accepted == Accepted(picks)
           kept == Kept(accepted)
       IN  /\ cpes' = [i \in DOMAIN kept |-> [vendor |-> cat.vendor, product |-> kept[i]]]
           /\ dropped' = dropped \cup CutNotes(accepted)
                \cup Notes(AsCPEs(ToSet(picks) \ ToSet(accepted)), "invented")
           /\ named' = named \cup AsCPEs(ToSet(picks))
  /\ End("chosen")
  /\ UNCHANGED <<dir, candidates, unknown, cat, requests>>

SelectFails ==
  /\ stage = "select"
  /\ dropped' = dropped \cup Notes({NoItem}, "selection failed")
  /\ End("selection failed")
  /\ UNCHANGED <<dir, candidates, unknown, cat, cpes, requests, named>>

\* Resolve has returned.
Finished == stage \in {"done", "failed"} /\ UNCHANGED resolverVars

ResolverNext ==
  \/ Propose \/ ProposeFails
  \/ LookUp \/ Narrow \/ DictionaryFails
  \/ Select \/ SelectFails
  \/ Finished

ResolverSpec == ResolverInit /\ [][ResolverNext]_resolverVars

-----------------------------------------------------------------------------
(* Properties. *)

IsRegistered(c) == c.product \in ToSet(Rows[c.vendor])

Promise == INSTANCE Grounding WITH
  CPEs <- CPE, Registered <- {c \in CPE : IsRegistered(c)}, NVDEnabled <- dir

\* Resolution gives the runner what Grounding promises: whatever the model
\* invents and whichever call fails, CPEs come out as checked only if NVD's
\* dictionary lists them under their own vendor, and otherwise exactly as
\* proposed (resolve_cpe.go:79-148).
KeepsItsPromise ==
  stage = "done" =>
    [cpes |-> ToSet(cpes), origin |-> IF origin \in Unchecked THEN "unchecked" ELSE "checked"]
      \in Promise!Grounded(named \cap CPE)

\* No CPE the model came up with, in either call, goes without a word: it is
\* among the resolved CPEs or named as dropped, but for a wildcard that NVD
\* registers as a product, which becomes no CPE and is not noted
\* (resolve_cpe.go:141-145).  No vendor is called unknown that NVD knows, also when
\* it is too large to read and the keyword finds nothing of it; and a CPE whose
\* vendor NVD knows is dropped as one of an unknown vendor only if the cap on
\* candidates was used up by others, all of them unknown (llm.go:194-196,
\* nvd.go:448-459, resolve_cpe.go:123-140, 180-225).
NothingIsLostSilently ==
  stage = "done" =>
    /\ \A c \in named :
         \/ c \in ToSet(cpes)
         \/ \E note \in dropped : note.item = c
         \/ c \in CPE /\ c.product \in Wildcards /\ IsRegistered(c)
    /\ \A note \in dropped :
         note.why = "vendor unknown" =>
           /\ note.item \in Vendors => Rows[note.item] = <<>>
           /\ note.item \in CPE =>
                \/ Rows[note.item.vendor] = <<>>
                \/ Len(unknown) = MaxVendorCandidates

\* What the note says of its CPE (resolve_cpe.go:187-189): its vendor is unknown
\* to NVD.  TLC refutes it with a vendor that lies beyond the cap on candidates
\* and was never looked up.
VendorUnknownIsUnknown ==
  \A note \in dropped :
    note.why = "vendor unknown" /\ note.item \in CPE => Rows[note.item.vendor] = <<>>

\* What a "not registered" note says of its CPE (resolve_cpe.go:101-112): TLC
\* refutes it, a page narrowed or cut short is not all NVD has.
UnregisteredIsUnregistered ==
  \A note \in dropped : note.why = "not registered" => ~IsRegistered(note.item)

=============================================================================

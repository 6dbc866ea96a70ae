------------------------------ MODULE Grounding ------------------------------
(***************************************************************************)
(* What entity resolution owes the runner (groundCPEs in                   *)
(* internal/sources/resolve_cpe.go): from the CPEs a model proposed, CPEs  *)
(* that NVD's dictionary vouches for or, if it had no say, the proposed    *)
(* ones marked as unchecked.  Module Resolver keeps this promise, module   *)
(* Runner relies on it.                                                    *)
(***************************************************************************)
CONSTANTS
  CPEs,         \* CPEs a model or an analyst may come up with
  Registered,   \* those in NVD's dictionary
  NVDEnabled    \* sources.nvd: the resolver has a dictionary to ask

\* A dictionary that is off or out of reach lets the CPEs through unchecked.  A
\* vendor it knows keeps those its catalogue lists or, if there are none, has the
\* model choose from the catalogue; an unknown vendor, or a choice that fails,
\* leaves none.
Grounded(proposed) ==
  {[cpes |-> proposed, origin |-> "unchecked"]} \cup
  (IF NVDEnabled THEN {[cpes |-> cpes, origin |-> "checked"] : cpes \in SUBSET Registered}
                 ELSE {})

=============================================================================

------------------------------- MODULE Lookup -------------------------------
(***************************************************************************)
(* What a source that looks a vendor up promises the assessment            *)
(* (internal/sources/source.go): it makes its lookups one by one, an       *)
(* answer may call for further ones, and the section it ends with keeps    *)
(* "found nothing" apart from "could not look".  Module Lookups shows that *)
(* five of the sources keep it.                                            *)
(***************************************************************************)
CONSTANT Key  \* what may be looked up

VARIABLES
  open,     \* lookups still to make
  answered, \* lookups that were answered
  status    \* the section's status once there is one

vars == <<open, answered, status>>

Init ==
  /\ open \in SUBSET Key
  /\ answered = {}
  /\ status = "none"

\* One lookup is answered, and shows what else there is to look up.
Answer(k) ==
  /\ status = "none"
  /\ k \in open
  /\ answered' = answered \cup {k}
  /\ \E more \in SUBSET (Key \ (open \cup answered)) : open' = (open \ {k}) \cup more
  /\ UNCHANGED status

\* Only a source with no lookup left has an answer, or nothing to look up.
Conclude ==
  /\ status = "none"
  /\ open = {}
  /\ status' \in {"ok", "skipped"}
  /\ UNCHANGED <<open, answered>>

\* One lookup that fails is the end: what was found so far is not the answer.
Fail ==
  /\ status = "none"
  /\ open # {}
  /\ status' = "failed"
  /\ UNCHANGED <<open, answered>>

Progress == Conclude \/ \E k \in Key : Answer(k)

Spec == Init /\ [][Progress \/ Fail]_vars /\ WF_vars(Progress)

=============================================================================

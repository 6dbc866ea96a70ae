----------------------------- MODULE CachedNVD -----------------------------
(***************************************************************************)
(* The NVD source behind the section cache (internal/sources/cache.go over *)
(* nvd.go): run after run of one service, each with the CPEs it resolved.  *)
(* An OK section is recorded whatever the walk managed to ask, and a later *)
(* run that puts in the same CPEs is answered with it.                     *)
(*                                                                         *)
(* How long a row lives, and what overlapping runs do to it, is module     *)
(* SectionCache; here any run may find the row too old, be told not to     *)
(* use it, or fail to record.                                              *)
(***************************************************************************)
EXTENDS NVDFetch

VARIABLES
  cpes,   \* ent.CPEs of the run under way
  cached, \* the run was answered from the cache: section.Cached
  row     \* the cached section and the inputs it was computed from

cacheVars == <<cpes, cached, row>>
cachedVars == <<vars, cacheVars>>

\* No entity holds a CPE of this name, so no run is answered with it.
NoRow == [cpes |-> <<Malformed>>]

CachedTypeOK ==
  /\ TypeOK
  /\ cpes \in Entities
  /\ cached \in BOOLEAN
  /\ row # NoRow => row.cpes \in Entities

CachedInit ==
  /\ Init
  /\ cpes \in Entities
  /\ matches = MatchStrings(cpes)
  /\ cached = FALSE
  /\ row = NoRow

\* Mutant of SameInputs: the fingerprint sorts the CPEs.
SameInputsInAnyOrder(entity) == ToSet(row.cpes) = ToSet(entity)

\* cpeInputs: the fingerprint is of the CPEs as they came, in their order.
SameInputs(entity) == row.cpes = entity

\* The fresh row was computed from these CPEs: Fetch copies it out.
Hit(entity) ==
  /\ SameInputs(entity)
  /\ cached' = TRUE
  /\ stage' = "done"
  /\ queries' = row.queries
  /\ unqueried' = row.unqueried
  /\ cves' = row.cves
  /\ section' = [status |-> "ok", data |-> TRUE]

\* No row, one from other CPEs, one past its TTL, or --no-cache: ask NVD.
Miss ==
  /\ cached' = FALSE
  /\ stage' = "cpe"
  /\ queries' = <<>>
  /\ unqueried' = <<>>
  /\ cves' = <<>>
  /\ section' = None

\* The next run of the service, which may resolve to other CPEs.
NewRun ==
  /\ stage = "done"
  /\ \E entity \in Entities :
       /\ cpes' = entity
       /\ matches' = MatchStrings(entity)
       /\ Hit(entity) \/ Miss
  /\ inFlight' = FALSE
  /\ start' = 0
  /\ vulns' = <<>>
  /\ UNCHANGED row

\* An OK section is recorded, a partial one too.
Record ==
  /\ stage = "done" /\ ~cached
  /\ section.status = "ok"
  /\ row' = [cpes |-> cpes, queries |-> queries, unqueried |-> unqueried, cves |-> cves]
  /\ UNCHANGED <<vars, cpes, cached>>

CachedNext ==
  \/ Next /\ UNCHANGED cacheVars
  \/ NewRun
  \/ Record

CachedSpec ==
  CachedInit /\ [][CachedNext]_cachedVars /\ WF_cachedVars(Answer /\ UNCHANGED cacheVars)

=============================================================================

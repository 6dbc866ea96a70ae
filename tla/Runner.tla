------------------------------- MODULE Runner -------------------------------
(***************************************************************************)
(* The assessment pipeline (internal/assess/run.go) as the runs of one     *)
(* company and service share it: read the cached entity mapping or resolve *)
(* a new one, give it to the sources, and cache it after the fan-out if    *)
(* NVD's verdict allows.                                                   *)
(*                                                                         *)
(* A mapping is its CPEs, the part NVD can check.  The fan-out is module   *)
(* FanOut and the NVD walk module NVDFetch; here they are one step that    *)
(* yields the verdict CPEsVerified reads off the report.  The Messages API *)
(* that proposes a mapping is external: it may propose anything.           *)
(***************************************************************************)
EXTENDS CacheTable, Grounding, FiniteSets

CONSTANTS
  Runs,         \* goroutines that run assessments, one after the other
  Requests,     \* what front-ends may ask: [noCache, cpes]
  HasTTL,       \* cache_ttl.resolution is configured
  TTL,          \* its value: a row of TTL 0 is never fresh
  Total,        \* timeouts.total
  WriteTimeout, \* resolutionWriteTimeout
  MaxTime       \* bound: the clock stops here

ASSUME RunnerAssumption ==
  /\ Registered \subseteq CPEs
  /\ Requests \subseteq [noCache : BOOLEAN, cpes : SUBSET CPEs]
  /\ NVDEnabled \in BOOLEAN
  /\ HasTTL \in BOOLEAN
  /\ TTL \in Nat
  /\ Total \in Nat
  /\ WriteTimeout \in Nat
  /\ MaxTime \in Nat

ResolutionKey == "resolution"
NoResolution  == [cpes |-> {}, origin |-> "none"]
NoRequest     == [noCache |-> FALSE, cpes |-> {}]

VARIABLES
  now,        \* the clock
  table,      \* assessments_cache
  phase,      \* where each Run stands
  request,    \* what it was asked
  due,        \* when the budget it works under ends: Total, then WriteTimeout
  resolution, \* result.Resolution
  hit,        \* result.ResolutionCached
  verdict,    \* what CPEsVerified says of the report
  own,        \* history: the mapping the Run itself resolved, set where it did
  queried,    \* history: the CPEs NVD reports to have queried in the Run
  pinned      \* history: both, of the Run that wrote the row

vars == <<now, table, phase, request, due, resolution, hit, verdict, own, queried, pinned>>
runVars == <<phase, request, due, resolution, hit, verdict, own, queried>>

\* CPEOrigin, as far as the cache could care: did NVD's dictionary have its say.
Origin == {"checked", "unchecked"}
Resolution == [cpes : SUBSET CPEs, origin : Origin, at : Nat]

TypeOK ==
  /\ now \in Nat
  /\ table \subseteq [key : {ResolutionKey}, payload : Resolution, at : Nat, manual : {FALSE}]
  /\ OneRowPerKey(table)
  /\ phase \in [Runs -> {"idle", "lookup", "resolve", "fanout", "record", "failed"}]
  /\ request \in [Runs -> Requests \cup {NoRequest}]
  /\ due \in [Runs -> Nat]
  /\ resolution \in [Runs -> Resolution \cup {NoResolution}]
  /\ hit \in [Runs -> BOOLEAN]
  /\ verdict \in [Runs -> {"unknown", "verified", "invented"}]
  /\ own \in [Runs -> Resolution \cup {NoResolution}]
  /\ queried \in [Runs -> SUBSET CPEs]
  /\ pinned \in [own : Resolution \cup {NoResolution}, queried : SUBSET CPEs]

Init ==
  /\ now = 0
  /\ table = {}
  /\ phase = [r \in Runs |-> "idle"]
  /\ request = [r \in Runs |-> NoRequest]
  /\ due = [r \in Runs |-> 0]
  /\ resolution = [r \in Runs |-> NoResolution]
  /\ hit = [r \in Runs |-> FALSE]
  /\ verdict = [r \in Runs |-> "unknown"]
  /\ own = [r \in Runs |-> NoResolution]
  /\ queried = [r \in Runs |-> {}]
  /\ pinned = [own |-> NoResolution, queried |-> {}]

-----------------------------------------------------------------------------
(* Resolution. *)

\* Run starts its budget.  The cache is read unless --no-cache or no TTL says not.
Start(r) ==
  /\ phase[r] \in {"idle", "failed"}
  /\ \E q \in Requests :
       /\ request' = [request EXCEPT ![r] = q]
       /\ phase' = [phase EXCEPT ![r] =
            IF HasTTL /\ ~q.noCache THEN "lookup" ELSE "resolve"]
  /\ due' = [due EXCEPT ![r] = now + Total]
  /\ UNCHANGED <<now, table, resolution, hit, verdict, own, queried, pinned>>

\* Resolution.Cacheable: an empty list of CPEs cannot be interpreted.
Cacheable(res) == res.cpes # {}

Usable == {row \in FreshRows(table, ResolutionKey, TTL, now) : Cacheable(row.payload)}

\* Mutant of Hit: the run does not note that its mapping came from the cache.
HitUnnoted(r) ==
  /\ phase[r] = "lookup"
  /\ \E row \in Usable : resolution' = [resolution EXCEPT ![r] = row.payload]
  /\ phase' = [phase EXCEPT ![r] = "fanout"]
  /\ UNCHANGED <<now, table, request, due, hit, verdict, own, queried, pinned>>

Hit(r) ==
  /\ phase[r] = "lookup"
  /\ \E row \in Usable : resolution' = [resolution EXCEPT ![r] = row.payload]
  /\ hit' = [hit EXCEPT ![r] = TRUE]
  /\ phase' = [phase EXCEPT ![r] = "fanout"]
  /\ UNCHANGED <<now, table, request, due, verdict, own, queried, pinned>>

Miss(r) ==
  /\ phase[r] = "lookup"
  /\ Usable = {}
  /\ phase' = [phase EXCEPT ![r] = "resolve"]
  /\ UNCHANGED <<now, table, request, due, resolution, hit, verdict, own, queried, pinned>>

\* A sick cache costs a slow answer, never no answer.
LookupFails(r) ==
  /\ phase[r] = "lookup"
  /\ phase' = [phase EXCEPT ![r] = "resolve"]
  /\ UNCHANGED <<now, table, request, due, resolution, hit, verdict, own, queried, pinned>>

\* Resolve: the model proposes and the dictionary decides.
Resolve(r) ==
  /\ phase[r] = "resolve"
  /\ \E proposed \in SUBSET CPEs : \E g \in Grounded(proposed) :
       resolution' = [resolution EXCEPT ![r] =
         [cpes |-> g.cpes, origin |-> g.origin, at |-> now]]
  /\ own' = [own EXCEPT ![r] = resolution'[r]]
  /\ phase' = [phase EXCEPT ![r] = "fanout"]
  /\ UNCHANGED <<now, table, request, due, hit, verdict, queried, pinned>>

\* Run returns: a goroutine starts its next one from nothing.
Return(r, outcome) ==
  /\ phase' = [phase EXCEPT ![r] = outcome]
  /\ due' = [due EXCEPT ![r] = 0]
  /\ resolution' = [resolution EXCEPT ![r] = NoResolution]
  /\ hit' = [hit EXCEPT ![r] = FALSE]
  /\ verdict' = [verdict EXCEPT ![r] = "unknown"]
  /\ own' = [own EXCEPT ![r] = NoResolution]
  /\ queried' = [queried EXCEPT ![r] = {}]
  /\ UNCHANGED now

\* The model errs, declines, answers badly or runs out of time: fatal.
ResolveFails(r) ==
  /\ phase[r] = "resolve"
  /\ Return(r, "failed")
  /\ UNCHANGED <<table, request, pinned>>

-----------------------------------------------------------------------------
(* The fan-out and the verdict. *)

CPEsOverridden(r) == request[r].cpes # {}

\* The CPEs the sources are given.
EntityCPEs(r) == IF CPEsOverridden(r) THEN request[r].cpes ELSE resolution[r].cpes

\* NVD's verdict once it has queried some of the CPEs; none before, and none if
\* it is off, skipped, failed or was abandoned.
VerdictOn(asked) ==
  CASE asked = {} -> "unknown"
    [] asked # {} /\ asked \cap Registered # {} -> "verified"
    [] OTHER -> "invented"

\* Mutant of MayRecord: a mapping read from the cache is written back.
MayRecordCached(r) ==
  HasTTL /\ ~CPEsOverridden(r) /\ Cacheable(resolution[r]) /\ verdict[r] # "invented"

\* What Run and recordResolution ask before the write.
MayRecord(r) ==
  /\ HasTTL
  /\ ~hit[r]
  /\ ~CPEsOverridden(r)
  /\ Cacheable(resolution[r])
  /\ verdict[r] # "invented"

\* The fan-out ends, with whatever NVD managed to query of the CPEs.
FanOutEnds(r) ==
  /\ phase[r] = "fanout"
  /\ \E asked \in SUBSET (IF NVDEnabled THEN EntityCPEs(r) ELSE {}) :
       /\ verdict' = [verdict EXCEPT ![r] = VerdictOn(asked)]
       /\ queried' = [queried EXCEPT ![r] = asked]
  /\ due' = [due EXCEPT ![r] = now + WriteTimeout]
  /\ phase' = [phase EXCEPT ![r] = "record"]
  /\ UNCHANGED <<now, table, request, resolution, hit, own, pinned>>

\* recordResolution writes the mapping, and Run returns.
Record(r) ==
  /\ phase[r] = "record"
  /\ MayRecord(r)
  /\ table' = Upsert(table, ResolutionKey, resolution[r], now)
  /\ pinned' = [own |-> own[r], queried |-> queried[r]]
  /\ Return(r, "idle")
  /\ request' = [request EXCEPT ![r] = NoRequest]

\* There is nothing to record, or the write fails or outlives its timeout.
NotRecorded(r) ==
  /\ phase[r] = "record"
  /\ Return(r, "idle")
  /\ request' = [request EXCEPT ![r] = NoRequest]
  /\ UNCHANGED <<table, pinned>>

\* The budgets end what they bound: everything up to the fan-out by the total,
\* the write by its own timeout.
OutOfTime(r) == phase[r] \notin {"idle", "failed"} /\ now >= due[r]

Tick ==
  /\ now < MaxTime
  /\ \A r \in Runs : ~OutOfTime(r)
  /\ now' = now + 1
  /\ UNCHANGED <<table, pinned, runVars>>

Next ==
  \/ \E r \in Runs :
       \/ Start(r) \/ Hit(r) \/ Miss(r) \/ LookupFails(r)
       \/ Resolve(r) \/ ResolveFails(r)
       \/ FanOutEnds(r) \/ Record(r) \/ NotRecorded(r)
  \/ Tick

Spec == Init /\ [][Next]_vars

-----------------------------------------------------------------------------
(* Properties. *)

\* The run that wrote a mapping vouches for it.  The mapping is the one that run
\* resolved, not one it read from the cache; what NVD reports to have queried in
\* that run are CPEs of this very mapping, not an analyst's, and if there are any
\* then a registered one is among them.  So CPEs of which not one is registered
\* are pinned in one case only: the dictionary did not check them as they were
\* resolved, and NVD queried none of them in the fan-out (run.go:230-261,
\* resolve_cpe.go:79-92).
PinnedIsVouchedFor ==
  \A row \in table :
    /\ row.payload = pinned.own
    /\ row.payload.cpes # {}
    /\ pinned.queried \subseteq row.payload.cpes
    /\ pinned.queried # {} => pinned.queried \cap Registered # {}
    /\ row.payload.cpes \cap Registered = {} =>
         row.payload.origin = "unchecked" /\ pinned.queried = {}

\* However many runs read it, a mapping is served no longer than its TTL and the
\* one run that resolved and dated it, and never under --no-cache: reading a
\* mapping does not extend its life (run.go:186-189, 198-213; store.go:320-362).
MappingsExpire ==
  [][\A r \in Runs : ~hit[r] /\ hit'[r] =>
       /\ ~request[r].noCache
       /\ now < resolution'[r].at + Total + WriteTimeout + TTL]_vars

\* What the comment on groundCPEs (resolve_cpe.go:79-84) and a test
\* (resolve_cpe_test.go:264-266) say of CPEs a dictionary out of reach let
\* through: the cache does not pin them before NVD has had its say.  TLC refutes
\* it, with an outage that lasts through the fan-out (run.go:246-249).
UncheckedIsNotPinned ==
  \A row \in table : row.payload.origin = "unchecked" => pinned.queried # {}

=============================================================================

---------------------------- MODULE SectionCache ----------------------------
(***************************************************************************)
(* A cached source (internal/sources/cache.go) on the cache table: the     *)
(* Fetch of every run that assesses one company and service at the same    *)
(* time, the analyst who records manual entries in the same table, and the *)
(* clock.                                                                  *)
(*                                                                         *)
(* Fetch is four steps with other runs between them: begin, look the cache *)
(* up, fetch from upstream, record.  Nothing ties them together: the       *)
(* fan-out may have given the source up long before it records, and the    *)
(* process may end in between.                                             *)
(***************************************************************************)
EXTENDS CacheTable, FiniteSets

CONSTANTS
  Runs,         \* assessments, each of which fetches the source once
  Source,       \* the source's name, which is its key in the table
  ManualNames,  \* names some configuration ever gave a manual source
  Entries,      \* what an analyst may record
  Fingerprints, \* values of SectionInputs
  TTL,          \* the source's cache_ttl
  WriteTimeout, \* cacheWriteTimeout
  MaxTime       \* bound: the clock stops here

\* Caching wraps a source only if there is a lifetime to cache for.
ASSUME CacheAssumption ==
  /\ TTL \in Nat \ {0}
  /\ WriteTimeout \in Nat
  /\ MaxTime \in Nat

NoSection == [status |-> "none"]
NoRequest == [inputs |-> "none", bypass |-> FALSE]
NoEntry   == "no entry recorded"

ASSUME EntriesAssumption == NoEntry \notin Entries

VARIABLES
  now,      \* the database's clock
  table,    \* assessments_cache
  phase,    \* where each run's Fetch stands
  request,  \* the fingerprint of the run's identifiers, and its --no-cache
  section,  \* the section in hand, and then the one returned
  cached,   \* Section.Cached of the one returned
  asOf,     \* history: when the run looked the cache up or heard from upstream
  lastWord, \* history: what the analyst recorded last under each name
  kept      \* history: the instants at which the sections written were obtained

vars == <<now, table, phase, request, section, cached, asOf, lastWord, kept>>
runVars == <<phase, request, section, cached, asOf>>

Status  == {"ok", "failed", "skipped"}
Section == [status : Status, inputs : Fingerprints, by : Runs, at : Nat]
Key     == {Source} \cup ManualNames

TypeOK ==
  /\ now \in Nat
  /\ table \subseteq [key : Key, payload : Section \cup Entries, at : Nat, manual : BOOLEAN]
  /\ OneRowPerKey(table)
  /\ phase \in [Runs -> {"idle", "lookup", "fetch", "record", "done", "dead"}]
  /\ request \in [Runs -> [inputs : Fingerprints, bypass : BOOLEAN] \cup {NoRequest}]
  /\ section \in [Runs -> Section \cup {NoSection}]
  /\ cached \in [Runs -> BOOLEAN]
  /\ asOf \in [Runs -> Nat]
  /\ lastWord \in [ManualNames -> Entries \cup {NoEntry}]
  /\ kept \subseteq Nat

Init ==
  /\ now = 0
  /\ table = {}
  /\ phase = [r \in Runs |-> "idle"]
  /\ request = [r \in Runs |-> NoRequest]
  /\ section = [r \in Runs |-> NoSection]
  /\ cached = [r \in Runs |-> FALSE]
  /\ asOf = [r \in Runs |-> 0]
  /\ lastWord = [k \in ManualNames |-> NoEntry]
  /\ kept = {}

\* Fetch fingerprints the identifiers and, with --no-cache, skips the read.
Begin(r) ==
  /\ phase[r] = "idle"
  /\ \E f \in Fingerprints, bypass \in BOOLEAN :
       /\ request' = [request EXCEPT ![r] = [inputs |-> f, bypass |-> bypass]]
       /\ phase' = [phase EXCEPT ![r] = IF bypass THEN "fetch" ELSE "lookup"]
  /\ UNCHANGED <<now, table, section, cached, asOf, lastWord, kept>>

\* Mutant of Usable: the fingerprint in the row is not compared.
UsableWhateverInputs(r) ==
  {row \in FreshRows(table, Source, TTL, now) : row.payload.status = "ok"}

\* The rows a lookup serves: fresh, computed from this run's identifiers, OK.
Usable(r) ==
  {row \in FreshRows(table, Source, TTL, now) :
     row.payload.inputs = request[r].inputs /\ row.payload.status = "ok"}

\* The cache answers.
Hit(r) ==
  /\ phase[r] = "lookup"
  /\ \E row \in Usable(r) : section' = [section EXCEPT ![r] = row.payload]
  /\ cached' = [cached EXCEPT ![r] = TRUE]
  /\ asOf' = [asOf EXCEPT ![r] = now]
  /\ phase' = [phase EXCEPT ![r] = "done"]
  /\ UNCHANGED <<now, table, request, lastWord, kept>>

Miss(r) ==
  /\ phase[r] = "lookup"
  /\ Usable(r) = {}
  /\ phase' = [phase EXCEPT ![r] = "fetch"]
  /\ UNCHANGED <<now, table, request, section, cached, asOf, lastWord, kept>>

\* The read fails, or the row cannot be decoded: a warning, and then a miss.
LookupFails(r) ==
  /\ phase[r] = "lookup"
  /\ phase' = [phase EXCEPT ![r] = "fetch"]
  /\ UNCHANGED <<now, table, request, section, cached, asOf, lastWord, kept>>

\* Upstream answers; only an OK section goes on to be recorded.
Fetched(r, status) ==
  /\ phase[r] = "fetch"
  /\ section' = [section EXCEPT ![r] =
       [status |-> status, inputs |-> request[r].inputs, by |-> r, at |-> now]]
  /\ asOf' = [asOf EXCEPT ![r] = now]
  /\ phase' = [phase EXCEPT ![r] = IF status = "ok" THEN "record" ELSE "done"]
  /\ UNCHANGED <<now, table, request, cached, lastWord, kept>>

\* The write lands, unless an analyst's entry holds the row.  Fetch returns.
Record(r) ==
  /\ phase[r] = "record"
  /\ table' = Upsert(table, Source, section[r], now)
  /\ kept' = IF ManualRows(table, Source) = {} THEN kept \cup {section[r].at} ELSE kept
  /\ phase' = [phase EXCEPT ![r] = "done"]
  /\ UNCHANGED <<now, request, section, cached, asOf, lastWord>>

\* The write fails or runs out of its own timeout: a warning.  Fetch returns.
RecordFails(r) ==
  /\ phase[r] = "record"
  /\ phase' = [phase EXCEPT ![r] = "done"]
  /\ UNCHANGED <<now, table, request, section, cached, asOf, lastWord, kept>>

\* The process ends under a source its assessment gave up.
Die(r) ==
  /\ phase[r] \in {"lookup", "fetch", "record"}
  /\ phase' = [phase EXCEPT ![r] = "dead"]
  /\ UNCHANGED <<now, table, request, section, cached, asOf, lastWord, kept>>

\* vrm set.
SetManual(k, e) ==
  /\ table' = SetManualRow(table, k, e, now)
  /\ lastWord' = [lastWord EXCEPT ![k] = e]
  /\ UNCHANGED <<now, kept, runVars>>

\* Mutant of Overdue: a write may take as long as it likes.
OverdueNever(r) == FALSE

\* A write whose context is about to end.
Overdue(r) == phase[r] = "record" /\ now >= section[r].at + WriteTimeout

\* Time passes, but a write does not outlive its context.
Tick ==
  /\ now < MaxTime
  /\ \A r \in Runs : ~Overdue(r)
  /\ now' = now + 1
  /\ UNCHANGED <<table, lastWord, kept, runVars>>

Next ==
  \/ \E r \in Runs :
       \/ Begin(r) \/ Hit(r) \/ Miss(r) \/ LookupFails(r)
       \/ \E status \in Status : Fetched(r, status)
       \/ Record(r) \/ RecordFails(r) \/ Die(r)
  \/ \E k \in ManualNames, e \in Entries : SetManual(k, e)
  \/ Tick

Spec == Init /\ [][Next]_vars

-----------------------------------------------------------------------------
(* ManualSource.Fetch: what a manual source reports from the table.          *)

ManualAnswers(k) == {r.payload : r \in ManualRows(table, k)}

-----------------------------------------------------------------------------
(* Properties. *)

\* An OK section a Fetch returns is this run's own or one the cache may serve
\* for it: marked as cached, never under --no-cache, computed from the same
\* identifiers, and obtained from upstream no longer ago than the TTL and the
\* one write that dated it (cache.go:72-102).
AnswersAreTheRuns ==
  \A r \in Runs : phase[r] = "done" /\ section[r].status = "ok" =>
    IF cached[r]
      THEN /\ ~request[r].bypass
           /\ section[r].inputs = request[r].inputs
           /\ asOf[r] < section[r].at + WriteTimeout + TTL
      ELSE section[r].by = r

\* A failure is a fact about the run: the cache never holds one, whichever runs
\* wrote (cache.go:74-79).
OnlySuccessIsKept ==
  \A row \in table : ~row.manual => row.payload.status = "ok"

\* What the analyst recorded last is what a manual source reports, whatever the
\* runs write in the meantime and whoever held the row before (store.go:192-196).
LastWordStands ==
  \A k \in ManualNames :
    ManualAnswers(k) = IF lastWord[k] = NoEntry THEN {} ELSE {lastWord[k]}

\* Runs that overlap may overwrite a newer section with an older one, but never
\* by more than one write's time (cache.go:126-139).
LittleIsLost ==
  \A row \in table : row.key = Source /\ ~row.manual =>
    \A t \in kept : t <= row.payload.at + WriteTimeout

=============================================================================

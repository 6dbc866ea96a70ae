# A verification project for vrm

vrm (`github.com/aalcar/vrm`) assesses the risk of a software vendor. Given a
company and a service it resolves the vendor to identifiers with a language model, asks a
fixed set of sources about them concurrently, and returns a report with one section per
source. This directory holds TLA+ models of the parts of that program whose correctness
depends on order, concurrency, time or stored state, the TLC runs that check them on small
instances, and the theorems TLAPS proves about them for every instance.

Every definition is written from the Go source; `PROJECT.json` maps each one to the lines it
stands for.

## 1. The system

| part | source | state it keeps | operations | what makes it hard |
| --- | --- | --- | --- | --- |
| fan-out | `internal/assess/assess.go` | results, reported set, one goroutine per source, a buffered channel | `Run`, `fanOut`, `runOne`, `expireOutstanding`, `notify`, `orderSections` | sources that ignore their context, expiry racing a result, abandoned goroutines |
| runner | `internal/assess/run.go` | one request's resolution, overrides and report | `Run`, `resolve`, `recordResolution`, `registerSources` | a cache write decided by what another component answered; overrides |
| section cache | `internal/sources/cache.go`, `codec.go` | none of its own: rows of the store | `Fetch`, `lookup`, `record`, `EncodeSection`, `DecodeSection`, `SectionInputs` | late writes of abandoned sources, rows computed from other identifiers |
| store | `internal/store/store.go`, `migrations/` | table `assessments_cache` | `CachedSection`, `PutSection`, `SetManual`, `ManualEntry`, `CachedResolution`, `PutResolution`, `Migrate` | several processes and goroutines on the same rows; analyst data beside cache rows; TTL |
| NVD source | `internal/sources/nvd.go` | the rate limiter's last slot, shared by every run of the process | `Fetch`, `queryCPE`, `fetchCVEs`, `VendorProducts`, `wait` | rate limit under concurrency and cancellation, a deadline between two of several requests |
| resolver | `internal/sources/llm.go`, `resolve_cpe.go` | none | `Resolve`, `propose`, `groundCPEs`, `findVendor`, `selectProducts` | an unreliable proposer checked against a registry that may be unreachable |
| other sources | `bitsight.go`, `osv.go`, `fedramp.go`, `caag.go`, `manual.go` | none | `Fetch` and a parser each | paging, one of several lookups failing, "found nothing" against "could not look", a match that is not quite the vendor |
| research source | `research.go`, `research_parse.go` | none | `Fetch`, `parseResearch` | a model that claims and cites what it likes; claims that are dropped |
| report | `internal/report` | the printer's first error | `FromResult`, `Rows`, `Summarize`, `Render` | lists that are cut, a writer that breaks half-way |
| web server | `internal/web`, `cmd/vrmd` | connections, one assessment per stream | `stream`, `assess`, shutdown | disconnects, reconnects that start an assessment again, shutdown with assessments running |
| command line | `cmd/vrm` | none | `assess`, `set`, `show` | a second process on the same table |
| configuration | `internal/config` | the validated settings | `Load`, `Validate`, `TTL` | none at run time |

How they interact. The web server and the command line call `Runner.Run`, which calls the
resolver (or reads the resolution cache), then the fan-out, then writes the resolution cache.
The fan-out calls each source through the `Source` interface; an automated source with a TTL
is wrapped by the section cache, which reads and writes the store. The NVD source is one
object per process: the resolver and the fan-out of every concurrent run share its rate
limiter. The runner reports progress through two callbacks, which the web server turns into
server-sent events. Several runs, in one server or in several processes, meet only in the
store's table and, inside one process, in the rate limiter.


### What makes each part correct

- **Fan-out.** Every registered source is in the report exactly once, in the documented order,
  as the answer it gave if it gave one in time; a broken or silent source costs its own section
  and nothing else; no goroutine is left blocked.
- **NVD source.** Requests respect NVD's rate limit whatever the concurrency; a partial answer
  names what it is missing; a zero is explained; the verdict on the CPEs is right.
- **Section cache and store.** A run is only served answers that are successful, fresh and
  computed from its own identifiers; analyst entries survive everything the program does by
  itself.
- **Runner and resolver.** A mapping is cached only by a run entitled to vouch for it and is
  forgotten when its TTL says so; an override never changes what other runs are served.
- **Web server.** An assessment that was paid for is delivered or fails visibly.
- **Other sources.** "Found nothing", "could not look" and "nothing to look up" stay apart; an
  answer is the whole answer, up to a cap, and about this vendor, and a loose match is told as
  one.
- **Research source and report.** Every printed claim has a source the search returned; every
  claim is printed or named as dropped; a report that counts as written is all there.

## 2. Modules

| module | models | used by |
| --- | --- | --- |
| `Assessment` | the promise of one assessment, with no goroutine, channel or clock | refined by `FanOut` |
| `Ordering` | filters and sorts of slices as first-order operators | `SectionOrder`, `NVDFetch`, `Resolver`, `Lookups`, `Research`, `Report`, `OrderingProofs` |
| `OrderingProofs` | what those operators return, as lemmas | the proof modules of `FanOut`, `CachedNVD`, `Resolver`, `Lookups` and `Checklist` |
| `SectionOrder` | `orderSections` as an operator | `FanOut` |
| `FanOut` | `Assessor.Run` and its goroutines | `MCFanOut`, `FanOutProofs` |
| `RateLimiter` | `NVD.wait` | `MCRateLimiter`, `NVDProofs` |
| `NVDFetch` | `NVD.Fetch` | `CachedNVD` |
| `CachedNVD` | `NVD.Fetch` behind the section cache, run after run | `MCNVDFetch`, `NVDProofs` |
| `CacheTable` | the statements of `store.go` as operators on a table | `SectionCache`, `Runner` |
| `SectionCache` | a cached source's `Fetch`, `vrm set`, time | `MCSectionCache`, `SectionCacheProofs` |
| `Grounding` | what a resolution owes the runner, as an operator | `Runner`, `Resolver` |
| `Runner` | `Runner.Run` and the resolution cache | `MCRunner`, `ResolutionProofs` |
| `Resolver` | `Resolver.Resolve`: `propose`, `groundCPEs`, `VendorProducts` | `MCResolver`, `ResolutionProofs` |
| `Lookup` | what a source that looks a vendor up promises | refined by `Lookups` |
| `Lookups` | `OSV.Fetch`, `CAAG.Fetch`, `FedRAMP.Fetch`, `BitSight.Fetch`, `ManualSource.Fetch` | `MCLookups`, `LookupsProofs` |
| `Research` | `Researcher.Fetch` and `parseResearch` | `Checklist` |
| `Report` | `report.Render`, `Summarize`, the printer | `Checklist` |
| `Checklist` | from a model's claim through the section to the printed line | `MCChecklist`, `ChecklistProofs` |
| `Server` | `vrmd`: streams, browsers, the signal and `Shutdown` | `MCServer`, `ServerProofs` |

Definitions marked "Mutant of" are plausible mistakes in the definition they precede. They
take no part in the specifications; each breaks a property when it is put in the place of the
definition, which is how we know that the property says something about the code.

### Ordering and SectionOrder

`sort.SliceStable`, a filter and a removal of duplicates, by the positions of the elements: the
k-th element of a set in an order is the one with k - 1 others before it. A sort written as a
fold or a recursion computes the same, but what it computes could only be proved by induction
over its input; of these definitions it follows from counting. `orderSections` sorts by
registration and then makes one pass per name and one over the unknown names, which is one
stable sort by pass and then registration: each section is taken by exactly one pass.

### FanOut

The collector is one process with the program counter `pc`; a source's goroutine is one
process with the state `task[i]`. `pending` is the buffered channel. One action stands for one
step between two points at which another goroutine can be seen: a send, a receive, the choice
of the `ctx.Done` case, one turn of the loop of `expireOutstanding`. A call of `Fetch` may come
to anything, a panic included, or never return (`FinishFetch` is not fair). `ctx` ends at most
once, by the total timeout or because the caller left. `runOne` is the operator `RunOne`.
The history variables `inTime` and `broken` say what the properties compare the report with.

`ImplementsAssessment` is the refinement: a source's answer is its section in `results`,
`told` counts the observer's calls, and `delivered` means that `Run` returned. It includes the
abstract specification's fairness: the report is delivered even if a source never returns.

### RateLimiter

Time is an integer. `Reserve` is the critical section of `wait`; a caller then holds the number
of its grant until its timer fires (`Proceed`) or its context ends (`GiveUp`, which leaves
`last` alone as the code does). `Lateness` is how late a timer may fire; without it the
properties would be about a scheduler Go does not have. `granted` and `sent` are histories;
`LimiterTypeOK` relates them: whatever the callers before it do, a request leaves in the slot it
reserved and no more than `Lateness` after it.

### NVDFetch

One walk over one entity. Its actions are what `Fetch` does with one response: a page of CVEs,
the dictionary's answer, the vendor's products, a request that ran out of time, a request that
failed. `Ask` is the passage through the rate limiter, so that a deadline can also end the walk
before a request left (`RunsOut`). A page may be shorter than asked for, or empty.
What NVD knows is constant; that it lists in its dictionary every product it has CVEs for is
an assumption (`NVDAssumption`) the code makes too ("proves it exists", nvd.go:196).
A network timeout that is not the context's counts as one, as in the code, which asks
`errors.Is(err, context.DeadlineExceeded)`; so `RunsOut` may happen at any request.

### CachedNVD

The composition of `NVDFetch` with the cache in front of it. `NewRun` starts the next run with
the CPEs it resolved; it is answered with the row if the fingerprint agrees (`SameInputs`: the
CPEs as they came, in their order) and walks otherwise. `Record` keeps every OK section, one
cut short by a deadline included, which is why the properties of a walk are stated of every
run: they then say that a partial answer is as explicit about what it is missing when it is
served to a later run. A row's age and overlapping runs are `SectionCache`'s subject, so here
any run may find the row too old and any write may fail.

### CacheTable and SectionCache

The table is a set of rows; each statement of `store.go` is an operator, and atomic.
A run's `Fetch` is four steps - begin, look up, fetch, record - and the other runs, the analyst
and the clock may come between any two. A failing or undecodable read is `LookupFails`; a
failing write, or one refused because the analyst's entry holds the row, leaves the run as a
successful one does. `Die` is the process ending under a source its assessment gave up.
`Tick` does not pass a write's deadline: `PutSection` runs under its own context of
`cacheWriteTimeout`, and a statement whose context ended is taken not to land later.
`SetManual` may use the automated source's own name: `Config.Validate` keeps the names apart in
one configuration, but rows outlive configurations, and the store claims the entry is safe
regardless.

### Runner

Each member of `Runs` is a goroutine that assesses the same company and service over and over.
`resolve` is `Hit`, `Miss`, `LookupFails`, `Resolve` and `ResolveFails`; what the resolver can
come to is `Grounding!Grounded`. The fan-out is one step that ends with a verdict: NVD may have
queried any part of the CPEs it was given, and `VerdictOn` is what `CPEsVerified` reads off that.
`Record` is `recordResolution`'s write. `own` and `queried` are histories of a run - the mapping
it resolved itself, if it did, and the CPEs NVD queried for it - and `pinned` holds those of the
run that wrote the row. No guard reads them: what `MayRecord` asks is the code's `hit` flag and
the verdict. A run works under a budget (`due`): `timeouts.total` until its fan-out ends, then
`resolutionWriteTimeout` for the write. A mapping is abstracted to its CPEs, whether NVD's
dictionary had a say in them, and its date.

### Grounding and Resolver

`Grounding` is the seam between the resolver and the runner: `Runner` takes any member of
`Grounded(proposed)` for a resolution, and `Resolver` shows that the code delivers one
(`KeepsItsPromise`). Neither module has to know the other.

One step of `Resolver` is one answer, of the model or of NVD's dictionary, or the failure of one.
The model is unconstrained: `Replies` and `Selections` are whatever it may say. A vendor is a
prefix with its part, so that the operating-system and the application entry of one company are
two vendors, as they are to NVD. `CataloguePage` has the three views a page can be - complete,
narrowed, first page only - and `BetterOf` is the fallback of `VendorProducts`. The dictionary is
constant during a resolution, and its pages are full: a short page, which only makes a vendor look
larger, is `NVDFetch`'s subject. `Wildcards` are the product tokens `normalizeCPE` makes nothing
of: the dictionary may list one and the model may choose it, and it then becomes no CPE (`Kept`).
`named` is a history of what the model came up with, `requests` one of the pages asked for.

### Lookup and Lookups

The five sources that look a vendor up have one module: `source` says whose `Fetch` it is,
`keys` the lookups it has found to make, `done` how many were answered. One action is what one
source does with one response - a page of advisories, the rows of one name, the listing, the
search, the rating, the entry. `RequestFails` stands for every way a request comes to nothing:
the transport, a status other than 200, a body that makes no sense. A search may call for a
further lookup, as BitSight's does. What `normalizeVendorName` makes of a name is the constant
`Normal`, so that the instance decides which names collide and of which nothing is left.
`reply` is a history of what came.

`ImplementsLookup` is the refinement: OK and skipped only with every lookup answered, failed
only when one was not, and over in any case.

### Research, Report and Checklist

A reply is the sequence of its claims in the order `parseResearch` reads them, and one step
checks it: parsing has no state anyone else sees. `Page` stands for `normalizeCitationURL`.
`checked` is the `Research` that came of it, with `dropped` as notes instead of sentences.
`Report` prints line by line, because the writer may fail at any of them; a section's data are
the lines printed whole and the one list that is cut to `detailCap`. `Checklist` composes the
two: the research section joins the others and the report is printed. The properties are about
both ends, the claim that was made and the line that was written.

The loops of both files are stated by what they leave: a filter is a `Subsequence` of the
positions that pass, "first occurrence only" (`seen`) a condition on the positions before, and a
loop that appends is `FlattenSeq` of its turns' pieces. `Fresh` are the URLs that may become
citations; the first `MaxCitations` of them do, and the loop ends there, so that a URL behind
them is not even noted as unknown.

### Server

A stream is a connection and its handler; a tab is at the form, waiting to connect, connected
or settled on a report. The handler's `Run` is `Assessment` by its visible steps: it fails
before the entity, or the entity is followed by one section per source. A write blocks while
the connection holds `Window` events and, once the server has noticed that the connection is
gone, succeeds without reaching anyone, because `eventWriter` drops errors. The browser's half
(`Receive`, `Breaks`, `Ends`) is htmx's extension over `EventSource`: a stream that ends without
having been closed is opened again, and a page that is not replaced stays as it is. `Signal`
ends the base context of every request, `ShutdownReturns` and `GraceEnds` are the two outcomes
of `Shutdown`, and `Exit` kills whatever still runs. A page is abstracted to the streams its
entity, its sections and its report came from.

## 3. What the runs check

| run | instance | states | question |
| --- | --- | --- | --- |
| `fanout` | 3 sources, the second named in `SectionOrder` | 147,872 | all interleavings of answers, failures, panics, silence and expiry |
| `ratelimiter` | 3 callers, 4 grants, interval 2, lateness 1, arrivals up to 5 | 18,794 | spacing, no needless delay, no endless sleep |
| `nvdfetch` | 6 CPE names, 20 entities of up to 6, cap 3, up to 4 CVEs per product, pages of 2, 3 results per CPE, runs without end | 71,705 | every way a walk can be cut short, in its own run and in those its section is kept for |
| `sectioncache` | 3 runs, 2 fingerprints, TTL 2, write timeout 1, clock up to 4 | 1,382,146 | overlapping runs, the analyst, late writes, expiry |
| `runner` | 2 goroutines, 1 real and 1 invented CPE, TTL 2, total 1, write timeout 1, clock up to 4 | 3,183,176 | which mappings get pinned, by whom, for how long |
| `resolver` | 5 vendors, 3 products and a wildcard, replies of up to 2 vendors and 2 CPEs, pages of 2 | 8,561 | what becomes of every CPE a model invents |
| `server` | 2 tabs, 2 sources, 2 streams, window 2 | 100,350 | drops, stalled readers, reconnects and a shutdown at any moment |
| `lookups` | 5 sources, 32 entities, page cap 2, name cap 3, listing floor 2 | 27,064 | whole answers, the right vendor, and the promise of `Lookup` |
| `checklist` | 368 replies, 3 searches, 2 sets of other sections, 2 citations, 3 notes in an error, cap 2, a write error at any line | 132,686 | from claim to line |
| `nvd_none_exist` | as `nvdfetch` | - | finding 1 |
| `server_grace` | as `server` | - | finding 2 |
| `research_yes_lost` | as `checklist` | - | finding 3 |

Why the bounds are enough.

- *fanout*: three sources are the fewest of which one has reported, one is in the channel and
  one is silent when the budget ends; a named source between two unnamed ones makes arrival,
  registration and report order three different orders. The theorems cover every `N`.
- *ratelimiter*: a caller that gives up needs one in front of it and one behind. Four grants
  are twice the quota of the instance. `Quota` is 2 in the instance and 5 or 50 in reality;
  `RequestsApart` and `WindowQuota` are theorems for every interval, quota and lateness.
- *nvdfetch*: the cap is smaller than the largest entity, the limit of results smaller than the
  longest list, and the page smaller than the limit, so each of them cuts a walk short. The
  entities include repeated products, shared CVEs, malformed names, the empty list, and the
  same CPEs in two orders, which are two fingerprints. The theorems cover every dictionary,
  every cap and every page size.
- *sectioncache*: a section goes stale (TTL 2) and is overwritten late (write timeout 1) within
  the clock's four ticks; three runs are a writer, a late writer and a reader. The theorems
  cover every number of runs and every TTL.
- *runner*: the clock's four ticks let a mapping be resolved, cached, served, expire and, if it
  were written back, be served too late (the mutant `MayRecordCached` needs 14 steps to be
  caught). The theorems cover every number of runs and every timeout.
- *resolver*: both caps (2 candidates, 1 product) are smaller than what the replies and the
  selections hold, and the vendors include one whose list the service narrows, one its keyword
  finds nothing of and whose list holds a wildcard, one that fits on a page, and two NVD does not
  know, which use up the cap on candidates. The theorems cover every
  dictionary, every reply and every cap.
- *lookups*: a package is named twice, packages share an advisory and have fewer pages than the
  cap, as many and more;
  names collide, normalize to nothing and outnumber their cap; the listing is above and below
  its floor; the search finds the domain first, later and not at all; the series comes in
  both orders and not at all.
- *checklist*: two free claims are the fewest of which one keeps the checklist from being empty
  while the other is dropped; the citations of one claim reach the cap, cite a page twice and
  cite one nobody returned; the lists are as long as the cap and one longer. There is no reply
  without the two three-valued questions, as the schema requires them.
- *server*: two streams are a first attempt and its reconnect, or two tabs at a time; five
  events against a window of two make a handler block. The safety theorems cover every number.

Deadlock is checked in every run. `FanOut`, `RateLimiter`, `NVDFetch`, `Resolver`, `Lookups`,
`Checklist` and `Server` end, and say so with a `Finished` or `Quiet` step that is enabled only
where the program may stop.

### Properties

The comment on each property names the behaviour and the lines. The ones that took most care:

- `DeliveredAnswersAreKept` fails if the drain is left out, though every unit test of the
  package that does not race the deadline still passes.
- `RequestsApart` speaks of the n-th request behind another, so that it cannot be met by
  spacing neighbours only; `NoNeedlessDelay` is its counterpart: a limiter that never lets
  anything through would satisfy the first.
- `NothingIsForgotten` compares queries and unqueried CPEs with the entity, whatever ended the
  walk and whichever run it was: a fingerprint that forgot the order of the CPEs breaks it.
- `EachCVEOnceInOrder` says which CVEs an answer holds by what NVD lists, not by how the pages
  came, so that a gap between two short pages shows.
- `AnswersAreTheRuns` bounds the age of an answer by the TTL *and one write*: `fetched_at` is
  the time of the write, the answer is older. The bound without the write is false.
- `LittleIsLost` says what is true of overlapping runs: the last write wins, and the section it
  replaces can be newer, but by no more than `cacheWriteTimeout`.
- `KeepsItsPromise` compares the resolved CPEs with the registry itself, not with the page the
  code looked at: what is called checked is registered under its own vendor and part.
- `ReportIsHonest` relates the report to what the sources did: named sources in their order,
  the others by registration, and none that broke passing for one that answered.
- `ResolverTypeOK` bounds the requests by one page per candidate and *one* narrowed page, not
  two per candidate: a vendor that needs a second page has rows, so the walk ends with it.
- `AnswersAreWhole` recomputes what OSV and the breach list have on a vendor from their pages
  and demands it of the answer; `MatchesAreDisclosed` does so for the listing and the rating, and
  asks for the alias of every match that is not the canonical name's, but in the case section 5
  describes.
- `ClaimsAreAccounted` is about two modules at once: a claim the search supports must be printed
  with pages that it cites and the search returned, and any other must be named as dropped, or be
  among the notes the error of an empty checklist counts. It names its two exceptions, which are
  section 5's: a location without a place, and a yes beside nothing else.
- `PinnedIsVouchedFor` compares the row with the histories of the run that wrote it. It fails if a
  hit is not noted as one, if an analyst's CPEs decide the verdict, and if an invented mapping is
  written, and it says when CPEs no dictionary vouches for are pinned all the same.
- `NothingIsLostSilently` follows every CPE the model named to the end, and asks of a note about
  an unknown vendor whether NVD knows that vendor. Its exceptions are the code's: a registered
  wildcard and a vendor the cap on candidates kept from being looked up.
- `HandlersEnd` allows for the one handler that may hang: its connection stands, is full, and
  nobody reads. A browser that left does not keep a handler.
- `MappingsExpire` is about several runs: it fails if a mapping that was read from the cache is
  written back, which no single run can notice.

### Fairness

- `FanOut`: weak fairness of the collector, of each goroutine's send and of the end of the
  context. The first two are the Go scheduler; the third is the total timeout, which
  `Config.Validate` requires to be positive. Nothing is assumed of a source's `Fetch`.
- `RateLimiter`: time passes and a due timer fires. No caller is made to arrive or to give up.
- `NVDFetch`: every request is answered or ended (the source runs under a per-source timeout
  that `Config.Validate` requires). Running out of time and failing are not assumed, so
  `WalkEnds` must hold of answers alone.
- `CachedNVD`: the same of the run under way; nobody is made to start another.
- `Lookups`: every request ends, answered or not (each client has a timeout and each source a
  deadline). The abstract `Lookup` promises no more than that a source whose lookups are
  answered concludes.
- `Server`: each handler moves on when it can (the scheduler; the assessment's own budget ends
  it), a lost connection is noticed (the transport), and `Shutdown` returns when no handler runs
  or the grace period is over. Nobody is made to read, to connect or to send a signal.
- `SectionCache`, `Runner`, `Resolver` and `Checklist` state safety only and assume no fairness.

## 4. What is proved

TLAPS checks these for every value of the constants, under the assumptions named in the modules.

| theorem | property |
| --- | --- |
| `FanOutProofs!TypeCorrect` | `TypeOK` |
| `FanOutProofs!ExactlyOneSection` | `EverySourceOnce` |
| `FanOutProofs!SendsNeverBlock` | `RoomForEverySend` |
| `FanOutProofs!AnswersInTimeAreKept` | `DeliveredAnswersAreKept` |
| `FanOutProofs!ReportTellsTheTruth` | `ReportIsHonest` |
| `FanOutProofs!FanOutRefinesAssessment` | the safety part of `ImplementsAssessment` |
| `NVDProofs!LimiterTypeCorrect` | `LimiterTypeOK` |
| `NVDProofs!Spacing` | `RequestsApart` |
| `NVDProofs!Promptness` | `NoNeedlessDelay` |
| `NVDProofs!QuotaIsKept` | `WindowQuota` |
| `SectionCacheProofs!TypeCorrect` | `TypeOK` |
| `SectionCacheProofs!AnswersAreSound` | `AnswersAreTheRuns` |
| `SectionCacheProofs!FailuresAreNotKept` | `OnlySuccessIsKept` |
| `SectionCacheProofs!AnalystHasTheLastWord` | `LastWordStands` |
| `SectionCacheProofs!LateWritesLoseLittle` | `LittleIsLost` |
| `ServerProofs!TypeCorrect` | `TypeOK` |
| `ServerProofs!ReconnectsAreFailures` | `OnlyFailuresReconnect` |
| `ServerProofs!CleanStops` | `CleanStopDelivers` |
| `ResolutionProofs!TypeCorrect` | `TypeOK` |
| `ResolutionProofs!OnlyVouchedForIsPinned` | `PinnedIsVouchedFor` |
| `ResolutionProofs!RowsAreDated` | `TableInv` |
| `ResolutionProofs!MappingsDoExpire` | `MappingsExpire` |
| `NVDProofs!TypeCorrect` | `CachedTypeOK` |
| `NVDProofs!PartialAnswersAreWhole` | `NothingIsForgotten` |
| `NVDProofs!ZerosMeanSomething` | `ZerosAreExplained` |
| `NVDProofs!VerdictIsRight` | `VerdictMatchesSection` |
| `NVDProofs!CVEsAreWhole` | `EachCVEOnceInOrder` |
| `ResolutionProofs!ResolverTypeCorrect` | `ResolverTypeOK` |
| `ResolutionProofs!PromiseIsKept` | `KeepsItsPromise` |
| `ResolutionProofs!EveryCPEIsAccounted` | `NothingIsLostSilently` |
| `LookupsProofs!TypeCorrect` | `TypeOK` |
| `LookupsProofs!AnswersAreComplete` | `AnswersAreWhole` |
| `LookupsProofs!MatchesAreToldOf` | `MatchesAreDisclosed` |
| `LookupsProofs!LookupsRefineLookup` | the safety part of `ImplementsLookup` |
| `ChecklistProofs!TypeCorrect` | `TypeOK` |
| `ChecklistProofs!ClaimsAreCited` | `FindingsAreCited` |
| `ChecklistProofs!ReportsAreWhole` | `ReportIsWhole` |
| `ChecklistProofs!NoClaimIsLost` | `ClaimsAreAccounted` |

The arguments:

- **Ordering.** In a strict total order, what comes before one element is a proper part of what
  comes before a later one, so the numbers of predecessors differ; a finite set has as many
  such numbers as elements, so each is taken (`EveryRankIsTaken`). A sort is therefore a
  permutation in order, and a filter keeps its elements, all of them and in their order. No
  induction over the data is needed. A loop that appends pieces is `FlattenSeq`, a recursive
  function of the community modules. What it returns is said by places: piece `i` ends where
  the lengths up to it add up (`FlattenPlaces`), so every element of the result has its piece
  and its place there. That takes one induction over the number of pieces, in the form of sets:
  a set of numbers that holds 0 and every successor is `Nat` (`SetInduction`), which has no
  operator parameter to instantiate.
- **Fan-out.** None of the properties is inductive: that there are `N` results at the end says
  nothing about a half-full channel. The invariant is the collector's bookkeeping. A goroutine
  that has sent is in the channel or in `reported`, never both (`ChannelInv`); the results are
  those of `reported` and of the indexes the expiry loop has passed (`CollectorInv`); once the
  loop runs the context is over and every source that had sent in time is reported
  (`ExpiryInv`). That the channel has room is then counting: its entries belong to different
  sources, none of them the one that still has to send. For the report `HonestyInv` adds whose
  a section is, that a source that broke made a failed one, that the expiry loop writes a
  section of its own for whoever is not reported, and that what `Run` returns is the results
  in order; `OrderSectionsProperties` says what that order is. The refinement has one step per
  action: sending and expiring contribute, returning delivers, the rest changes nothing
  the abstract specification sees.
- **Rate limiter.** Slots are at least one interval apart, counted in places, and `last` is the
  latest of them (`SlotsInv`, `LastInv`); the clock never passes a sleeping caller's slot by more
  than `Lateness`, so a request leaves in its own slot or that much after it (`TimerInv`, and with
  it `LimiterTypeOK`). A
  caller that gives up changes neither, which is why its slot must not be handed back. That a
  slot is late only by the gap needs `last` to be the latest slot and nothing later (`GapInv`).
  The quota is counting: no grant lets two requests out (`OnceInv`), and the grants of
  the requests in a window are less than `Quota` places apart.
- **Section cache.** A row no analyst wrote holds an OK section whose date is its write's, at
  most `WriteTimeout` after the section was obtained (`RowOK`), because a run that records is
  inside its write's timeout (`Recording`). The age of an answer follows from the row's date
  and the TTL. No statement removes a manual row except the one that replaces it. Nothing in
  the proof uses that `Source` is not a manual name.
- **Runner.** A run works only inside its budget, and a mapping it resolved is dated after the
  budget began: `due` is at most `Total` after the mapping while the fan-out runs and
  `WriteTimeout` more while it writes (`Seeking`, `Fanning`, `Recording`). So a row is dated at
  most so much after its mapping (`RowOK`), and as a hit is never written back, the mapping a hit
  serves is no older than that and the TTL. `Vouching` ties a run's own histories together: a run
  past its resolution that read no row holds the mapping it resolved, what was queried are the
  CPEs it gave NVD, the verdict is what these say, and a mapping called checked has registered
  CPEs only.
- **NVD source.** The walk is behind a position of the match strings: the queries are the strings
  before it and each says what NVD knows (`QueriesOK`), the CVEs are a beginning of what NVD lists
  for each of them and none twice (`CVEsOK`), and `RequestInv` says the same of the pages of the
  CPE under way. A result that `Fetch` returns is a whole one: the rest is listed and the CVEs are
  sorted (`ResultOK`). A row is such a result of the match strings of its own CPEs (`CacheInv`),
  and equal fingerprints are equal CPEs; so an answer from the cache is as whole as one that was
  walked for.
- **Resolver.** Requests made and vendors left to try add up to no more than the cap, plus one
  once a request was narrowed (`CallInv`). Every CPE the model named is in hand or in a note,
  and until NVD has spoken all of them are in hand (`AccountInv`). A catalogue in hand lists
  registered products of its vendor only, so that what is confirmed from it or selected from it
  is registered (`OriginInv`). The vendors found unknown are vendors NVD has nothing on, and with
  those left to try they are all the candidates (`WalkInv`), so that a vendor that was not looked
  up at the end of the walk means the cap was reached (`RightlyUnknown`).
- **Lookups.** Each source keeps an account of the lookups behind it, and answers only when
  none is left, so that the account is then of all of them. OSV's rows are the advisories of the
  packages read so far, each once, under the first package it affects, and the pages of the
  package under way are what OSV has up to there (`OSVInv`). The breach list's rows hold every
  report listed for the names asked so far (`CAAGInv`). FedRAMP's rows and BitSight's
  company and rating are what one answer makes of them (`FedRAMPInv`, `BitSightInv`), and a
  status is only what the lookups behind it allow (`OutcomeInv`). The sort by severity
  is a permutation by `Ordering`. The refinement goes by action: an answer that leaves another
  page or name is progress, the last one concludes, a request that fails fails the source.
- **Research.** `ResearchInv` says that the checklist is nothing yet or `ParseResearch` of some
  reply and search, so that the rest is about operators: the citations kept are results of
  different pages the claim cited (`FindingIs`), an entry is kept exactly if the search supports
  it and its answer is one its question asks for, and noted if not (`FoundIs`), and the checklist
  and the notes are these pieces joined (`ParsedIs`). A label names one claim, so a yes and the
  claim it stands on are the same entry's.
- **Report.** Until a line fails, what was printed and what is to be are together the content
  of the assembled sections, and afterwards nothing is to be (`ReportInv`). A report that counts
  as written is therefore its content; where each section begins and which of its lines are
  rows follows from the lengths of the sections before it (`HeadingsAre`, `RowsAre`), and the
  summary's counts from headings and sections being one to one. `NoClaimIsLost` joins the two
  halves: the claim's entry is a piece of the checklist, its line a piece of the section. Of an
  empty checklist no finding is left but evidence for a yes (`OnlyTris`), and if the error
  holds no note back every note is printed (`FailureIs`).
- **Server.** That a finished stream has its report on the wire is not inductive: a second
  listener could have read it, the server could have given the connection up, or a kill could
  pass for an end. The invariant says that an open tab's stream is open on the server's side
  too and no other tab's (`ListenInv`), that a handler past its report leaves the report on the
  wire of whoever still listens, since reading it ends the listening (`ReportInv`), and that
  nothing is killed before a process that is cut off or fails (`StopInv`).

Assumptions:

- `NAssumption` and `PositionAssumption`: any number of sources, any naming of them.
- `LimiterAssumption`: the times, the quota and the bounds are natural numbers.
- `CacheAssumption`: a cached source has a positive TTL (`Caching` returns it unwrapped
  otherwise). `EntriesAssumption`: the value that stands for no entry is none.
- `ServerAssumption`: a connection holds at least one event.
- `RunnerAssumption`: natural times, any CPEs, dictionary and requests.
- `NVDAssumption`: the caps and the page are positive, as the constants of nvd.go are; what NVD
  lists for a CPE is a sequence without repetition; a product it has CVEs for is in its
  dictionary, which the code assumes too (nvd.go:196); the value that stands for a malformed name
  is no CPE.
- `ResolverAssumption`: the caps and the page are positive; vendors, CPEs and malformed
  names are told apart; wildcards are products, and a reply's CPEs have none, since
  `normalizeCPE` has been over them (one it rejects is `Malformed`).
- `LookupsAssumption`: the caps are positive, as in osv.go and caag.go; a response is a
  well-formed list, since one that is not is `RequestFails`; a company has a GUID
  (bitsight.go:274). `MaxLookups` bounds the lookups of one `Fetch` for the abstract
  specification's set of keys: no fewer than the cap on names, BitSight's two requests and an
  entity's packages.
- `ResearchAssumption`: the cap on citations is positive; nothing is no page
  (`normalizeCitationURL("")`); a reply names each entry by its place in the checklist, as
  `parseResearch` does, and carries the kinds of claims the schema has.
- `ReportAssumption`: `DetailCap` is a natural number. `ChecklistAssumption`: the other sections
  have one of the three statuses, and lines of their own kinds.

Three theorems state what no run checks: `FailuresAreNotKept`, whose property is part of what
`AnswersAreTheRuns` is for, `QuotaIsKept`, which is what `RequestsApart` comes to for a window,
and `RowsAreDated`, which `MappingsDoExpire` rests on.

Only model-checked is liveness, which is out of the prover's reach: `GoroutinesExit`,
`EveryWaitEnds`, `WalkEnds`, `HandlersEnd`, `StopsWhenTold` and the fairness in
`ImplementsAssessment` and `ImplementsLookup`. Every invariant and every action property of a
passing run is a theorem. So, for all values of the constants, is the safety part of both
refinements. The properties of the runs that end in a violation are what the code does not keep.

## 5. Where the code and its words differ

1. **A partial walk that says "none".** When the deadline or the cap ends the NVD walk and the
   CPEs queried so far are all unknown, the section fails with "none of the resolved CPEs exist
   in NVD's CPE dictionary" (nvd.go:642), although `Unqueried` names CPEs nobody asked about;
   one of them may exist (run `nvd_none_exist`).
2. **The grace period grants nothing.** The signal context is the base context of every request
   (cmd/vrmd/main.go:107), so a signal cancels the running assessments that the 30 seconds of
   `shutdownGrace` (main.go:26-29) are meant for; what the grace leaves them is the time to
   write out what they have (run `server_grace`).
3. **A yes that goes without a word.** `Fetch` fails a checklist of which `Answered` counts
   nothing, and `Answered` leaves out the questions about Kaspersky and MOVEit. A cited yes to one
   of them is then gone: the section has no data, and the error lists what was dropped, which
   the yes was not (research.go:140-156, 366-376; run `research_yes_lost`).
   research_parse.go:71 says that nothing disappears silently.

Six more are stated in the modules as properties that TLC refutes when one is put into the
cfg of its module's run; they have no run of their own. Four of them are what a checked property
makes an exception for.

- *Unchecked mappings are cached* (`Runner!UncheckedIsNotPinned`). The comment on `groundCPEs`
  (resolve_cpe.go:81-83) and a test's (resolve_cpe_test.go:264-266) say the resolution cache
  declines to pin CPEs a dictionary out of reach let through. `recordResolution` declines only
  on a verdict of "invented"; without a verdict it writes, as its own comment says.
  `PinnedIsVouchedFor` says that this is the only way in which CPEs none of which is registered
  are pinned.
- *"Not registered" of what was not seen* (`Resolver!UnregisteredIsUnregistered`). A proposed CPE
  that is not on the page in hand is dropped as "not registered under" its vendor
  (resolve_cpe.go:111, 245), also when the page is narrowed by the service or is only the first
  of several. nvd.go:71-72 warns that such a list is a sample, and `selectionOrigin` says so of
  the selection; the notes do not.
- *"Unknown to NVD" of what was not asked* (`Resolver!VendorUnknownIsUnknown`). When every
  candidate vendor is unknown, all proposed CPEs are dropped because "its vendor is unknown to
  NVD" (resolve_cpe.go:187-189), also one whose vendor the cap of two kept from being looked up.
  `NothingIsLostSilently` allows for it only then.
- *A match by an alias that is not told* (`Lookups!AliasesAreNamed`). `MatchedAlias` names the
  match if it was not the canonical name (fedramp.go:76, 265-266). If normalization leaves nothing
  of the canonical name - a name in a script without Latin letters - `vendorNames` leaves it out,
  the first alias takes its place, and a match by that alias is not disclosed
  (fedramp.go:266-269). `OfferingsAreTheVendors` makes that one exception.
- *A location that goes without a word* (`Checklist!EveryLocationIsReported`). A cited location
  with neither city nor country is kept and counts as answered, and prints nothing
  (report.go:592-598), against report.go:572-575: "a silently missing answer is indistinguishable
  from a question nobody asked". `ClaimsAreAccounted` makes an exception for it.
- *Two assessments on one page* (`Server!SectionsAreTheEntitys`). A dropped stream is opened again
  as a new assessment, and its sections are appended below the entity and the sections of the
  first, until its report replaces them all (stream.html:16-18). run.go:172-173 says that every
  section below the entity is derived from it.

The rest was read off the code while it was modelled and has no run.

- When resolution fails the command line suggests `--domain` to "skip resolution"
  (cmd/vrm/main.go:165), but `Runner.Run` resolves before it looks at the domain
  (run.go:148-167).
- A product that `normalizeCPE` rejects - NVD registers "-" for some vendors - is chosen, offered
  and then left out without a note (resolve_cpe.go:141-145). `NothingIsLostSilently` names it.
- An NVD section cut short by its deadline is OK, so it is kept for the source's TTL and the rest
  stays unqueried for as long; cache.go:74-79 keeps failures out because they "would pin an
  upstream blip". `CachedNVD` shows that such a section says what it is missing.
- When every name of a vendor normalizes to nothing - a name in a script without Latin letters -
  `vendorNames` is empty, and the breach list, asked about no name, answers OK with no entry
  (caag.go:105-140), as FedRAMP does.
- The breach list's cap on names is silent (caag.go:110-113): only the list of the names that were
  searched tells. `AnswersAreWhole` asks for the names up to the cap.
- The renderer slices the first ten bytes of a CVE's date (report.go:465) and panics on a
  shorter one.

## 6. What is not modelled

- JSON and HTML parsing beyond what makes a response unusable, templates, flags, logging and
  wording: no state, no order. `normalizeVendorName` and `normalizeCitationURL` are constants.
- The severity counts of NVD and OSV, which are taken over the lists the models have.
- The report's entity and configuration blocks, printed unconditionally, and the web templates,
  which render the same rows (`Rows`, `Summarize`) the terminal does.
- The Messages API, NVD's service, Postgres and the Go runtime are environment: the API may
  propose anything, NVD may answer briefly or not at all, a statement is atomic, goroutines and
  timers are scheduled fairly.
- A section with an error *and* status OK would be cached and reported as failed
  (cache.go:97-101, assess.go:299); no source of the repository returns one, so `SectionCache`
  has no such answer.
- Other companies and services: rows of different keys never meet, given `NormalizeKey`.
- The clock is the database's in `SectionCache` and `Runner`; that the application's may differ
  is why store.go compares in SQL, and no application time enters a comparison.
- A `RunOne` section's data, citations and notes; the observer's panic (`notify` contains it and
  nothing depends on its result).

## 7. Plan

In this order; what is most likely to hide a mistake first.

| step | module | what it adds |
| --- | --- | --- |
| 1 | `Migrations` | `Migrate` in two processes that start together: no lock is taken between `isApplied` and `apply` (store.go:103-119), so one of them may fail on the other's row |
| 2 | `Settings` | `Validate` and `TTL`, the rule that automated and manual names are disjoint |
| 3 | - | `NVDFetch` and `Resolver` behind one `RateLimiter`, with the deadline in its queue |

No theorem is planned beyond those of these modules: what the passing runs check and is not
liveness is proved.

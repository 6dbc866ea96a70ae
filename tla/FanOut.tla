------------------------------- MODULE FanOut -------------------------------
(***************************************************************************)
(* The concurrent heart of an assessment: Assessor.Run and its fan-out     *)
(* (internal/assess/assess.go).  One goroutine per source runs the source  *)
(* and sends one result on a buffered channel; the collector - the         *)
(* goroutine that called Run - receives them until it has one per source   *)
(* or the assessment's context ends, drains what has already arrived,      *)
(* writes the rest off as expired and returns the report.                  *)
(*                                                                         *)
(* A source is its registration index.  A section is abstracted to what    *)
(* tells two apart here: whose it is, its status, whether it came from the *)
(* cache, and whether the budget's expiry made it rather than the source.  *)
(***************************************************************************)
EXTENDS SectionOrder

CONSTANTS
  N,          \* number of registered sources (len(a.sources))
  Position,   \* Position[i]: where source i's name stands in SectionOrder, 0 if nowhere
  NumNamed    \* number of names in SectionOrder

ASSUME NAssumption == N \in Nat
ASSUME PositionAssumption ==
  /\ NumNamed \in Nat
  /\ Position \in [1..N -> 0..NumNamed]

Sources == 1..N
Status == {"ok", "failed", "skipped"}

Section == [source : Sources, status : Status, cached : BOOLEAN, expired : BOOLEAN]
Result == [index : Sources, section : Section]

Failed(i) == [source |-> i, status |-> "failed", cached |-> FALSE, expired |-> FALSE]

\* What a call of a source's Fetch can come to.  Only a successful section is
\* ever served from the cache, and a cache hit returns no error.
Outcome ==
  [panics : BOOLEAN, err : BOOLEAN, status : Status, cached : BOOLEAN]
Possible(o) ==
  /\ o.cached => o.status = "ok" /\ ~o.err /\ ~o.panics
  /\ o.panics => o.status = "failed" /\ ~o.err

\* runOne: a panic becomes a failed section, and so does an error whose section
\* was not marked failed; any other section is passed on as the source made it.
RunOne(i, o) ==
  IF o.panics \/ o.err
    THEN Failed(i)
    ELSE [source |-> i, status |-> o.status, cached |-> o.cached, expired |-> FALSE]

\* expired: a source the budget ran out on has failed, it was not skipped.
Expired(i) == [Failed(i) EXCEPT !.expired = TRUE]

None == [source |-> 0]      \* no section made yet
NoReport == <<>>            \* Run has not returned yet: the nil report

CapacityOneShort == N - 1   \* mutant of Capacity
Capacity == N               \* make(chan result, len(a.sources))

VARIABLES
  ctx,        \* "live", or "done" once the budget ended or the caller cancelled
  pc,         \* where the collector is
  cursor,     \* expireOutstanding's loop variable
  task,       \* the state of each source's goroutine
  made,       \* the section a goroutine's runOne returned
  pending,    \* the buffered channel
  results,    \* the results collected so far
  reported,   \* the indexes received from the channel
  observed,   \* the sections the observer was called with, in order
  report,     \* what Run returned
  inTime,     \* history: the sources that had sent when the context ended
  broken      \* history: the sources whose Fetch panicked or returned an error

vars == <<ctx, pc, cursor, task, made, pending, results, reported, observed,
          report, inTime, broken>>

collectorVars == <<pc, cursor, results, reported, observed, report>>
historyVars == <<inTime, broken>>

TypeOK ==
  /\ ctx \in {"live", "done"}
  /\ pc \in {"start", "collect", "drain", "expire", "order", "returned"}
  /\ cursor \in 1..(N + 1)
  /\ task \in [Sources -> {"idle", "running", "sending", "exited"}]
  /\ made \in [Sources -> Section \cup {None}]
  /\ pending \in Seq(Result)
  /\ results \in Seq(Result)
  /\ reported \subseteq Sources
  /\ observed \in Seq(Section)
  /\ inTime \subseteq Sources
  /\ broken \subseteq Sources

Init ==
  /\ ctx \in {"live", "done"}
  /\ pc = "start"
  /\ cursor = 1
  /\ task = [i \in Sources |-> "idle"]
  /\ made = [i \in Sources |-> None]
  /\ pending = <<>>
  /\ results = <<>>
  /\ reported = {}
  /\ observed = <<>>
  /\ report = NoReport
  /\ inTime = {}
  /\ broken = {}

-----------------------------------------------------------------------------
(* The context and the sources' goroutines. *)

\* The total budget runs out, or whoever asked for the assessment goes away.
EndContext ==
  /\ ctx = "live"
  /\ ctx' = "done"
  /\ inTime' = {i \in Sources : task[i] = "exited"}
  /\ UNCHANGED <<collectorVars, task, made, pending, broken>>

\* A source's Fetch returns.  It may do so at any time - with its own timeout,
\* long after the context ended, or never: a source can ignore its context.
FinishFetch(i) ==
  /\ task[i] = "running"
  /\ \E o \in Outcome :
        /\ Possible(o)
        /\ made' = [made EXCEPT ![i] = RunOne(i, o)]
        /\ broken' = IF o.panics \/ o.err THEN broken \cup {i} ELSE broken
  /\ task' = [task EXCEPT ![i] = "sending"]
  /\ UNCHANGED <<ctx, collectorVars, pending, inTime>>

\* The goroutine's send, which blocks while the channel is full, and its exit.
Send(i) ==
  /\ task[i] = "sending"
  /\ Len(pending) < Capacity
  /\ pending' = Append(pending, [index |-> i, section |-> made[i]])
  /\ task' = [task EXCEPT ![i] = "exited"]
  /\ UNCHANGED <<ctx, collectorVars, made, historyVars>>

-----------------------------------------------------------------------------
(* The collector. *)

\* Record one result and hand its section to the observer.
Accept(r) ==
  /\ results' = Append(results, r)
  /\ observed' = Append(observed, r.section)

\* A context that is already over: expire every source and start none.
StartExpired ==
  /\ pc = "start"
  /\ ctx = "done"
  /\ pc' = "expire"
  /\ UNCHANGED <<ctx, cursor, task, made, pending, results, reported, observed,
                 report, historyVars>>

Launch ==
  /\ pc = "start"
  /\ ctx = "live"
  /\ task' = [i \in Sources |-> "running"]
  /\ pc' = "collect"
  /\ UNCHANGED <<ctx, cursor, made, pending, results, reported, observed,
                 report, historyVars>>

\* The receive case of both selects, in the collecting loop and in the drain.
Receive ==
  /\ \/ pc = "collect" /\ Len(results) < N
     \/ pc = "drain"
  /\ pending # <<>>
  /\ pending' = Tail(pending)
  /\ reported' = reported \cup {Head(pending).index}
  /\ Accept(Head(pending))
  /\ UNCHANGED <<ctx, pc, cursor, task, made, report, historyVars>>

\* The loop has run once per source.
AllCollected ==
  /\ pc = "collect"
  /\ Len(results) = N
  /\ pc' = "order"
  /\ UNCHANGED <<ctx, cursor, task, made, pending, results, reported, observed,
                 report, historyVars>>

\* Mutant of StopWaiting: no drain, what has arrived is written off.
StopWithoutDrain ==
  /\ pc = "collect"
  /\ Len(results) < N
  /\ ctx = "done"
  /\ pc' = "expire"
  /\ UNCHANGED <<ctx, cursor, task, made, pending, results, reported, observed,
                 report, historyVars>>

\* The ctx.Done case: stop waiting, but take what has already arrived first.
StopWaiting ==
  /\ pc = "collect"
  /\ Len(results) < N
  /\ ctx = "done"
  /\ pc' = "drain"
  /\ UNCHANGED <<ctx, cursor, task, made, pending, results, reported, observed,
                 report, historyVars>>

EndDrain ==
  /\ pc = "drain"
  /\ pending = <<>>
  /\ pc' = "expire"
  /\ UNCHANGED <<ctx, cursor, task, made, pending, results, reported, observed,
                 report, historyVars>>

\* Mutants of ExpireOne: the loop runs one turn too many, expires sources that
\* have reported, or leaves the observer out.
ExpireOneTooFar ==
  /\ pc = "expire"
  /\ cursor \in 1..(N + 1)
  /\ IF cursor \in reported
       THEN UNCHANGED <<results, observed>>
       ELSE Accept([index |-> cursor, section |-> Expired(cursor)])
  /\ cursor' = cursor + 1
  /\ UNCHANGED <<ctx, pc, task, made, pending, reported, report, historyVars>>

ExpireOneAlways ==
  /\ pc = "expire"
  /\ cursor \in Sources
  /\ Accept([index |-> cursor, section |-> Expired(cursor)])
  /\ cursor' = cursor + 1
  /\ UNCHANGED <<ctx, pc, task, made, pending, reported, report, historyVars>>

ExpireOneSilently ==
  /\ pc = "expire"
  /\ cursor \in Sources
  /\ results' = IF cursor \in reported
                  THEN results
                  ELSE Append(results, [index |-> cursor, section |-> Expired(cursor)])
  /\ cursor' = cursor + 1
  /\ UNCHANGED <<ctx, pc, task, made, pending, reported, observed, report,
                 historyVars>>

\* One turn of expireOutstanding's loop over the registered sources.
ExpireOne ==
  /\ pc = "expire"
  /\ cursor \in Sources
  /\ IF cursor \in reported
       THEN UNCHANGED <<results, observed>>
       ELSE Accept([index |-> cursor, section |-> Expired(cursor)])
  /\ cursor' = cursor + 1
  /\ UNCHANGED <<ctx, pc, task, made, pending, reported, report, historyVars>>

EndExpire ==
  /\ pc = "expire"
  /\ cursor = N + 1
  /\ pc' = "order"
  /\ UNCHANGED <<ctx, cursor, task, made, pending, results, reported, observed,
                 report, historyVars>>

\* Run orders the sections, folds their cached flags into the report's map and
\* returns.  (\E rather than LET: TLC then sorts once.)
Return ==
  /\ pc = "order"
  /\ pc' = "returned"
  /\ \E sections \in {OrderSections(results, Position, NumNamed)} :
       report' = [sections |-> sections,
                  cached |-> {sections[k].source : k \in {j \in DOMAIN sections :
                                                            sections[j].cached}}]
  /\ UNCHANGED <<ctx, cursor, task, made, pending, results, reported, observed,
                 historyVars>>

Collector ==
  \/ StartExpired \/ Launch \/ Receive \/ AllCollected \/ StopWaiting
  \/ EndDrain \/ ExpireOne \/ EndExpire \/ Return

\* The caller has its report; goroutines still inside Fetch may stay there.
Finished == pc = "returned" /\ UNCHANGED vars

Next ==
  \/ EndContext
  \/ \E i \in Sources : FinishFetch(i) \/ Send(i)
  \/ Collector
  \/ Finished

\* The runtime schedules the collector and every goroutine that is not inside
\* Fetch, and the total timeout, which config.go requires to be positive, ends
\* the context.  Nothing makes a source's Fetch return.
Fairness ==
  /\ WF_vars(Collector)
  /\ WF_vars(EndContext)
  /\ \A i \in Sources : WF_vars(Send(i))

Spec == Init /\ [][Next]_vars /\ Fairness

-----------------------------------------------------------------------------
(* Properties. *)

\* Every registered source is in what fanOut collected, once: whatever mix of
\* answers, panics, hangs and expiry the run saw, when the collector is done the
\* results are one per source (assess.go:139-142, 228-238).
EverySourceOnce ==
  pc \in {"order", "returned"} =>
    /\ Len(results) = N
    /\ \A i \in Sources : \E k \in 1..Len(results) : results[k].index = i

\* A goroutine that still has its result to send finds room for it, also long
\* after the collector stopped receiving: the buffer is what keeps an abandoned
\* source from leaking its goroutine (assess.go:166-171).
RoomForEverySend ==
  \A i \in Sources : task[i] \in {"running", "sending"} => Len(pending) < Capacity

\* An answer that was in the channel when the context ended is in the report as
\* that answer: which ready case select happened to pick must not turn it into an
\* expired section (assess.go:207-210).
DeliveredAnswersAreKept ==
  \A k \in 1..Len(results) :
    LET r == results[k] IN r.index \in inTime => r.section = made[r.index]

\* What reaches the reader is honest whatever order the results arrived in: the
\* sections are one per source in the documented order - named sources by
\* SectionOrder, then the rest, each by registration - and a source that returned
\* an error or panicked stands as failed, even when it also handed back a section
\* it called ok or skipped, and never as served from the cache
\* (assess.go:153-160, 283-303, 310-314).
Precedes(i, j) ==
  \/ Position[i] # 0 /\ Position[j] = 0
  \/ Position[i] # 0 /\ Position[j] # 0 /\ Position[i] < Position[j]
  \/ Position[i] = Position[j] /\ i < j
ReportIsHonest ==
  pc = "returned" =>
    /\ Len(report.sections) = N
    /\ \A j, k \in 1..N :
         j < k => Precedes(report.sections[j].source, report.sections[k].source)
    /\ \A k \in 1..N :
         LET s == report.sections[k] IN
           s.source \in broken => s.status = "failed" /\ s.source \notin report.cached

\* Every goroutine whose Fetch has returned exits, whether or not anybody is
\* still receiving (assess.go:166-171).
GoroutinesExit ==
  \A i \in Sources : (task[i] = "sending") ~> (task[i] = "exited")

\* The fan-out keeps the promise module Assessment states, its liveness
\* included: the report is delivered even if some source never returns.
AnswerOf(i) ==
  LET mine == {k \in 1..Len(results) : results[k].index = i}
  IN IF mine = {} THEN None ELSE results[CHOOSE k \in mine : TRUE].section
TimesTold(i) == Cardinality({k \in 1..Len(observed) : observed[k].source = i})

Promise == INSTANCE Assessment
  WITH Source    <- Sources,
       Section   <- Section,
       NoAnswer  <- None,
       answer    <- [i \in Sources |-> AnswerOf(i)],
       told      <- [i \in Sources |-> TimesTold(i)],
       delivered <- (pc = "returned")

ImplementsAssessment == Promise!Spec

=============================================================================

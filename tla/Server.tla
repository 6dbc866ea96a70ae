------------------------------- MODULE Server -------------------------------
(***************************************************************************)
(* The web server (internal/web, cmd/vrmd) and the browsers in front of    *)
(* it.  A posted form gets a shell, the shell opens an event stream, and   *)
(* the stream's handler runs one assessment and writes it out as it        *)
(* arrives.  Connections break, browsers reconnect, and a signal stops the *)
(* process while handlers run.                                             *)
(*                                                                         *)
(* The assessment behind a stream is what module Assessment promises: it   *)
(* fails before the entity, or every source contributes one section.       *)
(* Browsers, net/http and TCP are external.  There is no clock: the grace  *)
(* period, the browser's retry delay and the assessment's budget end some  *)
(* time.                                                                   *)
(***************************************************************************)
EXTENDS Naturals, Sequences, FiniteSets

CONSTANTS
  Tabs,        \* browser tabs with the form
  Sources,     \* the registered sources
  Window,      \* events a connection holds before a write blocks
  MaxStreams   \* bound: streams opened in all

ASSUME ServerAssumption ==
  /\ Window \in Nat \ {0}
  /\ MaxStreams \in Nat

Streams == 1..MaxStreams
NoStream == 0

VARIABLES
  server,     \* vrmd's run: serving, draining in Shutdown, or how it ended
  opened,     \* streams opened so far
  handler,    \* where each stream's handler stands
  left,       \* its sources that have not contributed
  cancelled,  \* its request context is over
  up,         \* the server has not noticed its connection to be gone
  wire,       \* events on their way to the browser
  tab,        \* what each tab is doing
  current,    \* the stream it is connected to
  page        \* what it shows

vars == <<server, opened, handler, left, cancelled, up, wire, tab, current, page>>
handlerVars == <<handler, left, wire>>
tabVars == <<tab, current, page>>

Event == [type : {"entity", "report", "done"}] \cup [type : {"section"}, source : Sources]

\* A page shows the entity of one stream, sections with the stream each came from,
\* and at last the report of one.
Page == [entity : 0..MaxStreams, sections : SUBSET (Streams \X Sources), report : 0..MaxStreams]
BlankPage == [entity |-> NoStream, sections |-> {}, report |-> NoStream]

TypeOK ==
  /\ server \in {"serving", "draining", "stopped", "cut off", "failed"}
  /\ opened \in 0..MaxStreams
  /\ handler \in [Streams -> {"none", "resolve", "sources", "failed", "closing", "ended", "killed"}]
  /\ left \in [Streams -> SUBSET Sources]
  /\ cancelled \in [Streams -> BOOLEAN]
  /\ up \in [Streams -> BOOLEAN]
  /\ wire \in [Streams -> Seq(Event)]
  /\ \A k \in Streams : Len(wire[k]) <= Window
  /\ tab \in [Tabs -> {"form", "connecting", "open", "settled"}]
  /\ current \in [Tabs -> 0..MaxStreams]
  /\ page \in [Tabs -> Page]

Init ==
  /\ server = "serving"
  /\ opened = 0
  /\ handler = [k \in Streams |-> "none"]
  /\ left = [k \in Streams |-> {}]
  /\ cancelled = [k \in Streams |-> FALSE]
  /\ up = [k \in Streams |-> FALSE]
  /\ wire = [k \in Streams |-> <<>>]
  /\ tab = [t \in Tabs |-> "form"]
  /\ current = [t \in Tabs |-> NoStream]
  /\ page = [t \in Tabs |-> BlankPage]

Exited == server \in {"stopped", "cut off", "failed"}
Running(k) == handler[k] \in {"resolve", "sources", "failed", "closing"}

\* Some browser still listens to stream k.
Heard(k) == \E t \in Tabs : tab[t] = "open" /\ current[t] = k

-----------------------------------------------------------------------------
(* The form and the shell. *)

\* POST /assess: the form is good and its answer is the shell, or it is not and
\* the answer says why.  Either replaces what the page showed, and with it the
\* element an open stream belongs to: the browser closes that stream.
Post(t) ==
  /\ server = "serving"
  /\ opened < MaxStreams
  /\ \E next \in {"connecting", "form"} : tab' = [tab EXCEPT ![t] = next]
  /\ current' = [current EXCEPT ![t] = NoStream]
  /\ page' = [page EXCEPT ![t] = BlankPage]
  /\ UNCHANGED <<server, opened, handlerVars, cancelled, up>>

\* GET /assess/stream: a new assessment, whatever this tab was sent before.
Connect(t) ==
  /\ server = "serving"
  /\ tab[t] = "connecting"
  /\ opened < MaxStreams
  /\ opened' = opened + 1
  /\ handler' = [handler EXCEPT ![opened'] = "resolve"]
  /\ left' = [left EXCEPT ![opened'] = Sources]
  /\ up' = [up EXCEPT ![opened'] = TRUE]
  /\ tab' = [tab EXCEPT ![t] = "open"]
  /\ current' = [current EXCEPT ![t] = opened']
  /\ UNCHANGED <<server, cancelled, wire, page>>

-----------------------------------------------------------------------------
(* The handler. *)

\* Mutants of CanSend: a connection takes any number of events; a write to one that
\* is gone blocks like any other.
CanSendAlways(k) == TRUE
CanSendWithRoom(k) == up[k] /\ Len(wire[k]) < Window

\* A write blocks while the connection is full.  There is no write timeout.
CanSend(k) == ~up[k] \/ Len(wire[k]) < Window

\* eventWriter.send: what is written to a lost connection is lost, without an error.
Send(k, event) ==
  /\ CanSend(k)
  /\ wire' = IF up[k] THEN [wire EXCEPT ![k] = Append(@, event)] ELSE wire

Advance(k, to) == handler' = [handler EXCEPT ![k] = to]

\* OnResolved: the entity, before any section.
Resolved(k) ==
  /\ handler[k] = "resolve"
  /\ Send(k, [type |-> "entity"])
  /\ Advance(k, "sources")
  /\ UNCHANGED <<server, opened, left, cancelled, up, tabVars>>

\* Mutant of ResolutionFails: an assessment that failed has no report to send.
ResolutionFailsSilently(k) ==
  /\ handler[k] = "resolve"
  /\ Advance(k, "closing")
  /\ UNCHANGED <<server, opened, left, cancelled, up, wire, tabVars>>

\* Run returns an error: resolution failed, or the context ended under it.
ResolutionFails(k) ==
  /\ handler[k] = "resolve"
  /\ Advance(k, "failed")
  /\ UNCHANGED <<server, opened, left, cancelled, up, wire, tabVars>>

\* OnSection: the section of one source.  A source whose context is over
\* contributes that.
SectionLands(k) ==
  /\ handler[k] = "sources"
  /\ \E s \in left[k] :
       /\ Send(k, [type |-> "section", source |-> s])
       /\ left' = [left EXCEPT ![k] = @ \ {s}]
  /\ UNCHANGED <<server, opened, handler, cancelled, up, tabVars>>

\* Run has returned: the report is complete, or it is the error.
Report(k) ==
  /\ \/ handler[k] = "sources" /\ left[k] = {}
     \/ handler[k] = "failed"
  /\ Send(k, [type |-> "report"])
  /\ Advance(k, "closing")
  /\ UNCHANGED <<server, opened, left, cancelled, up, tabVars>>

\* The done event, and the handler returns.
Done(k) ==
  /\ handler[k] = "closing"
  /\ Send(k, [type |-> "done"])
  /\ Advance(k, "ended")
  /\ UNCHANGED <<server, opened, left, cancelled, up, tabVars>>

\* The server notices that a connection is gone, which ends the request's context.
Notice(k) ==
  /\ up[k]
  /\ ~Heard(k)
  /\ up' = [up EXCEPT ![k] = FALSE]
  /\ cancelled' = [cancelled EXCEPT ![k] = TRUE]
  /\ wire' = [wire EXCEPT ![k] = <<>>]
  /\ UNCHANGED <<server, opened, handler, left, tabVars>>

-----------------------------------------------------------------------------
(* The browser. *)

\* An event reaches its listener.  The entity replaces the element that listens
\* for it, which inherits the shell's outerHTML, so a later one finds no listener;
\* a section is put below those there are; the report replaces the whole shell,
\* which closes the stream; nothing listens for done.
Receive(t) ==
  /\ tab[t] = "open"
  /\ LET k == current[t]
     IN  /\ wire[k] # <<>>
         /\ wire' = [wire EXCEPT ![k] = Tail(@)]
         /\ LET e == Head(wire[k])
            IN  \/ /\ e.type = "entity"
                   /\ page' = [page EXCEPT ![t].entity = IF @ = NoStream THEN k ELSE @]
                   /\ UNCHANGED <<tab, current>>
                \/ /\ e.type = "section"
                   /\ page' = [page EXCEPT ![t].sections = @ \cup {<<k, e.source>>}]
                   /\ UNCHANGED <<tab, current>>
                \/ /\ e.type = "report"
                   /\ page' = [page EXCEPT ![t] = [BlankPage EXCEPT !.report = k]]
                   /\ tab' = [tab EXCEPT ![t] = "settled"]
                   /\ current' = [current EXCEPT ![t] = NoStream]
  /\ UNCHANGED <<server, opened, handler, left, cancelled, up>>

\* The connection is over for the browser: it breaks, or it ends with everything
\* read.  EventSource connects again after a while; the page stays as it is.
Reconnect(t) ==
  /\ tab' = [tab EXCEPT ![t] = "connecting"]
  /\ current' = [current EXCEPT ![t] = NoStream]
  /\ UNCHANGED <<server, opened, handlerVars, cancelled, up, page>>

Breaks(t) == tab[t] = "open" /\ Reconnect(t)

Ends(t) ==
  /\ tab[t] = "open"
  /\ wire[current[t]] = <<>>
  /\ handler[current[t]] \in {"ended", "killed"}
  /\ Reconnect(t)

-----------------------------------------------------------------------------
(* The process. *)

\* SIGINT or SIGTERM: the context it ends is the base of every request's.  The
\* listener closes and Shutdown waits for the handlers.
Signal ==
  /\ server = "serving"
  /\ server' = "draining"
  /\ cancelled' = [k \in Streams |-> cancelled[k] \/ Running(k)]
  /\ UNCHANGED <<opened, handlerVars, up, tabVars>>

\* The process is gone, and with it every handler.
Exit(how) ==
  /\ server' = how
  /\ handler' = [k \in Streams |-> IF Running(k) THEN "killed" ELSE handler[k]]
  /\ UNCHANGED <<opened, left, cancelled, up, wire, tabVars>>

\* Mutant of ShutdownReturns: the listener and every connection are closed at once.
ShutdownAtOnce == server = "draining" /\ Exit("stopped")

\* Shutdown: no handler runs any more.
ShutdownReturns ==
  /\ server = "draining"
  /\ \A k \in Streams : ~Running(k)
  /\ Exit("stopped")

\* Mutant of GraceEnds: Shutdown was given a context without a deadline.
GraceNeverEnds == FALSE /\ Exit("cut off")

\* Shutdown: shutdownGrace is over and handlers still run.
GraceEnds ==
  /\ server = "draining"
  /\ \E k \in Streams : Running(k)
  /\ Exit("cut off")

\* ListenAndServe returns an error, and so does run.
ListenFails == server = "serving" /\ Exit("failed")

\* Nobody is left to talk to.
Quiet == Exited /\ (\A t \in Tabs : tab[t] # "open") /\ UNCHANGED vars

Step(k) == Resolved(k) \/ ResolutionFails(k) \/ SectionLands(k) \/ Report(k) \/ Done(k)

Next ==
  \/ \E t \in Tabs : Post(t) \/ Connect(t) \/ Receive(t) \/ Breaks(t) \/ Ends(t)
  \/ \E k \in Streams :
       \/ Resolved(k) \/ ResolutionFails(k) \/ SectionLands(k)
       \/ Report(k) \/ Done(k) \/ Notice(k)
  \/ Signal \/ ShutdownReturns \/ GraceEnds \/ ListenFails
  \/ Quiet

\* An assessment ends because its budget does, a lost connection is noticed, the
\* grace period ends.  Nobody is made to read.
Fairness ==
  /\ \A k \in Streams : WF_vars(Step(k)) /\ WF_vars(Notice(k))
  /\ WF_vars(ShutdownReturns)
  /\ WF_vars(GraceEnds)

Spec == Init /\ [][Next]_vars /\ Fairness

-----------------------------------------------------------------------------
(* Properties. *)

Carries(events, type) == \E i \in DOMAIN events : events[i].type = type

\* A browser never reads to the end of a finished stream without a report that
\* makes it close it: the only reconnects, each a whole new assessment, are real
\* failures (sse.go:26-29).
OnlyFailuresReconnect ==
  \A t \in Tabs : tab[t] = "open" /\ handler[current[t]] = "ended" =>
    Carries(wire[current[t]], "report")

\* When Shutdown returns within the grace period, every browser whose connection
\* held has its report or is about to (main.go:121-127).
CleanStopDelivers ==
  server = "stopped" =>
    \A t \in Tabs : tab[t] = "open" => Carries(wire[current[t]], "report")

\* Every handler comes to an end unless its connection stands and its reader has
\* stopped reading: a browser that left holds up none (main.go:97-102).
HandlersEnd ==
  \A k \in Streams :
    \/ Running(k) ~> ~Running(k)
    \/ <>[](up[k] /\ Len(wire[k]) = Window)

\* A process told to stop stops, even if a handler cannot be finished (main.go:121-127).
StopsWhenTold == server = "draining" ~> Exited

\* What the comment on shutdownGrace says (main.go:26-28): an assessment that runs
\* when the signal comes is allowed to finish and be delivered.
GraceIsGiven ==
  server = "draining" =>
    \A k \in Streams : Running(k) /\ up[k] => ~cancelled[k]

\* What run.go:172-173 says of the entity announced before the fan-out: every
\* section below it is derived from this mapping.  TLC refutes it after a reconnect.
SectionsAreTheEntitys ==
  \A t \in Tabs : \A shown \in page[t].sections : shown[1] = page[t].entity

=============================================================================

----------------------------- MODULE Assessment -----------------------------
(***************************************************************************)
(* What one assessment promises its caller, before any goroutine, channel  *)
(* or clock: every registered source contributes exactly one section, the  *)
(* observer hears of it in the same step, a section never changes once it  *)
(* is recorded, and the report is handed over only when every source has   *)
(* contributed.  The promise is the one Assessor.Run and WithObserver      *)
(* state in internal/assess/assess.go; module FanOut implements it.        *)
(***************************************************************************)
EXTENDS Naturals, Sequences

CONSTANTS
  Source,     \* the registered sources
  Section,    \* the sections a source can contribute
  NoAnswer    \* stands for a source that has not contributed yet

VARIABLES
  answer,     \* the section each source contributed, or NoAnswer
  told,       \* how often the observer was told about each source
  delivered   \* the report has been handed to the caller

vars == <<answer, told, delivered>>

TypeOK ==
  /\ answer \in [Source -> Section \cup {NoAnswer}]
  /\ told \in [Source -> Nat]
  /\ delivered \in BOOLEAN

Init ==
  /\ answer = [s \in Source |-> NoAnswer]
  /\ told = [s \in Source |-> 0]
  /\ delivered = FALSE

\* A source's section is recorded and announced.
Contribute(s) ==
  /\ ~delivered
  /\ answer[s] = NoAnswer
  /\ \E section \in Section : answer' = [answer EXCEPT ![s] = section]
  /\ told' = [told EXCEPT ![s] = @ + 1]
  /\ UNCHANGED delivered

\* The report is complete and goes to the caller.
Deliver ==
  /\ ~delivered
  /\ \A s \in Source : answer[s] # NoAnswer
  /\ delivered' = TRUE
  /\ UNCHANGED <<answer, told>>

Next == Deliver \/ \E s \in Source : Contribute(s)

Spec == Init /\ [][Next]_vars /\ WF_vars(Next)

=============================================================================

---------------------------- MODULE RateLimiter -----------------------------
(***************************************************************************)
(* The NVD source's rate limiter: NVD.wait (internal/sources/nvd.go).      *)
(* One limiter is shared by entity resolution and by the NVD source of     *)
(* every assessment the process runs, so its callers are concurrent.       *)
(*                                                                         *)
(* A caller reserves the next slot under the mutex and then sleeps outside *)
(* it until the slot or until its context ends.  A request leaves when     *)
(* wait returns nil.  Time is discrete; a timer fires at most Lateness     *)
(* ticks after it is due, which is the scheduler's doing, not the code's.  *)
(***************************************************************************)
EXTENDS Integers, Sequences, FiniteSets

CONSTANTS
  Callers,      \* goroutines that may call get at the same time
  Interval,     \* n.interval, in ticks
  Lateness,     \* how long after it is due a timer may fire
  Quota,        \* requests NVD allows in a rolling window of Quota * Interval
  MaxGrants,    \* bound: reservations made in one behaviour
  LastArrival   \* bound: no caller arrives after this instant

ASSUME LimiterAssumption ==
  /\ Interval \in Nat
  /\ Lateness \in Nat
  /\ Quota \in Nat
  /\ MaxGrants \in Nat
  /\ LastArrival \in Nat

VARIABLES
  now,      \* the clock
  last,     \* n.last: the latest slot reserved
  slot,     \* the number of the grant each caller sleeps for, 0 if none
  granted,  \* history: every reservation, the time it was asked and its slot
  sent      \* history: the requests that left, by grant and time

limiterVars == <<now, last, slot, granted, sent>>

\* The clock stops once every possible slot has passed.
MaxTime == LastArrival + (MaxGrants + 1) * Interval + Lateness

Grant == [asked : Nat, slot : Nat]

\* The timer of its own reservation let request r go.
InItsSlot(r) ==
  /\ granted[r.grant].slot <= r.at
  /\ r.at <= granted[r.grant].slot + Lateness

\* A request that left did so in the slot it reserved, whoever else gave up; the
\* rest is types.
LimiterTypeOK ==
  /\ now \in Nat
  /\ last \in Nat
  /\ slot \in [Callers -> 0..Len(granted)]
  /\ granted \in Seq(Grant)
  /\ sent \subseteq [grant : 1..Len(granted), at : Nat]
  /\ \A r \in sent : InItsSlot(r)

\* n.last starts as the zero time, long before now.
LimiterInit ==
  /\ now = Interval
  /\ last = 0
  /\ slot = [c \in Callers |-> 0]
  /\ granted = <<>>
  /\ sent = {}

\* Mutant of NextSlot: the gap is padded.
NextSlotPadded == IF now < last + Interval THEN last + Interval + 1 ELSE now

\* The critical section of wait: the later of now and one interval after the
\* slot reserved before.
NextSlot == IF now < last + Interval THEN last + Interval ELSE now

\* A caller enters wait: it leaves at once when its slot is now.
Reserve(c) ==
  /\ slot[c] = 0
  /\ Len(granted) < MaxGrants
  /\ now <= LastArrival
  /\ last' = NextSlot
  /\ granted' = Append(granted, [asked |-> now, slot |-> NextSlot])
  /\ IF NextSlot = now
       THEN /\ sent' = sent \cup {[grant |-> Len(granted) + 1, at |-> now]}
            /\ UNCHANGED slot
       ELSE /\ slot' = [slot EXCEPT ![c] = Len(granted) + 1]
            /\ UNCHANGED sent
  /\ UNCHANGED now

\* Mutant of Proceed: the delay is computed from n.last after the mutex is released.
ProceedAtLast(c) ==
  /\ slot[c] # 0
  /\ now >= last
  /\ sent' = sent \cup {[grant |-> slot[c], at |-> now]}
  /\ slot' = [slot EXCEPT ![c] = 0]
  /\ UNCHANGED <<now, last, granted>>

\* The timer fires and the request leaves.
Proceed(c) ==
  /\ slot[c] # 0
  /\ now >= granted[slot[c]].slot
  /\ sent' = sent \cup {[grant |-> slot[c], at |-> now]}
  /\ slot' = [slot EXCEPT ![c] = 0]
  /\ UNCHANGED <<now, last, granted>>

\* Mutants of GiveUp: wait returns nil on ctx.Done too, so the request of a
\* cancelled caller leaves before its slot; a cancelled caller hands its interval
\* back.
GiveUpSends(c) ==
  /\ slot[c] # 0
  /\ sent' = sent \cup {[grant |-> slot[c], at |-> now]}
  /\ slot' = [slot EXCEPT ![c] = 0]
  /\ UNCHANGED <<now, last, granted>>
GiveUpRefunds(c) ==
  /\ slot[c] # 0
  /\ slot' = [slot EXCEPT ![c] = 0]
  /\ last' = last - Interval
  /\ UNCHANGED <<now, granted, sent>>

\* The caller's context ends first.  Its reservation stays in n.last.
GiveUp(c) ==
  /\ slot[c] # 0
  /\ slot' = [slot EXCEPT ![c] = 0]
  /\ UNCHANGED <<now, last, granted, sent>>

Tick ==
  /\ now < MaxTime
  /\ \A c \in Callers : slot[c] # 0 => now < granted[slot[c]].slot + Lateness
  /\ now' = now + 1
  /\ UNCHANGED <<last, slot, granted, sent>>

\* Nobody is left to call and nothing is due: the bounds end the behaviour.
Quiet ==
  /\ now = MaxTime
  /\ \A c \in Callers : slot[c] = 0
  /\ UNCHANGED limiterVars

LimiterNext ==
  \/ \E c \in Callers : Reserve(c) \/ Proceed(c) \/ GiveUp(c)
  \/ Tick
  \/ Quiet

\* Time passes and a due timer fires.  Nothing makes a caller arrive or give up.
Fairness ==
  /\ WF_limiterVars(Tick)
  /\ \A c \in Callers : WF_limiterVars(Proceed(c))

LimiterSpec == LimiterInit /\ [][LimiterNext]_limiterVars /\ Fairness

-----------------------------------------------------------------------------
(* Properties. *)

\* Requests keep their distance whoever sends them and whoever gives up: n slots
\* apart in the queue means at least n intervals apart on the wire, less the
\* scheduler's lateness (nvd.go:532).
RequestsApart ==
  \A r, s \in sent :
    r.grant < s.grant =>
      s.at + Lateness >= r.at + Interval * (s.grant - r.grant)

\* What RequestsApart comes to, NVD's published limit: no rolling window of Quota
\* intervals, less the scheduler's lateness, holds more than Quota requests, from all
\* the assessments and resolutions of the process together (nvd.go:29-35).
WindowQuota ==
  \A t \in 0..MaxTime :
    Cardinality({r \in sent : t <= r.at /\ r.at + Lateness < t + Quota * Interval})
      <= Quota

\* The limiter slows a caller only as far as the gap requires: a slot later than
\* the moment it was asked for is exactly one interval after the slot before it.
NoNeedlessDelay ==
  \A k \in 1..Len(granted) :
    granted[k].slot > granted[k].asked =>
      k > 1 /\ granted[k].slot = granted[k - 1].slot + Interval

\* A caller does not sleep forever: it sends or its context ends.
EveryWaitEnds == \A c \in Callers : (slot[c] # 0) ~> (slot[c] = 0)

=============================================================================

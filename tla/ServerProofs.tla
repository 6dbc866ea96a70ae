---------------------------- MODULE ServerProofs ----------------------------
(***************************************************************************)
(* Safety of module Server for any number of tabs, sources and streams.    *)
(*                                                                         *)
(* A stream some browser listens to has not been given up by the server,   *)
(* and belongs to that tab alone (ListenInv).  So whatever its handler     *)
(* sent has been received or is on the wire; once the handler is past the  *)
(* report, the report is on the wire, because receiving it would have      *)
(* ended the listening (ReportInv).  And no handler is killed by a process *)
(* that stops cleanly (StopInv).                                           *)
(***************************************************************************)
EXTENDS Server, TLAPS

ListenInv ==
  /\ \A t \in Tabs : tab[t] = "open" =>
       /\ current[t] \in 1..opened
       /\ up[current[t]]
       /\ handler[current[t]] # "none"
  /\ \A t, u \in Tabs :
       tab[t] = "open" /\ tab[u] = "open" /\ current[t] = current[u] => t = u

ReportInv ==
  \A t \in Tabs :
    tab[t] = "open" /\ handler[current[t]] \in {"closing", "ended"} =>
      Carries(wire[current[t]], "report")

StopInv ==
  /\ server \in {"serving", "draining", "stopped"} =>
       \A k \in Streams : handler[k] # "killed"
  /\ server = "stopped" => \A k \in Streams : ~Running(k)

IInv == TypeOK /\ ListenInv /\ ReportInv /\ StopInv

-----------------------------------------------------------------------------
(* Events on the wire. *)

\* Sending adds an event and takes none away.
LEMMA AppendKeeps ==
  ASSUME NEW s \in Seq(Event), NEW e \in Event
  PROVE  /\ \A i \in DOMAIN s : i \in DOMAIN Append(s, e) /\ Append(s, e)[i] = s[i]
         /\ Len(s) + 1 \in DOMAIN Append(s, e)
         /\ Append(s, e)[Len(s) + 1] = e
         /\ Append(s, e) \in Seq(Event)
         /\ Len(Append(s, e)) = Len(s) + 1
  OBVIOUS

\* Receiving takes the first event only.
LEMMA TailKeeps ==
  ASSUME NEW s \in Seq(Event), s # <<>>
  PROVE  /\ \A i \in DOMAIN s : i # 1 => i - 1 \in DOMAIN Tail(s) /\ Tail(s)[i - 1] = s[i]
         /\ Tail(s) \in Seq(Event)
         /\ Len(Tail(s)) = Len(s) - 1
         /\ Head(s) = s[1]
  OBVIOUS

\* The types of the events the handler sends.
LEMMA Events ==
  /\ [type |-> "entity"] \in Event
  /\ [type |-> "report"] \in Event
  /\ [type |-> "done"] \in Event
  /\ \A s \in Sources : [type |-> "section", source |-> s] \in Event
  BY DEF Event

\* A send keeps the wires well typed, keeps what they carry, and, on a connection
\* that is up, adds the event.
LEMMA SendEffect ==
  ASSUME TypeOK, NEW k \in Streams, NEW e \in Event, Send(k, e)
  PROVE  /\ wire' \in [Streams -> Seq(Event)]
         /\ \A j \in Streams : Len(wire'[j]) <= Window
         /\ \A j \in Streams : Carries(wire[j], "report") => Carries(wire'[j], "report")
         /\ up[k] /\ e.type = "report" => Carries(wire'[k], "report")
  <1>1. CASE ~up[k]
    BY <1>1 DEF Send, TypeOK, Carries
  <1>2. CASE up[k]
    <2>1. wire' = [wire EXCEPT ![k] = Append(@, e)] /\ Len(wire[k]) < Window
      BY <1>2 DEF Send, CanSend
    <2>2. wire[k] \in Seq(Event) /\ Window \in Nat
      BY ServerAssumption DEF TypeOK
    <2>3. wire'[k] = Append(wire[k], e) /\ \A j \in Streams \ {k} : wire'[j] = wire[j]
      BY <2>1 DEF TypeOK
    <2>4. /\ Append(wire[k], e) \in Seq(Event)
          /\ Len(Append(wire[k], e)) <= Window
      <3>1. Len(wire[k]) \in Nat
        BY <2>2
      <3> QED BY <2>1, <2>2, <3>1, AppendKeeps
    <2>7. wire' \in [Streams -> Seq(Event)]
      BY <2>1, <2>4 DEF TypeOK
    <2>8. \A j \in Streams : Len(wire'[j]) <= Window
      BY <2>3, <2>4 DEF TypeOK
    <2>5. \A j \in Streams : Carries(wire[j], "report") => Carries(wire'[j], "report")
      BY <2>2, <2>3, AppendKeeps DEF Carries
    <2>6. e.type = "report" => Carries(wire'[k], "report")
      BY <2>2, <2>3, AppendKeeps DEF Carries
    <2> QED BY <2>5, <2>6, <2>7, <2>8
  <1> QED BY <1>1, <1>2 DEF TypeOK

-----------------------------------------------------------------------------
(* The invariant. *)

\* The stream of an open tab.
LEMMA OpenStream ==
  ASSUME TypeOK, ListenInv, NEW t \in Tabs, tab[t] = "open"
  PROVE  /\ current[t] \in Streams
         /\ up[current[t]]
         /\ handler[current[t]] # "none"
  <1>1. current[t] \in 1..opened
    BY DEF ListenInv
  <1>2. opened \in 0..MaxStreams
    BY DEF TypeOK
  <1>3. current[t] \in 1..MaxStreams
    BY <1>1, <1>2, ServerAssumption
  <1> QED BY <1>3 DEF ListenInv, Streams

\* Nobody is connected at the start.
LEMMA InitInv == Init => IInv
  <1> SUFFICES ASSUME Init PROVE IInv
    OBVIOUS
  <1>1. TypeOK
    BY ServerAssumption DEF Init, TypeOK, Page, BlankPage, NoStream
  <1>2. ListenInv /\ ReportInv
    BY DEF Init, ListenInv, ReportInv
  <1>3. StopInv
    BY DEF Init, StopInv
  <1> QED BY <1>1, <1>2, <1>3 DEF IInv

\* A handler that sends an event and moves on keeps the invariant, if it sends the
\* report when it goes from running its assessment to closing.
LEMMA HandlerStep ==
  ASSUME IInv, NEW k \in Streams, NEW e \in Event, Send(k, e),
         NEW to \in {"sources", "closing", "ended"}, Advance(k, to),
         Running(k),
         to = "closing" => e.type = "report",
         to = "ended" => handler[k] = "closing",
         left' \in [Streams -> SUBSET Sources],
         UNCHANGED <<server, opened, cancelled, up, tabVars>>
  PROVE  IInv'
  <1>1. TypeOK /\ ListenInv /\ ReportInv /\ StopInv
    BY DEF IInv
  <1>2. /\ wire' \in [Streams -> Seq(Event)]
        /\ \A j \in Streams : Len(wire'[j]) <= Window
        /\ \A j \in Streams : Carries(wire[j], "report") => Carries(wire'[j], "report")
        /\ up[k] /\ e.type = "report" => Carries(wire'[k], "report")
    BY <1>1, SendEffect
  <1>3. handler' = [handler EXCEPT ![k] = to]
    BY DEF Advance
  <1>4. UNCHANGED <<server, opened, cancelled, up, tab, current, page>>
    BY DEF tabVars
  <1>5. TypeOK'
    BY <1>1, <1>2, <1>3, <1>4 DEF TypeOK
  <1>6. ListenInv'
    <2>1. ASSUME NEW t \in Tabs, tab[t] = "open"
          PROVE  current[t] \in 1..opened /\ up[current[t]] /\ handler'[current[t]] # "none"
      <3>1. current[t] \in Streams /\ handler[current[t]] # "none"
        BY <1>1, <2>1, OpenStream
      <3>2. handler'[current[t]] # "none"
        BY <1>1, <1>3, <3>1 DEF TypeOK
      <3> QED BY <1>1, <2>1, <3>2 DEF ListenInv
    <2>2. \A t, u \in Tabs :
            tab[t] = "open" /\ tab[u] = "open" /\ current[t] = current[u] => t = u
      BY <1>1 DEF ListenInv
    <2> QED BY <1>4, <2>1, <2>2 DEF ListenInv
  <1>7. ReportInv'
    <2> SUFFICES ASSUME NEW t \in Tabs, tab[t] = "open",
                        handler'[current[t]] \in {"closing", "ended"}
                 PROVE  Carries(wire'[current[t]], "report")
      BY <1>4 DEF ReportInv
    <2>1. current[t] \in Streams /\ up[current[t]]
      BY <1>1, OpenStream
    <2>2. CASE current[t] # k
      <3>1. handler[current[t]] \in {"closing", "ended"}
        BY <1>1, <1>3, <2>1, <2>2 DEF TypeOK
      <3> QED BY <1>1, <1>2, <2>1, <3>1 DEF ReportInv
    <2>3. CASE current[t] = k /\ to = "closing"
      BY <1>2, <2>1, <2>3
    <2>4. CASE current[t] = k /\ to = "ended"
      BY <1>1, <1>2, <2>1, <2>4 DEF ReportInv
    <2>5. CASE current[t] = k /\ to = "sources"
      BY <1>1, <1>3, <2>5 DEF TypeOK
    <2> QED BY <2>2, <2>3, <2>4, <2>5
  <1>8. StopInv'
    BY <1>1, <1>3, <1>4 DEF StopInv, TypeOK, Running
  <1> QED BY <1>5, <1>6, <1>7, <1>8 DEF IInv

\* A process that exits kills the handlers that run; it stops cleanly only if
\* none does.
LEMMA ExitStep ==
  ASSUME IInv, NEW how \in {"stopped", "cut off", "failed"}, Exit(how),
         how = "stopped" => server = "draining" /\ \A k \in Streams : ~Running(k)
  PROVE  IInv'
  <1>1. TypeOK /\ ListenInv /\ ReportInv /\ StopInv
    BY DEF IInv
  <1>2. /\ server' = how
        /\ handler' = [k \in Streams |-> IF Running(k) THEN "killed" ELSE handler[k]]
        /\ UNCHANGED <<opened, left, cancelled, up, wire, tab, current, page>>
    BY DEF Exit, tabVars
  <1>3. TypeOK'
    BY <1>1, <1>2 DEF TypeOK
  <1>4. \A t \in Tabs : tab[t] = "open" => current[t] \in Streams
    BY <1>1, OpenStream
  <1>5. ListenInv'
    BY <1>1, <1>2, <1>4 DEF ListenInv
  <1>6. ReportInv'
    BY <1>1, <1>2, <1>4 DEF ReportInv
  <1>7. StopInv'
    BY <1>1, <1>2 DEF StopInv, Running
  <1> QED BY <1>3, <1>5, <1>6, <1>7 DEF IInv

\* A browser that stops listening, for whatever reason, takes nothing away from
\* those that listen.
LEMMA LeaveStep ==
  ASSUME IInv, NEW t \in Tabs,
         NEW to \in {"form", "connecting", "settled"},
         tab' = [tab EXCEPT ![t] = to],
         current' = [current EXCEPT ![t] = NoStream],
         page' \in [Tabs -> Page],
         wire' \in [Streams -> Seq(Event)],
         \A k \in Streams : Len(wire'[k]) <= Window,
         \A k \in Streams : wire'[k] # wire[k] => tab[t] = "open" /\ current[t] = k,
         UNCHANGED <<server, opened, handler, left, cancelled, up>>
  PROVE  IInv'
  <1>1. TypeOK /\ ListenInv /\ ReportInv /\ StopInv
    BY DEF IInv
  <1>0. NoStream \in 0..MaxStreams
    BY ServerAssumption DEF NoStream
  <1>2. TypeOK'
    BY <1>0, <1>1 DEF TypeOK
  <1>3. ASSUME NEW u \in Tabs, tab'[u] = "open"
        PROVE  /\ u # t
               /\ tab[u] = "open"
               /\ current'[u] = current[u]
               /\ current[u] \in Streams
               /\ wire'[current[u]] = wire[current[u]]
    <2>1. u # t /\ tab[u] = "open" /\ current'[u] = current[u]
      BY <1>1, <1>3 DEF TypeOK
    <2>2. current[u] \in Streams
      BY <1>1, <2>1, OpenStream
    <2>3. wire'[current[u]] = wire[current[u]]
      BY <1>1, <2>1, <2>2 DEF ListenInv
    <2> QED BY <2>1, <2>2, <2>3
  <1>4. ListenInv'
    BY <1>1, <1>3 DEF ListenInv
  <1>5. ReportInv'
    BY <1>1, <1>3 DEF ReportInv
  <1>6. StopInv'
    BY <1>1 DEF StopInv, Running
  <1> QED BY <1>2, <1>4, <1>5, <1>6 DEF IInv

\* A handler whose assessment fails will send that as its report.
LEMMA FailStep ==
  ASSUME IInv, NEW k \in Streams, ResolutionFails(k)
  PROVE  IInv'
  <1>1. TypeOK /\ ListenInv /\ ReportInv /\ StopInv
    BY DEF IInv
  <1>2. /\ handler[k] = "resolve"
        /\ handler' = [handler EXCEPT ![k] = "failed"]
        /\ UNCHANGED <<server, opened, left, cancelled, up, wire, tab, current, page>>
    BY DEF ResolutionFails, Advance, tabVars
  <1>3. TypeOK'
    BY <1>1, <1>2 DEF TypeOK
  <1>4. ASSUME NEW t \in Tabs, tab[t] = "open"
        PROVE  /\ current[t] \in 1..opened
               /\ up[current[t]]
               /\ handler'[current[t]] # "none"
               /\ handler'[current[t]] \in {"closing", "ended"} =>
                    Carries(wire[current[t]], "report")
    <2>1. current[t] \in Streams /\ handler[current[t]] # "none"
      BY <1>1, <1>4, OpenStream
    <2>2. /\ current[t] = k => handler'[current[t]] = "failed"
          /\ current[t] # k => handler'[current[t]] = handler[current[t]]
      BY <1>1, <1>2, <2>1 DEF TypeOK
    <2> QED BY <1>1, <1>4, <2>1, <2>2 DEF ListenInv, ReportInv
  <1>5. ListenInv'
    BY <1>1, <1>2, <1>4 DEF ListenInv
  <1>6. ReportInv'
    BY <1>2, <1>4 DEF ReportInv
  <1>7. StopInv'
    BY <1>1, <1>2 DEF StopInv, TypeOK, Running
  <1> QED BY <1>3, <1>5, <1>6, <1>7 DEF IInv

\* A new stream is nobody else's, and nothing of it is on its way.
LEMMA ConnectStep ==
  ASSUME IInv, NEW t \in Tabs, Connect(t)
  PROVE  IInv'
  <1>1. TypeOK /\ ListenInv /\ ReportInv /\ StopInv
    BY DEF IInv
  <1> DEFINE n == opened + 1
  <1>2. /\ server = "serving"
        /\ opened' = n
        /\ handler' = [handler EXCEPT ![n] = "resolve"]
        /\ left' = [left EXCEPT ![n] = Sources]
        /\ up' = [up EXCEPT ![n] = TRUE]
        /\ tab' = [tab EXCEPT ![t] = "open"]
        /\ current' = [current EXCEPT ![t] = n]
        /\ UNCHANGED <<server, cancelled, wire, page>>
    BY DEF Connect
  <1>3. n \in Streams /\ n \in 0..MaxStreams /\ opened \in Nat
    <2>1. opened \in 0..MaxStreams /\ opened < MaxStreams
      BY <1>1 DEF TypeOK, Connect
    <2> QED BY <2>1, ServerAssumption DEF Streams
  <1> HIDE DEF n
  <1>4. TypeOK'
    BY <1>1, <1>2, <1>3 DEF TypeOK
  <1>5. ASSUME NEW u \in Tabs, u # t, tab'[u] = "open"
        PROVE  /\ tab[u] = "open"
               /\ current'[u] = current[u]
               /\ current[u] \in 1..opened
               /\ current[u] # n
               /\ current[u] \in Streams
               /\ up'[current[u]]
               /\ handler'[current[u]] = handler[current[u]]
    <2>1. tab[u] = "open" /\ current'[u] = current[u]
      BY <1>1, <1>2, <1>5 DEF TypeOK
    <2>2. current[u] \in 1..opened /\ up[current[u]] /\ current[u] \in Streams
      BY <1>1, <2>1, OpenStream DEF ListenInv
    <2>3. current[u] # n
      BY <1>3, <2>2 DEF n
    <2>4. up'[current[u]] /\ handler'[current[u]] = handler[current[u]]
      BY <1>1, <1>2, <2>2, <2>3 DEF TypeOK
    <2> QED BY <2>1, <2>2, <2>3, <2>4
  <1>6. current'[t] = n /\ up'[n] /\ handler'[n] = "resolve"
    BY <1>1, <1>2, <1>3 DEF TypeOK
  <1>7. ListenInv'
    <2>1. ASSUME NEW u \in Tabs, tab'[u] = "open"
          PROVE  current'[u] \in 1..opened' /\ up'[current'[u]] /\ handler'[current'[u]] # "none"
      <3>1. CASE u = t
        BY <1>2, <1>3, <1>6, <3>1 DEF n
      <3>2. CASE u # t
        <4>1. /\ tab[u] = "open" /\ current'[u] = current[u]
              /\ current[u] \in 1..opened
              /\ up'[current[u]] /\ handler'[current[u]] = handler[current[u]]
          BY <1>5, <2>1, <3>2
        <4>2. handler[current[u]] # "none"
          BY <1>1, <4>1 DEF ListenInv
        <4>3. current[u] \in 1..opened'
          BY <1>2, <1>3, <4>1 DEF n
        <4> QED BY <4>1, <4>2, <4>3
      <3> QED BY <3>1, <3>2
    <2>2. ASSUME NEW u \in Tabs, NEW v \in Tabs,
                 tab'[u] = "open", tab'[v] = "open", current'[u] = current'[v]
          PROVE  u = v
      <3>1. CASE u = t \/ v = t
        BY <1>5, <1>6, <2>2, <3>1
      <3>2. CASE u # t /\ v # t
        BY <1>1, <1>5, <2>2, <3>2 DEF ListenInv
      <3> QED BY <3>1, <3>2
    <2> QED BY <2>1, <2>2 DEF ListenInv
  <1>8. ReportInv'
    <2> SUFFICES ASSUME NEW u \in Tabs, tab'[u] = "open",
                        handler'[current'[u]] \in {"closing", "ended"}
                 PROVE  Carries(wire'[current'[u]], "report")
      BY DEF ReportInv
    <2>1. u # t
      BY <1>6
    <2> QED BY <1>1, <1>2, <1>5, <2>1 DEF ReportInv
  <1>9. StopInv'
    BY <1>1, <1>2, <1>3 DEF StopInv, TypeOK
  <1> QED BY <1>4, <1>7, <1>8, <1>9 DEF IInv

\* A connection the server gives up is one nobody listens to.
LEMMA NoticeStep ==
  ASSUME IInv, NEW k \in Streams, Notice(k)
  PROVE  IInv'
  <1>1. TypeOK /\ ListenInv /\ ReportInv /\ StopInv
    BY DEF IInv
  <1>2. /\ up' = [up EXCEPT ![k] = FALSE]
        /\ cancelled' = [cancelled EXCEPT ![k] = TRUE]
        /\ wire' = [wire EXCEPT ![k] = <<>>]
        /\ UNCHANGED <<server, opened, handler, left, tab, current, page>>
    BY DEF Notice, tabVars
  <1>3. \A t \in Tabs : tab[t] = "open" => current[t] # k
    BY DEF Notice, Heard
  <1>4. TypeOK'
    <2> DEFINE none == <<>>
    <2>0. none \in Seq(Event) /\ Len(none) = 0
      OBVIOUS
    <2>3. wire' = [wire EXCEPT ![k] = none]
      BY <1>2
    <2> HIDE DEF none
    <2>1. wire' \in [Streams -> Seq(Event)]
      BY <1>1, <2>0, <2>3 DEF TypeOK
    <2>2. \A j \in Streams : Len(wire'[j]) <= Window
      <3> SUFFICES ASSUME NEW j \in Streams PROVE Len(wire'[j]) <= Window
        OBVIOUS
      <3>1. CASE j = k
        <4>1. wire'[j] = none
          BY <1>1, <2>3, <3>1 DEF TypeOK
        <4> QED BY <2>0, <4>1, ServerAssumption
      <3>2. CASE j # k
        BY <1>1, <1>2, <3>2 DEF TypeOK
      <3> QED BY <3>1, <3>2
    <2> QED BY <1>1, <1>2, <2>1, <2>2 DEF TypeOK
  <1>5. ASSUME NEW t \in Tabs, tab[t] = "open"
        PROVE  up'[current[t]] = up[current[t]] /\ wire'[current[t]] = wire[current[t]]
    <2>1. current[t] \in Streams
      BY <1>1, <1>5, OpenStream
    <2> QED BY <1>1, <1>2, <1>3, <1>5, <2>1 DEF TypeOK
  <1>6. ListenInv'
    BY <1>1, <1>2, <1>5 DEF ListenInv
  <1>7. ReportInv'
    BY <1>1, <1>2, <1>5 DEF ReportInv
  <1>8. StopInv'
    BY <1>1, <1>2 DEF StopInv, Running
  <1> QED BY <1>4, <1>6, <1>7, <1>8 DEF IInv

\* What a browser reads it has read: the report ends its listening, and anything
\* else leaves the report on the wire.
LEMMA ReceiveStep ==
  ASSUME IInv, NEW t \in Tabs, Receive(t)
  PROVE  IInv'
  <1>1. TypeOK /\ ListenInv /\ ReportInv /\ StopInv
    BY DEF IInv
  <1> DEFINE k == current[t]
             e == Head(wire[k])
  <1>2. /\ tab[t] = "open"
        /\ wire[k] # <<>>
        /\ wire' = [wire EXCEPT ![k] = Tail(wire[k])]
        /\ UNCHANGED <<server, opened, handler, left, cancelled, up>>
    BY DEF Receive
  <1>3. k \in Streams
    BY <1>1, <1>2, OpenStream
  <1>4. wire[k] \in Seq(Event) /\ Len(wire[k]) <= Window
    BY <1>1, <1>3 DEF TypeOK
  <1>5. /\ \A i \in DOMAIN wire[k] : i # 1 => i - 1 \in DOMAIN Tail(wire[k])
                                            /\ Tail(wire[k])[i - 1] = wire[k][i]
        /\ Tail(wire[k]) \in Seq(Event)
        /\ Len(Tail(wire[k])) = Len(wire[k]) - 1
        /\ e = wire[k][1]
    <2> HIDE DEF k
    <2> QED BY <1>2, <1>4, TailKeeps DEF e
  <1>6. /\ wire'[k] = Tail(wire[k])
        /\ \A j \in Streams \ {k} : wire'[j] = wire[j]
    BY <1>1, <1>2, <1>3 DEF TypeOK
  <1>7. wire' \in [Streams -> Seq(Event)]
    BY <1>1, <1>2, <1>5 DEF TypeOK
  <1>8. \A j \in Streams : Len(wire'[j]) <= Window
    <2>1. Len(wire'[k]) <= Window
      <3>1. Len(wire[k]) \in Nat /\ Window \in Nat
        BY <1>4, ServerAssumption
      <3> QED BY <1>4, <1>5, <1>6, <3>1
    <2>2. \A j \in Streams \ {k} : Len(wire'[j]) <= Window
      BY <1>1, <1>6 DEF TypeOK
    <2> QED BY <2>1, <2>2
  <1>9. e.type # "report" /\ Carries(wire[k], "report") => Carries(wire'[k], "report")
    <2> HIDE DEF k, e
    <2> SUFFICES ASSUME e.type # "report", Carries(wire[k], "report")
                 PROVE  Carries(wire'[k], "report")
      OBVIOUS
    <2>1. PICK i \in DOMAIN wire[k] : wire[k][i].type = "report"
      BY DEF Carries
    <2>2. i # 1
      BY <1>5, <2>1
    <2>3. i - 1 \in DOMAIN wire'[k] /\ wire'[k][i - 1] = wire[k][i]
      BY <1>5, <1>6, <2>2
    <2> QED BY <2>1, <2>3 DEF Carries
  <1>10. CASE e.type = "report"
    <2>1. /\ page' = [page EXCEPT ![t] = [BlankPage EXCEPT !.report = k]]
          /\ tab' = [tab EXCEPT ![t] = "settled"]
          /\ current' = [current EXCEPT ![t] = NoStream]
      BY <1>10 DEF Receive
    <2>2. [BlankPage EXCEPT !.report = k] \in Page
      <3>1. k \in 0..MaxStreams /\ NoStream \in 0..MaxStreams
        <4>1. MaxStreams \in Nat
          BY ServerAssumption
        <4> HIDE DEF k
        <4> QED BY <1>3, <4>1 DEF Streams, NoStream
      <3> HIDE DEF k
      <3> QED BY <3>1 DEF BlankPage, Page
    <2>3. page' \in [Tabs -> Page]
      BY <1>1, <2>1, <2>2 DEF TypeOK
    <2>4. \A j \in Streams : wire'[j] # wire[j] => tab[t] = "open" /\ current[t] = j
      BY <1>2, <1>6
    <2> QED BY <1>2, <1>7, <1>8, <2>1, <2>3, <2>4, LeaveStep
  <1>11. CASE e.type # "report"
    <2>1. /\ UNCHANGED <<tab, current>>
          /\ \/ page' = [page EXCEPT ![t].entity = IF @ = NoStream THEN k ELSE @]
             \/ /\ e.type = "section"
                /\ page' = [page EXCEPT ![t].sections = @ \cup {<<k, e.source>>}]
      BY <1>11 DEF Receive
    <2>2. page' \in [Tabs -> Page]
      <3>1. page[t] \in Page /\ k \in 0..MaxStreams
        BY <1>1, <1>3, ServerAssumption DEF TypeOK, Streams
      <3>2. e \in Event
        <4> HIDE DEF k
        <4> QED BY <1>2, <1>4, <1>5
      <3>3. e.type = "section" => <<k, e.source>> \in Streams \X Sources
        <4> HIDE DEF e
        <4> QED BY <1>3, <3>2 DEF Event
      <3> HIDE DEF k, e
      <3>4. [page[t] EXCEPT !.entity = IF page[t].entity = NoStream THEN k ELSE page[t].entity] \in Page
        BY <3>1 DEF Page
      <3>5. e.type = "section" =>
              [page[t] EXCEPT !.sections = page[t].sections \cup {<<k, e.source>>}] \in Page
        BY <3>1, <3>3 DEF Page
      <3> QED BY <1>1, <2>1, <3>4, <3>5 DEF TypeOK
    <2>3. TypeOK'
      BY <1>1, <1>2, <1>7, <1>8, <2>1, <2>2 DEF TypeOK
    <2>4. ListenInv'
      BY <1>1, <1>2, <2>1 DEF ListenInv
    <2>5. ReportInv'
      <3> SUFFICES ASSUME NEW u \in Tabs, tab[u] = "open",
                          handler[current[u]] \in {"closing", "ended"}
                   PROVE  Carries(wire'[current[u]], "report")
        BY <1>2, <2>1 DEF ReportInv
      <3>1. Carries(wire[current[u]], "report")
        BY <1>1 DEF ReportInv
      <3>2. current[u] \in Streams
        BY <1>1, OpenStream
      <3>3. CASE current[u] = k
        BY <1>9, <1>11, <3>1, <3>3
      <3>4. CASE current[u] # k
        BY <1>6, <3>1, <3>2, <3>4
      <3> QED BY <3>3, <3>4
    <2>6. StopInv'
      BY <1>1, <1>2 DEF StopInv, Running
    <2> QED BY <2>3, <2>4, <2>5, <2>6 DEF IInv
  <1> QED BY <1>10, <1>11

\* A tab that posts the form, or loses its stream, leaves its wire alone.
LEMMA BrowserStep ==
  ASSUME IInv, NEW t \in Tabs, Post(t) \/ Breaks(t) \/ Ends(t)
  PROVE  IInv'
  <1>1. TypeOK
    BY DEF IInv
  <1>2. BlankPage \in Page
    BY ServerAssumption DEF BlankPage, Page, NoStream
  <1>3. \E to \in {"form", "connecting", "settled"} : tab' = [tab EXCEPT ![t] = to]
    BY DEF Post, Breaks, Ends, Reconnect
  <1>4. /\ current' = [current EXCEPT ![t] = NoStream]
        /\ page' = page \/ page' = [page EXCEPT ![t] = BlankPage]
        /\ UNCHANGED <<server, opened, handler, left, cancelled, up, wire>>
    BY DEF Post, Breaks, Ends, Reconnect, handlerVars
  <1>5. page' \in [Tabs -> Page]
    BY <1>1, <1>2, <1>4 DEF TypeOK
  <1>6. /\ wire' \in [Streams -> Seq(Event)]
        /\ \A k \in Streams : Len(wire'[k]) <= Window
        /\ \A k \in Streams : wire'[k] # wire[k] => tab[t] = "open" /\ current[t] = k
    BY <1>1, <1>4 DEF TypeOK
  <1> QED BY <1>3, <1>4, <1>5, <1>6, LeaveStep

\* A signal only cancels.
LEMMA SignalStep ==
  ASSUME IInv, Signal
  PROVE  IInv'
  <1>1. TypeOK /\ ListenInv /\ ReportInv /\ StopInv
    BY DEF IInv
  <1>2. /\ server = "serving" /\ server' = "draining"
        /\ cancelled' = [k \in Streams |-> cancelled[k] \/ Running(k)]
        /\ UNCHANGED <<opened, handler, left, up, wire, tab, current, page>>
    BY DEF Signal, handlerVars, tabVars
  <1>3. cancelled' \in [Streams -> BOOLEAN]
    BY <1>1, <1>2 DEF TypeOK, Running
  <1>4. TypeOK'
    BY <1>1, <1>2, <1>3 DEF TypeOK
  <1>5. ListenInv' /\ ReportInv'
    BY <1>1, <1>2 DEF ListenInv, ReportInv
  <1>6. StopInv'
    BY <1>1, <1>2 DEF StopInv
  <1> QED BY <1>4, <1>5, <1>6 DEF IInv

\* Every step of a handler.
LEMMA HandlerSteps ==
  ASSUME IInv, NEW k \in Streams,
         Resolved(k) \/ SectionLands(k) \/ Report(k) \/ Done(k)
  PROVE  IInv'
  <1>1. TypeOK
    BY DEF IInv
  <1>2. CASE Resolved(k)
    <2>1. /\ Send(k, [type |-> "entity"]) /\ Advance(k, "sources") /\ Running(k)
          /\ UNCHANGED <<server, opened, cancelled, up, tabVars>> /\ left' = left
      BY <1>2 DEF Resolved, Running
    <2>2. left' \in [Streams -> SUBSET Sources]
      BY <1>1, <2>1 DEF TypeOK
    <2> QED BY <2>1, <2>2, Events, HandlerStep
  <1>3. CASE SectionLands(k)
    <2>1. PICK s \in left[k] :
            /\ Send(k, [type |-> "section", source |-> s])
            /\ left' = [left EXCEPT ![k] = @ \ {s}]
      BY <1>3 DEF SectionLands
    <2>2. s \in Sources /\ left' \in [Streams -> SUBSET Sources]
      BY <1>1, <2>1 DEF TypeOK
    <2>3. Advance(k, "sources")
      BY <1>1, <1>3 DEF Advance, SectionLands, TypeOK
    <2>4. Running(k) /\ UNCHANGED <<server, opened, cancelled, up, tabVars>>
      BY <1>3 DEF SectionLands, Running
    <2> QED BY <2>1, <2>2, <2>3, <2>4, Events, HandlerStep
  <1>4. CASE Report(k)
    <2>1. /\ Send(k, [type |-> "report"]) /\ Advance(k, "closing") /\ Running(k)
          /\ UNCHANGED <<server, opened, cancelled, up, tabVars>> /\ left' = left
      BY <1>4 DEF Report, Running
    <2>2. left' \in [Streams -> SUBSET Sources]
      BY <1>1, <2>1 DEF TypeOK
    <2> QED BY <2>1, <2>2, Events, HandlerStep
  <1>5. CASE Done(k)
    <2>1. /\ Send(k, [type |-> "done"]) /\ Advance(k, "ended") /\ Running(k)
          /\ handler[k] = "closing"
          /\ UNCHANGED <<server, opened, cancelled, up, tabVars>> /\ left' = left
      BY <1>5 DEF Done, Running
    <2>2. left' \in [Streams -> SUBSET Sources]
      BY <1>1, <2>1 DEF TypeOK
    <2> QED BY <2>1, <2>2, Events, HandlerStep
  <1> QED BY <1>2, <1>3, <1>4, <1>5

\* Every step of the specification keeps the invariant.
LEMMA NextInv == IInv /\ [Next]_vars => IInv'
  <1> SUFFICES ASSUME IInv, [Next]_vars PROVE IInv'
    OBVIOUS
  <1>1. CASE \E t \in Tabs : Post(t) \/ Breaks(t) \/ Ends(t)
    BY <1>1, BrowserStep
  <1>2. CASE \E t \in Tabs : Connect(t)
    BY <1>2, ConnectStep
  <1>3. CASE \E t \in Tabs : Receive(t)
    BY <1>3, ReceiveStep
  <1>4. CASE \E k \in Streams : Resolved(k) \/ SectionLands(k) \/ Report(k) \/ Done(k)
    BY <1>4, HandlerSteps
  <1>5. CASE \E k \in Streams : ResolutionFails(k)
    BY <1>5, FailStep
  <1>6. CASE \E k \in Streams : Notice(k)
    BY <1>6, NoticeStep
  <1>7. CASE Signal
    BY <1>7, SignalStep
  <1>8. CASE ShutdownReturns
    BY <1>8, ExitStep DEF ShutdownReturns
  <1>9. CASE GraceEnds \/ ListenFails
    BY <1>9, ExitStep DEF GraceEnds, ListenFails
  <1>10. CASE UNCHANGED vars
    BY <1>10 DEF vars, IInv, TypeOK, ListenInv, ReportInv, StopInv, Running
  <1> QED
    BY <1>1, <1>2, <1>3, <1>4, <1>5, <1>6, <1>7, <1>8, <1>9, <1>10 DEF Next, Quiet

\* The invariant holds of every reachable state.
LEMMA Invariance == Spec => []IInv
  <1> QED BY InitInv, NextInv, PTL DEF Spec

-----------------------------------------------------------------------------
(* What follows from it. *)

\* Every variable keeps its type: in particular no stream's number passes the
\* bound and no connection holds more than its window.
THEOREM TypeCorrect == Spec => []TypeOK
  <1>1. IInv => TypeOK
    BY DEF IInv
  <1> QED BY <1>1, Invariance, PTL

\* For any number of tabs, sources and streams, a browser that is still listening
\* to a finished stream has the report ahead of it (sse.go:78-92, stream.html:14-23).
THEOREM ReconnectsAreFailures == Spec => []OnlyFailuresReconnect
  <1>1. IInv => OnlyFailuresReconnect
    BY DEF IInv, ReportInv, OnlyFailuresReconnect
  <1> QED BY <1>1, Invariance, PTL

\* For any number of tabs, sources and streams, a shutdown that returns within its
\* grace period has delivered the report to every connection that held
\* (main.go:121-127).
THEOREM CleanStops == Spec => []CleanStopDelivers
  <1>1. IInv => CleanStopDelivers
    <2> SUFFICES ASSUME IInv, server = "stopped", NEW t \in Tabs, tab[t] = "open"
                 PROVE  Carries(wire[current[t]], "report")
      BY DEF CleanStopDelivers
    <2>1. TypeOK /\ ListenInv /\ ReportInv /\ StopInv
      BY DEF IInv
    <2>2. current[t] \in Streams /\ handler[current[t]] # "none"
      BY <2>1, OpenStream
    <2>3. handler[current[t]] # "killed" /\ ~Running(current[t])
      BY <2>1, <2>2 DEF StopInv
    <2>4. handler[current[t]] = "ended"
      BY <2>1, <2>2, <2>3 DEF TypeOK, Running
    <2> QED BY <2>1, <2>4 DEF ReportInv
  <1> QED BY <1>1, Invariance, PTL

=============================================================================

-------------------------- MODULE ResolutionProofs ---------------------------
(***************************************************************************)
(* Proofs about entity resolution: what Runner does with its result, for   *)
(* any number of runs, any CPEs and dictionary, any requests and timeouts, *)
(* and how Resolver comes by it, for any vendors and products, any         *)
(* dictionary, any replies and selections of the model, and any caps.      *)
(*                                                                         *)
(* The runner's argument is about budgets.  Work goes on only inside the   *)
(* budget it was given, so a mapping is resolved within Total of its start *)
(* and written within WriteTimeout of the end of the fan-out: the row's    *)
(* own date is at most Total + WriteTimeout after the mapping's.  A hit is *)
(* of a row younger than the TTL, and is never written back.               *)
(*                                                                         *)
(* The resolver keeps two accounts from the first reply on.  Every CPE the *)
(* model named is still in hand or has a note, and while the dictionary    *)
(* has not spoken the CPEs in hand are all the model named.  A catalogue   *)
(* in hand lists registered products only, so what is confirmed from it or *)
(* chosen from it is registered.  Requests and vendors left to try add up  *)
(* to at most the cap, and the one narrowed request comes on top.          *)
(***************************************************************************)
EXTENDS Runner, Resolver, OrderingProofs, TLAPS

\* A row holds a mapping that can be interpreted, dated not long before the row.
RowOK(row) ==
  /\ row.payload.cpes # {}
  /\ row.at <= row.payload.at + Total + WriteTimeout

TableInv == \A row \in table : RowOK(row)

\* What a run has in hand in each phase, and what is left of its budget.
Seeking(r) ==
  phase[r] \in {"lookup", "resolve"} =>
    /\ now <= due[r]
    /\ due[r] <= now + Total
    /\ ~hit[r]
    /\ phase[r] = "lookup" => ~request[r].noCache

Fanning(r) ==
  phase[r] = "fanout" =>
    /\ resolution[r] \in Resolution
    /\ now <= due[r]
    /\ ~hit[r] => due[r] <= resolution[r].at + Total

Recording(r) ==
  phase[r] = "record" =>
    /\ resolution[r] \in Resolution
    /\ now <= due[r]
    /\ ~hit[r] => due[r] <= resolution[r].at + Total + WriteTimeout

Resting(r) == phase[r] \in {"idle", "failed"} => ~hit[r]

\* What the histories say of a run: what it resolved itself is what the dictionary
\* left, and is still in hand unless the run hit; NVD was asked CPEs the run gave
\* it, and the verdict is on those.
Vouching(r) ==
  /\ own[r].origin = "checked" => own[r].cpes \subseteq Registered
  /\ phase[r] \in {"fanout", "record"} /\ ~hit[r] => own[r] = resolution[r]
  /\ phase[r] = "record" =>
       queried[r] \subseteq EntityCPEs(r) /\ verdict[r] = VerdictOn(queried[r])

RunOK(r) == Resting(r) /\ Seeking(r) /\ Fanning(r) /\ Recording(r) /\ Vouching(r)

RunsInv == \A r \in Runs : RunOK(r)

Inv == TypeOK /\ TableInv /\ RunsInv /\ PinnedIsVouchedFor

\* The invariant holds of idle runs and an empty table.
LEMMA InitInv == Init => Inv
<1> SUFFICES ASSUME Init PROVE Inv
  OBVIOUS
<1>1. TypeOK
  BY DEF Init, TypeOK, OneRowPerKey
<1>2. TableInv /\ PinnedIsVouchedFor
  BY DEF Init, TableInv, PinnedIsVouchedFor
<1>3. RunsInv
  BY DEF Init, RunsInv, RunOK, Resting, Seeking, Fanning, Recording, Vouching, NoResolution
<1>4. QED
  BY <1>1, <1>2, <1>3 DEF Inv

-----------------------------------------------------------------------------
(* What the operators return.                                                 *)

\* Whatever the model proposed, grounding leaves CPEs it may name, marked with
\* whether the dictionary had its say.
LEMMA GroundedType ==
  ASSUME NEW proposed \in SUBSET CPEs, NEW g \in Grounded(proposed)
  PROVE  /\ g.cpes \in SUBSET CPEs /\ g.origin \in Origin
         /\ g.origin = "checked" => g.cpes \subseteq Registered
BY RunnerAssumption DEF RunnerAssumption, Grounded, Origin

\* A table without manual rows holds, after an upsert of its only key, that row.
LEMMA UpsertReplaces ==
  ASSUME TypeOK, NEW payload
  PROVE  Upsert(table, ResolutionKey, payload, now)
           = {NewRow(ResolutionKey, payload, now, FALSE)}
<1>1. ManualRows(table, ResolutionKey) = {}
  BY DEF TypeOK, ManualRows
<1>2. Others(table, ResolutionKey) = {}
  BY DEF TypeOK, Others
<1>3. QED
  BY <1>1, <1>2 DEF Upsert

-----------------------------------------------------------------------------
(* Steps that leave the table alone.                                          *)

\* What is said of the table survives a step that leaves it and its history alone.
LEMMA TableKept ==
  ASSUME Inv, UNCHANGED <<table, pinned>>
  PROVE  TableInv' /\ PinnedIsVouchedFor'
BY DEF Inv, TableInv, RowOK, PinnedIsVouchedFor

\* What is said of a run survives a step that leaves the run and the clock alone.
LEMMA RunKept ==
  ASSUME NEW r \in Runs, RunOK(r), now' = now,
         phase'[r] = phase[r], request'[r] = request[r], due'[r] = due[r],
         resolution'[r] = resolution[r], hit'[r] = hit[r], verdict'[r] = verdict[r],
         own'[r] = own[r], queried'[r] = queried[r]
  PROVE  RunOK(r)'
BY DEF RunOK, Resting, Seeking, Fanning, Recording, Vouching, EntityCPEs, CPEsOverridden

\* A step of one run that changes nothing but the run.
OwnStep(r) ==
  \/ Start(r)
  \/ Hit(r)
  \/ Miss(r)
  \/ LookupFails(r)
  \/ Resolve(r)
  \/ ResolveFails(r)
  \/ FanOutEnds(r)
  \/ NotRecorded(r)

\* A step of one run keeps the types.
LEMMA OwnStepType ==
  ASSUME NEW r \in Runs, Inv, OwnStep(r)
  PROVE  TypeOK'
<1> USE DEF Inv, TypeOK
<1>1. CASE Start(r)
  <2>1. PICK q \in Requests :
          /\ request' = [request EXCEPT ![r] = q]
          /\ phase' = [phase EXCEPT ![r] =
               IF HasTTL /\ ~q.noCache THEN "lookup" ELSE "resolve"]
    BY <1>1 DEF Start
  <2>2. request' \in [Runs -> Requests \cup {NoRequest}]
    BY <2>1
  <2>3. (IF HasTTL /\ ~q.noCache THEN "lookup" ELSE "resolve") \in {"lookup", "resolve"}
    OBVIOUS
  <2>4. phase' \in [Runs -> {"idle", "lookup", "resolve", "fanout", "record", "failed"}]
    BY <2>1, <2>3
  <2>5. due' \in [Runs -> Nat]
    BY <1>1, RunnerAssumption DEF Start, RunnerAssumption
  <2>6. QED
    BY <1>1, <2>2, <2>4, <2>5 DEF Start
<1>2. CASE Hit(r)
  <2>1. PICK row \in Usable : resolution' = [resolution EXCEPT ![r] = row.payload]
    BY <1>2 DEF Hit
  <2>2. row.payload \in Resolution
    BY <2>1 DEF Usable, FreshRows
  <2>3. resolution' \in [Runs -> Resolution \cup {NoResolution}]
    BY <2>1, <2>2
  <2>4. QED
    BY <1>2, <2>3 DEF Hit
<1>3. CASE Miss(r) \/ LookupFails(r)
  BY <1>3 DEF Miss, LookupFails
<1>4. CASE Resolve(r)
  <2>1. PICK proposed \in SUBSET CPEs : \E g \in Grounded(proposed) :
          resolution' = [resolution EXCEPT ![r] =
            [cpes |-> g.cpes, origin |-> g.origin, at |-> now]]
    BY <1>4 DEF Resolve
  <2>2. PICK g \in Grounded(proposed) :
          resolution' = [resolution EXCEPT ![r] =
            [cpes |-> g.cpes, origin |-> g.origin, at |-> now]]
    BY <2>1
  <2>3. [cpes |-> g.cpes, origin |-> g.origin, at |-> now] \in Resolution
    BY GroundedType DEF Resolution
  <2>4. resolution' \in [Runs -> Resolution \cup {NoResolution}]
    BY <2>2, <2>3
  <2>5. own' \in [Runs -> Resolution \cup {NoResolution}]
    BY <1>4, <2>4 DEF Resolve
  <2>6. QED
    BY <1>4, <2>4, <2>5 DEF Resolve
<1>5. CASE ResolveFails(r)
  BY <1>5 DEF ResolveFails, Return
<1>6. CASE FanOutEnds(r)
  <2>1. \A asked : VerdictOn(asked) \in {"unknown", "verified", "invented"}
    BY DEF VerdictOn
  <2>2. verdict' \in [Runs -> {"unknown", "verified", "invented"}]
    BY <1>6, <2>1 DEF FanOutEnds
  <2>3. due' \in [Runs -> Nat] /\ phase' = [phase EXCEPT ![r] = "record"]
    BY <1>6, RunnerAssumption DEF FanOutEnds, RunnerAssumption
  <2>4. queried' \in [Runs -> SUBSET CPEs]
    <3>1. EntityCPEs(r) \subseteq CPEs
      <4>1. request[r].cpes \subseteq CPEs
        BY RunnerAssumption DEF RunnerAssumption, NoRequest
      <4>2. resolution[r].cpes \subseteq CPEs
        BY DEF Resolution, NoResolution
      <4>3. QED
        BY <4>1, <4>2 DEF EntityCPEs
    <3>2. PICK asked \in SUBSET (IF NVDEnabled THEN EntityCPEs(r) ELSE {}) :
            queried' = [queried EXCEPT ![r] = asked]
      BY <1>6 DEF FanOutEnds
    <3>3. asked \subseteq CPEs
      BY <3>1, <3>2
    <3>4. QED
      BY <3>2, <3>3
  <2>5. UNCHANGED <<now, table, request, resolution, hit, own, pinned>>
    BY <1>6 DEF FanOutEnds
  <2>6. QED
    BY <2>2, <2>3, <2>4, <2>5
<1>7. CASE NotRecorded(r)
  BY <1>7 DEF NotRecorded, Return
<1>8. QED
  BY <1>1, <1>2, <1>3, <1>4, <1>5, <1>6, <1>7 DEF OwnStep

\* A step of one run keeps what is said of that run.
LEMMA OwnStepRun ==
  ASSUME NEW r \in Runs, Inv, OwnStep(r)
  PROVE  RunOK(r)'
<1> USE RunnerAssumption DEF Inv, TypeOK, RunnerAssumption
<1>1. RunOK(r)
  BY DEF RunsInv
<1> USE DEF RunOK, Resting, Seeking, Fanning, Recording, Vouching
<1>2. CASE Start(r)
  <2>1. PICK q \in Requests :
          /\ request'[r] = q
          /\ phase'[r] = IF HasTTL /\ ~q.noCache THEN "lookup" ELSE "resolve"
    BY <1>2 DEF Start
  <2>2. due'[r] = now + Total /\ hit'[r] = FALSE /\ now' = now /\ own'[r] = own[r]
    BY <1>1, <1>2 DEF Start
  <2>3. Vouching(r)'
    BY <1>1, <2>1, <2>2
  <2>4. (Resting(r) /\ Seeking(r) /\ Fanning(r) /\ Recording(r))'
    BY <2>1, <2>2
  <2>5. QED
    BY <2>3, <2>4
<1>3. CASE Hit(r)
  <2>1. PICK row \in Usable : resolution' = [resolution EXCEPT ![r] = row.payload]
    BY <1>3 DEF Hit
  <2>2. resolution'[r] \in Resolution
    BY <2>1 DEF Usable, FreshRows
  <2>3. /\ now' = now /\ due'[r] = due[r] /\ hit'[r] /\ phase'[r] = "fanout"
        /\ now <= due[r] /\ own'[r] = own[r]
    BY <1>1, <1>3 DEF Hit
  <2>4. Vouching(r)'
    BY <1>1, <2>3
  <2>5. (Resting(r) /\ Seeking(r) /\ Fanning(r) /\ Recording(r))'
    BY <2>2, <2>3
  <2>6. QED
    BY <2>4, <2>5
<1>4. CASE Miss(r) \/ LookupFails(r)
  BY <1>1, <1>4 DEF Miss, LookupFails
<1>5. CASE Resolve(r)
  <2>1. PICK proposed \in SUBSET CPEs : \E g \in Grounded(proposed) :
          resolution'[r] = [cpes |-> g.cpes, origin |-> g.origin, at |-> now]
    BY <1>5 DEF Resolve
  <2>2. PICK g \in Grounded(proposed) :
          resolution'[r] = [cpes |-> g.cpes, origin |-> g.origin, at |-> now]
    BY <2>1
  <2>3. /\ resolution'[r] \in Resolution /\ resolution'[r].at = now
        /\ resolution'[r].origin = "checked" => resolution'[r].cpes \subseteq Registered
    BY <2>2, GroundedType DEF Resolution
  <2>4. /\ now' = now /\ due'[r] = due[r] /\ ~hit'[r] /\ phase'[r] = "fanout"
        /\ now <= due[r] /\ due[r] <= now + Total /\ own'[r] = resolution'[r]
    BY <1>1, <1>5 DEF Resolve
  <2>5. QED
    BY <2>3, <2>4
<1>6. CASE ResolveFails(r) \/ NotRecorded(r)
  BY <1>6 DEF ResolveFails, NotRecorded, Return, NoResolution
<1>7. CASE FanOutEnds(r)
  <2>1. /\ now' = now /\ due'[r] = now + WriteTimeout /\ phase'[r] = "record"
        /\ hit'[r] = hit[r] /\ resolution'[r] = resolution[r]
        /\ resolution[r] \in Resolution
        /\ ~hit[r] => now <= resolution[r].at + Total
    BY <1>1, <1>7 DEF FanOutEnds, Resolution
  <2>2. Vouching(r)'
    <3>1. PICK asked \in SUBSET (IF NVDEnabled THEN EntityCPEs(r) ELSE {}) :
            /\ verdict' = [verdict EXCEPT ![r] = VerdictOn(asked)]
            /\ queried' = [queried EXCEPT ![r] = asked]
      BY <1>7 DEF FanOutEnds
    <3>2. queried'[r] \subseteq EntityCPEs(r) /\ verdict'[r] = VerdictOn(queried'[r])
      BY <3>1
    <3>3. own'[r] = own[r] /\ request'[r] = request[r]
      BY <1>7 DEF FanOutEnds
    <3>4. QED
      BY <1>1, <1>7, <2>1, <3>2, <3>3
         DEF FanOutEnds, EntityCPEs, CPEsOverridden, VerdictOn
  <2>3. QED
    BY <2>1, <2>2 DEF Resolution
<1>8. QED
  BY <1>2, <1>3, <1>4, <1>5, <1>6, <1>7 DEF OwnStep

\* A step of one run changes no other run, and nothing all of them share.
LEMMA OwnStepFrame ==
  ASSUME NEW r \in Runs, TypeOK, OwnStep(r)
  PROVE  /\ UNCHANGED <<now, table, pinned>>
         /\ \A s \in Runs \ {r} :
              /\ phase'[s] = phase[s]
              /\ request'[s] = request[s]
              /\ due'[s] = due[s]
              /\ resolution'[s] = resolution[s]
              /\ hit'[s] = hit[s]
              /\ verdict'[s] = verdict[s]
              /\ own'[s] = own[s]
              /\ queried'[s] = queried[s]
<1> USE DEF TypeOK
<1>1. CASE Start(r) \/ Hit(r) \/ Miss(r) \/ LookupFails(r)
  BY <1>1 DEF Start, Hit, Miss, LookupFails
<1>2. CASE Resolve(r) \/ FanOutEnds(r)
  BY <1>2 DEF Resolve, FanOutEnds
<1>3. CASE ResolveFails(r) \/ NotRecorded(r)
  BY <1>3 DEF ResolveFails, NotRecorded, Return
<1>4. QED
  BY <1>1, <1>2, <1>3 DEF OwnStep

\* A step of one run keeps the invariant.
LEMMA OwnStepInv ==
  ASSUME NEW r \in Runs, Inv, OwnStep(r)
  PROVE  Inv'
<1>1. TypeOK'
  BY OwnStepType
<1>2. TableInv' /\ PinnedIsVouchedFor'
  BY OwnStepFrame, TableKept DEF Inv
<1>3. ASSUME NEW s \in Runs
      PROVE  RunOK(s)'
  <2>1. CASE s = r
    BY <2>1, OwnStepRun
  <2>2. CASE s # r
    BY <2>2, OwnStepFrame, RunKept DEF Inv, RunsInv
  <2>3. QED
    BY <2>1, <2>2
<1>4. QED
  BY <1>1, <1>2, <1>3 DEF Inv, RunsInv

-----------------------------------------------------------------------------
(* The write and the clock.                                                   *)

\* A write replaces the row by one its run vouches for, inside its timeout.
LEMMA RecordInv ==
  ASSUME NEW r \in Runs, Inv, Record(r)
  PROVE  Inv'
<1> USE DEF Inv
<1> DEFINE row == NewRow(ResolutionKey, resolution[r], now, FALSE)
<1>1. table' = {row}
  BY UpsertReplaces DEF Record
<1>2. /\ resolution[r] \in Resolution
      /\ now <= resolution[r].at + Total + WriteTimeout
      /\ resolution[r].cpes # {}
  <2>1. now <= due[r] /\ resolution[r] \in Resolution
    BY DEF Record, RunsInv, RunOK, Recording
  <2>2. ~hit[r] /\ resolution[r].cpes # {}
    BY DEF Record, MayRecord, Cacheable
  <2>3. due[r] <= resolution[r].at + Total + WriteTimeout
    BY <2>2 DEF Record, RunsInv, RunOK, Recording
  <2>4. due[r] \in Nat /\ now \in Nat /\ resolution[r].at \in Nat
    BY <2>1 DEF TypeOK, Resolution
  <2>5. QED
    BY <2>1, <2>2, <2>3, <2>4, RunnerAssumption DEF RunnerAssumption
<1>3. TypeOK'
  <2>1. /\ table' \subseteq [key : {ResolutionKey}, payload : Resolution, at : Nat,
                             manual : {FALSE}]
        /\ OneRowPerKey(table')
    BY <1>1, <1>2 DEF TypeOK, NewRow, OneRowPerKey
  <2>2. pinned' \in [own : Resolution \cup {NoResolution}, queried : SUBSET CPEs]
    BY DEF Record, TypeOK
  <2>3. QED
    BY <2>1, <2>2 DEF TypeOK, Record, Return
<1>4. TableInv'
  BY <1>1, <1>2 DEF TableInv, RowOK, NewRow
<1>5. PinnedIsVouchedFor'
  <2>1. pinned'.own = own[r] /\ pinned'.queried = queried[r] /\ Vouching(r)
    BY DEF Record, RunsInv, RunOK
  <2>2. /\ own[r] = resolution[r]
        /\ queried[r] \subseteq resolution[r].cpes
        /\ queried[r] # {} => queried[r] \cap Registered # {}
    BY <2>1 DEF Record, MayRecord, Vouching, EntityCPEs, VerdictOn
  <2>3. resolution[r].origin = "checked" => resolution[r].cpes \subseteq Registered
    BY <2>1, <2>2 DEF Vouching
  <2>4. resolution[r].origin \in {"checked", "unchecked"}
    BY <1>2 DEF Resolution, Origin
  <2>5. \A q \in table' : q.payload = resolution[r]
    BY <1>1 DEF NewRow
  <2>6. QED
    BY <1>2, <2>1, <2>2, <2>3, <2>4, <2>5 DEF PinnedIsVouchedFor
<1>6. ASSUME NEW s \in Runs
      PROVE  RunOK(s)'
  <2>1. CASE s = r
    BY <2>1 DEF Record, Return, TypeOK, RunOK, Resting, Seeking, Fanning, Recording,
                Vouching, NoResolution
  <2>2. CASE s # r
    <3>1. /\ phase'[s] = phase[s] /\ request'[s] = request[s] /\ due'[s] = due[s]
          /\ resolution'[s] = resolution[s] /\ hit'[s] = hit[s] /\ now' = now
          /\ verdict'[s] = verdict[s] /\ own'[s] = own[s] /\ queried'[s] = queried[s]
      BY <2>2 DEF Record, Return, TypeOK
    <3>2. QED
      BY <3>1, RunKept DEF RunsInv
  <2>3. QED
    BY <2>1, <2>2
<1>7. QED
  BY <1>3, <1>4, <1>5, <1>6 DEF RunsInv

\* The clock moves only while every run is inside its budget.
LEMMA TickInv ==
  ASSUME Inv, Tick
  PROVE  Inv'
<1> USE DEF Inv
<1>1. TypeOK'
  <2>1. now' \in Nat /\ UNCHANGED <<table, pinned, runVars>>
    BY DEF TypeOK, Tick
  <2>2. QED
    BY <2>1 DEF TypeOK, runVars
<1>2. TableInv' /\ PinnedIsVouchedFor'
  BY TableKept DEF Tick
<1>3. ASSUME NEW r \in Runs
      PROVE  RunOK(r)'
  <2>1. RunOK(r) /\ ~OutOfTime(r)
    BY DEF RunsInv, Tick
  <2>2. now \in Nat /\ due[r] \in Nat /\ now' = now + 1 /\ UNCHANGED runVars
    BY DEF TypeOK, Tick
  <2>3. phase[r] \notin {"idle", "failed"} => now' <= due[r]
    BY <2>1, <2>2 DEF OutOfTime
  <2>4. QED
    BY <2>1, <2>2, <2>3, RunnerAssumption
       DEF RunnerAssumption, runVars, RunOK, Resting, Seeking, Fanning, Recording,
           Vouching, EntityCPEs, CPEsOverridden
<1>4. QED
  BY <1>1, <1>2, <1>3 DEF RunsInv

\* Every step keeps the invariant.
LEMMA NextInv == Inv /\ [Next]_vars => Inv'
<1> SUFFICES ASSUME Inv, [Next]_vars PROVE Inv'
  OBVIOUS
<1>1. ASSUME NEW r \in Runs, OwnStep(r)
      PROVE  Inv'
  BY <1>1, OwnStepInv
<1>2. ASSUME NEW r \in Runs, Record(r)
      PROVE  Inv'
  BY <1>2, RecordInv
<1>3. CASE Tick
  BY <1>3, TickInv
<1>4. CASE UNCHANGED vars
  BY <1>4 DEF vars, Inv, TypeOK, TableInv, RowOK, RunsInv, RunOK, Resting, Seeking,
              Fanning, Recording, Vouching, EntityCPEs, CPEsOverridden, PinnedIsVouchedFor
<1>5. QED
  BY <1>1, <1>2, <1>3, <1>4 DEF Next, OwnStep

\* It holds throughout.
LEMMA SpecInv == Spec => []Inv
BY InitInv, NextInv, PTL DEF Spec

-----------------------------------------------------------------------------
(* The theorems.                                                              *)

\* The table holds at most one mapping, no run is in an unknown state (run.go:84-265).
THEOREM TypeCorrect == Spec => []TypeOK
<1>1. Inv => TypeOK
  BY DEF Inv
<1>2. QED
  BY <1>1, SpecInv, PTL

\* The mapping in the cache is the one its run resolved itself, NVD was asked only
\* CPEs of this mapping there and knew one if it was asked any; a mapping without a
\* registered CPE is in the cache only if the dictionary did not check it and NVD
\* was asked none of its CPEs (run.go:230-261, resolve_cpe.go:79-92).
THEOREM OnlyVouchedForIsPinned == Spec => []PinnedIsVouchedFor
<1>1. Inv => PinnedIsVouchedFor
  BY DEF Inv
<1>2. QED
  BY <1>1, SpecInv, PTL

\* A row is written within the two budgets that follow the resolution it holds, so
\* the TTL counts from a date close to the mapping's own (run.go:198-261).
THEOREM RowsAreDated == Spec => []TableInv
<1>1. Inv => TableInv
  BY DEF Inv
<1>2. QED
  BY <1>1, SpecInv, PTL

\* A mapping stops being served TTL after the one run that resolved it, however
\* often it is read, and is never served under --no-cache (run.go:186-213).
THEOREM MappingsDoExpire == Spec => MappingsExpire
<1>1. ASSUME Inv, [Next]_vars, NEW r \in Runs, ~hit[r], hit'[r]
      PROVE  /\ ~request[r].noCache
             /\ now < resolution'[r].at + Total + WriteTimeout + TTL
  <2>1. Hit(r)
    <3>1. ASSUME NEW s \in Runs, OwnStep(s), ~Hit(s)
          PROVE  FALSE
      <4>1. hit' = hit \/ hit' = [hit EXCEPT ![s] = FALSE]
        BY <3>1 DEF OwnStep, Start, Miss, LookupFails, Resolve, ResolveFails, FanOutEnds,
                    NotRecorded, Return
      <4>2. QED
        BY <1>1, <4>1 DEF Inv, TypeOK
    <3>2. ASSUME NEW s \in Runs, Record(s)
          PROVE  FALSE
      BY <1>1, <3>2 DEF Record, Return, Inv, TypeOK
    <3>3. ~Tick /\ ~UNCHANGED vars
      BY <1>1 DEF Tick, runVars, vars
    <3>4. PICK s \in Runs : Hit(s)
      BY <1>1, <3>1, <3>2, <3>3 DEF Next, OwnStep
    <3>5. s = r
      BY <1>1, <3>4 DEF Hit, Inv, TypeOK
    <3>6. QED
      BY <3>4, <3>5
  <2>2. ~request[r].noCache
    BY <1>1, <2>1 DEF Hit, Inv, RunsInv, RunOK, Seeking
  <2>3. PICK row \in Usable : resolution'[r] = row.payload
    BY <1>1, <2>1 DEF Hit, Inv, TypeOK
  <2>4. row \in table /\ row.at > now - TTL
    BY DEF Usable, FreshRows
  <2>5. row.at \in Nat /\ row.payload.at \in Nat /\ now \in Nat
    BY <1>1, <2>4 DEF Inv, TypeOK, Resolution
  <2>6. row.at <= row.payload.at + Total + WriteTimeout
    BY <1>1, <2>4 DEF Inv, TableInv, RowOK
  <2>7. QED
    BY <2>2, <2>3, <2>4, <2>5, <2>6, RunnerAssumption DEF RunnerAssumption
<1>2. Inv /\ [Next]_vars
        => [\A r \in Runs : ~hit[r] /\ hit'[r] =>
              /\ ~request[r].noCache
              /\ now < resolution'[r].at + Total + WriteTimeout + TTL]_vars
  BY <1>1
<1>3. QED
  BY <1>2, SpecInv, PTL DEF Spec, MappingsExpire

-----------------------------------------------------------------------------
(* The resolver. *)

Noted(c) == \E note \in dropped : note.item = c

\* A wildcard NVD registers as a product: no CPE comes of it, and no note.
Unnotable(c) == c \in CPE /\ c.product \in Wildcards /\ IsRegistered(c)

\* A vendor or CPE that may be said to be of a vendor NVD does not know.
RightlyUnknown(item) ==
  /\ item \in Vendors => Rows[item] = <<>>
  /\ item \in CPE => Rows[item.vendor] = <<>> \/ Len(unknown) = MaxVendorCandidates

\* Where resolution stands with the dictionary.
CallInv ==
  /\ stage = "propose" => requests = 0 /\ named = {} /\ dropped = {} /\ unknown = <<>>
  /\ stage = "lookup" =>
       candidates # <<>> /\ requests + Len(candidates) <= MaxVendorCandidates
  /\ stage = "narrow" =>
       /\ candidates # <<>> /\ requests + Len(candidates) <= MaxVendorCandidates + 1
       /\ cat = CataloguePage(Head(candidates), FALSE)
       /\ cat.rows > 0
  /\ stage = "select" =>
       /\ cat \in Catalogue
       /\ cat.products \subseteq ToSet(Rows[cat.vendor])
       /\ cpes = <<>>
  /\ stage \in {"lookup", "narrow", "select"} => dir

\* Where the CPEs went.
AccountInv ==
  /\ \A c \in named : c \in ToSet(cpes) \/ Noted(c) \/ Unnotable(c)
  /\ stage \in {"lookup", "narrow"} => ToSet(cpes) = named \cap CPE
  /\ \A note \in dropped :
       note.why = "vendor unknown" => stage = "done" /\ RightlyUnknown(note.item)
  /\ \A v \in ToSet(unknown) : Rows[v] = <<>>

\* While vendors are tried, those of the CPEs in hand are among the tried and the
\* untried ones, or the cap kept some out and is used up.
WalkInv ==
  stage \in {"lookup", "narrow"} =>
    \/ \A c \in ToSet(cpes) : c.vendor \in ToSet(unknown) \cup ToSet(candidates)
    \/ Len(unknown) + Len(candidates) = MaxVendorCandidates

OriginInv ==
  stage = "done" =>
    IF origin \in Unchecked
      THEN ToSet(cpes) = named \cap CPE
      ELSE dir /\ \A c \in ToSet(cpes) : IsRegistered(c)

ResolverInv == ResolverTypeOK /\ CallInv /\ AccountInv /\ WalkInv /\ OriginInv

-----------------------------------------------------------------------------
(* What the operators return.                                                 *)

\* A cap keeps a beginning, and something of whatever there is.
LEMMA FirstOfProperties ==
  ASSUME NEW T, NEW s \in Seq(T), NEW n \in Nat
  PROVE  /\ FirstOf(s, n) \in Seq(T)
         /\ Len(FirstOf(s, n)) <= n
         /\ ToSet(FirstOf(s, n)) \subseteq ToSet(s)
         /\ s # <<>> /\ n # 0 => FirstOf(s, n) # <<>>
         /\ ToSet(FirstOf(s, n)) = ToSet(s) \/ Len(FirstOf(s, n)) = n
<1>1. PICK m : m = Min({n, Len(s)})
  OBVIOUS
<1>2. Len(s) \in Nat /\ m \in Nat /\ m <= n /\ m <= Len(s) /\ (m = n \/ m = Len(s))
  BY <1>1, MinOfTwo
<1>3. s # <<>> /\ n # 0 => m # 0
  BY <1>1, MinOfTwo
<1>4. PICK t : t = SubSeq(s, 1, m) /\ t = FirstOf(s, n)
  BY <1>1 DEF FirstOf
<1>5. \A i \in 1..m : s[i] \in T /\ i \in 1..Len(s)
  BY <1>2, ElementOfSeq
<1>6. /\ SubSeq(s, 1, m) \in Seq(T) /\ Len(SubSeq(s, 1, m)) = m
      /\ \A i \in 1..m : SubSeq(s, 1, m)[i] = s[i]
  BY <1>2, <1>5, SubSeqProperties
<1>7. t \in Seq(T) /\ Len(t) = m /\ \A i \in 1..m : t[i] = s[i]
  BY <1>4, <1>6, Zenon
<1>8. ToSet(t) \subseteq ToSet(s) /\ (m = Len(s) => ToSet(t) = ToSet(s))
  <2>1. ToSet(t) = {t[i] : i \in 1..m} /\ ToSet(s) = {s[i] : i \in 1..Len(s)}
    BY <1>7, ToSetSeq
  <2>2. QED
    BY <1>5, <1>7, <2>1
<1>9. m # 0 => t # <<>>
  BY <1>7
<1>10. ToSet(t) = ToSet(s) \/ Len(t) = n
  BY <1>2, <1>7, <1>8
<1>11. QED
  BY <1>2, <1>3, <1>4, <1>7, <1>8, <1>9, <1>10

\* What is not well formed goes, and nothing else.
LEMMA WellFormedProperties ==
  ASSUME NEW T, Malformed \notin T, NEW items \in Seq(T \cup {Malformed})
  PROVE  /\ WellFormed(items) \in Seq(T)
         /\ ToSet(WellFormed(items)) = ToSet(items) \ {Malformed}
<1>1. PICK S : S = ToSet(items) \ {Malformed}
  OBVIOUS
<1>2. PICK well : well = Among(items, S) /\ well = WellFormed(items)
  BY <1>1 DEF WellFormed
<1>3. well \in Seq(T \cup {Malformed}) /\ ToSet(well) = ToSet(items) \cap S
  <2>1. /\ Among(items, S) \in Seq(T \cup {Malformed})
        /\ ToSet(Among(items, S)) = ToSet(items) \cap S
    BY AmongProperties
  <2>2. QED
    BY <1>2, <2>1
<1>4. ToSet(well) = ToSet(items) \ {Malformed}
  BY <1>1, <1>3
<1>5. well \in Seq(T)
  <2>1. ToSet(well) = {well[i] : i \in 1..Len(well)} /\ ToSet(items) \subseteq T \cup {Malformed}
    BY <1>3, ToSetSeq
  <2>2. \A i \in 1..Len(well) : well[i] \in T
    BY <1>4, <2>1
  <2>3. QED
    BY <1>3, <2>2
<1>6. QED
  BY <1>2, <1>4, <1>5

\* The vendors to try are no more than the cap, there is one if the model proposed
\* a CPE, and only a cap that is used up leaves the vendor of one out.
LEMMA VendorCandidatesType ==
  ASSUME NEW vendors \in Seq(Vendors), NEW proposed \in Seq(CPE)
  PROVE  /\ VendorCandidates(vendors, proposed) \in Seq(Vendors)
         /\ Len(VendorCandidates(vendors, proposed)) <= MaxVendorCandidates
         /\ proposed # <<>> => VendorCandidates(vendors, proposed) # <<>>
         /\ \/ \A c \in ToSet(proposed) : c.vendor \in ToSet(VendorCandidates(vendors, proposed))
            \/ Len(VendorCandidates(vendors, proposed)) = MaxVendorCandidates
<1> DEFINE theirs == [i \in DOMAIN proposed |-> proposed[i].vendor]
           all == vendors \o theirs
<1>1. theirs \in Seq(Vendors) /\ Len(theirs) = Len(proposed)
  <2>1. \A i \in 1..Len(proposed) : proposed[i].vendor \in Vendors
    <3>1. \A i \in 1..Len(proposed) : proposed[i] \in CPE
      BY ElementOfSeq
    <3>2. QED
      BY <3>1 DEF CPE
  <2>2. QED
    BY <2>1
<1>2. \A c \in ToSet(proposed) : \E i \in 1..Len(theirs) : theirs[i] = c.vendor
  <2>1. ToSet(proposed) = {proposed[i] : i \in 1..Len(proposed)}
    BY ToSetSeq
  <2>2. \A i \in 1..Len(proposed) : theirs[i] = proposed[i].vendor
    OBVIOUS
  <2>3. QED
    BY <1>1, <2>1, <2>2
<1> HIDE DEF theirs
<1>3. /\ all \in Seq(Vendors) /\ Len(all) = Len(vendors) + Len(theirs)
      /\ \A i \in 1..(Len(vendors) + Len(theirs)) :
           all[i] = IF i <= Len(vendors) THEN vendors[i] ELSE theirs[i - Len(vendors)]
  BY <1>1, ConcatProperties
<1>4. proposed # <<>> => all # <<>>
  BY <1>1, <1>3
<1>5. \A c \in ToSet(proposed) : c.vendor \in ToSet(all)
  <2>1. ASSUME NEW i \in 1..Len(theirs)
        PROVE  theirs[i] \in ToSet(all)
    <3>1. Len(vendors) \in Nat /\ Len(theirs) \in Nat
      BY <1>1
    <3>2. /\ i + Len(vendors) \in 1..Len(all)
          /\ ~(i + Len(vendors) <= Len(vendors)) /\ (i + Len(vendors)) - Len(vendors) = i
      BY <1>3, <3>1
    <3>3. all[i + Len(vendors)] = theirs[i]
      BY <1>3, <3>2
    <3>4. ToSet(all) = {all[j] : j \in 1..Len(all)}
      BY <1>3, ToSetSeq
    <3>5. QED
      BY <3>2, <3>3, <3>4
  <2>2. QED
    BY <1>2, <2>1
<1> HIDE DEF all
<1>6. /\ Distinct(all) \in Seq(Vendors) /\ ToSet(Distinct(all)) = ToSet(all)
  BY <1>3, DistinctProperties
<1>7. all # <<>> => Distinct(all) # <<>>
  <2>1. all # <<>> => all[1] \in ToSet(all)
    BY <1>3 DEF ToSet
  <2>2. ToSet(<<>>) = {}
    BY DEF ToSet
  <2>3. QED
    BY <1>6, <2>1, <2>2
<1>8. MaxVendorCandidates \in Nat \ {0}
  BY ResolverAssumption DEF ResolverAssumption
<1>9. /\ FirstOf(Distinct(all), MaxVendorCandidates) \in Seq(Vendors)
      /\ Len(FirstOf(Distinct(all), MaxVendorCandidates)) <= MaxVendorCandidates
      /\ Distinct(all) # <<>> => FirstOf(Distinct(all), MaxVendorCandidates) # <<>>
      /\ \/ ToSet(FirstOf(Distinct(all), MaxVendorCandidates)) = ToSet(Distinct(all))
         \/ Len(FirstOf(Distinct(all), MaxVendorCandidates)) = MaxVendorCandidates
  BY <1>6, <1>8, FirstOfProperties
<1>10. VendorCandidates(vendors, proposed) = FirstOf(Distinct(all), MaxVendorCandidates)
  BY DEF VendorCandidates, all, theirs
<1>11. QED
  BY <1>4, <1>5, <1>6, <1>7, <1>9, <1>10

\* A page lists registered products of its vendor, and counts what there is.
LEMMA CataloguePageType ==
  ASSUME NEW v \in Vendors, NEW narrowed \in BOOLEAN
  PROVE  /\ CataloguePage(v, narrowed) \in Catalogue
         /\ CataloguePage(v, narrowed).vendor = v
         /\ CataloguePage(v, narrowed).products \subseteq ToSet(Rows[v])
         /\ ~narrowed => /\ CataloguePage(v, narrowed).rows = 0 => Rows[v] = <<>>
                         /\ CataloguePage(v, narrowed).view # "complete" =>
                              CataloguePage(v, narrowed).rows > 0
<1>1. Rows[v] \in Seq(Products) /\ PageSize \in Nat \ {0}
  BY ResolverAssumption DEF ResolverAssumption
<1>2. PICK rows : rows = IF narrowed THEN Among(Rows[v], Matching) ELSE Rows[v]
  OBVIOUS
<1>3. rows \in Seq(Products) /\ ToSet(rows) \subseteq ToSet(Rows[v])
  <2>1. /\ Among(Rows[v], Matching) \in Seq(Products)
        /\ ToSet(Among(Rows[v], Matching)) = ToSet(Rows[v]) \cap Matching
    BY <1>1, AmongProperties
  <2>2. QED
    BY <1>1, <1>2, <2>1
<1>4. PICK page : page = FirstOf(rows, PageSize)
  OBVIOUS
<1>5. page \in Seq(Products) /\ ToSet(page) \subseteq ToSet(rows)
  BY <1>1, <1>3, <1>4, FirstOfProperties
<1>6. ToSet(page) \subseteq Products
  BY <1>5, ToSetSeq
<1>7. Len(rows) \in Nat
  BY <1>3
<1>8. PICK view : view = CASE narrowed -> "narrowed"
                           [] ~narrowed /\ Len(rows) <= PageSize -> "complete"
                           [] OTHER -> "first page"
  OBVIOUS
<1>9. CataloguePage(v, narrowed) =
        [vendor |-> v, products |-> ToSet(page), rows |-> Len(rows), view |-> view]
  <2>1. CataloguePage(v, narrowed) =
          [vendor |-> v,
           products |-> ProductsOf(FirstOf(rows, PageSize)),
           rows |-> Len(rows),
           view |-> CASE narrowed -> "narrowed"
                      [] ~narrowed /\ Len(rows) <= PageSize -> "complete"
                      [] OTHER -> "first page"]
    BY <1>2, Zenon DEF CataloguePage
  <2>2. QED
    BY <1>4, <1>8, <2>1 DEF ProductsOf
<1>10. [vendor |-> v, products |-> ToSet(page), rows |-> Len(rows), view |-> view] \in Catalogue
  <2>1. view \in {"complete", "narrowed", "first page"}
    <3>1. CASE narrowed
      BY <1>8, <3>1
    <3>2. CASE ~narrowed /\ Len(rows) <= PageSize
      BY <1>8, <3>2
    <3>3. CASE ~narrowed /\ ~(Len(rows) <= PageSize)
      BY <1>8, <3>3
    <3>4. QED
      BY <3>1, <3>2, <3>3
  <2>2. QED
    BY <1>6, <1>7, <2>1 DEF Catalogue
<1>11. ~narrowed /\ view # "complete" => Len(rows) > 0
  <2>1. ~narrowed /\ Len(rows) <= PageSize => view = "complete"
    BY <1>8
  <2>2. ~(Len(rows) <= PageSize) => Len(rows) > 0
    BY <1>1, <1>7
  <2>3. QED
    BY <2>1, <2>2
<1>12. ~narrowed /\ Len(rows) = 0 => Rows[v] = <<>>
  <2>1. Len(rows) = 0 => rows = <<>>
    BY <1>3
  <2>2. ~narrowed => rows = Rows[v]
    BY <1>2
  <2>3. QED
    BY <2>1, <2>2
<1>13. QED
  BY <1>3, <1>5, <1>9, <1>10, <1>11, <1>12

\* What a catalogue confirms was proposed, and is registered under its vendor.
LEMMA ConfirmedProperties ==
  ASSUME NEW c \in Catalogue, c.products \subseteq ToSet(Rows[c.vendor]), cpes \in Seq(CPE)
  PROVE  /\ Confirmed(c) \in Seq(CPE)
         /\ ToSet(Confirmed(c)) \subseteq ToSet(cpes)
         /\ \A p \in ToSet(Confirmed(c)) : IsRegistered(p)
<1>1. PICK S : S = [vendor : {c.vendor}, product : c.products]
  OBVIOUS
<1>2. Confirmed(c) = Among(cpes, S)
  BY <1>1 DEF Confirmed
<1>3. Among(cpes, S) \in Seq(CPE) /\ ToSet(Among(cpes, S)) = ToSet(cpes) \cap S
  BY AmongProperties
<1>4. \A p \in S : IsRegistered(p)
  BY <1>1 DEF IsRegistered
<1>5. QED
  BY <1>2, <1>3, <1>4

\* Picks that the catalogue lists are kept up to the cap.
LEMMA AcceptedProperties ==
  ASSUME cat \in Catalogue, NEW picks \in Seq(Products)
  PROVE  /\ Accepted(picks) \in Seq(Products)
         /\ ToSet(Accepted(picks)) = ToSet(picks) \cap cat.products
<1>1. PICK S : S = cat.products
  OBVIOUS
<1>2. PICK listed : listed = Among(picks, S)
  OBVIOUS
<1>3. listed \in Seq(Products) /\ ToSet(listed) = ToSet(picks) \cap S
  BY <1>2, AmongProperties
<1>4. Distinct(listed) \in Seq(Products) /\ ToSet(Distinct(listed)) = ToSet(listed)
  BY <1>3, DistinctProperties
<1>5. QED
  BY <1>1, <1>2, <1>3, <1>4 DEF Accepted

\* The notes of items that may have one.
Item == CPE \cup Vendors \cup {Malformed, NoItem}
Note == [item : Item, why : Reasons]

\* They are a sequence of notes.
LEMMA NotesType ==
  ASSUME NEW items \in SUBSET Item, NEW why \in Reasons
  PROVE  /\ Notes(items, why) \subseteq Note
         /\ \A note \in Notes(items, why) : note.item \in items /\ note.why = why
         /\ \A i \in items : \E note \in Notes(items, why) : note.item = i
<1>1. Notes(items, why) = {[item |-> i, why |-> why] : i \in items}
  BY DEF Notes
<1>2. \A i \in items : [item |-> i, why |-> why] \in Note
  BY DEF Note
<1>3. \A i \in items : [item |-> i, why |-> why].item = i /\ [item |-> i, why |-> why].why = why
  OBVIOUS
<1>4. QED
  BY <1>1, <1>2, <1>3

-----------------------------------------------------------------------------
(* The invariant is inductive.                                                *)

\* It holds at first,
LEMMA ResolverInitInv ==
  ASSUME ResolverInit
  PROVE  ResolverInv
<1>1. MaxVendorCandidates \in Nat \ {0}
  BY ResolverAssumption DEF ResolverAssumption
<1>2. ToSet(<<>>) = {}
  BY DEF ToSet
<1>3. ResolverTypeOK
  BY <1>1 DEF ResolverInit, ResolverTypeOK
<1>4. CallInv /\ AccountInv /\ WalkInv /\ OriginInv
  BY <1>2 DEF ResolverInit, CallInv, AccountInv, WalkInv, OriginInv
<1>5. QED
  BY <1>3, <1>4 DEF ResolverInv

\* ... when the model proposes,
LEMMA ProposeInv ==
  ASSUME ResolverInv, Propose
  PROVE  ResolverInv'
<1>1. PICK reply \in Replies :
        LET vendors  == WellFormed(reply.vendors)
            proposed == WellFormed(reply.cpes)
        IN  /\ named' = ToSet(reply.cpes)
            /\ dropped' = Notes((ToSet(reply.vendors) \cup ToSet(reply.cpes)) \cap {Malformed},
                                "malformed")
            /\ candidates' = VendorCandidates(vendors, proposed)
            /\ cpes' = proposed
  BY DEF Propose
<1>2. /\ reply.vendors \in Seq(Vendors \cup {Malformed})
      /\ reply.cpes \in Seq(CPE \cup {Malformed})
      /\ Malformed \notin Vendors /\ Malformed \notin CPE
      /\ MaxVendorCandidates \in Nat \ {0}
  BY ResolverAssumption DEF ResolverAssumption
<1> DEFINE vendors  == WellFormed(reply.vendors)
           proposed == WellFormed(reply.cpes)
<1>3. /\ vendors \in Seq(Vendors)
      /\ proposed \in Seq(CPE)
      /\ ToSet(proposed) = ToSet(reply.cpes) \ {Malformed}
  BY <1>2, WellFormedProperties
<1>4. /\ named' = ToSet(reply.cpes)
      /\ dropped' = Notes((ToSet(reply.vendors) \cup ToSet(reply.cpes)) \cap {Malformed},
                          "malformed")
      /\ candidates' = VendorCandidates(vendors, proposed)
      /\ cpes' = proposed
  BY <1>1
<1> HIDE DEF vendors, proposed
<1>5. /\ candidates' \in Seq(Vendors)
      /\ Len(candidates') <= MaxVendorCandidates
      /\ proposed # <<>> => candidates' # <<>>
      /\ \/ \A c \in ToSet(proposed) : c.vendor \in ToSet(candidates')
         \/ Len(candidates') = MaxVendorCandidates
  BY <1>3, <1>4, VendorCandidatesType
<1>6. /\ dropped' \subseteq Note
      /\ \A note \in dropped' : note.why = "malformed"
      /\ Malformed \in named' => Noted(Malformed)'
  <2>1. PICK items \in SUBSET Item :
          items = (ToSet(reply.vendors) \cup ToSet(reply.cpes)) \cap {Malformed}
    BY DEF Item
  <2>2. /\ Notes(items, "malformed") \subseteq Note
        /\ \A note \in Notes(items, "malformed") : note.why = "malformed"
        /\ \A i \in items : \E note \in Notes(items, "malformed") : note.item = i
    BY NotesType DEF Reasons
  <2>3. dropped' = Notes(items, "malformed")
    BY <1>4, <2>1
  <2>4. Malformed \in named' => Malformed \in items
    BY <1>4, <2>1
  <2>5. QED
    BY <2>2, <2>3, <2>4 DEF Noted
<1>7. named' \subseteq CPE \cup {Malformed} /\ ToSet(cpes') = named' \ {Malformed}
  BY <1>2, <1>3, <1>4, ToSetSeq
<1>8. ToSet(cpes') = named' \cap CPE
  BY <1>2, <1>7
<1>9. /\ requests = 0 /\ unknown = <<>> /\ UNCHANGED <<dir, unknown, cat, requests>>
  BY DEF Propose, ResolverInv, CallInv
<1>10. \/ ~dir /\ stage' = "done" /\ origin' = "nvd disabled"
       \/ dir /\ candidates' = <<>> /\ stage' = "done" /\ origin' = "no vendor"
       \/ dir /\ candidates' # <<>> /\ stage' = "lookup" /\ origin' = origin
  BY DEF Propose, End
<1>11. ResolverTypeOK'
  <2>1. stage' \in {"propose", "lookup", "narrow", "select", "done", "failed"}
    BY <1>10
  <2>2. origin' \in Checked \cup Unchecked \cup {"none"}
    BY <1>10 DEF ResolverInv, ResolverTypeOK, Checked, Unchecked
  <2>3. cpes' \in Seq(CPE)
    BY <1>3, <1>4
  <2>4. QED
    BY <1>5, <1>6, <1>7, <1>9, <2>1, <2>2, <2>3 DEF ResolverInv, ResolverTypeOK, Note, Item
<1>12. CallInv'
  <2>1. Len(candidates') \in Nat
    BY <1>5
  <2>2. requests' = 0 /\ requests' + Len(candidates') <= MaxVendorCandidates
    BY <1>2, <1>5, <1>9, <2>1
  <2>3. QED
    BY <1>9, <1>10, <2>2 DEF CallInv
<1>13. AccountInv'
  <2>1. ToSet(unknown') = {}
    BY <1>9 DEF ToSet
  <2>2. \A c \in named' : c \in ToSet(cpes') \/ Noted(c)'
    BY <1>6, <1>7
  <2>3. QED
    BY <1>6, <1>8, <2>1, <2>2 DEF AccountInv
<1>14. OriginInv'
  <2>1. ToSet(<<>>) = {}
    BY DEF ToSet
  <2>2. candidates' = <<>> => ToSet(cpes') = {}
    BY <1>4, <1>5, <2>1
  <2>3. QED
    BY <1>8, <1>9, <1>10, <2>2 DEF OriginInv, Unchecked
<1>15. WalkInv'
  <2>1. Len(unknown') = 0 /\ Len(candidates') \in Nat
    BY <1>5, <1>9
  <2>2. Len(unknown') + Len(candidates') = Len(candidates')
    BY <2>1
  <2>3. QED
    BY <1>4, <1>5, <2>2 DEF WalkInv
<1>16. QED
  BY <1>11, <1>12, <1>13, <1>14, <1>15 DEF ResolverInv

\* One more element.
LEMMA ToSetAppend ==
  ASSUME NEW T, NEW s \in Seq(T), NEW e \in T
  PROVE  ToSet(Append(s, e)) = ToSet(s) \cup {e}
<1> DEFINE t == Append(s, e)
           n == Len(s)
<1>1. /\ n \in Nat /\ t \in Seq(T) /\ Len(t) = n + 1
      /\ \A i \in 1..n : t[i] = s[i]
      /\ t[n + 1] = e
  BY AppendProperties
<1> HIDE DEF t, n
<1>2. \A i \in 1..(n + 1) : i \in 1..n \/ i = n + 1
  BY <1>1
<1>3. n + 1 \in 1..(n + 1) /\ \A i \in 1..n : i \in 1..(n + 1)
  BY <1>1
<1>4. ToSet(t) = {t[i] : i \in 1..(n + 1)} /\ ToSet(s) = {s[i] : i \in 1..n}
  BY <1>1, ToSetSeq DEF n
<1>5. QED
  BY <1>1, <1>2, <1>3, <1>4 DEF t

\* The dictionary is asked no more often than the candidates and one narrowing.
LEMMA RequestsBounded ==
  ASSUME ResolverInv, stage \in {"lookup", "narrow"}
  PROVE  requests + 1 \in 0..(MaxVendorCandidates + 1)
<1>1. /\ candidates \in Seq(Vendors) /\ candidates # <<>>
      /\ requests + Len(candidates) <= MaxVendorCandidates + 1
      /\ requests \in Nat /\ MaxVendorCandidates \in Nat
  <2>1. requests \in Nat /\ MaxVendorCandidates \in Nat /\ candidates \in Seq(Vendors)
    BY ResolverAssumption DEF ResolverInv, ResolverTypeOK, ResolverAssumption
  <2>2. Len(candidates) \in Nat
    BY <2>1
  <2>3. CASE stage = "lookup"
    BY <2>1, <2>2, <2>3 DEF ResolverInv, CallInv
  <2>4. CASE stage = "narrow"
    BY <2>1, <2>2, <2>4 DEF ResolverInv, CallInv
  <2>5. QED
    BY <2>3, <2>4
<1>2. Len(candidates) \in Nat \ {0}
  BY <1>1
<1>3. QED
  BY <1>1, <1>2

\* A catalogue is in hand of a vendor NVD knows: it confirms or becomes the choice.
LEMMA KnownVendor ==
  ASSUME ResolverInv, stage \in {"lookup", "narrow"}, NEW c \in Catalogue,
         c.products \subseteq ToSet(Rows[c.vendor]),
         Confirm(c) \/ OfferCatalogue(c),
         requests' = requests + 1, UNCHANGED <<dir, named>>
  PROVE  ResolverInv'
<1>1. /\ dir /\ cpes \in Seq(CPE) /\ ToSet(cpes) \subseteq CPE
      /\ dropped \subseteq Note
  BY ToSetSeq DEF ResolverInv, CallInv, ResolverTypeOK, Note, Item
<1>2. /\ Confirmed(c) \in Seq(CPE)
      /\ ToSet(Confirmed(c)) \subseteq ToSet(cpes)
      /\ \A p \in ToSet(Confirmed(c)) : IsRegistered(p)
  BY <1>1, ConfirmedProperties
<1>3. ToSet(<<>>) = {}
  BY DEF ToSet
<1>4. /\ cpes' = Confirmed(c)
      /\ dropped' = dropped \cup Notes(ToSet(cpes) \ ToSet(cpes'), "not registered")
      /\ cat' = c
      /\ \/ stage' = "done" /\ origin' = "confirmed"
         \/ stage' = "select" /\ cpes' = <<>> /\ origin' = origin
      /\ UNCHANGED <<candidates, unknown>>
  BY <1>3 DEF Confirm, OfferCatalogue, End
<1>5. PICK gone \in SUBSET Item : gone = ToSet(cpes) \ ToSet(cpes')
  BY <1>1 DEF Item
<1>6. /\ Notes(gone, "not registered") \subseteq Note
      /\ \A note \in Notes(gone, "not registered") : note.why = "not registered"
      /\ \A i \in gone : \E note \in Notes(gone, "not registered") : note.item = i
  <2>1. "not registered" \in Reasons
    BY DEF Reasons
  <2>2. QED
    BY <2>1, NotesType
<1>7. dropped' = dropped \cup Notes(gone, "not registered")
  BY <1>4, <1>5
<1>8. requests' \in 0..(MaxVendorCandidates + 1)
  BY RequestsBounded
<1>9. ResolverTypeOK'
  BY <1>1, <1>2, <1>4, <1>6, <1>7, <1>8 DEF ResolverInv, ResolverTypeOK, Note, Item, Checked
<1>10. CallInv'
  BY <1>1, <1>4 DEF CallInv
<1>11. AccountInv'
  <2>1. \A x \in named' : x \in ToSet(cpes') \/ Noted(x)' \/ Unnotable(x)
    BY <1>5, <1>6, <1>7 DEF ResolverInv, AccountInv, Noted
  <2>2. \A note \in dropped' : note.why # "vendor unknown"
    BY <1>6, <1>7 DEF ResolverInv, AccountInv
  <2>3. QED
    BY <1>4, <2>1, <2>2 DEF ResolverInv, AccountInv, Unnotable, IsRegistered
<1>12. OriginInv' /\ WalkInv'
  BY <1>1, <1>2, <1>4 DEF OriginInv, WalkInv, Unchecked
<1>13. QED
  BY <1>9, <1>10, <1>11, <1>12 DEF ResolverInv

\* NVD does not know the vendor.
LEMMA UnknownVendorInv ==
  ASSUME ResolverInv, stage = "lookup", Rows[Head(candidates)] = <<>>,
         UnknownVendor(Head(candidates)),
         requests' = requests + 1, UNCHANGED <<dir, named>>
  PROVE  ResolverInv'
<1> DEFINE v == Head(candidates)
<1>1. /\ dir /\ cpes \in Seq(CPE) /\ ToSet(cpes) \subseteq CPE /\ dropped \subseteq Note
      /\ candidates \in Seq(Vendors) /\ candidates # <<>> /\ unknown \in Seq(Vendors)
      /\ requests + Len(candidates) <= MaxVendorCandidates
      /\ requests \in Nat /\ MaxVendorCandidates \in Nat
  BY ToSetSeq, ResolverAssumption DEF ResolverInv, CallInv, ResolverTypeOK, Note, Item, ResolverAssumption
<1>2. /\ v \in Vendors /\ Tail(candidates) \in Seq(Vendors)
      /\ Len(Tail(candidates)) = Len(candidates) - 1
  BY <1>1, HeadTailProperties
<1>3. /\ unknown' = Append(unknown, v) /\ candidates' = Tail(candidates)
      /\ cat' = NoCatalogue
  BY DEF UnknownVendor
<1> HIDE DEF v
<1>4. /\ unknown' \in Seq(Vendors) /\ candidates' \in Seq(Vendors)
      /\ requests' + Len(candidates') <= MaxVendorCandidates
      /\ Len(candidates') <= MaxVendorCandidates
  <2>1. Len(candidates) \in Nat
    BY <1>1
  <2>2. QED
    BY <1>1, <1>2, <1>3, <2>1, AppendProperties
<1>5. ToSet(unknown') = ToSet(unknown) \cup {v}
  BY <1>1, <1>2, <1>3, ToSetAppend
<1>6. \A u \in ToSet(unknown') : Rows[u] = <<>> /\ u \in Vendors
  <2>1. \A u \in ToSet(unknown) : Rows[u] = <<>> /\ u \in Vendors
    BY <1>1, ToSetSeq DEF ResolverInv, AccountInv
  <2>2. Rows[v] = <<>>
    BY DEF v
  <2>3. QED
    BY <1>2, <1>5, <2>1, <2>2
<1>7. requests' \in 0..(MaxVendorCandidates + 1)
  BY RequestsBounded
<1>8. ToSet(unknown) \cup ToSet(candidates) \subseteq ToSet(unknown') \cup ToSet(candidates')
  <2>1. ToSet(candidates) \subseteq {v} \cup ToSet(candidates')
    <3>1. /\ \A i \in 1..Len(candidates') : candidates'[i] = candidates[i + 1]
          /\ v = candidates[1] /\ Len(candidates') = Len(candidates) - 1
          /\ Len(candidates) \in Nat
      BY <1>1, <1>2, <1>3, HeadTailProperties DEF v
    <3>2. ASSUME NEW i \in 1..Len(candidates)
          PROVE  i = 1 \/ (i - 1 \in 1..Len(candidates') /\ candidates'[i - 1] = candidates[i])
      <4>1. i # 1 => i - 1 \in 1..Len(candidates') /\ (i - 1) + 1 = i
        BY <3>1
      <4>2. QED
        BY <3>1, <4>1
    <3>3. /\ ToSet(candidates) = {candidates[i] : i \in 1..Len(candidates)}
          /\ ToSet(candidates') = {candidates'[i] : i \in 1..Len(candidates')}
      BY <1>1, <1>4, ToSetSeq
    <3>4. QED
      BY <3>1, <3>2, <3>3
  <2>2. QED
    BY <1>5, <2>1
<1>9. Len(unknown') + Len(candidates') = Len(unknown) + Len(candidates)
  <2>1. Len(unknown') = Len(unknown) + 1 /\ Len(candidates') = Len(candidates) - 1
    BY <1>1, <1>2, <1>3, AppendProperties
  <2>2. Len(unknown) \in Nat /\ Len(candidates) \in Nat
    BY <1>1
  <2>3. QED
    BY <2>1, <2>2
<1>10. CASE candidates' # <<>> /\ stage' = "lookup" /\ UNCHANGED <<cpes, dropped, origin>>
  <2>1. ResolverTypeOK'
    BY <1>1, <1>3, <1>4, <1>7, <1>10 DEF ResolverInv, ResolverTypeOK
  <2>2. CallInv' /\ OriginInv'
    BY <1>1, <1>4, <1>10 DEF CallInv, OriginInv
  <2>3. AccountInv'
    <3>1. \A x \in named' : x \in ToSet(cpes') \/ Noted(x)' \/ Unnotable(x)
      BY <1>10 DEF ResolverInv, AccountInv, Noted
    <3>2. \A note \in dropped' : note.why # "vendor unknown"
      BY <1>10 DEF ResolverInv, AccountInv
    <3>3. ToSet(cpes') = named' \cap CPE
      BY <1>10 DEF ResolverInv, AccountInv
    <3>4. QED
      BY <1>6, <3>1, <3>2, <3>3 DEF AccountInv, Unnotable, IsRegistered
  <2>4. WalkInv'
    <3>1. cpes' = cpes
      BY <1>10
    <3>2. QED
      BY <1>8, <1>9, <3>1 DEF ResolverInv, WalkInv
  <2>5. QED
    BY <2>1, <2>2, <2>3, <2>4 DEF ResolverInv
<1>11. CASE /\ dropped' = dropped \cup Notes(ToSet(unknown') \cup ToSet(cpes), "vendor unknown")
           /\ candidates' = <<>> /\ cpes' = <<>> /\ stage' = "done" /\ origin' = "vendor unknown"
  <2>1. cpes' \in Seq(CPE) /\ ToSet(cpes') = {}
    <3>1. ToSet(<<>>) = {}
      BY DEF ToSet
    <3>2. <<>> \in Seq(CPE)
      OBVIOUS
    <3>3. cpes' = <<>>
      BY <1>11
    <3>4. QED
      BY <3>1, <3>2, <3>3, Zenon
  <2>2. PICK gone \in SUBSET Item : gone = ToSet(unknown') \cup ToSet(cpes)
    BY <1>1, <1>6 DEF Item
  <2>3. /\ Notes(gone, "vendor unknown") \subseteq Note
        /\ \A note \in Notes(gone, "vendor unknown") : note.item \in gone
        /\ \A i \in gone : \E note \in Notes(gone, "vendor unknown") : note.item = i
    BY NotesType DEF Reasons
  <2>4. dropped' = dropped \cup Notes(gone, "vendor unknown")
    BY <1>11, <2>2
  <2>5. ResolverTypeOK'
    <3>1. dropped' \subseteq Note
      BY <1>1, <2>3, <2>4
    <3>2. origin' \in Checked \cup Unchecked \cup {"none"}
      BY <1>11 DEF Checked
    <3>3. stage' \in {"propose", "lookup", "narrow", "select", "done", "failed"}
      BY <1>11
    <3>4. QED
      BY <1>3, <1>4, <1>7, <2>1, <3>1, <3>2, <3>3 DEF ResolverInv, ResolverTypeOK, Note, Item
  <2>6. CallInv' /\ OriginInv'
    BY <1>1, <1>11, <2>1 DEF CallInv, OriginInv, Unchecked
  <2>7. AccountInv'
    <3>1. \A x \in named' : Noted(x)' \/ Unnotable(x)
      BY <2>2, <2>3, <2>4 DEF ResolverInv, AccountInv, Noted
    <3>2. \A i \in gone : i \in Vendors => Rows[i] = <<>>
      BY <1>1, <1>6, <2>2, ResolverAssumption DEF ResolverAssumption
    <3>3. \A i \in gone : i \in CPE => i \in ToSet(cpes)
      BY <1>6, <2>2, ResolverAssumption DEF ResolverAssumption
    <3>4. \/ \A i \in ToSet(cpes) : i.vendor \in ToSet(unknown')
          \/ Len(unknown') = MaxVendorCandidates
      <4>1. PICK none : none = <<>> /\ none = candidates'
        BY <1>11
      <4>2. Len(none) = 0 /\ ToSet(none) = {}
        BY <4>1 DEF ToSet
      <4>3. Len(unknown') \in Nat
        BY <1>4
      <4>4. Len(unknown') + Len(candidates') = Len(unknown')
        BY <4>1, <4>2, <4>3
      <4>5. ToSet(candidates') = {}
        BY <4>1, <4>2, Zenon
      <4>6. QED
        BY <1>8, <1>9, <4>4, <4>5 DEF ResolverInv, WalkInv
    <3>5. \A i \in gone : RightlyUnknown(i)'
      BY <1>6, <3>2, <3>3, <3>4 DEF RightlyUnknown
    <3>6. \A note \in dropped' : note.why = "vendor unknown" => RightlyUnknown(note.item)'
      BY <2>3, <2>4, <3>5 DEF ResolverInv, AccountInv
    <3>7. stage' = "done"
      BY <1>11
    <3>8. QED
      BY <1>6, <3>1, <3>6, <3>7 DEF AccountInv, Unnotable, IsRegistered
  <2>8. WalkInv'
    BY <1>11 DEF WalkInv
  <2>9. QED
    BY <2>5, <2>6, <2>7, <2>8 DEF ResolverInv
<1>12. QED
  BY <1>10, <1>11 DEF UnknownVendor, End

\* ... when a vendor's products are looked up,
LEMMA LookUpInv ==
  ASSUME ResolverInv, LookUp
  PROVE  ResolverInv'
<1> DEFINE v == Head(candidates)
           page == CataloguePage(v, FALSE)
<1>1. /\ stage = "lookup" /\ dir /\ candidates \in Seq(Vendors) /\ candidates # <<>>
      /\ requests + Len(candidates) <= MaxVendorCandidates
      /\ requests' = requests + 1 /\ UNCHANGED <<dir, named>>
  BY DEF LookUp, ResolverInv, ResolverTypeOK, CallInv
<1>2. v \in Vendors
  BY <1>1, HeadTailProperties
<1>3. /\ page \in Catalogue /\ page.vendor = v
      /\ page.products \subseteq ToSet(Rows[v])
      /\ page.rows = 0 => Rows[v] = <<>>
      /\ page.view # "complete" => page.rows > 0
  BY <1>2, CataloguePageType
<1>4. \/ page.view = "complete" /\ Found(page)
      \/ /\ page.view # "complete" /\ cat' = page /\ stage' = "narrow"
         /\ UNCHANGED <<candidates, unknown, cpes, dropped, origin>>
  BY DEF LookUp
<1> HIDE DEF page
<1>5. CASE page.rows = 0 /\ UnknownVendor(page.vendor)
  BY <1>1, <1>3, <1>5, UnknownVendorInv
<1>6. CASE Confirm(page) \/ OfferCatalogue(page)
  <2>1. page.products \subseteq ToSet(Rows[page.vendor]) /\ stage \in {"lookup", "narrow"}
    BY <1>1, <1>3
  <2>2. QED
    BY <1>1, <1>3, <1>6, <2>1, KnownVendor
<1>7. CASE /\ page.view # "complete" /\ cat' = page /\ stage' = "narrow"
           /\ UNCHANGED <<candidates, unknown, cpes, dropped, origin>>
  <2>1. requests' \in 0..(MaxVendorCandidates + 1)
    BY <1>1, RequestsBounded
  <2>2. ResolverTypeOK'
    BY <1>1, <1>3, <1>7, <2>1 DEF ResolverInv, ResolverTypeOK
  <2>3. requests' + Len(candidates') <= MaxVendorCandidates + 1
    <3>1. Len(candidates) \in Nat /\ requests \in Nat /\ MaxVendorCandidates \in Nat
      BY <1>1, ResolverAssumption DEF ResolverInv, ResolverTypeOK, ResolverAssumption
    <3>2. QED
      BY <1>1, <1>7, <3>1
  <2>4. cat' = CataloguePage(Head(candidates'), FALSE) /\ cat'.rows > 0
    BY <1>3, <1>7 DEF page
  <2>5. CallInv' /\ OriginInv'
    BY <1>1, <1>7, <2>3, <2>4 DEF CallInv, OriginInv
  <2>6. AccountInv'
    <3>1. \A note \in dropped' : note.why # "vendor unknown"
      BY <1>1, <1>7 DEF ResolverInv, AccountInv
    <3>2. QED
      BY <1>1, <1>7, <3>1 DEF ResolverInv, AccountInv, Noted, Unnotable, IsRegistered
  <2>7. WalkInv'
    BY <1>1, <1>7 DEF ResolverInv, WalkInv
  <2>8. QED
    BY <2>2, <2>5, <2>6, <2>7 DEF ResolverInv
<1>8. QED
  BY <1>4, <1>5, <1>6, <1>7 DEF Found

\* ... when they are narrowed to the names,
LEMMA NarrowInv ==
  ASSUME ResolverInv, Narrow
  PROVE  ResolverInv'
<1> DEFINE v == Head(candidates)
           page == CataloguePage(v, TRUE)
           better == BetterOf(cat, page)
<1>1. /\ stage = "narrow" /\ candidates \in Seq(Vendors) /\ candidates # <<>>
      /\ cat = CataloguePage(v, FALSE) /\ cat.rows > 0
      /\ requests' = requests + 1 /\ UNCHANGED <<dir, named>>
      /\ Found(better)
  BY DEF Narrow, ResolverInv, ResolverTypeOK, CallInv
<1>2. v \in Vendors
  BY <1>1, HeadTailProperties
<1>3. /\ cat \in Catalogue /\ cat.vendor = v /\ cat.products \subseteq ToSet(Rows[v])
      /\ page \in Catalogue /\ page.vendor = v /\ page.products \subseteq ToSet(Rows[v])
  BY <1>1, <1>2, CataloguePageType
<1> HIDE DEF page, v
<1>4. /\ better \in Catalogue /\ better.products \subseteq ToSet(Rows[better.vendor])
      /\ better.rows # 0
  <2>1. better = cat \/ (better = page /\ page.rows # 0)
    BY DEF BetterOf
  <2>2. cat.rows \in Nat /\ cat.rows > 0
    <3>1. cat.rows \in Nat
      BY <1>3 DEF Catalogue
    <3>2. cat.rows > 0
      BY <1>1, Zenon
    <3>3. QED
      BY <3>1, <3>2
  <2>3. CASE better = cat
    <3>1. cat.rows # 0
      BY <2>2
    <3>2. QED
      BY <1>3, <2>3, <3>1
  <2>4. CASE better = page /\ page.rows # 0
    BY <1>3, <2>4
  <2>5. QED
    BY <2>1, <2>3, <2>4
<1> HIDE DEF better
<1>5. Confirm(better) \/ OfferCatalogue(better)
  BY <1>1, <1>4 DEF Found
<1>6. stage \in {"lookup", "narrow"}
  BY <1>1
<1>7. QED
  BY <1>1, <1>4, <1>5, <1>6, KnownVendor

\* ... when the dictionary cannot be asked,
LEMMA DictionaryFailsInv ==
  ASSUME ResolverInv, DictionaryFails
  PROVE  ResolverInv'
<1>1. /\ stage \in {"lookup", "narrow"} /\ stage' = "done" /\ origin' = "unreachable"
      /\ dropped' = dropped \cup Notes({NoItem}, "unreachable") /\ cat' = NoCatalogue
      /\ requests' = requests + 1 /\ UNCHANGED <<dir, candidates, unknown, cpes, named>>
  BY DEF DictionaryFails, End
<1>2. /\ Notes({NoItem}, "unreachable") \subseteq Note
      /\ \A note \in Notes({NoItem}, "unreachable") : note.why = "unreachable"
  <2>1. {NoItem} \in SUBSET Item /\ "unreachable" \in Reasons
    BY DEF Item, Reasons
  <2>2. QED
    BY <2>1, NotesType
<1>3. requests' \in 0..(MaxVendorCandidates + 1)
  BY <1>1, RequestsBounded
<1>4. ResolverTypeOK'
  BY <1>1, <1>2, <1>3 DEF ResolverInv, ResolverTypeOK, Note, Item, Unchecked
<1>5. CallInv'
  BY <1>1 DEF CallInv
<1>6. AccountInv'
  <2>1. \A note \in dropped' : note.why # "vendor unknown"
    BY <1>1, <1>2 DEF ResolverInv, AccountInv
  <2>2. QED
    BY <1>1, <2>1 DEF ResolverInv, AccountInv, Noted, Unnotable, IsRegistered
<1>7. OriginInv' /\ WalkInv'
  BY <1>1 DEF ResolverInv, AccountInv, OriginInv, WalkInv, Unchecked
<1>8. QED
  BY <1>4, <1>5, <1>6, <1>7 DEF ResolverInv

\* ... when the model cannot be asked to select,
LEMMA SelectFailsInv ==
  ASSUME ResolverInv, SelectFails
  PROVE  ResolverInv'
<1>1. /\ stage = "select" /\ stage' = "done" /\ origin' = "selection failed"
      /\ dropped' = dropped \cup Notes({NoItem}, "selection failed")
      /\ UNCHANGED <<dir, candidates, unknown, cat, cpes, requests, named>>
  BY DEF SelectFails, End
<1>2. /\ Notes({NoItem}, "selection failed") \subseteq Note
      /\ \A note \in Notes({NoItem}, "selection failed") : note.why = "selection failed"
  <2>1. {NoItem} \in SUBSET Item /\ "selection failed" \in Reasons
    BY DEF Item, Reasons
  <2>2. QED
    BY <2>1, NotesType
<1>3. ResolverTypeOK'
  BY <1>1, <1>2 DEF ResolverInv, ResolverTypeOK, Note, Item, Checked
<1>4. CallInv'
  BY <1>1 DEF CallInv
<1>5. AccountInv' /\ WalkInv'
  <2>1. \A note \in dropped' : note.why # "vendor unknown"
    BY <1>1, <1>2 DEF ResolverInv, AccountInv
  <2>2. QED
    BY <1>1, <2>1 DEF ResolverInv, AccountInv, WalkInv, Noted, Unnotable, IsRegistered
<1>6. OriginInv'
  <2>1. cpes' = <<>> /\ dir'
    BY <1>1 DEF ResolverInv, CallInv
  <2>2. ToSet(<<>>) = {}
    BY DEF ToSet
  <2>3. QED
    BY <1>1, <2>1, <2>2 DEF OriginInv, Unchecked
<1>7. QED
  BY <1>3, <1>4, <1>5, <1>6 DEF ResolverInv

\* ... and when it selects:
LEMMA SelectInv ==
  ASSUME ResolverInv, Select
  PROVE  ResolverInv'
<1>1. PICK picks \in Selections :
        LET accepted == Accepted(picks)
            kept == Kept(accepted)
        IN  /\ cpes' = [i \in DOMAIN kept |-> [vendor |-> cat.vendor, product |-> kept[i]]]
            /\ dropped' = dropped \cup CutNotes(accepted)
                 \cup Notes(AsCPEs(ToSet(picks) \ ToSet(accepted)), "invented")
            /\ named' = named \cup AsCPEs(ToSet(picks))
  BY DEF Select
<1>2. /\ stage = "select" /\ stage' = "done" /\ origin' = "chosen"
      /\ UNCHANGED <<dir, candidates, unknown, cat, requests>>
  BY DEF Select, End
<1>3. /\ dir /\ cat \in Catalogue /\ cat.products \subseteq ToSet(Rows[cat.vendor]) /\ cpes = <<>>
      /\ picks \in Seq(Products) /\ MaxSelectedProducts \in Nat
  BY <1>2, ResolverAssumption DEF ResolverInv, CallInv, ResolverAssumption
<1> DEFINE accepted == Accepted(picks)
           capped == FirstOf(accepted, MaxSelectedProducts)
           kept == Kept(accepted)
           cut == AsCPEs(ToSet(accepted) \ ToSet(capped))
           invented == AsCPEs(ToSet(picks) \ ToSet(accepted))
<1>4. accepted \in Seq(Products) /\ ToSet(accepted) = ToSet(picks) \cap cat.products
  BY <1>3, AcceptedProperties
<1> HIDE DEF accepted
<1>5. /\ kept \in Seq(Products) /\ ToSet(kept) = ToSet(capped) \ Wildcards
      /\ ToSet(capped) \subseteq ToSet(accepted)
  <2>1. capped \in Seq(Products) /\ ToSet(capped) \subseteq ToSet(accepted)
    BY <1>3, <1>4, FirstOfProperties
  <2>2. PICK S : S = Products \ Wildcards
    OBVIOUS
  <2>3. kept = Among(capped, S)
    BY <2>2 DEF Kept
  <2>4. Among(capped, S) \in Seq(Products) /\ ToSet(Among(capped, S)) = ToSet(capped) \cap S
    BY <2>1, AmongProperties
  <2>5. ToSet(capped) \subseteq Products
    BY <2>1, ToSetSeq
  <2>6. QED
    BY <2>1, <2>2, <2>3, <2>4, <2>5
<1>6. /\ cpes' = [i \in DOMAIN kept |-> [vendor |-> cat.vendor, product |-> kept[i]]]
      /\ dropped' = dropped \cup Notes(cut, "beyond the cap") \cup Notes(invented, "invented")
      /\ named' = named \cup AsCPEs(ToSet(picks))
  BY <1>1 DEF accepted, CutNotes
<1> HIDE DEF kept, capped
<1>7. cpes' \in Seq(CPE) /\ ToSet(cpes') = AsCPEs(ToSet(kept))
  <2>1. \A p \in Products : [vendor |-> cat.vendor, product |-> p] \in CPE
    BY <1>3 DEF Catalogue, CPE
  <2>2. /\ DOMAIN kept = 1..Len(kept) /\ Len(kept) \in Nat
        /\ \A i \in 1..Len(kept) : kept[i] \in Products
    BY <1>5, ElementOfSeq
  <2>3. cpes' = [i \in 1..Len(kept) |-> [vendor |-> cat.vendor, product |-> kept[i]]]
    BY <1>6, <2>2
  <2>4. cpes' \in Seq(CPE) /\ DOMAIN cpes' = 1..Len(kept)
    BY <2>1, <2>2, <2>3
  <2>5. ToSet(cpes') = {[vendor |-> cat.vendor, product |-> kept[i]] : i \in 1..Len(kept)}
    BY <2>3, <2>4 DEF ToSet
  <2>6. ToSet(kept) = {kept[i] : i \in 1..Len(kept)}
    BY <1>5, ToSetSeq
  <2>7. QED
    BY <2>4, <2>5, <2>6 DEF AsCPEs
<1>8. /\ ToSet(picks) \subseteq Products
      /\ \A S \in SUBSET Products : AsCPEs(S) \subseteq CPE
  <2>1. ToSet(picks) \subseteq Products
    BY <1>3, ToSetSeq
  <2>2. \A S \in SUBSET Products : AsCPEs(S) \subseteq CPE
    <3>1. \A p \in Products : [vendor |-> cat.vendor, product |-> p] \in CPE
      BY <1>3 DEF Catalogue, CPE
    <3>2. QED
      BY <3>1 DEF AsCPEs
  <2>3. QED
    BY <2>1, <2>2
<1>9. cut \in SUBSET Item /\ invented \in SUBSET Item
  <2>1. ToSet(accepted) \subseteq Products
    BY <1>4, <1>8
  <2>2. cut \subseteq CPE /\ invented \subseteq CPE
    BY <1>8, <2>1
  <2>3. QED
    BY <2>2 DEF Item
<1>10. \A x \in AsCPEs(ToSet(picks)) :
         x \in AsCPEs(ToSet(kept)) \/ x \in cut \/ x \in invented \/ Unnotable(x)
  <2>1. ASSUME NEW p \in ToSet(picks)
        PROVE  \/ p \in ToSet(kept) \/ p \in ToSet(accepted) \ ToSet(capped)
               \/ p \in ToSet(picks) \ ToSet(accepted)
               \/ p \in ToSet(capped) \cap Wildcards
    BY <1>5
  <2>2. ASSUME NEW p \in ToSet(capped) \cap Wildcards
        PROVE  Unnotable([vendor |-> cat.vendor, product |-> p])
    <3>1. p \in cat.products /\ p \in Products
      BY <1>4, <1>5, <1>8
    <3>2. [vendor |-> cat.vendor, product |-> p] \in CPE
      BY <1>3, <3>1 DEF Catalogue, CPE
    <3>3. QED
      BY <1>3, <3>1, <3>2 DEF Unnotable, IsRegistered
  <2>3. QED
    BY <2>1, <2>2 DEF AsCPEs
<1>11. PICK c \in SUBSET Item, n \in SUBSET Item : c = cut /\ n = invented
  BY <1>9
<1> HIDE DEF cut, invented
<1>12. /\ dropped' \subseteq Note
       /\ \A note \in dropped' : note.why # "vendor unknown"
       /\ \A i \in cut \cup invented : Noted(i)'
  <2>1. "beyond the cap" \in Reasons /\ "invented" \in Reasons
    BY DEF Reasons
  <2>2. /\ Notes(c, "beyond the cap") \subseteq Note
        /\ \A note \in Notes(c, "beyond the cap") : note.why = "beyond the cap"
        /\ \A i \in c : \E note \in Notes(c, "beyond the cap") : note.item = i
    BY <2>1, NotesType
  <2>3. /\ Notes(n, "invented") \subseteq Note
        /\ \A note \in Notes(n, "invented") : note.why = "invented"
        /\ \A i \in n : \E note \in Notes(n, "invented") : note.item = i
    BY <2>1, NotesType
  <2>4. dropped' = dropped \cup Notes(c, "beyond the cap") \cup Notes(n, "invented")
    BY <1>6, <1>11
  <2>5. dropped \subseteq Note
    BY DEF ResolverInv, ResolverTypeOK, Note, Item
  <2>6. \A i \in c \cup n : \E note \in dropped' : note.item = i
    BY <2>2, <2>3, <2>4
  <2>7. dropped' \subseteq Note
    BY <2>2, <2>3, <2>4, <2>5
  <2>8. \A note \in dropped' : note.why # "vendor unknown"
    BY <1>2, <2>2, <2>3, <2>4 DEF ResolverInv, AccountInv
  <2>9. QED
    BY <1>11, <2>6, <2>7, <2>8 DEF Noted
<1>13. named' \subseteq CPE \cup {Malformed}
  BY <1>6, <1>8 DEF ResolverInv, ResolverTypeOK
<1>14. ResolverTypeOK'
  BY <1>2, <1>7, <1>12, <1>13 DEF ResolverInv, ResolverTypeOK, Note, Item, Checked
<1>15. CallInv'
  BY <1>2 DEF CallInv
<1>16. AccountInv' /\ WalkInv'
  <2>1. \A x \in named : Noted(x) \/ Unnotable(x)
    <3>1. ToSet(<<>>) = {}
      BY DEF ToSet
    <3>2. QED
      BY <1>3, <3>1 DEF ResolverInv, AccountInv
  <2>2. \A x \in named : Noted(x)' \/ Unnotable(x)
    BY <1>6, <2>1 DEF Noted
  <2>3. \A x \in named' : x \in ToSet(cpes') \/ Noted(x)' \/ Unnotable(x)
    BY <1>6, <1>7, <1>10, <1>12, <2>2
  <2>4. QED
    BY <1>2, <1>12, <2>3 DEF ResolverInv, AccountInv, WalkInv, Unnotable, IsRegistered
<1>17. OriginInv'
  <2>1. \A x \in ToSet(cpes') : x.vendor = cat.vendor /\ x.product \in cat.products
    BY <1>4, <1>5, <1>7 DEF AsCPEs
  <2>2. \A x \in ToSet(cpes') : IsRegistered(x)
    BY <1>3, <2>1 DEF IsRegistered
  <2>3. QED
    BY <1>2, <1>3, <2>2 DEF OriginInv, Unchecked
<1>18. QED
  BY <1>14, <1>15, <1>16, <1>17 DEF ResolverInv

\* every step keeps it.
LEMMA ResolverNextInv ==
  ASSUME ResolverInv, [ResolverNext]_resolverVars
  PROVE  ResolverInv'
<1>1. CASE ProposeFails
  <2>1. ResolverTypeOK'
    BY <1>1 DEF ResolverInv, ResolverTypeOK, ProposeFails
  <2>2. CallInv' /\ AccountInv' /\ WalkInv' /\ OriginInv'
    BY <1>1 DEF ResolverInv, CallInv, AccountInv, WalkInv, OriginInv, Noted, ProposeFails
  <2>3. QED
    BY <2>1, <2>2 DEF ResolverInv
<1>2. CASE UNCHANGED resolverVars
  BY <1>2 DEF ResolverInv, ResolverTypeOK, CallInv, AccountInv, WalkInv, OriginInv, Noted,
              RightlyUnknown, resolverVars
<1>3. QED
  BY <1>1, <1>2, ProposeInv, LookUpInv, NarrowInv, DictionaryFailsInv, SelectInv, SelectFailsInv
  DEF ResolverNext, Finished

\* The invariant holds of every reachable state of a resolution (llm.go, resolve_cpe.go).
THEOREM ResolverSpecInv == ResolverSpec => []ResolverInv
<1>1. ResolverInit => ResolverInv
  BY ResolverInitInv
<1>2. ResolverInv /\ [ResolverNext]_resolverVars => ResolverInv'
  BY ResolverNextInv
<1>3. QED
  BY <1>1, <1>2, PTL DEF ResolverSpec

-----------------------------------------------------------------------------
(* The properties.                                                            *)

\* Resolution stays within its caps: candidates, requests to the dictionary, and
\* well-formed CPEs and notes (resolve_cpe.go:150-194, nvd.go:435-461).
THEOREM ResolverTypeCorrect == ResolverSpec => []ResolverTypeOK
<1>1. ResolverInv => ResolverTypeOK
  BY DEF ResolverInv
<1>2. QED
  BY <1>1, ResolverSpecInv, PTL

\* Whatever the model invents and whichever call fails, resolution hands over what
\* Grounding promises the runner (resolve_cpe.go:79-148).
THEOREM PromiseIsKept == ResolverSpec => []KeepsItsPromise
<1>1. ResolverInv => KeepsItsPromise
  <2>1. SUFFICES ASSUME ResolverInv, stage = "done"
                 PROVE  [cpes |-> ToSet(cpes),
                         origin |-> IF origin \in Unchecked THEN "unchecked" ELSE "checked"]
                          \in Promise!Grounded(named \cap CPE)
    BY DEF KeepsItsPromise
  <2>2. CASE origin \in Unchecked
    <3>1. ToSet(cpes) = named \cap CPE
      BY <2>1, <2>2 DEF ResolverInv, OriginInv
    <3>2. QED
      BY <2>2, <3>1 DEF Promise!Grounded
  <2>3. CASE origin \notin Unchecked
    <3>1. dir /\ ToSet(cpes) \subseteq {c \in CPE : IsRegistered(c)}
      <4>1. ToSet(cpes) \subseteq CPE
        BY <2>1, ToSetSeq DEF ResolverInv, ResolverTypeOK
      <4>2. QED
        BY <2>1, <2>3, <4>1 DEF ResolverInv, OriginInv
    <3>2. QED
      BY <2>3, <3>1 DEF Promise!Grounded
  <2>4. QED
    BY <2>2, <2>3
<1>2. QED
  BY <1>1, ResolverSpecInv, PTL

\* Every CPE the model came up with is in the result, in a note or a wildcard NVD
\* registers; a vendor called unknown is, and the vendor of a CPE that goes for that
\* reason is unless the cap on candidates was used up by vendors that are
\* (llm.go:194-196, nvd.go:448-459, resolve_cpe.go:123-145, 180-225).
THEOREM EveryCPEIsAccounted == ResolverSpec => []NothingIsLostSilently
<1>1. ResolverInv => NothingIsLostSilently
  BY DEF ResolverInv, AccountInv, Noted, Unnotable, RightlyUnknown, NothingIsLostSilently
<1>2. QED
  BY <1>1, ResolverSpecInv, PTL

=============================================================================

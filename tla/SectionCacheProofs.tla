------------------------- MODULE SectionCacheProofs -------------------------
(***************************************************************************)
(* Proofs about SectionCache, for any number of runs, any identifiers, any *)
(* lifetime and any write timeout.                                         *)
(*                                                                         *)
(* Everything rests on two facts.  A row no analyst wrote holds an OK      *)
(* section dated at most one write after it was obtained, because a run    *)
(* that records does so inside its write's timeout.  And no statement      *)
(* removes a manual row but the one that replaces it.                      *)
(***************************************************************************)
EXTENDS SectionCache, TLAPS

Request == [inputs : Fingerprints, bypass : BOOLEAN]

\* A row no analyst wrote is a successful section dated by its own write.
RowOK(row) ==
  ~row.manual =>
    /\ row.key = Source
    /\ row.payload \in Section
    /\ row.payload.status = "ok"
    /\ row.payload.at <= row.at
    /\ row.at <= row.payload.at + WriteTimeout

\* What a run has in hand in each phase.
Asking(r) ==
  phase[r] \in {"lookup", "fetch"} =>
    /\ request[r] \in Request
    /\ ~cached[r]
    /\ phase[r] = "lookup" => ~request[r].bypass

Recording(r) ==
  phase[r] = "record" =>
    /\ section[r] \in Section
    /\ section[r].status = "ok"
    /\ section[r].by = r
    /\ section[r].at <= now
    /\ now <= section[r].at + WriteTimeout
    /\ ~cached[r]

Answered(r) ==
  phase[r] = "done" /\ section[r].status = "ok" =>
    IF cached[r]
      THEN /\ ~request[r].bypass
           /\ section[r].inputs = request[r].inputs
           /\ asOf[r] < section[r].at + WriteTimeout + TTL
      ELSE section[r].by = r

RunOK(r) == (phase[r] = "idle" => ~cached[r]) /\ Asking(r) /\ Recording(r) /\ Answered(r)

RowsInv == \A row \in table : RowOK(row)
RunsInv == \A r \in Runs : RunOK(r)
KeptInv == \A t \in kept : t <= now

Inv == TypeOK /\ RowsInv /\ RunsInv /\ KeptInv /\ LastWordStands /\ LittleIsLost

\* The invariant holds of an empty table.
LEMMA InitInv == Init => Inv
<1> SUFFICES ASSUME Init PROVE Inv
  OBVIOUS
<1> USE DEF Init
<1>1. TypeOK
  BY DEF TypeOK, OneRowPerKey
<1>2. RunsInv
  BY DEF RunsInv, RunOK, Asking, Recording, Answered
<1>3. RowsInv /\ KeptInv /\ LittleIsLost
  BY DEF RowsInv, KeptInv, LittleIsLost
<1>4. LastWordStands
  BY DEF LastWordStands, ManualAnswers, ManualRows
<1>5. QED
  BY <1>1, <1>2, <1>3, <1>4 DEF Inv

-----------------------------------------------------------------------------
(* Steps that leave the table alone.                                          *)

\* What is said of the table survives a step that leaves it and its history alone.
LEMMA TableKept ==
  ASSUME Inv, UNCHANGED <<table, lastWord, kept>>, now' \in Nat, now <= now'
  PROVE  RowsInv' /\ KeptInv' /\ LastWordStands' /\ LittleIsLost'
<1>1. RowsInv'
  BY DEF Inv, RowsInv, RowOK
<1>2. KeptInv'
  BY DEF Inv, TypeOK, KeptInv
<1>3. LastWordStands'
  BY DEF Inv, LastWordStands, ManualAnswers, ManualRows
<1>4. LittleIsLost'
  BY DEF Inv, LittleIsLost
<1>5. QED
  BY <1>1, <1>2, <1>3, <1>4

\* What is said of a run survives a step that leaves the run and the clock alone.
LEMMA RunKept ==
  ASSUME NEW r \in Runs, RunOK(r), now' = now,
         phase'[r] = phase[r], request'[r] = request[r], section'[r] = section[r],
         cached'[r] = cached[r], asOf'[r] = asOf[r]
  PROVE  RunOK(r)'
BY DEF RunOK, Asking, Recording, Answered

\* A step of one run that changes nothing but the run.
OwnStep(r) ==
  \/ Begin(r)
  \/ Hit(r)
  \/ Miss(r)
  \/ LookupFails(r)
  \/ \E status \in Status : Fetched(r, status)
  \/ RecordFails(r)
  \/ Die(r)

\* A step of one run keeps the types.
LEMMA OwnStepType ==
  ASSUME NEW r \in Runs, Inv, OwnStep(r)
  PROVE  TypeOK'
<1> USE DEF Inv, TypeOK
<1>1. CASE Begin(r)
  BY <1>1 DEF Begin
<1>2. CASE Hit(r)
  <2>1. PICK row \in Usable(r) : section' = [section EXCEPT ![r] = row.payload]
    BY <1>2 DEF Hit
  <2>2. row.payload \in Section
    BY <2>1 DEF Usable, FreshRows, RowsInv, RowOK
  <2>3. section' \in [Runs -> Section \cup {NoSection}]
    BY <2>1, <2>2
  <2>4. QED
    BY <1>2, <2>3 DEF Hit
<1>3. CASE Miss(r) \/ LookupFails(r) \/ RecordFails(r) \/ Die(r)
  BY <1>3 DEF Miss, LookupFails, RecordFails, Die
<1>4. ASSUME NEW status \in Status, Fetched(r, status)
      PROVE  TypeOK'
  <2>1. request[r] \in Request
    BY <1>4 DEF Fetched, RunsInv, RunOK, Asking
  <2>2. [status |-> status, inputs |-> request[r].inputs, by |-> r, at |-> now] \in Section
    BY <2>1 DEF Section, Request
  <2>3. section' \in [Runs -> Section \cup {NoSection}]
    BY <1>4, <2>2 DEF Fetched
  <2>4. QED
    BY <1>4, <2>3 DEF Fetched
<1>5. QED
  BY <1>1, <1>2, <1>3, <1>4 DEF OwnStep

\* A step of one run keeps what is said of that run.
LEMMA OwnStepRun ==
  ASSUME NEW r \in Runs, Inv, OwnStep(r)
  PROVE  RunOK(r)'
<1> USE DEF RunOK, Asking, Recording, Answered
<1>1. RunOK(r) /\ TypeOK
  BY DEF Inv, RunsInv
<1>2. CASE Begin(r)
  BY <1>1, <1>2 DEF Begin, TypeOK, Request
<1>3. CASE Hit(r)
  <2>1. PICK row \in Usable(r) : section' = [section EXCEPT ![r] = row.payload]
    BY <1>3 DEF Hit
  <2>2. /\ row \in table /\ ~row.manual /\ row.at > now - TTL
        /\ row.payload.inputs = request[r].inputs
    BY <2>1 DEF Usable, FreshRows
  <2>3. /\ row.payload \in Section
        /\ row.at <= row.payload.at + WriteTimeout
    BY <2>2 DEF Inv, RowsInv, RowOK
  <2>4. row.at \in Nat /\ row.payload.at \in Nat /\ now \in Nat
    BY <1>1, <2>2, <2>3 DEF TypeOK, Section
  <2>5. now < row.payload.at + WriteTimeout + TTL
    BY <2>2, <2>3, <2>4, CacheAssumption
  <2>6. /\ section'[r] = row.payload /\ cached'[r] = TRUE /\ asOf'[r] = now
        /\ phase'[r] = "done" /\ request' = request
    BY <1>1, <1>3, <2>1 DEF Hit, TypeOK
  <2>7. ~request[r].bypass
    BY <1>1, <1>3 DEF Hit
  <2>8. QED
    BY <2>2, <2>5, <2>6, <2>7
<1>4. CASE Miss(r) \/ LookupFails(r)
  BY <1>1, <1>4 DEF Miss, LookupFails, TypeOK
<1>5. ASSUME NEW status \in Status, Fetched(r, status)
      PROVE  RunOK(r)'
  <2>1. request[r] \in Request /\ now \in Nat /\ ~cached[r]
    BY <1>1, <1>5 DEF Fetched, TypeOK
  <2>2. section'[r] = [status |-> status, inputs |-> request[r].inputs, by |-> r, at |-> now]
    BY <1>1, <1>5 DEF Fetched, TypeOK
  <2>3. section'[r] \in Section /\ section'[r].by = r /\ section'[r].at = now
    BY <2>1, <2>2 DEF Section, Request
  <2>4. phase'[r] = IF status = "ok" THEN "record" ELSE "done"
    BY <1>1, <1>5 DEF Fetched, TypeOK
  <2>5. QED
    BY <1>5, <2>1, <2>2, <2>3, <2>4, CacheAssumption DEF Fetched
<1>6. CASE RecordFails(r) \/ Die(r)
  BY <1>1, <1>6 DEF RecordFails, Die, TypeOK
<1>7. QED
  BY <1>2, <1>3, <1>4, <1>5, <1>6 DEF OwnStep

\* A step of one run that leaves the table alone keeps the invariant.
LEMMA OwnStepInv ==
  ASSUME NEW r \in Runs, Inv, OwnStep(r)
  PROVE  Inv'
<1>1. now' = now /\ UNCHANGED <<table, lastWord, kept>>
  BY DEF OwnStep, Begin, Hit, Miss, LookupFails, Fetched, RecordFails, Die
<1>2. now' \in Nat /\ now <= now'
  BY <1>1 DEF Inv, TypeOK
<1>3. RowsInv' /\ KeptInv' /\ LastWordStands' /\ LittleIsLost'
  BY <1>1, <1>2, TableKept
<1>4. ASSUME NEW s \in Runs, s # r PROVE RunOK(s)'
  <2>1. /\ phase'[s] = phase[s] /\ request'[s] = request[s] /\ section'[s] = section[s]
        /\ cached'[s] = cached[s] /\ asOf'[s] = asOf[s]
    BY <1>4 DEF Inv, TypeOK, OwnStep, Begin, Hit, Miss, LookupFails, Fetched, RecordFails, Die
  <2>2. RunOK(s)
    BY DEF Inv, RunsInv
  <2>3. QED
    BY <1>1, <2>1, <2>2, RunKept
<1>5. RunsInv'
  BY <1>4, OwnStepRun DEF RunsInv
<1>6. QED
  BY <1>3, <1>5, OwnStepType DEF Inv

-----------------------------------------------------------------------------
(* Steps that write the table.                                                *)

\* A write puts in a row of the section cache, or none.
LEMMA RecordInv ==
  ASSUME NEW r \in Runs, Inv, Record(r)
  PROVE  Inv'
<1> DEFINE new == NewRow(Source, section[r], now, FALSE)
<1> USE DEF Record
<1>1. /\ section[r] \in Section /\ section[r].status = "ok"
      /\ section[r].at <= now /\ now <= section[r].at + WriteTimeout
      /\ section[r].at \in Nat /\ now \in Nat
  BY DEF Inv, TypeOK, RunsInv, RunOK, Recording, Section
<1>2. RunsInv'
  <2>1. RunOK(r)'
    BY DEF Inv, TypeOK, RunsInv, RunOK, Asking, Recording, Answered
  <2>2. ASSUME NEW s \in Runs, s # r PROVE RunOK(s)'
    <3>1. phase'[s] = phase[s] /\ RunOK(s)
      BY <2>2 DEF Inv, TypeOK, RunsInv
    <3>2. QED
      BY <3>1, RunKept
  <2>3. QED
    BY <2>1, <2>2 DEF RunsInv
<1>3. CASE ManualRows(table, Source) # {}
  <2>1. UNCHANGED <<table, lastWord, kept, now>>
    BY <1>3 DEF Upsert
  <2>2. RowsInv' /\ KeptInv' /\ LastWordStands' /\ LittleIsLost'
    BY <1>1, <2>1, TableKept
  <2>3. TypeOK'
    BY <2>1 DEF Inv, TypeOK
  <2>4. QED
    BY <1>2, <2>2, <2>3 DEF Inv
<1>4. CASE ManualRows(table, Source) = {}
  <2>1. /\ table' = Others(table, Source) \cup {new}
        /\ kept' = kept \cup {section[r].at}
    BY <1>4 DEF Upsert
  <2>2. /\ new.key = Source /\ ~new.manual /\ new.payload = section[r] /\ new.at = now
        /\ new \in [key : Key, payload : Section \cup Entries, at : Nat, manual : BOOLEAN]
    BY <1>1 DEF NewRow, Key
  <2> HIDE DEF new
  <2>3. TypeOK'
    <3>1. OneRowPerKey(table')
      BY <2>1, <2>2 DEF Inv, TypeOK, OneRowPerKey, Others
    <3>2. table' \subseteq [key : Key, payload : Section \cup Entries, at : Nat, manual : BOOLEAN]
      BY <2>1, <2>2 DEF Inv, TypeOK, Others
    <3>3. kept' \subseteq Nat
      BY <1>1, <2>1 DEF Inv, TypeOK
    <3>4. QED
      BY <3>1, <3>2, <3>3 DEF Inv, TypeOK, OneRowPerKey
  <2>4. RowsInv'
    BY <1>1, <2>1, <2>2 DEF Inv, RowsInv, RowOK, Others
  <2>5. KeptInv'
    BY <1>1, <2>1 DEF Inv, KeptInv
  <2>6. LittleIsLost'
    BY <1>1, <2>1, <2>2, <2>5, CacheAssumption DEF Inv, TypeOK, LittleIsLost, KeptInv, Others
  <2>7. LastWordStands'
    <3>1. \A k \in ManualNames : ManualRows(table', k) = ManualRows(table, k)
      BY <1>4, <2>1, <2>2 DEF ManualRows, Others
    <3>2. QED
      BY <3>1 DEF Inv, LastWordStands, ManualAnswers
  <2>8. QED
    BY <1>2, <2>3, <2>4, <2>5, <2>6, <2>7 DEF Inv
<1>5. QED
  BY <1>3, <1>4

\* The analyst's entry replaces whatever held its key.
LEMMA SetManualInv ==
  ASSUME NEW k \in ManualNames, NEW e \in Entries, Inv, SetManual(k, e)
  PROVE  Inv'
<1> DEFINE new == NewRow(k, e, now, TRUE)
<1> USE DEF SetManual
<1>1. table' = Others(table, k) \cup {new} /\ lastWord' = [lastWord EXCEPT ![k] = e]
  BY DEF SetManualRow
<1>2. /\ new.key = k /\ new.manual /\ new.payload = e
      /\ new \in [key : Key, payload : Section \cup Entries, at : Nat, manual : BOOLEAN]
  BY DEF NewRow, Key, Inv, TypeOK
<1>3. UNCHANGED <<now, kept, phase, request, section, cached, asOf>>
  BY DEF runVars
<1> HIDE DEF new, SetManual
<1>4. TypeOK'
  <2>1. OneRowPerKey(table')
    BY <1>1, <1>2 DEF Inv, TypeOK, OneRowPerKey, Others
  <2>2. table' \subseteq [key : Key, payload : Section \cup Entries, at : Nat, manual : BOOLEAN]
    BY <1>1, <1>2 DEF Inv, TypeOK, Others
  <2>3. QED
    BY <1>1, <1>3, <2>1, <2>2 DEF Inv, TypeOK, OneRowPerKey
<1>5. RunsInv'
  BY <1>3, RunKept DEF Inv, RunsInv
<1>6. RowsInv' /\ LittleIsLost' /\ KeptInv'
  BY <1>1, <1>2, <1>3 DEF Inv, RowsInv, RowOK, LittleIsLost, KeptInv, Others
<1>7. LastWordStands'
  <2>1. SUFFICES ASSUME NEW j \in ManualNames
                 PROVE  ManualAnswers(j)' = IF lastWord'[j] = NoEntry THEN {} ELSE {lastWord'[j]}
    BY DEF LastWordStands
  <2>2. CASE j # k
    <3>1. ManualRows(table', j) = ManualRows(table, j)
      BY <1>1, <1>2, <2>2 DEF ManualRows, Others
    <3>2. lastWord'[j] = lastWord[j]
      BY <1>1, <2>2 DEF Inv, TypeOK
    <3>3. QED
      BY <3>1, <3>2 DEF Inv, LastWordStands, ManualAnswers
  <2>3. CASE j = k
    <3>1. ManualRows(table', j) = {new}
      BY <1>1, <1>2, <2>3 DEF ManualRows, Others
    <3>2. lastWord'[j] = e
      BY <1>1, <2>3 DEF Inv, TypeOK
    <3>3. ManualAnswers(j)' = {e}
      BY <1>2, <3>1 DEF ManualAnswers
    <3>4. QED
      BY <3>2, <3>3, EntriesAssumption
  <2>4. QED
    BY <2>2, <2>3
<1>8. QED
  BY <1>4, <1>5, <1>6, <1>7 DEF Inv

\* Time passes no write's deadline.
LEMMA TickInv == Inv /\ Tick => Inv'
<1> SUFFICES ASSUME Inv, Tick PROVE Inv'
  OBVIOUS
<1>1. /\ now \in Nat /\ now' = now + 1 /\ now' \in Nat /\ now <= now'
      /\ UNCHANGED <<table, lastWord, kept, phase, request, section, cached, asOf>>
  BY DEF Inv, TypeOK, Tick, runVars
<1>2. TypeOK'
  BY <1>1 DEF Inv, TypeOK, OneRowPerKey
<1>3. ASSUME NEW r \in Runs PROVE RunOK(r)'
  <2>1. RunOK(r) /\ ~Overdue(r)
    BY DEF Inv, RunsInv, Tick
  <2>2. Recording(r)'
    BY <1>1, <2>1, CacheAssumption DEF RunOK, Recording, Overdue, Section
  <2>3. QED
    BY <1>1, <2>1, <2>2 DEF RunOK, Asking, Answered
<1>4. RowsInv' /\ KeptInv' /\ LastWordStands' /\ LittleIsLost'
  BY <1>1, TableKept
<1>5. QED
  BY <1>2, <1>3, <1>4 DEF Inv, RunsInv

\* Every step keeps the invariant.
LEMMA NextInv == Inv /\ [Next]_vars => Inv'
<1>1. ASSUME Inv, UNCHANGED vars PROVE Inv'
  <2>1. UNCHANGED <<table, lastWord, kept, now, phase, request, section, cached, asOf>>
    BY <1>1 DEF vars
  <2>2. now' \in Nat /\ now <= now'
    BY <1>1, <2>1 DEF Inv, TypeOK
  <2>3. TypeOK' /\ RunsInv'
    BY <1>1, <2>1, RunKept DEF Inv, TypeOK, RunsInv, OneRowPerKey
  <2>4. QED
    BY <1>1, <2>1, <2>2, <2>3, TableKept DEF Inv
<1>2. QED
  BY <1>1, OwnStepInv, RecordInv, SetManualInv, TickInv DEF Next, OwnStep

\* The invariant holds of every reachable state.
LEMMA SpecInv == Spec => []Inv
BY InitInv, NextInv, PTL DEF Spec

-----------------------------------------------------------------------------
(* The theorems.                                                              *)

\* The rows, the runs and the clock keep their types, and the table keeps one
\* row for each key (store.go:196-309, cache.go:87-139).
THEOREM TypeCorrect == Spec => []TypeOK
<1>1. Inv => TypeOK
  BY DEF Inv
<1>2. QED
  BY <1>1, SpecInv, PTL

\* However the runs of one vendor overlap, a Fetch answers with a section of its
\* own or with one the cache may serve it (cache.go:87-102, store.go:229-271).
THEOREM AnswersAreSound == Spec => []AnswersAreTheRuns
<1>1. Inv => AnswersAreTheRuns
  BY DEF Inv, RunsInv, RunOK, Answered, AnswersAreTheRuns
<1>2. QED
  BY <1>1, SpecInv, PTL

\* No interleaving of runs puts a failure or a skip in the cache (cache.go:97-99).
THEOREM FailuresAreNotKept == Spec => []OnlySuccessIsKept
<1>1. Inv => OnlySuccessIsKept
  BY DEF Inv, RowsInv, RowOK, OnlySuccessIsKept
<1>2. QED
  BY <1>1, SpecInv, PTL

\* No run disturbs what an analyst recorded, and recording takes a row over from
\* any run (store.go:196-212, 282-309).
THEOREM AnalystHasTheLastWord == Spec => []LastWordStands
<1>1. Inv => LastWordStands
  BY DEF Inv
<1>2. QED
  BY <1>1, SpecInv, PTL

\* A late write loses at most one write's time (cache.go:132-139).
THEOREM LateWritesLoseLittle == Spec => []LittleIsLost
<1>1. Inv => LittleIsLost
  BY DEF Inv
<1>2. QED
  BY <1>1, SpecInv, PTL

=============================================================================

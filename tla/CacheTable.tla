----------------------------- MODULE CacheTable -----------------------------
(***************************************************************************)
(* The rows of assessments_cache for one company and service, as the       *)
(* statements of internal/store/store.go read and write them.  A table is  *)
(* a set of rows with at most one row for each key, a source's name; every *)
(* statement is atomic, and reads and writes the database's own clock.     *)
(***************************************************************************)
EXTENDS Integers

NewRow(key, payload, at, manual) ==
  [key |-> key, payload |-> payload, at |-> at, manual |-> manual]

\* The primary key: (company, service, source).
OneRowPerKey(table) == \A r, s \in table : r.key = s.key => r = s

Others(table, key) == {r \in table : r.key # key}

\* The WHERE clause of ManualEntry: the analyst's entry, if there is one.
ManualRows(table, key) == {r \in table : r.key = key /\ r.manual}

\* The WHERE clause of CachedSection and CachedResolution: a row inside its
\* TTL that no analyst wrote.
FreshRows(table, key, ttl, now) ==
  {r \in table : r.key = key /\ ~r.manual /\ ttl > 0 /\ r.at > now - ttl}

\* Mutants of Upsert: an insert with no conflict clause; a conflict clause with
\* no WHERE NOT manual.
InsertOnly(table, key, payload, now) ==
  IF ManualRows(table, key) # {}
    THEN table
    ELSE table \cup {NewRow(key, payload, now, FALSE)}
UpsertOverManual(table, key, payload, now) ==
  Others(table, key) \cup {NewRow(key, payload, now, FALSE)}

\* The upsert of PutSection and PutResolution: it leaves a manual row alone.
Upsert(table, key, payload, now) ==
  IF ManualRows(table, key) # {}
    THEN table
    ELSE Others(table, key) \cup {NewRow(key, payload, now, FALSE)}

\* The upsert of SetManual: it takes the row over whoever wrote it.
SetManualRow(table, key, value, now) ==
  Others(table, key) \cup {NewRow(key, value, now, TRUE)}

=============================================================================

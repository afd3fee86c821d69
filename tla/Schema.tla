-------------------------------- MODULE Schema --------------------------------
(***************************************************************************)
(* Tables come and go: GetTable of a new table, DropTable, Compact, and    *)
(* what Open makes of the schema records and the data of a WAL.  All       *)
(* schema records of one session (from Open to the crash or Close) have    *)
(* the transaction id databaseID, and so have their markers: to recover    *)
(* they are one transaction.                                               *)
(* A row has its own primary key.  A table file holds rows, an index file  *)
(* the keys of rows.  The process may die between any two writes.          *)
(***************************************************************************)
EXTENDS Integers, Sequences, SequencesExt

CONSTANTS
    Tables,
    MaxRows,        \* bound: rows inserted
    MaxChanges,     \* bound: attempts to create or drop a table
    MaxSessions     \* bound: how often the database is opened

ASSUME SchemaAssumption == MaxRows \in Nat /\ MaxChanges \in Nat /\ MaxSessions \in Nat \ {0}

Rows == 1..MaxRows

\* A schema record, the marker behind it, or a transaction that inserts a row.
Records ==
    [op : {"create", "drop"}, table : Tables, session : Nat, gen : Nat]
    \cup [op : {"commit", "rollback"}, session : Nat]
    \cup [op : {"insert"}, table : Tables, row : Rows, gen : Nat]

VARIABLES
    wal,            \* wal.log
    snapshot,       \* the rows of each table in the last snapshot
    snapshotGen,    \* the generation of the last snapshot
    db,             \* .db: table -> rows in its file
    idx,            \* .idx: table -> keys in its file
    tables,         \* committedState: table -> how it got there, "none" for no table
    generation,     \* of committedState
    cached,         \* shadowIndexes: tables whose index is open
    pc,             \* where the writer, Compact or Open is
    op, table,      \* what the writer or Compact is busy with
    left,           \* tables Compact has still to do
    todo,           \* records of the WAL that recover has still to replay
    session,        \* databaseID
    rows, changes,  \* how many so far
    exists,         \* tables that were created and not dropped
    inserted,       \* table -> rows inserted since it was created
    succeeded,      \* the records of the WAL whose change succeeded
    leftover        \* tables whose drop did not come to remove the index file

fileVars == <<wal, snapshot, snapshotGen, db, idx>>
processVars == <<tables, generation, cached, pc, op, table, left, todo, session>>
ghostVars == <<rows, changes, exists, inserted, succeeded, leftover>>
vars == <<fileVars, processVars, ghostVars>>

\* The steps of a schema change and of Compact, between which the process has the lock.
Busy == {"logged", "failed", "marked", "removing", "compact", "swapped", "rebuild"}

\* Every variable stays in its set.
TypeOK ==
    /\ wal \in Seq(Records)
    /\ DOMAIN snapshot \subseteq Tables /\ \A t \in DOMAIN snapshot : snapshot[t] \subseteq Rows
    /\ snapshotGen \in Nat
    /\ db \in [Tables -> SUBSET Rows]
    /\ idx \in [Tables -> SUBSET Rows]
    /\ tables \in [Tables -> {"none", "declared", "fallback"}]
    /\ generation \in Nat
    /\ cached \subseteq Tables
    /\ pc \in Busy \cup {"up", "down", "replay"}
    /\ op \in {"create", "drop"}
    /\ pc \in Busy \ {"compact"} => table \in Tables
    /\ left \subseteq Tables
    /\ todo \subseteq DOMAIN wal /\ (pc # "replay" => todo = {})
    /\ session \in 1..MaxSessions /\ (pc = "down" => session < MaxSessions)
    /\ rows \in 0..MaxRows /\ changes \in 0..MaxChanges
    /\ exists \subseteq Tables
    /\ inserted \in [Tables -> SUBSET Rows]
    /\ succeeded \subseteq DOMAIN wal
    /\ leftover \subseteq Tables

Init ==
    /\ wal = <<>> /\ snapshot = <<>> /\ snapshotGen = 0
    /\ db = [t \in Tables |-> {}] /\ idx = [t \in Tables |-> {}]
    /\ tables = [t \in Tables |-> "none"] /\ generation = 0
    /\ cached = {} /\ pc = "up" /\ op = "create" /\ table = "none" /\ left = {} /\ todo = {}
    /\ session = 1 /\ rows = 0 /\ changes = 0
    /\ exists = {} /\ inserted = [t \in Tables |-> {}] /\ succeeded = {} /\ leftover = {}

\* A table serves what was done to it.  A behaviour ends where one does not.
Right(t) ==
    /\ tables[t] = IF t \in exists THEN "declared" ELSE "none"
    /\ t \in exists => idx[t] = inserted[t] /\ idx[t] \subseteq db[t]

Ready == pc = "up" /\ \A t \in Tables : Right(t)

-----------------------------------------------------------------------------
(* registerTableMetadata and DropTable: the record, then the marker. *)

AppendWal(r) == wal' = Append(wal, r)

Change(o, t) ==
    /\ Ready
    /\ tables[t] = "none" <=> o = "create"
    /\ changes < MaxChanges
    /\ changes' = changes + 1
    /\ op' = o /\ table' = t
    /\ UNCHANGED <<snapshot, snapshotGen, db, idx, tables, generation, cached, left, todo, session,
                   rows, exists, inserted, succeeded, leftover>>

Record(o, t) == [op |-> o, table |-> t, session |-> session, gen |-> generation + 1]

WriteRecord(o, t) ==
    /\ Change(o, t)
    /\ AppendWal(Record(o, t))
    /\ pc' = "logged"

\* Written and not synced, or not written.
WriteRecordFails(o, t) ==
    /\ Change(o, t)
    /\ AppendWal(Record(o, t)) \/ UNCHANGED wal
    /\ pc' = "failed"

Marker(m) == [op |-> m, session |-> session]

\* The writer reports an error and the call returns it.
ChangeFails ==
    /\ pc' = "up"
    /\ UNCHANGED <<snapshot, snapshotGen, db, idx, tables, generation, cached, op, table, left, todo,
                   session, ghostVars>>

WriteRollback ==
    /\ pc = "failed"
    /\ AppendWal(Marker("rollback")) \/ UNCHANGED wal
    /\ ChangeFails

WriteCommitFails ==
    /\ pc = "logged"
    /\ AppendWal(Marker("commit")) \/ UNCHANGED wal
    /\ ChangeFails

WriteCommit ==
    /\ pc = "logged"
    /\ AppendWal(Marker("commit"))
    /\ pc' = "marked"
    /\ succeeded' = succeeded \cup {Len(wal)}
    /\ IF op = "create"
       THEN /\ exists' = exists \cup {table}
            /\ inserted' = [inserted EXCEPT ![table] = {}]
       ELSE /\ exists' = exists \ {table}
            /\ UNCHANGED inserted
    /\ UNCHANGED <<snapshot, snapshotGen, db, idx, tables, generation, cached, op, table, left, todo,
                   session, rows, changes, leftover>>

PublishTable ==
    /\ pc = "marked"
    /\ op = "create"
    /\ tables' = [tables EXCEPT ![table] = "declared"]
    /\ generation' = generation + 1
    /\ pc' = "up"
    /\ UNCHANGED <<fileVars, cached, op, table, left, todo, session, ghostVars>>

\* The new state is published, then the table file is removed.
DropTableFile ==
    /\ pc = "marked"
    /\ op = "drop"
    /\ tables' = [tables EXCEPT ![table] = "none"]
    /\ generation' = generation + 1
    /\ db' = [db EXCEPT ![table] = {}]
    /\ pc' = "removing"
    /\ UNCHANGED <<wal, snapshot, snapshotGen, idx, cached, op, table, left, todo, session, ghostVars>>

\* The file of an index that is open is not removed: the type assertion on the
\* cached index panics.
DropIndexFile ==
    /\ pc = "removing"
    /\ IF table \in cached
       THEN /\ cached' = cached \ {table}
            /\ leftover' = leftover \cup {table}
            /\ UNCHANGED idx
       ELSE /\ idx' = [idx EXCEPT ![table] = {}]
            /\ UNCHANGED <<cached, leftover>>
    /\ pc' = "up"
    /\ UNCHANGED <<wal, snapshot, snapshotGen, db, tables, generation, op, table, left, todo, session,
                   rows, changes, exists, inserted, succeeded>>

-----------------------------------------------------------------------------
(* Data. *)

Insert(t) ==
    /\ Ready
    /\ tables[t] # "none"
    /\ rows < MaxRows
    /\ rows' = rows + 1
    /\ AppendWal([op |-> "insert", table |-> t, row |-> rows + 1, gen |-> generation + 1])
    /\ generation' = generation + 1
    /\ db' = [db EXCEPT ![t] = @ \cup {rows + 1}]
    /\ idx' = [idx EXCEPT ![t] = @ \cup {rows + 1}]
    /\ inserted' = [inserted EXCEPT ![t] = @ \cup {rows + 1}]
    /\ cached' = cached \cup {t}
    /\ UNCHANGED <<snapshot, snapshotGen, tables, pc, op, table, left, todo, session, changes,
                   exists, succeeded, leftover>>

\* A lookup, which takes no lock, opens the index.
Find(t) ==
    /\ Ready \/ pc \in Busy
    /\ tables[t] # "none"
    /\ t \notin cached
    /\ cached' = cached \cup {t}
    /\ UNCHANGED <<fileVars, tables, generation, pc, op, table, left, todo, session, ghostVars>>

-----------------------------------------------------------------------------
(* Compact: the snapshot, then each table file and its index, then the WAL. *)

Known == {t \in Tables : tables[t] # "none"}

writeSnapshot ==
    /\ Ready
    /\ snapshot' = [t \in Known |-> idx[t]]
    /\ snapshotGen' = generation
    /\ left' = Known
    /\ cached' = cached \cup Known
    /\ pc' = "compact"
    /\ UNCHANGED <<wal, db, idx, tables, generation, op, table, todo, session, ghostVars>>

CompactStorage(t) ==
    /\ pc = "compact"
    /\ t \in left
    /\ left' = left \ {t}
    /\ table' = t
    /\ db' = [db EXCEPT ![t] = idx[t]]
    /\ pc' = "swapped"
    /\ UNCHANGED <<wal, snapshot, snapshotGen, idx, tables, generation, cached, op, todo, session,
                   ghostVars>>

CompactClearIndex ==
    /\ pc = "swapped"
    /\ idx' = [idx EXCEPT ![table] = {}]
    /\ pc' = "rebuild"
    /\ UNCHANGED <<wal, snapshot, snapshotGen, db, tables, generation, cached, op, table, left, todo,
                   session, ghostVars>>

CompactRebuildIndex ==
    /\ pc = "rebuild"
    /\ idx' = [idx EXCEPT ![table] = db[table]]
    /\ pc' = "compact"
    /\ UNCHANGED <<wal, snapshot, snapshotGen, db, tables, generation, cached, op, table, left, todo,
                   session, ghostVars>>

TruncateWal ==
    /\ pc = "compact"
    /\ left = {}
    /\ wal' = <<>>
    /\ succeeded' = {}
    /\ pc' = "up"
    /\ UNCHANGED <<snapshot, snapshotGen, db, idx, tables, generation, cached, op, table, left, todo,
                   session, rows, changes, exists, inserted, leftover>>

\* The process dies, inside Open too.  A drop that has its marker removes no more files.
Crash ==
    /\ Ready \/ pc \in Busy \/ pc = "replay"
    /\ session < MaxSessions
    /\ pc' = "down"
    /\ cached' = {} /\ left' = {} /\ todo' = {}
    /\ leftover' = IF pc = "removing" \/ (pc = "marked" /\ op = "drop")
                   THEN leftover \cup {table} ELSE leftover
    /\ UNCHANGED <<fileVars, tables, generation, op, table, session, rows, changes, exists, inserted,
                   succeeded>>

-----------------------------------------------------------------------------
(* Open: readSnapshot, and recover transaction by transaction. *)

IsSchema(i) == wal[i].op \in {"create", "drop"}
IsOn(i, o, t) == wal[i].op = o /\ wal[i].table = t

\* transactionGroups: the positions of the schema records of a session.
Group(s) == {i \in DOMAIN wal : IsSchema(i) /\ wal[i].session = s}

\* One marker is enough for all records of the session, written before or after it.
Marked(s, m) == \E i \in DOMAIN wal : wal[i].op = m /\ wal[i].session = s
Committed(s) == Marked(s, "commit") /\ ~Marked(s, "rollback")

Open ==
    /\ pc = "down"
    /\ LET restored == DOMAIN snapshot
       IN  /\ tables' = [t \in Tables |-> IF t \in restored THEN "declared" ELSE "none"]
           /\ db' = [t \in Tables |-> IF t \in restored THEN snapshot[t] ELSE db[t]]
           /\ idx' = [t \in Tables |-> IF t \in restored THEN idx[t] \cup snapshot[t] ELSE idx[t]]
           /\ cached' = restored
    /\ generation' = snapshotGen
    /\ session' = session + 1
    /\ todo' = {i \in DOMAIN wal : \/ wal[i].op = "insert"
                                   \/ IsSchema(i) /\ Committed(wal[i].session)}
    /\ pc' = "replay"
    /\ UNCHANGED <<wal, snapshot, snapshotGen, op, table, left, ghostVars>>

\* The transactions are sorted by the generation of their first record, which is the
\* lowest of the group; which of two with the same generation comes first is open.  A
\* session with several COMMIT markers is replayed as often, its last time counts.
Oldest(i) == i \in todo /\ \A j \in todo : wal[i].gen <= wal[j].gen

\* Some record of the group drops the table.
Drops(s, t) == \E i \in Group(s) : IsOn(i, "drop", t)

\* Mutant: the drops of a group are replayed after its creations.
CreatesUndropped(s, t) == ~Drops(s, t) /\ \E i \in Group(s) : IsOn(i, "create", t)

\* The last record of the group on the table creates it.
Creates(s, t) ==
    \E i \in Group(s) : IsOn(i, "create", t) /\ \A j \in Group(s) : j > i => ~IsOn(j, "drop", t)

\* Mutant: a dropped table stays.
ReplayKeepsDropped(i) ==
    /\ pc = "replay"
    /\ Oldest(i) /\ IsSchema(i)
    /\ LET s == wal[i].session
       IN  /\ tables' = [t \in Tables |-> IF Creates(s, t) THEN "declared" ELSE tables[t]]
           /\ todo' = todo \ Group(s)
           /\ generation' \in {wal[j].gen : j \in Group(s)} \cup {generation}
           /\ \A j \in Group(s) : wal[j].gen <= generation'
    /\ generation <= generation'
    /\ UNCHANGED <<fileVars, cached, pc, op, table, left, session, ghostVars>>

\* OpCreateTable and OpDropTable of one session, in order.
ReplaySchema(i) ==
    /\ pc = "replay"
    /\ Oldest(i) /\ IsSchema(i)
    /\ LET s == wal[i].session
       IN  /\ tables' = [t \in Tables |-> IF Creates(s, t) THEN "declared"
                                          ELSE IF Drops(s, t) THEN "none"
                                          ELSE tables[t]]
           /\ todo' = todo \ Group(s)
           /\ generation' \in {wal[j].gen : j \in Group(s)} \cup {generation}
           /\ \A j \in Group(s) : wal[j].gen <= generation'
    /\ generation <= generation'
    /\ UNCHANGED <<fileVars, cached, pc, op, table, left, session, ghostVars>>

\* Mutant: every row resets the table file.
ReplayResets(i) ==
    /\ pc = "replay"
    /\ Oldest(i) /\ wal[i].op = "insert"
    /\ LET t == wal[i].table
       IN  /\ tables' = [tables EXCEPT ![t] = IF @ = "none" THEN "fallback" ELSE @]
           /\ db' = [db EXCEPT ![t] = {wal[i].row}]
           /\ idx' = [idx EXCEPT ![t] = @ \cup {wal[i].row}]
           /\ cached' = cached \cup {t}
    /\ todo' = todo \ {i}
    /\ generation' = IF wal[i].gen > generation THEN wal[i].gen ELSE generation
    /\ UNCHANGED <<wal, snapshot, snapshotGen, pc, op, table, left, session, ghostVars>>

\* A table that is not there is made up from the record.  The first row resets the
\* table file; its index is open from then on, so that cached is clearedTables as well.
ReplayInsert(i) ==
    /\ pc = "replay"
    /\ Oldest(i) /\ wal[i].op = "insert"
    /\ LET t == wal[i].table
       IN  /\ tables' = [tables EXCEPT ![t] = IF @ = "none" THEN "fallback" ELSE @]
           /\ db' = [db EXCEPT ![t] = (IF t \in cached THEN @ ELSE {}) \cup {wal[i].row}]
           /\ idx' = [idx EXCEPT ![t] = @ \cup {wal[i].row}]
           /\ cached' = cached \cup {t}
    /\ todo' = todo \ {i}
    /\ generation' = IF wal[i].gen > generation THEN wal[i].gen ELSE generation
    /\ UNCHANGED <<wal, snapshot, snapshotGen, pc, op, table, left, session, ghostVars>>

\* Open returns.
Recovered ==
    /\ pc = "replay" /\ todo = {}
    /\ pc' = "up"
    /\ UNCHANGED <<fileVars, tables, generation, cached, op, table, left, todo, session, ghostVars>>

Next ==
    \/ \E o \in {"create", "drop"}, t \in Tables : WriteRecord(o, t) \/ WriteRecordFails(o, t)
    \/ WriteRollback \/ WriteCommit \/ WriteCommitFails
    \/ PublishTable \/ DropTableFile \/ DropIndexFile
    \/ \E t \in Tables : Insert(t) \/ Find(t) \/ CompactStorage(t)
    \/ writeSnapshot \/ CompactClearIndex \/ CompactRebuildIndex \/ TruncateWal
    \/ Crash
    \/ Open \/ Recovered
    \/ \E i \in DOMAIN wal : ReplaySchema(i) \/ ReplayInsert(i)

Spec == Init /\ [][Next]_vars

-----------------------------------------------------------------------------
(* Properties. *)

\* A record of a change that succeeded, and of one that failed or was never answered.
Succeeded(i, o, t) == i \in succeeded /\ IsOn(i, o, t)
Unanswered(i, o, t) == i \notin succeeded /\ IsOn(i, o, t)

\* What excuses the loss of a table: a ROLLBACK marker of another schema change takes
\* back the session that created it.  Or a drop of it that failed, or during which the
\* process died, is committed by the marker of another change of its session.
LossExcused(t) ==
    \/ \E c \in DOMAIN wal : Succeeded(c, "create", t) /\ ~Committed(wal[c].session)
    \/ \E d \in DOMAIN wal :
          /\ Unanswered(d, "drop", t) /\ Committed(wal[d].session)
          /\ \A c \in DOMAIN wal : c > d => ~Succeeded(c, "create", t)

\* What excuses the return of a dropped table: rows were inserted after an earlier schema
\* change of the session that drops it, so that the drop is replayed before the rows.  A
\* ROLLBACK marker takes back the session that dropped it.  Or a creation of it that
\* failed, or during which the process died, is committed by another change's marker.
ReturnExcused(t) ==
    \/ \E d \in DOMAIN wal :
          /\ Succeeded(d, "drop", t)
          /\ \/ \E i \in 1..(d - 1) :
                    /\ IsOn(i, "insert", t)
                    /\ \E f \in 1..(i - 1) : f \in Group(wal[d].session)
             \/ ~Committed(wal[d].session)
    \/ \E c \in DOMAIN wal :
          /\ Unanswered(c, "create", t) /\ Committed(wal[c].session)
          /\ \A d \in DOMAIN wal : d > c => ~Succeeded(d, "drop", t)

\* A created table is lost, or comes back without its id type and its indexes, only in
\* the cases of LossExcused.
TableLostOnly == \A t \in exists : pc = "up" /\ tables[t] # "declared" => LossExcused(t)

\* A dropped table comes back only in the cases of ReturnExcused.
TableBackOnly == \A t \in Tables \ exists : pc = "up" /\ tables[t] # "none" => ReturnExcused(t)

\* A table serves other rows than those inserted since it was created only if an earlier
\* drop of it panicked or was cut off before it removed the index file: a table that has
\* rows in the WAL or in the snapshot has its index open, so no drop of it removes the file.
RowsWrongOnly ==
    \A t \in exists : pc = "up" /\ (idx[t] # inserted[t] \/ ~(idx[t] \subseteq db[t])) =>
        t \in leftover
=============================================================================

----------------------------- MODULE SchemaProofs -----------------------------
(***************************************************************************)
(* Proofs about Schema for any tables and any number of rows, schema       *)
(* changes and sessions, and crashes between any two writes: all that the  *)
(* run checks on an instance.                                              *)
(*                                                                         *)
(* IInv, the inductive invariant, says beside the types: the sessions of   *)
(* the WAL follow one another (SessionsInv).  Between the steps of a       *)
(* schema change the WAL ends with its record (LoggedInv), and the tables  *)
(* are those that exist (TablesInv).  A table exists exactly if the last   *)
(* change that succeeded, or else the snapshot, says so (HistoryInv).  A   *)
(* record has a higher generation than the data before it and than the     *)
(* committed sessions before its own (GenerationsInv, CurrentInv), so that *)
(* recover takes the sessions in their order and a session no later than   *)
(* its first record (TodoInv).  While recover runs, a table that it has    *)
(* wrong is excused, or the group with the last change of the table is     *)
(* still ahead (ReplayInv).  A table none of whose drops has left its      *)
(* index file has exactly the rows of snapshot and WAL (CleanInv), and has *)
(* its index open as soon as it has rows, so that the next drop of it      *)
(* panics (OpenInv, ReplayedInv).                                          *)
(***************************************************************************)
EXTENDS Schema, TLAPS

\* The last change of the table that succeeded.
LastChange(c, o, t) ==
    /\ c \in DOMAIN wal /\ Succeeded(c, o, t)
    /\ \A j \in DOMAIN wal : j > c => ~Succeeded(j, "create", t) /\ ~Succeeded(j, "drop", t)

\* No change of the table succeeded since the WAL began.
NoChange(t) == \A j \in DOMAIN wal : ~Succeeded(j, "create", t) /\ ~Succeeded(j, "drop", t)

\* The sessions of the WAL follow one another.
SessionsInv ==
    \A i, j \in DOMAIN wal : IsSchema(i) /\ IsSchema(j) =>
        wal[i].session <= session /\ (i <= j => wal[i].session <= wal[j].session)

\* The record of the change at work is the last of the WAL, and its table exists or not.
LoggedInv ==
    /\ pc \in {"logged", "failed"} => (op = "create" <=> table \notin exists)
    /\ pc = "logged" =>
          /\ Len(wal) > 0 /\ Len(wal) \notin succeeded
          /\ IsOn(Len(wal), op, table)
    /\ pc = "marked" => (op = "create" <=> table \in exists)
    /\ pc = "removing" => table \notin exists
    /\ left \subseteq exists /\ (left # {} => pc \in {"compact", "swapped", "rebuild"})
    /\ pc \in {"swapped", "rebuild"} => table \in exists
    /\ pc \in {"compact", "swapped", "rebuild"} => DOMAIN snapshot = exists

\* While a change or Compact is at work, the tables are those that exist.
TablesInv ==
    pc \in Busy => \A t \in Tables :
        \/ pc = "marked" /\ t = table
        \/ tables[t] = IF t \in exists THEN "declared" ELSE "none"

\* What exists, by snapshot and WAL, and that rows were inserted into existing tables only.
Alive(t) == (\E c \in DOMAIN wal : LastChange(c, "create", t)) \/ (t \in DOMAIN snapshot /\ NoChange(t))
Dead(t) ==
    \/ \E d \in DOMAIN wal : /\ LastChange(d, "drop", t)
                             /\ \A i \in DOMAIN wal : IsOn(i, "insert", t) => i < d
    \/ /\ t \notin DOMAIN snapshot /\ NoChange(t)
       /\ \A i \in DOMAIN wal : ~IsOn(i, "insert", t)
HistoryInv == \A t \in Tables : (t \in exists => Alive(t)) /\ (t \notin exists => Dead(t))

\* Generations grow from data to schema changes, and from session to session.
GenerationsInv ==
    \A i, j \in DOMAIN wal : IsSchema(j) =>
        /\ wal[i].op = "insert" /\ i < j => wal[i].gen < wal[j].gen
        /\ IsSchema(i) /\ wal[i].session < wal[j].session /\ Committed(wal[i].session) =>
              wal[i].gen < wal[j].gen

\* A record that recover replays.
Replayable(i) == wal[i].op = "insert" \/ (IsSchema(i) /\ Committed(wal[i].session))

\* An open database has a generation as high as those of all that recover would replay
\* but for its own session; recover, as those of all that it has replayed.
CurrentInv ==
    \A i \in DOMAIN wal : Replayable(i) =>
        /\ pc \in Busy \cup {"up"} /\ (IsSchema(i) => wal[i].session < session) => wal[i].gen <= generation
        /\ pc = "replay" /\ i \notin todo => wal[i].gen <= generation

\* recover replays whole groups, and one that is replayed has a record as old as all ahead.
TodoInv ==
    pc = "replay" => \A i \in DOMAIN wal :
        /\ i \in todo => Replayable(i) /\ (IsSchema(i) => Group(wal[i].session) \subseteq todo)
        /\ IsSchema(i) /\ Committed(wal[i].session) /\ i \notin todo =>
              \E e \in Group(wal[i].session) : \A j \in todo : wal[e].gen <= wal[j].gen

\* A table is as it should be, or excused, or the group that makes it so is still ahead.
ReplayInv ==
    pc = "replay" =>
        /\ \A t \in exists :
              \/ tables[t] = "declared" \/ LossExcused(t)
              \/ \E c \in todo : LastChange(c, "create", t)
        /\ \A t \in Tables \ exists :
              \/ tables[t] = "none" \/ ReturnExcused(t)
              \/ \E d \in todo : LastChange(d, "drop", t)

\* The rows of a table in the snapshot.
Saved(t) == IF t \in DOMAIN snapshot THEN snapshot[t] ELSE {}
\* A row of a table is in the WAL.
IsLogged(t, r) == \E i \in DOMAIN wal : IsOn(i, "insert", t) /\ wal[i].row = r
\* A row of a table is in the WAL and was replayed.
IsReplayed(t, r) == \E i \in DOMAIN wal : i \notin todo /\ IsOn(i, "insert", t) /\ wal[i].row = r

\* A drop of the table has its marker and is not done.
Dropping(t) == t = table /\ (pc = "removing" \/ (pc = "marked" /\ op = "drop"))

\* A table none of whose drops has left its index file.
Clean(t) ==
    /\ idx[t] \subseteq inserted[t]
    /\ t \in exists => \A r \in Rows : r \in inserted[t] <=> r \in Saved(t) \/ IsLogged(t, r)
    /\ t \notin exists => /\ t \notin DOMAIN snapshot /\ idx[t] = {}
                          /\ \A r \in Rows : ~IsLogged(t, r)

\* Every table is clean until a drop of it leaves the index file.
CleanInv == \A t \in Tables : t \in leftover \/ Dropping(t) \/ Clean(t)

\* In an open database a table with rows has its index open, unless a drop has left the
\* index file, and its entries lead into the table file.
OpenRows(t) ==
    /\ t \in DOMAIN snapshot \/ (\E r \in Rows : IsLogged(t, r)) => t \in cached
    /\ t \in exists /\ ~(pc = "rebuild" /\ t = table) => idx[t] = inserted[t] /\ idx[t] \subseteq db[t]
    /\ pc \in {"swapped", "rebuild"} /\ t = table => db[t] = inserted[t]
    /\ pc \in {"compact", "swapped", "rebuild"} /\ t \in exists => snapshot[t] = inserted[t]
OpenInv == pc \in Busy \cup {"up"} => \A t \in Tables : t \in leftover \/ OpenRows(t)

\* The same of what recover has come by.
ReplayedRows(t) ==
    /\ t \in DOMAIN snapshot \/ (\E r \in Rows : IsReplayed(t, r)) => t \in cached
    /\ \A r \in Rows : r \in Saved(t) \/ IsReplayed(t, r) => r \in idx[t] /\ r \in db[t]
ReplayedInv == pc = "replay" => \A t \in Tables : t \in leftover \/ ReplayedRows(t)

\* The inductive invariant.
IInv ==
    /\ TypeOK /\ SessionsInv /\ LoggedInv /\ TablesInv /\ HistoryInv
    /\ GenerationsInv /\ CurrentInv /\ TodoInv
    /\ ReplayInv /\ CleanInv /\ OpenInv /\ ReplayedInv
    /\ TableLostOnly /\ TableBackOnly

-----------------------------------------------------------------------------
\* A record of the WAL.
LEMMA RecordIs ==
  ASSUME wal \in Seq(Records), NEW i \in DOMAIN wal
  PROVE  /\ wal[i] \in Records /\ i \in Nat /\ i >= 1 /\ i <= Len(wal)
         /\ IsSchema(i) => /\ wal[i].session \in Nat /\ wal[i].gen \in Nat /\ wal[i].table \in Tables
                           /\ wal[i].op # "insert"
         /\ wal[i].op = "insert" => /\ wal[i].row \in Rows /\ wal[i].gen \in Nat /\ wal[i].table \in Tables
                                    /\ ~IsSchema(i)
  BY DEF Records, IsSchema

\* The records of the WAL with one more.
LEMMA Appended ==
  ASSUME wal \in Seq(Records), NEW r \in Records, wal' = Append(wal, r)
  PROVE  /\ wal' \in Seq(Records) /\ Len(wal') = Len(wal) + 1 /\ Len(wal) \in Nat
         /\ DOMAIN wal = 1..Len(wal) /\ DOMAIN wal' = 1..(Len(wal) + 1)
         /\ \A i \in DOMAIN wal : wal'[i] = wal[i] /\ i \in DOMAIN wal'
         /\ Len(wal) + 1 \in DOMAIN wal' /\ Len(wal) + 1 \notin DOMAIN wal
         /\ wal'[Len(wal) + 1] = r
         /\ \A i \in DOMAIN wal' : i \in DOMAIN wal \/ i = Len(wal) + 1
  OBVIOUS

\* The records that the steps write.
LEMMA Written ==
  ASSUME TypeOK
  PROVE  /\ \A o \in {"create", "drop"}, t \in Tables : Record(o, t) \in Records
         /\ Marker("commit") \in Records /\ Marker("rollback") \in Records
         /\ \A t \in Tables : rows < MaxRows =>
               [op |-> "insert", table |-> t, row |-> rows + 1, gen |-> generation + 1] \in Records
         /\ rows < MaxRows => rows + 1 \in Rows /\ rows + 1 \in 0..MaxRows
         /\ session \in Nat
  <1>1. session \in Nat /\ generation \in Nat /\ rows \in Nat
    BY SchemaAssumption DEF TypeOK
  <1>2. rows < MaxRows => rows + 1 \in Rows /\ rows + 1 \in 0..MaxRows
    BY <1>1, SchemaAssumption DEF Rows
  <1> QED BY <1>1, <1>2 DEF Records, Record, Marker

\* A step that adds a record to the WAL, and what it may be.
Appends(r) ==
    /\ r \in Records /\ wal' = Append(wal, r)
    /\ UNCHANGED <<session, snapshot, snapshotGen>>

\* A schema record, of this session and newer than the generation.
AppendsSchema(r) ==
    /\ Appends(r) /\ r.op \in {"create", "drop"} /\ r.session = session /\ r.gen = generation + 1
    /\ r.table = table' /\ r.op = op'
    /\ Ready /\ pc' \in {"logged", "failed"} /\ UNCHANGED <<generation, exists, succeeded>>

\* A marker of this session.
AppendsMarker(r) ==
    /\ Appends(r) /\ r.op \in {"commit", "rollback"} /\ r.session = session
    /\ UNCHANGED generation /\ pc \in {"logged", "failed"} /\ pc' \in {"up", "marked"}

\* A row of a table that exists.
AppendsRow(r) ==
    /\ Appends(r) /\ r.op = "insert" /\ r.gen = generation + 1 /\ generation' = generation + 1
    /\ r.table \in exists
    /\ Ready /\ pc' = "up" /\ UNCHANGED <<exists, succeeded, table, op>>

\* What exists is what it was, and so is the WAL.
KeepsWal == UNCHANGED <<wal, succeeded, exists>>

\* In a database that is ready the tables are those that exist.
LEMMA ReadyTables ==
  ASSUME Ready
  PROVE  /\ pc = "up"
         /\ \A t \in Tables : /\ tables[t] = IF t \in exists THEN "declared" ELSE "none"
                              /\ t \in exists => idx[t] = inserted[t] /\ idx[t] \subseteq db[t]
  BY DEF Ready, Right

\* The tables that are there are those that exist.
LEMMA ReadyKnown ==
  ASSUME TypeOK, Ready
  PROVE  Known = exists
  BY ReadyTables DEF Known, TypeOK

\* The schema records.
LEMMA WriteRecordIs ==
  ASSUME TypeOK, NEW o \in {"create", "drop"}, NEW t \in Tables, WriteRecord(o, t) \/ WriteRecordFails(o, t)
  PROVE  \/ \E r \in Records : AppendsSchema(r)
         \/ KeepsWal /\ UNCHANGED <<session, snapshot, generation>> /\ pc' = "failed"
  <1>1. Record(o, t) \in Records
    BY Written
  <1>2. /\ Record(o, t).op = o /\ Record(o, t).table = t /\ Record(o, t).session = session
        /\ Record(o, t).gen = generation + 1
    BY DEF Record
  <1> QED BY <1>1, <1>2 DEF WriteRecord, WriteRecordFails, Change, AppendWal, AppendsSchema, Appends, KeepsWal

\* The markers.
LEMMA WriteMarkerIs ==
  ASSUME TypeOK, WriteRollback \/ WriteCommit \/ WriteCommitFails
  PROVE  \/ \E r \in Records : AppendsMarker(r)
         \/ KeepsWal /\ UNCHANGED <<session, snapshot, generation>> /\ pc \in Busy /\ pc' = "up"
  <1>1. Marker("commit") \in Records /\ Marker("rollback") \in Records
    BY Written
  <1>2. /\ Marker("commit").op = "commit" /\ Marker("commit").session = session
        /\ Marker("rollback").op = "rollback" /\ Marker("rollback").session = session
    BY DEF Marker
  <1>3. CASE WriteRollback
    BY <1>1, <1>2, <1>3 DEF WriteRollback, ChangeFails, AppendWal, AppendsMarker, Appends, KeepsWal, ghostVars, Busy
  <1>4. CASE WriteCommit
    BY <1>1, <1>2, <1>4 DEF WriteCommit, AppendWal, AppendsMarker, Appends
  <1>5. CASE WriteCommitFails
    BY <1>1, <1>2, <1>5 DEF WriteCommitFails, ChangeFails, AppendWal, AppendsMarker, Appends, KeepsWal, ghostVars, Busy
  <1> QED BY <1>3, <1>4, <1>5

\* A row.
LEMMA InsertIs ==
  ASSUME TypeOK, NEW t \in Tables, Insert(t)
  PROVE  \E r \in Records : AppendsRow(r) /\ r.table = t /\ r.row = rows + 1
  <1> DEFINE r == [op |-> "insert", table |-> t, row |-> rows + 1, gen |-> generation + 1]
  <1>1. r \in Records
    BY Written DEF Insert
  <1>2. t \in exists
    BY ReadyTables DEF Insert
  <1> QED BY <1>1, <1>2 DEF Insert, AppendWal, AppendsRow, Appends, Ready

\* The actions that leave the WAL, what exists and the generation.
LEMMA OtherIs ==
  ASSUME \/ PublishTable \/ DropTableFile \/ DropIndexFile \/ writeSnapshot
         \/ CompactClearIndex \/ CompactRebuildIndex \/ Crash \/ Open \/ Recovered
         \/ \E t \in Tables : Find(t) \/ CompactStorage(t)
         \/ \E i \in DOMAIN wal : ReplaySchema(i) \/ ReplayInsert(i)
         \/ UNCHANGED vars
  PROVE  KeepsWal /\ (session' = session \/ session' = session + 1)
  BY DEF PublishTable, DropTableFile, DropIndexFile, writeSnapshot, CompactClearIndex, CompactRebuildIndex,
         Crash, Open, Recovered, Find, CompactStorage, ReplaySchema, ReplayInsert, vars, KeepsWal, fileVars,
         ghostVars, processVars

\* Every step writes the WAL, empties it or keeps it.
LEMMA StepIs ==
  ASSUME TypeOK, [Next]_vars
  PROVE  \/ KeepsWal /\ (session' = session \/ session' = session + 1)
         \/ TruncateWal
         \/ \E r \in Records : AppendsSchema(r) \/ AppendsMarker(r) \/ AppendsRow(r)
  BY WriteRecordIs, WriteMarkerIs, InsertIs, OtherIs DEF Next

-----------------------------------------------------------------------------
\* Positions of the WAL stay positions.
LEMMA PositionsKept ==
  ASSUME TypeOK, [Next]_vars, ~TruncateWal
  PROVE  wal' \in Seq(Records) /\ DOMAIN wal \subseteq DOMAIN wal'
  <1>1. CASE KeepsWal
    BY <1>1 DEF KeepsWal, TypeOK
  <1>2. ASSUME NEW r \in Records, wal' = Append(wal, r) PROVE wal' \in Seq(Records) /\ DOMAIN wal \subseteq DOMAIN wal'
    BY <1>2, Appended DEF TypeOK
  <1> QED BY <1>1, <1>2, StepIs DEF AppendsSchema, AppendsMarker, AppendsRow, Appends

\* Every step keeps the types.
LEMMA TypeNext == TypeOK /\ LoggedInv /\ [Next]_vars => TypeOK'
  <1> SUFFICES ASSUME TypeOK, LoggedInv, [Next]_vars PROVE TypeOK'
    OBVIOUS
  <1>0. ~TruncateWal => wal' \in Seq(Records) /\ DOMAIN wal \subseteq DOMAIN wal'
    BY PositionsKept
  <1>00. TruncateWal => wal' = <<>>
    BY DEF TruncateWal
  <1>1. ASSUME NEW o \in {"create", "drop"}, NEW t \in Tables, WriteRecord(o, t) \/ WriteRecordFails(o, t)
        PROVE  TypeOK'
    <2>1. changes' \in 0..MaxChanges
      BY <1>1, SchemaAssumption DEF WriteRecord, WriteRecordFails, Change, TypeOK
    <2>2. ~TruncateWal
      BY <1>1 DEF WriteRecord, WriteRecordFails, Change, Ready, TruncateWal
    <2> QED BY <1>0, <1>1, <2>1, <2>2 DEF WriteRecord, WriteRecordFails, Change, Ready, TypeOK, Busy
  <1>2. CASE WriteRollback \/ WriteCommitFails
    <2>2. ~TruncateWal
      BY <1>2 DEF WriteRollback, WriteCommitFails, TruncateWal
    <2> QED BY <1>0, <1>2, <2>2 DEF WriteRollback, WriteCommitFails, ChangeFails, TypeOK, Busy, ghostVars
  <1>3. CASE WriteCommit
    <2>1. Len(wal) \in DOMAIN wal'
      BY <1>3, Written, Appended DEF WriteCommit, AppendWal, TypeOK, LoggedInv
    <2>2. ~TruncateWal
      BY <1>3 DEF WriteCommit, TruncateWal
    <2>3. /\ table \in Tables /\ exists' \subseteq Tables /\ inserted' \in [Tables -> SUBSET Rows]
          /\ succeeded' \subseteq DOMAIN wal'
      BY <1>0, <1>3, <2>1, <2>2 DEF WriteCommit, TypeOK, Busy
    <2> QED BY <1>0, <1>3, <2>2, <2>3 DEF WriteCommit, TypeOK, Busy
  <1>4. CASE PublishTable
    BY <1>4 DEF PublishTable, TypeOK, Busy, fileVars, ghostVars
  <1>5. CASE DropTableFile
    BY <1>5 DEF DropTableFile, TypeOK, Busy, ghostVars
  <1>6. CASE DropIndexFile
    BY <1>6 DEF DropIndexFile, TypeOK, Busy
  <1>7. ASSUME NEW t \in Tables, Insert(t) PROVE TypeOK'
    <2>1. rows' \in 0..MaxRows /\ rows + 1 \in Rows /\ rows' = rows + 1
      BY <1>7, Written DEF Insert
    <2>2. pc = "up" /\ ~TruncateWal
      BY <1>7 DEF Insert, Ready, TruncateWal
    <2>3. db' \in [Tables -> SUBSET Rows] /\ idx' \in [Tables -> SUBSET Rows] /\ inserted' \in [Tables -> SUBSET Rows]
      BY <1>7, <2>1 DEF Insert, TypeOK
    <2> QED BY <1>0, <1>7, <2>1, <2>2, <2>3 DEF Insert, TypeOK
  <1>8. ASSUME NEW t \in Tables, Find(t) PROVE TypeOK'
    BY <1>8 DEF Find, TypeOK, fileVars, ghostVars
  <1>9. CASE writeSnapshot
    BY <1>9 DEF writeSnapshot, Ready, Known, TypeOK, Busy, ghostVars
  <1>10. ASSUME NEW t \in Tables, CompactStorage(t) PROVE TypeOK'
    BY <1>10 DEF CompactStorage, TypeOK, Busy, ghostVars
  <1>11. CASE CompactClearIndex \/ CompactRebuildIndex
    BY <1>11 DEF CompactClearIndex, CompactRebuildIndex, TypeOK, Busy, ghostVars
  <1>12. CASE TruncateWal
    <2>1. wal' \in Seq(Records) /\ succeeded' = {} /\ todo' = {} /\ pc' = "up"
      BY <1>00, <1>12 DEF TruncateWal, TypeOK
    <2> QED BY <1>12, <2>1 DEF TruncateWal, TypeOK, Busy
  <1>13. CASE Crash
    <2>1. leftover' \subseteq Tables
      BY <1>13 DEF Crash, TypeOK, Busy
    <2> QED BY <1>13, <2>1 DEF Crash, TypeOK, Busy, fileVars
  <1>14. CASE Open
    <2>1. session' \in 1..MaxSessions
      BY <1>14, SchemaAssumption DEF Open, TypeOK
    <2>2. /\ tables' \in [Tables -> {"none", "declared", "fallback"}] /\ cached' \subseteq Tables
          /\ db' \in [Tables -> SUBSET Rows] /\ idx' \in [Tables -> SUBSET Rows]
      BY <1>14 DEF Open, TypeOK
    <2> QED BY <1>14, <2>1, <2>2 DEF Open, TypeOK, Busy, ghostVars
  <1>15. CASE Recovered
    BY <1>15 DEF Recovered, TypeOK, Busy, fileVars, ghostVars
  <1>16. ASSUME NEW i \in DOMAIN wal, ReplaySchema(i) PROVE TypeOK'
    <2>1. generation' \in Nat
      <3>1. \A j \in Group(wal[i].session) : wal[j].gen \in Nat
        BY RecordIs DEF TypeOK, Group
      <3> QED BY <1>16, <3>1 DEF ReplaySchema, TypeOK
    <2>2. tables' \in [Tables -> {"none", "declared", "fallback"}]
      BY <1>16 DEF ReplaySchema, TypeOK
    <2> QED BY <1>16, <2>1, <2>2 DEF ReplaySchema, TypeOK, Busy, fileVars, ghostVars
  <1>17. ASSUME NEW i \in DOMAIN wal, ReplayInsert(i) PROVE TypeOK'
    <2>1. wal[i].table \in Tables /\ wal[i].row \in Rows /\ wal[i].gen \in Nat
      <3>1. wal[i].op = "insert"
        BY <1>17 DEF ReplayInsert
      <3> QED BY <3>1, RecordIs DEF TypeOK
    <2>2. /\ tables' \in [Tables -> {"none", "declared", "fallback"}]
          /\ db' \in [Tables -> SUBSET Rows] /\ idx' \in [Tables -> SUBSET Rows] /\ cached' \subseteq Tables
      BY <1>17, <2>1 DEF ReplayInsert, TypeOK
    <2>3. generation' \in Nat
      BY <1>17, <2>1 DEF ReplayInsert, TypeOK
    <2> QED BY <1>17, <2>2, <2>3 DEF ReplayInsert, TypeOK, Busy, ghostVars
  <1>18. CASE UNCHANGED vars
    BY <1>18 DEF vars, TypeOK, Busy, fileVars, processVars, ghostVars
  <1> QED
    BY <1>1, <1>2, <1>3, <1>4, <1>5, <1>6, <1>7, <1>8, <1>9, <1>10, <1>11, <1>12, <1>13, <1>14, <1>15, <1>16,
       <1>17, <1>18 DEF Next

\* Every step keeps the order of the sessions.
LEMMA SessionsNext == TypeOK /\ SessionsInv /\ [Next]_vars => SessionsInv'
  <1> SUFFICES ASSUME TypeOK, SessionsInv, [Next]_vars PROVE SessionsInv'
    OBVIOUS
  <1>0. session \in Nat
    BY Written
  <1>1. ASSUME NEW r \in Records, Appends(r), r.op \in {"create", "drop"} => r.session = session
        PROVE  SessionsInv'
    <2>0. wal' = Append(wal, r) /\ session' = session
      BY <1>1 DEF Appends
    <2>1. /\ DOMAIN wal = 1..Len(wal) /\ DOMAIN wal' = 1..(Len(wal) + 1) /\ Len(wal) \in Nat
          /\ \A i \in DOMAIN wal : wal'[i] = wal[i]
          /\ wal'[Len(wal) + 1] = r
      BY <2>0, Appended DEF TypeOK
    <2>2. SUFFICES ASSUME NEW i \in DOMAIN wal', NEW j \in DOMAIN wal', IsSchema(i)', IsSchema(j)'
                   PROVE  wal'[i].session <= session /\ (i <= j => wal'[i].session <= wal'[j].session)
      BY <2>0 DEF SessionsInv
    <2>3. \A k \in DOMAIN wal : IsSchema(k) => wal[k].session \in Nat /\ wal[k].session <= session
      BY RecordIs DEF SessionsInv, TypeOK
    <2>5. CASE i \in DOMAIN wal /\ j \in DOMAIN wal
      BY <2>1, <2>2, <2>5 DEF SessionsInv, IsSchema
    <2>6. CASE j \notin DOMAIN wal
      <3>1. j = Len(wal) + 1 /\ wal'[j].session = session
        BY <1>1, <2>1, <2>2, <2>6 DEF IsSchema
      <3>2. wal'[i].session <= session
        BY <1>0, <1>1, <2>1, <2>2, <2>3 DEF IsSchema
      <3> QED BY <3>1, <3>2
    <2>7. CASE i \notin DOMAIN wal
      <3>1. i = Len(wal) + 1 /\ wal'[i].session = session
        BY <1>1, <2>1, <2>2, <2>7 DEF IsSchema
      <3>2. i <= j => j = i
        BY <2>1, <3>1
      <3> QED BY <1>0, <3>1, <3>2
    <2> QED BY <2>5, <2>6, <2>7
  <1>2. ASSUME NEW r \in Records, AppendsSchema(r) \/ AppendsMarker(r) \/ AppendsRow(r) PROVE SessionsInv'
    BY <1>1, <1>2 DEF AppendsSchema, AppendsMarker, AppendsRow
  <1>3. CASE TruncateWal
    BY <1>3 DEF TruncateWal, SessionsInv
  <1>4. CASE KeepsWal /\ (session' = session \/ session' = session + 1)
    <2>1. \A k \in DOMAIN wal : IsSchema(k) => wal[k].session \in Nat
      BY RecordIs DEF TypeOK
    <2> QED BY <1>0, <1>4, <2>1 DEF SessionsInv, IsSchema, KeepsWal
  <1> QED BY <1>2, <1>3, <1>4, StepIs

\* Every step keeps the record of the change at work at the end of the WAL.
LEMMA LoggedNext == TypeOK /\ LoggedInv /\ TablesInv /\ [Next]_vars => LoggedInv'
  <1> SUFFICES ASSUME TypeOK, LoggedInv, TablesInv, [Next]_vars PROVE LoggedInv'
    OBVIOUS
  <1>1. ASSUME NEW o \in {"create", "drop"}, NEW t \in Tables, WriteRecord(o, t) \/ WriteRecordFails(o, t)
        PROVE  LoggedInv'
    <2>1. /\ o = "create" <=> t \notin exists
          /\ op' = o /\ table' = t /\ UNCHANGED <<exists, left, snapshot, succeeded>>
          /\ pc' \in {"logged", "failed"}
      BY <1>1, ReadyTables DEF WriteRecord, WriteRecordFails, Change
    <2>3. left = {}
      BY <1>1 DEF WriteRecord, WriteRecordFails, Change, Ready, LoggedInv
    <2>2. pc' = "logged" => /\ Len(wal') > 0 /\ Len(wal') \notin succeeded
                            /\ wal'[Len(wal')].op = o /\ wal'[Len(wal')].table = t
      <3>1. CASE WriteRecord(o, t)
        <4>1. wal' = Append(wal, Record(o, t)) /\ Record(o, t) \in Records
          BY <3>1, Written DEF WriteRecord, AppendWal
        <4>2. Len(wal') = Len(wal) + 1 /\ Len(wal) \in Nat /\ wal'[Len(wal) + 1] = Record(o, t) /\ Len(wal) + 1 \notin DOMAIN wal
          BY <4>1, Appended DEF TypeOK
        <4> QED BY <4>2 DEF Record, TypeOK
      <3> QED BY <1>1, <3>1 DEF WriteRecordFails
    <2> QED BY <2>1, <2>2, <2>3 DEF LoggedInv, IsOn
  <1>2. CASE WriteRollback \/ WriteCommitFails
    BY <1>2 DEF WriteRollback, WriteCommitFails, ChangeFails, LoggedInv, ghostVars
  <1>3. CASE WriteCommit
    <2>1. /\ exists' = IF op = "create" THEN exists \cup {table} ELSE exists \ {table}
          /\ pc = "logged" /\ pc' = "marked" /\ UNCHANGED <<op, table, left>>
      BY <1>3 DEF WriteCommit
    <2>2. left \subseteq exists'
      <3>1. left = {}
        BY <1>3 DEF WriteCommit, LoggedInv
      <3> QED BY <3>1
    <2> QED BY <2>1, <2>2 DEF LoggedInv, TypeOK
  <1>4. CASE PublishTable
    BY <1>4 DEF PublishTable, LoggedInv, fileVars, ghostVars
  <1>5. CASE DropTableFile
    BY <1>5 DEF DropTableFile, LoggedInv, ghostVars
  <1>6. CASE DropIndexFile
    BY <1>6 DEF DropIndexFile, LoggedInv
  <1>7. ASSUME NEW t \in Tables, Insert(t) PROVE LoggedInv'
    BY <1>7 DEF Insert, Ready, LoggedInv
  <1>8. ASSUME NEW t \in Tables, Find(t) PROVE LoggedInv'
    BY <1>8 DEF Find, LoggedInv, IsOn, fileVars, ghostVars
  <1>9. CASE writeSnapshot
    BY <1>9, ReadyKnown DEF writeSnapshot, LoggedInv, ghostVars
  <1>10. ASSUME NEW t \in Tables, CompactStorage(t) PROVE LoggedInv'
    BY <1>10 DEF CompactStorage, LoggedInv, ghostVars
  <1>11. CASE CompactClearIndex
    BY <1>11 DEF CompactClearIndex, LoggedInv, ghostVars
  <1>12. CASE CompactRebuildIndex
    BY <1>12 DEF CompactRebuildIndex, LoggedInv, ghostVars
  <1>13. CASE TruncateWal
    BY <1>13 DEF TruncateWal, LoggedInv
  <1>14. CASE Crash
    BY <1>14 DEF Crash, LoggedInv, fileVars
  <1>15. CASE Open
    BY <1>15 DEF Open, LoggedInv, ghostVars
  <1>16. CASE Recovered
    BY <1>16 DEF Recovered, LoggedInv, fileVars, ghostVars
  <1>17. ASSUME NEW i \in DOMAIN wal, ReplaySchema(i) \/ ReplayInsert(i) PROVE LoggedInv'
    BY <1>17 DEF ReplaySchema, ReplayInsert, LoggedInv, fileVars, ghostVars
  <1>18. CASE UNCHANGED vars
    BY <1>18 DEF vars, LoggedInv, IsOn, fileVars, processVars, ghostVars
  <1> QED
    BY <1>1, <1>2, <1>3, <1>4, <1>5, <1>6, <1>7, <1>8, <1>9, <1>10, <1>11, <1>12, <1>13, <1>14, <1>15, <1>16,
       <1>17, <1>18 DEF Next

\* Every step keeps the tables at work those that exist.
LEMMA TablesNext == TypeOK /\ LoggedInv /\ TablesInv /\ [Next]_vars => TablesInv'
  <1> SUFFICES ASSUME TypeOK, LoggedInv, TablesInv, [Next]_vars PROVE TablesInv'
    OBVIOUS
  <1>1. ASSUME NEW o \in {"create", "drop"}, NEW t \in Tables, WriteRecord(o, t) \/ WriteRecordFails(o, t)
        PROVE  TablesInv'
    BY <1>1, ReadyTables DEF WriteRecord, WriteRecordFails, Change, TablesInv
  <1>3. CASE WriteCommit
    <2>1. /\ \A t \in Tables : t # table => (t \in exists' <=> t \in exists)
          /\ pc = "logged" /\ pc' = "marked" /\ UNCHANGED <<tables, table>>
      BY <1>3 DEF WriteCommit
    <2> QED BY <2>1 DEF TablesInv, Busy
  <1>5. CASE DropTableFile
    <2>1. /\ pc = "marked" /\ UNCHANGED exists /\ tables' = [tables EXCEPT ![table] = "none"] /\ table \notin exists
          /\ table \in Tables
      BY <1>5 DEF DropTableFile, LoggedInv, ghostVars, TypeOK, Busy
    <2> QED BY <2>1 DEF TablesInv, Busy, TypeOK
  <1>7. ASSUME pc' \notin Busy PROVE TablesInv'
    BY <1>7 DEF TablesInv
  <1>8. ASSUME UNCHANGED <<tables, table, exists, pc>> PROVE TablesInv'
    BY <1>8 DEF TablesInv
  <1>9. CASE writeSnapshot
    BY <1>9, ReadyTables DEF writeSnapshot, TablesInv, ghostVars
  <1>10. ASSUME UNCHANGED <<tables, exists>>, pc \in Busy \ {"marked"} PROVE TablesInv'
    BY <1>10 DEF TablesInv
  <1>11. ASSUME NEW t \in Tables, CompactStorage(t) PROVE TablesInv'
    BY <1>10, <1>11 DEF CompactStorage, ghostVars, Busy
  <1>12. CASE CompactClearIndex \/ CompactRebuildIndex
    BY <1>10, <1>12 DEF CompactClearIndex, CompactRebuildIndex, ghostVars, Busy
  <1>13. CASE \/ WriteRollback \/ WriteCommitFails \/ PublishTable \/ DropIndexFile \/ TruncateWal \/ Crash \/ Open
              \/ Recovered \/ \E t \in Tables : Insert(t)
    BY <1>7, <1>13 DEF WriteRollback, WriteCommitFails, ChangeFails, PublishTable, DropIndexFile, TruncateWal,
                Crash, Open, Recovered, Insert, Ready, Busy
  <1>14. ASSUME NEW t \in Tables, Find(t) PROVE TablesInv'
    BY <1>8, <1>14 DEF Find, ghostVars
  <1>17. ASSUME NEW i \in DOMAIN wal, ReplaySchema(i) \/ ReplayInsert(i) PROVE TablesInv'
    BY <1>7, <1>17 DEF ReplaySchema, ReplayInsert, Busy
  <1>18. CASE UNCHANGED vars
    BY <1>8, <1>18 DEF vars, processVars, ghostVars
  <1> QED
    BY <1>1, <1>3, <1>5, <1>9, <1>11, <1>12, <1>13, <1>14, <1>17, <1>18 DEF Next

\* One more record that is not yet answered, or a marker, changes nothing that exists.
LEMMA HistoryAppended ==
  ASSUME TypeOK, HistoryInv, NEW r \in Records, wal' = Append(wal, r), succeeded' = succeeded, exists' = exists,
         snapshot' = snapshot, r.op = "insert" => r.table \in exists
  PROVE  HistoryInv'
  <1> DEFINE n == Len(wal) + 1
  <1>1. /\ \A i \in DOMAIN wal : wal'[i] = wal[i] /\ i \in DOMAIN wal' /\ i \in Nat
        /\ wal'[n] = r /\ n \notin DOMAIN wal /\ n \in DOMAIN wal'
        /\ \A i \in DOMAIN wal' : i \in DOMAIN wal \/ i = n
    BY Appended DEF TypeOK
  <1>2. n \notin succeeded /\ succeeded \subseteq DOMAIN wal
    BY <1>1 DEF TypeOK
  <1> HIDE DEF n
  <1>3. \A i \in DOMAIN wal', o \in {"create", "drop"}, t \in Tables : Succeeded(i, o, t)' <=> i \in DOMAIN wal /\ Succeeded(i, o, t)
    BY <1>1, <1>2 DEF Succeeded, IsOn
  <1>4. \A t \in Tables : NoChange(t) => NoChange(t)'
    BY <1>3 DEF NoChange
  <1>5. ASSUME NEW t \in Tables, NEW o \in {"create", "drop"}, NEW c \in DOMAIN wal, LastChange(c, o, t) PROVE LastChange(c, o, t)'
    BY <1>1, <1>3, <1>5 DEF LastChange
  <1>6. ASSUME NEW t \in Tables, t \in exists PROVE Alive(t)'
    <2>1. Alive(t)
      BY <1>6 DEF HistoryInv
    <2> QED BY <1>1, <1>4, <1>5, <2>1 DEF Alive
  <1>7. ASSUME NEW t \in Tables, t \notin exists PROVE Dead(t)'
    <2>1. Dead(t)
      BY <1>7 DEF HistoryInv
    <2>2. \A i \in DOMAIN wal' : IsOn(i, "insert", t)' => i \in DOMAIN wal /\ IsOn(i, "insert", t)
      BY <1>1, <1>7 DEF IsOn
    <2> QED BY <1>1, <1>4, <1>5, <2>1, <2>2 DEF Dead
  <1> QED BY <1>6, <1>7 DEF HistoryInv

\* A change that succeeds.
LEMMA HistoryCommitted ==
  ASSUME TypeOK, LoggedInv, HistoryInv, WriteCommit
  PROVE  HistoryInv'
  <1>a. Len(wal) \in Nat /\ op \in {"create", "drop"} /\ table \in Tables
    BY DEF TypeOK, WriteCommit, Busy
  <1>b. PICK m \in Nat, n \in Nat, f \in {"create", "drop"}, u \in Tables :
           m = Len(wal) /\ n = m + 1 /\ f = op /\ u = table
    BY <1>a
  <1>0. wal' = Append(wal, Marker("commit")) /\ Marker("commit") \in Records /\ Marker("commit").op = "commit"
    BY Written DEF WriteCommit, AppendWal, Marker
  <1>1. /\ \A i \in DOMAIN wal : wal'[i] = wal[i] /\ i \in DOMAIN wal' /\ i \in Nat /\ i <= m
        /\ wal'[n].op = "commit" /\ n \notin DOMAIN wal /\ n \in DOMAIN wal' /\ m \in DOMAIN wal
        /\ \A i \in DOMAIN wal' : i \in DOMAIN wal \/ i = n
    <2>1. Len(wal) > 0
      BY DEF LoggedInv, WriteCommit
    <2> QED BY <1>0, <1>b, <2>1, Appended DEF TypeOK
  <1>2. m < n /\ m \in Nat /\ n \in Nat
    BY <1>b
  <1>3. /\ succeeded' = succeeded \cup {m} /\ succeeded \subseteq DOMAIN wal /\ m \notin succeeded
        /\ wal[m].op = f /\ wal[m].table = u
        /\ f = "create" <=> u \notin exists
        /\ exists' = IF f = "create" THEN exists \cup {u} ELSE exists \ {u}
        /\ snapshot' = snapshot
    BY <1>b DEF WriteCommit, LoggedInv, IsOn, TypeOK, Busy
  <1>4. \A i \in DOMAIN wal', o \in {"create", "drop"}, t \in Tables :
            Succeeded(i, o, t)' <=> \/ i \in DOMAIN wal /\ Succeeded(i, o, t)
                                    \/ i = m /\ o = f /\ t = u
    BY <1>1, <1>2, <1>3 DEF Succeeded, IsOn
  <1>5. LastChange(m, f, u)'
    <2>1. m \in DOMAIN wal' /\ Succeeded(m, f, u)'
      BY <1>1, <1>3, <1>4
    <2>2. ASSUME NEW j \in DOMAIN wal', j > m PROVE ~Succeeded(j, "create", u)' /\ ~Succeeded(j, "drop", u)'
      <3>1. j \notin DOMAIN wal /\ j # m
        BY <1>1, <1>2, <2>2
      <3> QED BY <1>3, <1>4, <3>1
    <2> QED BY <2>1, <2>2 DEF LastChange
  <1>6. ASSUME NEW t \in Tables, t # u, NEW o \in {"create", "drop"}, NEW c \in DOMAIN wal, LastChange(c, o, t)
        PROVE  LastChange(c, o, t)'
    BY <1>1, <1>4, <1>6 DEF LastChange
  <1>7. \A t \in Tables : t # u /\ NoChange(t) => NoChange(t)'
    BY <1>4 DEF NoChange
  <1>8. \A t \in Tables, i \in DOMAIN wal' : IsOn(i, "insert", t)' => i \in DOMAIN wal /\ IsOn(i, "insert", t)
    BY <1>1 DEF IsOn
  <1>9. ASSUME NEW t \in Tables, t # u PROVE (t \in exists' => Alive(t)') /\ (t \notin exists' => Dead(t)')
    <2>1. (t \in exists => Alive(t)) /\ (t \notin exists => Dead(t)) /\ (t \in exists' <=> t \in exists)
      BY <1>3, <1>9 DEF HistoryInv
    <2>2. Alive(t) => Alive(t)'
      BY <1>1, <1>3, <1>6, <1>7, <1>9 DEF Alive
    <2>3. Dead(t) => Dead(t)'
      BY <1>1, <1>3, <1>6, <1>7, <1>8, <1>9 DEF Dead
    <2> QED BY <2>1, <2>2, <2>3
  <1>10. CASE f = "create"
    <2>1. Alive(u)' /\ u \in exists'
      <3>1. u \in exists'
        BY <1>3, <1>10
      <3>2. \E c \in DOMAIN wal' : LastChange(c, "create", u)'
        BY <1>1, <1>5, <1>10
      <3> QED BY <3>1, <3>2 DEF Alive
    <2> QED BY <1>9, <2>1 DEF HistoryInv
  <1>11. CASE f = "drop"
    <2>1. Dead(u)' /\ u \notin exists'
      <3>1. u \notin exists'
        BY <1>3, <1>11
      <3>2. \A i \in DOMAIN wal' : IsOn(i, "insert", u)' => i < m
        BY <1>1, <1>2, <1>3, <1>8, <1>11 DEF IsOn
      <3>3. \E d \in DOMAIN wal' : LastChange(d, "drop", u)' /\ \A i \in DOMAIN wal' : IsOn(i, "insert", u)' => i < d
        BY <1>1, <1>5, <1>11, <3>2
      <3> QED BY <3>1, <3>3 DEF Dead
    <2> QED BY <1>9, <2>1 DEF HistoryInv
  <1> QED BY <1>3, <1>10, <1>11

\* Every step keeps what exists in accord with snapshot and WAL.
LEMMA HistoryNext == TypeOK /\ LoggedInv /\ HistoryInv /\ [Next]_vars => HistoryInv'
  <1> SUFFICES ASSUME TypeOK, LoggedInv, HistoryInv, [Next]_vars PROVE HistoryInv'
    OBVIOUS
  <1>1. CASE WriteCommit
    BY <1>1, HistoryCommitted
  <1>2. ASSUME NEW r \in Records, AppendsSchema(r) \/ AppendsRow(r) PROVE HistoryInv'
    BY <1>2, HistoryAppended DEF AppendsSchema, AppendsRow, Appends
  <1>3. CASE WriteRollback \/ WriteCommitFails
    <2>1. succeeded' = succeeded /\ exists' = exists /\ snapshot' = snapshot
      BY <1>3 DEF WriteRollback, WriteCommitFails, ChangeFails, ghostVars
    <2>2. ASSUME NEW r \in Records, AppendsMarker(r) PROVE HistoryInv'
      BY <2>1, <2>2, HistoryAppended DEF AppendsMarker, Appends
    <2>3. CASE KeepsWal
      BY <2>1, <2>3 DEF KeepsWal, HistoryInv, Alive, Dead, LastChange, NoChange, Succeeded, IsOn
    <2> QED BY <1>3, <2>2, <2>3, WriteMarkerIs
  <1>4. CASE TruncateWal
    <2>1. /\ wal' = <<>> /\ DOMAIN wal' = {} /\ UNCHANGED <<snapshot, exists>> /\ DOMAIN snapshot = exists
      BY <1>4 DEF TruncateWal, LoggedInv
    <2> QED BY <2>1 DEF HistoryInv, Alive, Dead, NoChange
  <1>5. CASE writeSnapshot
    <2>1. KeepsWal /\ DOMAIN snapshot' = exists
      BY <1>5, OtherIs, ReadyKnown DEF writeSnapshot
    <2> QED BY <2>1 DEF KeepsWal, HistoryInv, Alive, Dead, LastChange, NoChange, Succeeded, IsOn
  <1>6. ASSUME KeepsWal, snapshot' = snapshot PROVE HistoryInv'
    BY <1>6 DEF KeepsWal, HistoryInv, Alive, Dead, LastChange, NoChange, Succeeded, IsOn
  <1>7. CASE \/ PublishTable \/ DropTableFile \/ DropIndexFile
             \/ CompactClearIndex \/ CompactRebuildIndex \/ Crash \/ Open \/ Recovered
             \/ (\E t \in Tables : Find(t) \/ CompactStorage(t))
             \/ (\E i \in DOMAIN wal : ReplaySchema(i) \/ ReplayInsert(i))
             \/ UNCHANGED vars
    <2>1. snapshot' = snapshot
      BY <1>7 DEF PublishTable, DropTableFile, DropIndexFile, CompactClearIndex, CompactRebuildIndex,
         Crash, Open, Recovered, Find, CompactStorage, ReplaySchema, ReplayInsert, vars, fileVars
    <2> QED BY <1>6, <1>7, <2>1, OtherIs
  <1>8. ASSUME NEW o \in {"create", "drop"}, NEW t \in Tables, WriteRecord(o, t) \/ WriteRecordFails(o, t) PROVE HistoryInv'
    BY <1>2, <1>6, <1>8, WriteRecordIs
  <1>9. ASSUME NEW t \in Tables, Insert(t) PROVE HistoryInv'
    BY <1>2, <1>9, InsertIs
  <1> QED BY <1>1, <1>3, <1>4, <1>5, <1>7, <1>8, <1>9 DEF Next

-----------------------------------------------------------------------------
\* A record commits or rolls back no session but its own, and only if it is a marker.
LEMMA CommittedAppended ==
  ASSUME TypeOK, NEW r \in Records, wal' = Append(wal, r), NEW s,
         r.op \in {"commit", "rollback"} => r.session # s
  PROVE  Committed(s)' <=> Committed(s)
  <1> DEFINE n == Len(wal) + 1
  <1>1. /\ \A i \in DOMAIN wal : wal'[i] = wal[i] /\ i \in DOMAIN wal'
        /\ wal'[n] = r /\ \A i \in DOMAIN wal' : i \in DOMAIN wal \/ i = n
    BY Appended DEF TypeOK
  <1> HIDE DEF n
  <1>2. \A m \in {"commit", "rollback"} : Marked(s, m)' <=> Marked(s, m)
    BY <1>1 DEF Marked
  <1> QED BY <1>2 DEF Committed

\* Every step keeps the order of the generations.
LEMMA GenerationsNext ==
  TypeOK /\ SessionsInv /\ GenerationsInv /\ CurrentInv /\ [Next]_vars => GenerationsInv'
  <1> SUFFICES ASSUME TypeOK, SessionsInv, GenerationsInv, CurrentInv, [Next]_vars PROVE GenerationsInv'
    OBVIOUS
  <1>1. ASSUME NEW r \in Records, AppendsSchema(r) \/ AppendsMarker(r) \/ AppendsRow(r) PROVE GenerationsInv'
    <2>0. wal' = Append(wal, r) /\ session' = session
      BY <1>1 DEF AppendsSchema, AppendsMarker, AppendsRow, Appends
    <2> DEFINE n == Len(wal) + 1
    <2>1. /\ \A i \in DOMAIN wal : wal'[i] = wal[i] /\ i \in DOMAIN wal' /\ i \in Nat /\ i < n
          /\ wal'[n] = r /\ n \notin DOMAIN wal /\ n \in Nat
          /\ \A i \in DOMAIN wal' : i \in DOMAIN wal \/ i = n
      BY <2>0, Appended DEF TypeOK
    <2> HIDE DEF n
    <2>2. SUFFICES ASSUME NEW i \in DOMAIN wal', NEW j \in DOMAIN wal', wal'[j].op \in {"create", "drop"}
                   PROVE  /\ wal'[i].op = "insert" /\ i < j => wal'[i].gen < wal'[j].gen
                          /\ /\ wal'[i].op \in {"create", "drop"} /\ wal'[i].session < wal'[j].session
                             /\ Committed(wal[i].session)'
                             => wal'[i].gen < wal'[j].gen
      BY DEF GenerationsInv, IsSchema
    <2>3. session \in Nat /\ generation \in Nat
      BY Written DEF TypeOK
    <2>4. i \in DOMAIN wal => /\ IsSchema(i) => wal[i].session \in Nat /\ wal[i].gen \in Nat
                              /\ wal[i].op = "insert" => wal[i].gen \in Nat
      BY RecordIs DEF TypeOK
    <2>5. CASE j \in DOMAIN wal
      <3>1. wal[j].session \in Nat /\ wal[j].session <= session /\ IsSchema(j) /\ wal'[j] = wal[j]
        BY <2>1, <2>2, <2>5, RecordIs DEF SessionsInv, TypeOK, IsSchema
      <3>2. wal'[i].op = "insert" /\ i < j => wal'[i].gen < wal'[j].gen
        <4>1. i < j => i \in DOMAIN wal
          BY <2>1, <2>5
        <4> QED BY <2>1, <2>5, <3>1, <4>1 DEF GenerationsInv
      <3>3. ASSUME wal'[i].op \in {"create", "drop"}, wal'[i].session < wal'[j].session, Committed(wal[i].session)'
            PROVE  wal'[i].gen < wal'[j].gen
        <4>1. i \in DOMAIN wal
          <5>1. CASE i = n
            <6>1. r.op \in {"create", "drop"} /\ r.session = session
              BY <1>1, <2>1, <3>3, <5>1 DEF AppendsSchema, AppendsMarker, AppendsRow
            <6> QED BY <2>1, <2>3, <3>1, <3>3, <5>1, <6>1
          <5> QED BY <2>1, <5>1
        <4>2. PICK s \in Nat : s = wal[i].session /\ s = wal'[i].session
          BY <2>1, <2>4, <3>3, <4>1 DEF IsSchema
        <4>3. s # session
          BY <2>3, <3>1, <3>3, <4>2
        <4>4. Committed(s)'
          BY <2>1, <3>3, <4>1, <4>2 DEF Committed, Marked
        <4>5. Committed(s)
          <5>1. r.op \in {"commit", "rollback"} => r.session # s
            BY <1>1, <4>3 DEF AppendsSchema, AppendsMarker, AppendsRow
          <5> QED BY <2>0, <4>4, <5>1, CommittedAppended
        <4> QED BY <2>1, <2>5, <3>1, <3>3, <4>1, <4>2, <4>5 DEF GenerationsInv, IsSchema
      <3> QED BY <3>2, <3>3
    <2>6. CASE j = n
      <3>1. /\ AppendsSchema(r) /\ wal'[j].gen = generation + 1 /\ wal'[j].session = session /\ pc = "up"
        BY <1>1, <2>1, <2>2, <2>6, ReadyTables DEF AppendsSchema, AppendsMarker, AppendsRow
      <3>2. ASSUME wal'[i].op = "insert" PROVE wal'[i].gen < wal'[j].gen
        <4>1. i \in DOMAIN wal /\ wal[i].op = "insert"
          BY <2>1, <2>2, <2>6, <3>2
        <4>2. wal[i].gen <= generation /\ wal[i].gen \in Nat
          <5>1. ~IsSchema(i)
            BY <4>1, RecordIs DEF TypeOK
          <5> QED BY <2>4, <3>1, <4>1, <5>1 DEF CurrentInv, Replayable
        <4> QED BY <2>1, <2>3, <3>1, <4>1, <4>2
      <3>3. ASSUME wal'[i].op \in {"create", "drop"}, wal'[i].session < wal'[j].session, Committed(wal[i].session)'
            PROVE  wal'[i].gen < wal'[j].gen
        <4>1. i \in DOMAIN wal /\ IsSchema(i)
          <5>1. i # n
            BY <2>1, <2>3, <2>6, <3>1, <3>3
          <5> QED BY <2>1, <3>3, <5>1 DEF IsSchema
        <4>2. PICK s \in Nat : s = wal[i].session /\ s = wal'[i].session
          BY <2>1, <2>4, <4>1
        <4>3. s < session
          BY <2>3, <3>1, <3>3, <4>2
        <4>4. Committed(s)'
          BY <2>1, <3>3, <4>1, <4>2 DEF Committed, Marked
        <4>5. Committed(s)
          <5>1. r.op \notin {"commit", "rollback"}
            BY <3>1 DEF AppendsSchema
          <5> QED BY <2>0, <4>4, <5>1, CommittedAppended
        <4>6. wal[i].gen <= generation /\ wal[i].gen \in Nat
          BY <2>4, <3>1, <4>1, <4>2, <4>3, <4>5 DEF CurrentInv, Replayable
        <4> QED BY <2>1, <2>3, <3>1, <4>1, <4>6
      <3> QED BY <3>2, <3>3
    <2> QED BY <2>1, <2>5, <2>6
  <1>2. CASE TruncateWal
    BY <1>2 DEF TruncateWal, GenerationsInv
  <1>3. CASE KeepsWal
    BY <1>3 DEF GenerationsInv, IsSchema, KeepsWal, Committed, Marked
  <1> QED BY <1>1, <1>2, <1>3, StepIs

\* Every step keeps the generation as high as what recover replays.
LEMMA CurrentNext ==
  TypeOK /\ SessionsInv /\ CurrentInv /\ TodoInv /\ [Next]_vars => CurrentInv'
  <1> SUFFICES ASSUME TypeOK, SessionsInv, CurrentInv, TodoInv, [Next]_vars PROVE CurrentInv'
    OBVIOUS
  <1>0. session \in Nat /\ generation \in Nat
    BY Written DEF TypeOK
  <1>1. ASSUME NEW r \in Records, AppendsSchema(r) \/ AppendsMarker(r) \/ AppendsRow(r) PROVE CurrentInv'
    <2>0. /\ wal' = Append(wal, r) /\ session' = session /\ pc \in Busy \cup {"up"} /\ pc' # "replay"
          /\ generation' \in Nat /\ generation <= generation'
      BY <1>0, <1>1, ReadyTables DEF AppendsSchema, AppendsMarker, AppendsRow, Appends, Busy
    <2> DEFINE n == Len(wal) + 1
    <2>1. /\ \A i \in DOMAIN wal : wal'[i] = wal[i] /\ i \in DOMAIN wal'
          /\ wal'[n] = r
          /\ \A i \in DOMAIN wal' : i \in DOMAIN wal \/ i = n
      BY <2>0, Appended DEF TypeOK
    <2> HIDE DEF n
    <2>2. SUFFICES ASSUME NEW i \in DOMAIN wal', Replayable(i)', IsSchema(i)' => wal'[i].session < session
                   PROVE  wal'[i].gen <= generation'
      BY <2>0 DEF CurrentInv
    <2>3. CASE i = n
      <3>1. AppendsRow(r)
        <4>1. r.op = "insert" \/ r.op \in {"create", "drop"}
          BY <2>1, <2>2, <2>3 DEF Replayable, IsSchema
        <4>2. r.op \in {"create", "drop"} => r.session < session
          BY <2>1, <2>2, <2>3 DEF IsSchema
        <4> QED BY <1>0, <1>1, <4>1, <4>2 DEF AppendsSchema, AppendsMarker
      <3> QED BY <1>0, <2>1, <2>3, <3>1 DEF AppendsRow
    <2>4. CASE i \in DOMAIN wal
      <3>1. wal'[i] = wal[i] /\ (IsSchema(i) => wal[i].session < session)
        BY <2>1, <2>2, <2>4 DEF IsSchema
      <3>2. Replayable(i)
        <4>1. CASE wal[i].op = "insert"
          BY <4>1 DEF Replayable
        <4>2. CASE wal[i].op # "insert"
          <5>1. IsSchema(i) /\ wal[i].session \in Nat
            BY <2>2, <2>4, <3>1, <4>2, RecordIs DEF Replayable, IsSchema, TypeOK
          <5>2. PICK s \in Nat : s = wal[i].session
            BY <5>1
          <5>3. Committed(s)'
            BY <2>2, <3>1, <4>2, <5>2 DEF Replayable, IsSchema, Committed, Marked
          <5>4. r.op \in {"commit", "rollback"} => r.session # s
            BY <1>0, <1>1, <3>1, <5>1, <5>2 DEF AppendsSchema, AppendsMarker, AppendsRow
          <5>5. Committed(s)
            BY <2>0, <5>3, <5>4, CommittedAppended
          <5> QED BY <5>1, <5>2, <5>5 DEF Replayable
        <4> QED BY <4>1, <4>2
      <3>3. wal[i].gen <= generation
        BY <2>0, <2>4, <3>1, <3>2 DEF CurrentInv
      <3>4. wal[i].gen \in Nat
        BY <2>4, <3>2, RecordIs DEF Replayable, TypeOK
      <3> QED BY <1>0, <2>0, <3>1, <3>3, <3>4
    <2> QED BY <2>1, <2>3, <2>4
  <1>2. CASE TruncateWal
    BY <1>2 DEF TruncateWal, CurrentInv
  <1>3. \A i \in DOMAIN wal : Replayable(i) => wal[i].gen \in Nat
    BY RecordIs DEF Replayable, TypeOK
  <1>4. KeepsWal => wal' = wal /\ \A i \in DOMAIN wal : Replayable(i)' <=> Replayable(i)
    BY DEF KeepsWal, Replayable, Committed, Marked, IsSchema
  <1>5. ASSUME KeepsWal, pc \in Busy \cup {"up"}, pc' # "replay", session' = session,
               generation' \in Nat, generation <= generation'
        PROVE  CurrentInv'
    <2>1. \A i \in DOMAIN wal : Replayable(i) /\ (IsSchema(i) => wal[i].session < session) => wal[i].gen <= generation'
      BY <1>0, <1>3, <1>5 DEF CurrentInv
    <2> QED BY <1>4, <1>5, <2>1 DEF CurrentInv, IsSchema
  <1>6. CASE PublishTable \/ DropTableFile
    <2>1. /\ KeepsWal /\ pc \in Busy /\ pc' # "replay" /\ session' = session
          /\ generation' = generation + 1
      BY <1>6, OtherIs DEF PublishTable, DropTableFile, Busy
    <2> QED BY <1>0, <1>5, <2>1
  <1>7. CASE \/ DropIndexFile \/ writeSnapshot \/ CompactClearIndex \/ CompactRebuildIndex
             \/ \E t \in Tables : Find(t) \/ CompactStorage(t)
    <2>1. /\ KeepsWal /\ pc \in Busy \cup {"up"} /\ pc' # "replay" /\ session' = session
          /\ generation' = generation
      BY <1>7, OtherIs DEF DropIndexFile, writeSnapshot, Ready, CompactClearIndex, CompactRebuildIndex, Find,
                CompactStorage, Busy
    <2> QED BY <1>0, <1>5, <2>1
  <1>8. CASE Crash
    BY <1>8 DEF Crash, CurrentInv, Busy
  <1>9. CASE Open
    <2>1. /\ KeepsWal /\ pc' = "replay" /\ todo' = {i \in DOMAIN wal : Replayable(i)}
      BY <1>9, OtherIs DEF Open, Replayable
    <2> QED BY <1>4, <2>1 DEF CurrentInv, Busy
  <1>10. CASE Recovered
    <2>1. KeepsWal /\ pc = "replay" /\ pc' = "up" /\ todo = {} /\ generation' = generation
      BY <1>10, OtherIs DEF Recovered
    <2>2. \A i \in DOMAIN wal : Replayable(i) => wal[i].gen <= generation
      BY <2>1 DEF CurrentInv
    <2> QED BY <1>4, <2>1, <2>2 DEF CurrentInv, Busy
  <1>11. ASSUME KeepsWal, pc = "replay", pc' = "replay", generation' \in Nat, generation <= generation',
                \A k \in todo : k \notin todo' => wal[k].gen <= generation'
         PROVE  CurrentInv'
    <2>1. \A k \in DOMAIN wal : Replayable(k) /\ k \notin todo' => wal[k].gen <= generation'
      <3>1. \A k \in DOMAIN wal : Replayable(k) /\ k \notin todo => wal[k].gen <= generation
        BY <1>11 DEF CurrentInv
      <3> QED BY <1>0, <1>3, <1>11, <3>1
    <2> QED BY <1>4, <1>11, <2>1 DEF CurrentInv, Busy
  <1>12. ASSUME NEW i \in DOMAIN wal, ReplaySchema(i) PROVE CurrentInv'
    <2>1. /\ KeepsWal /\ pc = "replay" /\ pc' = "replay" /\ generation <= generation'
          /\ todo' = todo \ Group(wal[i].session) /\ \A k \in Group(wal[i].session) : wal[k].gen <= generation'
          /\ generation' \in {wal[j].gen : j \in Group(wal[i].session)} \cup {generation}
      BY <1>12, OtherIs DEF ReplaySchema
    <2>2. generation' \in Nat
      <3>1. \A j \in Group(wal[i].session) : wal[j].gen \in Nat
        BY RecordIs DEF TypeOK, Group
      <3> QED BY <1>0, <2>1, <3>1
    <2> QED BY <1>11, <2>1, <2>2
  <1>13. ASSUME NEW i \in DOMAIN wal, ReplayInsert(i) PROVE CurrentInv'
    <2>1. /\ KeepsWal /\ pc = "replay" /\ pc' = "replay" /\ wal[i].op = "insert"
          /\ todo' = todo \ {i} /\ generation' = IF wal[i].gen > generation THEN wal[i].gen ELSE generation
      BY <1>13, OtherIs DEF ReplayInsert
    <2>2. wal[i].gen \in Nat
      BY <2>1, RecordIs DEF TypeOK
    <2>3. generation' \in Nat /\ generation <= generation' /\ wal[i].gen <= generation'
      BY <1>0, <2>1, <2>2
    <2> QED BY <1>11, <2>1, <2>3
  <1>14. CASE UNCHANGED vars
    BY <1>14 DEF vars, fileVars, processVars, ghostVars, CurrentInv, Replayable, IsSchema, Committed, Marked
  <1>15. ASSUME NEW o \in {"create", "drop"}, NEW t \in Tables, WriteRecord(o, t) \/ WriteRecordFails(o, t) PROVE CurrentInv'
    <2>1. pc \in Busy \cup {"up"}
      BY <1>15 DEF WriteRecord, WriteRecordFails, Change, Ready
    <2> QED BY <1>0, <1>1, <1>5, <1>15, <2>1, WriteRecordIs
  <1>16. CASE WriteRollback \/ WriteCommit \/ WriteCommitFails
    BY <1>0, <1>1, <1>5, <1>16, WriteMarkerIs
  <1>17. ASSUME NEW t \in Tables, Insert(t) PROVE CurrentInv'
    BY <1>1, <1>17, InsertIs
  <1> QED BY <1>2, <1>6, <1>7, <1>8, <1>9, <1>10, <1>12, <1>13, <1>14, <1>15, <1>16, <1>17 DEF Next

\* Every step keeps whole groups ahead of recover.
LEMMA TodoNext == TypeOK /\ TodoInv /\ [Next]_vars => TodoInv'
  <1> SUFFICES ASSUME TypeOK, TodoInv, [Next]_vars, pc' = "replay" PROVE TodoInv'
    BY DEF TodoInv
  <1>1. CASE Open
    <2>1. /\ KeepsWal /\ pc' = "replay" /\ todo' = {i \in DOMAIN wal : Replayable(i)}
      BY <1>1, OtherIs DEF Open, Replayable
    <2>2. wal' = wal
      BY <2>1 DEF KeepsWal
    <2>3. \A i \in DOMAIN wal : IsSchema(i) /\ Committed(wal[i].session) => i \in todo'
      BY <2>1 DEF Replayable
    <2>4. \A i \in DOMAIN wal : i \in todo' /\ IsSchema(i) => Group(wal[i].session) \subseteq todo'
      BY <2>1, RecordIs DEF Replayable, Group, TypeOK
    <2> QED BY <2>1, <2>2, <2>3, <2>4 DEF TodoInv, Replayable, IsSchema, Committed, Marked, Group
  <1>2. ASSUME NEW i \in DOMAIN wal, ReplaySchema(i) PROVE TodoInv'
    <2>1. /\ wal' = wal /\ pc = "replay" /\ todo' = todo \ Group(wal[i].session)
          /\ IsSchema(i) /\ i \in todo /\ \A j \in todo : wal[i].gen <= wal[j].gen
      BY <1>2 DEF ReplaySchema, Oldest, fileVars
    <2>2. i \in Group(wal[i].session)
      BY <2>1 DEF Group
    <2>3. ASSUME NEW k \in DOMAIN wal, k \in todo' PROVE Replayable(k) /\ (IsSchema(k) => Group(wal[k].session) \subseteq todo')
      <3>1. Replayable(k) /\ (IsSchema(k) => Group(wal[k].session) \subseteq todo)
        BY <2>1, <2>3 DEF TodoInv
      <3>2. IsSchema(k) => wal[k].session # wal[i].session
        BY <2>1, <2>3 DEF Group
      <3> QED BY <2>1, <3>1, <3>2 DEF Group
    <2>4. ASSUME NEW k \in DOMAIN wal, IsSchema(k), Committed(wal[k].session), k \notin todo'
          PROVE  \E e \in Group(wal[k].session) : \A j \in todo' : wal[e].gen <= wal[j].gen
      <3>1. CASE k \in todo
        <4>1. wal[k].session = wal[i].session
          BY <2>1, <2>4, <3>1 DEF Group
        <4> QED BY <2>1, <2>2, <4>1
      <3>2. CASE k \notin todo
        <4>1. \E e \in Group(wal[k].session) : \A j \in todo : wal[e].gen <= wal[j].gen
          BY <2>1, <2>4, <3>2 DEF TodoInv
        <4> QED BY <2>1, <4>1
      <3> QED BY <3>1, <3>2
    <2> QED BY <2>1, <2>3, <2>4 DEF TodoInv, Replayable, IsSchema, Committed, Marked, Group
  <1>3. ASSUME NEW i \in DOMAIN wal, ReplayInsert(i) PROVE TodoInv'
    <2>1. /\ wal' = wal /\ pc = "replay" /\ todo' = todo \ {i} /\ wal[i].op = "insert"
      BY <1>3 DEF ReplayInsert
    <2>2. \A k \in DOMAIN wal : k \in todo' => Replayable(k) /\ (IsSchema(k) => Group(wal[k].session) \subseteq todo')
      <3>1. \A k \in DOMAIN wal : k \in todo => Replayable(k) /\ (IsSchema(k) => Group(wal[k].session) \subseteq todo)
        BY <2>1 DEF TodoInv
      <3>2. \A s : i \notin Group(s)
        BY <2>1 DEF Group, IsSchema
      <3> QED BY <2>1, <3>1, <3>2
    <2>3. ASSUME NEW k \in DOMAIN wal, IsSchema(k), Committed(wal[k].session), k \notin todo'
          PROVE  \E e \in Group(wal[k].session) : \A j \in todo' : wal[e].gen <= wal[j].gen
      <3>1. k \notin todo
        BY <2>1, <2>3 DEF IsSchema
      <3>2. \E e \in Group(wal[k].session) : \A j \in todo : wal[e].gen <= wal[j].gen
        BY <2>1, <2>3, <3>1 DEF TodoInv
      <3> QED BY <2>1, <3>2
    <2> QED BY <2>1, <2>2, <2>3 DEF TodoInv, Replayable, IsSchema, Committed, Marked, Group
  <1>4. CASE UNCHANGED vars
    BY <1>4 DEF vars, fileVars, processVars, TodoInv, Replayable, IsSchema, Committed, Marked, Group
  <1> QED
    BY <1>1, <1>2, <1>3, <1>4 DEF Next, WriteRecord, WriteRecordFails, WriteRollback, WriteCommit, WriteCommitFails,
       ChangeFails, PublishTable, DropTableFile, DropIndexFile, Insert, Find, CompactStorage, writeSnapshot,
       CompactClearIndex, CompactRebuildIndex, TruncateWal, Crash, Recovered, Ready, Busy

-----------------------------------------------------------------------------
\* Excuses and last changes stay while the WAL does.
LEMMA ExcusesKept ==
  ASSUME wal' = wal, succeeded' = succeeded, NEW t
  PROVE  /\ LossExcused(t)' <=> LossExcused(t)
         /\ ReturnExcused(t)' <=> ReturnExcused(t)
         /\ \A c \in DOMAIN wal, o \in {"create", "drop"} : LastChange(c, o, t)' <=> LastChange(c, o, t)
  <1>1. \A i \in DOMAIN wal, o \in {"create", "drop"} : /\ Succeeded(i, o, t)' <=> Succeeded(i, o, t)
                                                        /\ Unanswered(i, o, t)' <=> Unanswered(i, o, t)
    BY DEF Succeeded, Unanswered, IsOn
  <1>2. \A i \in DOMAIN wal : /\ Committed(wal[i].session)' <=> Committed(wal[i].session)
                              /\ Group(wal[i].session)' = Group(wal[i].session)
    BY DEF Committed, Marked, Group, IsSchema
  <1>3. LossExcused(t)' <=> LossExcused(t)
    BY <1>1, <1>2 DEF LossExcused
  <1>4. ReturnExcused(t)' <=> ReturnExcused(t)
    BY <1>1, <1>2 DEF ReturnExcused, IsOn
  <1> QED BY <1>1, <1>3, <1>4 DEF LastChange

\* When the group of the last creation of a table is replayed, the table is there, or a
\* drop of it that was not answered comes behind.
LEMMA LastCreateReplayed ==
  ASSUME TypeOK, TodoInv, pc = "replay", NEW t \in Tables, NEW c \in todo, LastChange(c, "create", t),
         ~Creates(wal[c].session, t)
  PROVE  LossExcused(t)
  <1>1. c \in DOMAIN wal /\ IsSchema(c) /\ IsOn(c, "create", t) /\ Committed(wal[c].session)
    BY DEF TodoInv, TypeOK, LastChange, Succeeded, IsOn, IsSchema, Replayable
  <1>2. c \in Group(wal[c].session)
    BY <1>1 DEF Group
  <1>3. PICK d \in Group(wal[c].session) : d > c /\ IsOn(d, "drop", t)
    BY <1>1, <1>2 DEF Creates
  <1>4. d \in DOMAIN wal /\ wal[d].session = wal[c].session /\ d \in Nat /\ c \in Nat
    BY <1>1, <1>3, RecordIs DEF Group, TypeOK
  <1>5. Unanswered(d, "drop", t)
    BY <1>3, <1>4 DEF LastChange, Succeeded, Unanswered
  <1>6. \A k \in DOMAIN wal : k > d => ~Succeeded(k, "create", t)
    <2>1. \A k \in DOMAIN wal : k > d => k > c
      BY <1>3, <1>4, RecordIs DEF TypeOK
    <2> QED BY <2>1 DEF LastChange
  <1> QED BY <1>1, <1>4, <1>5, <1>6 DEF LossExcused

\* A group that is replayed after the group of a last change has no record before it.
LEMMA NoneBehind ==
  ASSUME TypeOK, SessionsInv, GenerationsInv, TodoInv, pc = "replay",
         NEW c \in DOMAIN wal, IsSchema(c), Committed(wal[c].session), c \notin todo,
         NEW j \in todo, IsSchema(j)
  PROVE  j > c
  <1>1. SUFFICES ASSUME ~(j > c) PROVE FALSE
    OBVIOUS
  <1>2. j \in DOMAIN wal /\ Replayable(j) /\ Group(wal[j].session) \subseteq todo /\ Committed(wal[j].session)
    BY RecordIs DEF TodoInv, TypeOK, Replayable
  <1>3. /\ wal[j].session \in Nat /\ wal[c].session \in Nat /\ c \in Nat /\ j \in Nat
        /\ wal[j].gen \in Nat
    BY <1>2, RecordIs DEF TypeOK
  <1>4. wal[j].session <= wal[c].session
    BY <1>1, <1>2, <1>3 DEF SessionsInv
  <1>5. wal[j].session # wal[c].session
    BY <1>2 DEF Group
  <1>6. PICK e \in Group(wal[c].session) : \A k \in todo : wal[e].gen <= wal[k].gen
    BY DEF TodoInv
  <1>7. e \in DOMAIN wal /\ IsSchema(e) /\ wal[e].session = wal[c].session /\ wal[e].gen \in Nat
    BY <1>6, RecordIs DEF Group, TypeOK
  <1>8. wal[j].session < wal[e].session
    BY <1>3, <1>4, <1>5, <1>7
  <1>9. wal[j].gen < wal[e].gen
    BY <1>2, <1>7, <1>8 DEF GenerationsInv
  <1> QED BY <1>3, <1>6, <1>7, <1>9

\* A drop replayed after the last creation was not answered.
LEMMA DropReplayed ==
  ASSUME TypeOK, SessionsInv, GenerationsInv, TodoInv, HistoryInv, pc = "replay",
         NEW t \in exists, NEW i \in todo, IsSchema(i), Drops(wal[i].session, t),
         \A c \in todo : ~LastChange(c, "create", t)
  PROVE  LossExcused(t)
  <1>1. PICK d \in Group(wal[i].session) : IsOn(d, "drop", t)
    BY DEF Drops
  <1>2. d \in todo /\ d \in DOMAIN wal /\ IsSchema(d) /\ Committed(wal[d].session) /\ wal[d].session = wal[i].session /\ d \in Nat
    <2>1. i \in DOMAIN wal /\ Group(wal[i].session) \subseteq todo /\ Replayable(i)
      BY DEF TodoInv, TypeOK
    <2>2. Committed(wal[i].session)
      BY <2>1, RecordIs DEF Replayable, TypeOK
    <2> QED BY <1>1, <2>1, <2>2, RecordIs DEF Group, TypeOK
  <1>3. Alive(t)
    BY DEF HistoryInv, TypeOK
  <1>4. CASE \E c \in DOMAIN wal : LastChange(c, "create", t)
    <2>1. PICK c \in DOMAIN wal : LastChange(c, "create", t)
      BY <1>4
    <2>2. IsSchema(c) /\ Succeeded(c, "create", t) /\ c \notin todo /\ c \in Nat
      BY <2>1, RecordIs DEF LastChange, Succeeded, IsOn, IsSchema, TypeOK
    <2>3. CASE ~Committed(wal[c].session)
      BY <2>2, <2>3 DEF LossExcused
    <2>4. CASE Committed(wal[c].session)
      <3>1. d > c
        BY <1>2, <2>2, <2>4, NoneBehind
      <3>2. Unanswered(d, "drop", t)
        BY <1>1, <1>2, <2>1, <3>1 DEF LastChange, Succeeded, Unanswered
      <3>3. \A k \in DOMAIN wal : k > d => ~Succeeded(k, "create", t)
        <4>1. \A k \in DOMAIN wal : k > d => k > c
          BY <1>2, <2>2, <3>1, RecordIs DEF TypeOK
        <4> QED BY <2>1, <4>1 DEF LastChange
      <3> QED BY <1>2, <3>2, <3>3 DEF LossExcused
    <2> QED BY <2>3, <2>4
  <1>5. CASE NoChange(t)
    <2>1. Unanswered(d, "drop", t)
      BY <1>1, <1>2, <1>5 DEF NoChange, Succeeded, Unanswered
    <2> QED BY <1>2, <1>5, <2>1 DEF LossExcused, NoChange
  <1> QED BY <1>3, <1>4, <1>5 DEF Alive

\* A creation that a group replays on top of all drops of the table was not answered, if
\* the last change of the table is a drop that is replayed or in this group.
LEMMA CreateReplayed ==
  ASSUME TypeOK, SessionsInv, GenerationsInv, TodoInv, HistoryInv, pc = "replay",
         NEW t \in Tables \ exists, NEW i \in todo, IsSchema(i), Creates(wal[i].session, t),
         \A d \in todo : LastChange(d, "drop", t) => d \in Group(wal[i].session)
  PROVE  ReturnExcused(t)
  <1>1. PICK c \in Group(wal[i].session) : IsOn(c, "create", t) /\ \A j \in Group(wal[i].session) : j > c => ~IsOn(j, "drop", t)
    BY DEF Creates
  <1>2. c \in todo /\ c \in DOMAIN wal /\ IsSchema(c) /\ Committed(wal[c].session) /\ wal[c].session = wal[i].session /\ c \in Nat
    <2>1. i \in DOMAIN wal /\ Group(wal[i].session) \subseteq todo /\ Replayable(i)
      BY DEF TodoInv, TypeOK
    <2>2. Committed(wal[i].session)
      BY <2>1, RecordIs DEF Replayable, TypeOK
    <2> QED BY <1>1, <2>1, <2>2, RecordIs DEF Group, TypeOK
  <1>3. Dead(t)
    BY DEF HistoryInv
  <1>4. CASE \E d \in DOMAIN wal : LastChange(d, "drop", t)
    <2>1. PICK d \in DOMAIN wal : LastChange(d, "drop", t)
      BY <1>4
    <2>2. IsSchema(d) /\ Succeeded(d, "drop", t) /\ IsOn(d, "drop", t) /\ d \in Nat
      BY <2>1, RecordIs DEF LastChange, Succeeded, IsOn, IsSchema, TypeOK
    <2>3. CASE ~Committed(wal[d].session)
      BY <2>2, <2>3 DEF ReturnExcused
    <2>4. CASE Committed(wal[d].session)
      <3>1. c > d
        <4>1. CASE d \in todo
          <5>1. d \in Group(wal[i].session)
            BY <2>1, <4>1
          <5>2. ~(d > c) /\ d # c
            BY <1>1, <2>2, <5>1 DEF IsOn
          <5> QED BY <1>2, <2>2, <5>2
        <4>2. CASE d \notin todo
          BY <1>2, <2>2, <2>4, <4>2, NoneBehind
        <4> QED BY <4>1, <4>2
      <3>2. Unanswered(c, "create", t)
        BY <1>1, <1>2, <2>1, <3>1 DEF LastChange, Succeeded, Unanswered
      <3>3. \A k \in DOMAIN wal : k > c => ~Succeeded(k, "drop", t)
        <4>1. \A k \in DOMAIN wal : k > c => k > d
          BY <1>2, <2>2, <3>1, RecordIs DEF TypeOK
        <4> QED BY <2>1, <4>1 DEF LastChange
      <3> QED BY <1>2, <3>2, <3>3 DEF ReturnExcused
    <2> QED BY <2>3, <2>4
  <1>5. CASE NoChange(t)
    <2>1. Unanswered(c, "create", t)
      BY <1>1, <1>2, <1>5 DEF NoChange, Succeeded, Unanswered
    <2> QED BY <1>2, <1>5, <2>1 DEF ReturnExcused, NoChange
  <1> QED BY <1>3, <1>4, <1>5 DEF Dead

\* A row of a dropped table that is replayed after its last drop was inserted after an
\* earlier change of the session that drops it.
LEMMA RowReplayed ==
  ASSUME TypeOK, GenerationsInv, TodoInv, HistoryInv, pc = "replay",
         NEW t \in Tables \ exists, NEW i \in todo, IsOn(i, "insert", t),
         \A d \in todo : ~LastChange(d, "drop", t)
  PROVE  ReturnExcused(t)
  <1>0. i \in DOMAIN wal /\ i \in Nat /\ wal[i].gen \in Nat /\ wal[i].op = "insert" /\ i >= 1
    BY RecordIs DEF TypeOK, IsOn
  <1>1. PICK d \in DOMAIN wal : LastChange(d, "drop", t) /\ i < d
    BY <1>0 DEF HistoryInv, Dead
  <1>2. IsSchema(d) /\ Succeeded(d, "drop", t) /\ d \in Nat
    BY <1>1, RecordIs DEF LastChange, Succeeded, IsOn, IsSchema, TypeOK
  <1>3. CASE ~Committed(wal[d].session)
    BY <1>2, <1>3 DEF ReturnExcused
  <1>4. CASE Committed(wal[d].session)
    <2>1. PICK e \in Group(wal[d].session) : \A k \in todo : wal[e].gen <= wal[k].gen
      BY <1>1, <1>2, <1>4 DEF TodoInv
    <2>2. e \in DOMAIN wal /\ IsSchema(e) /\ wal[e].gen \in Nat /\ e \in Nat /\ e >= 1
      BY <2>1, RecordIs DEF Group, TypeOK
    <2>3. ~(i < e)
      BY <1>0, <2>1, <2>2 DEF GenerationsInv
    <2>4. e # i
      BY <1>0, <2>2 DEF IsSchema
    <2>5. e \in 1..(i - 1) /\ i \in 1..(d - 1)
      BY <1>0, <1>1, <1>2, <2>2, <2>3, <2>4
    <2> QED BY <1>2, <2>1, <2>5 DEF ReturnExcused
  <1> QED BY <1>3, <1>4

\* Every step keeps a table right, excused, or its last change ahead of recover.
LEMMA ReplayNext ==
  /\ TypeOK /\ SessionsInv /\ HistoryInv /\ GenerationsInv /\ TodoInv /\ ReplayInv
  /\ [Next]_vars
  => ReplayInv'
  <1> SUFFICES ASSUME TypeOK, SessionsInv, HistoryInv, GenerationsInv, TodoInv, ReplayInv, [Next]_vars, pc' = "replay"
               PROVE  ReplayInv'
    BY DEF ReplayInv
  <1>0. exists \subseteq Tables /\ todo \subseteq DOMAIN wal
    BY DEF TypeOK
  <1>1. CASE Open
    <2>1. /\ wal' = wal /\ succeeded' = succeeded /\ exists' = exists /\ todo' = {i \in DOMAIN wal : Replayable(i)}
          /\ tables' = [t \in Tables |-> IF t \in DOMAIN snapshot THEN "declared" ELSE "none"]
      BY <1>1 DEF Open, Replayable, ghostVars
    <2>2. ASSUME NEW t \in exists
          PROVE  \/ tables'[t] = "declared" \/ LossExcused(t)' \/ \E c \in todo' : LastChange(c, "create", t)'
      <3>1. Alive(t)
        BY <1>0, <2>2 DEF HistoryInv
      <3>2. CASE t \in DOMAIN snapshot
        BY <1>0, <2>1, <3>2
      <3>3. ASSUME NEW c \in DOMAIN wal, LastChange(c, "create", t) PROVE LossExcused(t)' \/ c \in todo'
        <4>1. IsSchema(c) /\ Succeeded(c, "create", t)
          BY <3>3 DEF LastChange, Succeeded, IsOn, IsSchema
        <4>2. LossExcused(t) \/ c \in todo'
          BY <2>1, <4>1 DEF LossExcused, Replayable
        <4> QED BY <2>1, <4>2, ExcusesKept
      <3>4. \A c \in DOMAIN wal : LastChange(c, "create", t)' <=> LastChange(c, "create", t)
        BY <2>1, ExcusesKept
      <3> QED BY <3>1, <3>2, <3>3, <3>4 DEF Alive
    <2>3. ASSUME NEW t \in Tables \ exists
          PROVE  \/ tables'[t] = "none" \/ ReturnExcused(t)' \/ \E d \in todo' : LastChange(d, "drop", t)'
      <3>1. Dead(t)
        BY <2>3 DEF HistoryInv
      <3>2. CASE t \notin DOMAIN snapshot
        BY <2>1, <3>2
      <3>3. ASSUME NEW d \in DOMAIN wal, LastChange(d, "drop", t) PROVE ReturnExcused(t)' \/ d \in todo'
        <4>1. IsSchema(d) /\ Succeeded(d, "drop", t)
          BY <3>3 DEF LastChange, Succeeded, IsOn, IsSchema
        <4>2. ReturnExcused(t) \/ d \in todo'
          BY <2>1, <4>1 DEF ReturnExcused, Replayable
        <4> QED BY <2>1, <4>2, ExcusesKept
      <3>4. \A d \in DOMAIN wal : LastChange(d, "drop", t)' <=> LastChange(d, "drop", t)
        BY <2>1, ExcusesKept
      <3> QED BY <3>1, <3>2, <3>3, <3>4 DEF Dead
    <2> QED BY <2>1, <2>2, <2>3 DEF ReplayInv
  <1>2. ASSUME NEW i \in DOMAIN wal, ReplaySchema(i) PROVE ReplayInv'
    <2>1. /\ wal' = wal /\ succeeded' = succeeded /\ exists' = exists /\ todo' = todo \ Group(wal[i].session)
          /\ tables' = [t \in Tables |-> IF Creates(wal[i].session, t) THEN "declared"
                                         ELSE IF Drops(wal[i].session, t) THEN "none" ELSE tables[t]]
          /\ i \in todo /\ IsSchema(i) /\ pc = "replay"
      BY <1>2 DEF ReplaySchema, Oldest, fileVars, ghostVars
    <2>2. ASSUME NEW t \in exists
          PROVE  \/ tables'[t] = "declared" \/ LossExcused(t)' \/ \E c \in todo' : LastChange(c, "create", t)'
      <3>0. tables[t] = "declared" \/ LossExcused(t) \/ \E c \in todo : LastChange(c, "create", t)
        BY <2>1 DEF ReplayInv
      <3>1. LossExcused(t)' <=> LossExcused(t)
        BY <2>1, ExcusesKept
      <3>2. CASE \E c \in todo : LastChange(c, "create", t)
        <4>1. PICK c \in todo : LastChange(c, "create", t)
          BY <3>2
        <4>2. CASE c \in todo'
          BY <1>0, <2>1, <4>1, <4>2, ExcusesKept
        <4>3. CASE c \in Group(wal[i].session)
          <5>1. wal[c].session = wal[i].session
            BY <4>3 DEF Group
          <5>2. Creates(wal[i].session, t) \/ LossExcused(t)
            BY <1>0, <2>1, <4>1, <5>1, LastCreateReplayed
          <5> QED BY <1>0, <2>1, <3>1, <5>2
        <4> QED BY <2>1, <4>1, <4>2, <4>3
      <3>3. CASE ~\E c \in todo : LastChange(c, "create", t)
        <4>1. Drops(wal[i].session, t) => LossExcused(t)
          BY <2>1, <3>3, DropReplayed
        <4> QED BY <1>0, <2>1, <3>0, <3>1, <3>3, <4>1
      <3> QED BY <3>2, <3>3
    <2>3. ASSUME NEW t \in Tables \ exists
          PROVE  \/ tables'[t] = "none" \/ ReturnExcused(t)' \/ \E d \in todo' : LastChange(d, "drop", t)'
      <3>0. tables[t] = "none" \/ ReturnExcused(t) \/ \E d \in todo : LastChange(d, "drop", t)
        BY <2>1 DEF ReplayInv
      <3>1. ReturnExcused(t)' <=> ReturnExcused(t)
        BY <2>1, ExcusesKept
      <3>2. CASE \E d \in todo : LastChange(d, "drop", t) /\ d \notin Group(wal[i].session)
        <4>1. PICK d \in todo : LastChange(d, "drop", t) /\ d \notin Group(wal[i].session)
          BY <3>2
        <4> QED BY <1>0, <2>1, <4>1, ExcusesKept
      <3>3. CASE \A d \in todo : LastChange(d, "drop", t) => d \in Group(wal[i].session)
        <4>1. Creates(wal[i].session, t) => ReturnExcused(t)
          BY <2>1, <3>3, CreateReplayed
        <4>2. (\E d \in todo : LastChange(d, "drop", t)) => Drops(wal[i].session, t)
          BY <3>3 DEF Drops, LastChange, Succeeded
        <4> QED BY <2>1, <3>0, <3>1, <4>1, <4>2
      <3> QED BY <3>2, <3>3
    <2> QED BY <2>1, <2>2, <2>3 DEF ReplayInv
  <1>3. ASSUME NEW i \in DOMAIN wal, ReplayInsert(i) PROVE ReplayInv'
    <2>1. /\ wal' = wal /\ succeeded' = succeeded /\ exists' = exists /\ todo' = todo \ {i}
          /\ tables' = [tables EXCEPT ![wal[i].table] = IF @ = "none" THEN "fallback" ELSE @]
          /\ i \in todo /\ wal[i].op = "insert" /\ pc = "replay"
      BY <1>3 DEF ReplayInsert, Oldest, ghostVars
    <2>2. \A o \in {"create", "drop"}, t \in Tables : ~LastChange(i, o, t)
      BY <2>1 DEF LastChange, Succeeded, IsOn
    <2>3. tables \in [Tables -> {"none", "declared", "fallback"}] /\ wal[i].table \in Tables
      BY <2>1, RecordIs DEF TypeOK
    <2>4. ASSUME NEW t \in exists
          PROVE  \/ tables'[t] = "declared" \/ LossExcused(t)' \/ \E c \in todo' : LastChange(c, "create", t)'
      <3>0. tables[t] = "declared" \/ LossExcused(t) \/ \E c \in todo : LastChange(c, "create", t)
        BY <2>1 DEF ReplayInv
      <3>1. CASE tables[t] = "declared"
        BY <1>0, <2>1, <2>3, <3>1
      <3>2. CASE LossExcused(t)
        BY <2>1, <3>2, ExcusesKept
      <3>3. CASE \E c \in todo : LastChange(c, "create", t)
        BY <1>0, <2>1, <2>2, <3>3, ExcusesKept
      <3> QED BY <3>0, <3>1, <3>2, <3>3
    <2>5. ASSUME NEW t \in Tables \ exists
          PROVE  \/ tables'[t] = "none" \/ ReturnExcused(t)' \/ \E d \in todo' : LastChange(d, "drop", t)'
      <3>0. tables[t] = "none" \/ ReturnExcused(t) \/ \E d \in todo : LastChange(d, "drop", t)
        BY <2>1 DEF ReplayInv
      <3>2. CASE ReturnExcused(t)
        BY <2>1, <3>2, ExcusesKept
      <3>3. CASE \E d \in todo : LastChange(d, "drop", t)
        BY <1>0, <2>1, <2>2, <3>3, ExcusesKept
      <3>4. CASE tables[t] = "none" /\ ~\E d \in todo : LastChange(d, "drop", t)
        <4>1. CASE t = wal[i].table
          <5>1. ReturnExcused(t)
            BY <2>1, <3>4, <4>1, RowReplayed DEF IsOn
          <5> QED BY <2>1, <5>1, ExcusesKept
        <4>2. CASE t # wal[i].table
          BY <2>1, <2>3, <3>4, <4>2
        <4> QED BY <4>1, <4>2
      <3> QED BY <3>0, <3>2, <3>3, <3>4
    <2> QED BY <2>1, <2>4, <2>5 DEF ReplayInv
  <1>4. CASE UNCHANGED vars
    <2>1. wal' = wal /\ succeeded' = succeeded /\ exists' = exists /\ todo' = todo /\ tables' = tables /\ pc = "replay"
      BY <1>4 DEF vars, fileVars, processVars, ghostVars
    <2> QED BY <1>0, <2>1, ExcusesKept DEF ReplayInv
  <1> QED
    BY <1>1, <1>2, <1>3, <1>4 DEF Next, WriteRecord, WriteRecordFails, WriteRollback, WriteCommit, WriteCommitFails,
       ChangeFails, PublishTable, DropTableFile, DropIndexFile, Insert, Find, CompactStorage, writeSnapshot,
       CompactClearIndex, CompactRebuildIndex, TruncateWal, Crash, Recovered, Ready, Busy

\* Every step keeps an open database in the cases of TableLostOnly and TableBackOnly.
LEMMA OnlyNext ==
  /\ TypeOK /\ LoggedInv /\ TablesInv /\ ReplayInv /\ TableLostOnly /\ TableBackOnly
  /\ [Next]_vars
  => TableLostOnly' /\ TableBackOnly'
  <1> SUFFICES ASSUME TypeOK, LoggedInv, TablesInv, ReplayInv, TableLostOnly, TableBackOnly, [Next]_vars, pc' = "up"
               PROVE  TableLostOnly' /\ TableBackOnly'
    BY DEF TableLostOnly, TableBackOnly
  <1>0. exists \subseteq Tables
    BY DEF TypeOK
  <1>1. ASSUME exists' = exists, \A t \in Tables : tables'[t] = IF t \in exists THEN "declared" ELSE "none"
        PROVE  TableLostOnly' /\ TableBackOnly'
    BY <1>0, <1>1 DEF TableLostOnly, TableBackOnly
  <1>2. CASE WriteRollback \/ WriteCommitFails
    BY <1>1, <1>2 DEF WriteRollback, WriteCommitFails, ChangeFails, ghostVars, TablesInv, Busy
  <1>3. CASE PublishTable
    <2>1. /\ exists' = exists /\ tables' = [tables EXCEPT ![table] = "declared"] /\ table \in exists /\ table \in Tables
          /\ pc = "marked"
      BY <1>3 DEF PublishTable, LoggedInv, ghostVars, TypeOK, Busy
    <2>2. \A t \in Tables : t # table => tables[t] = IF t \in exists THEN "declared" ELSE "none"
      BY <2>1 DEF TablesInv, Busy
    <2> QED BY <1>1, <2>1, <2>2 DEF TypeOK
  <1>4. CASE DropIndexFile
    BY <1>1, <1>4 DEF DropIndexFile, TablesInv, Busy
  <1>5. ASSUME NEW t \in Tables, Insert(t) PROVE TableLostOnly' /\ TableBackOnly'
    BY <1>1, <1>5, ReadyTables DEF Insert
  <1>6. ASSUME NEW t \in Tables, Find(t) PROVE TableLostOnly' /\ TableBackOnly'
    BY <1>1, <1>6, ReadyTables DEF Find, ghostVars, Busy
  <1>7. CASE TruncateWal
    BY <1>1, <1>7 DEF TruncateWal, TablesInv, Busy
  <1>8. CASE Recovered
    <2>1. wal' = wal /\ succeeded' = succeeded /\ exists' = exists /\ tables' = tables /\ todo = {} /\ pc = "replay"
      BY <1>8 DEF Recovered, fileVars, ghostVars
    <2> QED BY <2>1, ExcusesKept DEF ReplayInv, TableLostOnly, TableBackOnly
  <1>9. CASE UNCHANGED vars
    <2>1. wal' = wal /\ succeeded' = succeeded /\ exists' = exists /\ tables' = tables /\ pc = "up"
      BY <1>9 DEF vars, fileVars, processVars, ghostVars
    <2> QED BY <2>1, ExcusesKept DEF TableLostOnly, TableBackOnly
  <1> QED
    BY <1>2, <1>3, <1>4, <1>5, <1>6, <1>7, <1>8, <1>9 DEF Next, WriteRecord, WriteRecordFails, WriteCommit, Change,
       DropTableFile, CompactStorage, writeSnapshot, CompactClearIndex, CompactRebuildIndex, Crash, Open,
       ReplaySchema, ReplayInsert

-----------------------------------------------------------------------------
\* The rows of a table in the WAL after one more record.
LEMMA LoggedAppended ==
  ASSUME TypeOK, NEW r \in Records, wal' = Append(wal, r), NEW t \in Tables, NEW q \in Rows
  PROVE  IsLogged(t, q)' <=> IsLogged(t, q) \/ (r.op = "insert" /\ r.table = t /\ r.row = q)
  <1> DEFINE n == Len(wal) + 1
  <1>1. /\ \A i \in DOMAIN wal : wal'[i] = wal[i] /\ i \in DOMAIN wal'
        /\ wal'[n] = r /\ n \in DOMAIN wal' /\ \A i \in DOMAIN wal' : i \in DOMAIN wal \/ i = n
    BY Appended DEF TypeOK
  <1> HIDE DEF n
  <1> QED BY <1>1 DEF IsLogged, IsOn

\* A step that leaves snapshot, WAL rows, index and insertions of a table.
SameRows(t) ==
    /\ idx'[t] = idx[t] /\ inserted'[t] = inserted[t] /\ snapshot' = snapshot
    /\ t \in exists' <=> t \in exists
    /\ \A r \in Rows : IsLogged(t, r)' <=> IsLogged(t, r)

\* A clean table stays clean in such a step.
LEMMA CleanKept ==
  ASSUME NEW t \in Tables, SameRows(t), Clean(t)
  PROVE  Clean(t)'
  <1>1. Saved(t)' = Saved(t)
    BY DEF SameRows, Saved
  <1> QED BY <1>1 DEF SameRows, Clean

\* The steps that leave rows and index of a table.
LEMMA SameRowsSteps ==
  ASSUME TypeOK, NEW t \in Tables
  PROVE  /\ (\E o \in {"create", "drop"}, u \in Tables : WriteRecord(o, u) \/ WriteRecordFails(o, u)) => SameRows(t)
         /\ WriteRollback \/ WriteCommitFails => SameRows(t)
         /\ WriteCommit /\ t # table => SameRows(t)
         /\ PublishTable \/ DropTableFile \/ Crash \/ Recovered => SameRows(t)
         /\ DropIndexFile /\ t # table => SameRows(t)
         /\ (\E u \in Tables : Find(u) \/ CompactStorage(u)) => SameRows(t)
         /\ (\E u \in Tables : u # t /\ Insert(u)) => SameRows(t)
         /\ (CompactClearIndex \/ CompactRebuildIndex) /\ t # table => SameRows(t)
         /\ (\E i \in DOMAIN wal : ReplaySchema(i)) => SameRows(t)
         /\ (\E i \in DOMAIN wal : wal[i].table # t /\ ReplayInsert(i)) => SameRows(t)
         /\ UNCHANGED vars => SameRows(t)
  <1>1. wal' = wal => \A q \in Rows : IsLogged(t, q)' <=> IsLogged(t, q)
    BY DEF IsLogged, IsOn
  <1>2. ASSUME NEW r \in Records, wal' = Append(wal, r), ~(r.op = "insert" /\ r.table = t)
        PROVE  \A q \in Rows : IsLogged(t, q)' <=> IsLogged(t, q)
    BY <1>2, LoggedAppended
  <1>3. ASSUME NEW o \in {"create", "drop"}, NEW u \in Tables, WriteRecord(o, u) \/ WriteRecordFails(o, u)
        PROVE  SameRows(t)
    <2>1. Record(o, u) \in Records /\ Record(o, u).op = o
      BY Written DEF Record
    <2>2. \A q \in Rows : IsLogged(t, q)' <=> IsLogged(t, q)
      BY <1>1, <1>2, <1>3, <2>1 DEF WriteRecord, WriteRecordFails, AppendWal
    <2> QED BY <1>3, <2>2 DEF WriteRecord, WriteRecordFails, Change, SameRows
  <1>4. Marker("commit") \in Records /\ Marker("rollback") \in Records /\ Marker("commit").op = "commit" /\ Marker("rollback").op = "rollback"
    BY Written DEF Marker
  <1>5. ASSUME WriteRollback \/ WriteCommitFails PROVE SameRows(t)
    <2>2. \A q \in Rows : IsLogged(t, q)' <=> IsLogged(t, q)
      BY <1>1, <1>2, <1>4, <1>5 DEF WriteRollback, WriteCommitFails, AppendWal
    <2> QED BY <1>5, <2>2 DEF WriteRollback, WriteCommitFails, ChangeFails, SameRows, ghostVars
  <1>6. ASSUME WriteCommit, t # table PROVE SameRows(t)
    <2>2. \A q \in Rows : IsLogged(t, q)' <=> IsLogged(t, q)
      BY <1>1, <1>2, <1>4, <1>6 DEF WriteCommit, AppendWal
    <2>3. inserted'[t] = inserted[t] /\ (t \in exists' <=> t \in exists)
      BY <1>6 DEF WriteCommit, TypeOK
    <2> QED BY <1>6, <2>2, <2>3 DEF WriteCommit, SameRows
  <1>7. ASSUME PublishTable \/ DropTableFile \/ Crash \/ Recovered PROVE SameRows(t)
    BY <1>1, <1>7 DEF PublishTable, DropTableFile, Crash, Recovered, SameRows, fileVars, ghostVars
  <1>8. ASSUME DropIndexFile, t # table PROVE SameRows(t)
    <2>1. idx'[t] = idx[t]
      BY <1>8 DEF DropIndexFile, TypeOK
    <2> QED BY <1>1, <1>8, <2>1 DEF DropIndexFile, SameRows
  <1>9. ASSUME NEW u \in Tables, Find(u) \/ CompactStorage(u) PROVE SameRows(t)
    BY <1>1, <1>9 DEF Find, CompactStorage, SameRows, fileVars, ghostVars
  <1>10. ASSUME NEW u \in Tables, u # t, Insert(u) PROVE SameRows(t)
    <2>1. \A q \in Rows : IsLogged(t, q)' <=> IsLogged(t, q)
      BY <1>2, <1>10, InsertIs DEF AppendsRow, Appends
    <2> QED BY <1>10, <2>1 DEF Insert, SameRows, TypeOK
  <1>11. ASSUME CompactClearIndex \/ CompactRebuildIndex, t # table PROVE SameRows(t)
    <2>1. idx'[t] = idx[t]
      BY <1>11 DEF CompactClearIndex, CompactRebuildIndex, TypeOK
    <2> QED BY <1>1, <1>11, <2>1 DEF CompactClearIndex, CompactRebuildIndex, SameRows, ghostVars
  <1>12. ASSUME NEW i \in DOMAIN wal, ReplaySchema(i) PROVE SameRows(t)
    BY <1>1, <1>12 DEF ReplaySchema, SameRows, fileVars, ghostVars
  <1>13. ASSUME NEW i \in DOMAIN wal, wal[i].table # t, ReplayInsert(i) PROVE SameRows(t)
    <2>1. idx'[t] = idx[t]
      BY <1>13 DEF ReplayInsert, TypeOK
    <2> QED BY <1>1, <1>13, <2>1 DEF ReplayInsert, SameRows, ghostVars
  <1>14. ASSUME UNCHANGED vars PROVE SameRows(t)
    BY <1>1, <1>14 DEF vars, fileVars, ghostVars, SameRows
  <1> QED
    BY <1>3, <1>5, <1>6, <1>7, <1>8, <1>9, <1>10, <1>11, <1>12, <1>13, <1>14

\* Every step keeps the clean tables clean.
LEMMA CleanNext ==
  TypeOK /\ LoggedInv /\ CleanInv /\ OpenInv /\ [Next]_vars => CleanInv'
  <1> SUFFICES ASSUME TypeOK, LoggedInv, CleanInv, OpenInv, [Next]_vars, NEW t \in Tables, t \notin leftover', ~Dropping(t)'
               PROVE  Clean(t)'
    BY DEF CleanInv
  <1>0. t \in leftover \/ Dropping(t) \/ Clean(t)
    BY DEF CleanInv
  <1>1. ASSUME SameRows(t), t \notin leftover, ~Dropping(t) PROVE Clean(t)'
    BY <1>0, <1>1, CleanKept
  <1>2. ASSUME NEW o \in {"create", "drop"}, NEW u \in Tables, WriteRecord(o, u) \/ WriteRecordFails(o, u) PROVE Clean(t)'
    <2>1. t \notin leftover /\ ~Dropping(t)
      BY <1>2 DEF WriteRecord, WriteRecordFails, Change, Ready, Dropping
    <2> QED BY <1>1, <1>2, <2>1, SameRowsSteps
  <1>3. CASE WriteRollback \/ WriteCommitFails
    <2>1. t \notin leftover /\ ~Dropping(t)
      BY <1>3 DEF WriteRollback, WriteCommitFails, ChangeFails, Dropping, ghostVars
    <2> QED BY <1>1, <1>3, <2>1, SameRowsSteps
  <1>4. CASE WriteCommit
    <2>1. t \notin leftover /\ ~Dropping(t) /\ Clean(t)
      BY <1>0, <1>4 DEF WriteCommit, Dropping
    <2>2. CASE t # table
      BY <1>1, <1>4, <2>1, <2>2, SameRowsSteps
    <2>3. CASE t = table
      <3>1. op = "create" /\ t \notin exists /\ t \in exists' /\ inserted'[t] = {} /\ idx' = idx /\ snapshot' = snapshot
        BY <1>4, <2>3 DEF WriteCommit, Dropping, LoggedInv, TypeOK
      <3>2. idx[t] = {} /\ t \notin DOMAIN snapshot /\ \A q \in Rows : ~IsLogged(t, q)
        BY <2>1, <3>1 DEF Clean
      <3>3. \A q \in Rows : ~IsLogged(t, q)'
        <4>1. Marker("commit") \in Records /\ Marker("commit").op = "commit"
          BY Written DEF Marker
        <4> QED BY <1>4, <3>2, <4>1, LoggedAppended DEF WriteCommit, AppendWal
      <3>4. Saved(t)' = {}
        BY <3>1, <3>2 DEF Saved
      <3> QED BY <3>1, <3>2, <3>3, <3>4 DEF Clean
    <2> QED BY <2>2, <2>3
  <1>5. CASE PublishTable \/ Recovered
    <2>1. t \notin leftover /\ ~Dropping(t)
      BY <1>5 DEF PublishTable, Recovered, Dropping, ghostVars
    <2> QED BY <1>1, <1>5, <2>1, SameRowsSteps
  <1>6. CASE DropTableFile
    <2>1. t \notin leftover /\ t # table
      BY <1>6 DEF DropTableFile, Dropping, ghostVars
    <2> QED BY <1>1, <1>6, <2>1, SameRowsSteps DEF Dropping
  <1>7. CASE DropIndexFile
    <2>0. t \notin leftover
      BY <1>7 DEF DropIndexFile
    <2>1. CASE t # table
      BY <1>1, <1>7, <2>0, <2>1, SameRowsSteps DEF Dropping
    <2>2. CASE t = table
      <3>1. t \notin cached /\ idx'[t] = {} /\ t \notin exists /\ exists' = exists /\ snapshot' = snapshot /\ wal' = wal /\ pc \in Busy
        BY <1>7, <2>2 DEF DropIndexFile, LoggedInv, TypeOK, Busy
      <3>2. t \notin DOMAIN snapshot /\ \A r \in Rows : ~IsLogged(t, r)
        BY <2>0, <3>1 DEF OpenInv, OpenRows
      <3> QED BY <3>1, <3>2 DEF Clean, IsLogged, IsOn
    <2> QED BY <2>1, <2>2
  <1>8. ASSUME NEW u \in Tables, Insert(u) PROVE Clean(t)'
    <2>1. t \notin leftover /\ ~Dropping(t) /\ Clean(t)
      BY <1>0, <1>8 DEF Insert, Ready, Dropping
    <2>2. CASE t # u
      BY <1>1, <1>8, <2>1, <2>2, SameRowsSteps
    <2>3. CASE t = u
      <3>1. PICK r \in Records : AppendsRow(r) /\ r.table = t /\ r.row = rows + 1
        BY <1>8, <2>3, InsertIs
      <3>2. \A q \in Rows : IsLogged(t, q)' <=> IsLogged(t, q) \/ q = rows + 1
        BY <3>1, LoggedAppended DEF AppendsRow, Appends
      <3>3. /\ t \in exists /\ exists' = exists /\ snapshot' = snapshot
            /\ idx'[t] = idx[t] \cup {rows + 1} /\ inserted'[t] = inserted[t] \cup {rows + 1}
        BY <1>8, <2>3, <3>1 DEF Insert, AppendsRow, TypeOK
      <3>4. Saved(t)' = Saved(t)
        BY <3>3 DEF Saved
      <3> QED BY <2>1, <3>2, <3>3, <3>4 DEF Clean
    <2> QED BY <2>2, <2>3
  <1>9. ASSUME NEW u \in Tables, Find(u) \/ CompactStorage(u) PROVE Clean(t)'
    <2>1. t \notin leftover /\ ~Dropping(t)
      BY <1>9 DEF Find, CompactStorage, Dropping, ghostVars
    <2> QED BY <1>1, <1>9, <2>1, SameRowsSteps
  <1>10. CASE writeSnapshot
    <2>1. t \notin leftover /\ ~Dropping(t) /\ Clean(t)
      BY <1>0, <1>10 DEF writeSnapshot, Ready, Dropping, ghostVars
    <2>2. /\ wal' = wal /\ idx' = idx /\ inserted' = inserted /\ exists' = exists
          /\ DOMAIN snapshot' = exists /\ (t \in exists => snapshot'[t] = inserted[t])
      BY <1>10, ReadyKnown, ReadyTables DEF writeSnapshot, ghostVars
    <2>3. \A r \in Rows : IsLogged(t, r)' <=> IsLogged(t, r)
      BY <2>2 DEF IsLogged, IsOn
    <2>4. t \in exists => Saved(t)' = inserted[t]
      BY <2>2 DEF Saved
    <2> QED BY <2>1, <2>2, <2>3, <2>4 DEF Clean
  <1>11. CASE CompactClearIndex \/ CompactRebuildIndex
    <2>1. t \notin leftover /\ ~Dropping(t) /\ Clean(t)
      BY <1>0, <1>11 DEF CompactClearIndex, CompactRebuildIndex, Dropping, ghostVars
    <2>2. CASE t # table
      BY <1>1, <1>11, <2>1, <2>2, SameRowsSteps
    <2>3. CASE t = table
      <3>1. /\ wal' = wal /\ inserted' = inserted /\ exists' = exists /\ snapshot' = snapshot /\ t \in exists
            /\ idx'[t] = {} \/ (idx'[t] = db[t] /\ pc = "rebuild")
        BY <1>11, <2>3 DEF CompactClearIndex, CompactRebuildIndex, LoggedInv, TypeOK, ghostVars
      <3>2. pc = "rebuild" => db[t] = inserted[t]
        BY <2>1, <2>3 DEF OpenInv, OpenRows, Busy
      <3>3. \A r \in Rows : IsLogged(t, r)' <=> IsLogged(t, r)
        BY <3>1 DEF IsLogged, IsOn
      <3>4. Saved(t)' = Saved(t)
        BY <3>1 DEF Saved
      <3> QED BY <2>1, <3>1, <3>2, <3>3, <3>4 DEF Clean
    <2> QED BY <2>2, <2>3
  <1>12. CASE TruncateWal
    <2>1. t \notin leftover /\ ~Dropping(t) /\ Clean(t)
      BY <1>0, <1>12 DEF TruncateWal, Dropping
    <2>2. /\ wal' = <<>> /\ DOMAIN wal' = {} /\ UNCHANGED <<idx, inserted, exists, snapshot>> /\ DOMAIN snapshot = exists
          /\ t \in exists => snapshot[t] = inserted[t]
      BY <1>12, <2>1 DEF TruncateWal, LoggedInv, OpenInv, OpenRows, Busy
    <2>3. \A r \in Rows : ~IsLogged(t, r)'
      BY <2>2 DEF IsLogged
    <2>4. t \in exists => Saved(t)' = inserted[t]
      BY <2>2 DEF Saved
    <2> QED BY <2>1, <2>2, <2>3, <2>4 DEF Clean
  <1>13. CASE Crash
    <2>1. t \notin leftover /\ ~Dropping(t)
      BY <1>13 DEF Crash, Dropping
    <2> QED BY <1>1, <1>13, <2>1, SameRowsSteps
  <1>14. CASE Open
    <2>1. t \notin leftover /\ ~Dropping(t) /\ Clean(t)
      BY <1>0, <1>14 DEF Open, Dropping, ghostVars
    <2>2. /\ wal' = wal /\ inserted' = inserted /\ exists' = exists /\ snapshot' = snapshot
          /\ idx'[t] = idx[t] \cup Saved(t)
      BY <1>14 DEF Open, ghostVars, Saved
    <2>3. \A r \in Rows : IsLogged(t, r)' <=> IsLogged(t, r)
      BY <2>2 DEF IsLogged, IsOn
    <2>4. Saved(t)' = Saved(t) /\ Saved(t) \subseteq Rows
      BY <2>2 DEF Saved, TypeOK
    <2>5. t \notin exists => Saved(t) = {}
      BY <2>1 DEF Clean, Saved
    <2> QED BY <2>1, <2>2, <2>3, <2>4, <2>5 DEF Clean
  <1>15. ASSUME NEW i \in DOMAIN wal, ReplaySchema(i) PROVE Clean(t)'
    <2>1. t \notin leftover /\ ~Dropping(t)
      BY <1>15 DEF ReplaySchema, Dropping, ghostVars
    <2> QED BY <1>1, <1>15, <2>1, SameRowsSteps
  <1>16. ASSUME NEW i \in DOMAIN wal, ReplayInsert(i) PROVE Clean(t)'
    <2>1. t \notin leftover /\ ~Dropping(t) /\ Clean(t)
      BY <1>0, <1>16 DEF ReplayInsert, Dropping, ghostVars
    <2>2. CASE t # wal[i].table
      BY <1>1, <1>16, <2>1, <2>2, SameRowsSteps
    <2>3. CASE t = wal[i].table
      <3>1. /\ wal' = wal /\ inserted' = inserted /\ exists' = exists /\ snapshot' = snapshot
            /\ idx'[t] = idx[t] \cup {wal[i].row} /\ wal[i].op = "insert" /\ wal[i].row \in Rows
        BY <1>16, <2>3, RecordIs DEF ReplayInsert, TypeOK, ghostVars
      <3>2. IsLogged(t, wal[i].row)
        BY <2>3, <3>1 DEF IsLogged, IsOn
      <3>3. t \in exists /\ wal[i].row \in inserted[t]
        BY <2>1, <3>1, <3>2 DEF Clean
      <3>4. \A r \in Rows : IsLogged(t, r)' <=> IsLogged(t, r)
        BY <3>1 DEF IsLogged, IsOn
      <3>5. Saved(t)' = Saved(t)
        BY <3>1 DEF Saved
      <3> QED BY <2>1, <3>1, <3>3, <3>4, <3>5 DEF Clean
    <2> QED BY <2>2, <2>3
  <1>17. CASE UNCHANGED vars
    <2>1. t \notin leftover /\ ~Dropping(t)
      BY <1>17 DEF vars, Dropping, processVars, ghostVars
    <2> QED BY <1>1, <1>17, <2>1, SameRowsSteps
  <1> QED
    BY <1>2, <1>3, <1>4, <1>5, <1>6, <1>7, <1>8, <1>9, <1>10, <1>11, <1>12, <1>13, <1>14, <1>15, <1>16, <1>17 DEF Next

\* Rows, files and open index of a table stay, between steps outside of Compact.
LEMMA OpenKept ==
  ASSUME NEW t \in Tables, SameRows(t), db'[t] = db[t], t \in cached => t \in cached', OpenRows(t),
         pc # "rebuild", pc' \notin {"compact", "swapped", "rebuild"}
  PROVE  OpenRows(t)'
  BY DEF SameRows, OpenRows

\* Every step keeps the rows of an open database.
LEMMA OpenNext ==
  TypeOK /\ LoggedInv /\ CleanInv /\ OpenInv /\ ReplayedInv /\ [Next]_vars => OpenInv'
  <1> SUFFICES ASSUME TypeOK, LoggedInv, CleanInv, OpenInv, ReplayedInv, [Next]_vars, NEW t \in Tables, t \notin leftover',
                      pc' \in Busy \cup {"up"}
               PROVE  OpenRows(t)'
    BY DEF OpenInv
  <1>0. pc \in Busy \cup {"up"} => t \in leftover \/ OpenRows(t)
    BY DEF OpenInv
  <1>2. ASSUME NEW o \in {"create", "drop"}, NEW u \in Tables, WriteRecord(o, u) \/ WriteRecordFails(o, u) PROVE OpenRows(t)'
    <2>1. /\ t \notin leftover /\ pc = "up" /\ pc' \in {"logged", "failed"} /\ db' = db /\ cached' = cached
      BY <1>2 DEF WriteRecord, WriteRecordFails, Change, Ready
    <2> QED BY <1>0, <1>2, <2>1, SameRowsSteps, OpenKept
  <1>3. CASE WriteRollback \/ WriteCommitFails
    <2>1. /\ t \notin leftover /\ pc \in {"logged", "failed"} /\ pc' = "up" /\ db' = db /\ cached' = cached
      BY <1>3 DEF WriteRollback, WriteCommitFails, ChangeFails, ghostVars
    <2> QED BY <1>0, <1>3, <2>1, SameRowsSteps, OpenKept DEF Busy
  <1>4. CASE WriteCommit
    <2>1. /\ t \notin leftover /\ pc = "logged" /\ pc' = "marked" /\ db' = db /\ cached' = cached
      BY <1>4 DEF WriteCommit
    <2>2. CASE t # table
      BY <1>0, <1>4, <2>1, <2>2, SameRowsSteps, OpenKept DEF Busy
    <2>3. CASE t = table
      <3>1. Marker("commit") \in Records /\ Marker("commit").op = "commit"
        BY Written DEF Marker
      <3>2. \A q \in Rows : IsLogged(t, q)' <=> IsLogged(t, q)
        BY <1>4, <3>1, LoggedAppended DEF WriteCommit, AppendWal
      <3>3. snapshot' = snapshot /\ OpenRows(t)
        BY <1>0, <1>4, <2>1 DEF WriteCommit, Busy
      <3>4. t \in exists' => idx'[t] = inserted'[t] /\ idx'[t] \subseteq db'[t]
        <4>1. CASE op = "create"
          <5>1. t \notin exists /\ ~Dropping(t) /\ inserted'[t] = {} /\ idx' = idx
            BY <1>4, <2>3, <4>1 DEF WriteCommit, LoggedInv, Dropping, TypeOK
          <5>2. idx[t] = {}
            BY <2>1, <5>1 DEF CleanInv, Clean
          <5> QED BY <5>1, <5>2
        <4>2. CASE op # "create"
          BY <1>4, <2>3, <4>2 DEF WriteCommit
        <4> QED BY <4>1, <4>2
      <3> QED BY <2>1, <3>2, <3>3, <3>4 DEF OpenRows
    <2> QED BY <2>2, <2>3
  <1>5. CASE PublishTable
    <2>1. /\ t \notin leftover /\ pc = "marked" /\ pc' = "up" /\ db' = db /\ cached' = cached
      BY <1>5 DEF PublishTable, ghostVars, fileVars
    <2> QED BY <1>0, <1>5, <2>1, SameRowsSteps, OpenKept DEF Busy
  <1>6. CASE DropTableFile
    <2>1. /\ t \notin leftover /\ pc = "marked" /\ pc' = "removing" /\ cached' = cached /\ SameRows(t) /\ OpenRows(t)
      BY <1>0, <1>6, SameRowsSteps DEF DropTableFile, ghostVars, Busy
    <2>2. CASE t # table
      <3>1. db'[t] = db[t]
        BY <1>6, <2>2 DEF DropTableFile, TypeOK
      <3> QED BY <2>1, <3>1, OpenKept
    <2>3. CASE t = table
      <3>1. t \notin exists
        BY <1>6, <2>3 DEF DropTableFile, LoggedInv
      <3> QED BY <2>1, <3>1 DEF OpenRows, SameRows
    <2> QED BY <2>2, <2>3
  <1>7. CASE DropIndexFile
    <2>1. /\ t \notin leftover /\ pc = "removing" /\ pc' = "up" /\ db' = db /\ OpenRows(t)
      BY <1>0, <1>7 DEF DropIndexFile, Busy
    <2>2. CASE t # table
      <3>1. t \in cached => t \in cached'
        BY <1>7, <2>2 DEF DropIndexFile
      <3> QED BY <1>7, <2>1, <2>2, <3>1, SameRowsSteps, OpenKept
    <2>3. CASE t = table
      <3>1. t \notin exists /\ exists' = exists /\ snapshot' = snapshot /\ wal' = wal /\ cached' = cached
        BY <1>7, <2>3 DEF DropIndexFile, LoggedInv
      <3>2. \A r \in Rows : IsLogged(t, r)' <=> IsLogged(t, r)
        BY <3>1 DEF IsLogged, IsOn
      <3> QED BY <2>1, <3>1, <3>2 DEF OpenRows
    <2> QED BY <2>2, <2>3
  <1>8. ASSUME NEW u \in Tables, Insert(u) PROVE OpenRows(t)'
    <2>1. t \notin leftover /\ pc = "up" /\ pc' = "up" /\ OpenRows(t)
      BY <1>0, <1>8 DEF Insert, Ready
    <2>2. CASE t # u
      <3>1. db'[t] = db[t] /\ (t \in cached => t \in cached')
        BY <1>8, <2>2 DEF Insert, TypeOK
      <3> QED BY <1>8, <2>1, <2>2, <3>1, SameRowsSteps, OpenKept
    <2>3. CASE t = u
      <3>1. /\ t \in cached' /\ idx'[t] = idx[t] \cup {rows + 1} /\ inserted'[t] = inserted[t] \cup {rows + 1}
            /\ db'[t] = db[t] \cup {rows + 1} /\ exists' = exists
        BY <1>8, <2>3 DEF Insert, TypeOK
      <3> QED BY <2>1, <3>1 DEF OpenRows
    <2> QED BY <2>2, <2>3
  <1>9. ASSUME NEW u \in Tables, Find(u) PROVE OpenRows(t)'
    <2>1. /\ t \notin leftover /\ pc \in Busy \cup {"up"} /\ pc' = pc /\ table' = table /\ db' = db
          /\ (t \in cached => t \in cached') /\ SameRows(t) /\ OpenRows(t)
      BY <1>0, <1>9, SameRowsSteps DEF Find, Ready, ghostVars, fileVars
    <2> QED BY <2>1 DEF SameRows, OpenRows
  <1>10. CASE writeSnapshot
    <2>1. /\ pc' = "compact" /\ DOMAIN snapshot' = exists /\ (t \in exists => snapshot'[t] = inserted[t]) /\ wal' = wal
          /\ cached' = cached \cup exists /\ exists' = exists /\ idx' = idx /\ db' = db /\ inserted' = inserted
          /\ t \notin leftover /\ pc = "up"
      BY <1>10, ReadyKnown, ReadyTables DEF writeSnapshot, ghostVars
    <2>2. OpenRows(t)
      BY <1>0, <2>1
    <2>3. \A r \in Rows : IsLogged(t, r)' <=> IsLogged(t, r)
      BY <2>1 DEF IsLogged, IsOn
    <2> QED BY <2>1, <2>2, <2>3 DEF OpenRows
  <1>11. ASSUME NEW u \in Tables, CompactStorage(u) PROVE OpenRows(t)'
    <2>1. /\ t \notin leftover /\ pc = "compact" /\ pc' = "swapped" /\ table' = u /\ cached' = cached /\ SameRows(t)
          /\ OpenRows(t) /\ u \in exists
      BY <1>0, <1>11, SameRowsSteps DEF CompactStorage, ghostVars, Busy, LoggedInv
    <2>2. CASE t # u
      <3>1. db'[t] = db[t]
        BY <1>11, <2>2 DEF CompactStorage, TypeOK
      <3> QED BY <2>1, <2>2, <3>1 DEF SameRows, OpenRows
    <2>3. CASE t = u
      <3>1. db'[t] = idx[t]
        BY <1>11, <2>3 DEF CompactStorage, TypeOK
      <3> QED BY <2>1, <2>3, <3>1 DEF SameRows, OpenRows
    <2> QED BY <2>2, <2>3
  <1>12. CASE CompactClearIndex
    <2>1. /\ t \notin leftover /\ pc = "swapped" /\ pc' = "rebuild" /\ table' = table /\ UNCHANGED <<cached, wal, db, snapshot, inserted, exists>>
          /\ OpenRows(t)
      BY <1>0, <1>12 DEF CompactClearIndex, ghostVars, Busy
    <2>2. CASE t # table
      <3>1. SameRows(t)
        BY <1>12, <2>2, SameRowsSteps
      <3> QED BY <2>1, <2>2, <3>1 DEF SameRows, OpenRows
    <2>3. CASE t = table
      <3>1. \A r \in Rows : IsLogged(t, r)' <=> IsLogged(t, r)
        BY <2>1 DEF IsLogged, IsOn
      <3> QED BY <2>1, <2>3, <3>1 DEF OpenRows
    <2> QED BY <2>2, <2>3
  <1>13. CASE CompactRebuildIndex
    <2>1. /\ t \notin leftover /\ pc = "rebuild" /\ pc' = "compact" /\ table' = table /\ UNCHANGED <<cached, wal, db, snapshot, inserted, exists>>
          /\ OpenRows(t)
      BY <1>0, <1>13 DEF CompactRebuildIndex, ghostVars, Busy
    <2>2. CASE t # table
      <3>1. SameRows(t)
        BY <1>13, <2>2, SameRowsSteps
      <3> QED BY <2>1, <2>2, <3>1 DEF SameRows, OpenRows
    <2>3. CASE t = table
      <3>1. \A r \in Rows : IsLogged(t, r)' <=> IsLogged(t, r)
        BY <2>1 DEF IsLogged, IsOn
      <3>2. idx'[t] = db[t]
        BY <1>13, <2>3 DEF CompactRebuildIndex, TypeOK
      <3> QED BY <2>1, <2>3, <3>1, <3>2 DEF OpenRows
    <2> QED BY <2>2, <2>3
  <1>14. CASE TruncateWal
    <2>1. /\ t \notin leftover /\ pc = "compact" /\ pc' = "up" /\ wal' = <<>> /\ UNCHANGED <<cached, db, idx, snapshot, inserted, exists>>
          /\ OpenRows(t)
      BY <1>0, <1>14 DEF TruncateWal, Busy
    <2>2. \A r \in Rows : ~IsLogged(t, r)'
      BY <2>1 DEF IsLogged
    <2> QED BY <2>1, <2>2 DEF OpenRows
  <1>15. CASE Recovered
    <2>1. /\ t \notin leftover /\ pc = "replay" /\ pc' = "up" /\ todo = {} /\ UNCHANGED <<wal, cached, db, idx, snapshot, inserted, exists>>
      BY <1>15 DEF Recovered, fileVars, ghostVars
    <2>2. ReplayedRows(t) /\ Clean(t)
      BY <2>1 DEF ReplayedInv, CleanInv, Dropping
    <2>3. \A r \in Rows : IsReplayed(t, r) <=> IsLogged(t, r)
      BY <2>1 DEF IsReplayed, IsLogged
    <2>4. \A r \in Rows : IsLogged(t, r)' <=> IsLogged(t, r)
      BY <2>1 DEF IsLogged, IsOn
    <2>5. t \in exists => idx[t] = inserted[t] /\ idx[t] \subseteq db[t]
      <3>1. idx[t] \subseteq Rows /\ inserted[t] \subseteq Rows
        BY DEF TypeOK
      <3> QED BY <2>2, <2>3, <3>1 DEF ReplayedRows, Clean
    <2> QED BY <2>1, <2>2, <2>3, <2>4, <2>5 DEF OpenRows, ReplayedRows
  <1>16. ASSUME UNCHANGED vars PROVE OpenRows(t)'
    <2>1. /\ t \notin leftover /\ pc \in Busy \cup {"up"} /\ pc' = pc /\ table' = table /\ db' = db
          /\ cached' = cached /\ SameRows(t) /\ OpenRows(t)
      BY <1>0, <1>16, SameRowsSteps DEF vars, processVars, ghostVars, fileVars
    <2> QED BY <2>1 DEF SameRows, OpenRows
  <1> QED
    BY <1>2, <1>3, <1>4, <1>5, <1>6, <1>7, <1>8, <1>9, <1>10, <1>11, <1>12, <1>13, <1>14, <1>15, <1>16
    DEF Next, Crash, Open, ReplaySchema, ReplayInsert, Busy

\* Every step keeps the rows that recover has replayed.
LEMMA ReplayedNext == TypeOK /\ ReplayedInv /\ [Next]_vars => ReplayedInv'
  <1> SUFFICES ASSUME TypeOK, ReplayedInv, [Next]_vars, NEW t \in Tables, t \notin leftover', pc' = "replay"
               PROVE  ReplayedRows(t)'
    BY DEF ReplayedInv
  <1>1. CASE Open
    <2>1. /\ wal' = wal /\ snapshot' = snapshot /\ cached' = DOMAIN snapshot
          /\ \A i \in DOMAIN wal : wal[i].op = "insert" => i \in todo'
          /\ t \in DOMAIN snapshot => db'[t] = snapshot[t] /\ snapshot[t] \subseteq idx'[t]
      BY <1>1 DEF Open
    <2>2. \A r \in Rows : ~IsReplayed(t, r)'
      BY <2>1 DEF IsReplayed, IsOn
    <2> QED BY <2>1, <2>2 DEF ReplayedRows, Saved
  <1>2. ASSUME NEW i \in DOMAIN wal, ReplaySchema(i) PROVE ReplayedRows(t)'
    <2>1. /\ UNCHANGED <<wal, snapshot, cached, db, idx>> /\ todo' = todo \ Group(wal[i].session)
          /\ t \notin leftover /\ pc = "replay"
      BY <1>2 DEF ReplaySchema, fileVars, ghostVars
    <2>2. \A r \in Rows : IsReplayed(t, r)' <=> IsReplayed(t, r)
      BY <2>1 DEF IsReplayed, IsOn, Group, IsSchema
    <2> QED BY <2>1, <2>2 DEF ReplayedInv, ReplayedRows, Saved
  <1>3. ASSUME NEW i \in DOMAIN wal, ReplayInsert(i) PROVE ReplayedRows(t)'
    <2>1. /\ UNCHANGED <<wal, snapshot>> /\ todo' = todo \ {i} /\ wal[i].op = "insert" /\ wal[i].row \in Rows /\ wal[i].table \in Tables
          /\ t \notin leftover /\ pc = "replay" /\ ReplayedRows(t) /\ cached' = cached \cup {wal[i].table}
      BY <1>3, RecordIs DEF ReplayInsert, ghostVars, ReplayedInv, TypeOK
    <2>2. Saved(t)' = Saved(t)
      BY <2>1 DEF Saved
    <2>3. CASE t # wal[i].table
      <3>1. idx'[t] = idx[t] /\ db'[t] = db[t]
        BY <1>3, <2>3 DEF ReplayInsert, TypeOK
      <3>2. \A r \in Rows : IsReplayed(t, r)' <=> IsReplayed(t, r)
        BY <2>1, <2>3 DEF IsReplayed, IsOn
      <3> QED BY <2>1, <2>2, <3>1, <3>2 DEF ReplayedRows
    <2>4. CASE t = wal[i].table
      <3>1. /\ idx'[t] = idx[t] \cup {wal[i].row}
            /\ db'[t] = (IF t \in cached THEN db[t] ELSE {}) \cup {wal[i].row} /\ t \in cached'
        BY <1>3, <2>4 DEF ReplayInsert, TypeOK
      <3>2. \A r \in Rows : IsReplayed(t, r)' => IsReplayed(t, r) \/ r = wal[i].row
        BY <2>1, <2>4 DEF IsReplayed, IsOn
      <3>3. t \notin cached => Saved(t) = {} /\ \A r \in Rows : ~IsReplayed(t, r)
        BY <2>1 DEF ReplayedRows, Saved
      <3> QED BY <2>1, <2>2, <3>1, <3>2, <3>3 DEF ReplayedRows
    <2> QED BY <2>3, <2>4
  <1>4. CASE UNCHANGED vars
    <2>1. UNCHANGED <<wal, snapshot, cached, db, idx, todo>> /\ t \notin leftover /\ pc = "replay"
      BY <1>4 DEF vars, fileVars, processVars, ghostVars
    <2> QED BY <2>1 DEF ReplayedInv, ReplayedRows, Saved, IsReplayed, IsOn
  <1> QED
    BY <1>1, <1>2, <1>3, <1>4 DEF Next, WriteRecord, WriteRecordFails, WriteRollback, WriteCommit, WriteCommitFails,
       ChangeFails, PublishTable, DropTableFile, DropIndexFile, Insert, Find, CompactStorage, writeSnapshot,
       CompactClearIndex, CompactRebuildIndex, TruncateWal, Crash, Recovered, Ready, Busy

-----------------------------------------------------------------------------
\* The inductive invariant holds.
THEOREM SchemaInvariant == Spec => []IInv
  <1>1. Init => IInv
    <2> SUFFICES ASSUME Init PROVE IInv
      OBVIOUS
    <2>0. wal = <<>> /\ DOMAIN wal = {} /\ wal \in Seq(Records) /\ snapshot = <<>> /\ DOMAIN snapshot = {}
      BY DEF Init
    <2>1. TypeOK
      BY <2>0, SchemaAssumption DEF Init, TypeOK, Busy
    <2>2. SessionsInv /\ LoggedInv /\ TablesInv /\ GenerationsInv /\ CurrentInv /\ TodoInv /\ ReplayInv /\ ReplayedInv
      BY <2>0 DEF Init, SessionsInv, LoggedInv, TablesInv, GenerationsInv, CurrentInv, TodoInv, ReplayInv, ReplayedInv, Busy
    <2>3. HistoryInv
      BY <2>0 DEF Init, HistoryInv, Alive, Dead, NoChange
    <2>4. CleanInv /\ OpenInv
      BY <2>0 DEF Init, CleanInv, Clean, OpenInv, OpenRows, IsLogged
    <2>5. TableLostOnly /\ TableBackOnly
      BY DEF Init, TableLostOnly, TableBackOnly
    <2> QED BY <2>1, <2>2, <2>3, <2>4, <2>5 DEF IInv
  <1>2. IInv /\ [Next]_vars => IInv'
    BY TypeNext, SessionsNext, LoggedNext, TablesNext, HistoryNext, GenerationsNext, CurrentNext, TodoNext, ReplayNext,
       OnlyNext, CleanNext, OpenNext, ReplayedNext DEF IInv
  <1> QED BY <1>1, <1>2, PTL DEF Spec

\* Every variable stays in its set.
THEOREM SchemaTypes == Spec => []TypeOK
  <1>1. IInv => TypeOK
    BY DEF IInv
  <1> QED BY <1>1, SchemaInvariant, PTL

\* A created table is lost only in the cases of LossExcused: whatever step of whatever
\* change the process dies in.
THEOREM SchemaTableLost == Spec => []TableLostOnly
  <1>1. IInv => TableLostOnly
    BY DEF IInv
  <1> QED BY <1>1, SchemaInvariant, PTL

\* A dropped table comes back only in the cases of ReturnExcused.
THEOREM SchemaTableBack == Spec => []TableBackOnly
  <1>1. IInv => TableBackOnly
    BY DEF IInv
  <1> QED BY <1>1, SchemaInvariant, PTL

\* A table serves other rows than its own only if a drop of it has left the index file.
THEOREM SchemaRows == Spec => []RowsWrongOnly
  <1>1. IInv => RowsWrongOnly
    BY DEF IInv, OpenInv, OpenRows, RowsWrongOnly, Busy, TypeOK
  <1> QED BY <1>1, SchemaInvariant, PTL
=============================================================================

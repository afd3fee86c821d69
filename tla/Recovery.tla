------------------------------- MODULE Recovery -------------------------------
(***************************************************************************)
(* The path of a transaction through wal.log, the table file and the index *)
(* file, and the way back: what processTasks writes and in which order,    *)
(* what Commit then applies, what Compact replaces, and what Open rebuilds *)
(* from the latest snapshot and the whole WAL, with a crash possible       *)
(* between any two steps, those of Open included.                          *)
(*                                                                         *)
(* One table, already registered.  A record is its value, which is also    *)
(* what the secondary index holds.  An index is                            *)
(*   val    key -> the value its record pointer led to when it was made    *)
(*   stale  keys whose pointer leads into a table file that was replaced   *)
(*   sec    the composite keys <<value, key>> of the secondary index       *)
(* The index file keeps what its last Commit wrote, or nothing after a     *)
(* shadowClear: that its write is atomic is the subject of IndexFile.      *)
(***************************************************************************)
EXTENDS Integers, Sequences, SequencesExt

CONSTANTS
    Keys, Values,
    None,               \* no record
    MaxTransactions,    \* bound: transactions that reach the WAL
    MaxCrashes,         \* bound: process crashes, and scans that find something else
    Faults              \* which happen: "torn", "io", "restore", "scan"

ASSUME RecoveryAssumption ==
    /\ None \notin Values
    /\ MaxTransactions \in Nat
    /\ MaxCrashes \in Nat
    /\ Faults \subseteq {"torn", "io", "restore", "scan"}

ValueOrNone == Values \cup {None}
Table == [Keys -> ValueOrNone]
EmptyTable == [k \in Keys |-> None]
Index == [val : Table, stale : SUBSET Keys, sec : SUBSET (Values \X Keys)]
EmptyIndex == [val |-> EmptyTable, stale |-> {}, sec |-> {}]

\* A WriteTask: the net change set of one transaction.
Transactions == [id : Nat, gen : Nat, clear : BOOLEAN, deletes : SUBSET Keys,
                 inserts : Table, updates : Table]

Records == [type : {"mutations"}, tx : Transactions]
           \cup [type : {"commit", "rollback"}, id : Nat]
           \cup [type : {"torn"}, magic : BOOLEAN]

VARIABLES
    wal,            \* wal.log, in units of what one transaction writes at once
    idxFile,        \* the .idx file exists
    disk,           \* the index as the .idx file holds it
    mem,            \* the index with the changes not yet committed to the file
    snapshots,      \* generation -> the table in snapshot.<generation>, or None
    generation,     \* of committedState
    pc,             \* where the writer, Compact or Open is
    tx,             \* <<the transaction being written or replayed>>
    todo,           \* committed transactions Open has still to replay
    reset,          \* Open has not yet reset the table file (~clearedTables)
    nextId,         \* transaction ids handed out
    crashes,        \* crashes and inexact scans so far
    durable,        \* the table after every transaction with a COMMIT marker
    failed,         \* ids of transactions that were reported as failed
    indoubt,        \* those of them that have a COMMIT marker all the same
    damaged,        \* something was written to the WAL after a torn record
    misread         \* a scan of Compact did not find what the index holds

fileVars == <<wal, idxFile, disk, snapshots>>
processVars == <<mem, generation, pc, tx, todo, reset>>
ghostVars == <<nextId, crashes, durable, failed, indoubt, damaged, misread>>
vars == <<fileVars, processVars, ghostVars>>

\* Every variable stays in its set; generations do not run ahead of the transactions.
TypeOK ==
    /\ wal \in Seq(Records)
    /\ idxFile \in BOOLEAN
    /\ disk \in Index
    /\ mem \in Index
    /\ DOMAIN snapshots \subseteq 0..MaxTransactions
    /\ \A g \in DOMAIN snapshots : snapshots[g] \in Table
    /\ generation \in 0..MaxTransactions
    /\ pc \in {"idle", "logged", "failed", "marked", "cleared",
               "snapshotted", "swapped", "emptied", "rebuilt",
               "down", "renamed", "restored", "replay", "replaycleared",
               "unopenable"}
    /\ tx \in Seq(Transactions) /\ Len(tx) <= 1
    /\ todo \in Seq(Transactions)
    /\ reset \in BOOLEAN
    /\ nextId \in 0..MaxTransactions
    /\ crashes \in 0..MaxCrashes
    /\ durable \in Table
    /\ failed \subseteq 1..MaxTransactions
    /\ indoubt \subseteq failed
    /\ damaged \in BOOLEAN
    /\ misread \in BOOLEAN

Init ==
    /\ wal = <<>>
    /\ idxFile = FALSE
    /\ disk = EmptyIndex
    /\ mem = EmptyIndex
    /\ snapshots = <<>>
    /\ generation = 0
    /\ pc = "idle"
    /\ tx = <<>>
    /\ todo = <<>>
    /\ reset = FALSE
    /\ nextId = 0
    /\ crashes = 0
    /\ durable = EmptyTable
    /\ failed = {}
    /\ indoubt = {}
    /\ damaged = FALSE
    /\ misread = FALSE

-----------------------------------------------------------------------------
(* The index: shadowInsertNoCommit, shadowDeleteNoCommit, shadowClear. *)

Live(m) == {k \in Keys : m[k] # None}
Entries(m) == {<<m[k], k>> : k \in Live(m)}

\* Removes the keys of K that are found, given the old records that were read
\* through their pointers; without one the secondary entry stays.
shadowDelete(index, K, old) ==
    LET found == K \cap Live(index.val)
    IN  [val |-> [k \in Keys |-> IF k \in found THEN None ELSE index.val[k]],
         stale |-> index.stale \ found,
         sec |-> index.sec \ {<<old[k], k>> : k \in found}]

\* Overwrites the primary entry; does not look for an older secondary one.
shadowInsert(index, m) ==
    [val |-> [k \in Keys |-> IF m[k] # None THEN m[k] ELSE index.val[k]],
     stale |-> index.stale \ Live(m),
     sec |-> index.sec \cup Entries(m)]

\* Mutant: an update does not remove the old entries.
ApplyUpdatesAsInserts(index, t, old) ==
    shadowInsert(shadowInsert(shadowDelete(index, t.deletes, old), t.inserts), t.updates)

\* The order of Commit and of the records it wrote: deletes, inserts, updates.
ApplyChanges(index, t, old) ==
    LET deleted == shadowDelete(index, t.deletes, old)
        inserted == shadowInsert(deleted, t.inserts)
    IN  shadowInsert(shadowDelete(inserted, Live(t.updates), old), t.updates)

\* What reading through the pointers of an index may return: a pointer into a
\* replaced table file reads nothing, or some record that is there now.
OldRecords(index) ==
    {old \in Table : \A k \in Keys \ index.stale : old[k] = index.val[k]}

\* The table file is replaced by a shorter one.
Dangling(index) == [index EXCEPT !.stale = Live(index.val)]

\* What a transaction does to a table, whatever the files hold.
After(m, t) ==
    [k \in Keys |-> IF t.inserts[k] # None THEN t.inserts[k]
                    ELSE IF t.updates[k] # None THEN t.updates[k]
                    ELSE IF t.clear \/ k \in t.deletes THEN None
                    ELSE m[k]]

-----------------------------------------------------------------------------
(* The background writer: processTasks for the one task there can be. *)

\* The change sets a transaction can have staged over the table m.
Staged(m, t) ==
    /\ t.clear => t.deletes = {} /\ t.updates = EmptyTable
    /\ t.deletes \subseteq Live(m)
    /\ Live(t.updates) \subseteq Live(m) \ t.deletes
    /\ t.clear \/ Live(t.inserts) \cap Live(m) \subseteq t.deletes
    /\ t.clear \/ t.deletes # {} \/ Live(t.inserts) # {} \/ Live(t.updates) # {}

TornTail == wal # <<>> /\ Last(wal).type = "torn"

AppendWal(records) ==
    /\ wal' = wal \o records
    /\ damaged' = (damaged \/ (TornTail /\ records # <<>>))

Torn(magic) == [type |-> "torn", magic |-> magic]

\* A failed write leaves nothing, a part, or everything (when only Sync fails).
Leftovers(record) ==
    {<<>>, <<record>>} \cup {<<Torn(b)>> : b \in IF "torn" \in Faults THEN BOOLEAN ELSE {}}

NewTransaction(t) ==
    /\ pc = "idle"
    /\ nextId < MaxTransactions
    /\ nextId' = nextId + 1
    /\ t.id = nextId + 1
    /\ t.gen = generation + 1
    /\ Staged(mem.val, t)
    /\ tx' = <<t>>
    \* every staged operation but clear has looked the key up in the index
    /\ idxFile' = (idxFile \/ ~t.clear)

\* Steps 1 and 2: BEGIN and the mutations, written and synced.
WriteMutations(t) ==
    /\ NewTransaction(t)
    /\ AppendWal(<<[type |-> "mutations", tx |-> t]>>)
    /\ pc' = "logged"
    /\ UNCHANGED <<disk, snapshots, mem, generation, todo, reset, crashes, durable, failed,
                   indoubt, misread>>

WriteMutationsFails(t) ==
    /\ "io" \in Faults
    /\ NewTransaction(t)
    /\ \E left \in Leftovers([type |-> "mutations", tx |-> t]) : AppendWal(left)
    /\ pc' = "failed"
    /\ UNCHANGED <<disk, snapshots, mem, generation, todo, reset, crashes, durable, failed,
                   indoubt, misread>>

\* Steps 3 and 4 fail: the table file could not be written or synced.
AppendRecordsFails ==
    /\ "io" \in Faults
    /\ pc = "logged"
    /\ pc' = "failed"
    /\ UNCHANGED <<fileVars, mem, generation, tx, todo, reset, ghostVars>>

\* Steps 3 to 6: the table file is written and synced, then the COMMIT marker.
WriteCommitMarker ==
    /\ pc = "logged"
    /\ AppendWal(<<[type |-> "commit", id |-> tx[1].id]>>)
    /\ durable' = After(durable, tx[1])
    /\ pc' = "marked"
    /\ UNCHANGED <<idxFile, disk, snapshots, mem, generation, tx, todo, reset, nextId,
                   crashes, failed, indoubt, misread>>

\* The transaction is reported as failed, whatever of its marker is in the WAL.
WriteCommitMarkerFails ==
    /\ "io" \in Faults
    /\ pc = "logged"
    /\ \E left \in Leftovers([type |-> "commit", id |-> tx[1].id]) :
          /\ AppendWal(left)
          /\ IF left # <<>> /\ left[1].type = "commit"
             THEN durable' = After(durable, tx[1]) /\ indoubt' = indoubt \cup {tx[1].id}
             ELSE UNCHANGED <<durable, indoubt>>
    /\ pc' = "idle"
    /\ tx' = <<>>
    /\ failed' = failed \cup {tx[1].id}
    /\ UNCHANGED <<idxFile, disk, snapshots, mem, generation, todo, reset, nextId, crashes,
                   misread>>

\* Steps 5 and 6 after a failure; when this write fails too nothing else is done.
WriteRollbackMarker ==
    /\ pc = "failed"
    /\ \E left \in Leftovers([type |-> "rollback", id |-> tx[1].id]) : AppendWal(left)
    /\ pc' = "idle"
    /\ tx' = <<>>
    /\ failed' = failed \cup {tx[1].id}
    /\ UNCHANGED <<idxFile, disk, snapshots, mem, generation, todo, reset, nextId,
                   crashes, durable, indoubt, misread>>

\* Rollback of an active transaction writes only a marker, whatever it staged.
AppendRollbackMarker ==
    /\ pc = "idle"
    /\ nextId < MaxTransactions
    /\ nextId' = nextId + 1
    /\ LET marker == [type |-> "rollback", id |-> nextId + 1]
       IN  \E left \in {<<marker>>} \cup (IF "io" \in Faults THEN Leftovers(marker) ELSE {}) :
              AppendWal(left)
    /\ failed' = failed \cup {nextId + 1}
    /\ UNCHANGED <<idxFile, disk, snapshots, processVars, crashes, durable, indoubt, misread>>

-----------------------------------------------------------------------------
(* Commit, after the background writer reported success. *)

\* shadowClear truncates the .idx file, which must exist.
ApplyClear ==
    /\ pc = "marked"
    /\ tx[1].clear
    /\ idxFile
    /\ mem' = EmptyIndex
    /\ disk' = EmptyIndex
    /\ pc' = "cleared"
    /\ UNCHANGED <<wal, idxFile, snapshots, generation, tx, todo, reset, ghostVars>>

\* An error after the COMMIT marker: Commit returns it, and nothing is published.
CommitFails ==
    /\ pc' = "idle"
    /\ tx' = <<>>
    /\ failed' = failed \cup {tx[1].id}
    /\ indoubt' = indoubt \cup {tx[1].id}
    /\ UNCHANGED <<wal, idxFile, snapshots, generation, todo, reset, nextId, crashes, durable,
                   damaged, misread>>

\* The cached index is dropped, whatever then fails.
ApplyClearFails ==
    /\ pc = "marked"
    /\ tx[1].clear
    /\ \/ ~idxFile /\ UNCHANGED disk
       \/ "io" \in Faults /\ disk' \in {disk, EmptyIndex}
    /\ mem' = disk'
    /\ CommitFails

\* What an error leaves of a change from one index to another.  Each key has its old entries,
\* or those of the primary index are removed or inserted again before those of the secondary.
Halfway(from, to) ==
    LET Sec(index, k) == {e \in index.sec : e[2] = k}
    IN  {i \in Index : /\ i.stale \subseteq from.stale
                       /\ \A k \in Keys :
                             \/ i.val[k] = from.val[k] /\ Sec(i, k) = Sec(from, k)
                             \/ i.val[k] = None /\ Sec(i, k) \subseteq Sec(from, k)
                             \/ i.val[k] = to.val[k] /\ Sec(i, k) \subseteq Sec(to, k)}

\* The changes made so far stay in the index in memory, and are written by the next shadowCommit
\* if they are not already, because only what comes after the write failed.
ApplyFails ==
    /\ "io" \in Faults
    /\ \/ pc = "cleared"
       \/ pc = "marked" /\ ~tx[1].clear
    /\ \E old \in OldRecords(mem) :
          LET all == ApplyChanges(mem, tx[1], old)
          IN  /\ mem' \in Halfway(mem, all)
              /\ disk' = disk \/ (disk' = mem' /\ mem' = all)
    /\ CommitFails

\* Mutant: the published state has the old generation.
PublishOldGeneration ==
    /\ \/ pc = "cleared"
       \/ pc = "marked" /\ ~tx[1].clear
    /\ \E old \in OldRecords(mem) : mem' = ApplyChanges(mem, tx[1], old)
    /\ disk' = mem'
    /\ pc' = "idle"
    /\ tx' = <<>>
    /\ UNCHANGED <<wal, idxFile, snapshots, generation, todo, reset, ghostVars>>

\* Deletes, inserts, updates, shadowCommit and publish.
ApplyAndPublish ==
    /\ \/ pc = "cleared"
       \/ pc = "marked" /\ ~tx[1].clear
    /\ \E old \in OldRecords(mem) : mem' = ApplyChanges(mem, tx[1], old)
    /\ disk' = mem'
    /\ generation' = tx[1].gen
    /\ pc' = "idle"
    /\ tx' = <<>>
    /\ UNCHANGED <<wal, idxFile, snapshots, todo, reset, ghostVars>>

\* Any lookup opens the index, which creates the file.
Lookup ==
    /\ pc = "idle"
    /\ ~idxFile
    /\ idxFile' = TRUE
    /\ UNCHANGED <<wal, disk, snapshots, processVars, ghostVars>>

-----------------------------------------------------------------------------
(* Compact. *)

\* What Range finds in the whole index.  A leaf that was copied leaves the one before it with
\* a pointer to its old page (BPlusTree, ScanComplete): behind it entries are missed, and
\* what an old page still holds is found.
Scans(index) == {index.val} \cup (IF "scan" \in Faults THEN Table ELSE {})

\* The snapshot is written beside the others and renamed when it is complete.  The second
\* scan, for activePointers, finds the same: from here on mem.val is what both find.
writeSnapshot ==
    /\ pc = "idle"
    /\ \E found \in Scans(mem) :
          /\ mem' = [mem EXCEPT !.val = found]
          /\ misread' = (misread \/ found # mem.val)
          /\ \/ found = mem.val /\ UNCHANGED crashes
             \/ found # mem.val /\ crashes < MaxCrashes /\ crashes' = crashes + 1
          /\ \E read \in OldRecords([mem EXCEPT !.val = found]) :
                /\ Live(read) = Live(found)
                /\ snapshots' = [g \in DOMAIN snapshots \cup {generation} |->
                                    IF g = generation THEN read ELSE snapshots[g]]
    /\ idxFile' = TRUE
    /\ pc' = "snapshotted"
    /\ UNCHANGED <<wal, disk, generation, tx, todo, reset, nextId, durable, failed, indoubt,
                   damaged>>

\* TableStorage.Compact renames a file with only the records of activePointers over the old
\* one; the index on disk still has the old offsets.
CompactStorage ==
    /\ pc = "snapshotted"
    /\ disk' = Dangling(disk)
    /\ mem' = Dangling(mem)
    /\ pc' = "swapped"
    /\ UNCHANGED <<wal, idxFile, snapshots, generation, tx, todo, reset, ghostVars>>

\* The index is emptied ...
CompactClearIndex ==
    /\ pc = "swapped"
    /\ disk' = EmptyIndex
    /\ pc' = "emptied"
    /\ UNCHANGED <<wal, idxFile, snapshots, mem, generation, tx, todo, reset, ghostVars>>

\* Mutant: the index is written back with the pointers it had.
CompactKeepsPointers ==
    /\ pc = "emptied"
    /\ disk' = mem
    /\ pc' = "rebuilt"
    /\ UNCHANGED <<wal, idxFile, snapshots, mem, generation, tx, todo, reset, ghostVars>>

\* ... and filled again with activePointers, which are the new ones now.
CompactRebuildIndex ==
    /\ pc = "emptied"
    /\ mem' = shadowInsert(EmptyIndex, mem.val)
    /\ disk' = mem'
    /\ pc' = "rebuilt"
    /\ UNCHANGED <<wal, idxFile, snapshots, generation, tx, todo, reset, ghostVars>>

TruncateWal ==
    /\ pc = "rebuilt"
    /\ wal' = <<>>
    /\ pc' = "idle"
    /\ UNCHANGED <<idxFile, disk, snapshots, mem, generation, tx, todo, reset, ghostVars>>

-----------------------------------------------------------------------------
(* Faults. *)

ProcessGone ==
    /\ mem' = EmptyIndex
    /\ generation' = 0
    /\ tx' = <<>>
    /\ todo' = <<>>
    /\ reset' = FALSE

\* The process dies (or calls Close): the files keep what was written.
Crash ==
    /\ pc \notin {"down", "unopenable"}
    /\ crashes < MaxCrashes
    /\ crashes' = crashes + 1
    /\ pc' = "down"
    /\ ProcessGone
    /\ UNCHANGED <<fileVars, nextId, durable, failed, indoubt, damaged, misread>>

\* It dies inside a write to the WAL and leaves a part of a record: less than
\* its magic number, or more.
CrashInWrite ==
    /\ "torn" \in Faults
    /\ pc \in {"idle", "logged", "failed"}
    /\ crashes < MaxCrashes
    /\ crashes' = crashes + 1
    /\ pc' = "down"
    /\ \E b \in BOOLEAN : AppendWal(<<Torn(b)>>)
    /\ ProcessGone
    /\ UNCHANGED <<idxFile, disk, snapshots, nextId, durable, failed, indoubt, misread>>

LatestSnapshot == CHOOSE g \in DOMAIN snapshots : \A h \in DOMAIN snapshots : h <= g

\* Backup copies the WAL, the table file and the latest snapshot, not the index;
\* Open is then pointed at the copy.
BackupAndRestore ==
    /\ "restore" \in Faults
    /\ pc = "idle"
    /\ crashes < MaxCrashes
    /\ crashes' = crashes + 1
    /\ pc' = "down"
    /\ idxFile' = FALSE
    /\ disk' = EmptyIndex
    /\ snapshots' = [g \in {h \in DOMAIN snapshots : h = LatestSnapshot} |-> snapshots[g]]
    /\ ProcessGone
    /\ UNCHANGED <<wal, nextId, durable, failed, indoubt, damaged, misread>>

-----------------------------------------------------------------------------
(* Open. *)

\* readSnapshot, with a snapshot: the table file is moved away first.
RenameTableFile ==
    /\ pc = "down"
    /\ DOMAIN snapshots # {}
    /\ disk' = Dangling(disk)
    /\ pc' = "renamed"
    /\ UNCHANGED <<wal, idxFile, snapshots, mem, generation, tx, todo, reset, ghostVars>>

\* The records go into a new table file and over whatever the index has.
readSnapshot ==
    /\ pc = "renamed"
    /\ mem' = shadowInsert(disk, snapshots[LatestSnapshot])
    /\ disk' = mem'
    /\ idxFile' = TRUE
    /\ generation' = LatestSnapshot
    /\ reset' = FALSE
    /\ pc' = "restored"
    /\ UNCHANGED <<wal, snapshots, tx, todo, ghostVars>>

NoSnapshot ==
    /\ pc = "down"
    /\ DOMAIN snapshots = {}
    /\ mem' = disk
    /\ generation' = 0
    /\ reset' = TRUE
    /\ pc' = "restored"
    /\ UNCHANGED <<fileVars, tx, todo, ghostVars>>

TornRecords == {i \in DOMAIN wal : wal[i].type = "torn"}

\* ReadAllRecords stops at a torn record.
ReadableRecords ==
    SubSeq(wal, 1, Cardinality({i \in DOMAIN wal : \A j \in TornRecords : i < j}))

\* Mutant: a group counts as committed unless it was rolled back.
GroupsNotRolledBack(records) ==
    {records[i].tx : i \in {i \in DOMAIN records :
        /\ records[i].type = "mutations"
        /\ ~ \E j \in DOMAIN records : /\ records[j].type = "rollback"
                                       /\ records[j].id = records[i].tx.id}}

\* Mutant: neither marker is looked for.
GroupsLogged(records) ==
    {records[i].tx : i \in {i \in DOMAIN records : records[i].type = "mutations"}}

\* recover: the groups with a COMMIT and no ROLLBACK marker, by the generation
\* of their first record (the sort is not stable).
CommittedGroups(records) ==
    {records[i].tx : i \in {i \in DOMAIN records :
        /\ records[i].type = "mutations"
        /\ \E j \in DOMAIN records : /\ records[j].type = "commit"
                                     /\ records[j].id = records[i].tx.id
        /\ ~ \E j \in DOMAIN records : /\ records[j].type = "rollback"
                                       /\ records[j].id = records[i].tx.id}}

\* Mutant: newest first.
NewestFirst(records) ==
    {s \in SetToSeqs(CommittedGroups(records)) :
        \A i, j \in DOMAIN s : i < j => s[i].gen >= s[j].gen}

ReplayOrders(records) ==
    {s \in SetToSeqs(CommittedGroups(records)) :
        \A i, j \in DOMAIN s : i < j => s[i].gen <= s[j].gen}

ReadAllRecords ==
    /\ pc = "restored"
    /\ TornRecords = {Len(wal)} => ~Last(wal).magic
    /\ todo' \in ReplayOrders(ReadableRecords)
    /\ pc' = "replay"
    /\ UNCHANGED <<fileVars, mem, generation, tx, reset, ghostVars>>

\* Less than the magic number at the end is an error.  What follows a torn record
\* is taken for its rest: an error (checksum, type or magic mismatch) or again a
\* torn record, depending on the lengths.
ReadAllRecordsFails ==
    /\ pc = "restored"
    /\ TornRecords # {}
    /\ TornRecords = {Len(wal)} => Last(wal).magic
    /\ pc' = "unopenable"
    /\ ProcessGone
    /\ UNCHANGED <<fileVars, ghostVars>>

ReplayClear ==
    /\ pc = "replay"
    /\ todo # <<>>
    /\ Head(todo).clear
    /\ idxFile
    /\ mem' = EmptyIndex
    /\ disk' = EmptyIndex
    /\ pc' = "replaycleared"
    /\ UNCHANGED <<wal, idxFile, snapshots, generation, tx, todo, reset, ghostVars>>

ReplayClearFails ==
    /\ pc = "replay"
    /\ todo # <<>>
    /\ Head(todo).clear
    /\ ~idxFile
    /\ pc' = "unopenable"
    /\ ProcessGone
    /\ UNCHANGED <<fileVars, ghostVars>>

\* The other records of a group and its shadowCommit.  The first insert or
\* update resets the table file of a table that no snapshot has.
ReplayGroup ==
    /\ \/ pc = "replaycleared"
       \/ pc = "replay" /\ todo # <<>> /\ ~Head(todo).clear
    /\ LET t == Head(todo)
           resets == reset /\ (Live(t.inserts) # {} \/ Live(t.updates) # {})
           base == IF resets THEN Dangling(mem) ELSE mem
       IN  /\ \E old \in OldRecords(base) : mem' = ApplyChanges(base, t, old)
           /\ reset' = (reset /\ ~resets)
           /\ generation' = IF t.gen > generation THEN t.gen ELSE generation
    /\ disk' = mem'
    /\ idxFile' = TRUE
    /\ todo' = Tail(todo)
    /\ pc' = "replay"
    /\ UNCHANGED <<wal, snapshots, tx, ghostVars>>

Opened ==
    /\ pc = "replay"
    /\ todo = <<>>
    /\ pc' = "idle"
    /\ reset' = FALSE
    /\ UNCHANGED <<fileVars, mem, generation, tx, todo, ghostVars>>

-----------------------------------------------------------------------------
Writes(t) == WriteMutations(t) \/ WriteMutationsFails(t)

Commit ==
    \/ WriteCommitMarker \/ WriteCommitMarkerFails \/ AppendRecordsFails
    \/ WriteRollbackMarker
    \/ ApplyClear \/ ApplyClearFails \/ ApplyAndPublish \/ ApplyFails

Compact ==
    \/ writeSnapshot \/ CompactStorage \/ CompactClearIndex \/ CompactRebuildIndex
    \/ TruncateWal

Open ==
    \/ RenameTableFile \/ readSnapshot \/ NoSnapshot
    \/ ReadAllRecords \/ ReadAllRecordsFails
    \/ ReplayClear \/ ReplayClearFails \/ ReplayGroup \/ Opened

ChangeSets ==
    [id : {nextId + 1}, gen : {generation + 1}, clear : BOOLEAN, deletes : SUBSET Keys,
     inserts : Table, updates : Table]

Next ==
    \/ \E t \in ChangeSets : Writes(t)
    \/ AppendRollbackMarker
    \/ Commit
    \/ Lookup
    \/ Compact
    \/ Crash \/ CrashInWrite \/ BackupAndRestore
    \/ Open

Spec == Init /\ [][Next]_vars

-----------------------------------------------------------------------------
(* Properties. *)

\* Nothing was written behind a torn record, and no transaction was reported as
\* failed after its COMMIT marker had reached the WAL.
Sound == ~damaged /\ indoubt = {}

\* Moreover, every scan of Compact found exactly what the index holds.
Intact == Sound /\ ~misread

\* Whenever the database serves requests, after any sequence of commits,
\* rollbacks, compactions, crashes at any step and reopenings, its primary index
\* holds exactly what the transactions with a COMMIT marker made of the table:
\* none is lost, none comes back, none of a rolled back one is there.
ServesCommitted == pc = "idle" /\ Intact => mem.val = durable

\* Replaying the whole WAL over a snapshot and an index file that may be ahead of
\* both converges: the primary index is exact, and the secondary index has no entry
\* of an overwritten value, even when recover reads the record to replace through a pointer from before the table
\* file was rebuilt (as it does when it is interrupted and run again).
IndexesRecovered == pc = "idle" /\ Intact => mem.val = durable /\ mem.sec = Entries(durable)

\* No entry of the index leads into a table file that was replaced by Compact,
\* by readSnapshot or by Reset.
NoDanglingPointers == pc = "idle" /\ Intact => mem.stale = {} /\ disk = mem

\* The order of replay is determined: no two committed transactions in the WAL
\* have the same generation, although generations of failed ones are reused.
GenerationsDistinct ==
    Sound => \A t, u \in CommittedGroups(wal) : t.gen = u.gen => t.id = u.id

\* The first transaction that recover would replay clears the table, and there is no snapshot
\* that would have made an index file for it to truncate.
FirstClears ==
    /\ DOMAIN snapshots = {}
    /\ \E t \in CommittedGroups(ReadableRecords) :
          t.clear /\ \A u \in CommittedGroups(ReadableRecords) : t.gen <= u.gen

\* Open fails only when the WAL goes on behind a torn record, when it ends inside a magic
\* number, or when it begins with a clear and there is no snapshot.  No crash, in a commit,
\* in Compact or in an earlier Open, leads to any other state that cannot be opened.
OpenFailsOnly ==
    pc = "unopenable" =>
        \/ TornRecords \ {Len(wal)} # {}
        \/ TornTail /\ Last(wal).magic
        \/ FirstClears

\* A torn write at the end of the WAL is no error: with nothing behind it, and nothing
\* else that makes it fail, Open reads what is before it.
TornEndTolerated ==
    pc = "unopenable" /\ TornRecords = {Len(wal)} => FirstClears

\* What recover replays was never reported as failed, unless its COMMIT marker is in the
\* WAL all the same: written but not synced, or followed by an error in applying it.
FailedRecoveredOnly ==
    \A i \in DOMAIN todo : todo[i].id \in failed => todo[i].id \in indoubt
=============================================================================

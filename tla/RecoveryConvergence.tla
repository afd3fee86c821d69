------------------------- MODULE RecoveryConvergence --------------------------
(***************************************************************************)
(* Proofs about Recovery while it is Intact, that is, Sound and with every *)
(* scan of Compact exact: the database serves exactly the table that the   *)
(* transactions with a COMMIT marker made, with exact indexes and no       *)
(* pointer into a replaced table file, for any keys, values and number of  *)
(* transactions and crashes.  The argument is in SoundInv: the snapshot    *)
(* and the WAL determine the table (DurableInv), an index file holds       *)
(* nothing that is not in one of the two (DiskInv), and each group that    *)
(* Open replays settles its keys and leaves an index over which the        *)
(* remaining groups can be replayed (Converging).  What it says of the WAL *)
(* (LogInv) needs no exact scan.                                           *)
(***************************************************************************)
EXTENDS RecoveryProofs

\* The transaction says something of key k, and what it leaves there.
Touches(t, k) == t.clear \/ k \in t.deletes \/ t.inserts[k] # None \/ t.updates[k] # None
\* What the transaction leaves at key k, if it says something of it.
Effect(t, k) == IF t.inserts[k] # None THEN t.inserts[k] ELSE t.updates[k]

\* An insert that relies on the key not being there.
BareInsert(t, k) == ~t.clear /\ k \notin t.deletes /\ t.inserts[k] # None

\* What Staged leaves of a change set.
Shape(t) ==
    /\ t.clear => t.deletes = {} /\ t.updates = EmptyTable
    /\ \A k \in Keys : t.updates[k] # None => t.inserts[k] = None /\ k \notin t.deletes

\* The index of table m.
Exact(m) == [val |-> m, stale |-> {}, sec |-> Entries(m)]

\* The table that the WAL is replayed over.
Base == IF DOMAIN snapshots = {} THEN EmptyTable ELSE snapshots[LatestSnapshot]

\* The database is open: requests are served, a commit or Compact is under way.
Serving == Busy \/ pc \in {"idle", "snapshotted", "swapped", "emptied", "rebuilt"}

\* A torn record is the last one, and what is logged was staged.
LogShape ==
    /\ \A i \in DOMAIN wal : wal[i].type = "torn" => i = Len(wal)
    /\ \A r \in Logged : r.type = "mutations" => Shape(r.tx)

\* The transaction being written is in the WAL.
LogHead ==
    /\ pc = "logged" =>
          /\ Mutations(tx[1]) \in Logged
          /\ \A r \in Logged : r.type = "mutations" /\ r.tx.id = nextId => r.tx = tx[1]
    /\ pc \in {"marked", "cleared"} => tx[1] \in Committed

\* Committed transactions have different generations, up to the published one.
LogOrder ==
    /\ \A t, u \in Committed : t.gen = u.gen => t = u
    /\ Serving => \A t \in Committed :
          t.gen <= generation \/ (pc \in {"marked", "cleared"} /\ t = tx[1])
    /\ Replaying => \A t \in Committed : t \in Pending \/ t.gen <= generation

\* The committed transactions and the snapshot determine the table.
DurableInv ==
    \A k \in Keys :
        \/ \E t \in Committed : /\ Touches(t, k) /\ durable[k] = Effect(t, k)
                                /\ \A u \in Committed : Touches(u, k) => u.gen <= t.gen
        \/ (\A t \in Committed : ~Touches(t, k)) /\ durable[k] = Base[k]

\* A bare insert follows a transaction that left nothing, or a snapshot without the key,
\* unless the snapshot is younger than it.
HistoryInv ==
    \A k \in Keys : \A u \in Committed : BareInsert(u, k) =>
        /\ \A t \in Committed : t.gen < u.gen /\ Effect(t, k) # None =>
              \E v \in Committed : Touches(v, k) /\ t.gen < v.gen /\ v.gen < u.gen
        /\ Base[k] # None => \/ \E t \in Committed : Touches(t, k) /\ t.gen < u.gen
                             \/ \E t \in Committed : Effect(t, k) = Base[k]

\* The value at key k is from the snapshot or a committed transaction.
Known(k, w) == w = Base[k] \/ \E t \in Committed : Effect(t, k) = w

\* Whatever the index file holds came from the snapshot or a committed transaction.
DiskInv ==
    /\ \A k \in Keys : disk.val[k] # None => Known(k, disk.val[k])
    /\ \A w \in Values, k \in Keys : <<w, k>> \in disk.sec => Known(k, w)
    /\ disk.stale \subseteq Live(disk.val)

\* While the database serves, the index is exact but for the step in progress.
ServingInv ==
    /\ pc \in {"idle", "logged", "failed", "snapshotted", "rebuilt"} =>
          mem = Exact(durable) /\ disk = mem
    /\ pc \in {"logged", "failed", "marked"} => Staged(mem.val, tx[1])
    /\ pc = "marked" => mem = Exact(mem.val) /\ disk = mem /\ durable = After(mem.val, tx[1])
    /\ pc = "cleared" =>
          mem = EmptyIndex /\ disk = mem /\ tx[1].clear /\ durable = After(EmptyTable, tx[1])
    /\ pc \in {"snapshotted", "swapped", "emptied", "rebuilt"} => mem.val = durable /\ Base = durable

\* The index while the transactions of P are still to be replayed: keys they do not touch are
\* settled, pointers into replaced files are to keys they touch, and an entry of the secondary
\* index is one that they make, or the current one, which the next of them will remove.
Settled(P) ==
    \A k \in Keys : (\A t \in P : ~Touches(t, k)) =>
        mem.val[k] = durable[k] /\ (durable[k] # None => <<durable[k], k>> \in mem.sec)

\* Pointers into a replaced table file will be replaced.
Repointed(P) == \A k \in mem.stale : \E t \in P : Touches(t, k)
\* Every entry of the secondary index will be made anew, or is current and will be removed.
Explained(P) ==
    \A w \in Values, k \in Keys : <<w, k>> \in mem.sec =>
        \/ \E t \in P : Effect(t, k) = w
        \/ /\ mem.val[k] = w /\ k \notin mem.stale
           /\ \A v \in P : BareInsert(v, k) => \E x \in P : Touches(x, k) /\ x.gen < v.gen

\* Before the table file is reset, all that the index holds will be replayed.
Unreset(P) ==
    reset =>
        /\ DOMAIN snapshots = {}
        /\ \A w \in Values, k \in Keys : <<w, k>> \in mem.sec => \E t \in P : Effect(t, k) = w
        /\ \A k \in Keys : mem.val[k] # None => \E t \in P : Touches(t, k)

\* Replaying P, oldest first, ends with the exact index of the table.
Converging(P) == disk = mem /\ Settled(P) /\ Repointed(P) /\ Explained(P) /\ Unreset(P)

\* What is left to replay is the younger part of the committed transactions, in order.
Remaining ==
    /\ Pending \subseteq Committed
    /\ \A i, j \in DOMAIN todo : i < j => todo[i].gen < todo[j].gen
    /\ \A t \in Committed : t \in Pending \/ \A u \in Pending : t.gen < u.gen

\* Open is on its way to the exact index.
ReplayInv ==
    /\ pc = "restored" => Converging(Committed)
    /\ Replaying => Remaining /\ Converging(Pending)
    /\ pc = "replaycleared" => mem = EmptyIndex

\* What the WAL says.
LogInv == LogShape /\ LogHead /\ LogOrder
\* The inductive invariant of a sound database, on top of BaseInv.
SoundInv ==
    /\ Sound => LogInv
    /\ Intact => DurableInv /\ HistoryInv /\ DiskInv /\ ServingInv /\ ReplayInv

-----------------------------------------------------------------------------
\* What a transaction leaves at a key.
LEMMA AfterIs ==
  ASSUME NEW m, NEW t, NEW k \in Keys
  PROVE  After(m, t)[k] = IF Touches(t, k) THEN Effect(t, k) ELSE m[k]
  BY DEF After, Touches, Effect

\* A transaction that leaves a value says something of the key.
LEMMA EffectTouches ==
  ASSUME NEW t, NEW k, Effect(t, k) # None
  PROVE  Touches(t, k)
  BY DEF Effect, Touches

\* What can be staged is inserted, updated or deleted, and a clear stands alone with inserts.
LEMMA StagedShape ==
  ASSUME NEW m \in Table, NEW t \in Transactions, Staged(m, t)
  PROVE  Shape(t)
  <1>1. t.deletes \subseteq Keys /\ t.inserts \in Table /\ t.updates \in Table
    BY TransactionFields
  <1>2. ASSUME NEW k \in Keys, t.updates[k] # None PROVE t.inserts[k] = None /\ k \notin t.deletes
    <2>1. CASE t.clear
      BY <1>2, <2>1 DEF Staged, EmptyTable
    <2>2. CASE ~t.clear
      BY <1>2, <2>2 DEF Staged, Live
    <2> QED BY <2>1, <2>2
  <1> QED BY <1>2 DEF Shape, Staged

\* What shadowDelete does, key by key.
LEMMA DeleteIs ==
  ASSUME NEW index, NEW K, NEW old
  PROVE  /\ \A k \in Keys : shadowDelete(index, K, old).val[k] = IF k \in K THEN None ELSE index.val[k]
         /\ \A k : k \in shadowDelete(index, K, old).stale <=>
                k \in index.stale /\ ~(k \in K /\ k \in Live(index.val))
         /\ \A w, k : <<w, k>> \in shadowDelete(index, K, old).sec <=>
                <<w, k>> \in index.sec /\ ~(k \in K /\ k \in Live(index.val) /\ w = old[k])
  <1> DEFINE found == K \cap Live(index.val)
  <1>1. \A k \in Keys : k \in K /\ k \notin found => index.val[k] = None
    BY DEF Live
  <1>2. \A w, k : <<w, k>> \in {<<old[j], j>> : j \in found} <=> k \in found /\ w = old[k]
    OBVIOUS
  <1> QED BY <1>1, <1>2 DEF shadowDelete

\* The secondary index of a table, key by key.
LEMMA EntriesAre ==
  ASSUME NEW m
  PROVE  \A w, k : <<w, k>> \in Entries(m) <=> k \in Keys /\ m[k] # None /\ w = m[k]
  BY DEF Entries, Live

\* What shadowInsert does, key by key.
LEMMA InsertIs ==
  ASSUME NEW index, NEW m
  PROVE  /\ \A k \in Keys : shadowInsert(index, m).val[k] = IF m[k] # None THEN m[k] ELSE index.val[k]
         /\ \A k \in Keys : k \in shadowInsert(index, m).stale <=> k \in index.stale /\ m[k] = None
         /\ \A k \in Keys : \A w : <<w, k>> \in shadowInsert(index, m).sec <=>
                <<w, k>> \in index.sec \/ (m[k] # None /\ w = m[k])
  BY EntriesAre DEF shadowInsert, Live

\* What ApplyChanges does, key by key, for a change set that was staged.
Applied(new, index, t, old) ==
    \A k \in Keys :
        /\ new.val[k] = IF t.inserts[k] # None \/ t.updates[k] # None \/ k \in t.deletes
                        THEN Effect(t, k) ELSE index.val[k]
        /\ k \in new.stale <=>
              /\ k \in index.stale /\ t.inserts[k] = None /\ t.updates[k] = None
              /\ ~(k \in t.deletes /\ index.val[k] # None)
        /\ \A w : <<w, k>> \in new.sec <=>
              \/ Effect(t, k) # None /\ w = Effect(t, k)
              \/ /\ <<w, k>> \in index.sec
                 /\ ~(k \in t.deletes /\ index.val[k] # None /\ w = old[k])
                 /\ ~(t.updates[k] # None /\ index.val[k] # None /\ w = old[k])

\* ApplyChanges does what Applied says.
LEMMA ApplyIs ==
  ASSUME NEW index, NEW t \in Transactions, NEW old, Shape(t)
  PROVE  Applied(ApplyChanges(index, t, old), index, t, old)
  <1> DEFINE deleted == shadowDelete(index, t.deletes, old)
             inserted == shadowInsert(deleted, t.inserts)
             removed == shadowDelete(inserted, Live(t.updates), old)
             final == shadowInsert(removed, t.updates)
  <1>1. ApplyChanges(index, t, old) = final
    BY DEF ApplyChanges
  <1> SUFFICES ASSUME NEW k \in Keys
               PROVE  /\ final.val[k] =
                            IF t.inserts[k] # None \/ t.updates[k] # None \/ k \in t.deletes
                            THEN Effect(t, k) ELSE index.val[k]
                      /\ k \in final.stale <=>
                            /\ k \in index.stale /\ t.inserts[k] = None /\ t.updates[k] = None
                            /\ ~(k \in t.deletes /\ index.val[k] # None)
                      /\ \A w : <<w, k>> \in final.sec <=>
                            \/ Effect(t, k) # None /\ w = Effect(t, k)
                            \/ /\ <<w, k>> \in index.sec
                               /\ ~(k \in t.deletes /\ index.val[k] # None /\ w = old[k])
                               /\ ~(t.updates[k] # None /\ index.val[k] # None /\ w = old[k])
    BY <1>1 DEF Applied
  <1>2. /\ deleted.val[k] = IF k \in t.deletes THEN None ELSE index.val[k]
        /\ k \in deleted.stale <=> k \in index.stale /\ ~(k \in t.deletes /\ index.val[k] # None)
        /\ \A w : <<w, k>> \in deleted.sec <=>
              <<w, k>> \in index.sec /\ ~(k \in t.deletes /\ index.val[k] # None /\ w = old[k])
    BY DeleteIs DEF Live
  <1>3. /\ inserted.val[k] = IF t.inserts[k] # None THEN t.inserts[k] ELSE deleted.val[k]
        /\ k \in inserted.stale <=> k \in deleted.stale /\ t.inserts[k] = None
        /\ \A w : <<w, k>> \in inserted.sec <=>
              <<w, k>> \in deleted.sec \/ (t.inserts[k] # None /\ w = t.inserts[k])
    BY InsertIs
  <1>4. k \in Live(t.updates) <=> t.updates[k] # None
    BY DEF Live
  <1>5. /\ removed.val[k] = IF t.updates[k] # None THEN None ELSE inserted.val[k]
        /\ k \in removed.stale <=> k \in inserted.stale /\ ~(t.updates[k] # None /\ inserted.val[k] # None)
        /\ \A w : <<w, k>> \in removed.sec <=>
              <<w, k>> \in inserted.sec /\ ~(t.updates[k] # None /\ inserted.val[k] # None /\ w = old[k])
    <2> HIDE DEF inserted
    <2>1. k \in Live(inserted.val) <=> inserted.val[k] # None
      BY DEF Live
    <2> QED BY <1>4, <2>1, DeleteIs
  <1>6. /\ final.val[k] = IF t.updates[k] # None THEN t.updates[k] ELSE removed.val[k]
        /\ k \in final.stale <=> k \in removed.stale /\ t.updates[k] = None
        /\ \A w : <<w, k>> \in final.sec <=>
              <<w, k>> \in removed.sec \/ (t.updates[k] # None /\ w = t.updates[k])
    <2> HIDE DEF removed
    <2> QED BY InsertIs
  <1>7. t.updates[k] # None => t.inserts[k] = None /\ k \notin t.deletes
    BY DEF Shape
  <1> HIDE DEF deleted, inserted, removed, final
  <1> QED BY <1>2, <1>3, <1>5, <1>6, <1>7 DEF Effect

\* Two indexes that agree key by key are equal.
LEMMA IndexEqual ==
  ASSUME NEW a \in Index, NEW b \in Index,
         \A k \in Keys : /\ a.val[k] = b.val[k]
                         /\ k \in a.stale <=> k \in b.stale
                         /\ \A w : <<w, k>> \in a.sec <=> <<w, k>> \in b.sec
  PROVE  a = b
  <1>1. a.val = b.val
    BY IndexFields DEF Table
  <1>2. a.stale = b.stale
    BY IndexFields
  <1>3. a.sec = b.sec
    <2>1. \A e \in a.sec : e \in b.sec
      BY IndexFields
    <2>2. \A e \in b.sec : e \in a.sec
      BY IndexFields
    <2> QED BY <2>1, <2>2
  <1> QED BY <1>1, <1>2, <1>3 DEF Index

\* The exact index of a table, key by key.
LEMMA ExactIs ==
  ASSUME NEW m \in Table
  PROVE  /\ Exact(m) \in Index /\ Exact(m).val = m /\ Exact(m).stale = {}
         /\ \A k \in Keys : \A w : <<w, k>> \in Exact(m).sec <=> m[k] # None /\ w = m[k]
  <1>1. Exact(m) \in Index
    BY EntriesType, IndexFields DEF Exact
  <1> QED BY <1>1, EntriesAre DEF Exact

\* Commit makes the exact index of the new table from that of the old one.
LEMMA ExactApply ==
  ASSUME NEW m \in Table, NEW t \in Transactions, NEW old \in OldRecords(Exact(m)),
         Staged(m, t), t.clear => m = EmptyTable
  PROVE  ApplyChanges(Exact(m), t, old) = Exact(After(m, t))
  <1>1. Shape(t)
    BY StagedShape
  <1>2. \A k \in Keys : old[k] = m[k]
    BY ExactIs DEF OldRecords
  <1>3. After(m, t) \in Table
    BY AfterType
  <1>4. ApplyChanges(Exact(m), t, old) \in Index
    BY ExactIs, ApplyType
  <1>5. ASSUME NEW k \in Keys
        PROVE  /\ ApplyChanges(Exact(m), t, old).val[k] = Exact(After(m, t)).val[k]
               /\ k \in ApplyChanges(Exact(m), t, old).stale <=> k \in Exact(After(m, t)).stale
               /\ \A w : <<w, k>> \in ApplyChanges(Exact(m), t, old).sec <=> <<w, k>> \in Exact(After(m, t)).sec
    <2> DEFINE new == ApplyChanges(Exact(m), t, old)
               aft == After(m, t)
    <2>1. aft[k] = IF Touches(t, k) THEN Effect(t, k) ELSE m[k]
      BY AfterIs
    <2>2. /\ new.val[k] = IF t.inserts[k] # None \/ t.updates[k] # None \/ k \in t.deletes
                          THEN Effect(t, k) ELSE m[k]
          /\ k \notin new.stale
          /\ \A w : <<w, k>> \in new.sec <=>
                  \/ Effect(t, k) # None /\ w = Effect(t, k)
                  \/ /\ m[k] # None /\ w = m[k]
                     /\ ~(k \in t.deletes /\ m[k] # None /\ w = m[k])
                     /\ ~(t.updates[k] # None /\ m[k] # None /\ w = m[k])
      <3>1. Applied(new, Exact(m), t, old)
        BY <1>1, ApplyIs
      <3> HIDE DEF new
      <3> QED BY <1>2, <3>1, ExactIs DEF Applied
    <2>3. /\ Exact(aft).val[k] = aft[k] /\ k \notin Exact(aft).stale
          /\ \A w : <<w, k>> \in Exact(aft).sec <=> aft[k] # None /\ w = aft[k]
      BY <1>3, ExactIs
    <2>4. t.clear => m[k] = None
      BY DEF EmptyTable
    <2>5. ~t.clear /\ t.inserts[k] # None /\ m[k] # None => k \in t.deletes
      BY DEF Staged, Live
    <2>6. t.clear => k \notin t.deletes /\ t.updates[k] = None
      BY DEF Staged, EmptyTable
    <2> HIDE DEF new, aft
    <2>7. new.val[k] = aft[k]
      BY <2>1, <2>2, <2>4, <2>6 DEF Touches, Effect
    <2>8. \A w : <<w, k>> \in new.sec <=> aft[k] # None /\ w = aft[k]
      <3>1. CASE t.clear
        BY <3>1, <2>1, <2>2, <2>4 DEF Touches
      <3>2. CASE ~t.clear
        BY <3>2, <2>1, <2>2, <2>5 DEF Touches, Effect
      <3> QED BY <3>1, <3>2
    <2>9. /\ new.val[k] = Exact(aft).val[k]
          /\ k \in new.stale <=> k \in Exact(aft).stale
          /\ \A w : <<w, k>> \in new.sec <=> <<w, k>> \in Exact(aft).sec
      BY <2>2, <2>3, <2>7, <2>8
    <2> QED BY <2>9 DEF new, aft
  <1> QED BY <1>3, <1>4, <1>5, ExactIs, IndexEqual

\* Compact makes the exact index of the table it has kept.
LEMMA ExactRebuild ==
  ASSUME NEW m \in Table
  PROVE  shadowInsert(EmptyIndex, m) = Exact(m)
  <1>1. shadowInsert(EmptyIndex, m) \in Index /\ Exact(m) \in Index
    BY EmptyTypes, InsertType, ExactIs
  <1>2. ASSUME NEW k \in Keys
        PROVE  /\ shadowInsert(EmptyIndex, m).val[k] = Exact(m).val[k]
               /\ k \in shadowInsert(EmptyIndex, m).stale <=> k \in Exact(m).stale
               /\ \A w : <<w, k>> \in shadowInsert(EmptyIndex, m).sec <=> <<w, k>> \in Exact(m).sec
    BY InsertIs, ExactIs DEF EmptyIndex, EmptyTable
  <1> QED BY <1>1, <1>2, IndexEqual

\* damaged changes only where the WAL is written to.
LEMMA DamagedFrame ==
  ASSUME [Next]_vars
  PROVE  \/ UNCHANGED <<wal, damaged>>
         \/ TruncateWal /\ UNCHANGED damaged
         \/ \E records : AppendWal(records)
  BY DEF Next, Commit, Compact, Open, Writes, WriteMutations, WriteMutationsFails, NewTransaction,
     ProcessGone, vars, fileVars, processVars, ghostVars, AppendRollbackMarker, WriteCommitMarker,
     WriteCommitMarkerFails, AppendRecordsFails, WriteRollbackMarker, ApplyClear, ApplyClearFails,
     ApplyFails, CommitFails, ApplyAndPublish, Lookup, writeSnapshot, CompactStorage, CompactClearIndex,
     CompactRebuildIndex, TruncateWal, Crash, CrashInWrite, BackupAndRestore, RenameTableFile,
     readSnapshot, NoSnapshot, ReadAllRecords, ReadAllRecordsFails, ReplayClear, ReplayClearFails,
     ReplayGroup, Opened

\* What Open and the writer may do to soundness: it is lost, never regained.
LEMMA SoundBefore ==
  ASSUME BaseInv, [Next]_vars, Sound'
  PROVE  Sound
  <1>1. indoubt \subseteq indoubt'
    BY Frames DEF AppendRollbackMarker, WriteCommitMarkerFails, WriteRollbackMarker,
       ApplyClearFails, ApplyFails, CommitFails
  <1>2. CASE UNCHANGED damaged
    BY <1>1, <1>2 DEF Sound
  <1>3. CASE \E records : AppendWal(records)
    BY <1>1, <1>3 DEF Sound, AppendWal
  <1> QED BY <1>2, <1>3, DamagedFrame

\* A wrong scan is never forgotten.
LEMMA MisreadStays ==
  ASSUME [Next]_vars, ~misread'
  PROVE  ~misread
  BY DEF Next, Commit, Compact, Open, Writes, WriteMutations, WriteMutationsFails, NewTransaction,
     ProcessGone, vars, fileVars, processVars, ghostVars, AppendRollbackMarker, WriteCommitMarker,
     WriteCommitMarkerFails, AppendRecordsFails, WriteRollbackMarker, ApplyClear, ApplyClearFails,
     ApplyFails, CommitFails, ApplyAndPublish, Lookup, writeSnapshot, CompactStorage,
     CompactClearIndex, CompactRebuildIndex, TruncateWal, Crash, CrashInWrite, BackupAndRestore,
     RenameTableFile, readSnapshot, NoSnapshot, ReadAllRecords, ReadAllRecordsFails, ReplayClear,
     ReplayClearFails, ReplayGroup, Opened

\* Nothing is written behind a torn record.
LEMMA CleanTail ==
  ASSUME BaseInv, [Next]_vars, Sound', wal' # wal
  PROVE  TruncateWal \/ ~TornTail
  <1>1. CASE \E records : AppendWal(records)
    <2>1. PICK records : AppendWal(records)
      BY <1>1
    <2>2. records # <<>>
      BY <2>1 DEF BaseInv, Types, AppendWal
    <2> QED BY <2>1, <2>2 DEF Sound, AppendWal
  <1> QED BY <1>1, DamagedFrame

\* A step leaves the WAL alone, empties it, or adds one record to it.
LEMMA AppendedOrNot ==
  ASSUME BaseInv, [Next]_vars
  PROVE  \/ wal' = wal
         \/ TruncateWal
         \/ \E x \in Records : wal' = wal \o <<x>>
  <1>1. \A t \in ChangeSets : {Mutations(t)} \cup TornParts \subseteq Records
    BY MarkerTyped, TornTyped
  <1>2. {Marker("rollback", nextId + 1)} \cup TornParts \subseteq Records
    BY MarkerTyped, TornTyped
  <1>3. Busy => {Marker("rollback", tx[1].id)} \cup TornParts \subseteq Records /\
                {Marker("commit", tx[1].id)} \cup TornParts \subseteq Records
    BY MarkerTyped, TornTyped
  <1>4. TornParts \subseteq Records
    BY TornTyped
  <1>5. \A X : X \subseteq Records /\ Adds(X) => wal' = wal \/ \E x \in Records : wal' = wal \o <<x>>
    BY DEF Adds
  <1>6. WriteCommitMarker \/ WriteCommitMarkerFails \/ WriteRollbackMarker => Busy
    BY DEF WriteCommitMarker, WriteCommitMarkerFails, WriteRollbackMarker, Busy
  <1>7. ASSUME NEW t \in ChangeSets, Writes(t) PROVE wal' = wal \/ \E x \in Records : wal' = wal \o <<x>>
    BY <1>7, <1>1, <1>5, WalChanges
  <1>8. AppendRollbackMarker => wal' = wal \/ \E x \in Records : wal' = wal \o <<x>>
    BY <1>2, <1>5, WalChanges
  <1>9. WriteCommitMarkerFails \/ WriteRollbackMarker => wal' = wal \/ \E x \in Records : wal' = wal \o <<x>>
    BY <1>3, <1>5, <1>6, WalChanges
  <1>10. WriteCommitMarker => \E x \in Records : wal' = wal \o <<x>>
    BY <1>3, <1>6, WalChanges
  <1>11. CrashInWrite => wal' = wal \/ \E x \in Records : wal' = wal \o <<x>>
    BY <1>4, <1>5, WalChanges
  <1> QED BY <1>7, <1>8, <1>9, <1>10, <1>11, Frames

\* Committed groups are transactions.
LEMMA CommittedFields ==
  ASSUME BaseInv
  PROVE  Committed \subseteq Transactions
  <1>1. \A r \in Logged : r.type = "mutations" => r.tx \in Transactions
    BY LoggedRecords, RecordFields DEF BaseInv, Types
  <1> QED BY <1>1, CommittedIs

\* CommittedIs after a step.
LEMMA CommittedIsNext ==
  \A t : t \in Committed' <=>
     /\ \E r \in Logged' : r.type = "mutations" /\ r.tx = t
     /\ \E r \in Logged' : r.type = "commit" /\ r.id = t.id
     /\ \A r \in Logged' : ~(r.type = "rollback" /\ r.id = t.id)
  BY DEF Committed, CommittedGroups, Logged

\* A record that is no marker, or the marker of a transaction without a COMMIT marker, commits nothing.
LEMMA CommittedSame ==
  ASSUME BaseInv, NEW x \in Records, wal' = wal \o <<x>>,
         x.type = "mutations" => \A r \in Logged : r.type = "commit" => r.id # x.tx.id,
         x.type # "commit",
         x.type = "rollback" => \A r \in Logged : r.type = "commit" => r.id # x.id
  PROVE  Committed' = Committed
  <1>1. Logged' = Logged \cup {x}
    BY Appended DEF BaseInv, Types
  <1>2. \A t : t \in Committed' <=>
           /\ \E r \in Logged' : r.type = "mutations" /\ r.tx = t
           /\ \E r \in Logged' : r.type = "commit" /\ r.id = t.id
           /\ \A r \in Logged' : ~(r.type = "rollback" /\ r.id = t.id)
    BY CommittedIsNext
  <1>3. ASSUME NEW t \in Committed PROVE t \in Committed'
    BY <1>1, <1>2, CommittedIs
  <1>4. ASSUME NEW t \in Committed' PROVE t \in Committed
    <2>1. PICK r \in Logged' : r.type = "mutations" /\ r.tx = t
      BY <1>2
    <2>2. PICK c \in Logged : c.type = "commit" /\ c.id = t.id
      BY <1>1, <1>2
    <2>3. r # x
      BY <2>1, <2>2
    <2>4. \A q \in Logged : ~(q.type = "rollback" /\ q.id = t.id)
      BY <1>1, <1>2
    <2> QED BY <1>1, <2>1, <2>2, <2>3, <2>4, CommittedIs
  <1> QED BY <1>3, <1>4

\* The COMMIT marker commits the transaction that is being written and no other.
LEMMA CommittedOne ==
  ASSUME BaseInv, LogHead, WriteCommitMarker
  PROVE  Committed' = Committed \cup {tx[1]}
  <1> DEFINE x == Marker("commit", tx[1].id)
  <1>1. x \in Records /\ x.type = "commit" /\ x.id = tx[1].id /\ tx[1].id = nextId
    BY MarkerTyped, BusyType DEF WriteCommitMarker, Busy
  <1>2. Logged' = Logged \cup {x}
    BY <1>1, WalChanges, Appended DEF BaseInv, Types
  <1>3. \A t : t \in Committed' <=>
           /\ \E r \in Logged' : r.type = "mutations" /\ r.tx = t
           /\ \E r \in Logged' : r.type = "commit" /\ r.id = t.id
           /\ \A r \in Logged' : ~(r.type = "rollback" /\ r.id = t.id)
    BY CommittedIsNext
  <1>4. /\ Mutations(tx[1]) \in Logged
        /\ \A r \in Logged : r.type = "mutations" /\ r.tx.id = nextId => r.tx = tx[1]
        /\ \A r \in Logged : r.type \in {"commit", "rollback"} => r.id # nextId
    BY DEF WriteCommitMarker, LogHead, BaseInv, Writing
  <1>5. Mutations(tx[1]).type = "mutations" /\ Mutations(tx[1]).tx = tx[1]
    BY DEF Mutations
  <1> HIDE DEF x
  <1>6. tx[1] \in Committed'
    BY <1>1, <1>2, <1>3, <1>4, <1>5
  <1>7. ASSUME NEW t \in Committed PROVE t \in Committed'
    BY <1>1, <1>2, <1>3, CommittedIs
  <1>8. ASSUME NEW t \in Committed', t # tx[1] PROVE t \in Committed
    <2>1. PICK r \in Logged : r.type = "mutations" /\ r.tx = t
      BY <1>1, <1>2, <1>3
    <2>2. t.id # nextId
      BY <1>4, <1>8, <2>1
    <2>3. \E c \in Logged : c.type = "commit" /\ c.id = t.id
      BY <1>1, <1>2, <1>3, <2>2
    <2>4. \A q \in Logged : ~(q.type = "rollback" /\ q.id = t.id)
      BY <1>2, <1>3
    <2> QED BY <2>1, <2>3, <2>4, CommittedIs
  <1> QED BY <1>6, <1>7, <1>8

\* How the set of committed transactions changes.
LEMMA CommittedSteps ==
  ASSUME BaseInv, LogHead, [Next]_vars, Sound'
  PROVE  \/ Committed' = Committed
         \/ WriteCommitMarker /\ Committed' = Committed \cup {tx[1]}
         \/ TruncateWal /\ Committed' = {}
  <1>a. nextId \in Nat /\ (Busy => tx[1].id = nextId) /\ wal \in Seq(Records) /\ WalIds
    BY BusyType, RecoveryAssumption DEF BaseInv, Types
  <1>b. \A r \in Logged : r.type = "commit" => r.id # nextId + 1
    BY <1>a DEF WalIds
  <1>c. \A x \in TornParts : wal' = wal \o <<x>> => Committed' = Committed
    BY TornTyped, CommittedSame
  <1>d. wal' = wal => Committed' = Committed
    BY DEF Committed
  <1>1. ASSUME NEW t \in ChangeSets, Writes(t) PROVE Committed' = Committed
    <2>1. t.id = nextId + 1
      BY <1>1 DEF Writes, WriteMutations, WriteMutationsFails, NewTransaction
    <2>2. wal' = wal \o <<Mutations(t)>> => Committed' = Committed
      BY <1>b, <2>1, MarkerTyped, CommittedSame
    <2> QED BY <1>1, <1>c, <1>d, <2>2, WalChanges DEF Adds
  <1>2. ASSUME AppendRollbackMarker PROVE Committed' = Committed
    <2>1. wal' = wal \o <<Marker("rollback", nextId + 1)>> => Committed' = Committed
      BY <1>b, MarkerTyped, CommittedSame
    <2> QED BY <1>2, <1>c, <1>d, <2>1, WalChanges DEF Adds
  <1>3. ASSUME WriteRollbackMarker PROVE Committed' = Committed
    <2>1. pc = "failed" /\ Busy
      BY <1>3 DEF WriteRollbackMarker, Busy
    <2>2. \A r \in Logged : r.type = "commit" => r.id # tx[1].id
      BY <1>a, <2>1 DEF BaseInv, Writing
    <2>3. wal' = wal \o <<Marker("rollback", tx[1].id)>> => Committed' = Committed
      BY <2>1, <2>2, MarkerTyped, CommittedSame
    <2> QED BY <1>3, <1>c, <1>d, <2>3, WalChanges DEF Adds
  <1>4. ASSUME WriteCommitMarkerFails PROVE Committed' = Committed
    <2>1. Adds(TornParts)
      BY <1>4, MarkerFailure DEF Sound
    <2> QED BY <1>c, <1>d, <2>1 DEF Adds
  <1>5. ASSUME CrashInWrite PROVE Committed' = Committed
    BY <1>5, <1>c, <1>d, WalChanges DEF Adds
  <1>6. ASSUME TruncateWal PROVE Committed' = {}
    BY <1>6 DEF TruncateWal, Committed, CommittedGroups
  <1> QED BY <1>d, <1>1, <1>2, <1>3, <1>4, <1>5, <1>6, CommittedOne, Frames

\* How control arrives, and what writes the index file.
LEMMA ControlFrames ==
  ASSUME [Next]_vars
  PROVE  /\ pc' = "logged" => UNCHANGED vars \/ \E t \in ChangeSets : WriteMutations(t)
         /\ pc' \in {"marked", "cleared"} => UNCHANGED vars \/ WriteCommitMarker \/ ApplyClear
         /\ Replaying' => UNCHANGED vars \/ ReadAllRecords \/ ReplayClear \/ ReplayGroup
         /\ Serving' => UNCHANGED vars \/ Opened \/ ApplyAndPublish \/ WriteCommitMarker \/
            ApplyClear \/ ApplyClearFails \/ ApplyFails \/ (Serving /\ pc \notin {"marked", "cleared"} /\
            generation' = generation)
         /\ pc' = "restored" => UNCHANGED vars \/ readSnapshot \/ NoSnapshot
         /\ pc' = "failed" => UNCHANGED vars \/ AppendRecordsFails \/ \E t \in ChangeSets :
            WriteMutationsFails(t)
         /\ UNCHANGED disk \/ ApplyClear \/ ApplyClearFails \/ ApplyFails \/ ApplyAndPublish \/ CompactStorage \/ CompactClearIndex
            \/ CompactRebuildIndex \/ BackupAndRestore \/ RenameTableFile \/ readSnapshot \/
            ReplayClear \/ ReplayGroup
  <1> USE DEF Next, Commit, Compact, Open, Writes, WriteMutations, WriteMutationsFails,
         NewTransaction, ProcessGone, vars, fileVars, processVars, ghostVars,
         AppendRollbackMarker, WriteCommitMarker, WriteCommitMarkerFails, AppendRecordsFails,
         WriteRollbackMarker, ApplyClear, ApplyClearFails, ApplyFails, CommitFails, ApplyAndPublish, Lookup, writeSnapshot,
         CompactStorage, CompactClearIndex, CompactRebuildIndex, TruncateWal, Crash, CrashInWrite,
         BackupAndRestore, RenameTableFile, readSnapshot, NoSnapshot, ReadAllRecords,
         ReadAllRecordsFails, ReplayClear, ReplayClearFails, ReplayGroup, Opened, Replaying,
         Serving, Busy
  <1>1. pc' = "logged" => UNCHANGED vars \/ \E t \in ChangeSets : WriteMutations(t)
    OBVIOUS
  <1>2. pc' \in {"marked", "cleared"} => UNCHANGED vars \/ WriteCommitMarker \/ ApplyClear
    OBVIOUS
  <1>3. Replaying' => UNCHANGED vars \/ ReadAllRecords \/ ReplayClear \/ ReplayGroup
    OBVIOUS
  <1>4. Serving' => UNCHANGED vars \/ Opened \/ ApplyAndPublish \/ WriteCommitMarker \/ ApplyClear
        \/ ApplyClearFails \/ ApplyFails \/ (Serving /\ pc \notin {"marked", "cleared"} /\ generation' =
        generation)
    OBVIOUS
  <1>5. pc' = "restored" => UNCHANGED vars \/ readSnapshot \/ NoSnapshot
    OBVIOUS
  <1>6. pc' = "failed" => UNCHANGED vars \/ AppendRecordsFails \/ \E t \in ChangeSets :
        WriteMutationsFails(t)
    OBVIOUS
  <1>7. UNCHANGED disk \/ ApplyClear \/ ApplyClearFails \/ ApplyFails \/ ApplyAndPublish \/ CompactStorage \/ CompactClearIndex \/
        CompactRebuildIndex \/ BackupAndRestore \/ RenameTableFile \/ readSnapshot \/ ReplayClear \/
        ReplayGroup
    OBVIOUS
  <1> QED BY <1>1, <1>2, <1>3, <1>4, <1>5, <1>6, <1>7

\* With a torn record at most at the end, recover finds every committed transaction.
LEMMA ReadsAll ==
  ASSUME BaseInv, LogShape
  PROVE  CommittedGroups(ReadableRecords) = Committed
  <1>a. wal \in Seq(Records) /\ Len(wal) \in Nat /\ DOMAIN wal = 1..Len(wal)
    BY DEF BaseInv, Types
  <1>1. CASE TornRecords = {}
    BY <1>a, <1>1, ReadablePrefix DEF Committed
  <1>2. CASE TornRecords # {}
    <2> DEFINE n == Len(wal) - 1
               s == SubSeq(wal, 1, n)
               S == {i \in DOMAIN wal : \A j \in TornRecords : i < j}
    <2>1. TornRecords = {Len(wal)} /\ Len(wal) \in DOMAIN wal /\ wal[Len(wal)].type = "torn"
      BY <1>2 DEF TornRecords, LogShape
    <2>2. n \in Nat /\ S = 1..n
      BY <1>a, <2>1
    <2>3. Cardinality(S) = n
      <3> HIDE DEF S, n
      <3> QED BY <2>2, FS_Interval
    <2>4. ReadableRecords = s
      BY <2>3 DEF ReadableRecords
    <2>5. DOMAIN s = 1..n /\ \A i \in 1..n : s[i] = wal[i]
      BY <1>a, <2>2
    <2>6. \A i \in DOMAIN wal : i \in 1..n \/ i = Len(wal)
      BY <1>a, <2>2
    <2>7. \A i \in 1..n : i \in DOMAIN wal
      BY <1>a, <2>2
    <2> HIDE DEF s, n, S
    <2>8. CommittedGroups(s) = CommittedGroups(wal)
      <3>1. \A P : (\E i \in DOMAIN wal : wal[i].type = "commit" /\ wal[i].id = P)
                    <=> (\E i \in DOMAIN s : s[i].type = "commit" /\ s[i].id = P)
        BY <2>1, <2>5, <2>6, <2>7
      <3>2. \A P : (\E i \in DOMAIN wal : wal[i].type = "rollback" /\ wal[i].id = P)
                    <=> (\E i \in DOMAIN s : s[i].type = "rollback" /\ s[i].id = P)
        BY <2>1, <2>5, <2>6, <2>7
      <3>3. \A t : (\E i \in DOMAIN wal : wal[i].type = "mutations" /\ wal[i].tx = t)
                    <=> (\E i \in DOMAIN s : s[i].type = "mutations" /\ s[i].tx = t)
        BY <2>1, <2>5, <2>6, <2>7
      <3>4. \A q, t : t \in CommittedGroups(q) <=>
               /\ \E i \in DOMAIN q : q[i].type = "mutations" /\ q[i].tx = t
               /\ \E i \in DOMAIN q : q[i].type = "commit" /\ q[i].id = t.id
               /\ ~ \E i \in DOMAIN q : q[i].type = "rollback" /\ q[i].id = t.id
        BY DEF CommittedGroups
      <3>5. ASSUME NEW t PROVE t \in CommittedGroups(s) <=> t \in CommittedGroups(wal)
        <4>1. t \in CommittedGroups(s) <=>
               /\ \E i \in DOMAIN s : s[i].type = "mutations" /\ s[i].tx = t
               /\ \E i \in DOMAIN s : s[i].type = "commit" /\ s[i].id = t.id
               /\ ~ \E i \in DOMAIN s : s[i].type = "rollback" /\ s[i].id = t.id
          BY <3>4
        <4>2. t \in CommittedGroups(wal) <=>
               /\ \E i \in DOMAIN wal : wal[i].type = "mutations" /\ wal[i].tx = t
               /\ \E i \in DOMAIN wal : wal[i].type = "commit" /\ wal[i].id = t.id
               /\ ~ \E i \in DOMAIN wal : wal[i].type = "rollback" /\ wal[i].id = t.id
          BY <3>4
        <4> QED BY <4>1, <4>2, <3>1, <3>2, <3>3
      <3> QED
        <4> HIDE DEF s
        <4>1. CommittedGroups(s) \subseteq CommittedGroups(wal)
          BY <3>5
        <4>2. CommittedGroups(wal) \subseteq CommittedGroups(s)
          BY <3>5
        <4> QED BY <4>1, <4>2
    <2> QED BY <2>4, <2>8 DEF Committed
  <1> QED BY <1>1, <1>2

\* ReadAllRecords starts the replay of every committed transaction, oldest first.
LEMMA ReadsCommitted ==
  ASSUME BaseInv, LogShape, ReadAllRecords
  PROVE  /\ Pending' = Committed
         /\ \A i, j \in DOMAIN todo' : i # j => todo'[i] # todo'[j]
         /\ \A i, j \in DOMAIN todo' : i < j => todo'[i].gen <= todo'[j].gen
  <1>1. wal \in Seq(Records)
    BY DEF BaseInv, Types
  <1>2. PICK n \in 0..Len(wal) : ReadableRecords = SubSeq(wal, 1, n)
    BY <1>1, ReadablePrefix
  <1>3. ReadableRecords \in Seq(Records)
    BY <1>1, <1>2
  <1>4. todo' \in ReplayOrders(ReadableRecords)
    BY DEF ReadAllRecords
  <1> QED BY <1>3, <1>4, OrderExact, ReadsAll DEF Pending

\* A sound WAL stays well shaped.
LEMMA LogShapeKept ==
  ASSUME BaseInv, LogShape, [Next]_vars, Sound'
  PROVE  LogShape'
  <1>a. wal \in Seq(Records) /\ mem \in Index
    BY DEF BaseInv, Types
  <1>1. \A i \in DOMAIN wal' : wal'[i].type = "torn" => i = Len(wal')
    <2>1. CASE wal' = wal
      BY <2>1 DEF LogShape
    <2>2. CASE TruncateWal
      BY <2>2 DEF TruncateWal
    <2>3. ASSUME NEW x \in Records, wal' = wal \o <<x>>, ~TruncateWal
          PROVE  \A i \in DOMAIN wal' : wal'[i].type = "torn" => i = Len(wal')
      <3>1. wal' # wal
        BY <1>a, <2>3
      <3>2. ~TornTail
        BY <2>3, <3>1, CleanTail
      <3>3. \A i \in DOMAIN wal : wal[i].type # "torn"
        BY <1>a, <3>2 DEF TornTail, LogShape, Last
      <3> QED BY <1>a, <2>3, <3>3, Appended
    <2> QED BY <2>1, <2>2, <2>3, AppendedOrNot
  <1>2. \A r \in Logged' : r.type = "mutations" => Shape(r.tx)
    <2>1. \A r \in Logged : r.type = "mutations" => Shape(r.tx)
      BY DEF LogShape
    <2>2. ASSUME NEW t \in ChangeSets, Writes(t) PROVE Mutations(t).tx = t /\ Shape(t)
      <3>1. Staged(mem.val, t)
        BY <2>2 DEF Writes, WriteMutations, WriteMutationsFails, NewTransaction
      <3>2. mem.val \in Table
        BY <1>a, IndexFields
      <3> QED BY <3>1, <3>2, StagedShape, ChangeSetType DEF Mutations
    <2>3. \A r \in TornParts : r.type # "mutations"
      BY TornTyped
    <2>4. \A kind, n : kind # "mutations" => Marker(kind, n).type # "mutations"
      BY DEF Marker
    <2> QED BY <2>1, <2>2, <2>3, <2>4, LoggedAfter
  <1> QED BY <1>1, <1>2 DEF LogShape

\* The transaction being written stays in the WAL until it is applied.
LEMMA LogHeadKept ==
  ASSUME BaseInv, LogHead, [Next]_vars, Sound'
  PROVE  LogHead'
  <1>a. wal \in Seq(Records) /\ nextId \in Nat /\ WalIds
    BY RecoveryAssumption DEF BaseInv, Types
  <1>1. CASE UNCHANGED vars
    <2>1. Logged' = Logged /\ Committed' = Committed /\ UNCHANGED <<pc, tx, nextId>>
      BY <1>1 DEF vars, fileVars, processVars, ghostVars, Logged, Committed
    <2> QED BY <2>1 DEF LogHead, Mutations
  <1>2. ASSUME NEW t \in ChangeSets, WriteMutations(t) PROVE LogHead'
    <2>1. tx' = <<t>> /\ nextId' = nextId + 1 /\ t.id = nextId + 1 /\ pc' = "logged"
      BY <1>2 DEF WriteMutations, NewTransaction
    <2>2. wal' = wal \o <<Mutations(t)>>
      BY <1>2 DEF WriteMutations, AppendWal, Mutations
    <2>3. Logged' = Logged \cup {Mutations(t)}
      BY <1>a, <2>2, MarkerTyped, Appended
    <2>4. tx'[1] = t
      BY <2>1
    <2>5. \A r \in Logged' : r.type = "mutations" /\ r.tx.id = nextId' => r.tx = tx'[1]
      <3>1. \A r \in Logged : r.type = "mutations" => r.tx.id # nextId + 1
        BY <1>a DEF WalIds
      <3> QED BY <2>1, <2>3, <2>4, <3>1 DEF Mutations
    <2>6. Mutations(tx[1])' = Mutations(t)
      BY <2>4 DEF Mutations
    <2> QED BY <2>1, <2>3, <2>5, <2>6 DEF LogHead
  <1>3. CASE WriteCommitMarker
    BY <1>3, CommittedOne DEF WriteCommitMarker, LogHead
  <1>4. CASE ApplyClear
    <2>1. Committed' = Committed
      BY <1>4 DEF ApplyClear, Committed
    <2> QED BY <1>4, <2>1 DEF ApplyClear, LogHead
  <1>5. CASE pc' \notin {"logged", "marked", "cleared"}
    BY <1>5 DEF LogHead
  <1> QED BY <1>1, <1>2, <1>3, <1>4, <1>5, ControlFrames

\* Replaying a group takes it from what is left.
LEMMA PendingStep ==
  ASSUME BaseInv, ReplayGroup
  PROVE  /\ todo # <<>> /\ Head(todo) \in Pending /\ Head(todo) = todo[1] /\ todo \in Seq(Transactions)
         /\ todo' = Tail(todo)
         /\ Pending \subseteq Pending' \cup {Head(todo)} /\ Pending' \subseteq Pending
         /\ \A i \in DOMAIN todo' :
               i + 1 \in DOMAIN todo /\ todo'[i] = todo[i + 1]
         /\ Pending \subseteq Transactions
  <1>1. todo # <<>> /\ todo \in Seq(Transactions) /\ todo' = Tail(todo)
    BY DEF BaseInv, Types, Replays, ReplayGroup
  <1>2. \A i \in DOMAIN todo' :
               i + 1 \in DOMAIN todo /\ todo'[i] = todo[i + 1]
    BY <1>1
  <1>3. \A i \in DOMAIN todo : i = 1 \/ (i - 1 \in DOMAIN todo' /\ todo'[i - 1] = todo[i])
    BY <1>1
  <1>4. Head(todo) = todo[1] /\ 1 \in DOMAIN todo
    BY <1>1
  <1>5. Head(todo) \in Pending
    BY <1>4 DEF Pending
  <1>6. Pending \subseteq Pending' \cup {Head(todo)}
    BY <1>3, <1>4 DEF Pending
  <1>7. Pending' \subseteq Pending
    BY <1>2 DEF Pending
  <1>8. Pending \subseteq Transactions
    BY <1>1 DEF Pending
  <1> QED BY <1>1, <1>2, <1>4, <1>5, <1>6, <1>7, <1>8

\* A committed transaction gets a generation of its own.
LEMMA LogOrderKept ==
  ASSUME BaseInv, LogHead, LogShape, LogOrder, [Next]_vars, Sound'
  PROVE  LogOrder'
  <1>a. generation \in Nat /\ Committed \subseteq Transactions /\ \A t \in Transactions : t.gen \in Nat
    BY RecoveryAssumption, CommittedFields, TransactionFields DEF BaseInv, Types
  <1>b. Busy => tx[1].gen = generation + 1
    BY DEF BaseInv, Writing
  <1>c. UNCHANGED vars => Committed' = Committed /\ Pending' = Pending
    BY DEF vars, fileVars, processVars, Committed, Pending
  <1>d. ASSUME WriteCommitMarker
        PROVE  /\ Committed' = Committed \cup {tx[1]} /\ tx[1].gen = generation + 1
               /\ \A t \in Committed : t.gen <= generation
    BY <1>b, <1>d, CommittedOne DEF WriteCommitMarker, Busy, Serving, LogOrder
  <1>1. \A t, u \in Committed' : t.gen = u.gen => t = u
    <2>1. CASE Committed' = Committed
      BY <2>1 DEF LogOrder
    <2>2. CASE WriteCommitMarker
      BY <1>a, <1>d, <2>2 DEF LogOrder
    <2>3. CASE Committed' = {}
      BY <2>3
    <2> QED BY <2>1, <2>2, <2>3, CommittedSteps
  <1>2. ASSUME Serving', NEW t \in Committed'
        PROVE  t.gen <= generation' \/ (pc' \in {"marked", "cleared"} /\ t = tx'[1])
    <2>1. CASE UNCHANGED vars
      <3>1. Serving /\ t \in Committed /\ UNCHANGED <<generation, pc, tx>>
        BY <1>2, <1>c, <2>1 DEF vars, processVars, Serving, Busy
      <3> QED BY <3>1 DEF LogOrder
    <2>2. CASE Opened
      <3>1. Committed' = Committed /\ Pending = {} /\ Replaying /\ generation' = generation
        BY <2>2 DEF Opened, fileVars, Committed, Pending, Replaying
      <3> QED BY <1>2, <3>1 DEF LogOrder
    <2>3. CASE ApplyAndPublish
      <3>1. Committed' = Committed /\ Serving /\ Busy /\ generation' = tx[1].gen
        BY <2>3 DEF ApplyAndPublish, Committed, Serving, Busy
      <3>2. t.gen <= generation \/ t = tx[1]
        BY <1>2, <3>1 DEF LogOrder
      <3> QED BY <1>2, <1>a, <1>b, <3>1, <3>2
    <2>4. CASE WriteCommitMarker
      BY <1>2, <1>d, <2>4 DEF WriteCommitMarker
    <2>5. CASE ApplyClear
      <3>1. Committed' = Committed /\ Serving /\ UNCHANGED <<generation, tx>> /\ pc' = "cleared"
        BY <2>5 DEF ApplyClear, Committed, Serving, Busy
      <3> QED BY <1>2, <3>1 DEF LogOrder
    <2>6. CASE ApplyClearFails \/ ApplyFails
      BY <2>6 DEF ApplyClearFails, ApplyFails, CommitFails, Sound
    <2>7. CASE Serving /\ pc \notin {"marked", "cleared"} /\ generation' = generation /\ ~WriteCommitMarker
      <3>1. t \in Committed
        BY <1>2, <2>7, CommittedSteps
      <3> QED BY <2>7, <3>1 DEF LogOrder
    <2> QED BY <1>2, <2>1, <2>2, <2>3, <2>4, <2>5, <2>6, <2>7, ControlFrames
  <1>3. ASSUME Replaying', NEW t \in Committed' PROVE t \in Pending' \/ t.gen <= generation'
    <2>1. CASE UNCHANGED vars
      BY <1>3, <1>c, <2>1 DEF vars, processVars, Replaying, LogOrder
    <2>2. CASE ReadAllRecords
      <3>1. t \in Committed /\ Pending' = Committed
        BY <1>3, <2>2, ReadsCommitted DEF ReadAllRecords, fileVars, Committed
      <3> QED BY <3>1
    <2>3. CASE ReplayClear
      <3>1. Committed' = Committed /\ Pending' = Pending /\ Replaying /\ generation' = generation
        BY <2>3 DEF ReplayClear, Committed, Pending, Replaying
      <3> QED BY <1>3, <3>1 DEF LogOrder
    <2>4. CASE ReplayGroup
      <3>1. Committed' = Committed /\ Replaying
        BY <2>4 DEF ReplayGroup, Committed, Replaying
      <3>2. generation' = IF Head(todo).gen > generation THEN Head(todo).gen ELSE generation
        BY <2>4 DEF ReplayGroup
      <3>3. Head(todo).gen \in Nat /\ t.gen \in Nat
        BY <1>a, <1>3, <2>4, <3>1, PendingStep
      <3>4. t \in Pending' \/ t = Head(todo) \/ t.gen <= generation
        BY <1>3, <2>4, <3>1, PendingStep DEF LogOrder
      <3> QED BY <1>a, <3>2, <3>3, <3>4
    <2> QED BY <1>3, <2>1, <2>2, <2>3, <2>4, ControlFrames
  <1> QED BY <1>1, <1>2, <1>3 DEF LogOrder

\* In a sound database only the COMMIT marker and a snapshot change what Open would rebuild.
LEMMA DurableFrame ==
  ASSUME BaseInv, [Next]_vars, Sound'
  PROVE  /\ WriteCommitMarker \/ durable' = durable
         /\ writeSnapshot \/ pc # "idle" \/ pc' # "snapshotted"
  <1>1. WriteCommitMarker \/ WriteCommitMarkerFails \/ durable' = durable
    BY DEF Next, Commit, Compact, Open, Writes, WriteMutations, WriteMutationsFails,
       NewTransaction, ProcessGone, vars, fileVars, processVars, ghostVars, AppendRollbackMarker,
       WriteCommitMarker, WriteCommitMarkerFails, AppendRecordsFails, WriteRollbackMarker,
       ApplyClear, ApplyClearFails, ApplyFails, CommitFails, ApplyAndPublish, Lookup, writeSnapshot, CompactStorage,
       CompactClearIndex, CompactRebuildIndex, TruncateWal, Crash, CrashInWrite, BackupAndRestore,
       RenameTableFile, readSnapshot, NoSnapshot, ReadAllRecords, ReadAllRecordsFails,
       ReplayClear, ReplayClearFails, ReplayGroup, Opened
  <1>2. writeSnapshot \/ pc # "idle" \/ pc' # "snapshotted"
    BY DEF Next, Commit, Compact, Open, Writes, WriteMutations, WriteMutationsFails,
       NewTransaction, ProcessGone, vars, fileVars, processVars, ghostVars, AppendRollbackMarker,
       WriteCommitMarker, WriteCommitMarkerFails, AppendRecordsFails, WriteRollbackMarker,
       ApplyClear, ApplyClearFails, ApplyFails, CommitFails, ApplyAndPublish, Lookup, writeSnapshot, CompactStorage,
       CompactClearIndex, CompactRebuildIndex, TruncateWal, Crash, CrashInWrite, BackupAndRestore,
       RenameTableFile, readSnapshot, NoSnapshot, ReadAllRecords, ReadAllRecordsFails,
       ReplayClear, ReplayClearFails, ReplayGroup, Opened
  <1>3. WriteCommitMarkerFails => durable' = durable
    BY MarkerFailure DEF Sound
  <1> QED BY <1>1, <1>2, <1>3

\* What the WAL is replayed over is a table.
LEMMA BaseType == BaseInv => Base \in Table
  BY LatestIn, EmptyTypes DEF BaseInv, Types, Base

\* Only writeSnapshot changes the table that the WAL is replayed over: Backup keeps the latest snapshot.
LEMMA BaseSame ==
  ASSUME BaseInv, [Next]_vars, pc # "idle" \/ pc' # "snapshotted"
  PROVE  Base' = Base
  <1>1. CASE snapshots' = snapshots
    BY <1>1 DEF Base, LatestSnapshot
  <1>2. CASE BackupAndRestore
    <2>1. snapshots' = [g \in {h \in DOMAIN snapshots : h = LatestSnapshot} |-> snapshots[g]]
      BY <1>2 DEF BackupAndRestore
    <2>2. CASE DOMAIN snapshots = {}
      <3>1. DOMAIN snapshots' = {}
        BY <2>1, <2>2
      <3> QED BY <2>2, <3>1 DEF Base
    <2>3. CASE DOMAIN snapshots # {}
      <3>1. LatestSnapshot \in DOMAIN snapshots /\ DOMAIN snapshots \subseteq Nat
        BY <2>3, LatestIn DEF BaseInv, Types
      <3>2. DOMAIN snapshots' = {LatestSnapshot} /\ snapshots'[LatestSnapshot] = snapshots[LatestSnapshot]
        BY <2>1, <3>1
      <3>3. LatestSnapshot' = LatestSnapshot
        <4>1. \E g \in DOMAIN snapshots' : \A h \in DOMAIN snapshots' : h <= g
          BY <3>1, <3>2
        <4> QED BY <3>2, <4>1 DEF LatestSnapshot
      <3> QED BY <2>3, <3>2, <3>3 DEF Base
    <2> QED BY <2>2, <2>3
  <1>3. CASE writeSnapshot
    BY <1>3 DEF writeSnapshot
  <1> QED BY <1>1, <1>2, <1>3, Frames

\* The snapshot is exact, and it is the latest.
LEMMA BaseWritten ==
  ASSUME BaseInv, ServingInv, writeSnapshot, ~misread'
  PROVE  Base' = durable /\ mem' = mem
  <1>a. durable \in Table /\ generation \in Nat /\ DOMAIN snapshots \subseteq Nat
    BY RecoveryAssumption DEF BaseInv, Types
  <1>b. mem = Exact(durable) /\ \A g \in DOMAIN snapshots : g <= generation
    BY DEF writeSnapshot, ServingInv, BaseInv, Generations
  <1>c. mem' = mem /\ \E read \in OldRecords(mem) :
           snapshots' = [g \in DOMAIN snapshots \cup {generation} |->
                            IF g = generation THEN read ELSE snapshots[g]]
    <2>1. PICK found \in Scans(mem) :
             /\ mem' = [mem EXCEPT !.val = found]
             /\ misread' = (misread \/ found # mem.val)
             /\ \E read \in OldRecords([mem EXCEPT !.val = found]) :
                   snapshots' = [g \in DOMAIN snapshots \cup {generation} |->
                                    IF g = generation THEN read ELSE snapshots[g]]
      BY DEF writeSnapshot
    <2>2. found = mem.val
      BY <2>1
    <2>3. [mem EXCEPT !.val = mem.val] = mem
      BY DEF BaseInv, Types, Index
    <2> QED BY <2>1, <2>2, <2>3
  <1>1. PICK read \in OldRecords(mem) :
           snapshots' = [g \in DOMAIN snapshots \cup {generation} |->
                            IF g = generation THEN read ELSE snapshots[g]]
    BY <1>c
  <1>2. read = durable
    <2>1. read \in Table /\ \A k \in Keys : read[k] = durable[k]
      BY <1>a, <1>b, ExactIs DEF OldRecords
    <2> QED BY <1>a, <2>1 DEF Table
  <1>3. DOMAIN snapshots' = DOMAIN snapshots \cup {generation} /\ snapshots'[generation] = durable
    BY <1>1, <1>2
  <1>4. LatestSnapshot' = generation
    <2>1. \A h \in DOMAIN snapshots' : h <= generation
      BY <1>a, <1>b, <1>3
    <2>2. \A g \in DOMAIN snapshots' : (\A h \in DOMAIN snapshots' : h <= g) => g = generation
      BY <1>a, <1>b, <1>3
    <2> QED BY <1>3, <2>1, <2>2 DEF LatestSnapshot
  <1> QED BY <1>c, <1>3, <1>4 DEF Base

\* The transaction being marked is younger than all committed ones.
LEMMA Youngest ==
  ASSUME BaseInv, LogHead, LogOrder, WriteCommitMarker
  PROVE  /\ Committed' = Committed \cup {tx[1]}
         /\ tx[1] \in Transactions /\ Committed \subseteq Transactions
         /\ \A t \in Committed : t.gen \in Nat /\ tx[1].gen \in Nat /\ t.gen < tx[1].gen
  <1>1. Busy /\ Serving /\ pc = "logged"
    BY DEF WriteCommitMarker, Busy, Serving
  <1>2. tx[1].gen = generation + 1 /\ generation \in Nat
    BY <1>1, RecoveryAssumption DEF BaseInv, Types, Writing
  <1>3. \A t \in Committed : t.gen <= generation /\ t \in Transactions
    BY <1>1, CommittedFields DEF LogOrder
  <1> QED BY <1>1, <1>2, <1>3, CommittedOne, BusyType, TransactionFields

\* Snapshot and WAL determine the table after every step.
LEMMA DurableKept ==
  ASSUME BaseInv, LogInv, DurableInv, ServingInv, [Next]_vars, Sound', ~misread'
  PROVE  DurableInv'
  <1>a. LogHead /\ LogOrder
    BY DEF LogInv
  <1>1. CASE WriteCommitMarker
    <2> SUFFICES ASSUME NEW k \in Keys
                 PROVE  \/ \E t \in Committed' : /\ Touches(t, k) /\ durable'[k] = Effect(t, k)
                                                 /\ \A u \in Committed' : Touches(u, k) => u.gen <= t.gen
                        \/ (\A t \in Committed' : ~Touches(t, k)) /\ durable'[k] = Base'[k]
      BY DEF DurableInv
    <2>1. durable'[k] = IF Touches(tx[1], k) THEN Effect(tx[1], k) ELSE durable[k]
      BY <1>1, AfterIs DEF WriteCommitMarker
    <2>2. Base' = Base
      BY <1>1, BaseSame DEF WriteCommitMarker
    <2>3. \/ \E t \in Committed : /\ Touches(t, k) /\ durable[k] = Effect(t, k)
                                  /\ \A u \in Committed : Touches(u, k) => u.gen <= t.gen
          \/ (\A t \in Committed : ~Touches(t, k)) /\ durable[k] = Base[k]
      BY DEF DurableInv
    <2>4. /\ Committed' = Committed \cup {tx[1]}
          /\ \A t \in Committed : t.gen \in Nat /\ tx[1].gen \in Nat /\ t.gen < tx[1].gen
          /\ tx[1].gen <= tx[1].gen
      BY <1>1, <1>a, Youngest, TransactionFields
    <2>5. CASE Touches(tx[1], k)
      BY <2>1, <2>4, <2>5
    <2>6. CASE ~Touches(tx[1], k)
      BY <2>1, <2>2, <2>3, <2>4, <2>6
    <2> QED BY <2>5, <2>6
  <1>2. CASE TruncateWal
    <2>1. Committed' = {} /\ durable' = durable /\ Base = durable /\ pc = "rebuilt"
      BY <1>2 DEF TruncateWal, ghostVars, ServingInv, Committed, CommittedGroups
    <2>2. Base' = Base
      BY <2>1, BaseSame
    <2> QED BY <2>1, <2>2 DEF DurableInv
  <1>3. CASE writeSnapshot
    <2>1. Committed' = Committed /\ durable' = durable
      BY <1>3 DEF writeSnapshot, Committed
    <2>2. Base' = durable
      BY <1>3, BaseWritten
    <2> QED BY <2>1, <2>2 DEF DurableInv
  <1>4. CASE ~WriteCommitMarker /\ ~TruncateWal /\ ~writeSnapshot
    <2>1. Committed' = Committed
      BY <1>4, <1>a, CommittedSteps
    <2>2. durable' = durable
      BY <1>4, DurableFrame
    <2>3. Base' = Base
      BY <1>4, BaseSame, DurableFrame
    <2> QED BY <2>1, <2>2, <2>3 DEF DurableInv
  <1> QED BY <1>1, <1>2, <1>3, <1>4

\* Bare inserts keep what they follow.
LEMMA HistoryKept ==
  ASSUME BaseInv, LogInv, DurableInv, HistoryInv, ServingInv, [Next]_vars, Sound', ~misread'
  PROVE  HistoryInv'
  <1>a. LogHead /\ LogOrder
    BY DEF LogInv
  <1>1. CASE WriteCommitMarker
    <2> DEFINE n == tx[1]
    <2>1. Base' = Base
      BY <1>1, BaseSame DEF WriteCommitMarker
    <2>2. /\ Committed' = Committed \cup {n}
          /\ \A t \in Committed : t.gen \in Nat /\ n.gen \in Nat /\ t.gen < n.gen
      BY <1>1, <1>a, Youngest
    <2>3. Staged(durable, n)
      BY <1>1, ExactIs DEF WriteCommitMarker, ServingInv, BaseInv, Types
    <2>4. \A k \in Keys : BareInsert(n, k) => durable[k] = None
      BY <2>3 DEF BareInsert, Staged, Live
    <2>5. ASSUME NEW k \in Keys, BareInsert(n, k), NEW t \in Committed, Effect(t, k) # None
          PROVE  \E v \in Committed : Touches(v, k) /\ t.gen < v.gen
      <3>1. durable[k] = None /\ Touches(t, k)
        BY <2>4, <2>5, EffectTouches
      <3>2. PICK v \in Committed : Touches(v, k) /\ durable[k] = Effect(v, k) /\ t.gen <= v.gen
        BY <2>5, <3>1 DEF DurableInv
      <3>3. v.gen # t.gen
        BY <2>5, <3>1, <3>2, <1>a DEF LogOrder
      <3> QED BY <2>2, <3>2, <3>3
    <2>6. ASSUME NEW k \in Keys, BareInsert(n, k), Base[k] # None
          PROVE  \E v \in Committed : Touches(v, k)
      BY <2>4, <2>6 DEF DurableInv
    <2> HIDE DEF n
    <2> SUFFICES ASSUME NEW k \in Keys, NEW u \in Committed', BareInsert(u, k)
                 PROVE  /\ \A t \in Committed' : t.gen < u.gen /\ Effect(t, k) # None =>
                              \E v \in Committed' : Touches(v, k) /\ t.gen < v.gen /\ v.gen < u.gen
                        /\ Base'[k] # None => \/ \E t \in Committed' : Touches(t, k) /\ t.gen < u.gen
                                              \/ \E t \in Committed' : Effect(t, k) = Base'[k]
      BY DEF HistoryInv
    <2>7. CASE u = n
      <3>1. \A t \in Committed' : t.gen < u.gen => t \in Committed
        BY <2>2, <2>7, <1>1, <1>a, Youngest, TransactionFields
      <3> QED BY <2>1, <2>2, <2>5, <2>6, <2>7, <3>1
    <2>8. CASE u \in Committed
      <3>1. \A t \in Committed' : t.gen < u.gen => t \in Committed
        BY <2>2, <2>8
      <3>2. \A t \in Committed : t.gen < u.gen /\ Effect(t, k) # None =>
                \E v \in Committed : Touches(v, k) /\ t.gen < v.gen /\ v.gen < u.gen
        BY <2>8 DEF HistoryInv
      <3>3. Base[k] # None => \/ \E t \in Committed : Touches(t, k) /\ t.gen < u.gen
                              \/ \E t \in Committed : Effect(t, k) = Base[k]
        BY <2>8 DEF HistoryInv
      <3> QED BY <2>1, <2>2, <3>1, <3>2, <3>3
    <2> QED BY <2>2, <2>7, <2>8
  <1>2. CASE TruncateWal
    <2>1. Committed' = {}
      BY <1>2 DEF TruncateWal, Committed, CommittedGroups
    <2> QED BY <2>1 DEF HistoryInv
  <1>3. CASE writeSnapshot
    <2>1. Committed' = Committed
      BY <1>3 DEF writeSnapshot, Committed
    <2>2. Base' = durable
      BY <1>3, BaseWritten
    <2>3. ASSUME NEW k \in Keys, NEW u \in Committed, BareInsert(u, k)
          PROVE  \E t \in Committed : Effect(t, k) = durable[k]
      <3>1. Touches(u, k)
        BY <2>3 DEF BareInsert, Touches
      <3> QED BY <2>3, <3>1 DEF DurableInv
    <2> QED BY <2>1, <2>2, <2>3 DEF HistoryInv
  <1>4. CASE ~WriteCommitMarker /\ ~TruncateWal /\ ~writeSnapshot
    <2>1. Committed' = Committed
      BY <1>4, <1>a, CommittedSteps
    <2>2. Base' = Base
      BY <1>4, BaseSame, DurableFrame
    <2> QED BY <2>1, <2>2 DEF HistoryInv
  <1> QED BY <1>1, <1>2, <1>3, <1>4

\* Once nothing is left to replay, the index is exact.
LEMMA ConvergedExact ==
  ASSUME BaseInv, Converging({})
  PROVE  mem = Exact(durable)
  <1>a. mem \in Index /\ durable \in Table
    BY DEF BaseInv, Types
  <1>1. ASSUME NEW k \in Keys
        PROVE  /\ mem.val[k] = Exact(durable).val[k]
               /\ k \in mem.stale <=> k \in Exact(durable).stale
               /\ \A w : <<w, k>> \in mem.sec <=> <<w, k>> \in Exact(durable).sec
    <2>1. mem.val[k] = durable[k] /\ (durable[k] # None => <<durable[k], k>> \in mem.sec)
      BY DEF Converging, Settled
    <2>2. k \notin mem.stale
      BY DEF Converging, Repointed
    <2>3. ASSUME NEW w, <<w, k>> \in mem.sec PROVE w = durable[k] /\ w # None
      <3>1. w \in Values
        BY <1>a, <2>3, IndexFields
      <3>2. mem.val[k] = w
        BY <2>3, <3>1 DEF Converging, Explained
      <3> QED BY <2>1, <3>1, <3>2, RecoveryAssumption
    <2>4. /\ Exact(durable).val[k] = durable[k] /\ k \notin Exact(durable).stale
          /\ \A w : <<w, k>> \in Exact(durable).sec <=> durable[k] # None /\ w = durable[k]
      BY <1>a, ExactIs
    <2> QED BY <2>1, <2>2, <2>3, <2>4
  <1> QED BY <1>a, <1>1, ExactIs, IndexEqual

\* Commit and Compact keep the index exact but for the step in progress.
LEMMA ServingKept ==
  ASSUME BaseInv, LogInv, ServingInv, ReplayInv, [Next]_vars, Sound', ~misread'
  PROVE  ServingInv'
  <1>a. durable \in Table /\ mem \in Index /\ mem.val \in Table /\ (Busy => tx[1] \in Transactions)
    BY BusyType, IndexFields DEF BaseInv, Types
  <1>b. \A m \in Table : Exact(m).val = m
    BY ExactIs
  <1>c. pc # "idle" \/ pc' # "snapshotted" => Base' = Base
    BY BaseSame
  <1>1. CASE UNCHANGED vars
    <2>1. UNCHANGED <<pc, mem, disk, durable, tx>>
      BY <1>1 DEF vars, fileVars, processVars, ghostVars
    <2>2. Base' = Base
      BY <1>1 DEF Base, LatestSnapshot, vars, fileVars
    <2> QED BY <2>1, <2>2 DEF ServingInv
  <1>2. ASSUME NEW t \in ChangeSets, Writes(t) PROVE ServingInv'
    <2>1. pc = "idle" /\ pc' \in {"logged", "failed"} /\ UNCHANGED <<mem, disk, durable>>
      BY <1>2 DEF Writes, WriteMutations, WriteMutationsFails, NewTransaction
    <2>2. Staged(mem.val, t) /\ tx' = <<t>>
      BY <1>2 DEF Writes, WriteMutations, WriteMutationsFails, NewTransaction
    <2>3. tx'[1] = t
      BY <2>2
    <2> QED BY <2>1, <2>2, <2>3 DEF ServingInv
  <1>3. CASE AppendRollbackMarker
    BY <1>3 DEF AppendRollbackMarker, processVars, ServingInv
  <1>4. CASE AppendRecordsFails
    BY <1>4 DEF AppendRecordsFails, fileVars, ghostVars, ServingInv
  <1>5. CASE WriteCommitMarker
    BY <1>5, <1>a, <1>b DEF WriteCommitMarker, ServingInv
  <1>6. CASE WriteCommitMarkerFails
    <2>1. durable' = durable
      BY <1>6, MarkerFailure DEF Sound
    <2> QED BY <1>6, <2>1 DEF WriteCommitMarkerFails, ServingInv
  <1>7. CASE WriteRollbackMarker
    BY <1>7 DEF WriteRollbackMarker, ServingInv
  <1>8. CASE ApplyClear
    <2>1. durable = After(mem.val, tx[1]) /\ tx[1].clear
      BY <1>8 DEF ApplyClear, ServingInv
    <2>2. After(mem.val, tx[1]) = After(EmptyTable, tx[1])
      BY <2>1 DEF After
    <2> QED BY <1>8, <2>1, <2>2 DEF ApplyClear, ghostVars, ServingInv
  <1>9. CASE ApplyClearFails \/ ApplyFails
    BY <1>9 DEF ApplyClearFails, ApplyFails, CommitFails, Sound
  <1>10. CASE ApplyAndPublish
    <2>1. PICK old \in OldRecords(mem) : mem' = ApplyChanges(mem, tx[1], old)
      BY <1>10 DEF ApplyAndPublish
    <2>2. disk' = mem' /\ pc' = "idle" /\ durable' = durable /\ Busy
      BY <1>10 DEF ApplyAndPublish, ghostVars, Busy
    <2>3. ASSUME pc = "marked", ~tx[1].clear PROVE mem' = Exact(durable)
      <3>1. mem = Exact(mem.val) /\ Staged(mem.val, tx[1]) /\ durable = After(mem.val, tx[1])
        BY <2>3 DEF ServingInv
      <3>2. old \in OldRecords(Exact(mem.val))
        BY <2>1, <3>1
      <3>3. ApplyChanges(Exact(mem.val), tx[1], old) = Exact(After(mem.val, tx[1]))
        BY <1>a, <2>2, <2>3, <3>1, <3>2, ExactApply
      <3> QED BY <2>1, <3>1, <3>3
    <2>4. ASSUME pc = "cleared" PROVE mem' = Exact(durable)
      <3>1. mem = EmptyIndex /\ tx[1].clear /\ durable = After(EmptyTable, tx[1]) /\ tx[1] \in Committed
        BY <2>4 DEF ServingInv, LogInv, LogHead
      <3>2. Shape(tx[1])
        BY <3>1, CommittedIs DEF LogInv, LogShape
      <3>3. tx[1] \in Transactions
        BY <1>a, <2>2
      <3>4. Staged(EmptyTable, tx[1])
        BY <3>1, <3>2 DEF Shape, Staged, Live, EmptyTable
      <3>5. EmptyIndex = Exact(EmptyTable) /\ EmptyTable \in Table
        BY EmptyTypes DEF EmptyIndex, Exact, Entries, Live, EmptyTable
      <3>6. old \in OldRecords(Exact(EmptyTable))
        BY <2>1, <3>1, <3>5
      <3>7. ApplyChanges(Exact(EmptyTable), tx[1], old) = Exact(After(EmptyTable, tx[1]))
        BY <3>3, <3>4, <3>5, <3>6, ExactApply
      <3> QED BY <2>1, <3>1, <3>5, <3>7
    <2>5. mem' = Exact(durable)
      BY <1>10, <2>3, <2>4 DEF ApplyAndPublish
    <2> QED BY <2>2, <2>5 DEF ServingInv
  <1>11. CASE Lookup
    BY <1>11 DEF Lookup, processVars, ghostVars, ServingInv
  <1>12. CASE writeSnapshot
    <2>1. Base' = durable /\ mem' = mem
      BY <1>12, BaseWritten
    <2> QED BY <1>12, <1>a, <1>b, <2>1 DEF writeSnapshot, ServingInv
  <1>13. CASE CompactStorage
    <2>1. Dangling(mem).val = mem.val
      BY <1>a DEF Dangling, Index
    <2> QED BY <1>13, <1>c, <2>1 DEF CompactStorage, ghostVars, ServingInv
  <1>14. CASE CompactClearIndex
    BY <1>14, <1>c DEF CompactClearIndex, ghostVars, ServingInv
  <1>15. CASE CompactRebuildIndex
    <2>1. mem' = Exact(durable) /\ mem.val = durable
      BY <1>15, <1>a, ExactRebuild DEF CompactRebuildIndex, ServingInv
    <2> QED BY <1>15, <1>a, <1>b, <1>c, <2>1 DEF CompactRebuildIndex, ghostVars, ServingInv
  <1>16. CASE TruncateWal
    BY <1>16 DEF TruncateWal, ghostVars, ServingInv
  <1>17. CASE Opened
    <2>1. Pending = {}
      BY <1>17 DEF Opened, Pending
    <2>2. Converging({})
      BY <1>17, <2>1 DEF Opened, ReplayInv, Replaying
    <2>3. mem = Exact(durable) /\ disk = mem
      BY <2>2, ConvergedExact DEF Converging
    <2> QED BY <1>17, <2>3 DEF Opened, fileVars, ghostVars, ServingInv
  <1>18. CASE pc' \in {"down", "renamed", "restored", "replay", "replaycleared", "unopenable"}
    BY <1>18 DEF ServingInv
  <1> QED
    BY <1>1, <1>2, <1>3, <1>4, <1>5, <1>6, <1>7, <1>8, <1>9, <1>10, <1>11, <1>12, <1>13, <1>14,
       <1>15, <1>16, <1>17, <1>18
    DEF Next, Commit, Compact, Open, Crash, CrashInWrite, BackupAndRestore, RenameTableFile,
        readSnapshot, NoSnapshot, ReadAllRecords, ReadAllRecordsFails, ReplayClear,
        ReplayClearFails, ReplayGroup

\* The group being replayed makes Open reset the table file first.
Resets == reset /\ (Live(Head(todo).inserts) # {} \/ Live(Head(todo).updates) # {})

\* What is replayed next is committed, of the right shape, and older than the rest.
LEMMA NextGroup ==
  ASSUME BaseInv, LogInv, ReplayInv, ReplayGroup
  PROVE  /\ Replaying /\ Remaining /\ Converging(Pending)
         /\ Head(todo) \in Pending /\ Head(todo) \in Committed
         /\ Head(todo) \in Transactions /\ Shape(Head(todo))
         /\ Head(todo).clear => mem = EmptyIndex
         /\ \A u \in Pending : u = Head(todo) \/ Head(todo).gen < u.gen
         /\ \A u \in Pending : u \in Pending' <=> u # Head(todo)
         /\ Pending' \subseteq Pending
  <1>1. Replaying /\ (Head(todo).clear => pc = "replaycleared")
    BY DEF ReplayGroup, Replaying
  <1>2. Remaining /\ Converging(Pending) /\ (Head(todo).clear => mem = EmptyIndex)
    BY <1>1 DEF ReplayInv
  <1>3. /\ todo # <<>> /\ Head(todo) \in Pending /\ Head(todo) = todo[1] /\ todo \in Seq(Transactions)
        /\ Pending \subseteq Pending' \cup {Head(todo)} /\ Pending' \subseteq Pending
        /\ Pending \subseteq Transactions
        /\ \A i \in DOMAIN todo' :
               i + 1 \in DOMAIN todo /\ todo'[i] = todo[i + 1]
    BY PendingStep
  <1>4. Head(todo) \in Committed
    BY <1>2, <1>3 DEF Remaining
  <1>5. Shape(Head(todo))
    BY <1>4, CommittedIs DEF LogInv, LogShape
  <1>6. \A i \in DOMAIN todo : i = 1 \/ todo[1].gen < todo[i].gen
    BY <1>2, <1>3 DEF Remaining
  <1>7. \A u \in Pending : u = Head(todo) \/ Head(todo).gen < u.gen
    BY <1>3, <1>6 DEF Pending
  <1>8. Head(todo) \notin Pending'
    <2>1. \A i \in DOMAIN todo' : i \in Nat /\ i + 1 # 1 /\ todo'[i].gen > Head(todo).gen
      <3>1. todo' \in Seq(Transactions)
        BY TodoTyped, <1>3, PendingStep
      <3>2. \A i \in DOMAIN todo' : i \in Nat /\ i >= 1
        BY <3>1
      <3> QED BY <1>3, <1>6, <3>2
    <2>2. Head(todo).gen \in Nat
      BY <1>3, TransactionFields
    <2> QED BY <2>1, <2>2 DEF Pending
  <1> QED BY <1>1, <1>2, <1>3, <1>4, <1>5, <1>7, <1>8

\* What replaying a group does to the index, key by key.
LEMMA GroupIs ==
  ASSUME BaseInv, LogInv, DiskInv, ReplayInv, ReplayGroup, NEW k \in Keys
  PROVE  /\ mem'.val[k] = IF Touches(Head(todo), k) THEN Effect(Head(todo), k) ELSE mem.val[k]
         /\ k \in mem'.stale =>
               ~Touches(Head(todo), k) /\ (k \in mem.stale \/ (Resets /\ mem.val[k] # None))
         /\ k \in mem'.stale => mem'.val[k] # None
         /\ \A w : <<w, k>> \in mem'.sec =>
               \/ w = Effect(Head(todo), k)
               \/ /\ <<w, k>> \in mem.sec
                  /\ Touches(Head(todo), k) /\ mem.val[k] = w /\ w # None /\ k \notin mem.stale /\ ~Resets
                        => BareInsert(Head(todo), k)
         /\ Effect(Head(todo), k) # None => <<Effect(Head(todo), k), k>> \in mem'.sec
         /\ ~Touches(Head(todo), k) => \A w : <<w, k>> \in mem.sec => <<w, k>> \in mem'.sec
  <1> DEFINE t == Head(todo)
             base == IF Resets THEN Dangling(mem) ELSE mem
  <1>1. mem \in Index /\ disk = mem /\ t \in Transactions /\ Shape(t) /\ (t.clear => mem = EmptyIndex)
    BY NextGroup DEF BaseInv, Types, Converging
  <1>2. PICK old \in OldRecords(base) : mem' = ApplyChanges(base, t, old)
    BY DEF ReplayGroup, Resets
  <1>3. /\ base.val = mem.val /\ base.sec = mem.sec
        /\ k \in base.stale => mem.val[k] # None /\ (k \in mem.stale \/ Resets)
        /\ k \in mem.stale => k \in base.stale
    <2>1. Dangling(mem).val = mem.val /\ Dangling(mem).sec = mem.sec /\ Dangling(mem).stale = Live(mem.val)
      BY <1>1 DEF Dangling, Index
    <2>2. mem.stale \subseteq Live(mem.val)
      BY <1>1 DEF DiskInv
    <2> QED BY <2>1, <2>2 DEF Live
  <1>4. k \notin mem.stale /\ ~Resets => old[k] = mem.val[k]
    BY <1>2 DEF OldRecords
  <1> HIDE DEF base
  <1>5. /\ mem'.val[k] = IF t.inserts[k] # None \/ t.updates[k] # None \/ k \in t.deletes
                         THEN Effect(t, k) ELSE mem.val[k]
        /\ k \in mem'.stale <=>
              /\ k \in base.stale /\ t.inserts[k] = None /\ t.updates[k] = None
              /\ ~(k \in t.deletes /\ mem.val[k] # None)
        /\ \A w : <<w, k>> \in mem'.sec <=>
              \/ Effect(t, k) # None /\ w = Effect(t, k)
              \/ /\ <<w, k>> \in mem.sec
                 /\ ~(k \in t.deletes /\ mem.val[k] # None /\ w = old[k])
                 /\ ~(t.updates[k] # None /\ mem.val[k] # None /\ w = old[k])
    <2> DEFINE new == ApplyChanges(base, t, old)
    <2>1. t \in Transactions /\ Shape(t)
      BY <1>1
    <2> HIDE DEF t
    <2>a. Applied(new, base, t, old)
      BY <2>1, ApplyIs
    <2>2. /\ new.val[k] = IF t.inserts[k] # None \/ t.updates[k] # None \/ k \in t.deletes
                          THEN Effect(t, k) ELSE base.val[k]
          /\ k \in new.stale <=>
                /\ k \in base.stale /\ t.inserts[k] = None /\ t.updates[k] = None
                /\ ~(k \in t.deletes /\ base.val[k] # None)
          /\ \A w : <<w, k>> \in new.sec <=>
                \/ Effect(t, k) # None /\ w = Effect(t, k)
                \/ /\ <<w, k>> \in base.sec
                   /\ ~(k \in t.deletes /\ base.val[k] # None /\ w = old[k])
                   /\ ~(t.updates[k] # None /\ base.val[k] # None /\ w = old[k])
      <3> HIDE DEF new
      <3> QED BY <2>a DEF Applied
    <2>3. mem' = new
      BY <1>2 DEF t
    <2> HIDE DEF new
    <2> QED BY <1>3, <2>2, <2>3
  <1>6. t.clear => mem.val[k] = None /\ (\A w : <<w, k>> \notin mem.sec)
    BY <1>1 DEF EmptyIndex, EmptyTable
  <1> HIDE DEF t
  <1>7. mem'.val[k] = IF Touches(t, k) THEN Effect(t, k) ELSE mem.val[k]
    BY <1>5, <1>6 DEF Touches, Effect
  <1>8. k \in mem'.stale =>
          ~Touches(t, k) /\ (k \in mem.stale \/ (Resets /\ mem.val[k] # None)) /\ mem'.val[k] # None
    BY <1>3, <1>5, <1>6 DEF Touches
  <1>9. ASSUME NEW w, <<w, k>> \in mem'.sec, w # Effect(t, k)
        PROVE  /\ <<w, k>> \in mem.sec
               /\ Touches(t, k) /\ mem.val[k] = w /\ w # None /\ k \notin mem.stale /\ ~Resets => BareInsert(t, k)
    BY <1>4, <1>5, <1>6, <1>9 DEF Touches, BareInsert
  <1>10. ~Touches(t, k) => \A w : <<w, k>> \in mem.sec => <<w, k>> \in mem'.sec
    BY <1>5 DEF Touches
  <1>11. Effect(t, k) # None => <<Effect(t, k), k>> \in mem'.sec
    BY <1>5
  <1> QED BY <1>7, <1>8, <1>9, <1>10, <1>11 DEF t

\* The exact index has only what is known.
LEMMA ExactKnown ==
  durable \in Table /\ DurableInv /\ disk = Exact(durable) => DiskInv
  <1> SUFFICES ASSUME durable \in Table, DurableInv, disk = Exact(durable) PROVE DiskInv
    OBVIOUS
  <1>1. /\ disk.val = durable /\ disk.stale = {}
        /\ \A k \in Keys : \A w : <<w, k>> \in disk.sec <=> durable[k] # None /\ w = durable[k]
    BY ExactIs
  <1>2. \A k \in Keys : Known(k, durable[k])
    BY DEF DurableInv, Known
  <1> QED BY <1>1, <1>2 DEF DiskInv

\* What is left of an index whose table file was replaced.
LEMMA DanglingIs ==
  ASSUME NEW index \in Index
  PROVE  /\ Dangling(index).val = index.val /\ Dangling(index).sec = index.sec
         /\ Dangling(index).stale = Live(index.val)
  BY DEF Dangling, Index

\* Nothing unknown gets into the index file.
LEMMA DiskKept ==
  ASSUME BaseInv, LogInv, DurableInv, DiskInv, ServingInv, ReplayInv, [Next]_vars, Sound', ~misread'
  PROVE  DiskInv'
  <1>a. durable' \in Table /\ disk \in Index /\ LogHead
    BY DurableTyped DEF BaseInv, Types, LogInv
  <1>1. CASE pc' \in {"idle", "logged", "failed", "snapshotted", "rebuilt"}
    <2>1. DurableInv' /\ ServingInv'
      BY DurableKept, ServingKept
    <2>2. disk' = Exact(durable')
      BY <1>1, <2>1 DEF ServingInv
    <2>3. (durable \in Table /\ DurableInv /\ disk = Exact(durable) => DiskInv)'
      BY ExactKnown, PTL
    <2> QED BY <1>a, <2>1, <2>2, <2>3
  <1>2. CASE pc' \notin {"idle", "logged", "failed", "snapshotted", "rebuilt"}
    <2>1. Committed \subseteq Committed'
      BY <1>2, <1>a, CommittedSteps DEF TruncateWal
    <2>2. Base' = Base
      BY <1>2, BaseSame
    <2> DEFINE Good(k, w) == w = Base'[k] \/ \E t \in Committed' : Effect(t, k) = w
               Fine(d) == /\ \A k \in Keys : d.val[k] # None => Good(k, d.val[k])
                          /\ \A w \in Values, k \in Keys : <<w, k>> \in d.sec => Good(k, w)
                          /\ d.stale \subseteq Live(d.val)
    <2>3. \A k, w : Known(k, w) => Good(k, w)
      BY <2>1, <2>2 DEF Known
    <2>4. Fine(disk') => DiskInv'
      BY DEF DiskInv, Known
    <2>5. Fine(disk)
      BY <2>3 DEF DiskInv
    <2>6. Fine(EmptyIndex)
      BY DEF EmptyIndex, EmptyTable, Live
    <2>7. Fine(Dangling(disk))
      <3>1. /\ Dangling(disk).val = disk.val /\ Dangling(disk).sec = disk.sec
            /\ Dangling(disk).stale = Live(disk.val)
        BY <1>a, DanglingIs
      <3> HIDE DEF Good
      <3> QED BY <2>5, <3>1
    <2>8. ASSUME readSnapshot PROVE Fine(disk')
      <3>1. disk' = shadowInsert(disk, Base)
        BY <2>8 DEF readSnapshot, Base, BaseInv, Generations
      <3>2. disk' \in Index
        BY IndexesTyped
      <3>3. /\ \A k \in Keys : disk'.val[k] = IF Base[k] # None THEN Base[k] ELSE disk.val[k]
            /\ \A k \in Keys : k \in disk'.stale <=> k \in disk.stale /\ Base[k] = None
            /\ \A k \in Keys : \A w : <<w, k>> \in disk'.sec <=>
                   <<w, k>> \in disk.sec \/ (Base[k] # None /\ w = Base[k])
        BY <3>1, InsertIs
      <3>4. \A k : Good(k, Base[k])
        BY <2>2
      <3>5. disk'.stale \subseteq Live(disk'.val)
        BY <2>5, <3>2, <3>3, IndexFields DEF Live
      <3> HIDE DEF Good
      <3> QED BY <2>5, <3>3, <3>4, <3>5
    <2>9. ASSUME ReplayGroup PROVE Fine(disk')
      <3> DEFINE t == Head(todo)
      <3>1. disk = mem /\ disk' = mem' /\ t \in Committed /\ mem' \in Index
        BY <2>9, NextGroup, IndexesTyped DEF ReplayGroup, Converging
      <3>2. \A k \in Keys : Good(k, Effect(t, k))
        BY <2>1, <3>1
      <3>3. ASSUME NEW k \in Keys
            PROVE  /\ mem'.val[k] = IF Touches(t, k) THEN Effect(t, k) ELSE mem.val[k]
                   /\ k \in mem'.stale => mem'.val[k] # None
                   /\ \A w : <<w, k>> \in mem'.sec => w = Effect(t, k) \/ <<w, k>> \in mem.sec
        BY <2>9, GroupIs
      <3>4. mem'.stale \subseteq Live(mem'.val)
        BY <3>1, <3>3, IndexFields DEF Live
      <3> HIDE DEF Good, t
      <3> QED BY <2>5, <3>1, <3>2, <3>3, <3>4
    <2>10. Fine(disk')
      <3>1. ApplyClear \/ CompactClearIndex \/ BackupAndRestore \/ ReplayClear => disk' = EmptyIndex
        BY DEF ApplyClear, CompactClearIndex, BackupAndRestore, ReplayClear
      <3>2. CompactStorage \/ RenameTableFile => disk' = Dangling(disk)
        BY DEF CompactStorage, RenameTableFile
      <3>3. ApplyAndPublish \/ CompactRebuildIndex \/ ApplyClearFails \/ ApplyFails => FALSE
        BY <1>2 DEF ApplyAndPublish, CompactRebuildIndex, ApplyClearFails, ApplyFails, CommitFails
      <3> HIDE DEF Fine
      <3> QED BY <2>5, <2>6, <2>7, <2>8, <2>9, <3>1, <3>2, <3>3, ControlFrames
    <2> QED BY <2>4, <2>10
  <1> QED BY <1>1, <1>2

\* Open without a snapshot: whatever the index file holds, the whole WAL is to be replayed over it.
LEMMA NoSnapshotConverges ==
  ASSUME BaseInv, DurableInv, DiskInv, NoSnapshot
  PROVE  Converging(Committed)'
  <1>1. /\ mem' = disk /\ disk' = disk /\ durable' = durable /\ snapshots' = snapshots
        /\ DOMAIN snapshots = {} /\ Committed' = Committed
    BY DEF NoSnapshot, fileVars, ghostVars, Committed
  <1>2. \A k \in Keys : Base[k] = None
    BY <1>1 DEF Base, EmptyTable
  <1>3. ASSUME NEW k \in Keys, NEW w, w # None, Known(k, w) PROVE \E t \in Committed : Effect(t, k) = w
    BY <1>2, <1>3 DEF Known
  <1>4. \A k \in Keys : disk.val[k] # None => \E t \in Committed : Touches(t, k)
    BY <1>3, EffectTouches DEF DiskInv
  <1>5. \A w \in Values, k \in Keys : <<w, k>> \in disk.sec => \E t \in Committed : Effect(t, k) = w
    BY <1>3, RecoveryAssumption DEF DiskInv
  <1>6. Settled(Committed)'
    <2>1. \A k \in Keys : (\A t \in Committed : ~Touches(t, k)) => durable[k] = None /\ disk.val[k] = None
      BY <1>2, <1>4 DEF DurableInv
    <2> QED BY <1>1, <2>1 DEF Settled
  <1>7. Repointed(Committed)'
    BY <1>1, <1>4 DEF Repointed, DiskInv, Live
  <1>8. Explained(Committed)'
    BY <1>1, <1>5 DEF Explained
  <1>9. Unreset(Committed)'
    BY <1>1, <1>4, <1>5 DEF Unreset
  <1> QED BY <1>1, <1>6, <1>7, <1>8, <1>9 DEF Converging

\* Open with a snapshot: its records go over whatever the index file holds.
LEMMA SnapshotConverges ==
  ASSUME BaseInv, LogOrder, DurableInv, HistoryInv, DiskInv, readSnapshot
  PROVE  Converging(Committed)'
  <1>1. /\ mem' = shadowInsert(disk, Base) /\ disk' = mem' /\ durable' = durable /\ Committed' = Committed
        /\ reset' = FALSE
    BY DEF readSnapshot, ghostVars, Committed, Base, BaseInv, Generations
  <1>2. /\ \A k \in Keys : mem'.val[k] = IF Base[k] # None THEN Base[k] ELSE disk.val[k]
        /\ \A k \in Keys : k \in mem'.stale <=> k \in disk.stale /\ Base[k] = None
        /\ \A k \in Keys : \A w : <<w, k>> \in mem'.sec <=>
              <<w, k>> \in disk.sec \/ (Base[k] # None /\ w = Base[k])
    BY <1>1, InsertIs
  <1>3. mem' \in Index /\ mem'.stale \subseteq Keys
    <2>1. disk \in Index /\ Base \in Table
      BY BaseType DEF BaseInv, Types
    <2> QED BY <1>1, <2>1, InsertType, IndexFields
  <1>4. \A k \in Keys : disk.val[k] # None /\ Base[k] = None => \E t \in Committed : Touches(t, k)
    BY EffectTouches DEF DiskInv, Known
  <1>5. Settled(Committed)'
    <2>1. ASSUME NEW k \in Keys, \A t \in Committed : ~Touches(t, k)
          PROVE  mem'.val[k] = durable[k] /\ (durable[k] # None => <<durable[k], k>> \in mem'.sec)
      <3>1. durable[k] = Base[k]
        BY <2>1 DEF DurableInv
      <3> QED BY <1>2, <1>4, <2>1, <3>1
    <2> QED BY <1>1, <2>1 DEF Settled
  <1>6. Repointed(Committed)'
    <2>1. ASSUME NEW k \in mem'.stale PROVE \E t \in Committed : Touches(t, k)
      <3>1. k \in Keys /\ k \in disk.stale /\ Base[k] = None
        BY <1>2, <1>3
      <3>2. disk.val[k] # None
        BY <3>1 DEF DiskInv, Live
      <3> QED BY <1>4, <3>1, <3>2
    <2> QED BY <1>1, <2>1 DEF Repointed
  <1>7. Explained(Committed)'
    <2>1. ASSUME NEW w \in Values, NEW k \in Keys, <<w, k>> \in mem'.sec,
                 \A t \in Committed : Effect(t, k) # w
          PROVE  /\ mem'.val[k] = w /\ k \notin mem'.stale
                 /\ \A v \in Committed : BareInsert(v, k) => \E x \in Committed : Touches(x, k) /\ x.gen < v.gen
      <3>1. w = Base[k] /\ w # None
        BY <1>2, <2>1, RecoveryAssumption DEF DiskInv, Known
      <3>2. ASSUME NEW v \in Committed, BareInsert(v, k)
            PROVE  \E x \in Committed : Touches(x, k) /\ x.gen < v.gen
        BY <2>1, <3>1, <3>2 DEF HistoryInv
      <3> QED BY <1>2, <3>1, <3>2
    <2> QED BY <1>1, <2>1 DEF Explained
  <1>8. Unreset(Committed)'
    BY <1>1 DEF Unreset
  <1> QED BY <1>1, <1>5, <1>6, <1>7, <1>8 DEF Converging

\* Replaying the oldest group leaves an index over which the others can be replayed.
LEMMA GroupConverges ==
  ASSUME BaseInv, LogInv, DurableInv, HistoryInv, DiskInv, ReplayInv, ReplayGroup
  PROVE  Converging(Pending)'
  <1> DEFINE t == Head(todo)
  <1>1. /\ disk' = mem' /\ durable' = durable /\ snapshots' = snapshots
        /\ (reset' <=> reset /\ ~Resets)
    BY DEF ReplayGroup, ghostVars, Resets
  <1>2. /\ Remaining /\ Converging(Pending) /\ t \in Pending /\ t \in Committed
        /\ \A u \in Pending : u = t \/ t.gen < u.gen
        /\ \A u \in Pending : u \in Pending' <=> u # t
        /\ Pending' \subseteq Pending
    BY NextGroup
  <1>3. ASSUME NEW k \in Keys
        PROVE  /\ mem'.val[k] = IF Touches(t, k) THEN Effect(t, k) ELSE mem.val[k]
               /\ k \in mem'.stale =>
                     ~Touches(t, k) /\ (k \in mem.stale \/ (Resets /\ mem.val[k] # None))
               /\ \A w : <<w, k>> \in mem'.sec =>
                     \/ w = Effect(t, k)
                     \/ /\ <<w, k>> \in mem.sec
                        /\ Touches(t, k) /\ mem.val[k] = w /\ w # None /\ k \notin mem.stale /\ ~Resets
                              => BareInsert(t, k)
               /\ Effect(t, k) # None => <<Effect(t, k), k>> \in mem'.sec
               /\ ~Touches(t, k) => \A w : <<w, k>> \in mem.sec => <<w, k>> \in mem'.sec
    BY GroupIs
  <1>4. mem' \in Index /\ mem'.stale \subseteq Keys /\ Committed \subseteq Transactions
    <2>1. mem' \in Index
      BY IndexesTyped DEF Next, Open
    <2> QED BY <2>1, IndexFields, CommittedFields
  <1>5. \A u \in Committed : u.gen \in Nat
    BY <1>4, TransactionFields
  <1>6. Pending \subseteq Committed /\ \A u \in Committed : u \in Pending \/ u.gen < t.gen
    BY <1>2 DEF Remaining
  <1>7. Resets => reset
    BY DEF Resets
  <1> HIDE DEF t
  <1>8. ASSUME NEW k \in Keys, \A u \in Pending' : ~Touches(u, k)
        PROVE  mem'.val[k] = durable[k] /\ (durable[k] # None => <<durable[k], k>> \in mem'.sec)
    <2>1. CASE Touches(t, k)
      <3>1. PICK v \in Committed : /\ Touches(v, k) /\ durable[k] = Effect(v, k)
                                   /\ \A u \in Committed : Touches(u, k) => u.gen <= v.gen
        BY <1>2, <2>1 DEF DurableInv
      <3>2. t.gen <= v.gen /\ v.gen \in Nat /\ t.gen \in Nat
        BY <1>2, <1>5, <2>1, <3>1
      <3>3. v \in Pending
        BY <1>6, <3>1, <3>2
      <3>4. v = t
        BY <1>2, <1>8, <3>1, <3>3
      <3> QED BY <1>3, <2>1, <3>1, <3>4
    <2>2. CASE ~Touches(t, k)
      <3>1. \A u \in Pending : ~Touches(u, k)
        BY <1>2, <1>8, <2>2
      <3>2. mem.val[k] = durable[k] /\ (durable[k] # None => <<durable[k], k>> \in mem.sec)
        BY <1>2, <3>1 DEF Converging, Settled
      <3> QED BY <1>3, <2>2, <3>2
    <2> QED BY <2>1, <2>2
  <1>9. ASSUME NEW k \in mem'.stale PROVE \E u \in Pending' : Touches(u, k)
    <2>1. k \in Keys
      BY <1>4
    <2>2. ~Touches(t, k) /\ (k \in mem.stale \/ (Resets /\ mem.val[k] # None))
      BY <1>3, <2>1
    <2>3. \E u \in Pending : Touches(u, k)
      BY <1>2, <1>7, <2>1, <2>2 DEF Converging, Repointed, Unreset
    <2> QED BY <1>2, <2>2, <2>3
  <1>10. ASSUME NEW w \in Values, NEW k \in Keys, <<w, k>> \in mem'.sec,
                \A u \in Pending' : Effect(u, k) # w
         PROVE  /\ mem'.val[k] = w /\ k \notin mem'.stale
                /\ \A v \in Pending' : BareInsert(v, k) => \E x \in Pending' : Touches(x, k) /\ x.gen < v.gen
    <2>a. w # None
      BY RecoveryAssumption
    <2>1. CASE w = Effect(t, k)
      <3>1. Touches(t, k)
        BY <2>a, <2>1, EffectTouches
      <3>2. ASSUME NEW v \in Pending', BareInsert(v, k)
            PROVE  \E x \in Pending' : Touches(x, k) /\ x.gen < v.gen
        <4>1. v \in Committed /\ t.gen < v.gen
          BY <1>2, <1>6, <3>2
        <4>2. PICK x \in Committed : Touches(x, k) /\ t.gen < x.gen /\ x.gen < v.gen
          BY <1>2, <2>a, <2>1, <3>2, <4>1 DEF HistoryInv
        <4>3. x \in Pending /\ x # t
          BY <1>2, <1>5, <1>6, <4>2
        <4> QED BY <1>2, <4>2, <4>3
      <3> QED BY <1>3, <2>1, <3>1, <3>2
    <2>2. CASE w # Effect(t, k)
      <3>1. /\ <<w, k>> \in mem.sec
            /\ Touches(t, k) /\ mem.val[k] = w /\ w # None /\ k \notin mem.stale /\ ~Resets => BareInsert(t, k)
        BY <1>3, <1>10, <2>2
      <3>2. \A u \in Pending : Effect(u, k) # w
        BY <1>2, <1>10, <2>2
      <3>3. /\ mem.val[k] = w /\ k \notin mem.stale
            /\ \A v \in Pending : BareInsert(v, k) => \E x \in Pending : Touches(x, k) /\ x.gen < v.gen
        BY <1>2, <3>1, <3>2 DEF Converging, Explained
      <3>4. ~Resets
        BY <1>2, <1>7, <3>1, <3>2 DEF Converging, Unreset
      <3>5. ~Touches(t, k)
        <4>1. SUFFICES ASSUME Touches(t, k) PROVE FALSE
          OBVIOUS
        <4>2. BareInsert(t, k)
          BY <2>a, <3>1, <3>3, <3>4, <4>1
        <4>3. PICK x \in Pending : x.gen < t.gen
          BY <1>2, <3>3, <4>2
        <4> QED BY <1>2, <1>5, <1>6, <4>3
      <3>6. ASSUME NEW v \in Pending', BareInsert(v, k)
            PROVE  \E x \in Pending' : Touches(x, k) /\ x.gen < v.gen
        BY <1>2, <3>3, <3>5, <3>6
      <3> QED BY <1>3, <3>3, <3>4, <3>5, <3>6
    <2> QED BY <2>1, <2>2
  <1>11. ASSUME reset'
         PROVE  /\ DOMAIN snapshots = {}
                /\ \A w \in Values, k \in Keys : <<w, k>> \in mem'.sec => \E u \in Pending' : Effect(u, k) = w
                /\ \A k \in Keys : mem'.val[k] # None => \E u \in Pending' : Touches(u, k)
    <2>1. reset /\ ~Resets
      BY <1>1, <1>11
    <2>2. \A k \in Keys : Effect(t, k) = None
      BY <2>1 DEF Resets, Live, Effect, t
    <2>3. /\ DOMAIN snapshots = {}
          /\ \A w \in Values, k \in Keys : <<w, k>> \in mem.sec => \E u \in Pending : Effect(u, k) = w
          /\ \A k \in Keys : mem.val[k] # None => \E u \in Pending : Touches(u, k)
      BY <1>2, <2>1 DEF Converging, Unreset
    <2>4. ASSUME NEW w \in Values, NEW k \in Keys, <<w, k>> \in mem'.sec
          PROVE  \E u \in Pending' : Effect(u, k) = w
      <3>1. w # None /\ Effect(t, k) = None
        BY <2>2, RecoveryAssumption
      <3>2. PICK u \in Pending : Effect(u, k) = w
        BY <1>3, <2>3, <2>4, <3>1
      <3> QED BY <1>2, <3>1, <3>2
    <2>5. ASSUME NEW k \in Keys, mem'.val[k] # None PROVE \E u \in Pending' : Touches(u, k)
      <3>1. ~Touches(t, k) /\ mem.val[k] # None
        BY <1>3, <2>2, <2>5
      <3> QED BY <1>2, <2>3, <3>1
    <2> QED BY <2>3, <2>4, <2>5
  <1>12. Settled(Pending)'
    BY <1>1, <1>8 DEF Settled
  <1>13. Repointed(Pending)'
    BY <1>9 DEF Repointed
  <1>14. Explained(Pending)'
    BY <1>10 DEF Explained
  <1>15. Unreset(Pending)'
    BY <1>1, <1>11 DEF Unreset
  <1> QED BY <1>1, <1>12, <1>13, <1>14, <1>15 DEF Converging

\* Every step of Open brings the index closer to the exact one.
LEMMA ReplayKept ==
  ASSUME BaseInv, LogInv, DurableInv, HistoryInv, DiskInv, ReplayInv, [Next]_vars, Sound', ~misread'
  PROVE  ReplayInv'
  <1>a. LogShape /\ LogOrder
    BY DEF LogInv
  <1>b. \A t \in Committed : t.gen \in Nat
    BY CommittedFields, TransactionFields
  <1>1. CASE UNCHANGED vars
    <2>1. /\ Committed' = Committed /\ Pending' = Pending
          /\ UNCHANGED <<pc, todo, disk, mem, durable, snapshots>> /\ (reset' <=> reset)
      BY <1>1 DEF vars, fileVars, processVars, ghostVars, Committed, Pending
    <2>2. (pc = "restored" => Converging(Committed)') /\ (Replaying => Converging(Pending)')
      BY <2>1 DEF ReplayInv, Converging, Settled, Repointed, Explained, Unreset
    <2>3. Replaying => Remaining'
      BY <2>1 DEF ReplayInv, Remaining
    <2> QED BY <2>1, <2>2, <2>3 DEF ReplayInv, Replaying
  <1>2. CASE NoSnapshot
    BY <1>2, NoSnapshotConverges DEF NoSnapshot, ReplayInv, Replaying
  <1>3. CASE readSnapshot
    BY <1>3, <1>a, SnapshotConverges DEF readSnapshot, ReplayInv, Replaying
  <1>4. CASE ReadAllRecords
    <2>1. /\ Pending' = Committed /\ Committed' = Committed /\ pc = "restored" /\ pc' = "replay"
          /\ UNCHANGED <<disk, mem, durable, snapshots>> /\ (reset' <=> reset)
      BY <1>4, <1>a, ReadsCommitted DEF ReadAllRecords, fileVars, ghostVars, Committed
    <2>2. Converging(Pending)'
      BY <2>1 DEF ReplayInv, Converging, Settled, Repointed, Explained, Unreset
    <2>3. \A i, j \in DOMAIN todo' : i < j => todo'[i].gen < todo'[j].gen
      <3>1. ASSUME NEW i \in DOMAIN todo', NEW j \in DOMAIN todo', i < j
            PROVE  todo'[i].gen < todo'[j].gen
        <4>1. todo' \in Seq(Transactions)
          BY TodoTyped
        <4>2. i # j
          BY <3>1, <4>1
        <4>3. todo'[i] # todo'[j] /\ todo'[i].gen <= todo'[j].gen
          BY <1>4, <1>a, <3>1, <4>2, ReadsCommitted
        <4>4. todo'[i] \in Committed /\ todo'[j] \in Committed
          BY <2>1 DEF Pending
        <4>5. todo'[i].gen # todo'[j].gen
          BY <1>a, <4>3, <4>4 DEF LogOrder
        <4> QED BY <1>b, <4>3, <4>4, <4>5
      <3> QED BY <3>1
    <2> QED BY <2>1, <2>2, <2>3 DEF ReplayInv, Replaying, Remaining
  <1>5. CASE ReplayClear
    <2>1. /\ mem' = EmptyIndex /\ disk' = EmptyIndex /\ pc' = "replaycleared" /\ Replaying
          /\ Committed' = Committed /\ Pending' = Pending /\ UNCHANGED <<todo, snapshots>>
          /\ todo # <<>> /\ Head(todo).clear
      BY <1>5 DEF ReplayClear, Committed, Pending, Replaying
    <2>2. Head(todo) \in Pending /\ \A k : Touches(Head(todo), k)
      BY <2>1 DEF Pending, BaseInv, Types, Touches
    <2>3. Settled(Pending)' /\ Repointed(Pending)' /\ Explained(Pending)'
      BY <2>1, <2>2 DEF Settled, Repointed, Explained, EmptyIndex
    <2>4. Unreset(Pending)'
      <3>1. reset' <=> reset
        BY <1>5 DEF ReplayClear
      <3>2. reset => DOMAIN snapshots = {}
        BY <2>1 DEF ReplayInv, Converging, Unreset
      <3> QED BY <2>1, <2>2, <3>1, <3>2 DEF Unreset, EmptyIndex
    <2>5. Remaining'
      BY <2>1 DEF ReplayInv, Remaining
    <2> QED BY <2>1, <2>3, <2>4, <2>5 DEF ReplayInv, Replaying, Converging
  <1>6. CASE ReplayGroup
    <2>1. Converging(Pending)'
      BY <1>6, GroupConverges
    <2>2. Committed' = Committed /\ pc' = "replay"
      BY <1>6 DEF ReplayGroup, Committed
    <2>3. /\ Remaining /\ Head(todo) \in Pending
          /\ \A u \in Pending : u = Head(todo) \/ Head(todo).gen < u.gen
          /\ \A u \in Pending : u \in Pending' <=> u # Head(todo)
          /\ Pending' \subseteq Pending
      BY <1>6, NextGroup
    <2>4. \A i, j \in DOMAIN todo' : i < j => todo'[i].gen < todo'[j].gen
      <3>1. todo' \in Seq(Transactions) /\ \A i \in DOMAIN todo' :
               i + 1 \in DOMAIN todo /\ todo'[i] = todo[i + 1]
        BY <1>6, TodoTyped, PendingStep
      <3>2. ASSUME NEW i \in DOMAIN todo', NEW j \in DOMAIN todo', i < j PROVE i + 1 < j + 1
        BY <3>1, <3>2
      <3> QED BY <2>3, <3>1, <3>2 DEF Remaining
    <2>5. \A t \in Committed : t \in Pending' \/ \A u \in Pending' : t.gen < u.gen
      BY <2>3 DEF Remaining
    <2>6. Remaining'
      BY <2>2, <2>3, <2>4, <2>5 DEF Remaining
    <2> QED BY <2>1, <2>2, <2>6 DEF ReplayInv, Replaying
  <1>7. CASE pc' # "restored" /\ ~Replaying'
    BY <1>7 DEF ReplayInv, Replaying
  <1> QED BY <1>1, <1>2, <1>3, <1>4, <1>5, <1>6, <1>7, ControlFrames

\* A new database satisfies the invariant.
LEMMA SoundInit == Init => SoundInv
  <1> SUFFICES ASSUME Init PROVE LogInv /\ DurableInv /\ HistoryInv /\ DiskInv /\ ServingInv /\ ReplayInv
    BY DEF SoundInv
  <1>1. Logged = {} /\ Committed = {} /\ DOMAIN wal = {} /\ DOMAIN snapshots = {} /\ pc = "idle"
    BY DEF Init, Logged, Committed, CommittedGroups
  <1>2. LogInv
    BY <1>1 DEF LogInv, LogShape, LogHead, LogOrder, Replaying
  <1>3. DurableInv /\ HistoryInv
    BY <1>1 DEF Init, DurableInv, HistoryInv, Base
  <1>4. DiskInv
    BY DEF Init, DiskInv, EmptyIndex, EmptyTable, Live
  <1>5. ServingInv
    <2>1. EmptyIndex = Exact(EmptyTable)
      BY DEF EmptyIndex, Exact, Entries, Live, EmptyTable
    <2> QED BY <1>1, <2>1 DEF Init, ServingInv
  <1>6. ReplayInv
    BY <1>1 DEF ReplayInv, Replaying
  <1> QED BY <1>2, <1>3, <1>4, <1>5, <1>6

\* Every step keeps the invariant, one lemma for each of its parts.
LEMMA SoundKept == BaseInv /\ SoundInv /\ [Next]_vars => SoundInv'
  <1> SUFFICES ASSUME BaseInv, SoundInv, [Next]_vars PROVE SoundInv'
    OBVIOUS
  <1>1. ASSUME Sound' PROVE LogInv'
    <2>1. LogInv
      BY <1>1, SoundBefore DEF SoundInv
    <2> QED BY <1>1, <2>1, LogShapeKept, LogHeadKept, LogOrderKept DEF LogInv
  <1>2. ASSUME Intact' PROVE (DurableInv /\ HistoryInv /\ DiskInv /\ ServingInv /\ ReplayInv)'
    <2>1. Sound' /\ ~misread'
      BY <1>2 DEF Intact
    <2>2. Sound /\ ~misread
      BY <2>1, SoundBefore, MisreadStays
    <2>3. LogInv /\ DurableInv /\ HistoryInv /\ DiskInv /\ ServingInv /\ ReplayInv
      BY <2>2 DEF SoundInv, Intact
    <2> QED BY <2>1, <2>3, DurableKept, HistoryKept, DiskKept, ServingKept, ReplayKept
  <1> QED BY <1>1, <1>2 DEF SoundInv

\* SoundInv always holds: at every step of commits, compactions, crashes and interrupted
\* reopenings, the snapshot, the WAL and whatever the index file holds are enough to rebuild the
\* table that the COMMIT markers define.
THEOREM SoundInvariant == Spec => []SoundInv
  <1>1. Init => BaseInv /\ SoundInv
    BY BaseInit, SoundInit
  <1>2. (BaseInv /\ SoundInv) /\ [Next]_vars => (BaseInv /\ SoundInv)'
    BY BaseKept, SoundKept
  <1> QED BY <1>1, <1>2, PTL DEF Spec

\* ServingInv in the terms of the properties.
LEMMA IdleExact ==
  BaseInv /\ SoundInv /\ pc = "idle" /\ Intact =>
      /\ mem.val = durable /\ mem.sec = Entries(durable) /\ mem.stale = {} /\ disk = mem
  <1> SUFFICES ASSUME BaseInv, SoundInv, pc = "idle", Intact
               PROVE  mem.val = durable /\ mem.sec = Entries(durable) /\ mem.stale = {} /\ disk = mem
    OBVIOUS
  <1>1. mem = Exact(durable) /\ disk = mem
    BY DEF SoundInv, ServingInv
  <1> QED BY <1>1 DEF Exact

\* Whenever the database serves requests, its primary index holds exactly what the transactions
\* with a COMMIT marker made of the table: Open loses none of them and brings none back, unless
\* a scan of Compact missed entries, something follows a torn record in the WAL, or a commit
\* failed after its marker.
THEOREM RecoveryServesCommitted == Spec => []ServesCommitted
  <1>1. BaseInv /\ SoundInv => ServesCommitted
    BY IdleExact DEF ServesCommitted
  <1> QED BY <1>1, BaseInvariant, SoundInvariant, PTL

\* recover converges: the secondary index has exactly the entries of the table, although
\* shadowDelete reads the record to replace through pointers into a table file that is gone.
THEOREM RecoveryIndexes == Spec => []IndexesRecovered
  <1>1. BaseInv /\ SoundInv => IndexesRecovered
    BY IdleExact DEF IndexesRecovered
  <1> QED BY <1>1, BaseInvariant, SoundInvariant, PTL

\* While requests are served no entry of the index leads into a table file that Compact,
\* readSnapshot or Reset replaced, and the index file agrees with memory.
THEOREM RecoveryPointers == Spec => []NoDanglingPointers
  <1>1. BaseInv /\ SoundInv => NoDanglingPointers
    BY IdleExact DEF NoDanglingPointers
  <1> QED BY <1>1, BaseInvariant, SoundInvariant, PTL

\* The unstable sort by generation in recover has one outcome: no two committed transactions
\* of the WAL share a generation, although those of failed transactions are used again.
THEOREM RecoveryGenerations == Spec => []GenerationsDistinct
  <1>1. SoundInv => GenerationsDistinct
    BY DEF SoundInv, LogInv, LogOrder, Committed, GenerationsDistinct
  <1> QED BY <1>1, SoundInvariant, PTL
=============================================================================

---------------------------- MODULE RecoveryProofs ----------------------------
(***************************************************************************)
(* Proofs about Recovery that hold in every behaviour, torn records and    *)
(* failed writes included, for any keys, values and number of transactions *)
(* and crashes: every variable keeps its type, Open fails only in the      *)
(* cases OpenFailsOnly names, and recover replays no transaction that was  *)
(* reported as failed unless its COMMIT marker is in the WAL.  They follow *)
(* from BaseInv, which ties ids, generations, markers and what Open has    *)
(* still to replay to the WAL.  RecoveryConvergence builds on it.          *)
(***************************************************************************)
EXTENDS Recovery, TLAPS, FiniteSetTheorems

\* The records of the WAL, and the transactions recover would take from all of it.
Logged == {wal[i] : i \in DOMAIN wal}
\* The transactions recover would take from the whole WAL.
Committed == CommittedGroups(wal)

\* The transactions Open has still to replay.
Pending == {todo[i] : i \in DOMAIN todo}

\* The writer has a transaction; Open replays.
Busy == pc \in {"logged", "failed", "marked", "cleared"}
\* Open replays.
Replaying == pc \in {"replay", "replaycleared"}

\* The types of the Boolean variables, and of all others.
Booleans ==
    idxFile \in BOOLEAN /\ reset \in BOOLEAN /\ damaged \in BOOLEAN /\ misread \in BOOLEAN
\* The types of all other variables.
Types ==
    /\ wal \in Seq(Records)
    /\ disk \in Index
    /\ mem \in Index
    /\ DOMAIN snapshots \subseteq 0..MaxTransactions
    /\ \A g \in DOMAIN snapshots : snapshots[g] \in Table
    /\ generation \in 0..MaxTransactions
    /\ pc \in {"idle", "logged", "failed", "marked", "cleared",
               "snapshotted", "swapped", "emptied", "rebuilt",
               "down", "renamed", "restored", "replay", "replaycleared",
               "unopenable"}
    /\ tx \in Seq(Transactions) /\ Len(tx) <= 1
    /\ todo \in Seq(Transactions)
    /\ nextId \in 0..MaxTransactions
    /\ crashes \in 0..MaxCrashes
    /\ durable \in Table
    /\ failed \subseteq 1..MaxTransactions
    /\ indoubt \subseteq failed

\* The ids in the WAL were handed out.
WalIds ==
    \A r \in Logged :
        /\ r.type = "mutations" => r.tx.id \in 1..nextId /\ r.tx.gen \in 1..nextId
        /\ r.type \in {"commit", "rollback"} => r.id \in 1..nextId

\* A COMMIT marker of a transaction reported as failed is one of those in doubt.
FailedMarked == \A r \in Logged : r.type = "commit" /\ r.id \in failed => r.id \in indoubt

\* The transaction being written is the last one that began, and has no marker before one is written.
Writing ==
    /\ failed \subseteq 1..nextId
    /\ IF Busy
       THEN /\ Len(tx) = 1 /\ tx[1].id = nextId /\ nextId \notin failed
            /\ tx[1].gen = generation + 1 /\ generation < nextId
       ELSE tx = <<>>
    /\ pc \in {"logged", "failed"} =>
          \A r \in Logged : r.type \in {"commit", "rollback"} => r.id # nextId

\* Generations do not run ahead of ids, snapshots not ahead of generations.
Generations ==
    /\ generation <= nextId
    /\ \A g \in DOMAIN snapshots : g <= nextId
    /\ pc \notin {"down", "renamed", "unopenable"} => \A g \in DOMAIN snapshots : g <= generation
    /\ DOMAIN snapshots # {} => \E g \in DOMAIN snapshots : \A h \in DOMAIN snapshots : h <= g
    /\ pc = "renamed" => DOMAIN snapshots # {}

\* What Open has still to replay is in the WAL, with a COMMIT marker.
Replays ==
    /\ ~Replaying => todo = <<>>
    /\ pc = "replaycleared" => todo # <<>> /\ Head(todo).clear
    /\ \A t \in Pending : \E r \in Logged : r.type = "commit" /\ r.id = t.id
    /\ \A t \in Pending : t.gen \in 1..nextId
    /\ TornRecords = {} => Pending \subseteq Committed

\* Without an index file, Open has no snapshot and has replayed nothing yet.
Unindexed ==
    /\ pc = "restored" /\ ~idxFile => DOMAIN snapshots = {}
    /\ pc = "replay" /\ ~idxFile =>
          DOMAIN snapshots = {} /\ todo \in ReplayOrders(ReadableRecords)

\* The inductive invariant that needs no assumption on the faults.
BaseInv ==
    /\ Booleans /\ Types
    /\ WalIds /\ FailedMarked /\ Writing /\ Generations /\ Replays
    /\ Unindexed /\ OpenFailsOnly

-----------------------------------------------------------------------------

\* TypeOK in its two parts: the provers handle Booleans and arithmetic apart.
LEMMA TypesTogether == TypeOK <=> Booleans /\ Types
  BY DEF TypeOK, Booleans, Types

\* A record has the fields of its type.
LEMMA RecordFields ==
  ASSUME NEW r \in Records
  PROVE  /\ r.type \in {"mutations", "commit", "rollback", "torn"}
         /\ r.type = "mutations" => r.tx \in Transactions
         /\ r.type \in {"commit", "rollback"} => r.id \in Nat
  BY DEF Records

\* A transaction has the fields of a change set.
LEMMA TransactionFields ==
  ASSUME NEW t \in Transactions
  PROVE  /\ t.id \in Nat /\ t.gen \in Nat /\ t.clear \in BOOLEAN /\ t.deletes \in SUBSET Keys
         /\ t.inserts \in Table /\ t.updates \in Table
  BY DEF Transactions

\* The records that processTasks writes are records.
LEMMA NewRecords ==
  /\ \A t \in Transactions : [type |-> "mutations", tx |-> t] \in Records
  /\ \A n \in Nat : [type |-> "commit", id |-> n] \in Records
  /\ \A n \in Nat : [type |-> "rollback", id |-> n] \in Records
  /\ \A b \in BOOLEAN : Torn(b) \in Records
  <1>1. \A t \in Transactions : [type |-> "mutations", tx |-> t] \in Records
    BY DEF Records
  <1>2. \A n \in Nat : [type |-> "commit", id |-> n] \in Records
    BY DEF Records
  <1>3. \A n \in Nat : [type |-> "rollback", id |-> n] \in Records
    BY DEF Records
  <1>4. \A b \in BOOLEAN : Torn(b) \in Records
    BY DEF Records, Torn
  <1> QED BY <1>1, <1>2, <1>3, <1>4

\* The committed groups, without the positions of the records.
LEMMA CommittedIs ==
  \A t : t \in Committed <=>
     /\ \E r \in Logged : r.type = "mutations" /\ r.tx = t
     /\ \E r \in Logged : r.type = "commit" /\ r.id = t.id
     /\ \A r \in Logged : ~(r.type = "rollback" /\ r.id = t.id)
  BY DEF Committed, CommittedGroups, Logged

\* One record at the end of the WAL.
LEMMA Appended ==
  ASSUME wal \in Seq(Records), NEW x \in Records, wal' = wal \o <<x>>
  PROVE  /\ wal' \in Seq(Records)
         /\ Logged' = Logged \cup {x}
         /\ Len(wal') = Len(wal) + 1
         /\ \A i \in DOMAIN wal : i \in DOMAIN wal' /\ wal'[i] = wal[i]
         /\ \A i \in DOMAIN wal' : i \in DOMAIN wal \/ i = Len(wal) + 1
         /\ Len(wal) + 1 \in DOMAIN wal' /\ wal'[Len(wal) + 1] = x
  <1>1. wal' \in Seq(Records) /\ Len(wal') = Len(wal) + 1
    OBVIOUS
  <1>2. \A i \in 1..Len(wal) : wal'[i] = wal[i]
    OBVIOUS
  <1>3. wal'[Len(wal) + 1] = x
    OBVIOUS
  <1>4. DOMAIN wal = 1..Len(wal) /\ DOMAIN wal' = 1..(Len(wal) + 1) /\ Len(wal) \in Nat
    BY <1>1
  <1>5. /\ \A i \in DOMAIN wal : i \in DOMAIN wal' /\ wal'[i] = wal[i]
        /\ \A i \in DOMAIN wal' : i \in DOMAIN wal \/ i = Len(wal) + 1
        /\ Len(wal) + 1 \in DOMAIN wal'
    BY <1>2, <1>4
  <1>6. Logged' = Logged \cup {x}
    <2>1. ASSUME NEW r \in Logged' PROVE r \in Logged \cup {x}
      BY <2>1, <1>5, <1>3 DEF Logged
    <2>2. ASSUME NEW r \in Logged PROVE r \in Logged'
      BY <2>2, <1>5 DEF Logged
    <2>3. x \in Logged'
      BY <1>5, <1>3 DEF Logged
    <2> QED BY <2>1, <2>2, <2>3
  <1> QED BY <1>1, <1>3, <1>5, <1>6

\* What a failed write adds to the WAL.
LEMMA LeftoversAre ==
  ASSUME NEW r, NEW left \in Leftovers(r)
  PROVE  left = <<>> \/ left = <<r>> \/ left = <<Torn(TRUE)>> \/ left = <<Torn(FALSE)>>
  BY DEF Leftovers

\* What is in the WAL is a record.
LEMMA LoggedRecords == wal \in Seq(Records) => Logged \subseteq Records
  BY DEF Logged

\* The transaction being written is one.
LEMMA Singleton ==
  ASSUME tx \in Seq(Transactions), Len(tx) = 1
  PROVE  tx[1] \in Transactions
  OBVIOUS

\* The three parts of an index, taken apart and put together.
LEMMA IndexFields ==
  /\ \A index \in Index : index.val \in Table /\ index.stale \in SUBSET Keys
                          /\ index.sec \in SUBSET (Values \X Keys)
  /\ \A v \in Table, s \in SUBSET Keys, e \in SUBSET (Values \X Keys) :
        [val |-> v, stale |-> s, sec |-> e] \in Index
  BY DEF Index

\* The empty table is a table, the empty index an index.
LEMMA EmptyTypes == EmptyTable \in Table /\ EmptyIndex \in Index
  <1>1. EmptyTable \in Table
    BY DEF EmptyTable, Table, ValueOrNone
  <1> QED BY <1>1, IndexFields DEF EmptyIndex

\* The entries of a table are composite keys of the secondary index.
LEMMA EntriesType ==
  ASSUME NEW m \in Table
  PROVE  Entries(m) \subseteq Values \X Keys
  BY DEF Entries, Live, Table, ValueOrNone

\* shadowDelete returns an index.
LEMMA DeleteType ==
  ASSUME NEW index \in Index, NEW K, NEW old
  PROVE  shadowDelete(index, K, old) \in Index
  <1> DEFINE found == K \cap Live(index.val)
             v == [k \in Keys |-> IF k \in found THEN None ELSE index.val[k]]
             e == index.sec \ {<<old[k], k>> : k \in found}
  <1>1. v \in Table
    BY IndexFields DEF Table, ValueOrNone
  <1>2. index.stale \ found \in SUBSET Keys
    BY IndexFields
  <1>3. e \in SUBSET (Values \X Keys)
    BY IndexFields
  <1>4. [val |-> v, stale |-> index.stale \ found, sec |-> e] \in Index
    BY <1>1, <1>2, <1>3, IndexFields
  <1> QED BY <1>4 DEF shadowDelete

\* shadowInsert returns an index.
LEMMA InsertType ==
  ASSUME NEW index \in Index, NEW m \in Table
  PROVE  shadowInsert(index, m) \in Index
  <1> DEFINE v == [k \in Keys |-> IF m[k] # None THEN m[k] ELSE index.val[k]]
  <1>1. v \in Table
    BY IndexFields DEF Table, ValueOrNone
  <1>2. index.stale \ Live(m) \in SUBSET Keys
    BY IndexFields
  <1>3. index.sec \cup Entries(m) \in SUBSET (Values \X Keys)
    BY IndexFields, EntriesType
  <1>4. [val |-> v, stale |-> index.stale \ Live(m), sec |-> index.sec \cup Entries(m)] \in Index
    BY <1>1, <1>2, <1>3, IndexFields
  <1> QED BY <1>4 DEF shadowInsert

\* Commit and replay make an index of an index.
LEMMA ApplyType ==
  ASSUME NEW index \in Index, NEW t \in Transactions, NEW old
  PROVE  ApplyChanges(index, t, old) \in Index
  <1> DEFINE deleted == shadowDelete(index, t.deletes, old)
             inserted == shadowInsert(deleted, t.inserts)
             removed == shadowDelete(inserted, Live(t.updates), old)
  <1>1. t.inserts \in Table /\ t.updates \in Table
    BY TransactionFields
  <1>2. deleted \in Index
    BY DeleteType
  <1>3. inserted \in Index
    <2> HIDE DEF deleted
    <2> QED BY <1>1, <1>2, InsertType
  <1>4. removed \in Index
    <2> HIDE DEF inserted
    <2> QED BY <1>3, DeleteType
  <1>5. shadowInsert(removed, t.updates) \in Index
    <2> HIDE DEF removed
    <2> QED BY <1>1, <1>4, InsertType
  <1> QED BY <1>5 DEF ApplyChanges

\* An index whose table file was replaced is an index.
LEMMA DanglingType ==
  ASSUME NEW index \in Index
  PROVE  Dangling(index) \in Index
  <1>1. Live(index.val) \in SUBSET Keys
    BY DEF Live
  <1>2. Dangling(index) = [val |-> index.val, stale |-> Live(index.val), sec |-> index.sec]
    BY DEF Dangling, Index
  <1> QED BY <1>1, <1>2, IndexFields

\* A transaction makes a table of a table.
LEMMA AfterType ==
  ASSUME NEW m \in Table, NEW t \in Transactions
  PROVE  After(m, t) \in Table
  <1>1. t.inserts \in Table /\ t.updates \in Table
    BY TransactionFields
  <1> QED BY <1>1 DEF After, Table, ValueOrNone

\* What ReadAllRecords returns is a prefix of the WAL, all of it without a torn record.
LEMMA ReadablePrefix ==
  ASSUME wal \in Seq(Records)
  PROVE  /\ \E n \in 0..Len(wal) : ReadableRecords = SubSeq(wal, 1, n)
         /\ TornRecords = {} => ReadableRecords = wal
  <1> DEFINE S == {i \in DOMAIN wal : \A j \in TornRecords : i < j}
  <1>1. Len(wal) \in Nat /\ DOMAIN wal = 1..Len(wal)
    OBVIOUS
  <1>2. IsFiniteSet(1..Len(wal)) /\ Cardinality(1..Len(wal)) = Len(wal)
    BY <1>1, FS_Interval
  <1>3. S \in SUBSET (1..Len(wal))
    BY <1>1
  <1>4. IsFiniteSet(S) /\ Cardinality(S) <= Len(wal)
    <2> HIDE DEF S
    <2> QED BY <1>2, <1>3, FS_Subset
  <1>5. Cardinality(S) \in Nat
    BY <1>4, FS_CardinalityType
  <1>6. Cardinality(S) \in 0..Len(wal)
    BY <1>1, <1>4, <1>5
  <1>7. ReadableRecords = SubSeq(wal, 1, Cardinality(S))
    BY DEF ReadableRecords
  <1>8. ASSUME TornRecords = {} PROVE ReadableRecords = wal
    <2>1. S = 1..Len(wal)
      BY <1>8, <1>1
    <2>2. ReadableRecords = SubSeq(wal, 1, Len(wal))
      <3> HIDE DEF S
      <3> QED BY <2>1, <1>2, <1>7
    <2> QED BY <2>2
  <1> QED
    <2> HIDE DEF S
    <2> QED BY <1>6, <1>7, <1>8

\* A committed group of a prefix was logged, with its marker.
LEMMA PrefixGroups ==
  ASSUME wal \in Seq(Records), NEW n \in 0..Len(wal),
         NEW t \in CommittedGroups(SubSeq(wal, 1, n))
  PROVE  /\ \E r \in Logged : r.type = "mutations" /\ r.tx = t
         /\ \E r \in Logged : r.type = "commit" /\ r.id = t.id
  <1>1. DOMAIN SubSeq(wal, 1, n) = 1..n
    OBVIOUS
  <1>2. \A i \in 1..n : SubSeq(wal, 1, n)[i] = wal[i] /\ i \in DOMAIN wal
    OBVIOUS
  <1>3. \A i \in 1..n : SubSeq(wal, 1, n)[i] \in Logged
    BY <1>2 DEF Logged
  <1> QED
    <2> DEFINE s == SubSeq(wal, 1, n)
    <2>1. DOMAIN s = 1..n /\ \A i \in 1..n : s[i] \in Logged
      BY <1>1, <1>3
    <2>2. t \in CommittedGroups(s)
      OBVIOUS
    <2> HIDE DEF s
    <2> QED BY <2>1, <2>2 DEF CommittedGroups

\* There are finitely many committed groups.
LEMMA GroupsFinite ==
  ASSUME NEW s \in Seq(Records)
  PROVE  IsFiniteSet(CommittedGroups(s))
  <1> DEFINE D == {i \in DOMAIN s :
                      /\ s[i].type = "mutations"
                      /\ \E j \in DOMAIN s : s[j].type = "commit" /\ s[j].id = s[i].tx.id
                      /\ ~ \E j \in DOMAIN s : s[j].type = "rollback" /\ s[j].id = s[i].tx.id}
             f == [i \in D |-> s[i].tx]
  <1>1. CommittedGroups(s) = {s[i].tx : i \in D}
    BY DEF CommittedGroups
  <1>2. D \in SUBSET (1..Len(s)) /\ Len(s) \in Nat
    OBVIOUS
  <1>3. IsFiniteSet(1..Len(s))
    BY <1>2, FS_Interval
  <1>4. IsFiniteSet(D)
    <2> HIDE DEF D
    <2> QED BY <1>2, <1>3, FS_Subset
  <1>5. f \in Surjection(D, CommittedGroups(s))
    <2> HIDE DEF D
    <2> QED BY <1>1 DEF Surjection
  <1> QED
    <2> HIDE DEF D, f
    <2> QED BY <1>4, <1>5, FS_Surjection

\* The order of replay has every committed group once.
LEMMA OrderExact ==
  ASSUME NEW records \in Seq(Records), NEW s \in ReplayOrders(records)
  PROVE  /\ s \in Seq(CommittedGroups(records))
         /\ {s[i] : i \in DOMAIN s} = CommittedGroups(records)
         /\ \A i, j \in DOMAIN s : i # j => s[i] # s[j]
         /\ \A i, j \in DOMAIN s : i < j => s[i].gen <= s[j].gen
  <1> DEFINE S == CommittedGroups(records)
             n == Cardinality(S)
  <1>1. IsFiniteSet(S)
    BY GroupsFinite
  <1>2. n \in Nat
    BY <1>1, FS_CardinalityType
  <1>3. s \in [1..n -> S] /\ \A i, j \in 1..n : i # j => s[i] # s[j]
    BY DEF ReplayOrders, SetToSeqs
  <1>4. IsFiniteSet(1..n) /\ Cardinality(1..n) = n
    <2> HIDE DEF n
    <2> QED BY <1>2, FS_Interval
  <1>5. s \in Surjection(1..n, S)
    <2>1. s \in Injection(1..n, S)
      <3> HIDE DEF S, n
      <3> QED BY <1>3 DEF Injection, IsInjective
    <2>2. Cardinality(1..n) = Cardinality(S)
      BY <1>4
    <2> HIDE DEF S, n
    <2> QED BY <2>1, <2>2, <1>1, FS_Injection
  <1>6. \A i, j \in DOMAIN s : i < j => s[i].gen <= s[j].gen
    BY DEF ReplayOrders
  <1>7. s \in Seq(S) /\ DOMAIN s = 1..n
    <2> HIDE DEF S, n
    <2> QED BY <1>2, <1>3
  <1>8. {s[i] : i \in DOMAIN s} = S
    <2> HIDE DEF S, n
    <2> QED BY <1>3, <1>5, <1>7 DEF Surjection
  <1>9. \A i, j \in DOMAIN s : i # j => s[i] # s[j]
    <2> HIDE DEF S, n
    <2> QED BY <1>3, <1>7
  <1> QED
    BY <1>6, <1>7, <1>8, <1>9

\* The Boolean variables stay Boolean.
LEMMA BooleansKept ==
  ASSUME BaseInv, [Next]_vars
  PROVE  Booleans'
  <1>0. Booleans
    BY DEF BaseInv
  <1> DEFINE Goal == Booleans'
  <1>1. ASSUME NEW t \in ChangeSets, Writes(t) PROVE Goal
    BY <1>1, <1>0 DEF Writes, WriteMutations, WriteMutationsFails, NewTransaction, AppendWal,
       Booleans
  <1>2. CASE AppendRollbackMarker
    BY <1>2, <1>0 DEF AppendRollbackMarker, AppendWal, processVars, Booleans
  <1>3. CASE WriteCommitMarker
    BY <1>3, <1>0 DEF WriteCommitMarker, AppendWal, Booleans
  <1>4. CASE WriteCommitMarkerFails
    BY <1>4, <1>0 DEF WriteCommitMarkerFails, AppendWal, Booleans
  <1>5. CASE AppendRecordsFails
    BY <1>5, <1>0 DEF AppendRecordsFails, fileVars, ghostVars, Booleans
  <1>6. CASE WriteRollbackMarker
    BY <1>6, <1>0 DEF WriteRollbackMarker, AppendWal, Booleans
  <1>7. CASE ApplyClear
    BY <1>7, <1>0 DEF ApplyClear, ghostVars, Booleans
  <1>8. CASE ApplyClearFails
    BY <1>8, <1>0 DEF ApplyClearFails, CommitFails, fileVars, Booleans
  <1>29. CASE ApplyFails
    BY <1>29, <1>0 DEF ApplyFails, CommitFails, fileVars, Booleans
  <1>9. CASE ApplyAndPublish
    BY <1>9, <1>0 DEF ApplyAndPublish, ghostVars, Booleans
  <1>10. CASE Lookup
    BY <1>10, <1>0 DEF Lookup, processVars, ghostVars, Booleans
  <1>11. CASE writeSnapshot
    BY <1>11, <1>0 DEF writeSnapshot, ghostVars, Booleans
  <1>12. CASE CompactStorage
    BY <1>12, <1>0 DEF CompactStorage, ghostVars, Booleans
  <1>13. CASE CompactClearIndex
    BY <1>13, <1>0 DEF CompactClearIndex, ghostVars, Booleans
  <1>14. CASE CompactRebuildIndex
    BY <1>14, <1>0 DEF CompactRebuildIndex, ghostVars, Booleans
  <1>15. CASE TruncateWal
    BY <1>15, <1>0 DEF TruncateWal, ghostVars, Booleans
  <1>16. CASE Crash
    BY <1>16, <1>0 DEF Crash, ProcessGone, fileVars, Booleans
  <1>17. CASE CrashInWrite
    BY <1>17, <1>0 DEF CrashInWrite, AppendWal, ProcessGone, Booleans
  <1>18. CASE BackupAndRestore
    BY <1>18, <1>0 DEF BackupAndRestore, ProcessGone, Booleans
  <1>19. CASE RenameTableFile
    BY <1>19, <1>0 DEF RenameTableFile, ghostVars, Booleans
  <1>20. CASE readSnapshot
    BY <1>20, <1>0 DEF readSnapshot, ghostVars, Booleans
  <1>21. CASE NoSnapshot
    BY <1>21, <1>0 DEF NoSnapshot, fileVars, ghostVars, Booleans
  <1>22. CASE ReadAllRecords
    BY <1>22, <1>0 DEF ReadAllRecords, fileVars, ghostVars, Booleans
  <1>23. CASE ReadAllRecordsFails
    BY <1>23, <1>0 DEF ReadAllRecordsFails, ProcessGone, fileVars, ghostVars, Booleans
  <1>24. CASE ReplayClear
    BY <1>24, <1>0 DEF ReplayClear, ghostVars, Booleans
  <1>25. CASE ReplayClearFails
    BY <1>25, <1>0 DEF ReplayClearFails, ProcessGone, fileVars, ghostVars, Booleans
  <1>26. CASE ReplayGroup
    BY <1>26, <1>0 DEF ReplayGroup, ghostVars, Booleans
  <1>27. CASE Opened
    BY <1>27, <1>0 DEF Opened, fileVars, ghostVars, Booleans
  <1>28. CASE UNCHANGED vars
    BY <1>28, <1>0 DEF vars, fileVars, processVars, ghostVars, Booleans
  <1> QED
    BY <1>1, <1>2, <1>3, <1>4, <1>5, <1>6, <1>7, <1>8, <1>9, <1>10, <1>11, <1>12, <1>13, <1>14,
       <1>15, <1>16, <1>17, <1>18, <1>19, <1>20, <1>21, <1>22, <1>23, <1>24, <1>25, <1>26, <1>27,
       <1>28, <1>29
    DEF Next, Commit, Compact, Open

\* A step writes nothing to the WAL, or one of the records of X.
Adds(X) == wal' = wal \/ \E x \in X : wal' = wal \o <<x>>

\* What is left of a record of which less than all was written.
TornParts == {Torn(TRUE), Torn(FALSE)}
\* BEGIN and the mutations of a transaction, as processTasks writes them.
Mutations(t) == [type |-> "mutations", tx |-> t]
\* A COMMIT or ROLLBACK marker.
Marker(kind, n) == [type |-> kind, id |-> n]

\* A write that may fail adds nothing, its record or a torn part of one.
LEMMA AppendAdds ==
  ASSUME wal \in Seq(Records), NEW r, NEW left, AppendWal(left),
         left \in Leftovers(r) \cup {<<r>>}
  PROVE  Adds({r} \cup TornParts)
  <1>1. left = <<>> \/ left = <<r>> \/ left = <<Torn(TRUE)>> \/ left = <<Torn(FALSE)>>
    BY LeftoversAre
  <1>2. wal' = wal \o left
    BY DEF AppendWal
  <1>3. wal \o <<>> = wal
    OBVIOUS
  <1> QED BY <1>1, <1>2, <1>3 DEF Adds, TornParts

\* What each action writes to the WAL.
LEMMA WalChanges ==
  ASSUME BaseInv
  PROVE  /\ \A t \in ChangeSets : Writes(t) => Adds({Mutations(t)} \cup TornParts)
         /\ AppendRollbackMarker => Adds({Marker("rollback", nextId + 1)} \cup TornParts)
         /\ WriteCommitMarker => wal' = wal \o <<Marker("commit", tx[1].id)>>
         /\ WriteCommitMarkerFails => Adds({Marker("commit", tx[1].id)} \cup TornParts)
         /\ WriteRollbackMarker => Adds({Marker("rollback", tx[1].id)} \cup TornParts)
         /\ CrashInWrite => Adds(TornParts)
  <1>1. wal \in Seq(Records)
    BY DEF BaseInv, Types
  <1>2. ASSUME NEW t \in ChangeSets, Writes(t) PROVE Adds({Mutations(t)} \cup TornParts)
    <2>1. \E left \in Leftovers(Mutations(t)) \cup {<<Mutations(t)>>} : AppendWal(left)
      BY <1>2 DEF Writes, WriteMutations, WriteMutationsFails, Mutations
    <2> QED BY <1>1, <2>1, AppendAdds
  <1>3. ASSUME AppendRollbackMarker PROVE Adds({Marker("rollback", nextId + 1)} \cup TornParts)
    <2> DEFINE m == Marker("rollback", nextId + 1)
    <2>1. \E left \in Leftovers(m) \cup {<<m>>} : AppendWal(left)
      BY <1>3 DEF AppendRollbackMarker, Marker
    <2> QED BY <1>1, <2>1, AppendAdds
  <1>4. WriteCommitMarker => wal' = wal \o <<Marker("commit", tx[1].id)>>
    BY DEF WriteCommitMarker, AppendWal, Marker
  <1>5. ASSUME WriteCommitMarkerFails PROVE Adds({Marker("commit", tx[1].id)} \cup TornParts)
    <2>1. \E left \in Leftovers(Marker("commit", tx[1].id)) : AppendWal(left)
      BY <1>5 DEF WriteCommitMarkerFails, Marker
    <2> QED BY <1>1, <2>1, AppendAdds
  <1>6. ASSUME WriteRollbackMarker PROVE Adds({Marker("rollback", tx[1].id)} \cup TornParts)
    <2>1. \E left \in Leftovers(Marker("rollback", tx[1].id)) : AppendWal(left)
      BY <1>6 DEF WriteRollbackMarker, Marker
    <2> QED BY <1>1, <2>1, AppendAdds
  <1>7. CrashInWrite => Adds(TornParts)
    BY DEF CrashInWrite, AppendWal, Adds, TornParts
  <1> QED BY <1>2, <1>3, <1>4, <1>5, <1>6, <1>7

\* The records that are written have their types.
LEMMA AddsTyped ==
  ASSUME wal \in Seq(Records), NEW X \in SUBSET Records, Adds(X)
  PROVE  /\ wal' \in Seq(Records)
         /\ Logged \subseteq Logged' /\ Logged' \subseteq Logged \cup X
  <1>1. CASE wal' = wal
    BY <1>1 DEF Logged
  <1>2. ASSUME NEW x \in X, wal' = wal \o <<x>> PROVE wal' \in Seq(Records) /\ Logged' = Logged \cup {x}
    <2>1. x \in Records
      OBVIOUS
    <2> QED BY <1>2, <2>1, Appended
  <1> QED BY <1>1, <1>2 DEF Adds

\* A torn record is a record and no marker.
LEMMA TornTyped == TornParts \subseteq Records
                   /\ \A r \in TornParts : r.type = "torn"
  <1>1. TornParts \subseteq Records
    BY NewRecords DEF TornParts
  <1> QED BY <1>1 DEF TornParts, Torn

\* A change set that can be staged is a transaction.
LEMMA ChangeSetType == BaseInv => \A t \in ChangeSets : t \in Transactions
  BY DEF BaseInv, ChangeSets, Transactions, Types

\* The transaction being written is the last one that began.
LEMMA BusyType == BaseInv /\ Busy => tx[1] \in Transactions /\ tx[1].id = nextId
  BY Singleton DEF BaseInv, Writing, Types

\* The WAL stays a sequence of records.
LEMMA WalTyped ==
  ASSUME BaseInv, [Next]_vars
  PROVE  wal' \in Seq(Records)
  <1>a. wal \in Seq(Records)
    BY DEF BaseInv, Types
  <1>b. \A t \in ChangeSets : t \in Transactions
    BY ChangeSetType
  <1>c. Busy => tx[1].id = nextId
    BY BusyType
  <1>d. nextId \in Nat /\ nextId + 1 \in Nat
    BY RecoveryAssumption DEF BaseInv, Types
  <1> DEFINE Goal == wal' \in Seq(Records)
  <1>1. ASSUME NEW t \in ChangeSets, Writes(t) PROVE Goal
    <2>1. {Mutations(t)} \cup TornParts \in SUBSET Records
      BY <1>b, NewRecords, TornTyped DEF Mutations
    <2> QED BY <1>1, <1>a, <2>1, WalChanges, AddsTyped
  <1>2. CASE AppendRollbackMarker
    <2>1. {Marker("rollback", nextId + 1)} \cup TornParts \in SUBSET Records
      BY <1>d, NewRecords, TornTyped DEF Marker
    <2> QED BY <1>2, <1>a, <2>1, WalChanges, AddsTyped
  <1>3. CASE WriteCommitMarker
    <2>1. Marker("commit", tx[1].id) \in Records
      BY <1>3, <1>c, <1>d, NewRecords DEF Marker, Busy, WriteCommitMarker
    <2> QED BY <1>3, <1>a, <2>1, WalChanges, Appended
  <1>4. CASE WriteCommitMarkerFails
    <2>1. {Marker("commit", tx[1].id)} \cup TornParts \in SUBSET Records
      BY <1>4, <1>c, <1>d, NewRecords, TornTyped DEF Marker, Busy, WriteCommitMarkerFails
    <2> QED BY <1>4, <1>a, <2>1, WalChanges, AddsTyped
  <1>5. CASE AppendRecordsFails
    BY <1>5, <1>a DEF AppendRecordsFails, fileVars
  <1>6. CASE WriteRollbackMarker
    <2>1. {Marker("rollback", tx[1].id)} \cup TornParts \in SUBSET Records
      BY <1>6, <1>c, <1>d, NewRecords, TornTyped DEF Marker, Busy, WriteRollbackMarker
    <2> QED BY <1>6, <1>a, <2>1, WalChanges, AddsTyped
  <1>7. CASE ApplyClear
    BY <1>7, <1>a DEF ApplyClear
  <1>8. CASE ApplyClearFails
    BY <1>8, <1>a DEF ApplyClearFails, CommitFails, fileVars
  <1>29. CASE ApplyFails
    BY <1>29, <1>a DEF ApplyFails, CommitFails, fileVars
  <1>9. CASE ApplyAndPublish
    BY <1>9, <1>a DEF ApplyAndPublish
  <1>10. CASE Lookup
    BY <1>10, <1>a DEF Lookup
  <1>11. CASE writeSnapshot
    BY <1>11, <1>a DEF writeSnapshot
  <1>12. CASE CompactStorage
    BY <1>12, <1>a DEF CompactStorage
  <1>13. CASE CompactClearIndex
    BY <1>13, <1>a DEF CompactClearIndex
  <1>14. CASE CompactRebuildIndex
    BY <1>14, <1>a DEF CompactRebuildIndex
  <1>15. CASE TruncateWal
    BY <1>15 DEF TruncateWal
  <1>16. CASE Crash
    BY <1>16, <1>a DEF Crash, fileVars
  <1>17. CASE CrashInWrite
    BY <1>17, <1>a, TornTyped, WalChanges, AddsTyped
  <1>18. CASE BackupAndRestore
    BY <1>18, <1>a DEF BackupAndRestore
  <1>19. CASE RenameTableFile
    BY <1>19, <1>a DEF RenameTableFile
  <1>20. CASE readSnapshot
    BY <1>20, <1>a DEF readSnapshot
  <1>21. CASE NoSnapshot
    BY <1>21, <1>a DEF NoSnapshot, fileVars
  <1>22. CASE ReadAllRecords
    BY <1>22, <1>a DEF ReadAllRecords, fileVars
  <1>23. CASE ReadAllRecordsFails
    BY <1>23, <1>a DEF ReadAllRecordsFails, fileVars
  <1>24. CASE ReplayClear
    BY <1>24, <1>a DEF ReplayClear
  <1>25. CASE ReplayClearFails
    BY <1>25, <1>a DEF ReplayClearFails, fileVars
  <1>26. CASE ReplayGroup
    BY <1>26, <1>a DEF ReplayGroup
  <1>27. CASE Opened
    BY <1>27, <1>a DEF Opened, fileVars
  <1>28. CASE UNCHANGED vars
    BY <1>28, <1>a DEF vars, fileVars
  <1> QED
    BY <1>1, <1>2, <1>3, <1>4, <1>5, <1>6, <1>7, <1>8, <1>9, <1>10, <1>11, <1>12, <1>13, <1>14,
       <1>15, <1>16, <1>17, <1>18, <1>19, <1>20, <1>21, <1>22, <1>23, <1>24, <1>25, <1>26, <1>27,
       <1>28, <1>29
    DEF Next, Commit, Compact, Open

\* Which actions change what.
LEMMA Frames ==
  ASSUME [Next]_vars
  PROVE  /\ wal' = wal \/ (\E t \in ChangeSets : Writes(t)) \/ AppendRollbackMarker \/
            WriteCommitMarker \/ WriteCommitMarkerFails \/ WriteRollbackMarker \/ CrashInWrite \/
            TruncateWal
         /\ snapshots' = snapshots \/ writeSnapshot \/ BackupAndRestore
         /\ generation' \in {generation, 0} \/ ApplyAndPublish \/ readSnapshot \/ ReplayGroup
         /\ nextId' = nextId \/ (nextId < MaxTransactions /\ nextId' = nextId + 1)
         /\ crashes' = crashes \/ (crashes < MaxCrashes /\ crashes' = crashes + 1)
         /\ tx' = tx \/ tx' = <<>> \/ \E t \in ChangeSets : tx' = <<t>>
         /\ todo' = todo \/ todo' = <<>> \/ ReadAllRecords \/ ReplayGroup
         /\ durable' = durable \/ (pc = "logged" /\ durable' = After(durable, tx[1]))
         /\ pc' # "unopenable" \/ ReadAllRecordsFails \/ ReplayClearFails \/ UNCHANGED vars
         /\ UNCHANGED <<failed, indoubt>> \/ AppendRollbackMarker \/ WriteCommitMarkerFails \/
            WriteRollbackMarker \/ ApplyClearFails \/ ApplyFails
  <1> USE DEF Next, Commit, Compact, Open, Writes, WriteMutations, WriteMutationsFails,
         NewTransaction, ProcessGone, vars, fileVars, processVars, ghostVars,
         AppendRollbackMarker, WriteCommitMarker, WriteCommitMarkerFails, AppendRecordsFails,
         WriteRollbackMarker, ApplyClear, ApplyClearFails, ApplyFails, CommitFails, ApplyAndPublish, Lookup, writeSnapshot,
         CompactStorage, CompactClearIndex, CompactRebuildIndex, TruncateWal, Crash, CrashInWrite,
         BackupAndRestore, RenameTableFile, readSnapshot, NoSnapshot, ReadAllRecords,
         ReadAllRecordsFails, ReplayClear, ReplayClearFails, ReplayGroup, Opened
  <1>1. wal' = wal \/ (\E t \in ChangeSets : Writes(t)) \/ AppendRollbackMarker \/ WriteCommitMarker
        \/ WriteCommitMarkerFails \/ WriteRollbackMarker \/ CrashInWrite \/ TruncateWal
    OBVIOUS
  <1>2. snapshots' = snapshots \/ writeSnapshot \/ BackupAndRestore
    OBVIOUS
  <1>3. generation' \in {generation, 0} \/ ApplyAndPublish \/ readSnapshot \/ ReplayGroup
    OBVIOUS
  <1>4. nextId' = nextId \/ (nextId < MaxTransactions /\ nextId' = nextId + 1)
    OBVIOUS
  <1>5. crashes' = crashes \/ (crashes < MaxCrashes /\ crashes' = crashes + 1)
    OBVIOUS
  <1>6. tx' = tx \/ tx' = <<>> \/ \E t \in ChangeSets : tx' = <<t>>
    OBVIOUS
  <1>7. todo' = todo \/ todo' = <<>> \/ ReadAllRecords \/ ReplayGroup
    OBVIOUS
  <1>8. durable' = durable \/ (pc = "logged" /\ durable' = After(durable, tx[1]))
    OBVIOUS
  <1>9. pc' # "unopenable" \/ ReadAllRecordsFails \/ ReplayClearFails \/ UNCHANGED vars
    OBVIOUS
  <1>10. UNCHANGED <<failed, indoubt>> \/ AppendRollbackMarker \/ WriteCommitMarkerFails \/
        WriteRollbackMarker \/ ApplyClearFails \/ ApplyFails
    OBVIOUS
  <1> QED BY <1>1, <1>2, <1>3, <1>4, <1>5, <1>6, <1>7, <1>8, <1>9, <1>10

\* The indexes stay indexes.
LEMMA IndexesTyped ==
  ASSUME BaseInv, [Next]_vars
  PROVE  disk' \in Index /\ mem' \in Index
  <1>a. /\ disk \in Index /\ mem \in Index
        /\ \A g \in DOMAIN snapshots : snapshots[g] \in Table
    BY DEF BaseInv, Types
  <1>c. Busy => tx[1] \in Transactions
    BY BusyType
  <1>d. todo # <<>> => Head(todo) \in Transactions
    BY DEF BaseInv, Types
  <1> DEFINE Goal == disk' \in Index /\ mem' \in Index
  <1>1. ASSUME NEW t \in ChangeSets, Writes(t) PROVE Goal
    BY <1>1, <1>a DEF Writes, WriteMutations, WriteMutationsFails
  <1>2. CASE AppendRollbackMarker
    BY <1>2, <1>a DEF AppendRollbackMarker, processVars
  <1>3. CASE WriteCommitMarker
    BY <1>3, <1>a DEF WriteCommitMarker
  <1>4. CASE WriteCommitMarkerFails
    BY <1>4, <1>a DEF WriteCommitMarkerFails
  <1>5. CASE AppendRecordsFails
    BY <1>5, <1>a DEF AppendRecordsFails, fileVars
  <1>6. CASE WriteRollbackMarker
    BY <1>6, <1>a DEF WriteRollbackMarker
  <1>7. CASE ApplyClear
    BY <1>7, <1>a, EmptyTypes DEF ApplyClear
  <1>8. CASE ApplyClearFails
    BY <1>8, <1>a, EmptyTypes DEF ApplyClearFails
  <1>29. CASE ApplyFails
    BY <1>29, <1>a DEF ApplyFails, Halfway
  <1>9. CASE ApplyAndPublish
    BY <1>9, <1>a, <1>c, ApplyType DEF ApplyAndPublish, Busy
  <1>10. CASE Lookup
    BY <1>10, <1>a DEF Lookup, processVars
  <1>11. CASE writeSnapshot
    <2>1. PICK found \in Scans(mem) : mem' = [mem EXCEPT !.val = found]
      BY <1>11 DEF writeSnapshot
    <2>2. found \in Table
      BY <1>a, IndexFields DEF Scans
    <2> QED BY <1>11, <1>a, <2>1, <2>2 DEF writeSnapshot, Index
  <1>12. CASE CompactStorage
    BY <1>12, <1>a, DanglingType DEF CompactStorage
  <1>13. CASE CompactClearIndex
    BY <1>13, <1>a, EmptyTypes DEF CompactClearIndex
  <1>14. CASE CompactRebuildIndex
    BY <1>14, <1>a, EmptyTypes, IndexFields, InsertType DEF CompactRebuildIndex
  <1>15. CASE TruncateWal
    BY <1>15, <1>a DEF TruncateWal
  <1>16. CASE Crash
    BY <1>16, <1>a, EmptyTypes DEF Crash, ProcessGone, fileVars
  <1>17. CASE CrashInWrite
    BY <1>17, <1>a, EmptyTypes DEF CrashInWrite, ProcessGone
  <1>18. CASE BackupAndRestore
    BY <1>18, <1>a, EmptyTypes DEF BackupAndRestore, ProcessGone
  <1>19. CASE RenameTableFile
    BY <1>19, <1>a, DanglingType DEF RenameTableFile
  <1>20. CASE readSnapshot
    <2>1. LatestSnapshot \in DOMAIN snapshots
      BY <1>20 DEF BaseInv, Generations, LatestSnapshot, readSnapshot
    <2>2. shadowInsert(disk, snapshots[LatestSnapshot]) \in Index
      BY <1>a, <2>1, InsertType
    <2> QED BY <1>20, <2>2 DEF readSnapshot
  <1>21. CASE NoSnapshot
    BY <1>21, <1>a DEF NoSnapshot, fileVars
  <1>22. CASE ReadAllRecords
    BY <1>22, <1>a DEF ReadAllRecords, fileVars
  <1>23. CASE ReadAllRecordsFails
    BY <1>23, <1>a, EmptyTypes DEF ReadAllRecordsFails, ProcessGone, fileVars
  <1>24. CASE ReplayClear
    BY <1>24, <1>a, EmptyTypes DEF ReplayClear
  <1>25. CASE ReplayClearFails
    BY <1>25, <1>a, EmptyTypes DEF ReplayClearFails, ProcessGone, fileVars
  <1>26. CASE ReplayGroup
    <2> DEFINE t == Head(todo)
               base == IF reset /\ (Live(t.inserts) # {} \/ Live(t.updates) # {}) THEN Dangling(mem) ELSE mem
    <2>1. todo # <<>>
      BY <1>26 DEF BaseInv, Replays, ReplayGroup
    <2>2. base \in Index /\ t \in Transactions
      BY <1>a, <1>d, <2>1, DanglingType
    <2>3. \E old \in OldRecords(base) : mem' = ApplyChanges(base, t, old)
      BY <1>26 DEF ReplayGroup
    <2>4. mem' \in Index
      <3> HIDE DEF base, t
      <3> QED BY <2>2, <2>3, ApplyType
    <2> QED BY <1>26, <2>4 DEF ReplayGroup
  <1>27. CASE Opened
    BY <1>27, <1>a DEF Opened, fileVars
  <1>28. CASE UNCHANGED vars
    BY <1>28, <1>a DEF vars, fileVars, processVars
  <1> QED
    BY <1>1, <1>2, <1>3, <1>4, <1>5, <1>6, <1>7, <1>8, <1>9, <1>10, <1>11, <1>12, <1>13, <1>14,
       <1>15, <1>16, <1>17, <1>18, <1>19, <1>20, <1>21, <1>22, <1>23, <1>24, <1>25, <1>26, <1>27,
       <1>28, <1>29
    DEF Next, Commit, Compact, Open

\* The latest snapshot is a snapshot, and none is later.
LEMMA LatestIn == BaseInv /\ DOMAIN snapshots # {} =>
    LatestSnapshot \in DOMAIN snapshots /\ \A h \in DOMAIN snapshots : h <= LatestSnapshot
  BY DEF BaseInv, Generations, LatestSnapshot

\* Snapshots stay tables.
LEMMA SnapshotsTyped ==
  ASSUME BaseInv, [Next]_vars
  PROVE  /\ DOMAIN snapshots' \subseteq 0..MaxTransactions
         /\ \A g \in DOMAIN snapshots' : snapshots'[g] \in Table
  <1>a. /\ DOMAIN snapshots \subseteq 0..MaxTransactions
        /\ \A g \in DOMAIN snapshots : snapshots[g] \in Table
        /\ generation \in 0..MaxTransactions
    BY DEF BaseInv, Types
  <1> DEFINE Goal == /\ DOMAIN snapshots' \subseteq 0..MaxTransactions
                     /\ \A g \in DOMAIN snapshots' : snapshots'[g] \in Table
  <1>1. CASE UNCHANGED snapshots
    BY <1>1, <1>a
  <1>2. CASE writeSnapshot
    BY <1>2, <1>a DEF writeSnapshot, OldRecords
  <1>3. CASE BackupAndRestore
    BY <1>3, <1>a DEF BackupAndRestore
  <1> QED BY <1>1, <1>2, <1>3, Frames

\* The other variables keep their types.
LEMMA CountersTyped ==
  ASSUME BaseInv, [Next]_vars
  PROVE  /\ nextId' \in 0..MaxTransactions /\ nextId <= nextId'
         /\ crashes' \in 0..MaxCrashes
  <1>a. nextId \in 0..MaxTransactions /\ crashes \in 0..MaxCrashes /\
        MaxTransactions \in Nat /\ MaxCrashes \in Nat
    BY RecoveryAssumption DEF BaseInv, Types
  <1>1. nextId' = nextId \/ (nextId < MaxTransactions /\ nextId' = nextId + 1)
    BY Frames
  <1>2. crashes' = crashes \/ (crashes < MaxCrashes /\ crashes' = crashes + 1)
    BY Frames
  <1> QED BY <1>a, <1>1, <1>2

\* The generation stays below the number of transactions.
LEMMA GenerationTyped ==
  ASSUME BaseInv, [Next]_vars
  PROVE  generation' \in 0..MaxTransactions
  <1>a. generation \in 0..MaxTransactions /\ nextId \in 0..MaxTransactions /\ MaxTransactions \in Nat
    BY RecoveryAssumption DEF BaseInv, Types
  <1>1. CASE generation' \in {generation, 0}
    BY <1>1, <1>a
  <1>2. CASE ApplyAndPublish
    <2>1. Busy
      BY <1>2 DEF ApplyAndPublish, Busy
    <2>2. generation' = generation + 1 /\ generation < nextId
      BY <1>2, <2>1 DEF BaseInv, Writing, ApplyAndPublish
    <2> QED BY <1>a, <2>2
  <1>3. CASE readSnapshot
    BY <1>3, <1>a, LatestIn DEF BaseInv, Types, Generations, readSnapshot
  <1>4. CASE ReplayGroup
    <2>1. todo # <<>> /\ todo \in Seq(Transactions)
      BY <1>4 DEF BaseInv, Types, Replays, ReplayGroup
    <2>2. Head(todo) \in Pending
      BY <2>1 DEF Pending
    <2>3. Head(todo).gen \in 1..nextId
      BY <2>2 DEF BaseInv, Replays
    <2>4. generation' = generation \/ generation' = Head(todo).gen
      BY <1>4 DEF ReplayGroup
    <2> QED BY <1>a, <2>3, <2>4
  <1> QED
    BY <1>1, <1>2, <1>3, <1>4, Frames

\* Control stays at one of the named places.
LEMMA ControlTyped ==
  ASSUME BaseInv, [Next]_vars
  PROVE  pc' \in {"idle", "logged", "failed", "marked", "cleared",
                  "snapshotted", "swapped", "emptied", "rebuilt",
                  "down", "renamed", "restored", "replay", "replaycleared",
                  "unopenable"}
  BY DEF BaseInv, Types, Next, Commit, Compact, Open, Writes, WriteMutations, WriteMutationsFails,
     NewTransaction, ProcessGone, vars, fileVars, processVars, ghostVars, AppendRollbackMarker,
     WriteCommitMarker, WriteCommitMarkerFails, AppendRecordsFails, WriteRollbackMarker,
     ApplyClear, ApplyClearFails, ApplyFails, CommitFails, ApplyAndPublish, Lookup, writeSnapshot, CompactStorage,
     CompactClearIndex, CompactRebuildIndex, TruncateWal, Crash, CrashInWrite, BackupAndRestore,
     RenameTableFile, readSnapshot, NoSnapshot, ReadAllRecords, ReadAllRecordsFails, ReplayClear,
     ReplayClearFails, ReplayGroup, Opened

\* There is at most one transaction being written.
LEMMA TransactionTyped ==
  ASSUME BaseInv, [Next]_vars
  PROVE  tx' \in Seq(Transactions) /\ Len(tx') <= 1
  <1>1. CASE tx' = tx
    BY <1>1 DEF BaseInv, Types
  <1>2. CASE tx' = <<>>
    BY <1>2
  <1>3. ASSUME NEW t \in ChangeSets, tx' = <<t>> PROVE tx' \in Seq(Transactions) /\ Len(tx') <= 1
    BY <1>3, ChangeSetType
  <1> QED BY <1>1, <1>2, <1>3, Frames

\* What Open has still to replay are transactions.
LEMMA TodoTyped ==
  ASSUME BaseInv, [Next]_vars
  PROVE  todo' \in Seq(Transactions)
  <1>a. todo \in Seq(Transactions) /\ wal \in Seq(Records)
    BY DEF BaseInv, Types
  <1>1. CASE todo' = todo
    BY <1>1, <1>a
  <1>4. CASE todo' = <<>>
    BY <1>4
  <1>2. CASE ReadAllRecords
    <2>1. PICK n \in 0..Len(wal) : ReadableRecords = SubSeq(wal, 1, n)
      BY <1>a, ReadablePrefix
    <2>2. ReadableRecords \in Seq(Records)
      BY <1>a, <2>1
    <2>3. todo' \in Seq(CommittedGroups(ReadableRecords))
      BY <1>2, <2>2, OrderExact DEF ReadAllRecords
    <2>4. \A t \in CommittedGroups(ReadableRecords) : t \in Transactions
      BY <1>a, <2>1, PrefixGroups, LoggedRecords, RecordFields
    <2> QED BY <2>3, <2>4
  <1>3. CASE ReplayGroup
    <2>1. todo # <<>> /\ todo' = Tail(todo)
      BY <1>3 DEF BaseInv, Replays, ReplayGroup
    <2> QED BY <1>a, <2>1
  <1> QED
    BY <1>1, <1>2, <1>3, <1>4, Frames

\* What the committed transactions made is a table.
LEMMA DurableTyped ==
  ASSUME BaseInv, [Next]_vars
  PROVE  durable' \in Table
  <1>a. durable \in Table
    BY DEF BaseInv, Types
  <1>1. CASE durable' = durable
    BY <1>1, <1>a
  <1>2. CASE pc = "logged" /\ durable' = After(durable, tx[1])
    <2>1. tx[1] \in Transactions
      BY <1>2, BusyType DEF Busy
    <2> QED BY <1>2, <1>a, <2>1, AfterType
  <1> QED
    BY <1>1, <1>2, Frames

\* How transactions come to be reported as failed.
LEMMA FailedTyped ==
  ASSUME BaseInv, [Next]_vars
  PROVE  failed' \subseteq 1..MaxTransactions /\ indoubt' \subseteq failed'
  <1>a. /\ failed \subseteq 1..MaxTransactions /\ indoubt \subseteq failed
        /\ nextId \in 0..MaxTransactions /\ MaxTransactions \in Nat
    BY RecoveryAssumption DEF BaseInv, Types
  <1>b. Busy => tx[1].id = nextId /\ nextId \in 1..MaxTransactions
    <2>1. Busy => generation < nextId /\ generation \in 0..MaxTransactions
      BY DEF BaseInv, Types, Writing
    <2> QED BY <1>a, <2>1, BusyType
  <1>1. CASE UNCHANGED <<failed, indoubt>>
    BY <1>1, <1>a
  <1>2. CASE AppendRollbackMarker
    BY <1>2, <1>a DEF AppendRollbackMarker
  <1>3. CASE WriteCommitMarkerFails \/ WriteRollbackMarker \/ ApplyClearFails \/ ApplyFails
    <2>1. Busy /\ failed' = failed \cup {tx[1].id} /\ indoubt' \subseteq indoubt \cup {tx[1].id}
      BY <1>3 DEF WriteCommitMarkerFails, WriteRollbackMarker, ApplyClearFails, ApplyFails, CommitFails, Busy
    <2> QED BY <1>a, <1>b, <2>1
  <1> QED
    BY <1>1, <1>2, <1>3, Frames

\* Every variable keeps its type.
LEMMA TypesKept ==
  ASSUME BaseInv, [Next]_vars
  PROVE  Types'
  BY WalTyped, IndexesTyped, SnapshotsTyped, CountersTyped, GenerationTyped, ControlTyped,
     TransactionTyped, TodoTyped, DurableTyped, FailedTyped DEF Types

\* The COMMIT marker that could not be written and synced is there, or it is not.
LEMMA MarkerFailure ==
  ASSUME BaseInv, WriteCommitMarkerFails
  PROVE  \/ /\ wal' = wal \o <<Marker("commit", tx[1].id)>>
            /\ indoubt' = indoubt \cup {tx[1].id}
            /\ durable' = After(durable, tx[1])
         \/ /\ Adds(TornParts)
            /\ UNCHANGED <<durable, indoubt>>
  <1> DEFINE m == Marker("commit", tx[1].id)
  <1>1. PICK left \in Leftovers(m) :
           /\ AppendWal(left)
           /\ IF left # <<>> /\ left[1].type = "commit"
              THEN durable' = After(durable, tx[1]) /\ indoubt' = indoubt \cup {tx[1].id}
              ELSE UNCHANGED <<durable, indoubt>>
    BY DEF WriteCommitMarkerFails, Marker
  <1>2. left = <<>> \/ left = <<m>> \/ left = <<Torn(TRUE)>> \/ left = <<Torn(FALSE)>>
    BY LeftoversAre
  <1>3. wal' = wal \o left
    BY <1>1 DEF AppendWal
  <1>4. CASE left = <<m>>
    <2>1. left # <<>> /\ left[1] = m /\ m.type = "commit"
      BY <1>4 DEF Marker
    <2> QED BY <1>1, <1>3, <1>4, <2>1
  <1>5. CASE left = <<>>
    <2>1. wal' = wal
      BY <1>3, <1>5 DEF BaseInv, Types
    <2> QED BY <1>1, <1>5, <2>1 DEF Adds
  <1>6. ASSUME NEW b \in BOOLEAN, left = <<Torn(b)>> PROVE Adds({Torn(b)}) /\ UNCHANGED <<durable, indoubt>>
    <2>1. left[1].type # "commit"
      BY <1>6 DEF Torn
    <2> QED BY <1>1, <1>3, <1>6, <2>1 DEF Adds
  <1> QED BY <1>2, <1>4, <1>5, <1>6 DEF Adds, TornParts

\* The records a step adds.
LEMMA NewRecord ==
  ASSUME wal \in Seq(Records), NEW X, Adds(X), X \subseteq Records
  PROVE  \A r \in Logged' : r \in Logged \/ r \in X
  BY AddsTyped

\* What processTasks and Rollback write are records, with the type and id they say.
LEMMA MarkerTyped ==
  ASSUME BaseInv
  PROVE  /\ \A t \in ChangeSets :
                Mutations(t) \in Records /\ Mutations(t).type = "mutations" /\ Mutations(t).tx = t
         /\ Marker("rollback", nextId + 1) \in Records
         /\ Busy => Marker("rollback", tx[1].id) \in Records /\ Marker("commit", tx[1].id) \in Records
         /\ \A kind, n : Marker(kind, n).type = kind /\ Marker(kind, n).id = n
  <1>1. nextId \in Nat /\ nextId + 1 \in Nat
    BY RecoveryAssumption DEF BaseInv, Types
  <1>2. \A t \in ChangeSets : Mutations(t) \in Records
    BY ChangeSetType, NewRecords DEF Mutations
  <1>3. Marker("rollback", nextId + 1) \in Records
    BY <1>1, NewRecords DEF Marker
  <1>4. Busy => Marker("rollback", tx[1].id) \in Records /\ Marker("commit", tx[1].id) \in Records
    BY <1>1, BusyType, NewRecords DEF Marker
  <1> QED BY <1>2, <1>3, <1>4 DEF Mutations, Marker

\* What the WAL may have after a step.
LEMMA LoggedAfter ==
  ASSUME BaseInv, [Next]_vars
  PROVE  \/ Logged' \subseteq Logged
         \/ \E t \in ChangeSets : Writes(t) /\ \A r \in Logged' :
                r \in Logged \/ r = Mutations(t) \/ r \in TornParts
         \/ AppendRollbackMarker /\ \A r \in Logged' :
                r \in Logged \/ r = Marker("rollback", nextId + 1) \/ r \in TornParts
         \/ WriteCommitMarker /\ \A r \in Logged' : r \in Logged \/ r = Marker("commit", tx[1].id)
         \/ WriteCommitMarkerFails /\ \A r \in Logged' :
                r \in Logged \/ r \in TornParts \/
                (r = Marker("commit", tx[1].id) /\ tx[1].id \in indoubt')
         \/ WriteRollbackMarker /\ \A r \in Logged' :
                r \in Logged \/ r = Marker("rollback", tx[1].id) \/ r \in TornParts
         \/ CrashInWrite /\ \A r \in Logged' : r \in Logged \/ r \in TornParts
  <1>a. wal \in Seq(Records)
    BY DEF BaseInv, Types
  <1>1. CASE wal' = wal
    BY <1>1 DEF Logged
  <1>2. ASSUME NEW t \in ChangeSets, Writes(t)
        PROVE  \A r \in Logged' : r \in Logged \/ r = Mutations(t) \/ r \in TornParts
    <2>1. {Mutations(t)} \cup TornParts \subseteq Records
      BY MarkerTyped, TornTyped
    <2> QED BY <1>a, <1>2, <2>1, WalChanges, NewRecord
  <1>3. ASSUME AppendRollbackMarker
        PROVE  \A r \in Logged' : r \in Logged \/ r = Marker("rollback", nextId + 1) \/ r \in TornParts
    <2>1. {Marker("rollback", nextId + 1)} \cup TornParts \subseteq Records
      BY MarkerTyped, TornTyped
    <2> QED BY <1>a, <1>3, <2>1, WalChanges, NewRecord
  <1>4. ASSUME WriteCommitMarker
        PROVE  \A r \in Logged' : r \in Logged \/ r = Marker("commit", tx[1].id)
    <2>1. Marker("commit", tx[1].id) \in Records
      BY <1>4, MarkerTyped DEF WriteCommitMarker, Busy
    <2>2. Logged' = Logged \cup {Marker("commit", tx[1].id)}
      BY <1>a, <1>4, <2>1, WalChanges, Appended
    <2> QED BY <2>2
  <1>5. ASSUME WriteCommitMarkerFails
        PROVE  \A r \in Logged' : r \in Logged \/ r \in TornParts \/
                   (r = Marker("commit", tx[1].id) /\ tx[1].id \in indoubt')
    <2>1. Marker("commit", tx[1].id) \in Records
      BY <1>5, MarkerTyped DEF WriteCommitMarkerFails, Busy
    <2>2. CASE wal' = wal \o <<Marker("commit", tx[1].id)>> /\ indoubt' = indoubt \cup {tx[1].id}
      <3>1. Logged' = Logged \cup {Marker("commit", tx[1].id)}
        BY <1>a, <2>1, <2>2, Appended
      <3> QED BY <2>2, <3>1
    <2>3. CASE Adds(TornParts)
      BY <1>a, <2>3, TornTyped, NewRecord
    <2> QED BY <1>5, <2>2, <2>3, MarkerFailure
  <1>6. ASSUME WriteRollbackMarker
        PROVE  \A r \in Logged' : r \in Logged \/ r = Marker("rollback", tx[1].id) \/ r \in TornParts
    <2>1. {Marker("rollback", tx[1].id)} \cup TornParts \subseteq Records
      BY <1>6, MarkerTyped, TornTyped DEF WriteRollbackMarker, Busy
    <2> QED BY <1>a, <1>6, <2>1, WalChanges, NewRecord
  <1>7. ASSUME CrashInWrite PROVE \A r \in Logged' : r \in Logged \/ r \in TornParts
    BY <1>a, <1>7, TornTyped, WalChanges, NewRecord
  <1>8. ASSUME TruncateWal PROVE Logged' = {}
    BY <1>8 DEF TruncateWal, Logged
  <1> QED BY <1>1, <1>2, <1>3, <1>4, <1>5, <1>6, <1>7, <1>8, Frames

\* The ids in the WAL were handed out.
LEMMA WalIdsKept ==
  ASSUME BaseInv, [Next]_vars
  PROVE  WalIds'
  <1>a. WalIds /\ nextId \in Nat /\ generation \in Nat /\ generation <= nextId
    BY RecoveryAssumption DEF BaseInv, Types, Generations
  <1>b. nextId' \in Nat /\ nextId <= nextId'
    BY CountersTyped, RecoveryAssumption
  <1> DEFINE Fine(r) == /\ r.type = "mutations" => r.tx.id \in 1..nextId' /\ r.tx.gen \in 1..nextId'
                        /\ r.type \in {"commit", "rollback"} => r.id \in 1..nextId'
  <1>c. \A r \in Logged : Fine(r)
    BY <1>a, <1>b DEF WalIds
  <1>d. \A r \in TornParts : Fine(r)
    BY TornTyped
  <1>e. Busy => tx[1].id = nextId /\ nextId >= 1
    <2>1. Busy => generation < nextId
      BY DEF BaseInv, Writing
    <2> QED BY <1>a, <2>1, BusyType
  <1>f. \A kind \in {"commit", "rollback"} : Busy => Fine(Marker(kind, tx[1].id))
    BY <1>a, <1>b, <1>e DEF Marker
  <1>1. ASSUME NEW t \in ChangeSets, Writes(t) PROVE Fine(Mutations(t))
    <2>1. t.id = nextId + 1 /\ t.gen = generation + 1 /\ nextId' = nextId + 1
      BY <1>1 DEF Writes, WriteMutations, WriteMutationsFails, NewTransaction
    <2> QED BY <1>a, <2>1 DEF Mutations
  <1>2. ASSUME AppendRollbackMarker PROVE Fine(Marker("rollback", nextId + 1))
    <2>1. nextId' = nextId + 1
      BY <1>2 DEF AppendRollbackMarker
    <2> QED BY <1>a, <2>1 DEF Marker
  <1>3. WriteCommitMarker \/ WriteCommitMarkerFails \/ WriteRollbackMarker => Busy
    BY DEF WriteCommitMarker, WriteCommitMarkerFails, WriteRollbackMarker, Busy
  <1>4. \A r \in Logged' : Fine(r)
    <2> HIDE DEF Fine
    <2> QED BY <1>c, <1>d, <1>f, <1>1, <1>2, <1>3, LoggedAfter
  <1> QED BY <1>4 DEF WalIds

\* A COMMIT marker of a transaction reported as failed is in doubt.
LEMMA FailedMarkedKept ==
  ASSUME BaseInv, [Next]_vars
  PROVE  FailedMarked'
  <1>a. FailedMarked /\ WalIds /\ Writing /\ nextId \in Nat
    BY RecoveryAssumption DEF BaseInv, Types
  <1>b. Busy => tx[1].id = nextId
    BY BusyType
  <1> DEFINE Fine(r) == r.type = "commit" /\ r.id \in failed' => r.id \in indoubt'
  <1>c. \A r \in TornParts : Fine(r)
    BY TornTyped
  <1>d. \A n : Fine(Marker("rollback", n))
    BY DEF Marker
  <1>e. \A t \in ChangeSets : Fine(Mutations(t))
    BY DEF Mutations
  <1>f. \A r \in Logged : Fine(r)
    <2>1. CASE UNCHANGED <<failed, indoubt>>
      BY <1>a, <2>1 DEF FailedMarked
    <2>2. CASE AppendRollbackMarker
      BY <1>a, <2>2 DEF AppendRollbackMarker, FailedMarked, WalIds
    <2>3. CASE WriteCommitMarkerFails \/ WriteRollbackMarker
      <3>1. /\ failed' = failed \cup {nextId} /\ indoubt \subseteq indoubt'
            /\ \A r \in Logged : r.type = "commit" => r.id # nextId
        BY <1>a, <1>b, <2>3 DEF WriteCommitMarkerFails, WriteRollbackMarker, Writing, Busy
      <3> QED BY <1>a, <3>1 DEF FailedMarked
    <2>4. CASE ApplyClearFails \/ ApplyFails
      BY <1>a, <2>4 DEF ApplyClearFails, ApplyFails, CommitFails, FailedMarked
    <2> QED BY <2>1, <2>2, <2>3, <2>4, Frames
  <1>g. ASSUME WriteCommitMarker PROVE Fine(Marker("commit", tx[1].id))
    BY <1>a, <1>b, <1>g DEF WriteCommitMarker, Writing, Busy, Marker
  <1>h. tx[1].id \in indoubt' => Fine(Marker("commit", tx[1].id))
    BY DEF Marker
  <1>1. \A r \in Logged' : Fine(r)
    <2> HIDE DEF Fine
    <2> QED BY <1>c, <1>d, <1>e, <1>f, <1>g, <1>h, LoggedAfter
  <1> QED BY <1>1 DEF FailedMarked

\* Writing mutations adds no marker.
LEMMA AddsRest ==
  ASSUME BaseInv, NEW t \in ChangeSets, Writes(t)
  PROVE  \A r \in Logged' : r.type \in {"commit", "rollback"} => r \in Logged
  <1>1. {Mutations(t)} \cup TornParts \subseteq Records
    BY MarkerTyped, TornTyped
  <1>2. \A r \in Logged' : r \in Logged \/ r = Mutations(t) \/ r \in TornParts
    BY <1>1, WalChanges, NewRecord DEF BaseInv, Types
  <1>3. Mutations(t).type = "mutations"
    BY DEF Mutations
  <1> QED BY <1>2, <1>3, TornTyped

\* The transaction being written is the last one that began.
LEMMA WritingKept ==
  ASSUME BaseInv, [Next]_vars
  PROVE  Writing'
  <1>a. /\ Writing /\ WalIds /\ nextId \in Nat /\ generation \in Nat /\ generation <= nextId
        /\ \A t \in Pending : t.gen \in 1..nextId
    BY RecoveryAssumption DEF BaseInv, Types, Generations, Replays
  <1>b. wal \in Seq(Records)
    BY DEF BaseInv, Types
  <1> DEFINE Goal == Writing'

  <1>1. ASSUME NEW t \in ChangeSets, Writes(t) PROVE Goal
    <2>1. tx' = <<t>> /\ nextId' = nextId + 1 /\ t.id = nextId + 1 /\ t.gen = generation + 1
      BY <1>1 DEF Writes, WriteMutations, WriteMutationsFails, NewTransaction
    <2>2. pc' \in {"logged", "failed"} /\ UNCHANGED <<failed, generation>>
      BY <1>1 DEF Writes, WriteMutations, WriteMutationsFails
    <2>3. Len(tx') = 1 /\ tx'[1] = t
      BY <2>1
    <2>4. \A r \in Logged' : r.type \in {"commit", "rollback"} => r \in Logged
      BY <1>1, <1>b, AddsRest DEF Mutations
    <2>5. \A r \in Logged' : r.type \in {"commit", "rollback"} => r.id # nextId + 1
      BY <1>a, <2>4 DEF WalIds
    <2>6. Busy'
      BY <2>2 DEF Busy
    <2>7. nextId + 1 \notin failed /\ failed \subseteq 1..(nextId + 1) /\ generation < nextId + 1
      BY <1>a DEF Writing
    <2> QED BY <2>1, <2>2, <2>3, <2>5, <2>6, <2>7 DEF Writing
  <1>2. CASE AppendRollbackMarker
    <2>1. pc = "idle" /\ UNCHANGED <<pc, tx>> /\ nextId' = nextId + 1 /\ failed' = failed \cup {nextId + 1}
      BY <1>2 DEF AppendRollbackMarker, processVars
    <2>2. tx = <<>>
      BY <1>a, <2>1 DEF Writing, Busy
    <2>3. failed' \subseteq 1..nextId'
      BY <1>a, <2>1 DEF Writing
    <2> QED BY <2>1, <2>2, <2>3 DEF Writing, Busy
  <1>3. CASE WriteCommitMarker
    BY <1>3, <1>a DEF WriteCommitMarker, Writing, Busy
  <1>4. CASE WriteCommitMarkerFails
    <2>1. pc = "logged" /\ pc' = "idle" /\ tx' = <<>> /\ nextId' = nextId /\ failed' = failed \cup {tx[1].id}
      BY <1>4 DEF WriteCommitMarkerFails
    <2>2. tx[1].id = nextId /\ generation < nextId
      BY <1>a, <2>1 DEF Writing, Busy
    <2>3. failed' \subseteq 1..nextId'
      BY <1>a, <2>1, <2>2 DEF Writing
    <2> QED BY <2>1, <2>3 DEF Writing, Busy
  <1>5. CASE AppendRecordsFails
    <2>1. Logged' = Logged
      BY <1>5 DEF AppendRecordsFails, fileVars, Logged
    <2> QED BY <1>5, <1>a, <2>1 DEF AppendRecordsFails, ghostVars, Writing, Busy
  <1>6. CASE WriteRollbackMarker
    <2>1. pc = "failed" /\ pc' = "idle" /\ tx' = <<>> /\ nextId' = nextId /\ failed' = failed \cup {tx[1].id}
      BY <1>6 DEF WriteRollbackMarker
    <2>2. tx[1].id = nextId /\ generation < nextId
      BY <1>a, <2>1 DEF Writing, Busy
    <2>3. failed' \subseteq 1..nextId'
      BY <1>a, <2>1, <2>2 DEF Writing
    <2> QED BY <2>1, <2>3 DEF Writing, Busy
  <1>7. CASE ApplyClear
    BY <1>7, <1>a DEF ApplyClear, Writing, Busy, ghostVars
  <1>8. CASE ApplyClearFails
    <2>1. pc = "marked" /\ pc' = "idle" /\ tx' = <<>> /\ nextId' = nextId /\ failed' = failed \cup {tx[1].id}
      BY <1>8 DEF ApplyClearFails, CommitFails
    <2>2. tx[1].id = nextId /\ generation < nextId
      BY <1>a, <2>1 DEF Writing, Busy
    <2>3. failed' \subseteq 1..nextId'
      BY <1>a, <2>1, <2>2 DEF Writing
    <2> QED BY <2>1, <2>3 DEF Writing, Busy
  <1>29. CASE ApplyFails
    <2>1. pc \in {"marked", "cleared"} /\ pc' = "idle" /\ tx' = <<>> /\ nextId' = nextId /\ failed' = failed \cup {tx[1].id}
      BY <1>29 DEF ApplyFails, CommitFails
    <2>2. tx[1].id = nextId /\ generation < nextId
      BY <1>a, <2>1 DEF Writing, Busy
    <2>3. failed' \subseteq 1..nextId'
      BY <1>a, <2>1, <2>2 DEF Writing
    <2> QED BY <2>1, <2>3 DEF Writing, Busy
  <1>9. CASE ApplyAndPublish
    BY <1>9, <1>a DEF ApplyAndPublish, Writing, Busy, ghostVars
  <1>10. CASE Lookup
    BY <1>10, <1>a DEF Lookup, Writing, Busy, processVars, ghostVars
  <1>11. CASE writeSnapshot
    BY <1>11, <1>a DEF writeSnapshot, Writing, Busy
  <1>12. CASE CompactStorage
    BY <1>12, <1>a DEF CompactStorage, Writing, Busy, ghostVars
  <1>13. CASE CompactClearIndex
    BY <1>13, <1>a DEF CompactClearIndex, Writing, Busy, ghostVars
  <1>14. CASE CompactRebuildIndex
    BY <1>14, <1>a DEF CompactRebuildIndex, Writing, Busy, ghostVars
  <1>15. CASE TruncateWal
    BY <1>15, <1>a DEF TruncateWal, Writing, Busy, ghostVars
  <1>16. CASE Crash
    BY <1>16, <1>a DEF Crash, Writing, Busy, ProcessGone, fileVars
  <1>17. CASE CrashInWrite
    BY <1>17, <1>a DEF CrashInWrite, Writing, Busy, ProcessGone
  <1>18. CASE BackupAndRestore
    BY <1>18, <1>a DEF BackupAndRestore, Writing, Busy, ProcessGone
  <1>19. CASE RenameTableFile
    BY <1>19, <1>a DEF RenameTableFile, Writing, Busy, ghostVars
  <1>20. CASE readSnapshot
    BY <1>20, <1>a DEF readSnapshot, Writing, Busy, ghostVars
  <1>21. CASE NoSnapshot
    BY <1>21, <1>a DEF NoSnapshot, Writing, Busy, fileVars, ghostVars
  <1>22. CASE ReadAllRecords
    BY <1>22, <1>a DEF ReadAllRecords, Writing, Busy, fileVars, ghostVars
  <1>23. CASE ReadAllRecordsFails
    BY <1>23, <1>a DEF ReadAllRecordsFails, Writing, Busy, ProcessGone, fileVars, ghostVars
  <1>24. CASE ReplayClear
    BY <1>24, <1>a DEF ReplayClear, Writing, Busy, ghostVars
  <1>25. CASE ReplayClearFails
    BY <1>25, <1>a DEF ReplayClearFails, Writing, Busy, ProcessGone, fileVars, ghostVars
  <1>26. CASE ReplayGroup
    BY <1>26, <1>a DEF ReplayGroup, Writing, Busy, ghostVars
  <1>27. CASE Opened
    BY <1>27, <1>a DEF Opened, Writing, Busy, fileVars, ghostVars
  <1>28. CASE UNCHANGED vars
    <2>1. Logged' = Logged
      BY <1>28 DEF vars, fileVars, Logged
    <2> QED BY <1>28, <1>a, <2>1 DEF vars, processVars, ghostVars, Writing, Busy
  <1> QED
    BY <1>1, <1>2, <1>3, <1>4, <1>5, <1>6, <1>7, <1>8, <1>9, <1>10, <1>11, <1>12, <1>13, <1>14,
       <1>15, <1>16, <1>17, <1>18, <1>19, <1>20, <1>21, <1>22, <1>23, <1>24, <1>25, <1>26, <1>27,
       <1>28, <1>29
    DEF Next, Commit, Compact, Open

\* Generations do not run ahead of ids, snapshots not ahead of generations.
LEMMA GenerationsKept ==
  ASSUME BaseInv, [Next]_vars
  PROVE  Generations'
  <1>a. /\ Generations /\ nextId \in Nat /\ generation \in Nat
        /\ \A g \in DOMAIN snapshots : g \in Nat
        /\ nextId' \in Nat /\ nextId <= nextId'
    BY CountersTyped, RecoveryAssumption DEF BaseInv, Types
  <1> DEFINE Goal == Generations'

  <1>1. ASSUME NEW t \in ChangeSets, Writes(t) PROVE Goal
    <2>1. UNCHANGED <<generation, snapshots>> /\ pc = "idle" /\ pc' \in {"logged", "failed"}
      BY <1>1 DEF Writes, WriteMutations, WriteMutationsFails, NewTransaction
    <2> QED BY <1>a, <2>1 DEF Generations
  <1>2. CASE AppendRollbackMarker
    <2>1. UNCHANGED <<generation, snapshots, pc>>
      BY <1>2 DEF AppendRollbackMarker, processVars
    <2> QED BY <1>a, <2>1 DEF Generations
  <1>3. CASE WriteCommitMarker
    BY <1>3, <1>a DEF WriteCommitMarker, Generations
  <1>4. CASE WriteCommitMarkerFails
    BY <1>4, <1>a DEF WriteCommitMarkerFails, Generations
  <1>5. CASE AppendRecordsFails
    BY <1>5, <1>a DEF AppendRecordsFails, Generations, fileVars, ghostVars
  <1>6. CASE WriteRollbackMarker
    BY <1>6, <1>a DEF WriteRollbackMarker, Generations
  <1>7. CASE ApplyClear
    BY <1>7, <1>a DEF ApplyClear, Generations, ghostVars
  <1>8. CASE ApplyClearFails
    BY <1>8, <1>a DEF ApplyClearFails, CommitFails, Generations, fileVars
  <1>29. CASE ApplyFails
    BY <1>29, <1>a DEF ApplyFails, CommitFails, Generations, fileVars
  <1>9. CASE ApplyAndPublish
    <2>1. UNCHANGED <<nextId, snapshots>> /\ pc' = "idle" /\ pc \in {"marked", "cleared"} /\
          generation' = tx[1].gen
      BY <1>9 DEF ApplyAndPublish, ghostVars
    <2>2. generation' = generation + 1 /\ generation < nextId
      BY <2>1 DEF BaseInv, Writing, Busy
    <2> QED BY <1>a, <2>1, <2>2 DEF Generations
  <1>10. CASE Lookup
    BY <1>10, <1>a DEF Lookup, Generations, processVars, ghostVars
  <1>11. CASE writeSnapshot
    <2>1. UNCHANGED <<nextId, generation>> /\ pc = "idle" /\ pc' = "snapshotted" /\
          DOMAIN snapshots' = DOMAIN snapshots \cup {generation}
      BY <1>11 DEF writeSnapshot, ghostVars
    <2> QED BY <1>a, <2>1 DEF Generations
  <1>12. CASE CompactStorage
    BY <1>12, <1>a DEF CompactStorage, Generations, ghostVars
  <1>13. CASE CompactClearIndex
    BY <1>13, <1>a DEF CompactClearIndex, Generations, ghostVars
  <1>14. CASE CompactRebuildIndex
    BY <1>14, <1>a DEF CompactRebuildIndex, Generations, ghostVars
  <1>15. CASE TruncateWal
    BY <1>15, <1>a DEF TruncateWal, Generations, ghostVars
  <1>16. CASE Crash
    <2>1. UNCHANGED <<nextId, snapshots>> /\ generation' = 0 /\ pc' = "down"
      BY <1>16 DEF Crash, ProcessGone, fileVars
    <2> QED BY <1>a, <2>1 DEF Generations
  <1>17. CASE CrashInWrite
    <2>1. UNCHANGED <<nextId, snapshots>> /\ generation' = 0 /\ pc' = "down"
      BY <1>17 DEF CrashInWrite, ProcessGone
    <2> QED BY <1>a, <2>1 DEF Generations
  <1>18. CASE BackupAndRestore
    <2>1. UNCHANGED nextId /\ generation' = 0 /\ pc' = "down" /\
          DOMAIN snapshots' = {h \in DOMAIN snapshots : h = LatestSnapshot}
      BY <1>18 DEF BackupAndRestore, ProcessGone
    <2> QED BY <1>a, <2>1 DEF Generations
  <1>19. CASE RenameTableFile
    BY <1>19, <1>a DEF RenameTableFile, Generations, ghostVars
  <1>20. CASE readSnapshot
    <2>1. UNCHANGED <<nextId, snapshots>> /\ pc = "renamed" /\ pc' = "restored" /\
          generation' = LatestSnapshot
      BY <1>20 DEF readSnapshot, ghostVars
    <2>2. LatestSnapshot \in DOMAIN snapshots /\ \A h \in DOMAIN snapshots : h <= LatestSnapshot
      BY <1>a, <2>1, LatestIn DEF Generations
    <2> QED BY <1>a, <2>1, <2>2 DEF Generations
  <1>21. CASE NoSnapshot
    BY <1>21, <1>a DEF NoSnapshot, Generations, fileVars, ghostVars
  <1>22. CASE ReadAllRecords
    BY <1>22, <1>a DEF ReadAllRecords, Generations, fileVars, ghostVars
  <1>23. CASE ReadAllRecordsFails
    <2>1. UNCHANGED <<nextId, snapshots>> /\ generation' = 0 /\ pc' = "unopenable"
      BY <1>23 DEF ReadAllRecordsFails, ProcessGone, fileVars, ghostVars
    <2> QED BY <1>a, <2>1 DEF Generations
  <1>24. CASE ReplayClear
    BY <1>24, <1>a DEF ReplayClear, Generations, ghostVars
  <1>25. CASE ReplayClearFails
    <2>1. UNCHANGED <<nextId, snapshots>> /\ generation' = 0 /\ pc' = "unopenable"
      BY <1>25 DEF ReplayClearFails, ProcessGone, fileVars, ghostVars
    <2> QED BY <1>a, <2>1 DEF Generations
  <1>26. CASE ReplayGroup
    <2>1. todo # <<>> /\ todo \in Seq(Transactions)
      BY <1>26 DEF BaseInv, Types, Replays, ReplayGroup
    <2>2. Head(todo) \in Pending
      BY <2>1 DEF Pending
    <2>3. Head(todo).gen \in 1..nextId
      BY <2>2 DEF BaseInv, Replays
    <2>4. generation' = IF Head(todo).gen > generation THEN Head(todo).gen ELSE generation
      BY <1>26 DEF ReplayGroup
    <2>5. UNCHANGED <<nextId, snapshots>> /\ pc' = "replay" /\ pc \in {"replay", "replaycleared"}
      BY <1>26 DEF ReplayGroup, ghostVars
    <2>6. generation <= generation' /\ generation' <= nextId /\ generation' \in Nat
      BY <1>a, <2>3, <2>4 DEF Generations
    <2> QED BY <1>a, <2>5, <2>6 DEF Generations
  <1>27. CASE Opened
    BY <1>27, <1>a DEF Opened, Generations, fileVars, ghostVars
  <1>28. CASE UNCHANGED vars
    BY <1>28, <1>a DEF vars, Generations, fileVars, processVars, ghostVars
  <1> QED
    BY <1>1, <1>2, <1>3, <1>4, <1>5, <1>6, <1>7, <1>8, <1>9, <1>10, <1>11, <1>12, <1>13, <1>14,
       <1>15, <1>16, <1>17, <1>18, <1>19, <1>20, <1>21, <1>22, <1>23, <1>24, <1>25, <1>26, <1>27,
       <1>28, <1>29
    DEF Next, Commit, Compact, Open

\* The markers that recover looks for do not go away while it replays.
LEMMA ReplaysKept ==
  ASSUME BaseInv, [Next]_vars
  PROVE  Replays'
  <1>a. /\ Replays /\ nextId \in Nat /\ wal \in Seq(Records) /\ todo \in Seq(Transactions)
        /\ nextId' \in Nat /\ nextId <= nextId'
    BY CountersTyped, RecoveryAssumption DEF BaseInv, Types
  <1>b. todo' = <<>> => Pending' = {}
    BY DEF Pending
  <1>c. ASSUME todo' = <<>>, pc' # "replaycleared" PROVE Replays'
    BY <1>b, <1>c DEF Replays
  <1>d. ~Replaying => todo = <<>>
    BY <1>a DEF Replays
  <1> DEFINE Goal == Replays'

  <1>1. ASSUME NEW t \in ChangeSets, Writes(t) PROVE Goal
    BY <1>1, <1>c, <1>d DEF Writes, WriteMutations, WriteMutationsFails, NewTransaction, Replaying
  <1>2. CASE AppendRollbackMarker
    BY <1>2, <1>c, <1>d DEF AppendRollbackMarker, Replaying, processVars
  <1>3. CASE WriteCommitMarker
    BY <1>3, <1>c, <1>d DEF WriteCommitMarker, Replaying
  <1>4. CASE WriteCommitMarkerFails
    BY <1>4, <1>c, <1>d DEF WriteCommitMarkerFails, Replaying
  <1>5. CASE AppendRecordsFails
    BY <1>5, <1>c, <1>d DEF AppendRecordsFails, Replaying
  <1>6. CASE WriteRollbackMarker
    BY <1>6, <1>c, <1>d DEF WriteRollbackMarker, Replaying
  <1>7. CASE ApplyClear
    BY <1>7, <1>c, <1>d DEF ApplyClear, Replaying
  <1>8. CASE ApplyClearFails
    BY <1>8, <1>c, <1>d DEF ApplyClearFails, CommitFails, Replaying
  <1>29. CASE ApplyFails
    BY <1>29, <1>c, <1>d DEF ApplyFails, CommitFails, Replaying
  <1>9. CASE ApplyAndPublish
    BY <1>9, <1>c, <1>d DEF ApplyAndPublish, Replaying
  <1>10. CASE Lookup
    BY <1>10, <1>c, <1>d DEF Lookup, Replaying, processVars
  <1>11. CASE writeSnapshot
    BY <1>11, <1>c, <1>d DEF writeSnapshot, Replaying
  <1>12. CASE CompactStorage
    BY <1>12, <1>c, <1>d DEF CompactStorage, Replaying
  <1>13. CASE CompactClearIndex
    BY <1>13, <1>c, <1>d DEF CompactClearIndex, Replaying
  <1>14. CASE CompactRebuildIndex
    BY <1>14, <1>c, <1>d DEF CompactRebuildIndex, Replaying
  <1>15. CASE TruncateWal
    BY <1>15, <1>c, <1>d DEF TruncateWal, Replaying
  <1>16. CASE Crash
    BY <1>16, <1>c DEF Crash, ProcessGone
  <1>17. CASE CrashInWrite
    BY <1>17, <1>c DEF CrashInWrite, ProcessGone
  <1>18. CASE BackupAndRestore
    BY <1>18, <1>c DEF BackupAndRestore, ProcessGone
  <1>19. CASE RenameTableFile
    BY <1>19, <1>c, <1>d DEF RenameTableFile, Replaying
  <1>20. CASE readSnapshot
    BY <1>20, <1>c, <1>d DEF readSnapshot, Replaying
  <1>21. CASE NoSnapshot
    BY <1>21, <1>c, <1>d DEF NoSnapshot, Replaying
  <1>22. CASE ReadAllRecords
    <2>1. PICK n \in 0..Len(wal) : ReadableRecords = SubSeq(wal, 1, n)
      BY <1>a, ReadablePrefix
    <2>2. ReadableRecords \in Seq(Records)
      BY <1>a, <2>1
    <2>3. Pending' = CommittedGroups(ReadableRecords)
      BY <1>22, <2>2, OrderExact DEF ReadAllRecords, Pending
    <2>4. Logged' = Logged /\ TornRecords' = TornRecords /\ Committed' = Committed /\
          nextId' = nextId /\ pc' = "replay"
      BY <1>22 DEF ReadAllRecords, fileVars, Logged, TornRecords, Committed, ghostVars
    <2>5. \A t \in Pending' : /\ \E r \in Logged : r.type = "mutations" /\ r.tx = t
                              /\ \E r \in Logged : r.type = "commit" /\ r.id = t.id
      BY <1>a, <2>1, <2>3, PrefixGroups
    <2>6. \A t \in Pending' : t.gen \in 1..nextId
      BY <2>5 DEF BaseInv, WalIds
    <2>7. TornRecords = {} => Pending' = Committed
      BY <1>a, <2>3, ReadablePrefix DEF Committed
    <2> QED BY <2>4, <2>5, <2>6, <2>7 DEF Replays, Replaying
  <1>23. CASE ReadAllRecordsFails
    BY <1>23, <1>c DEF ReadAllRecordsFails, ProcessGone
  <1>24. CASE ReplayClear
    <2>1. Logged' = Logged /\ Pending' = Pending /\ TornRecords' = TornRecords /\ Committed' = Committed
      BY <1>24 DEF ReplayClear, Logged, Pending, TornRecords, Committed
    <2> QED BY <1>24, <1>a, <2>1 DEF ReplayClear, ghostVars, Replays, Replaying
  <1>25. CASE ReplayClearFails
    BY <1>25, <1>c DEF ReplayClearFails, ProcessGone
  <1>26. CASE ReplayGroup
    <2>1. Logged' = Logged /\ TornRecords' = TornRecords /\ Committed' = Committed /\
          nextId' = nextId /\ pc' = "replay"
      BY <1>26 DEF ReplayGroup, Logged, TornRecords, Committed, ghostVars
    <2>2. todo # <<>> /\ todo' = Tail(todo)
      BY <1>26, <1>a DEF Replays, ReplayGroup
    <2>3. \A i \in DOMAIN todo' : i + 1 \in DOMAIN todo /\ todo'[i] = todo[i + 1]
      BY <1>a, <2>2
    <2>4. Pending' \subseteq Pending
      BY <2>3 DEF Pending
    <2> QED BY <1>a, <2>1, <2>4 DEF Replays, Replaying
  <1>27. CASE Opened
    BY <1>27, <1>c DEF Opened
  <1>28. CASE UNCHANGED vars
    <2>1. Logged' = Logged /\ Pending' = Pending /\ TornRecords' = TornRecords /\ Committed' = Committed
      BY <1>28 DEF vars, fileVars, processVars, Logged, Pending, TornRecords, Committed
    <2> QED BY <1>28, <1>a, <2>1 DEF vars, processVars, ghostVars, Replays, Replaying
  <1> QED
    BY <1>1, <1>2, <1>3, <1>4, <1>5, <1>6, <1>7, <1>8, <1>9, <1>10, <1>11, <1>12, <1>13, <1>14,
       <1>15, <1>16, <1>17, <1>18, <1>19, <1>20, <1>21, <1>22, <1>23, <1>24, <1>25, <1>26, <1>27,
       <1>28, <1>29
    DEF Next, Commit, Compact, Open

\* Without an index file, Open has no snapshot and has replayed nothing.
LEMMA UnindexedKept ==
  ASSUME BaseInv, [Next]_vars
  PROVE  Unindexed'
  <1>a. Unindexed
    BY DEF BaseInv
  <1>1. CASE pc' \notin {"restored", "replay"}
    BY <1>1 DEF Unindexed
  <1>2. CASE UNCHANGED vars
    BY <1>2, <1>a DEF Unindexed, vars, fileVars, processVars, ReadableRecords, TornRecords
  <1>3. CASE readSnapshot \/ ReplayGroup
    BY <1>3 DEF readSnapshot, ReplayGroup, Unindexed
  <1>4. CASE NoSnapshot
    BY <1>4 DEF NoSnapshot, fileVars, Unindexed
  <1>5. CASE ReadAllRecords
    <2>1. /\ pc = "restored" /\ pc' = "replay" /\ UNCHANGED <<wal, idxFile, snapshots>>
          /\ todo' \in ReplayOrders(ReadableRecords)
      BY <1>5 DEF ReadAllRecords, fileVars
    <2>2. ReadableRecords' = ReadableRecords
      BY <2>1 DEF ReadableRecords, TornRecords
    <2>3. (todo \in ReplayOrders(ReadableRecords))' <=> todo' \in ReplayOrders(ReadableRecords)
      BY <2>2
    <2> QED BY <1>a, <2>1, <2>3 DEF Unindexed
  <1> QED
    BY <1>1, <1>2, <1>3, <1>4, <1>5
    DEF Next, Commit, Compact, Open, Writes, WriteMutations, WriteMutationsFails,
        NewTransaction, AppendRollbackMarker, WriteCommitMarker, WriteCommitMarkerFails,
        AppendRecordsFails, WriteRollbackMarker, ApplyClear, ApplyClearFails, ApplyFails,
        CommitFails, ApplyAndPublish, Lookup, writeSnapshot, CompactStorage, CompactClearIndex,
        CompactRebuildIndex, TruncateWal, Crash, CrashInWrite, BackupAndRestore, RenameTableFile,
        ReadAllRecordsFails, ReplayClear, ReplayClearFails, Opened, processVars

\* Open fails only on what follows a torn record, on a part of a magic number, or on a clear
\* that is the first transaction to replay and has no index file.
LEMMA OpenFailsOnlyKept ==
  ASSUME BaseInv, [Next]_vars
  PROVE  OpenFailsOnly'
  <1>a. OpenFailsOnly /\ Unindexed /\ wal \in Seq(Records)
    BY DEF BaseInv, Types
  <1>1. CASE UNCHANGED vars
    <2>1. /\ UNCHANGED <<wal, pc, snapshots>> /\ TornRecords' = TornRecords
          /\ ReadableRecords' = ReadableRecords /\ TornTail' = TornTail
      BY <1>1 DEF vars, fileVars, processVars, TornRecords, ReadableRecords, TornTail
    <2> QED BY <2>1, <1>a DEF OpenFailsOnly, FirstClears
  <1>2. CASE pc' # "unopenable"
    BY <1>2 DEF OpenFailsOnly
  <1>3. CASE ReadAllRecordsFails
    <2>1. /\ UNCHANGED wal /\ TornRecords # {}
          /\ TornRecords = {Len(wal)} => Last(wal).magic
      BY <1>3 DEF ReadAllRecordsFails, fileVars
    <2>2. TornRecords = {Len(wal)} => TornTail
      <3> SUFFICES ASSUME TornRecords = {Len(wal)} PROVE TornTail
        OBVIOUS
      <3>1. Len(wal) \in DOMAIN wal /\ wal[Len(wal)].type = "torn"
        BY DEF TornRecords
      <3> QED BY <1>a, <3>1 DEF TornTail, Last
    <2>3. TornRecords \ {Len(wal)} # {} \/ TornRecords = {Len(wal)}
      BY <2>1
    <2>4. TornRecords' = TornRecords /\ TornTail' = TornTail
      BY <2>1 DEF TornRecords, TornTail
    <2> QED BY <2>1, <2>2, <2>3, <2>4 DEF OpenFailsOnly
  <1>4. CASE ReplayClearFails
    <2>1. /\ UNCHANGED <<wal, snapshots>> /\ pc = "replay" /\ todo # <<>> /\ Head(todo).clear
          /\ ~idxFile
      BY <1>4 DEF ReplayClearFails, fileVars
    <2>2. DOMAIN snapshots = {} /\ todo \in ReplayOrders(ReadableRecords)
      BY <1>a, <2>1 DEF Unindexed
    <2> DEFINE G == CommittedGroups(ReadableRecords)
    <2>3. ReadableRecords \in Seq(Records)
      BY <1>a, ReadablePrefix
    <2>4. /\ todo \in Seq(G) /\ {todo[i] : i \in DOMAIN todo} = G
          /\ \A i, j \in DOMAIN todo : i < j => todo[i].gen <= todo[j].gen
      BY <2>2, <2>3, OrderExact
    <2>5. \A u \in G : u.gen \in Nat
      <3>1. PICK n \in 0..Len(wal) : ReadableRecords = SubSeq(wal, 1, n)
        BY <1>a, ReadablePrefix
      <3>2. \A u \in G : \E r \in Logged : r.type = "mutations" /\ r.tx = u
        BY <1>a, <3>1, PrefixGroups
      <3>3. Logged \subseteq Records
        BY <1>a, LoggedRecords
      <3> HIDE DEF G
      <3> QED BY <3>2, <3>3, RecordFields, TransactionFields
    <2>6. todo[1] \in G /\ todo[1].clear /\ \A u \in G : todo[1].gen <= u.gen
      <3> HIDE DEF G
      <3>1. 1 \in DOMAIN todo /\ Head(todo) = todo[1]
        BY <2>1, <2>4
      <3>2. ASSUME NEW u \in G PROVE todo[1].gen <= u.gen
        <4>1. PICK i \in DOMAIN todo : todo[i] = u
          BY <2>4
        <4>2. i = 1 \/ 1 < i
          BY <2>4
        <4> QED BY <2>4, <2>5, <3>1, <4>1, <4>2
      <3> QED BY <2>1, <2>4, <3>1, <3>2
    <2>7. ReadableRecords' = ReadableRecords
      BY <2>1 DEF ReadableRecords, TornRecords
    <2>8. FirstClears
      BY <2>2, <2>6 DEF FirstClears
    <2>9. FirstClears'
      BY <2>1, <2>7, <2>8 DEF FirstClears
    <2> QED BY <2>9 DEF OpenFailsOnly
  <1> QED BY <1>1, <1>2, <1>3, <1>4, Frames

\* A new database satisfies the invariant.
LEMMA BaseInit == Init => BaseInv
  <1> SUFFICES ASSUME Init PROVE BaseInv
    OBVIOUS
  <1> USE DEF Init
  <1>1. Booleans
    BY DEF Booleans
  <1>2. Types
    <2>1. DOMAIN snapshots = {}
      OBVIOUS
    <2>2. wal \in Seq(Records) /\ todo \in Seq(Transactions) /\ tx \in Seq(Transactions) /\ Len(tx) <= 1
      OBVIOUS
    <2>3. nextId \in 0..MaxTransactions /\ generation \in 0..MaxTransactions /\ crashes \in 0..MaxCrashes
      BY RecoveryAssumption
    <2>4. durable \in Table /\ disk \in Index /\ mem \in Index
      BY EmptyTypes
    <2> QED BY <2>1, <2>2, <2>3, <2>4 DEF Types
  <1>3. Logged = {} /\ Pending = {} /\ DOMAIN snapshots = {}
    BY DEF Logged, Pending
  <1>4. WalIds /\ FailedMarked
    BY <1>3 DEF WalIds, FailedMarked
  <1>5. Writing
    BY <1>3 DEF Writing, Busy
  <1>6. Generations
    BY <1>3 DEF Generations
  <1>7. Replays
    BY <1>3 DEF Replays
  <1>8. OpenFailsOnly /\ Unindexed
    BY DEF OpenFailsOnly, Unindexed
  <1> QED BY <1>1, <1>2, <1>4, <1>5, <1>6, <1>7, <1>8 DEF BaseInv

\* Every step keeps the invariant, one lemma for each of its parts.
LEMMA BaseKept == BaseInv /\ [Next]_vars => BaseInv'
  BY BooleansKept, TypesKept, WalIdsKept, FailedMarkedKept, WritingKept, GenerationsKept,
     ReplaysKept, UnindexedKept, OpenFailsOnlyKept DEF BaseInv

\* BaseInv always holds: whatever is written, torn, crashed and reopened, the WAL has only
\* ids that were handed out, and what Open has still to replay has its COMMIT marker there.
THEOREM BaseInvariant == Spec => []BaseInv
  BY BaseInit, BaseKept, PTL DEF Spec

\* Every variable of Recovery stays in its set; generations never run ahead of the number
\* of transactions, although Open computes them anew from snapshot and WAL.
THEOREM RecoveryTypes == Spec => []TypeOK
  <1>1. BaseInv => TypeOK
    BY TypesTogether DEF BaseInv
  <1> QED BY <1>1, BaseInvariant, PTL

\* Open returns an error only when something follows a torn record, when the WAL ends inside a
\* magic number, or when there is no snapshot and the oldest committed transaction is a clear:
\* whatever crashes came before, also in Open itself, an index file is there in all other cases.
THEOREM RecoveryOpenFails == Spec => []OpenFailsOnly
  <1>1. BaseInv => OpenFailsOnly
    BY DEF BaseInv
  <1> QED BY <1>1, BaseInvariant, PTL

\* recover replays no transaction that Commit reported as failed, unless its COMMIT marker
\* reached the WAL before the failure.
THEOREM RecoveryFailedOnly == Spec => []FailedRecoveredOnly
  <1>1. BaseInv => FailedRecoveredOnly
    BY DEF BaseInv, Replays, Pending, FailedMarked, FailedRecoveredOnly
  <1> QED BY <1>1, BaseInvariant, PTL
=============================================================================

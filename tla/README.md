# MasterKeeper: a TLA+ verification project

MasterKeeper (`src/`) is an embedded database in Go: typed tables, one write
transaction at a time, a write-ahead log, copy-on-write B+ tree index files,
snapshots and recovery at start-up. This project models the parts of it whose
correctness depends on the order of steps, checks the models with TLC on small
instances and proves the central invariants with TLAPS for all instances.

## 1. Inventory

### Components, their state, their operations

| Component | State | Operations |
|---|---|---|
| Writer lock and transaction life cycle (`db.go`, `tx.go`) | `writeLock` (a channel with one token), `activeGoroutineID`, `closed`, `Transaction.active` | `lock`, `unlock`, `releaseWriterLock`, `Transaction`, `TransactionContext`, `runTransaction`, `Commit`, `Rollback`, `Close`; as holders of the lock also `registerTableMetadata`, `DropTable`, `Compact`, `Backup` |
| Change set and table operations (`tx.go`, `table.go`) | `TableChangeSet` (Cleared, Inserts, Updates, Deletes), `RollbackOnly` | `insert`, `update`, `upsert`, `deleteByID`, `clear`, `FindByID`, `InsertDynamic`, `SetRollbackOnly`, `validateUniqueIndexes`, the second half of `Commit` |
| Query engine (`query.go`) | conditions, order, limits, the staged change set | `List`, `Count`, `First`, `Explain` |
| WAL manager (`wal.go`) | `wal.log`, the queue of write tasks | `Submit`, `processTasks`, `AppendRollbackMarker`, `Truncate`, `ReadAllRecords` |
| Open and replay (`db.go`) | what the files hold, the state being rebuilt | `Open`, `readSnapshot`, `recover` |
| Snapshots and compaction (`db.go`, `storage.go`) | `snapshot.<generation>` files | `writeSnapshot`, `Compact`, `findLatestSnapshot` |
| Backup and restore (`db.go`) | a copy of the files without the indexes | `Backup` |
| Table storage (`storage.go`) | the append-only `.db` file | `AppendRecords`, `ReadRecord`, `Compact`, `Reset` |
| B+ tree (`bplus_tree.go`, `index.go`) | nodes, roots by index name | `FindNamed`, `InsertNamedNoCommit`, `DeleteNamedNoCommit`, `RangeNamed` and their recursions |
| Index file (`bplus_tree.go`) | pages, catalog, two superblocks, free list, `NextPageID` | `NewDiskBPlusTree`, `allocatePageID`, `writeNewStateLocked` |
| Schema (`db.go`) | `Tables` of the committed state, metadata map | `GetTable`/`registerTableMetadata`, `DropTable`, replay of their records |
| Readers (`table.go`, `query.go`, `state.go`) | the committed state pointer | reads without the lock |
| Codec and key encoding (`codec.go`, `state.go`) | none | `Marshal`, `Unmarshal`, `serializeKey`, composite keys |
| JSON export/import, SQL migration (`db.go`, `migration.go`) | none | loops over the table operations |

### How they interact

* A writer goroutine takes the token, stages changes in its change set, and
  `Commit` hands one `WriteTask` to the background writer and waits. The
  background writer puts BEGIN and the mutations into the WAL, the records into
  the table file, and a COMMIT or ROLLBACK marker into the WAL, in this order.
* Only then does the committing goroutine change the indexes, entry by entry,
  write the index file (`shadowCommit`) and publish the next `DatabaseState`.
* Because the token is held all this time, the background writer never has more
  than one task.
* Readers take no lock: they use the published state and the live index.
* `Compact` writes a snapshot, replaces the table file, rebuilds the index and
  truncates the WAL. `Open` goes the other way: latest snapshot, then every
  committed transaction of the WAL, by generation, over whatever the index file
  has.

### What is hard here, and the properties that answer it

* *Waiting.* A timeout or a cancellation races the token; callbacks may end
  their transaction themselves, nest calls, spawn goroutines, fail or panic;
  Close may come first. Correct: one owner, no token lost or doubled, the right
  owner recorded, nothing runs after Close, every call returns.
* *Staging.* Any sequence of operations on the same key in one transaction must
  look, to queries and to the commit, as if made one after the other; the maps
  are iterated in random order when they are applied.
* *Three indexes.* Primary, secondary and unique entries must agree although
  an update is a delete followed by an insert.
* *Crashes.* WAL, table file, index file and snapshot are at different points of
  the history after a crash, also after a crash in `Compact` or in `Open` itself.
  Correct: what is served is what has a COMMIT marker, through valid pointers.
* *Failing writes.* The process goes on after an error; what is left in the WAL
  and what the caller was told must agree.
* *Pages.* The tree copies a page before it changes it and recycles the old one
  a transaction later; splits, merges and redistributions are rare and recursive.
  Correct: a lookup and a scan return what a map would, no page is lost or used
  twice. Composite keys must be ordered the same way whatever they are compared
  with.
* *The index file.* A commit writes nodes, a catalog and one of two superblocks;
  a crash may fall between any two of these writes or into one, and replay commits
  again with old generations. Correct: the file changes as a whole or not at all.
* *The schema.* Schema changes share one transaction id per session, replay applies
  them at the place of the first one, and a crash may separate a change from its marker
  or cut off a drop. Correct: exactly the tables that
  exist come back, with the rows inserted since they were created.
* *Lock-free readers.* A reader takes an index, a root, a page and a pointer one
  after the other while a writer fills leaves, recycles pages and replaces files. Correct: it
  returns the record asked for, as it was at some time during the call.

`PROJECT.json` lists these hazards one by one, each at its line, with the
properties that would catch it going wrong or the reason why none does.

Several properties are named *...Only*: the code does go wrong in the case they
name, and they say that it goes wrong in no other one. They hold, they break as
soon as the code gets worse, and they tell a maintainer what to repair.

## 2. Modules

| Module | Role |
|---|---|
| `SerialWriter` | Abstract: one owner of the right to write, who runs at most one transaction; nothing after Close |
| `WriterLock` | The lock and the life of a transaction; implements `SerialWriter` |
| `WriterLockProofs` | TLAPS proofs about `WriterLock` |
| `TableTransaction` | Change set, table operations, queries, unique validation, application of a commit |
| `TableTransactionProofs` | TLAPS proofs about `TableTransaction` |
| `Recovery` | WAL, snapshot, index file, Compact, crash and Open, of one table |
| `RecoveryProofs` | TLAPS proofs about `Recovery` that hold whatever fails |
| `RecoveryConvergence` | TLAPS proofs about what `Recovery` serves |
| `KeyOrder` | Composite keys of a secondary index and how `compareByteKeys` orders them |
| `KeyOrderProofs` | TLAPS proof that the order is one, for short values |
| `BPlusTree` | The copy-on-write tree: insertion, deletion, lookup, scan, recycled pages |
| `AtomicIndex` | Abstract: what the index file promises to the rest |
| `IndexFile` | The pages of an index file, crashes and replay; implements `AtomicIndex` |
| `IndexFileProofs` | TLAPS proofs about `IndexFile`, and that it implements `AtomicIndex` |
| `Schema` | Creating and dropping tables, their WAL records, their replay |
| `SchemaProofs` | TLAPS proofs about `Schema` |
| `Readers` | `FindByID` without a lock, beside commits, clears and compactions |
| `ReadersProofs` | TLAPS proofs about `Readers` |
| `MC...` | instances of these for TLC |

Definitions called *Mutant* in comments are deliberate errors: each is a
plausible bug in the definition it precedes, and `PROJECT.json` says which
property notices it. No specification uses them.

### WriterLock

The actors are API calls. `call[c]` is the kind of the call, its context, the
goroutine that makes it and, for a call made inside a callback, the call whose
callback it is. `pc[c]` follows the code: `waiting` and `acquired` are the
select of `lock` and the second look at the context behind it, `locked` is the
check of `closed`, `callback` the user's function, `finishing` everything
`Commit` or `Rollback` does after `active = false`, `unlocking` the point inside
`releaseWriterLock` between clearing `activeGoroutineID` and returning the token,
`working` the body of an operation without a transaction. `MayInvoke` is what an
application can do: a goroutine is in one place at a time, and a callback waits
for the calls it makes, on its own or on a spawned goroutine. The operations
that only take the lock (`registerTableMetadata` of a new table, `DropTable`,
`Compact`, `Backup`) are one kind, `Maintenance`. A callback that spawns a
goroutine and does not wait for it is a call at top level.

### TableTransaction

One table with a primary key, a field under a unique index (which may be nil)
and a field under a non-unique index. A record pointer is represented by the
record it reads. The three maps and the flag of `TableChangeSet` are variables;
every table operation is an action with the code's existence test as its guard.
`FindByID`, `QueryAll`, `QueryByID` and `QueryByS` are operators that mirror the
branches of the code. A commit is `CommitDurable` (validation and the WAL write,
which here succeeds or fails as a whole), then one step per index entry in any
order within deletes, inserts and updates, with the two halves of an update as
two steps because readers run between them. Ghosts: `view` performs each
operation directly on a table, `durable` and `published` are the table in the WAL
and in the last published state.

An `Upsert` stages an update when the record exists and an insert otherwise; the
operations called without a transaction run the same code inside one of their
own. `IndexChangeSet` is written by the code and read by nobody; it is left out.

### Recovery

One registered table. A record is its value, which is also its entry in the
secondary index. An index maps keys to the value their pointer was made for,
remembers which pointers lead into a table file that was replaced meanwhile
(`stale`), and holds the secondary entries. A stale pointer may read nothing or
anything. The WAL is a sequence of what one write puts there: the mutations of a
transaction, a marker, or the remains of a torn write.

`WriteMutations`, `WriteCommitMarker`, `WriteRollbackMarker` and their failing
variants are the steps of `processTasks`; `ApplyClear` and `ApplyAndPublish` the rest
of `Commit`, and `ApplyClearFails` and `ApplyFails` its error returns behind the COMMIT
marker: nothing is published, but each entry of the index in memory may be as before, as
it should be, or removed (`Halfway`), and the next commit writes it to the file.
`writeSnapshot` to `TruncateWal` are the steps of `Compact`; `RenameTableFile` to
`Opened` those of `Open`. `Crash` is possible between any two steps, `CrashInWrite`
leaves a torn record, `BackupAndRestore` is an Open of a copy without index files.
A clean `Close` writes nothing, so it is a `Crash` in the state `idle`.

`Compact` gets the records to keep from a scan of the index, and `BPlusTree` shows that a
scan can miss entries and return old ones. So `Scans` is the exact table or, with the
fault `scan`, any other; what the scan finds is what the snapshot, the new table file
and the rebuilt index have.

`Faults` chooses which of torn writes, I/O errors, restores and inexact scans happen.
Ghosts: `durable` is the table after every transaction with a COMMIT marker, `failed` the
transactions reported as failed, `indoubt` those of them that have a marker all
the same, `damaged` whether anything was written behind a torn record, `misread` whether a
scan of `Compact` was inexact. What is served is exact only while none of the last three
has happened (`Intact`).

Assumptions of this module:

* The write of an index file is atomic and what was written last is loaded. The
  code intends this with two superblocks; `IndexFile` shows how far it achieves it.
* A crash is the death of the process; what was written stays. A power failure
  that loses un-synced pages of the index file is not modelled.
* The steps of `ApplyAndPublish` and of one replayed group between two writes of the
  index file only change memory and are one step.
* The two scans of one `Compact`, for the snapshot and for the pointers, find the same: the
  lock is held and nothing changes the index in between.
* The error returns of `Compact` itself are not modelled.

### KeyOrder and BPlusTree

`KeyOrder` is pure. A composite key is the length of its encoded value, the ranks
of two parts of the text and the rank of the primary key: enough to say what
`compareByteKeys` reads when it takes the first byte of the length for a type tag
(`DeserializesTo`), which it does for values of 256 bytes and more. `Ordered` says
that three keys are told apart and that the order on them is transitive.

`BPlusTree` is one named index. A tree is one record (pages, root, free list,
orphans, `nextPageID`, catalog, generation), and `insertRecursive`
and `deleteRecursive` are operators from trees to trees, named as in the code,
with the split and merge cases as operators of their own. A key takes room on a page
(`Size`), more if it is longer, and `LeafCapacity` and `NodeCapacity` are the room there is.
Nodes are split by room but merged by the number of their keys (`MergeLimit`), as in the
code; a node that does not fit stays in the tree until the commit that must write it fails.
`FailsOnly` and `Balanced` say where that happens: a key so long that a page does not hold
`MergeLimit` of them, or a redistribution in the wrong direction. The actions are the calls:
`Insert`, `Delete`, `Commit`; `Fill` only builds the first tree. Ghosts: `map` is
the contents as a map, `moved` whether a leaf behind the first was copied,
`misfreed` whether a delete that found nothing gave pages away all the same,
`touched` the keys used so far. `Sound` ends a behaviour at the first of these errors: what a broken tree
does next is not followed.

### AtomicIndex and IndexFile

`AtomicIndex` is the contract `Recovery` relies on: a transaction changes all
named indexes of the file in one step or none, a crash changes nothing, and
once recovery is over every index holds what its last transaction gave it. A
crash may also destroy the file (`Destroy`).

`IndexFile` has the pages. Each named index is a single leaf, which holds the
number of the transaction that wrote it. `CreateCatalog` and `CreateSuperblock`
are the first opening of a file, `Open` and `OpenFails` the later ones, `Insert`
the change of one index (a new leaf, a leaf changed in place or copied),
`WriteNode`, `WriteCatalog` and `WriteSuperblock` the three kinds of page write of
`writeNewStateLocked`, `Replay` the next transaction of the WAL with its old
generation. `Crash` may come anywhere; `TornNode` and `TornCatalog` are crashes in
the middle of a page. Ghosts: `latest`, the slot written last and not yet
overtaken by a newer catalog, and `torn`, which write a crash cut off. Where
`NextPageID` is lost (`NextLost`) pages are given out twice, and no transaction
follows; `NextLostOnly` says when that is.

### Schema

Tables with rows that have keys of their own. A schema change is a sequence of steps:
`WriteRecord` puts its record into the WAL, `WriteCommit` the COMMIT marker behind it;
`PublishTable` then ends a creation, and `DropTableFile` and `DropIndexFile` a drop. Their
failing variants leave the record or the marker in the WAL or not, and `WriteRollback`
follows a failed record. `DropIndexFile` leaves the file of an open index behind, because
the type assertion on the cached index panics (`leftover`, which also names a table
whose drop was cut off by a crash behind its marker). `Compact` is `writeSnapshot`, then for each
table, in any order, `CompactStorage`, `CompactClearIndex` and `CompactRebuildIndex`, then
`TruncateWal`. `Insert` and `Find` are what a drop or a replay can go wrong with; `Find` takes
no lock and may come between the steps of the others. `Crash` may come anywhere, so that a
record may be without a marker, a snapshot beside the WAL it contains, a drop half done.

`Open` reads the snapshot and finds the transactions to replay: the inserts, and of each
session with a COMMIT and without a ROLLBACK marker all schema records, whether they have a
marker of their own or not. They are replayed by generation, the order of equal ones open
(`Oldest`): `ReplaySchema` is the schema records of a session, as one group at the place of the
first, `ReplayInsert` a transaction that inserts a row, `Recovered` the return of Open. A
session with several COMMIT markers is replayed as often one after the other, which is the
same as once. `cached`, the tables whose index is open, is during replay also
`clearedTables`. A behaviour ends where a table serves something else than was done to it.

Left to `Recovery`: the steps of a transaction on rows, which is one step here, torn
records and I/O errors in it, and the steps of `readSnapshot`. BEGIN records are left out.
The tables are so small that a scan is exact.

### Readers

One `FindByID` per reader, in the steps the code makes without a lock:
`GetIndex`, `FindRoot`, `FindNode` or `FetchPage` and `CacheNode`, `ReadRecord`.
The writer's steps are those of a commit (`AppendRecords`, `ClaimLeaf`, `ShadowDelete`,
`ShadowInsert`, `ShadowCommit`), of a clear and of a compaction (`RemoveIndex`,
`Truncate`, `Reopen`). Changing an entry is two steps. `ClaimLeaf` determines the leaf to
change (`change`): one the transaction owns, or a copy, which is registered in the
cache as an empty node before it is filled; the first leaf of an index is an empty root
at once. `ShadowDelete` or `ShadowInsert` then completes the leaf and makes it the
root. In between the slices Keys and Pointers are filled and changed one after the other,
and a reader on that page (`FindTorn`) finds the pointer of any entry, none, or a position
that Pointers does not have; or it finds the empty node (`FindNode`). The leaf of
the secondary index is claimed and completed in one step, because none of its keys equals a
primary key, so that a reader that came to its page finds nothing there in any case. Each
reader collects the `events` it lived through, which the properties name. What later writes
do with an index that a reader opened between removal and truncation, or whose cache a
reader has set back, is not followed.

The type invariants of `Recovery`, `BPlusTree`, `IndexFile`, `Schema` and `Readers`
document the variables; the runs check the deeper properties.

## 3. Runs

All runs finish in about three minutes or less with two workers.

| Run | Instance | Shows |
|---|---|---|
| `writer_lock` | 3 calls, 2 goroutines, every kind and context, every nesting; 12 166 states | `TypeOK`, `TokenConserved`, `OwnerRecorded`, `ClosedIsQuiet`, that `WriterLock` implements `SerialWriter`, and `DeadlockOnlyNested`: calls are stuck for ever exactly when each of them is blocked, and then a callback waits for a call that waits for the lock |
| `writer_lock_progress` | the same actors, bounded waits in callbacks; 12 686 states | `CallsReturn` under fairness, and no deadlock |
| `table_transaction` | 3 keys, 2 unique values and nil, 2 secondary values; 648 643 states | what queries see, what the commit applies, coherence of the indexes, what readers can find |
| `unique_enforced` | 2 keys | *violation*: values moved between records lose their unique entry, and a duplicate gets in |
| `snapshot_reads` | 2 keys | *violation*: a reader sees a part of a transaction |
| `recovery` | 1 key, 2 values, 2 transactions, 2 crashes, torn and failing writes, restores, inexact scans; 6 273 860 states | `ServesCommitted`, `IndexesRecovered` and `NoDanglingPointers` up to the first damage or inexact scan, `GenerationsDistinct`, `OpenFailsOnly`, `FailedRecoveredOnly` |
| `torn_end` | the same | *violation*: a WAL that ends inside a magic number cannot be opened |
| `bplus_tree` | trees of 5, 9 or 10 entries and up to 3 levels, keys of four sizes, 3 operations, up to 4 transactions; 563 860 states | lookups as in a map (`FindExact`), no page lost or used twice, balance, scans while leaves stay in place, and when keys are confused or an operation fails |
| `scan_complete` | the same | *violation*: a full scan misses entries once a leaf was copied |
| `index_file` | 2 named indexes, 4 transactions, 2 crashes; 198 487 states | `PagesOwned`, when `NextPageID` is lost, when a file cannot be opened, and that `IndexFile` implements `AtomicIndex` |
| `schema` | 2 tables, 3 schema changes, 2 rows, 3 sessions; 542 813 states | when recovery loses a table, brings one back or serves wrong rows |
| `readers` | 2 keys, 2 reads, 2 writes; 5 677 194 states | when a read returns a wrong record, nothing or an error (`RightRecord`, `MissingOnly`, `ErrorOnly`), and that writes arrive |

Each violation contradicts a sentence of the README or the tutorial, or a comment in the
code; `PROJECT.json` quotes it under `findings`. What else the code does that its
documentation does not say is stated by a property that allows exactly that:

* `FindMissesOnlyReinserted`: `FindByID` misses a record deleted and inserted again
  in the same transaction.
* `ReadersSeeOldOrNew`: a reader misses a record that is there before and after a commit,
  while the commit replaces it.
* `ServesCommitted`: what is committed behind a tolerated torn record is lost, and so is a
  record that the scan of a `Compact` misses.
* `FailedRecoveredOnly`: a transaction reported as failed is replayed when its COMMIT
  marker was written and could not be synced, or when it could not be applied to the index.
* `OpenFailsOnly`: a clear that is the first transaction of a WAL without a snapshot makes
  every later Open without an index file fail.
* `ConfusedOnly`: values of 512 bytes and more in an index can be taken for one
  another.
* `FailsOnly`: a delete panics while it redistributes between two neighbours of which the
  right one has too few keys; a commit fails on a node that got a key this way, or that
  was merged or filled with long keys beyond its page.
* `UnopenableOnly`: a crash in the creation of an index file, in a catalog page or
  in a node replay changes in place leaves a file that cannot be opened.
* `NextLostOnly`: after a crash between catalog and superblock, or a replay with
  low generations, pages may be given out twice.
* `TableLostOnly`, `TableBackOnly`, `RowsWrongOnly`: one failed schema change takes
  back the others of its session, or is committed by the marker of another one, and so is
  one during which the process died; a dropped table can come back, and one that is created
  again can have old rows, after a drop that panicked or was cut off and only then.
* `RightRecord`, `MissingOnly`, `ErrorOnly`, `WritesArrive`: what a reader may meet while
  leaves are filled, pages recycled and an index is rebuilt.

### Bounds, and why they are enough

* Three calls on two goroutines: a holder, a waiter that can be handed the token
  while its context ends, and a third to take a token that should not be there.
  Nesting needs two, and two nested levels on one goroutine need three.
* Three keys: one that stays, two that exchange a unique value or meet in one
  index while a third is staged. Two values of each field let a value move away
  and come back. The number of transactions is not bounded: the state space is
  finite because nothing counts.
* `Recovery`: two transactions give a record to overwrite or delete and the change, with a
  compaction, a failure or a torn write before, between or behind them. `MaxCrashes` = 2: the
  second crash can fall into the recovery from the first. One key is enough for what happens to
  a key; that keys do not disturb one another, and longer histories, are left to the
  theorems, which are about any numbers of both.
* `BPlusTree`: pages of three entries or two separators, so that five entries make
  two or three leaves and nine a tree of three levels; three operations are enough to
  merge on two levels, or to change a leaf, commit and change its neighbour.
  `MergeLimit` is two. A short key takes one place of a page, one of 511 bytes two, so that
  two of them are merged beyond a page, one of 1100 bytes a whole leaf, and one of 5000
  bytes fits nowhere. These are also the lengths `compareByteKeys` treats differently.
* `IndexFile`: two indexes, of which a transaction may change one and leave the page of
  the other; four transactions, so that pages freed by one are used by the next but
  one and both superblocks have been overwritten; two crashes, so that replay can be
  interrupted; a catalog with room for one free page (`MaxFree`), so that it overflows.
* `Schema`: the second table gives a session that does not begin with the table in
  question; three changes give a table that is created, dropped and created again, or two
  that share a session; three sessions give a crash after a recovery or inside it.
* `Readers`: two writes, so that the second takes the pages the first has freed; two
  reads, so that one may set back the cache the other one uses.
* Symmetry is used over calls and goroutines, over keys, values, tables and readers,
  which no definition distinguishes. The liveness run uses none.

### Fairness

* `WriterLock`: Go schedules every runnable goroutine, hence weak fairness of the
  steps of `lock`, `Commit`, `Rollback` and `releaseWriterLock`. Goroutines blocked in a
  receive are queued first in, first out, hence strong fairness of `Acquire`. A
  timer fires (`Expire`). That callbacks return is an assumption about the
  application; without it no call could be said to return. Nothing is assumed
  about a caller's own context (`ContextEnds`).
* `writer_lock_progress` restricts nested calls to what the README's guidelines
  allow. Outside of them a call need not return: with the default options a
  Transaction nested on a spawned goroutine, which the callback waits for, waits
  for ever (`TUTORIAL.md` speaks of a timeout there, `README.md` of waiting
  indefinitely), and so does a maintenance operation inside a callback
  (`db.go:511`, `db.go:414`). `DeadlockOnlyNested` says that there is no other way to
  wait for ever.

`CHECK_DEADLOCK FALSE` is set where the system may really stop: callbacks that wait
for themselves (`writer_lock`), and `Recovery`, `BPlusTree`, `IndexFile`, `Schema` and
`Readers`, which end when their bounds are used up, the files cannot be opened or
an error named above has happened. `writer_lock_progress` and `table_transaction`
check deadlock.

## 4. Proofs

### The writer lock (`WriterLockProofs`)

For any sets of calls and goroutines and any invocations, from
`ActorsAssumption` (the markers for "no call" and "no goroutine" are not calls and
goroutines) and `InvocationsAssumption` (which contexts go with which calls).

The inductive invariant `LockInv` adds two facts to the properties themselves:
`ActiveInCallback`, an active transaction is inside its callback, without which a
callback whose transaction has ended could still be counted as the holder; and
`CallsOnGoroutines`, a call in progress has a goroutine, without which an open
transaction could be recorded as "nobody". `TokenConserved`, `OwnerRecorded` and
`ClosedIsQuiet` need one another: an owner can be recorded without disturbing
another one only because at most one call holds the token. Theorems:
`TypeCorrect`, `TokenIsConserved`, `OwnerIsRecorded`, `ClosedStaysQuiet`, and
`WriterLockIsSerial`: every step maps to a step of `SerialWriter` or to a stutter,
under the mapping of the holder to `owner` and of the open transaction to
`running`.

`NeverWaitsForItself` (`NoSelfWait`: no transaction waits for the lock while its own
goroutine is inside an open transaction) needs `NestInv` besides. A call made
inside a callback lives inside that callback (`ParentsInCallback`), and of the calls
of one goroutine in progress only one, the innermost, is not waiting for a nested
one (`OneInnermost`). So the recorded owner is compared with the right goroutine at
the only moment it can be.

`BlockedOnlyNested` is what can be proved of `DeadlockOnlyNested`. `Stuck` speaks of
`ENABLED`; `AllBlocked` says the same by what keeps each call, the empty channel or a
call its callback made, and TLC checks that the two agree. The theorem is that
`AllBlocked` implies `NestedWait`. Its invariant `WaitInv` adds to `NestInv` that the calls
made by the callback of an active transaction are all waiting (`ChildrenWait`), that who
waits has a proper context (`WaitsWithContext`), and that calls are never nested in a
circle (`NestingFounded`, stated about every set of calls in progress, so that neither a
depth nor an induction is needed). The innermost of the blocked calls can only be
waiting for the channel; so somebody holds the token, is itself blocked, hence waits in
its callback for a call of its own, which waits for the token.

### The table transaction (`TableTransactionProofs`)

For any sets of keys and values, from `RecordAssumption` (nil is not a value, "no
record" is not a record). `TableInv` says that the three maps of the change set
never contradict each other (`StagingInv`), that the change set always stands for
the table the operations made one after the other (`ViewInv`), how far the commit
has come in each phase (`ApplyInv`), and that the secondary and the unique index
agree with the primary one at every step (`SecondaryInv`, `UniqueInv`). Two lemmas
say what `shadowDelete` and `shadowInsert` preserve; `StageKeeps` and `ApplyKeeps`
have one step per action. Theorems: `TableTypeCorrect`, `ExistenceExact`,
`FindMissesOnly`, `CommitApplies` (for every order in which the maps are iterated),
`SecondaryIsCoherent`, `UniqueIsSound`, `ReadersAreSafe` (each record old or new, or
missing while it is replaced), and `QueriesSeeWrites`: the
overlay of `List`, by scan, by id and by secondary index, returns the records of the
table as the operations left it, because an index that is coherent lists exactly the
records the scan would.

### The order of keys (`KeyOrderProofs`)

`ShortKeysOrdered`: any three composite keys of values shorter than 512 bytes are
`Ordered`, for all lengths and ranks. The tree is a search tree only if this holds,
and `ConfusedOnly` shows that it does not hold beyond.

### The index file (`IndexFileProofs`)

For any set of named indexes, any room for free pages in the catalog, any number of
transactions and crashes. `PagesOwned` is far from inductive: after a crash the
pages come from whichever catalog is on disk, so `FileInv` has to speak of the disk
at every moment of a commit. Its parts:

* `PageTypes`, `SlotInv`: what is on which page; the first superblock leads to the
  empty catalog on page 2, all later ones to one page.
* `CatalogsOwned`, `MemoryOwned`: every catalog on disk, current or not, and memory
  give each page one use; `MemoryBelow`, `LatestBelow`: `NextPageID` is right in memory
  once a transaction may run, and in the superblock written last.
* `ControlInv`, `CatalogInv`, `CacheInv`: where the writer is, and what memory has of
  the disk: a page the catalog on disk names is still named by memory or an orphan,
  hence never written by the running transaction.
* `DiskInv`, `MemInv`, `ValueInv`, `FreshInv`: a root leads to a node of a transaction
  that changed the index, or to a torn node until that transaction is replayed.

Theorems: `IndexFileTypes`, `IndexFilePagesOwned`, `IndexFileNextLost`,
`IndexFileUnopenable`, and `IndexFileIsAtomic`: under the mapping `Content` (what the
next opening would load) a node write of a transaction is a stutter; the transaction
happens with the catalog, which overwrites the one before on its page, or, the first
time, with the superblock that leads to it; and recovery ends with every index holding
its last transaction. As in the model, a behaviour takes no further transaction once
`NextPageID` is lost, so the refinement says nothing of what happens then.

### Recovery (`RecoveryProofs`, `RecoveryConvergence`)

For any keys, values, numbers of transactions and crashes, and every set of faults,
from `RecoveryAssumption`. The proofs are in two layers.

`BaseInv` holds in every behaviour, damaged WALs included: ids in the WAL were handed
out (`WalIds`), the transaction being written is the last one that began and has no
marker yet (`Writing`), a COMMIT marker of a failed transaction makes it in doubt
(`FailedMarked`), generations and snapshots do not run ahead (`Generations`), and what
Open has still to replay has its marker in the WAL (`Replays`). It gives
`RecoveryTypes` and `RecoveryFailedOnly`. `RecoveryOpenFails` needs `Unindexed` besides: while
there is no index file, there is neither a snapshot nor a replayed group, and Open has still
to replay exactly the groups of the WAL. Then a clear that finds no file is the first group.

`SoundInv` is about a sound database: nothing was written behind a torn record, no
marker belongs to a transaction reported as failed. The first step below needs no more; the
others are about an intact one, where moreover every scan of `Compact` was exact (a scan
that was not is never made good, lemma `MisreadStays`). So the theorems about what is served
hold up to the first inexact scan, `RecoveryGenerations` beyond it. The argument has four
steps.

1. *The log is a history.* A torn record is the last (`LogShape`), the transaction
   being written is in the WAL (`LogHead`), committed transactions have generations of
   their own up to the published one (`LogOrder`).
2. *Snapshot and log determine the table.* At each key, `durable` is what the youngest
   committed transaction left that touches it, or what the latest snapshot has
   (`DurableInv`). `HistoryInv` adds what replay relies on: an insert without a delete
   follows something that left the key empty, unless the snapshot is younger.
3. *The index file invents nothing.* Each of its entries is from the snapshot or from
   a committed transaction (`DiskInv`), at every step of a commit, a compaction or an
   interrupted Open. While requests are served it is exact but for the step in
   progress (`ServingInv`).
4. *Replay converges.* `Converging(P)` is what an index must satisfy for the groups of
   P, replayed oldest first, to end with the exact one: keys that P does not touch are
   settled (`Settled`), stale pointers are at keys P touches (`Repointed`), and a
   secondary entry is one that P makes again, or the current one, read through a good
   pointer by the group that removes it (`Explained`); before the table file is reset
   P makes everything the index holds (`Unreset`). `NoSnapshotConverges` and
   `SnapshotConverges` establish it from whatever the file holds, `GroupConverges` keeps
   it from P to P without its oldest group, and for the empty P it says the index is
   exact (`ConvergedExact`).

`Explained` is the part that could have failed: `shadowDelete` removes the secondary
entry of the record it reads, and through a stale pointer it reads anything, so the
old entry may stay. It is harmless only because a later group makes the same
entry and removes it through a pointer that is good by then. Theorems:
`RecoveryServesCommitted`, `RecoveryIndexes`, `RecoveryPointers`, `RecoveryGenerations`.

`BaseInv` and the parts of `SoundInv` were checked by TLC before they were proved.

### Readers (`ReadersProofs`)

For any set of keys, any set of concurrent calls and any number of writes, from
`ReadersAssumption` (finite sets, some key). The properties speak of calls that have
returned; the inductive invariant `IInv` has to speak of every step on the way, for
every reader and every place of the writer. Its parts:

* `TreesInv`: the open index and the file give each page one use among root, free and
  given up; index objects that were replaced are closed; a root can be read.
* `Control`, `Versions`: where the writer is, what it has yet to insert, and that these
  records are in the table file.
* `ChangeInv`: the leaf being filled or changed is the root or on a page without another
  use; what goes into it are the entries of the open index; and the node in its place in
  the cache is the writer's, or one that a call has put there too late (`ClaimedPage`).
* `TreeLeads`, `DiskLeads`, `Present`, `FullPrimary`, `CommitDirty`: for each place of
  the writer, what the entry of a key leads to in memory and in the file: the old
  record, the new one, or nothing between the two.
* `CallsInv`, `EventsInv`: what a call holds, and that it has noted what the writer did
  since it began.
* `Uncached`, `PageKept`: a page that a call is about to read and nobody has cached is
  the root of the primary index as the file has it, and is not free for the next write,
  nor claimed by it for a copy, unless a commit came in between.
* `MissInv`, `ErrInv`, `RightInv`: a call has met the event that excuses a bad outcome,
  or what it holds leads to a good one.

`RightInv` is the part that could have failed. A call holds a page number, and what it
will find there is decided later, by the writer or by another call that has fetched the
page and is about to store it in the cache, over whatever is there by then. So `Fine`
speaks of the contents in the cache, in the file and in the hands of all other calls.
It is kept without any lock because a page is copied before the next transaction
changes it; a page given up is taken by the next transaction at the earliest, and the
leaf written on it, empty at first, leads a key to its record of that time or nowhere once
it is complete (who reads it before has met the event `torn`); and the table file
only grows between compactions, so that an old pointer still leads to the old record.
Theorems: `TypeCorrect`, `RightRecordHolds`, `MissingOnlyHolds`,
`ErrorOnlyHolds`, `WritesArriveHolds`. The parts of `IInv` were checked by TLC on the
instance of the run `readers` before they were proved. As in the model, a behaviour
takes no further write once a reader has opened the file too early or cached a node
too late, so the theorems say nothing of later writes.

### Schema (`SchemaProofs`)

For any tables and any number of rows, schema changes and sessions, and a crash between any
two writes, from `SchemaAssumption` (the bounds are numbers, and there is a first session).
The three properties speak of an open database; in between, crashes included, stands the
replay of a WAL of any length, which `IInv` follows group by group. Its parts:

* `LoggedInv`, `TablesInv`: between the steps of a schema change the WAL ends with its record;
  while a change or `Compact` is at work the tables are those that exist.
* `SessionsInv`, `GenerationsInv`, `CurrentInv`, `TodoInv`: the sessions in the WAL follow one
  another, and a record has a higher generation than the data before it and than the
  committed sessions before its own. So recover takes the sessions in their order, and a
  session no later than its first record; records of sessions that are not replayed may
  share a generation with others, which is why ties are open.
* `HistoryInv`: a table exists exactly if the last change that succeeded creates it, or
  none drops it and the snapshot has it (`Alive`, `Dead`); and rows went only into tables
  that were alive at that point of the WAL.
* `ReplayInv`: while recover runs, a table that exists is declared, or its loss is excused
  (`LossExcused`), or the group with its last creation is still ahead; a table that does
  not exist is gone, or its return excused (`ReturnExcused`), or the group with its last
  drop is still ahead. At the end of the WAL nothing is ahead.
* `CleanInv`: a table whose index file no drop has left behind has exactly the rows of the
  snapshot and the WAL in its index, and has none if it does not exist. Replaying some or
  all of the rows again adds nothing, which is why a crash inside Open or behind the
  snapshot of a `Compact` does no harm.
* `OpenInv`, `ReplayedInv`: a table with rows in the snapshot or the WAL has its index open
  (`OpenRows`), and what recover has come by is in the table file (`ReplayedRows`).

The last two are the part that could have failed, and they are what `CleanInv` rests on. A
table file that DropTable removed with the index removed as well would leave rows in the
WAL that replay puts back into the next table of that name. It cannot happen,
because a table with rows has its index open and the drop of such a table panics: the
rows are wrong only after that panic, or after a crash that came before it. Theorems:
`SchemaTypes`, `SchemaTableLost`, `SchemaTableBack`, `SchemaRows`. The parts of `IInv` were
checked by TLC before they were proved. As in the model, a behaviour ends where a
table serves something else than was done to it.

### Only model-checked

* Liveness (`CallsReturn`), and the first half of `DeadlockOnlyNested`,
  that `Stuck`, which is about `ENABLED`, agrees with `AllBlocked`: outside the prover's
  logic.
* `BPlusTree`: its operators are recursive, so that what they compute for every tree
  is outside the prover's reach.

## 5. Not modelled, and why

* Query conditions other than equality, ordering, paging and `Explain`: functions of
  the listed records. The lookup of `List` through a unique index.
* Queries without a transaction as processes: `BPlusTree` says what a scan finds in a
  tree, `TableTransaction` what is in an index at any moment of a commit.
* The WAL queue and batching: never more than one task is queued.
* Bytes and reflection in the codec; keys of types other than strings.
* The replay of `OpDropIndex`, which no operation writes; a corrupt snapshot; I/O
  errors inside `Compact`.
* A power failure that loses or reorders writes that were not synced.
* What a commit that failed on a node too large for its page leaves in the file.
* JSON export and import and the SQL migration: loops of I/O over the modelled
  operations. The migration's silent stop at an unreadable record is listed as a
  hazard.

## 6. Plan

Done: the modules and runs above, and proofs for the writer lock with its deadlocks, the
table transaction, the order of keys, the index file with its refinement, recovery,
readers and the schema.
Left: the unique index in `Recovery`, and the lookup through it in `TableTransaction`.

-------------------------- MODULE TableTransaction --------------------------
(***************************************************************************)
(* One write transaction at a time on one table: the staged change set     *)
(* (tx.go), the table operations that fill it (table.go), the queries that *)
(* overlay it on the committed indexes (query.go), the validation of the   *)
(* unique index and the application of a commit to the primary, unique and *)
(* secondary indexes, entry by entry (Commit, shadowInsert, shadowDelete).  *)
(*                                                                         *)
(* A record pointer is represented by the record it reads.  A record has   *)
(* its primary key id, a field u under a unique index (possibly nil) and a *)
(* field s under a non-unique index.  Durability of the WAL write in the   *)
(* middle of Commit is the subject of module Recovery; here it succeeds or *)
(* fails as a whole.                                                       *)
(***************************************************************************)
CONSTANTS
    Keys,       \* primary keys
    UValues,    \* values of the field with the unique index
    SValues,    \* values of the field with the secondary index
    Nil,        \* a nil pointer in the unique field: not indexed
    NoRecord    \* "not found"

Records == [id : Keys, u : UValues \cup {Nil}, s : SValues]

ASSUME RecordAssumption ==
    /\ Nil \notin UValues
    /\ NoRecord \notin Records

RecordOrNone == Records \cup {NoRecord}
Empty == [k \in Keys |-> NoRecord]

VARIABLES
    primary,        \* primary index: key -> record
    unique,         \* unique index: value -> record
    secondary,      \* secondary index: composite keys <<value, key>>
    cleared, inserts, updates, deletes,    \* TableChangeSet
    rollbackOnly,
    phase,          \* "idle", "open", or where Commit is in applying
    todo,           \* keys the current phase of Commit has not applied yet
    view,           \* what the transaction has made of the table, op by op
    durable,        \* the table after the last transaction in the WAL
    published       \* the table after the last transaction that was published

indexVars == <<primary, unique, secondary>>
changeSet == <<cleared, inserts, updates, deletes>>
ghostVars == <<view, durable, published>>
vars == <<indexVars, changeSet, rollbackOnly, phase, todo, ghostVars>>

Phases == {"idle", "open", "clear", "deletes", "inserts", "updates"}

\* Every variable stays in its set.
TypeOK ==
    /\ primary \in [Keys -> RecordOrNone]
    /\ unique \in [UValues -> RecordOrNone]
    /\ secondary \subseteq SValues \X Keys
    /\ cleared \in BOOLEAN
    /\ inserts \in [Keys -> RecordOrNone]
    /\ updates \in [Keys -> RecordOrNone]
    /\ deletes \subseteq Keys
    /\ rollbackOnly \in BOOLEAN
    /\ phase \in Phases
    /\ todo \subseteq Keys
    /\ view \in [Keys -> RecordOrNone]
    /\ durable \in [Keys -> RecordOrNone]
    /\ published \in [Keys -> RecordOrNone]

Init ==
    /\ primary = Empty
    /\ unique = [v \in UValues |-> NoRecord]
    /\ secondary = {}
    /\ cleared = FALSE
    /\ inserts = Empty
    /\ updates = Empty
    /\ deletes = {}
    /\ rollbackOnly = FALSE
    /\ phase = "idle"
    /\ todo = {}
    /\ view = Empty
    /\ durable = Empty
    /\ published = Empty

Staged(m) == {k \in Keys : m[k] # NoRecord}

IsEmpty == ~cleared /\ Staged(inserts) = {} /\ Staged(updates) = {} /\ deletes = {}

NewTableChangeSet ==
    /\ cleared' = FALSE
    /\ inserts' = Empty
    /\ updates' = Empty
    /\ deletes' = {}

-----------------------------------------------------------------------------
(* The operations of a Table inside a transaction. *)

\* The test that insert, update, upsert and deleteByID share: the record they
\* find, staged or committed.
Existing(k) ==
    IF inserts[k] # NoRecord THEN inserts[k]
    ELSE IF updates[k] # NoRecord THEN updates[k]
    ELSE IF ~cleared /\ k \notin deletes THEN primary[k]
    ELSE NoRecord

Begin ==
    /\ phase = "idle"
    /\ phase' = "open"
    /\ NewTableChangeSet
    /\ rollbackOnly' = FALSE
    /\ view' = durable
    /\ UNCHANGED <<indexVars, todo, durable, published>>

\* insert (and InsertDynamic) fails on a record that exists.
Insert(r) ==
    /\ phase = "open"
    /\ Existing(r.id) = NoRecord
    /\ inserts' = [inserts EXCEPT ![r.id] = r]
    /\ view' = [view EXCEPT ![r.id] = r]
    /\ UNCHANGED <<indexVars, cleared, updates, deletes, rollbackOnly, phase,
                   todo, durable, published>>

\* Mutant: the committed record is changed in place.
UpdateInPlace(r) ==
    /\ phase = "open"
    /\ Existing(r.id) # NoRecord
    /\ IF inserts[r.id] # NoRecord
       THEN inserts' = [inserts EXCEPT ![r.id] = r] /\ UNCHANGED <<updates, primary>>
       ELSE /\ updates' = [updates EXCEPT ![r.id] = r]
            /\ primary' = [primary EXCEPT ![r.id] = r]
            /\ UNCHANGED inserts
    /\ view' = [view EXCEPT ![r.id] = r]
    /\ UNCHANGED <<unique, secondary, cleared, deletes, rollbackOnly, phase, todo,
                   durable, published>>

\* update fails on a record that does not exist; it keeps an insert an insert.
Update(r) ==
    /\ phase = "open"
    /\ Existing(r.id) # NoRecord
    /\ IF inserts[r.id] # NoRecord
       THEN inserts' = [inserts EXCEPT ![r.id] = r] /\ UNCHANGED updates
       ELSE updates' = [updates EXCEPT ![r.id] = r] /\ UNCHANGED inserts
    /\ view' = [view EXCEPT ![r.id] = r]
    /\ UNCHANGED <<indexVars, cleared, deletes, rollbackOnly, phase, todo,
                   durable, published>>

Upsert(r) == IF Existing(r.id) # NoRecord THEN Update(r) ELSE Insert(r)

\* Mutant: deleting a staged update only drops the update.
DeleteDropsUpdate(k) ==
    /\ phase = "open"
    /\ Existing(k) # NoRecord
    /\ inserts' = [inserts EXCEPT ![k] = NoRecord]
    /\ updates' = [updates EXCEPT ![k] = NoRecord]
    /\ deletes' = IF inserts[k] = NoRecord /\ updates[k] = NoRecord
                  THEN deletes \cup {k} ELSE deletes
    /\ view' = [view EXCEPT ![k] = NoRecord]
    /\ UNCHANGED <<indexVars, cleared, rollbackOnly, phase, todo, durable, published>>

\* deleteByID drops a staged insert, or stages a delete.
DeleteByID(k) ==
    /\ phase = "open"
    /\ Existing(k) # NoRecord
    /\ IF inserts[k] # NoRecord
       THEN inserts' = [inserts EXCEPT ![k] = NoRecord] /\ UNCHANGED <<updates, deletes>>
       ELSE /\ updates' = [updates EXCEPT ![k] = NoRecord]
            /\ deletes' = deletes \cup {k}
            /\ UNCHANGED inserts
    /\ view' = [view EXCEPT ![k] = NoRecord]
    /\ UNCHANGED <<indexVars, cleared, rollbackOnly, phase, todo, durable, published>>

\* Mutant: what was inserted before the clear stays staged.
ClearKeepsInserts ==
    /\ phase = "open"
    /\ cleared' = TRUE
    /\ updates' = Empty
    /\ deletes' = {}
    /\ view' = Empty
    /\ UNCHANGED <<indexVars, inserts, rollbackOnly, phase, todo, durable, published>>

Clear ==
    /\ phase = "open"
    /\ cleared' = TRUE
    /\ inserts' = Empty
    /\ updates' = Empty
    /\ deletes' = {}
    /\ view' = Empty
    /\ UNCHANGED <<indexVars, rollbackOnly, phase, todo, durable, published>>

SetRollbackOnly ==
    /\ phase = "open"
    /\ rollbackOnly' = TRUE
    /\ UNCHANGED <<indexVars, changeSet, phase, todo, ghostVars>>

-----------------------------------------------------------------------------
(* Reads inside the open transaction. *)

\* Mutant: a cleared table is looked up in the index.
FindIgnoresClear(k) ==
    IF k \in deletes THEN NoRecord
    ELSE IF inserts[k] # NoRecord THEN inserts[k]
    ELSE IF updates[k] # NoRecord THEN updates[k]
    ELSE primary[k]

FindByID(k) ==
    IF cleared THEN inserts[k]
    ELSE IF k \in deletes THEN NoRecord
    ELSE IF inserts[k] # NoRecord THEN inserts[k]
    ELSE IF updates[k] # NoRecord THEN updates[k]
    ELSE primary[k]

Present(m, K) == {m[k] : k \in K} \ {NoRecord}

\* Mutant: the committed version of an updated record is listed too.
OverlayKeepsOld(ids) ==
    IF cleared THEN Present(inserts, ids)
    ELSE Present(primary, {k \in ids : k \notin deletes /\ inserts[k] = NoRecord})
         \cup Present(inserts, Keys) \cup Present(updates, Keys)

\* Query.List with the ids an index lookup found, before the conditions are
\* tested: the committed records that are not staged over, and everything
\* staged.
Overlay(ids) ==
    IF cleared THEN Present(inserts, ids)
    ELSE Present(primary, {k \in ids : /\ k \notin deletes
                                       /\ updates[k] = NoRecord
                                       /\ inserts[k] = NoRecord})
         \cup Present(inserts, Keys) \cup Present(updates, Keys)

QueryByID(k) == {r \in Overlay({k}) : r.id = k}

QueryAll == IF cleared THEN Present(inserts, Keys) ELSE Overlay(Keys)

\* After a Clear no index is used: the staged inserts are scanned.
QueryByS(v) ==
    LET ids == {k \in Keys : <<v, k>> \in secondary}
    IN  {r \in (IF cleared THEN QueryAll ELSE Overlay(ids)) : r.s = v}

-----------------------------------------------------------------------------
(* The end of the transaction. *)

\* validateUniqueIndexes: the values the transaction frees ...
RemovedUnique ==
    IF cleared THEN {}
    ELSE {primary[k].u : k \in {k \in deletes \cup Staged(updates) :
                                  primary[k] # NoRecord}} \ {Nil}

\* ... and the conflicts among what it stages and with what is committed.
UniqueConflict ==
    LET staged == Present(inserts, Keys) \cup Present(updates, Keys)
    IN \E r \in staged :
          /\ r.u # Nil
          /\ \/ \E q \in staged : q.u = r.u /\ q.id # r.id
             \/ /\ ~cleared
                /\ r.u \notin RemovedUnique
                /\ unique[r.u] # NoRecord
                /\ unique[r.u].id # r.id

\* Rollback, and Commit of a rollback-only transaction, of one with a unique
\* conflict, of one whose WAL write fails, or of an empty one: nothing is
\* applied.
Rollback ==
    /\ phase = "open"
    /\ phase' = "idle"
    /\ view' = durable
    /\ NewTableChangeSet
    /\ rollbackOnly' = FALSE
    /\ UNCHANGED <<indexVars, todo, durable, published>>

\* Commit up to the point where the background writer reports success.
CommitDurable ==
    /\ phase = "open"
    /\ ~rollbackOnly
    /\ ~UniqueConflict
    /\ ~IsEmpty
    /\ phase' = "clear"
    /\ todo' = {}
    /\ durable' = view
    /\ UNCHANGED <<indexVars, changeSet, rollbackOnly, view, published>>

shadowClear ==
    /\ primary' = Empty
    /\ unique' = [v \in UValues |-> NoRecord]
    /\ secondary' = {}

\* Mutants: the unique entry of a deleted record stays; a nil field is indexed.
KeepU(m, r) == m
WithNilU(m, r) == [v \in UValues \cup {r.u} |-> IF r.u = v THEN r ELSE m[v]]

WithoutU(m, r) == [v \in UValues |-> IF r # NoRecord /\ r.u = v THEN NoRecord ELSE m[v]]
WithU(m, r) == [v \in UValues |-> IF r.u = v THEN r ELSE m[v]]

\* Mutant: the secondary entry of a deleted record stays.
shadowDeletePrimary(k) ==
    /\ primary' = [primary EXCEPT ![k] = NoRecord]
    /\ unique' = WithoutU(unique, primary[k])
    /\ UNCHANGED secondary

\* shadowDeleteNoCommit with the record readCommittedRecord found under k.
shadowDelete(k) ==
    LET old == primary[k]
    IN  /\ primary' = [primary EXCEPT ![k] = NoRecord]
        /\ unique' = WithoutU(unique, old)
        /\ secondary' = IF old = NoRecord THEN secondary ELSE secondary \ {<<old.s, k>>}

shadowInsert(r) ==
    /\ primary' = [primary EXCEPT ![r.id] = r]
    /\ unique' = WithU(unique, r)
    /\ secondary' = secondary \cup {<<r.s, r.id>>}

\* An update deletes the old entries and inserts the new ones; a reader can
\* run between the two, so the entry is gone in between.
ApplyClear ==
    /\ phase = "clear"
    /\ IF cleared THEN shadowClear ELSE UNCHANGED indexVars
    /\ phase' = "deletes"
    /\ todo' = deletes
    /\ UNCHANGED <<changeSet, rollbackOnly, ghostVars>>

ApplyDelete(k) ==
    /\ phase = "deletes"
    /\ k \in todo
    /\ shadowDelete(k)
    /\ todo' = todo \ {k}
    /\ UNCHANGED <<changeSet, rollbackOnly, phase, ghostVars>>

DeletesDone ==
    /\ phase = "deletes"
    /\ todo = {}
    /\ phase' = "inserts"
    /\ todo' = Staged(inserts)
    /\ UNCHANGED <<indexVars, changeSet, rollbackOnly, ghostVars>>

ApplyInsert(k) ==
    /\ phase = "inserts"
    /\ k \in todo
    /\ shadowInsert(inserts[k])
    /\ todo' = todo \ {k}
    /\ UNCHANGED <<changeSet, rollbackOnly, phase, ghostVars>>

InsertsDone ==
    /\ phase = "inserts"
    /\ todo = {}
    /\ phase' = "updates"
    /\ todo' = Staged(updates)
    /\ UNCHANGED <<indexVars, changeSet, rollbackOnly, ghostVars>>

ApplyUpdateDelete(k) ==
    /\ phase = "updates"
    /\ k \in todo
    /\ primary[k] # NoRecord
    /\ \A j \in todo : primary[j] # NoRecord
    /\ shadowDelete(k)
    /\ UNCHANGED <<changeSet, rollbackOnly, phase, todo, ghostVars>>

ApplyUpdateInsert(k) ==
    /\ phase = "updates"
    /\ k \in todo
    /\ primary[k] = NoRecord
    /\ shadowInsert(updates[k])
    /\ todo' = todo \ {k}
    /\ UNCHANGED <<changeSet, rollbackOnly, phase, ghostVars>>

\* shadowCommit and publish.
Publish ==
    /\ phase = "updates"
    /\ todo = {}
    /\ phase' = "idle"
    /\ published' = durable
    /\ NewTableChangeSet
    /\ UNCHANGED <<indexVars, rollbackOnly, todo, view, durable>>

-----------------------------------------------------------------------------
Stage ==
    \/ Begin
    \/ \E r \in Records : Insert(r) \/ Update(r) \/ Upsert(r)
    \/ \E k \in Keys : DeleteByID(k)
    \/ Clear
    \/ SetRollbackOnly
    \/ Rollback
    \/ CommitDurable

Apply ==
    \/ ApplyClear
    \/ \E k \in Keys : ApplyDelete(k) \/ ApplyInsert(k)
                       \/ ApplyUpdateDelete(k) \/ ApplyUpdateInsert(k)
    \/ DeletesDone
    \/ InsertsDone
    \/ Publish

Next == Stage \/ Apply

Spec == Init /\ [][Next]_vars

-----------------------------------------------------------------------------
(* Properties. *)

\* Inside a transaction every query answers as if the operations had been made
\* on the table one after the other: the scan and the lookups by id and by the
\* secondary index, through any sequence of insert, update, upsert, delete,
\* re-insert and clear (Query.List over the change set).
QueriesSeeOwnWrites ==
    phase = "open" =>
        /\ QueryAll = Present(view, Keys)
        /\ \A k \in Keys : QueryByID(k) = Present(view, {k})
        /\ \A v \in SValues : QueryByS(v) = {r \in Present(view, Keys) : r.s = v}

\* The existence test of insert, update, upsert and deleteByID is exact: it
\* finds the record the transaction has made, whatever was staged before.
ExistenceIsExact == phase = "open" => \A k \in Keys : Existing(k) = view[k]

\* FindByID is right for every key but one that was deleted and inserted again
\* in the same transaction, which it reports as missing.
FindMissesOnlyReinserted ==
    phase = "open" =>
        \A k \in Keys : \/ FindByID(k) = view[k]
                        \/ k \in deletes /\ inserts[k] # NoRecord /\ FindByID(k) = NoRecord

\* When Commit has published, the primary index is the table the operations
\* made one after the other, in whatever order the maps were iterated.
CommitAppliesAll == phase = "idle" => primary = durable /\ published = durable

\* The secondary index lists exactly the records of the primary index.
SecondaryCoherent ==
    phase = "idle" => secondary = {<<r.s, r.id>> : r \in Present(primary, Keys)}

\* An entry of the unique index always leads to the live record that has the
\* value: a lookup through it never returns a deleted or replaced record.
UniqueSound ==
    phase = "idle" =>
        \A v \in UValues : unique[v] # NoRecord =>
            unique[v].u = v /\ primary[unique[v].id] = unique[v]

\* No two committed records have the same value of the unique field (TUTORIAL
\* "Fails with DuplicateIndexError if ... any unique index fields already exist").
UniqueEnforced ==
    phase = "idle" =>
        \A k, j \in Keys :
            /\ primary[k] # NoRecord /\ primary[j] # NoRecord
            /\ primary[k].u = primary[j].u /\ primary[k].u # Nil
            => k = j

\* The commit has removed the record of k and has yet to enter it again: after a
\* clear or a delete that an insert follows, or between the halves of an update.
Replacing(k) ==
    \/ phase \in {"deletes", "inserts"} /\ (cleared \/ k \in deletes) /\ inserts[k] # NoRecord
    \/ phase = "updates" /\ k \in todo

\* A reader outside the transaction finds each key as it was or as it will be, and
\* misses one that has both only while the commit replaces it; what is staged and
\* what is rolled back is never seen, because the indexes change only after the WAL.
ReadersSeeOldOrNew ==
    \A k \in Keys : \/ primary[k] \in {published[k], durable[k]}
                    \/ primary[k] = NoRecord /\ Replacing(k)

\* A reader sees the table as one transaction left it (README "always run against an
\* immutable snapshot of the database").
SnapshotReads == primary \in {published, durable}
=============================================================================

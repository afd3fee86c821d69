----------------------- MODULE TableTransactionProofs -----------------------
(***************************************************************************)
(* Proofs about TableTransaction for any sets of keys and values: staging  *)
(* and applying a change set amounts to performing the operations one      *)
(* after the other, queries see exactly that, the secondary index agrees   *)
(* with the primary one, and an entry of the unique index always leads to  *)
(* a live record.                                                          *)
(***************************************************************************)
EXTENDS TableTransaction, TLAPS

\* What the clear and the deletes of the change set leave of the table.
Base(k) == IF cleared \/ k \in deletes THEN NoRecord ELSE published[k]

\* What the change set makes of key k.
Target(k) ==
    IF inserts[k] # NoRecord THEN inserts[k]
    ELSE IF updates[k] # NoRecord THEN updates[k]
    ELSE Base(k)

\* Every map is keyed by the primary key of its records.
Keyed(m) == \A k \in Keys : m[k] # NoRecord => m[k].id = k

KeyedInv == Keyed(primary) /\ Keyed(inserts) /\ Keyed(updates)

\* An update is staged only over a record that remains, an insert only where
\* none does: the three maps of the change set never contradict each other.
StagingInv ==
    \A k \in Keys :
        /\ updates[k] # NoRecord => inserts[k] = NoRecord /\ Base(k) # NoRecord
        /\ inserts[k] # NoRecord => Base(k) = NoRecord

ViewInv ==
    /\ phase # "idle" => \A k \in Keys : view[k] = Target(k)
    /\ phase \in {"idle", "open"} => durable = published /\ primary = published
    /\ phase \notin {"idle", "open"} => durable = view

\* How far Commit has got in each phase.
ApplyInv ==
    /\ phase = "clear" => primary = published
    /\ phase = "deletes" =>
          /\ todo \subseteq deletes
          /\ \A k \in Keys : primary[k] =
                IF cleared \/ (k \in deletes /\ k \notin todo) THEN NoRecord
                ELSE published[k]
    /\ phase = "inserts" =>
          /\ todo \subseteq Staged(inserts)
          /\ \A k \in Keys : primary[k] =
                IF inserts[k] # NoRecord /\ k \notin todo THEN inserts[k] ELSE Base(k)
    /\ phase = "updates" =>
          /\ todo \subseteq Staged(updates)
          /\ \A k \in Keys : IF k \in todo THEN primary[k] \in {Base(k), NoRecord}
                             ELSE primary[k] = Target(k)

\* The indexes agree with the primary index at every step, also in the middle
\* of a commit.
SecondaryInv ==
    \A v \in SValues, k \in Keys :
        <<v, k>> \in secondary <=> primary[k] # NoRecord /\ primary[k].s = v

UniqueInv ==
    \A v \in UValues : unique[v] # NoRecord =>
        unique[v].u = v /\ primary[unique[v].id] = unique[v]

TableInv ==
    /\ TypeOK
    /\ KeyedInv
    /\ StagingInv
    /\ ViewInv
    /\ ApplyInv
    /\ SecondaryInv
    /\ UniqueInv

-----------------------------------------------------------------------------
\* The initial state satisfies the inductive invariant.
LEMMA InitTableInv == Init => TableInv
  <1> SUFFICES ASSUME Init PROVE TableInv
    OBVIOUS
  <1> USE DEF Init, Empty
  <1>1. TypeOK
    BY DEF TypeOK, RecordOrNone, Phases
  <1>2. KeyedInv /\ StagingInv /\ ViewInv /\ ApplyInv /\ SecondaryInv /\ UniqueInv
    BY DEF KeyedInv, Keyed, StagingInv, ViewInv, ApplyInv, SecondaryInv, UniqueInv,
           Base, Target
  <1>3. QED
    BY <1>1, <1>2 DEF TableInv

\* What removing the entries of the record under k does to the indexes.
LEMMA ShadowDeleteKeeps ==
  ASSUME TypeOK, KeyedInv, SecondaryInv, UniqueInv, NEW k \in Keys, shadowDelete(k)
  PROVE  /\ primary' \in [Keys -> RecordOrNone]
         /\ unique' \in [UValues -> RecordOrNone]
         /\ secondary' \subseteq SValues \X Keys
         /\ Keyed(primary)' /\ SecondaryInv' /\ UniqueInv'
         /\ primary' = [primary EXCEPT ![k] = NoRecord]
  <1> USE DEF TypeOK, RecordOrNone
  <1>1. primary' = [primary EXCEPT ![k] = NoRecord]
    BY DEF shadowDelete
  <1>2. unique' \in [UValues -> RecordOrNone] /\ secondary' \subseteq SValues \X Keys
    BY DEF shadowDelete, WithoutU
  <1>3. Keyed(primary)'
    BY <1>1 DEF KeyedInv, Keyed
  <1>4. SecondaryInv'
    <2> SUFFICES ASSUME NEW v \in SValues, NEW j \in Keys
                 PROVE  <<v, j>> \in secondary' <=> primary'[j] # NoRecord /\ primary'[j].s = v
      BY DEF SecondaryInv
    <2>1. CASE j = k
      BY <2>1, <1>1 DEF shadowDelete, SecondaryInv
    <2>2. CASE j # k
      BY <2>2, <1>1 DEF shadowDelete, SecondaryInv
    <2>3. QED
      BY <2>1, <2>2
  <1>5. UniqueInv'
    <2> SUFFICES ASSUME NEW v \in UValues, unique'[v] # NoRecord
                 PROVE  unique'[v].u = v /\ primary'[unique'[v].id] = unique'[v]
      BY DEF UniqueInv
    <2>1. unique'[v] = unique[v] /\ ~(primary[k] # NoRecord /\ primary[k].u = v)
      BY DEF shadowDelete, WithoutU
    <2>2. unique[v].u = v /\ primary[unique[v].id] = unique[v] /\ unique[v] \in Records
      BY <2>1 DEF UniqueInv
    <2>3. unique[v].id \in Keys /\ unique[v].id # k
      BY <2>1, <2>2 DEF Records
    <2>4. QED
      BY <1>1, <2>1, <2>2, <2>3
  <1>6. QED
    BY <1>1, <1>2, <1>3, <1>4, <1>5

\* What adding the entries of a record does, when no record has its key.
LEMMA ShadowInsertKeeps ==
  ASSUME TypeOK, KeyedInv, SecondaryInv, UniqueInv, NEW r \in Records,
         primary[r.id] = NoRecord, shadowInsert(r)
  PROVE  /\ primary' \in [Keys -> RecordOrNone]
         /\ unique' \in [UValues -> RecordOrNone]
         /\ secondary' \subseteq SValues \X Keys
         /\ Keyed(primary)' /\ SecondaryInv' /\ UniqueInv'
         /\ primary' = [primary EXCEPT ![r.id] = r]
  <1> USE RecordAssumption DEF TypeOK, RecordOrNone
  <1>0. r.id \in Keys /\ r.s \in SValues /\ r # NoRecord
    BY DEF Records
  <1>1. primary' = [primary EXCEPT ![r.id] = r]
    BY DEF shadowInsert
  <1>2. unique' \in [UValues -> RecordOrNone] /\ secondary' \subseteq SValues \X Keys
    BY <1>0 DEF shadowInsert, WithU
  <1>3. Keyed(primary)'
    BY <1>0, <1>1 DEF KeyedInv, Keyed
  <1>4. SecondaryInv'
    <2> SUFFICES ASSUME NEW v \in SValues, NEW j \in Keys
                 PROVE  <<v, j>> \in secondary' <=> primary'[j] # NoRecord /\ primary'[j].s = v
      BY DEF SecondaryInv
    <2>1. CASE j = r.id
      BY <2>1, <1>0, <1>1 DEF shadowInsert, SecondaryInv
    <2>2. CASE j # r.id
      BY <2>2, <1>0, <1>1 DEF shadowInsert, SecondaryInv
    <2>3. QED
      BY <2>1, <2>2
  <1>5. UniqueInv'
    <2> SUFFICES ASSUME NEW v \in UValues, unique'[v] # NoRecord
                 PROVE  unique'[v].u = v /\ primary'[unique'[v].id] = unique'[v]
      BY DEF UniqueInv
    <2>1. CASE r.u = v
      BY <2>1, <1>0, <1>1 DEF shadowInsert, WithU
    <2>2. CASE r.u # v
      <3>1. unique'[v] = unique[v]
        BY <2>2 DEF shadowInsert, WithU
      <3>2. unique[v].u = v /\ primary[unique[v].id] = unique[v] /\ unique[v] \in Records
        BY <3>1 DEF UniqueInv
      <3>3. unique[v].id \in Keys /\ unique[v].id # r.id
        BY <3>1, <3>2 DEF Records
      <3>4. QED
        BY <1>0, <1>1, <3>1, <3>2, <3>3
    <2>3. QED
      BY <2>1, <2>2
  <1>6. QED
    BY <1>0, <1>1, <1>2, <1>3, <1>4, <1>5

-----------------------------------------------------------------------------
\* Staging leaves the indexes alone, so only the change set is at stake.
LEMMA StageKeeps == TableInv /\ Stage => TableInv'
  <1> SUFFICES ASSUME TableInv, Stage PROVE TableInv'
    OBVIOUS
  <1> USE RecordAssumption DEF TableInv, TypeOK, RecordOrNone, Phases, Empty, indexVars,
          changeSet, ghostVars
  <1>a. ASSUME UNCHANGED indexVars PROVE SecondaryInv' /\ UniqueInv'
    BY <1>a DEF SecondaryInv, UniqueInv
  <1> USE DEF KeyedInv, Keyed, StagingInv, ViewInv, ApplyInv, Base, Target, Existing
  <1>1. CASE Begin
    <2>1. TypeOK'
      BY <1>1 DEF Begin, NewTableChangeSet
    <2>2. KeyedInv' /\ StagingInv' /\ ViewInv' /\ ApplyInv'
      BY <1>1 DEF Begin, NewTableChangeSet
    <2>3. QED
      BY <1>1, <1>a, <2>1, <2>2 DEF Begin
  <1>2. ASSUME NEW r \in Records, Insert(r) PROVE TableInv'
    <2>0. r.id \in Keys /\ r # NoRecord
      BY DEF Records
    <2>1. TypeOK'
      BY <1>2, <2>0 DEF Insert
    <2>2. KeyedInv' /\ StagingInv' /\ ViewInv' /\ ApplyInv'
      BY <1>2, <2>0 DEF Insert
    <2>3. QED
      BY <1>2, <1>a, <2>1, <2>2 DEF Insert
  <1>3. ASSUME NEW r \in Records, Update(r) PROVE TableInv'
    <2>0. r.id \in Keys /\ r # NoRecord
      BY DEF Records
    <2>1. TypeOK'
      BY <1>3, <2>0 DEF Update
    <2>2. KeyedInv' /\ StagingInv' /\ ViewInv' /\ ApplyInv'
      BY <1>3, <2>0 DEF Update
    <2>3. QED
      BY <1>3, <1>a, <2>1, <2>2 DEF Update
  <1>4. ASSUME NEW k \in Keys, DeleteByID(k) PROVE TableInv'
    <2>1. TypeOK'
      BY <1>4 DEF DeleteByID
    <2>2. KeyedInv' /\ StagingInv' /\ ViewInv' /\ ApplyInv'
      BY <1>4 DEF DeleteByID
    <2>3. QED
      BY <1>4, <1>a, <2>1, <2>2 DEF DeleteByID
  <1>5. CASE Clear
    <2>1. TypeOK'
      BY <1>5 DEF Clear
    <2>2. KeyedInv' /\ StagingInv' /\ ViewInv' /\ ApplyInv'
      BY <1>5 DEF Clear
    <2>3. QED
      BY <1>5, <1>a, <2>1, <2>2 DEF Clear
  <1>6. CASE SetRollbackOnly
    BY <1>6, <1>a DEF SetRollbackOnly
  <1>7. CASE Rollback
    <2>1. TypeOK'
      BY <1>7 DEF Rollback, NewTableChangeSet
    <2>2. KeyedInv' /\ StagingInv' /\ ViewInv' /\ ApplyInv'
      BY <1>7 DEF Rollback, NewTableChangeSet
    <2>3. QED
      BY <1>7, <1>a, <2>1, <2>2 DEF Rollback
  <1>8. CASE CommitDurable
    BY <1>8, <1>a DEF CommitDurable
  <1>9. QED
    BY <1>1, <1>2, <1>3, <1>4, <1>5, <1>6, <1>7, <1>8 DEF Stage, Upsert

\* Applying moves the primary index from published to durable, key by key.
LEMMA ApplyKeeps == TableInv /\ Apply => TableInv'
  <1> SUFFICES ASSUME TableInv, Apply PROVE TableInv'
    OBVIOUS
  <1> USE RecordAssumption DEF TableInv, Phases, changeSet, ghostVars
  <1>a. ASSUME UNCHANGED indexVars PROVE Keyed(primary)' /\ SecondaryInv' /\ UniqueInv'
    BY <1>a DEF indexVars, KeyedInv, Keyed, SecondaryInv, UniqueInv
  \* The facts about the change set that no step of Apply but Publish touches.
  <1>b. ASSUME UNCHANGED <<changeSet, ghostVars>>, phase # "idle", phase' # "idle",
               phase # "open", phase' # "open"
        PROVE  Keyed(inserts)' /\ Keyed(updates)' /\ StagingInv' /\ ViewInv'
    BY <1>b DEF KeyedInv, Keyed, StagingInv, ViewInv, Base, Target
  <1>1. CASE ApplyClear
    <2> USE <1>1 DEF ApplyClear
    <2>1. CASE cleared
      <3>1. primary' = Empty /\ secondary' = {} /\ unique' = [v \in UValues |-> NoRecord]
        BY <2>1 DEF shadowClear
      <3>2. TypeOK'
        BY <3>1 DEF TypeOK, RecordOrNone, Empty
      <3>3. Keyed(primary)' /\ SecondaryInv' /\ UniqueInv'
        BY <3>1 DEF Keyed, SecondaryInv, UniqueInv, Empty
      <3>4. ApplyInv'
        BY <2>1, <3>1 DEF ApplyInv, Empty
      <3>5. QED
        BY <1>b, <3>2, <3>3, <3>4 DEF KeyedInv
    <2>2. CASE ~cleared
      <3>1. TypeOK'
        BY <2>2 DEF TypeOK, indexVars
      <3>2. ApplyInv'
        BY <2>2 DEF ApplyInv, indexVars
      <3>3. QED
        BY <1>a, <1>b, <2>2, <3>1, <3>2 DEF KeyedInv
    <2>3. QED
      BY <2>1, <2>2 DEF TypeOK
  <1>2. ASSUME NEW k \in Keys, ApplyDelete(k) PROVE TableInv'
    <2> USE <1>2 DEF ApplyDelete
    <2>1. /\ primary' \in [Keys -> RecordOrNone]
          /\ unique' \in [UValues -> RecordOrNone]
          /\ secondary' \subseteq SValues \X Keys
          /\ Keyed(primary)' /\ SecondaryInv' /\ UniqueInv'
          /\ primary' = [primary EXCEPT ![k] = NoRecord]
      BY ShadowDeleteKeeps
    <2>2. TypeOK'
      BY <2>1 DEF TypeOK
    <2>3. ApplyInv'
      BY <2>1 DEF ApplyInv, TypeOK
    <2>4. QED
      BY <1>b, <2>1, <2>2, <2>3 DEF KeyedInv
  <1>3. CASE DeletesDone
    <2> USE <1>3 DEF DeletesDone
    <2>1. TypeOK'
      BY DEF TypeOK, indexVars, Staged
    <2>2. ApplyInv'
      BY DEF ApplyInv, indexVars, Base, Staged
    <2>3. QED
      BY <1>a, <1>b, <2>1, <2>2 DEF KeyedInv
  <1>4. ASSUME NEW k \in Keys, ApplyInsert(k) PROVE TableInv'
    <2> USE <1>4 DEF ApplyInsert
    <2>1. inserts[k] \in Records /\ inserts[k].id = k /\ primary[k] = NoRecord
      BY DEF TypeOK, RecordOrNone, ApplyInv, Staged, KeyedInv, Keyed, StagingInv
    <2>2. /\ primary' \in [Keys -> RecordOrNone]
          /\ unique' \in [UValues -> RecordOrNone]
          /\ secondary' \subseteq SValues \X Keys
          /\ Keyed(primary)' /\ SecondaryInv' /\ UniqueInv'
          /\ primary' = [primary EXCEPT ![k] = inserts[k]]
      BY <2>1, ShadowInsertKeeps
    <2>3. TypeOK'
      BY <2>2 DEF TypeOK
    <2>4. ApplyInv'
      BY <2>1, <2>2 DEF ApplyInv, TypeOK, Base, Staged
    <2>5. QED
      BY <1>b, <2>2, <2>3, <2>4 DEF KeyedInv
  <1>5. CASE InsertsDone
    <2> USE <1>5 DEF InsertsDone
    <2>1. TypeOK'
      BY DEF TypeOK, indexVars, Staged
    <2>2. ApplyInv'
      BY DEF ApplyInv, indexVars, Base, Target, Staged, StagingInv
    <2>3. QED
      BY <1>a, <1>b, <2>1, <2>2 DEF KeyedInv
  <1>6. ASSUME NEW k \in Keys, ApplyUpdateDelete(k) PROVE TableInv'
    <2> USE <1>6 DEF ApplyUpdateDelete
    <2>1. /\ primary' \in [Keys -> RecordOrNone]
          /\ unique' \in [UValues -> RecordOrNone]
          /\ secondary' \subseteq SValues \X Keys
          /\ Keyed(primary)' /\ SecondaryInv' /\ UniqueInv'
          /\ primary' = [primary EXCEPT ![k] = NoRecord]
      BY ShadowDeleteKeeps
    <2>2. TypeOK'
      BY <2>1 DEF TypeOK
    <2>3. ApplyInv'
      BY <2>1 DEF ApplyInv, TypeOK, Base, Target, Staged
    <2>4. QED
      BY <1>b, <2>1, <2>2, <2>3 DEF KeyedInv
  <1>7. ASSUME NEW k \in Keys, ApplyUpdateInsert(k) PROVE TableInv'
    <2> USE <1>7 DEF ApplyUpdateInsert
    <2>1. updates[k] \in Records /\ updates[k].id = k /\ updates[k] # NoRecord
      BY DEF TypeOK, RecordOrNone, ApplyInv, Staged, KeyedInv, Keyed
    <2>2. /\ primary' \in [Keys -> RecordOrNone]
          /\ unique' \in [UValues -> RecordOrNone]
          /\ secondary' \subseteq SValues \X Keys
          /\ Keyed(primary)' /\ SecondaryInv' /\ UniqueInv'
          /\ primary' = [primary EXCEPT ![k] = updates[k]]
      BY <2>1, ShadowInsertKeeps
    <2>3. TypeOK'
      BY <2>2 DEF TypeOK
    <2>4. ApplyInv'
      BY <2>1, <2>2 DEF ApplyInv, TypeOK, Base, Target, Staged, StagingInv
    <2>5. QED
      BY <1>b, <2>2, <2>3, <2>4 DEF KeyedInv
  <1>8. CASE Publish
    <2> USE <1>8 DEF Publish, NewTableChangeSet
    <2>1. TypeOK'
      BY DEF TypeOK, indexVars, Empty, RecordOrNone
    <2>2. \A k \in Keys : primary[k] = durable[k]
      BY DEF ApplyInv, ViewInv
    <2>3. primary = durable
      BY <2>2 DEF TypeOK
    <2>4. ViewInv' /\ ApplyInv'
      BY <2>3 DEF ViewInv, ApplyInv, indexVars
    <2>5. Keyed(inserts)' /\ Keyed(updates)' /\ StagingInv'
      BY DEF Keyed, StagingInv, Empty
    <2>6. QED
      BY <1>a, <2>1, <2>4, <2>5 DEF KeyedInv
  <1>9. QED
    BY <1>1, <1>2, <1>3, <1>4, <1>5, <1>6, <1>7, <1>8 DEF Apply

-----------------------------------------------------------------------------
\* Every reachable state satisfies the inductive invariant.
THEOREM TableInvariant == Spec => []TableInv
  <1>1. TableInv /\ UNCHANGED vars => TableInv'
    BY DEF vars, indexVars, changeSet, ghostVars, TableInv, TypeOK, KeyedInv, Keyed,
           StagingInv, ViewInv, ApplyInv, SecondaryInv, UniqueInv, Base, Target, Staged
  <1>2. TableInv /\ [Next]_vars => TableInv'
    BY <1>1, StageKeeps, ApplyKeeps DEF Next
  <1>3. QED
    BY <1>2, InitTableInv, PTL DEF Spec

\* The existence test of the table operations is exact.
THEOREM ExistenceExact == Spec => []ExistenceIsExact
  <1>1. TableInv => ExistenceIsExact
    <2> SUFFICES ASSUME TableInv, phase = "open", NEW k \in Keys
                 PROVE  Existing(k) = view[k]
      BY DEF ExistenceIsExact
    <2>1. view[k] = Target(k) /\ primary = published
      BY DEF TableInv, ViewInv
    <2>2. QED
      BY <2>1 DEF Target, Base, Existing
  <1>2. QED
    BY <1>1, TableInvariant, PTL

\* FindByID is wrong only for a key deleted and inserted again.
THEOREM FindMissesOnly == Spec => []FindMissesOnlyReinserted
  <1>1. TableInv => FindMissesOnlyReinserted
    <2> SUFFICES ASSUME TableInv, phase = "open", NEW k \in Keys
                 PROVE  \/ FindByID(k) = view[k]
                        \/ k \in deletes /\ inserts[k] # NoRecord /\ FindByID(k) = NoRecord
      BY DEF FindMissesOnlyReinserted
    <2>1. view[k] = Target(k) /\ primary = published
      BY DEF TableInv, ViewInv
    <2>2. updates[k] # NoRecord => ~cleared /\ k \notin deletes
      BY DEF TableInv, StagingInv, Base
    <2>3. QED
      BY <2>1, <2>2 DEF Target, Base, FindByID
  <1>2. QED
    BY <1>1, TableInvariant, PTL

\* A published commit is the sequence of its operations.
THEOREM CommitApplies == Spec => []CommitAppliesAll
  <1>1. TableInv => CommitAppliesAll
    BY DEF TableInv, ViewInv, CommitAppliesAll
  <1>2. QED
    BY <1>1, TableInvariant, PTL

\* The secondary index agrees with the primary index.
THEOREM SecondaryIsCoherent == Spec => []SecondaryCoherent
  <1>1. TableInv => SecondaryCoherent
    <2> SUFFICES ASSUME TableInv
                 PROVE  secondary = {<<r.s, r.id>> : r \in Present(primary, Keys)}
      BY DEF SecondaryCoherent
    <2>1. \A v, k : <<v, k>> \in secondary =>
            <<v, k>> \in {<<r.s, r.id>> : r \in Present(primary, Keys)}
      BY DEF TableInv, TypeOK, SecondaryInv, KeyedInv, Keyed, Present
    <2>2. \A r \in Present(primary, Keys) : <<r.s, r.id>> \in secondary
      <3> SUFFICES ASSUME NEW k \in Keys, primary[k] # NoRecord
                   PROVE  <<primary[k].s, primary[k].id>> \in secondary
        BY DEF Present
      <3>1. primary[k].id = k /\ primary[k].s \in SValues
        BY DEF TableInv, TypeOK, RecordOrNone, Records, KeyedInv, Keyed
      <3>2. QED
        BY <3>1 DEF TableInv, SecondaryInv
    <2>3. secondary \subseteq SValues \X Keys
      BY DEF TableInv, TypeOK
    <2>4. QED
      BY <2>1, <2>2, <2>3
  <1>2. QED
    BY <1>1, TableInvariant, PTL

\* The unique index never leads to a record that is gone.
THEOREM UniqueIsSound == Spec => []UniqueSound
  <1>1. TableInv => UniqueSound
    BY DEF TableInv, UniqueInv, UniqueSound
  <1>2. QED
    BY <1>1, TableInvariant, PTL

\* Readers find each key old or new, or missing exactly while the commit replaces it.
THEOREM ReadersAreSafe == Spec => []ReadersSeeOldOrNew
  <1>1. TableInv => ReadersSeeOldOrNew
    <2> SUFFICES ASSUME TableInv, NEW k \in Keys
                 PROVE  \/ primary[k] \in {published[k], durable[k]}
                        \/ primary[k] = NoRecord /\ Replacing(k)
      BY DEF ReadersSeeOldOrNew
    <2>1. CASE phase \in {"idle", "open", "clear"}
      BY <2>1 DEF TableInv, ViewInv, ApplyInv
    <2>2. ASSUME phase \in {"deletes", "inserts", "updates"}
          PROVE  durable[k] = Target(k)
      BY <2>2 DEF TableInv, ViewInv
    <2>3. CASE phase = "deletes"
      <3>1. primary[k] \in {published[k], NoRecord}
        BY <2>3 DEF TableInv, ApplyInv
      <3>2. CASE primary[k] = NoRecord /\ primary[k] # published[k] /\ inserts[k] = NoRecord
        BY <2>2, <2>3, <3>2 DEF TableInv, ApplyInv, StagingInv, Target, Base
      <3>3. CASE primary[k] = NoRecord /\ primary[k] # published[k] /\ inserts[k] # NoRecord
        BY <2>3, <3>3 DEF TableInv, ApplyInv, Replacing
      <3>4. QED
        BY <3>1, <3>2, <3>3
    <2>4. CASE phase = "inserts"
      <3>1. CASE inserts[k] # NoRecord /\ k \notin todo
        BY <2>2, <2>4, <3>1 DEF TableInv, ApplyInv, Target
      <3>2. CASE ~(inserts[k] # NoRecord /\ k \notin todo)
        BY <2>2, <2>4, <3>2 DEF TableInv, ApplyInv, StagingInv, Target, Base, Replacing
      <3>3. QED
        BY <3>1, <3>2
    <2>5. CASE phase = "updates"
      BY <2>2, <2>5 DEF TableInv, ApplyInv, StagingInv, Target, Base, Replacing
    <2>6. QED
      BY <2>1, <2>3, <2>4, <2>5 DEF TableInv, TypeOK, Phases
  <1>2. QED
    BY <1>1, TableInvariant, PTL

\* The variables of a table transaction keep their types: in particular every staged and every indexed record is one of the table's.
THEOREM TableTypeCorrect == Spec => []TypeOK
  <1>1. TableInv => TypeOK
    BY DEF TableInv
  <1>2. QED
    BY <1>1, TableInvariant, PTL

-----------------------------------------------------------------------------
\* What a query over the ids K lists of the keys it must decide about: as much of the
\* view as the overlay of the change set gives back.
LEMMA OverlayIsView ==
  ASSUME TableInv, phase = "open", ~cleared, NEW K \in SUBSET Keys, NEW r
  PROVE  r \in Overlay(K) <=>
            \E k \in Keys : /\ r = view[k] /\ r # NoRecord
                            /\ k \in K \/ inserts[k] # NoRecord \/ updates[k] # NoRecord
  <1>1. \A k \in Keys : /\ view[k] = Target(k) /\ primary = published
                        /\ updates[k] # NoRecord => inserts[k] = NoRecord
    BY DEF TableInv, ViewInv, StagingInv
  <1>2. ASSUME r \in Overlay(K)
        PROVE  \E k \in Keys : /\ r = view[k] /\ r # NoRecord
                               /\ k \in K \/ inserts[k] # NoRecord \/ updates[k] # NoRecord
    <2>1. CASE \E k \in K : /\ r = primary[k] /\ r # NoRecord /\ k \notin deletes
                            /\ updates[k] = NoRecord /\ inserts[k] = NoRecord
      BY <1>1, <2>1 DEF Target, Base
    <2>2. CASE \E k \in Keys : r = inserts[k] /\ r # NoRecord
      BY <1>1, <2>2 DEF Target, Base
    <2>3. CASE \E k \in Keys : r = updates[k] /\ r # NoRecord
      BY <1>1, <2>3 DEF Target, Base
    <2> QED BY <1>2, <2>1, <2>2, <2>3 DEF Overlay, Present
  <1>3. ASSUME NEW k \in Keys, r = view[k], r # NoRecord,
               k \in K \/ inserts[k] # NoRecord \/ updates[k] # NoRecord
        PROVE  r \in Overlay(K)
    <2>1. CASE inserts[k] # NoRecord
      BY <1>1, <1>3, <2>1 DEF Target, Base, Overlay, Present
    <2>2. CASE updates[k] # NoRecord
      BY <1>1, <1>3, <2>2 DEF Target, Base, Overlay, Present
    <2>3. CASE inserts[k] = NoRecord /\ updates[k] = NoRecord
      <3>1. r = primary[k] /\ k \notin deletes
        BY <1>1, <1>3, <2>3 DEF Target, Base
      <3> QED BY <1>3, <2>3, <3>1 DEF Overlay, Present
    <2> QED BY <2>1, <2>2, <2>3
  <1> QED BY <1>2, <1>3

\* After a clear only the staged inserts are left.
LEMMA ClearedView ==
  ASSUME TableInv, phase = "open", cleared, NEW k \in Keys
  PROVE  view[k] = inserts[k]
  BY DEF TableInv, ViewInv, StagingInv, Target, Base

\* Every record of the view is listed under its own key.
LEMMA ViewKeyed ==
  ASSUME TableInv, phase = "open", NEW k \in Keys, view[k] # NoRecord
  PROVE  view[k].id = k
  BY DEF TableInv, ViewInv, KeyedInv, Keyed, Target, Base

\* Queries see the transaction's own writes: the scan, the lookup by id and the lookup in
\* the secondary index, for any keys and values and any sequence of operations.
THEOREM QueriesSeeWrites == Spec => []QueriesSeeOwnWrites
  <1>1. ASSUME TableInv, phase = "open"
        PROVE  QueryAll = Present(view, Keys)
    <2>1. CASE cleared
      BY <1>1, <2>1, ClearedView DEF QueryAll, Present
    <2>2. CASE ~cleared
      <3>1. \A r : r \in Overlay(Keys) <=> \E k \in Keys : r = view[k] /\ r # NoRecord
        BY <1>1, <2>2, OverlayIsView
      <3> QED BY <2>2, <3>1 DEF QueryAll, Present
    <2> QED BY <2>1, <2>2
  <1>2. ASSUME TableInv, phase = "open", NEW k \in Keys
        PROVE  QueryByID(k) = Present(view, {k})
    <2>1. CASE cleared
      <3>1. Overlay({k}) = {inserts[k]} \ {NoRecord}
        BY <2>1 DEF Overlay, Present
      <3>2. view[k] = inserts[k] /\ (view[k] # NoRecord => view[k].id = k)
        BY <1>2, <2>1, ClearedView, ViewKeyed
      <3> QED BY <3>1, <3>2 DEF QueryByID, Present
    <2>2. CASE ~cleared
      <3>1. \A r : r \in Overlay({k}) <=>
                \E j \in Keys : /\ r = view[j] /\ r # NoRecord
                                /\ j \in {k} \/ inserts[j] # NoRecord \/ updates[j] # NoRecord
        BY <1>2, <2>2, OverlayIsView
      <3>2. \A j \in Keys : view[j] # NoRecord => view[j].id = j
        BY <1>2, ViewKeyed
      <3>3. \A r : r \in QueryByID(k) <=> r = view[k] /\ r # NoRecord
        BY <3>1, <3>2 DEF QueryByID
      <3> QED BY <3>3 DEF Present
    <2> QED BY <2>1, <2>2
  <1>3. ASSUME TableInv, phase = "open", NEW v \in SValues
        PROVE  QueryByS(v) = {r \in Present(view, Keys) : r.s = v}
    <2>1. CASE cleared
      BY <1>1, <1>3, <2>1 DEF QueryByS
    <2>2. CASE ~cleared
      <3> DEFINE ids == {k \in Keys : <<v, k>> \in secondary}
      <3>1. \A r : r \in Overlay(ids) <=>
                \E j \in Keys : /\ r = view[j] /\ r # NoRecord
                                /\ j \in ids \/ inserts[j] # NoRecord \/ updates[j] # NoRecord
        BY <1>3, <2>2, OverlayIsView
      <3>2. ASSUME NEW j \in Keys, view[j] # NoRecord, view[j].s = v,
                   inserts[j] = NoRecord, updates[j] = NoRecord
            PROVE  j \in ids
        <4>1. view[j] = primary[j]
          BY <1>3, <2>2, <3>2 DEF TableInv, ViewInv, Target, Base
        <4> QED BY <1>3, <3>2, <4>1 DEF TableInv, SecondaryInv
      <3>3. \A r : r \in Overlay(ids) /\ r.s = v <=>
                (\E j \in Keys : r = view[j] /\ r # NoRecord) /\ r.s = v
        BY <3>1, <3>2
      <3> HIDE DEF ids
      <3>4. {r \in Overlay(ids) : r.s = v} = {r \in Present(view, Keys) : r.s = v}
        BY <3>3 DEF Present
      <3> QED BY <2>2, <3>4 DEF QueryByS, ids
    <2> QED BY <2>1, <2>2
  <1>4. TableInv => QueriesSeeOwnWrites
    BY <1>1, <1>2, <1>3 DEF QueriesSeeOwnWrites
  <1>5. QED
    BY <1>4, TableInvariant, PTL
=============================================================================

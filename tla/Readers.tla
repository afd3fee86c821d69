------------------------------- MODULE Readers --------------------------------
(***************************************************************************)
(* FindByID without a transaction takes no lock: it gets the open index of *)
(* the table, looks up the root page, fetches that page from the cache or  *)
(* the file, and reads the table file at the pointer it found.  Meanwhile  *)
(* the owner of the writer lock updates records, clears the table or       *)
(* compacts it, one step at a time.                                        *)
(*                                                                         *)
(* The primary index is one leaf, and so is the secondary index if there   *)
(* is one; that is not unique, so none of its keys equals a primary key.   *)
(* A commit frees the pages they had before, and the next transaction      *)
(* takes them, the last one first; the catalog takes its own page back     *)
(* within each commit and is left out.  Records all have one size, so that *)
(* every pointer into the table file leads to a record or beyond the end.  *)
(***************************************************************************)
EXTENDS Integers, Sequences, SequencesExt

CONSTANTS
    Keys,
    Readers,        \* concurrent FindByID calls
    MaxWrites       \* bound: updates, clears and compactions

ASSUME ReadersAssumption ==
    IsFiniteSet(Keys) /\ Keys # {} /\ IsFiniteSet(Readers) /\ MaxWrites \in Nat

VARIABLES
    secondary,  \* the table has a secondary index
    file,       \* .db: records <<key, version>>, the pointer is the position
    disk,       \* .idx: what the last commit wrote
    trees,      \* the index objects of this process; replaced ones may still be in use
    cached,     \* shadowIndexes: position in trees, 0 for none
    version,    \* key -> version of its record by the WAL, 0 for none
    before,     \* the same before the write that is being applied
    pc,         \* where the writer is
    todo,       \* keys it has yet to delete and insert again
    change,     \* the leaf it is filling or changing: its page, 0 for none, and the entries
                \* that are copied or changed
    ptrs,       \* key -> pointer into the table file as appended or compacted
    writes,     \* writes so far, the generation of the latest
    raced,      \* a reader opened the index file between its removal and its truncation
    late,       \* a reader put an old node over a newer one in the cache
    reader      \* the FindByID calls

storage == <<secondary, file, disk, version, before>>
writer == <<pc, todo, change, ptrs, writes>>
index == <<trees, cached>>
vars == <<storage, writer, index, raced, late, reader>>

\* Leaves: key -> pointer, 0 for none; what matters of the secondary index is that
\* none of the keys is in it.
NoEntries == [k \in Keys |-> 0]
Leaf(generation, entries) == [gen |-> generation, entries |-> entries]

NoChange == [page |-> 0, entries |-> NoEntries]

EmptyFile == [prim |-> 0, sec |-> 0, free |-> <<>>, next |-> 3, node |-> <<>>]

\* Mutant: the file is closed although the index has been stored.
OpenTreeClosed(content) ==
    [prim |-> content.prim, sec |-> content.sec, free |-> content.free, next |-> content.next,
     cache |-> <<>>, orphans |-> <<>>, open |-> FALSE]

\* An index object: catalog and free list as loaded, nodeCache, orphanedList.
OpenTree(content) ==
    [prim |-> content.prim, sec |-> content.sec, free |-> content.free, next |-> content.next,
     cache |-> <<>>, orphans |-> <<>>, open |-> TRUE]

\* The orders a map of the keys can be iterated in.
Orders == {order \in [1..Cardinality(Keys) -> Keys] :
               \A k \in Keys : \E i \in DOMAIN order : order[i] = k}
Place(order) == [k \in Keys |-> CHOOSE i \in DOMAIN order : order[i] = k]

\* A call of FindByID: the key, the index object and the page and the pointer found so
\* far, the versions of the record and the events during the call, what it returned.
Call(place, k, seen, events, result) ==
    [pc |-> place, key |-> k, tree |-> 0, page |-> 0, node |-> Leaf(0, NoEntries), ptr |-> 0,
     seen |-> seen, events |-> events, result |-> result]
NoCall == Call("start", "none", {}, {}, <<>>)

\* A table with one record per key, its index just opened.
Init ==
    \E order \in Orders :
        /\ secondary \in BOOLEAN
        /\ file = [i \in DOMAIN order |-> <<order[i], 1>>]
        /\ disk = [prim |-> 3, sec |-> IF secondary THEN 4 ELSE 0, free |-> <<>>, next |-> 5,
                   node |-> [p \in {3, 4} |-> Leaf(0, IF p = 3 THEN Place(order) ELSE NoEntries)]]
        /\ trees = <<OpenTree(disk)>>
        /\ cached = 1
        /\ version = [k \in Keys |-> 1]
        /\ before = version
        /\ pc = "idle"
        /\ todo = {}
        /\ change = NoChange
        /\ ptrs = NoEntries
        /\ writes = 0
        /\ raced = FALSE
        /\ late = FALSE
        /\ reader = [r \in Readers |-> NoCall]

-----------------------------------------------------------------------------
(* An index object. *)

Tree == trees[cached]
UpdateTree(t) == trees' = [trees EXCEPT ![cached] = t]

\* getNode: from the cache, or from the file as it is now.
InCache(t, page) == page \in DOMAIN t.cache
InFile(t, page) == t.open /\ page \in DOMAIN disk.node
Node(t, page) == IF InCache(t, page) THEN t.cache[page] ELSE disk.node[page]

\* allocatePageID and registerNewNode.
NewPage(t) == IF t.free # <<>> THEN Last(t.free) ELSE t.next

\* The page with new contents, whatever it had.
Put(cache, page, leaf) ==
    [p \in DOMAIN cache \cup {page} |-> IF p = page THEN leaf ELSE cache[p]]

\* The page as getNode leaves it in the cache; there is no page 0.
Load(cache, page) ==
    IF page = 0 \/ page \in DOMAIN cache THEN cache ELSE Put(cache, page, disk.node[page])

Register(t, leaf) ==
    [t EXCEPT !.cache = Put(@, NewPage(t), leaf),
              !.free = IF @ # <<>> THEN Front(@) ELSE @,
              !.next = IF t.free # <<>> THEN @ ELSE @ + 1]

\* A page this transaction has made is changed in place, any other one is copied.
InPlace(t, page) == page # 0 /\ InCache(t, page) /\ t.cache[page].gen = writes

\* What is looked up and registered before the leaf of the primary index is changed: a
\* copy starts as an empty node, and so does the first leaf, which is the root at once.
Claim(t) ==
    IF InPlace(t, t.prim) THEN t
    ELSE [Register(t, Leaf(writes, NoEntries)) EXCEPT
              !.prim = IF @ = 0 THEN NewPage(t) ELSE @,
              !.cache = Load(@, t.prim)]

\* Keys and Pointers of the claimed leaf are as they should be; if a reader has put
\* another node in its place, nobody will find it.
FillLeaf(cache, entries) ==
    IF cache[change.page].gen = writes THEN Put(cache, change.page, Leaf(writes, entries)) ELSE cache

\* Mutant: the page copied is free at once.
ChangePrimaryFrees(t, entries) ==
    [t EXCEPT !.prim = change.page,
              !.free = IF t.prim = change.page THEN @ ELSE Append(@, t.prim),
              !.cache = FillLeaf(@, entries)]

\* The leaf is complete and, if it is a copy, becomes the root.
ChangePrimary(t, entries) ==
    [t EXCEPT !.prim = change.page,
              !.orphans = IF t.prim = change.page THEN @ ELSE Append(@, t.prim),
              !.cache = FillLeaf(@, entries)]

ChangeSecondary(t) ==
    IF InPlace(t, t.sec) \/ ~secondary THEN t
    ELSE [Register(t, Leaf(writes, NoEntries)) EXCEPT
              !.sec = NewPage(t),
              !.orphans = IF t.sec = 0 THEN @ ELSE Append(@, t.sec),
              !.cache = Load(@, t.sec)]

Entries(t) == IF t.prim = 0 THEN NoEntries ELSE Node(t, t.prim).entries

\* writeNewStateLocked: the pages given up are free for the next transaction.
Committed(t) == [t EXCEPT !.free = @ \o t.orphans, !.orphans = <<>>]

\* The file with the pages of the cache that this transaction made, catalog and superblock.
Written(t) ==
    LET dirty == {p \in DOMAIN t.cache : t.cache[p].gen = writes}
    IN  [prim |-> t.prim, sec |-> t.sec, free |-> t.free, next |-> t.next,
         node |-> [p \in dirty \cup DOMAIN disk.node |->
                      IF p \in dirty THEN t.cache[p] ELSE disk.node[p]]]

-----------------------------------------------------------------------------
(* What readers on their way live through. *)

Reading(r) == reader[r].pc \notin {"start", "done"}

\* A write begins.  Pages that a commit has freed since a reader looked up its root
\* may be taken by it.
Note(event, keys, versions) ==
    reader' = [r \in Readers |->
        IF Reading(r)
        THEN [reader[r] EXCEPT !.events = @ \cup (IF reader[r].key \in keys THEN {event} ELSE {})
                                            \cup (IF "commit" \in @ THEN {"reuse"} ELSE {}),
                               !.seen = @ \cup {versions[reader[r].key]}]
        ELSE reader[r]]

NoteCommit ==
    reader' = [r \in Readers |->
        IF Reading(r) THEN [reader[r] EXCEPT !.events = @ \cup {"commit"}] ELSE reader[r]]

-----------------------------------------------------------------------------
(* The writer: a transaction that inserts or updates records. *)

\* What later writes do with an index that a reader opened too early, or whose cache it
\* has set back, is not followed.
Begin ==
    /\ pc = "idle"
    /\ ~raced /\ ~late
    /\ writes < MaxWrites
    /\ writes' = writes + 1

\* The WAL has the transaction, the table file its records.
AppendRecords(keys) ==
    /\ Begin
    /\ version' = [k \in Keys |-> IF k \in keys THEN writes + 2 ELSE version[k]]
    /\ \E order \in {o \in Orders : \A i \in DOMAIN o : i <= Cardinality(keys) <=> o[i] \in keys} :
          /\ file' = file \o [i \in 1..Cardinality(keys) |-> <<order[i], writes + 2>>]
          /\ ptrs' = [k \in Keys |-> IF k \in keys THEN Len(file) + Place(order)[k] ELSE 0]
    /\ todo' = keys
    /\ pc' = "apply"
    /\ Note("update", keys, version')
    /\ UNCHANGED <<secondary, disk, before, index, change, raced, late>>

\* The insertion or deletion of an entry begins.
ClaimLeaf ==
    /\ pc \in {"apply", "insert", "refill"} /\ change.page = 0
    /\ UpdateTree(Claim(Tree))
    /\ change' = [page |-> IF InPlace(Tree, Tree.prim) THEN Tree.prim ELSE NewPage(Tree),
                  entries |-> Entries(Tree)]
    /\ UNCHANGED <<storage, cached, pc, todo, ptrs, writes, raced, late, reader>>

\* It ends: the entry of the key is e, in the secondary index its entry is changed too.
ChangeEntry(k, e) ==
    /\ change.page # 0
    /\ UpdateTree(ChangeSecondary(ChangePrimary(Tree, [change.entries EXCEPT ![k] = e])))
    /\ change' = NoChange

\* An update, after all insertions: shadowDeleteNoCommit.  The entry is gone until the
\* new one is inserted.
ShadowDelete(k) ==
    /\ pc = "apply"
    /\ k \in todo /\ \A l \in todo : before[l] # 0
    /\ ChangeEntry(k, 0)
    /\ pc' = "insert"
    /\ todo' = {k}
    /\ UNCHANGED <<storage, cached, ptrs, writes, raced, late, reader>>

\* The records that shadowInsertNoCommit may be called with next: one just deleted, a new
\* one, or any of them in Compact.
Insertable(k) == k \in todo /\ (pc = "apply" => before[k] = 0)

ShadowInsert(k) ==
    /\ pc \in {"apply", "insert", "refill"}
    /\ Insertable(k)
    /\ ChangeEntry(k, ptrs[k])
    /\ ptrs' = [ptrs EXCEPT ![k] = 0]
    /\ todo' = {l \in Keys : ptrs'[l] # 0}
    /\ pc' = IF todo' = {} THEN "commit" ELSE IF pc = "refill" THEN pc ELSE "apply"
    /\ UNCHANGED <<storage, cached, writes, raced, late, reader>>

ShadowCommit ==
    /\ pc = "commit"
    /\ UpdateTree(Committed(Tree))
    /\ disk' = Written(Committed(Tree))
    /\ before' = version
    /\ pc' = "idle"
    /\ NoteCommit
    /\ UNCHANGED <<secondary, file, version, cached, todo, change, ptrs, writes, raced, late>>

-----------------------------------------------------------------------------
(* The writer: clear and compact, which both call shadowClear. *)

Clear ==
    /\ Begin
    /\ version' = [k \in Keys |-> 0]
    /\ pc' = "remove"
    /\ Note("clear", Keys, version')
    /\ UNCHANGED <<secondary, file, disk, before, index, todo, change, ptrs, raced, late>>

\* The table file is swapped for one without holes, in the order of a map.
Compact ==
    /\ Begin
    /\ LET kept == {k \in Keys : Entries(Tree)[k] # 0}
       IN  \E order \in {o \in Orders : \A i \in DOMAIN o : i <= Cardinality(kept) <=> o[i] \in kept} :
              /\ file' = [i \in 1..Cardinality(kept) |-> file[Entries(Tree)[order[i]]]]
              /\ ptrs' = [k \in Keys |-> IF k \in kept THEN Place(order)[k] ELSE 0]
    /\ pc' = "remove"
    /\ Note("compact", Keys, version)
    /\ UNCHANGED <<secondary, disk, version, before, index, todo, change, raced, late>>

\* shadowClear: LoadAndDelete and Close, Truncate, getShadowIndex.
RemoveIndex ==
    /\ pc = "remove"
    /\ UpdateTree([Tree EXCEPT !.open = FALSE])
    /\ cached' = 0
    /\ pc' = "truncate"
    /\ UNCHANGED <<storage, todo, change, ptrs, writes, raced, late, reader>>

\* Mutant: the file is left as it is.
TruncateSkipped ==
    /\ pc = "truncate"
    /\ pc' = "reopen"
    /\ UNCHANGED <<storage, index, todo, change, ptrs, writes, raced, late, reader>>

Truncate ==
    /\ pc = "truncate"
    /\ disk' = EmptyFile
    /\ pc' = "reopen"
    /\ UNCHANGED <<secondary, file, version, before, index, todo, change, ptrs, writes, raced, late, reader>>

Reopen ==
    /\ pc = "reopen"
    /\ IF cached = 0
       THEN trees' = Append(trees, OpenTree(disk)) /\ cached' = Len(trees) + 1
       ELSE UNCHANGED index
    /\ todo' = {k \in Keys : ptrs[k] # 0}
    /\ IF todo' = {} THEN pc' = "idle" /\ before' = version
                     ELSE pc' = (IF raced THEN "stop" ELSE "refill") /\ UNCHANGED before
    /\ UNCHANGED <<secondary, file, disk, version, change, ptrs, writes, raced, late, reader>>

-----------------------------------------------------------------------------
(* FindByID without a transaction. *)

Finish(r, result) ==
    reader' = [reader EXCEPT ![r] = Call("done", @.key, @.seen, @.events, result)]

\* What of a write that is being applied a reader of the key meets when it comes.
Underway(k) ==
    {event \in {"update", "clear", "compact"} :
        CASE event = "update" -> pc \in {"apply", "insert"} /\ version[k] # before[k]
          [] event = "clear" -> pc \in {"remove", "truncate", "reopen"} /\ ptrs = NoEntries
          [] event = "compact" -> pc \in {"remove", "truncate", "reopen", "refill", "stop"}
                                     /\ ptrs # NoEntries}

\* getShadowIndex: the open index, or the file opened again.
GetIndex(r, k) ==
    /\ reader[r].pc = "start"
    /\ IF cached = 0
       THEN /\ trees' = Append(trees, OpenTree(disk))
            /\ cached' = Len(trees) + 1
            /\ raced' = (raced \/ pc = "truncate")
       ELSE UNCHANGED <<index, raced>>
    /\ reader' = [reader EXCEPT ![r] =
          [Call("root", k, {version[k], before[k]}, Underway(k), <<>>) EXCEPT !.tree = cached']]
    /\ UNCHANGED <<storage, writer, late>>

\* The root page of the primary index.
FindRoot(r) ==
    /\ reader[r].pc = "root"
    /\ LET t == trees[reader[r].tree]
       IN  IF t.prim = 0 THEN Finish(r, <<"missing">>)
           ELSE reader' = [reader EXCEPT ![r].pc = "node", ![r].page = t.prim]
    /\ UNCHANGED <<storage, writer, index, raced, late>>

\* Mutant: the next key is taken for the one asked for.
SearchNearest(r, leaf) ==
    LET present == {k \in Keys : leaf.entries[k] # 0}
        k == IF present = {} \/ reader[r].key \in present THEN reader[r].key ELSE CHOOSE l \in present : TRUE
        ptr == leaf.entries[k]
    IN  IF ptr = 0 THEN Finish(r, <<"missing">>)
        ELSE reader' = [reader EXCEPT ![r].pc = "read", ![r].ptr = ptr]

\* The entry of the key, if the leaf has one.
Search(r, leaf) ==
    LET ptr == leaf.entries[reader[r].key]
    IN  IF ptr = 0 THEN Finish(r, <<"missing">>)
        ELSE reader' = [reader EXCEPT ![r].pc = "read", ![r].ptr = ptr]

\* The page is in the cache: what is on it by now.
FindNode(r) ==
    /\ reader[r].pc = "node"
    /\ LET t == trees[reader[r].tree]
           page == reader[r].page
       IN  /\ InCache(t, page)
           /\ Search(r, t.cache[page])
    /\ UNCHANGED <<storage, writer, index, raced, late>>

\* The leaf is being filled or changed, first its Keys and then its Pointers: the pointer
\* of any entry, none, or a position of Keys that Pointers does not have.
FindTorn(r) ==
    /\ reader[r].pc = "node"
    /\ change.page # 0 /\ reader[r].tree = cached /\ reader[r].page = change.page
    /\ Tree.cache[change.page].gen = writes
    /\ \E ptr \in {0, Len(file) + 1} \cup {change.entries[k] : k \in Keys}
                  \cup {ptrs[k] : k \in {l \in Keys : Insertable(l)}} :
          reader' = [reader EXCEPT ![r].pc = "read", ![r].ptr = ptr,
                                   ![r].events = @ \cup {"torn"}]
    /\ UNCHANGED <<storage, writer, index, raced, late>>

\* The page is not in the cache: it is read from the file, if that still has it.
FetchPage(r) ==
    /\ reader[r].pc = "node"
    /\ LET t == trees[reader[r].tree]
           page == reader[r].page
       IN  /\ ~InCache(t, page)
           /\ IF InFile(t, page)
              THEN reader' = [reader EXCEPT ![r].pc = "fetched", ![r].node = disk.node[page]]
              ELSE Finish(r, <<"error">>)
    /\ UNCHANGED <<storage, writer, index, raced, late>>

\* It goes into the cache, over whatever has been put there since.
CacheNode(r) ==
    /\ reader[r].pc = "fetched"
    /\ LET t == trees[reader[r].tree]
           page == reader[r].page
       IN  /\ trees' = [trees EXCEPT ![reader[r].tree].cache = Put(@, page, reader[r].node)]
           /\ late' = (late \/ (InCache(t, page) /\ t.cache[page] # reader[r].node))
    /\ Search(r, reader[r].node)
    /\ UNCHANGED <<storage, writer, cached, raced>>

ReadRecord(r) ==
    /\ reader[r].pc = "read"
    /\ Finish(r, CASE reader[r].ptr = 0 -> <<"missing">>
                   [] reader[r].ptr \in DOMAIN file -> file[reader[r].ptr]
                   [] OTHER -> <<"error">>)
    /\ UNCHANGED <<storage, writer, index, raced, late>>

Next ==
    \/ \E keys \in (SUBSET Keys) \ {{}} : AppendRecords(keys)
    \/ ClaimLeaf \/ \E k \in Keys : ShadowDelete(k) \/ ShadowInsert(k)
    \/ ShadowCommit
    \/ Clear \/ Compact \/ RemoveIndex \/ Truncate \/ Reopen
    \/ \E r \in Readers : \/ \E k \in Keys : GetIndex(r, k)
                          \/ FindRoot(r) \/ FindNode(r) \/ FindTorn(r)
                          \/ FetchPage(r) \/ CacheNode(r) \/ ReadRecord(r)

Spec == Init /\ [][Next]_vars

-----------------------------------------------------------------------------
(* Properties. *)

\* Every variable stays in its set; the pages of an index are below its next page.
TypeOK ==
    /\ \A i \in DOMAIN file : file[i] \in Keys \X (1..MaxWrites + 1)
    /\ cached \in 0..Len(trees)
    /\ version \in [Keys -> 0..MaxWrites + 1] /\ before \in [Keys -> 0..MaxWrites + 1]
    /\ pc \in {"idle", "apply", "insert", "commit", "remove", "truncate", "reopen", "refill", "stop"}
    /\ todo \subseteq Keys
    /\ change \in [page : Nat, entries : [Keys -> Nat]]
    /\ raced \in BOOLEAN /\ late \in BOOLEAN
    /\ DOMAIN ptrs = Keys
    /\ writes \in 0..MaxWrites
    /\ \A i \in DOMAIN trees : \A p \in DOMAIN trees[i].cache : p \in 3..trees[i].next - 1

Result(r) == reader[r].result
Done(r) == reader[r].pc = "done"
Met(r, events) == reader[r].events \cap events # {}

\* FindByID returns the record asked for, as it was at some time during the call, unless
\* the leaf was being filled or changed as it was read or the table file was compacted: no
\* other interleaving of lock-free reading with commits hands out a wrong record.
RightRecord ==
    \A r \in Readers : Done(r) /\ Len(Result(r)) = 2 =>
        \/ Result(r)[1] = reader[r].key /\ Result(r)[2] \in reader[r].seen
        \/ Met(r, {"torn", "compact"}) \/ late \/ raced

\* FindByID misses a record that existed throughout the call only while an update of
\* that record is being applied, the leaf is filled or changed, a write took the page
\* it was about to read, freed by a commit since, or the index is being rebuilt.
MissingOnly ==
    \A r \in Readers : Done(r) /\ Result(r) = <<"missing">> =>
        \/ 0 \in reader[r].seen
        \/ Met(r, {"update", "torn", "reuse", "compact"})

\* FindByID fails only while the index is being rebuilt or its leaf filled or changed, or
\* once it was opened between removal and truncation.
ErrorOnly ==
    \A r \in Readers : Done(r) /\ Result(r) = <<"error">> =>
        Met(r, {"torn", "clear", "compact"}) \/ raced

\* Once a write is applied the open index leads to the current record of every key, and
\* so does the file when it is opened next; the reads that go on meanwhile can undo
\* that only by opening the file too early or by caching a node too late.
Leads(t) ==
    \A k \in Keys : IF version[k] = 0 THEN Entries(t)[k] = 0
                    ELSE Entries(t)[k] \in DOMAIN file /\ file[Entries(t)[k]] = <<k, version[k]>>

WritesArrive ==
    pc = "idle" /\ ~raced /\ ~late =>
        /\ cached # 0 => Leads(Tree)
        /\ Leads(OpenTree(disk))
=============================================================================

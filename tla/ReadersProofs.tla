---------------------------- MODULE ReadersProofs -----------------------------
(***************************************************************************)
(* Proofs about Readers for any keys, any number of concurrent FindByID    *)
(* calls and any number of writes: all that the run checks on an instance. *)
(*                                                                         *)
(* IInv, the inductive invariant, says four things.  The index objects own *)
(* their pages: none is at once a root, free and given up (TreesInv).  The *)
(* entries of the open index lead, key by key and for every place of the   *)
(* writer, to the old record, the new one or none (Control, Versions,      *)
(* TreeLeads, DiskLeads, Present).  A page that a call is about to read    *)
(* and nobody has cached is the root of the primary index as it is in the  *)
(* file (Uncached, FullPrimary, PageKept).  And a call on its way either   *)
(* has met the event that excuses a bad outcome or holds an index object,  *)
(* a page and a pointer that lead to a good one, whatever other calls put  *)
(* into the cache meanwhile (EventsInv, MissInv, ErrInv, RightInv).        *)
(***************************************************************************)
EXTENDS Readers, FiniteSetTheorems, TLAPS

\* The records of the table file.
Rows == Keys \X Nat
\* A leaf of the primary index: its generation and key -> pointer, 0 for none.
Leaves == [gen : Nat, entries : [Keys -> Nat]]
\* Functions from some pages to leaves: nodeCache, and the pages of the index file.
Caches == UNION {[D -> Leaves] : D \in SUBSET Nat}

\* The index file.
Files == [prim : Nat, sec : Nat, free : Seq(Nat), next : Nat, node : Caches]
\* An index object.
Trees == [prim : Nat, sec : Nat, free : Seq(Nat), next : Nat, cache : Caches,
          orphans : Seq(Nat), open : BOOLEAN]
\* What can happen during a read.
Events == {"update", "clear", "compact", "commit", "reuse", "torn"}
\* A call of FindByID.
Calls == [pc : {"start", "root", "node", "fetched", "read", "done"}, key : Keys \cup {"none"},
          tree : Nat, page : Nat, node : Leaves, ptr : Nat, seen : SUBSET Nat,
          events : SUBSET Events, result : {<<>>, <<"missing">>, <<"error">>} \cup Rows]

\* The types of all variables that are not Boolean.
Types ==
    /\ file \in Seq(Rows)
    /\ disk \in Files
    /\ trees \in Seq(Trees)
    /\ cached \in 0..Len(trees)
    /\ version \in [Keys -> Nat] /\ before \in [Keys -> Nat]
    /\ pc \in {"idle", "apply", "insert", "commit", "remove", "truncate", "reopen", "refill", "stop"}
    /\ todo \subseteq Keys
    /\ change \in [page : Nat, entries : [Keys -> Nat]]
    /\ ptrs \in [Keys -> Nat]
    /\ writes \in 0..MaxWrites
    /\ reader \in [Readers -> Calls]

\* The types of the Boolean variables.
Booleans == raced \in BOOLEAN /\ late \in BOOLEAN /\ secondary \in BOOLEAN

-----------------------------------------------------------------------------
\* The keys the writer has yet to insert.
Waiting == {k \in Keys : ptrs[k] # 0}

\* No page is listed twice.
Distinct(s) == \A i, j \in DOMAIN s : s[i] = s[j] => i = j

\* The page is used by none of the indexes.
Unused(t, p) == p \in 3..(t.next - 1) /\ p # t.prim /\ p # t.sec

\* No page has two uses among the roots, the free list and the pages given up.
Owned(t) ==
    /\ t.next >= 3
    /\ t.prim = 0 \/ t.prim \in 3..(t.next - 1)
    /\ t.sec = 0 \/ t.sec \in 3..(t.next - 1)
    /\ t.prim = t.sec => t.prim = 0
    /\ \A i \in DOMAIN t.free : Unused(t, t.free[i])
    /\ \A i \in DOMAIN t.orphans : Unused(t, t.orphans[i])
    /\ Distinct(t.free) /\ Distinct(t.orphans)
    /\ \A i \in DOMAIN t.free, j \in DOMAIN t.orphans : t.free[i] # t.orphans[j]

\* The open index and the index file own their pages; replaced index objects are closed; every
\* root of the open index can be read from the cache or from the file.
TreesInv ==
    /\ cached # 0 => Owned(Tree) /\ Tree.open
    /\ Owned(OpenTree(disk))
    /\ \A i \in DOMAIN trees : i # cached => ~trees[i].open
    /\ \A i \in DOMAIN trees :
          /\ trees[i].next >= 3
          /\ trees[i].prim = 0 \/ trees[i].prim \in 3..(trees[i].next - 1)
          /\ \A p \in DOMAIN trees[i].cache : p \in 3..(trees[i].next - 1)
    /\ cached # 0 /\ ~raced => \A p \in {Tree.prim, Tree.sec} :
          p = 0 \/ p \in DOMAIN Tree.cache \/ p \in DOMAIN disk.node

\* The writer is inside shadowClear.
Clearing == pc \in {"remove", "truncate", "reopen"}

\* Where the writer is, and what it has yet to do there.
Control ==
    /\ cached = 0 => pc \in {"truncate", "reopen"}
    /\ pc = "truncate" /\ cached # 0 => raced
    /\ pc = "reopen" => disk = EmptyFile
    /\ pc = "reopen" /\ cached # 0 /\ ~raced => Tree.prim = 0 /\ Tree.sec = 0
    /\ pc \in {"idle", "commit"} => Waiting = {}
    /\ pc = "idle" => before = version
    /\ pc \in {"apply", "refill"} => todo = Waiting /\ Waiting # {}
    /\ pc = "insert" => \E k \in Waiting : todo = {k}
    /\ pc = "stop" => Waiting # {}
    /\ raced => pc \in {"truncate", "reopen", "stop"} \/ (pc = "idle" /\ \A k \in Keys : version[k] = 0)

\* Versions are bounded by the number of writes, and what has yet to be inserted is in the table file.
Versions ==
    /\ \A k \in Keys : version[k] <= writes + 1 /\ before[k] <= writes + 1
    /\ pc \in {"apply", "insert"} => \A k \in Waiting : version[k] = writes + 1 /\ before[k] <= writes
    /\ \A k \in Waiting : ptrs[k] \in DOMAIN file /\ file[ptrs[k]] = <<k, version[k]>> /\ version[k] # 0
    /\ Clearing \/ pc = "stop" => \A k \in Keys : version[k] # 0 => k \in Waiting
    /\ \A i \in DOMAIN file : file[i][2] \in 1..(writes + 1)

\* The entry of key k leads to its record of version v.
Points(e, k, v) == IF v = 0 THEN e = 0 ELSE e \in DOMAIN file /\ file[e] = <<k, v>>

\* What the entry of key k leads to, by the place of the writer.
LeadsAt(e, k) ==
    /\ pc \in {"idle", "commit"} => Points(e, k, version[k])
    /\ pc \in {"apply", "insert", "refill"} /\ k \notin Waiting => Points(e, k, version[k])
    /\ pc = "apply" /\ k \in Waiting => Points(e, k, before[k])
    /\ pc = "insert" /\ k \in Waiting => Points(e, k, IF k \in todo THEN 0 ELSE before[k])
    /\ pc = "refill" /\ k \in Waiting => e = 0
    /\ pc = "remove" /\ Waiting = {} => Points(e, k, before[k])

\* The entries of the open index.
TreeLeads == ~raced /\ ~late /\ cached # 0 => \A k \in Keys : LeadsAt(Entries(Tree)[k], k)

\* The entries of the index file once a write is applied.
DiskLeads == pc = "idle" /\ ~raced /\ ~late => Leads(OpenTree(disk))

\* The leaf ShadowCommit has to write is in the cache and of this generation.
CommitDirty ==
    pc = "commit" /\ ~late =>
        /\ Tree.prim # 0 /\ Tree.prim \in DOMAIN Tree.cache
        /\ Tree.cache[Tree.prim].gen = writes

\* The entry of key k leads somewhere when the key has a record, even if a late node was cached.
PresentAt(e, k) ==
    /\ k \notin Waiting /\ version[k] # 0 => e # 0
    /\ k \in Waiting /\ before[k] # 0 /\ (pc = "apply" \/ (pc = "insert" /\ k \notin todo)) => e # 0
    /\ e = 0 \/ e \in DOMAIN file

\* The same of every entry of the open index.
Present == ~raced /\ cached # 0 /\ ~Clearing => \A k \in Keys : PresentAt(Entries(Tree)[k], k)

\* The leaf has an entry for every key.
Full(leaf) == \A k \in Keys : leaf.entries[k] \in DOMAIN file

\* The page of the leaf being changed is the root of the primary index or in no use yet.
Ready(t) ==
    /\ change.page \in 3..(t.next - 1) /\ change.page # t.sec
    /\ \A i \in DOMAIN t.free : t.free[i] # change.page
    /\ \A i \in DOMAIN t.orphans : t.orphans[i] # change.page
    /\ t.prim # 0 /\ t.prim \in DOMAIN t.cache /\ change.page \in DOMAIN t.cache

\* What is in its place in the cache is the node of the writer, or one that a call has put there late.
ClaimedPage ==
    /\ Ready(Tree)
    /\ Tree.cache[change.page].gen = writes \/ (late /\ Full(Tree.cache[change.page]))

\* A leaf is claimed only while the writer changes leaves, and what goes into it are the entries
\* of the open index.
ChangeInv ==
    change.page # 0 =>
        /\ pc \in {"apply", "insert", "refill"}
        /\ ClaimedPage
        /\ ~late => change.entries = Entries(Tree)
        /\ \A k \in Keys : PresentAt(change.entries[k], k)

\* A leaf that nobody has read yet has an entry for every key.
FullPrimary ==
    ~raced /\ cached # 0 /\ ~Clearing /\ Tree.prim # 0 /\ Tree.prim \notin DOMAIN Tree.cache =>
        Full(disk.node[Tree.prim])

\* A page of the open index that a call is about to read and that is not in the cache is the root
\* of the primary index, and what was fetched of it is what the file has.
UncachedAt(r) ==
    reader[r].pc \in {"node", "fetched"} /\ reader[r].tree = cached /\ cached # 0 =>
        /\ reader[r].page \notin DOMAIN Tree.cache =>
              /\ reader[r].page = Tree.prim
              /\ reader[r].pc = "fetched" => reader[r].node = disk.node[reader[r].page]
        /\ reader[r].pc = "fetched" /\ ~Clearing => Full(reader[r].node)
        /\ pc # "reopen"

\* The same of every call.
Uncached == ~raced => \A r \in Readers : UncachedAt(r)

\* A call has a key, an index object of this process, and a page of that object.
CallAt(r) ==
    Reading(r) =>
        /\ reader[r].key \in Keys
        /\ reader[r].tree \in DOMAIN trees
        /\ reader[r].pc \in {"node", "fetched"} => reader[r].page \in 3..(trees[reader[r].tree].next - 1)

\* The same of every call.
CallsInv == \A r \in Readers : CallAt(r)

\* A call has noted what the writer has done since it began.
EventsAt(r) ==
    Reading(r) =>
        /\ Clearing => Met(r, {"clear", "compact"})
        /\ (Clearing \/ pc \in {"refill", "stop"}) /\ Waiting # {} => "compact" \in reader[r].events
        /\ ~raced => reader[r].tree = cached \/ Met(r, {"clear", "compact"})
        /\ "clear" \in reader[r].events => 0 \in reader[r].seen
        /\ version[reader[r].key] \in reader[r].seen /\ before[reader[r].key] \in reader[r].seen
        /\ pc \in {"apply", "insert"} /\ reader[r].key \in Waiting => "update" \in reader[r].events
        /\ pc # "idle" /\ "commit" \in reader[r].events => "reuse" \in reader[r].events

\* The same of every call.
EventsInv == \A r \in Readers : EventsAt(r)

\* The page a call is about to read is not free for the next write, nor taken by it, unless a commit came in between.
KeptAt(r) ==
    reader[r].pc = "node" /\ reader[r].tree = cached /\ cached # 0 /\ ~Met(r, {"commit", "reuse"}) =>
        /\ \A i \in DOMAIN Tree.free : Tree.free[i] # reader[r].page
        /\ change.page = reader[r].page => change.page = Tree.prim

\* The same of every call.
PageKept == ~raced => \A r \in Readers : KeptAt(r)

\* A call that has nothing to excuse a missing record is on its way to an entry.
MissAt(r) ==
    Reading(r) /\ 0 \notin reader[r].seen /\ ~Met(r, {"update", "torn", "reuse", "compact"}) =>
        /\ reader[r].pc = "node" /\ reader[r].page \in DOMAIN trees[reader[r].tree].cache =>
              trees[reader[r].tree].cache[reader[r].page].entries[reader[r].key] # 0
        /\ reader[r].pc = "read" => reader[r].ptr # 0

\* The same of every call.
MissInv == \A r \in Readers : MissAt(r)

\* The pointer is into the table file.
Within(e) == e = 0 \/ e \in DOMAIN file

\* A call that has nothing to excuse an error is on its way to a pointer into the table file.
ErrAt(r) ==
    Reading(r) /\ ~Met(r, {"torn", "clear", "compact"}) =>
        /\ reader[r].pc = "node" /\ reader[r].page \in DOMAIN trees[reader[r].tree].cache =>
              Within(trees[reader[r].tree].cache[reader[r].page].entries[reader[r].key])
        /\ reader[r].pc = "read" => Within(reader[r].ptr)

\* The same of every call.
ErrInv == ~raced => \A r \in Readers : ErrAt(r)

\* The pointer leads to the record asked for, as it was at some time during the call.
Good(r, e) == e = 0 \/ (e \in DOMAIN file /\ file[e][1] = reader[r].key /\ file[e][2] \in reader[r].seen)

\* Whatever the page holds when call r reads it, in the cache, in the file or in the hands of
\* another call that has fetched it, its entry is good for r.
Fine(r, page) ==
    LET t == trees[reader[r].tree]
    IN  /\ page \in DOMAIN t.cache => Good(r, t.cache[page].entries[reader[r].key])
        /\ page \notin DOMAIN t.cache /\ t.open => Good(r, disk.node[page].entries[reader[r].key])
        /\ page \notin DOMAIN t.cache => \A q \in Readers :
              reader[q].pc = "fetched" /\ reader[q].tree = reader[r].tree /\ reader[q].page = page =>
                  Good(r, reader[q].node.entries[reader[r].key])

\* A call that has nothing to excuse a wrong record is on its way to the right one.
RightAt(r) ==
    Reading(r) /\ ~Met(r, {"torn", "compact"}) =>
        /\ reader[r].pc = "root" /\ trees[reader[r].tree].prim # 0 => Fine(r, trees[reader[r].tree].prim)
        /\ reader[r].pc = "node" => Fine(r, reader[r].page)
        /\ reader[r].pc = "fetched" => Good(r, reader[r].node.entries[reader[r].key])
        /\ reader[r].pc = "read" => Good(r, reader[r].ptr)

\* The same of every call.
RightInv == ~raced /\ ~late => \A r \in Readers : RightAt(r)

\* What the calls have returned.
Results == RightRecord /\ MissingOnly /\ ErrorOnly
-----------------------------------------------------------------------------
\* Sequences: the last page of a list, and the list without it.
LEMMA LastFront ==
    ASSUME NEW s \in Seq(Nat), s # <<>>
    PROVE  /\ Len(s) \in Nat \ {0}
           /\ Last(s) \in Nat /\ Last(s) = s[Len(s)]
           /\ Front(s) \in Seq(Nat)
           /\ DOMAIN Front(s) = 1..(Len(s) - 1)
           /\ \A i \in 1..(Len(s) - 1) : Front(s)[i] = s[i]
           /\ DOMAIN s = 1..Len(s)
  BY DEF Last, Front

\* A cache maps pages to leaves.
LEMMA CacheFields ==
  /\ \A c \in Caches : DOMAIN c \subseteq Nat /\ \A p \in DOMAIN c : c[p] \in Leaves
  /\ \A D \in SUBSET Nat : \A c \in [D -> Leaves] : c \in Caches
  /\ <<>> \in Caches
  <1>1. \A c \in Caches : DOMAIN c \subseteq Nat /\ \A p \in DOMAIN c : c[p] \in Leaves
    BY DEF Caches
  <1>2. \A D \in SUBSET Nat : \A c \in [D -> Leaves] : c \in Caches
    BY DEF Caches
  <1>3. <<>> \in [{} -> Leaves]
    OBVIOUS
  <1> QED BY <1>1, <1>2, <1>3

\* Cache d is cache c with the leaf at the page.
IsPut(d, c, page, leaf) ==
    /\ d \in Caches
    /\ DOMAIN d = DOMAIN c \cup {page}
    /\ d[page] = leaf
    /\ \A p \in DOMAIN c : p # page => d[p] = c[p]

\* A page put into a cache.
LEMMA PutIs ==
  ASSUME NEW c \in Caches, NEW page \in Nat, NEW leaf \in Leaves
  PROVE  IsPut(Put(c, page, leaf), c, page, leaf)
  <1>1. DOMAIN c \subseteq Nat /\ \A p \in DOMAIN c : c[p] \in Leaves
    BY CacheFields
  <1>2. DOMAIN Put(c, page, leaf) = DOMAIN c \cup {page}
    BY DEF Put
  <1>3. Put(c, page, leaf)[page] = leaf /\ \A p \in DOMAIN c : p # page => Put(c, page, leaf)[p] = c[p]
    BY DEF Put
  <1>4. Put(c, page, leaf) \in [DOMAIN c \cup {page} -> Leaves]
    BY <1>1 DEF Put
  <1> QED BY <1>1, <1>2, <1>3, <1>4, CacheFields DEF IsPut

\* The fields of an index object, taken apart and put together.
LEMMA TreeFields ==
  ASSUME NEW t \in Trees
  PROVE  /\ t.prim \in Nat /\ t.sec \in Nat /\ t.free \in Seq(Nat) /\ t.next \in Nat
         /\ t.cache \in Caches /\ t.orphans \in Seq(Nat) /\ t.open \in BOOLEAN
  BY DEF Trees

\* A leaf is a leaf.
LEMMA LeafType == \A g \in Nat, e \in [Keys -> Nat] :
    Leaf(g, e) \in Leaves /\ Leaf(g, e).gen = g /\ Leaf(g, e).entries = e
  BY DEF Leaf, Leaves

\* The leaf of an index without entries.
LEMMA NoEntriesType == NoEntries \in [Keys -> Nat]
  BY DEF NoEntries

\* A page is registered.
LEMMA RegisterIs ==
  ASSUME NEW t \in Trees, NEW leaf \in Leaves
  PROVE  /\ NewPage(t) \in Nat
         /\ Register(t, leaf) \in Trees
         /\ Register(t, leaf).cache = Put(t.cache, NewPage(t), leaf)
         /\ Register(t, leaf).free = IF t.free # <<>> THEN Front(t.free) ELSE t.free
         /\ Register(t, leaf).next = IF t.free # <<>> THEN t.next ELSE t.next + 1
         /\ Register(t, leaf).prim = t.prim /\ Register(t, leaf).sec = t.sec
         /\ Register(t, leaf).orphans = t.orphans /\ (Register(t, leaf).open <=> t.open)
  <1>1. /\ t.free \in Seq(Nat) /\ t.next \in Nat /\ t.cache \in Caches
        /\ t.free # <<>> => Front(t.free) \in Seq(Nat) /\ Last(t.free) \in Nat
    BY TreeFields, LastFront
  <1>2. NewPage(t) \in Nat
    BY <1>1 DEF NewPage
  <1>3. Put(t.cache, NewPage(t), leaf) \in Caches
    BY <1>1, <1>2, PutIs DEF IsPut
  <1>4. Register(t, leaf) \in Trees
    <2>1. \A c \in Caches, f \in Seq(Nat), n \in Nat :
             [t EXCEPT !.cache = c, !.free = f, !.next = n] \in Trees
      BY DEF Trees
    <2>2. /\ (IF t.free # <<>> THEN Front(t.free) ELSE t.free) \in Seq(Nat)
          /\ (IF t.free # <<>> THEN t.next ELSE t.next + 1) \in Nat
      BY <1>1
    <2> QED BY <1>3, <2>1, <2>2 DEF Register
  <1>5. /\ Register(t, leaf).cache = Put(t.cache, NewPage(t), leaf)
        /\ Register(t, leaf).free = IF t.free # <<>> THEN Front(t.free) ELSE t.free
        /\ Register(t, leaf).next = IF t.free # <<>> THEN t.next ELSE t.next + 1
    BY DEF Register, Trees
  <1>6. /\ Register(t, leaf).prim = t.prim /\ Register(t, leaf).sec = t.sec
        /\ Register(t, leaf).orphans = t.orphans /\ (Register(t, leaf).open <=> t.open)
    BY DEF Register, Trees
  <1> QED BY <1>2, <1>4, <1>5, <1>6

\* The page is on the free list.
Free(t, p) == \E i \in DOMAIN t.free : t.free[i] = p

\* The page that allocatePageID hands out has no other use, and leaves the free list.
LEMMA NewPageIs ==
  ASSUME NEW t \in Trees, Owned(t), NEW leaf \in Leaves
  PROVE  LET n == NewPage(t)
             u == Register(t, leaf)
         IN  /\ n \in 3..(u.next - 1) /\ u.next >= t.next
             /\ n # t.prim /\ n # t.sec
             /\ \A i \in DOMAIN t.orphans : t.orphans[i] # n
             /\ Free(t, n) \/ n = t.next
             /\ \A i \in DOMAIN u.free : u.free[i] # n /\ Free(t, u.free[i])
             /\ Distinct(u.free)
  <1> DEFINE n == NewPage(t)
             u == Register(t, leaf)
  <1>1. /\ t.free \in Seq(Nat) /\ t.next \in Nat /\ t.next >= 3 /\ t.prim \in Nat /\ t.sec \in Nat
        /\ \A i \in DOMAIN t.free : Unused(t, t.free[i])
        /\ \A i \in DOMAIN t.orphans : Unused(t, t.orphans[i])
        /\ \A i \in DOMAIN t.free, j \in DOMAIN t.orphans : t.free[i] # t.orphans[j]
        /\ t.prim < t.next /\ t.sec < t.next
        /\ Distinct(t.free)
    BY TreeFields DEF Owned
  <1>2. CASE t.free = <<>>
    <2>1. n = t.next /\ u.free = t.free /\ u.next = t.next + 1
      BY <1>2, RegisterIs DEF NewPage
    <2>2. \A i \in DOMAIN u.free : FALSE
      BY <1>2, <2>1
    <2>3. \A i \in DOMAIN t.orphans : t.orphans[i] # n
      BY <1>1, <2>1 DEF Unused
    <2> QED BY <1>1, <2>1, <2>2, <2>3 DEF Distinct
  <1>3. CASE t.free # <<>>
    <2> DEFINE last == Len(t.free)
    <2>a. n = Last(t.free) /\ u.free = Front(t.free) /\ u.next = t.next
      BY <1>3, RegisterIs DEF NewPage
    <2> HIDE DEF n, u
    <2>b. /\ last \in Nat \ {0} /\ Last(t.free) = t.free[last]
          /\ DOMAIN Front(t.free) = 1..(last - 1) /\ DOMAIN t.free = 1..last
          /\ \A i \in 1..(last - 1) : Front(t.free)[i] = t.free[i]
      BY <1>1, <1>3, LastFront
    <2> HIDE DEF last
    <2>1. /\ n = t.free[last] /\ last \in DOMAIN t.free /\ last \in Nat
          /\ u.next = t.next
          /\ DOMAIN u.free = 1..(last - 1) /\ DOMAIN t.free = 1..last
          /\ \A i \in 1..(last - 1) : u.free[i] = t.free[i] /\ i \in DOMAIN t.free /\ i # last
      BY <2>a, <2>b
    <2>c. \A i, j \in DOMAIN t.free : t.free[i] = t.free[j] => i = j
      BY <1>1 DEF Distinct
    <2>2. n \in 3..(t.next - 1) /\ n # t.prim /\ n # t.sec /\ Free(t, n)
      BY <1>1, <2>1 DEF Unused, Free
    <2>3. \A i \in DOMAIN t.orphans : t.orphans[i] # n
      BY <1>1, <2>1
    <2>4. \A i \in DOMAIN u.free : u.free[i] # n /\ Free(t, u.free[i])
      BY <2>1, <2>c DEF Free
    <2>5. Distinct(u.free)
      BY <2>1, <2>c DEF Distinct
    <2> QED BY <1>1, <2>1, <2>2, <2>3, <2>4, <2>5 DEF n, u
  <1> QED BY <1>2, <1>3

\* The page given up is added to the others.
LEMMA OrphanIs ==
  ASSUME NEW s \in Seq(Nat), NEW p \in Nat, Distinct(s), \A i \in DOMAIN s : s[i] # p
  PROVE  LET o == IF p = 0 THEN s ELSE Append(s, p)
         IN  /\ o \in Seq(Nat) /\ Distinct(o)
             /\ \A i \in DOMAIN o : (o[i] = p /\ p # 0) \/ \E j \in DOMAIN s : o[i] = s[j]
  <1>1. CASE p = 0
    BY <1>1
  <1>2. CASE p # 0
    <2>1. /\ Append(s, p) \in Seq(Nat) /\ Len(s) \in Nat
          /\ DOMAIN Append(s, p) = 1..(Len(s) + 1) /\ DOMAIN s = 1..Len(s)
          /\ Append(s, p)[Len(s) + 1] = p
          /\ \A i \in 1..Len(s) : Append(s, p)[i] = s[i]
      OBVIOUS
    <2>2. \A i \in 1..(Len(s) + 1) : i \in 1..Len(s) \/ i = Len(s) + 1
      BY <2>1
    <2> HIDE <2>2
    <2>3. Distinct(Append(s, p))
      BY <2>1, <2>2 DEF Distinct
    <2>4. \A i \in DOMAIN Append(s, p) : Append(s, p)[i] = p \/ \E j \in DOMAIN s : Append(s, p)[i] = s[j]
      BY <2>1, <2>2
    <2> QED BY <1>2, <2>1, <2>3, <2>4
  <1> QED BY <1>1, <1>2

\* getNode puts a page of the file into the cache.
LEMMA LoadIs ==
  ASSUME NEW c \in Caches, NEW page \in Nat, disk.node \in Caches,
         page = 0 \/ page \in DOMAIN c \/ page \in DOMAIN disk.node
  PROVE  /\ Load(c, page) \in Caches
         /\ DOMAIN Load(c, page) = DOMAIN c \cup (IF page = 0 THEN {} ELSE {page})
         /\ \A p \in DOMAIN c : Load(c, page)[p] = c[p]
         /\ page # 0 /\ page \notin DOMAIN c => Load(c, page)[page] = disk.node[page]
  <1>1. CASE page = 0 \/ page \in DOMAIN c
    BY <1>1 DEF Load
  <1>2. CASE ~(page = 0 \/ page \in DOMAIN c)
    <2>1. disk.node[page] \in Leaves
      BY <1>2, CacheFields
    <2> QED BY <1>2, <2>1, PutIs DEF Load, IsPut
  <1> QED BY <1>1, <1>2

\* What a change of one index does to the others' pages: own is the page it may change in
\* place, root the page it copies.
Moves(t, u, own, root, leaf) ==
    /\ u \in Trees /\ Owned(u) /\ (u.open <=> t.open) /\ u.next >= t.next
    /\ DOMAIN t.cache \subseteq DOMAIN u.cache
    /\ \A p \in DOMAIN u.cache : p \in DOMAIN t.cache \/ p \in 3..(u.next - 1)
    /\ \A i \in DOMAIN u.free : Free(t, u.free[i])
    /\ \A p \in DOMAIN u.cache :
          \/ p \in DOMAIN t.cache /\ u.cache[p] = t.cache[p]
          \/ u.cache[p] = leaf /\ (p \in own \/ p >= t.next \/ Free(t, p))
          \/ p = root /\ p \notin DOMAIN t.cache /\ u.cache[p] = disk.node[p]

\* The tree after a page is copied to a new one and given up.
Copied(t, u, root, leaf) ==
    /\ u \in Trees
    /\ \/ root = t.prim /\ u.prim = NewPage(t) /\ u.sec = t.sec
       \/ root = t.sec /\ u.sec = NewPage(t) /\ u.prim = t.prim
    /\ u.free = Register(t, leaf).free /\ u.next = Register(t, leaf).next
    /\ u.orphans = IF root = 0 THEN t.orphans ELSE Append(t.orphans, root)
    /\ u.cache = Load(Register(t, leaf).cache, root)
    /\ u.open <=> t.open

\* A page is copied before it is changed.
LEMMA CopyMoves ==
  ASSUME NEW t \in Trees, Owned(t), NEW leaf \in Leaves, NEW root \in {t.prim, t.sec},
         disk.node \in Caches,
         root = 0 \/ root \in DOMAIN t.cache \/ root \in DOMAIN disk.node,
         NEW u \in Trees, Copied(t, u, root, leaf)
  PROVE  /\ Moves(t, u, {}, root, leaf)
         /\ NewPage(t) # 0 /\ NewPage(t) \in DOMAIN u.cache /\ u.cache[NewPage(t)] = leaf
         /\ root = 0 \/ root \in DOMAIN u.cache
  <1> DEFINE n == NewPage(t)
             v == Register(t, leaf)
             o == IF root = 0 THEN t.orphans ELSE Append(t.orphans, root)
             c == Load(v.cache, root)
  <1>1. /\ t.prim \in Nat /\ t.sec \in Nat /\ t.free \in Seq(Nat) /\ t.next \in Nat
        /\ t.cache \in Caches /\ t.orphans \in Seq(Nat) /\ root \in Nat
    BY TreeFields
  <1>2. /\ v \in Trees /\ n \in Nat
        /\ v.cache = Put(t.cache, n, leaf)
        /\ v.orphans = t.orphans
    BY RegisterIs
  <1>3. /\ n \in 3..(v.next - 1) /\ v.next >= t.next
        /\ n # t.prim /\ n # t.sec
        /\ \A i \in DOMAIN t.orphans : t.orphans[i] # n
        /\ Free(t, n) \/ n = t.next
        /\ \A i \in DOMAIN v.free : v.free[i] # n /\ Free(t, v.free[i])
        /\ Distinct(v.free)
    BY NewPageIs
  <1>4. v.free \in Seq(Nat) /\ v.next \in Nat /\ v.cache \in Caches
    BY <1>2, TreeFields
  <1>5. /\ \/ root = t.prim /\ u.prim = n /\ u.sec = t.sec
           \/ root = t.sec /\ u.sec = n /\ u.prim = t.prim
        /\ u.free = v.free /\ u.next = v.next /\ u.orphans = o /\ u.cache = c /\ (u.open <=> t.open)
    BY DEF Copied
  <1> HIDE DEF n, v
  <1>6. /\ DOMAIN v.cache = DOMAIN t.cache \cup {n} /\ v.cache[n] = leaf
        /\ \A p \in DOMAIN t.cache : p # n => v.cache[p] = t.cache[p]
    <2>1. IsPut(Put(t.cache, n, leaf), t.cache, n, leaf)
      BY <1>1, <1>2, PutIs
    <2> QED BY <1>2, <2>1 DEF IsPut
  <1>7. \A i \in DOMAIN t.orphans : t.orphans[i] # root
    BY DEF Owned, Unused
  <1>8. /\ o \in Seq(Nat) /\ Distinct(o)
        /\ \A i \in DOMAIN o : (o[i] = root /\ root # 0) \/ \E j \in DOMAIN t.orphans : o[i] = t.orphans[j]
    BY <1>1, <1>7, OrphanIs DEF Owned
  <1>9. /\ c \in Caches
        /\ DOMAIN c = DOMAIN v.cache \cup (IF root = 0 THEN {} ELSE {root})
        /\ \A p \in DOMAIN v.cache : c[p] = v.cache[p]
        /\ root # 0 /\ root \notin DOMAIN v.cache => c[root] = disk.node[root]
    BY <1>1, <1>4, <1>6, LoadIs
  <1> HIDE DEF o, c
  <1>10. Owned(u)
    <2>a. \A p : Unused(t, p) /\ p # n => Unused(u, p)
      <3>1. u.prim \in {n, t.prim} /\ u.sec \in {n, t.sec}
        BY <1>5
      <3>2. u.next \in Nat /\ u.next >= t.next
        BY <1>3, <1>4, <1>5
      <3> QED BY <1>1, <3>1, <3>2 DEF Unused
    <2>1. \A i \in DOMAIN u.free : Unused(u, u.free[i])
      <3> SUFFICES ASSUME NEW i \in DOMAIN v.free PROVE Unused(u, v.free[i])
        BY <1>5
      <3>1. PICK k \in DOMAIN t.free : v.free[i] = t.free[k]
        BY <1>3 DEF Free
      <3>2. Unused(t, v.free[i]) /\ v.free[i] # n
        BY <1>3, <3>1 DEF Owned
      <3> QED BY <2>a, <3>2
    <2>2. \A i \in DOMAIN u.orphans : Unused(u, u.orphans[i])
      <3> SUFFICES ASSUME NEW i \in DOMAIN o PROVE Unused(u, o[i])
        BY <1>5
      <3>1. CASE o[i] = root /\ root # 0
        BY <1>1, <1>3, <1>4, <1>5, <3>1 DEF Owned, Unused
      <3>2. CASE \E j \in DOMAIN t.orphans : o[i] = t.orphans[j]
        <4>1. Unused(t, o[i]) /\ o[i] # n
          BY <1>3, <3>2 DEF Owned
        <4> QED BY <2>a, <4>1
      <3> QED BY <1>8, <3>1, <3>2
    <2>3. \A i \in DOMAIN u.free, j \in DOMAIN u.orphans : u.free[i] # u.orphans[j]
      <3> SUFFICES ASSUME NEW i \in DOMAIN v.free, NEW j \in DOMAIN o PROVE v.free[i] # o[j]
        BY <1>5
      <3>1. PICK k \in DOMAIN t.free : v.free[i] = t.free[k]
        BY <1>3 DEF Free
      <3> QED BY <1>8, <3>1 DEF Owned, Unused
    <2>4. /\ u.next >= 3
          /\ u.prim = 0 \/ u.prim \in 3..(u.next - 1)
          /\ u.sec = 0 \/ u.sec \in 3..(u.next - 1)
          /\ u.prim # u.sec
      <3>1. /\ t.next \in Nat /\ t.next >= 3
            /\ t.prim \in Nat /\ t.sec \in Nat
            /\ t.prim = 0 \/ t.prim \in 3..(t.next - 1)
            /\ t.sec = 0 \/ t.sec \in 3..(t.next - 1)
        BY <1>1 DEF Owned
      <3>2. u.next \in Nat /\ u.next >= t.next /\ n \in 3..(u.next - 1)
        BY <1>3, <1>4, <1>5
      <3>3. /\ t.prim = 0 \/ t.prim \in 3..(u.next - 1)
            /\ t.sec = 0 \/ t.sec \in 3..(u.next - 1)
        BY <3>1, <3>2
      <3>4. u.next >= 3
        BY <3>1, <3>2
      <3>5. u.prim \in {n, t.prim} /\ u.sec \in {n, t.sec}
        BY <1>5
      <3>6. u.prim # u.sec
        BY <1>3, <1>5
      <3> QED BY <3>2, <3>3, <3>4, <3>5, <3>6
    <2> QED BY <1>3, <1>5, <1>8, <2>1, <2>2, <2>3, <2>4 DEF Owned
  <1>11. \A p \in DOMAIN u.cache : p \in DOMAIN t.cache \/ p \in 3..(u.next - 1)
    BY <1>1, <1>3, <1>4, <1>5, <1>6, <1>9 DEF Owned
  <1>12. ASSUME NEW p \in DOMAIN u.cache
         PROVE  \/ p \in DOMAIN t.cache /\ u.cache[p] = t.cache[p]
                \/ u.cache[p] = leaf /\ (p >= t.next \/ Free(t, p))
                \/ p = root /\ p \notin DOMAIN t.cache /\ u.cache[p] = disk.node[p]
    <2>1. CASE p = n
      BY <1>1, <1>3, <1>5, <1>6, <1>9, <2>1
    <2>2. CASE p # n
      BY <1>5, <1>6, <1>9, <1>12, <2>2
    <2> QED BY <2>1, <2>2
  <1>13. Moves(t, u, {}, root, leaf)
    BY <1>3, <1>5, <1>6, <1>9, <1>10, <1>11, <1>12 DEF Moves
  <1> QED BY <1>3, <1>5, <1>6, <1>9, <1>13 DEF n

\* What the claimed page holds once the writer has filled it.
Filled(t, entries) ==
    IF t.cache[change.page].gen = writes THEN Leaf(writes, entries) ELSE t.cache[change.page]

\* The claimed leaf is complete and the root of the primary index.
LEMMA PrimaryMoves ==
  ASSUME NEW t \in Trees, Owned(t), Ready(t), NEW entries \in [Keys -> Nat], writes \in Nat,
         change.page \in Nat
  PROVE  LET u == ChangePrimary(t, entries)
         IN  /\ Moves(t, u, {change.page}, t.prim, Leaf(writes, entries))
             /\ u.sec = t.sec
             /\ u.prim = change.page /\ u.prim # 0
             /\ DOMAIN u.cache = DOMAIN t.cache /\ u.prim \in DOMAIN u.cache
             /\ u.cache[u.prim] = Filled(t, entries)
             /\ \A p \in DOMAIN t.cache : p # change.page => u.cache[p] = t.cache[p]
  <1> DEFINE u == ChangePrimary(t, entries)
             leaf == Leaf(writes, entries)
             n == change.page
             o == IF t.prim = n THEN t.orphans ELSE Append(t.orphans, t.prim)
             c == FillLeaf(t.cache, entries)
  <1>1. /\ t.prim \in Nat /\ t.sec \in Nat /\ t.free \in Seq(Nat) /\ t.next \in Nat
        /\ t.cache \in Caches /\ t.orphans \in Seq(Nat) /\ leaf \in Leaves
    BY TreeFields, LeafType
  <1>2. /\ n \in 3..(t.next - 1) /\ n # t.sec
        /\ \A i \in DOMAIN t.free : t.free[i] # n
        /\ \A i \in DOMAIN t.orphans : t.orphans[i] # n
        /\ t.prim # 0 /\ t.prim \in DOMAIN t.cache /\ n \in DOMAIN t.cache
    BY DEF Ready
  <1>3. /\ c \in Caches /\ DOMAIN c = DOMAIN t.cache
        /\ \A p \in DOMAIN t.cache : p # n => c[p] = t.cache[p]
        /\ c[n] = Filled(t, entries)
    <2>1. CASE t.cache[n].gen = writes
      <3>1. IsPut(Put(t.cache, n, leaf), t.cache, n, leaf)
        BY <1>1, PutIs
      <3>2. c = Put(t.cache, n, leaf) /\ Filled(t, entries) = leaf
        BY <2>1 DEF FillLeaf, Filled
      <3> HIDE DEF c, leaf
      <3> QED BY <1>2, <3>1, <3>2 DEF IsPut
    <2>2. CASE t.cache[n].gen # writes
      BY <1>1, <2>2 DEF FillLeaf, Filled
    <2> QED BY <2>1, <2>2
  <1>4. c[n] = leaf \/ c[n] = t.cache[n]
    BY <1>3 DEF Filled
  <1>5. /\ o \in Seq(Nat) /\ Distinct(o)
        /\ \A i \in DOMAIN o : (o[i] = t.prim /\ t.prim # n) \/ \E j \in DOMAIN t.orphans : o[i] = t.orphans[j]
    <2>1. \A i \in DOMAIN t.orphans : t.orphans[i] # t.prim
      BY DEF Owned, Unused
    <2>2. CASE t.prim = n
      BY <1>1, <2>2 DEF Owned
    <2>3. CASE t.prim # n
      <3>1. Distinct(t.orphans)
        BY DEF Owned
      <3>2. LET q == IF t.prim = 0 THEN t.orphans ELSE Append(t.orphans, t.prim)
            IN  /\ q \in Seq(Nat) /\ Distinct(q)
                /\ \A i \in DOMAIN q : (q[i] = t.prim /\ t.prim # 0) \/ \E j \in DOMAIN t.orphans : q[i] = t.orphans[j]
        BY <1>1, <2>1, <3>1, OrphanIs
      <3> QED BY <1>2, <2>3, <3>2
    <2> QED BY <2>2, <2>3
  <1>6. u = [t EXCEPT !.prim = n, !.orphans = o, !.cache = c]
    BY DEF ChangePrimary, Trees
  <1> HIDE DEF u, o, c, leaf
  <1>7. /\ u \in Trees /\ u.prim = n /\ u.sec = t.sec /\ u.free = t.free /\ u.next = t.next
        /\ u.orphans = o /\ (u.open <=> t.open) /\ u.cache = c
    BY <1>3, <1>5, <1>6 DEF Trees
  <1> HIDE DEF n
  <1>8. Owned(u)
    <2>1. \A i \in DOMAIN u.free : Unused(u, u.free[i])
      BY <1>2, <1>7 DEF Owned, Unused
    <2>2. \A i \in DOMAIN u.orphans : Unused(u, u.orphans[i])
      <3> SUFFICES ASSUME NEW i \in DOMAIN o PROVE Unused(u, o[i])
        BY <1>7
      <3>1. CASE o[i] = t.prim /\ t.prim # n
        BY <1>1, <1>2, <1>7, <3>1 DEF Owned, Unused
      <3>2. CASE \E j \in DOMAIN t.orphans : o[i] = t.orphans[j]
        BY <1>2, <1>7, <3>2 DEF Owned, Unused
      <3> QED BY <1>5, <3>1, <3>2
    <2>3. \A i \in DOMAIN u.free, j \in DOMAIN u.orphans : u.free[i] # u.orphans[j]
      <3> SUFFICES ASSUME NEW i \in DOMAIN t.free, NEW j \in DOMAIN o PROVE t.free[i] # o[j]
        BY <1>7
      <3> QED BY <1>5 DEF Owned, Unused
    <2>4. /\ u.next >= 3
          /\ u.prim = 0 \/ u.prim \in 3..(u.next - 1)
          /\ u.sec = 0 \/ u.sec \in 3..(u.next - 1)
          /\ u.prim # u.sec
      BY <1>2, <1>7 DEF Owned
    <2>5. Distinct(u.free) /\ Distinct(u.orphans)
      BY <1>5, <1>7 DEF Owned
    <2> QED BY <2>1, <2>2, <2>3, <2>4, <2>5 DEF Owned
  <1>9. Moves(t, u, {n}, t.prim, leaf)
    <2>1. \A i \in DOMAIN u.free : Free(t, u.free[i])
      BY <1>7 DEF Free
    <2>2. u.next >= t.next
      BY <1>1, <1>7
    <2> QED BY <1>3, <1>4, <1>7, <1>8, <2>1, <2>2 DEF Moves
  <1>10. n # 0
    BY <1>1, <1>2
  <1> QED BY <1>2, <1>3, <1>7, <1>9, <1>10 DEF u, leaf, n

\* The index after a leaf is claimed: page is the one to be filled or changed.
Claimed(t, u, page) ==
    /\ u \in Trees /\ Owned(u) /\ (u.open <=> t.open) /\ u.next >= t.next
    /\ u.sec = t.sec /\ u.prim = (IF t.prim = 0 THEN page ELSE t.prim)
    /\ page \in 3..(u.next - 1) /\ page # u.sec /\ page # 0
    /\ \A i \in DOMAIN u.free : u.free[i] # page /\ Free(t, u.free[i])
    /\ \A i \in DOMAIN u.orphans : u.orphans[i] # page
    /\ u.prim # 0 /\ u.prim \in DOMAIN u.cache
    /\ page \in DOMAIN u.cache /\ u.cache[page].gen = writes
    /\ \/ page = t.prim /\ page \in DOMAIN t.cache /\ u.cache[page] = t.cache[page]
       \/ page # t.prim /\ (page >= t.next \/ Free(t, page)) /\ u.cache[page] = Leaf(writes, NoEntries)
    /\ DOMAIN t.cache \subseteq DOMAIN u.cache
    /\ \A p \in DOMAIN u.cache : p \in DOMAIN t.cache \/ p \in 3..(u.next - 1)
    /\ \A p \in DOMAIN u.cache :
          \/ p \in DOMAIN t.cache /\ u.cache[p] = t.cache[p]
          \/ p = page /\ u.cache[p] = Leaf(writes, NoEntries) /\ (p >= t.next \/ Free(t, p))
          \/ p = t.prim /\ p \notin DOMAIN t.cache /\ u.cache[p] = disk.node[p]

\* The page that an index object changes next.
ClaimedPageOf(t) == IF InPlace(t, t.prim) THEN t.prim ELSE NewPage(t)

\* A leaf is claimed: the page of the root, or a new one that has no other use.
LEMMA ClaimIs ==
  ASSUME NEW t \in Trees, Owned(t), writes \in Nat, disk.node \in Caches,
         t.prim = 0 \/ t.prim \in DOMAIN t.cache \/ t.prim \in DOMAIN disk.node
  PROVE  Claimed(t, Claim(t), ClaimedPageOf(t))
  <1> DEFINE u == Claim(t)
             page == ClaimedPageOf(t)
             leaf == Leaf(writes, NoEntries)
             n == NewPage(t)
             v == Register(t, leaf)
             q == IF t.prim = 0 THEN n ELSE t.prim
             c == Load(v.cache, t.prim)
  <1>1. /\ t.prim \in Nat /\ t.sec \in Nat /\ t.free \in Seq(Nat) /\ t.next \in Nat
        /\ t.cache \in Caches /\ t.orphans \in Seq(Nat) /\ leaf \in Leaves /\ leaf.gen = writes
    BY TreeFields, LeafType, NoEntriesType
  <1> HIDE DEF leaf
  <1>2. CASE InPlace(t, t.prim)
    <2>1. u = t /\ page = t.prim
      BY <1>2 DEF Claim, ClaimedPageOf
    <2>2. t.prim # 0 /\ t.prim \in DOMAIN t.cache /\ t.cache[t.prim].gen = writes
      BY <1>2 DEF InPlace, InCache
    <2> HIDE DEF u, page
    <2>3. t.prim \in 3..(t.next - 1) /\ t.prim # t.sec
      BY <2>2 DEF Owned
    <2>4. /\ \A i \in DOMAIN t.free : t.free[i] # t.prim /\ Free(t, t.free[i])
          /\ \A i \in DOMAIN t.orphans : t.orphans[i] # t.prim
      BY DEF Owned, Unused, Free
    <2>5. t.next >= t.next
      BY <1>1
    <2>6. Claimed(t, t, t.prim)
      BY <2>2, <2>3, <2>4, <2>5 DEF Claimed
    <2> QED BY <2>1, <2>6 DEF u, page
  <1>3. CASE ~InPlace(t, t.prim)
    <2>1. u = [v EXCEPT !.prim = IF @ = 0 THEN n ELSE @, !.cache = Load(@, t.prim)] /\ page = n
      BY <1>3 DEF Claim, ClaimedPageOf, leaf
    <2>2. /\ v \in Trees /\ n \in Nat /\ v.cache \in Caches
          /\ v.prim = t.prim /\ v.sec = t.sec
          /\ v.orphans = t.orphans /\ (v.open <=> t.open)
      <3>1. /\ v \in Trees /\ n \in Nat
            /\ v.prim = t.prim /\ v.sec = t.sec
            /\ v.orphans = t.orphans /\ (v.open <=> t.open)
        BY <1>1, RegisterIs
      <3> HIDE DEF v, n
      <3> QED BY <3>1, TreeFields
    <2>3. /\ n \in 3..(v.next - 1) /\ v.next >= t.next
          /\ n # t.prim /\ n # t.sec
          /\ \A i \in DOMAIN t.orphans : t.orphans[i] # n
          /\ Free(t, n) \/ n = t.next
          /\ \A i \in DOMAIN v.free : v.free[i] # n /\ Free(t, v.free[i])
          /\ Distinct(v.free)
      BY <1>1, NewPageIs
    <2>4. /\ v.free \in Seq(Nat) /\ v.next \in Nat
      BY <2>2, TreeFields
    <2>5. /\ DOMAIN v.cache = DOMAIN t.cache \cup {n} /\ v.cache[n] = leaf
          /\ \A p \in DOMAIN t.cache : p # n => v.cache[p] = t.cache[p]
      <3>1. v.cache = Put(t.cache, n, leaf)
        BY <1>1, RegisterIs
      <3>2. IsPut(Put(t.cache, n, leaf), t.cache, n, leaf)
        BY <1>1, <2>2, PutIs
      <3> QED BY <3>1, <3>2 DEF IsPut
    <2> HIDE DEF u, v, n, page
    <2>b. t.prim = 0 \/ t.prim \in DOMAIN v.cache \/ t.prim \in DOMAIN disk.node
      BY <2>5
    <2>6. /\ c \in Caches
          /\ DOMAIN c = DOMAIN v.cache \cup (IF t.prim = 0 THEN {} ELSE {t.prim})
          /\ \A p \in DOMAIN v.cache : c[p] = v.cache[p]
          /\ t.prim # 0 /\ t.prim \notin DOMAIN v.cache => c[t.prim] = disk.node[t.prim]
      <3>1. v.cache \in Caches /\ t.prim \in Nat
        BY <1>1, <2>2
      <3> QED BY <2>b, <3>1, LoadIs
    <2>7. q \in Nat
      BY <1>1, <2>2
    <2>8. u = [v EXCEPT !.prim = q, !.cache = c]
      BY <2>1, <2>2 DEF Trees
    <2> HIDE DEF c
    <2>a. q = (IF t.prim = 0 THEN n ELSE t.prim)
      OBVIOUS
    <2> HIDE DEF q
    <2>9. /\ u \in Trees /\ u.prim = q /\ u.sec = t.sec /\ u.free = v.free /\ u.next = v.next
          /\ u.orphans = t.orphans /\ (u.open <=> t.open) /\ u.cache = c
      BY <2>2, <2>6, <2>7, <2>8 DEF Trees
    <2>10. Owned(u)
      <3>1. \A p : Unused(t, p) /\ p # n => Unused(u, p)
        BY <1>1, <2>3, <2>4, <2>9, <2>a DEF Unused
      <3>2. \A i \in DOMAIN u.free : Unused(u, u.free[i])
        <4> SUFFICES ASSUME NEW i \in DOMAIN v.free PROVE Unused(u, v.free[i])
          BY <2>9
        <4>1. PICK k \in DOMAIN t.free : v.free[i] = t.free[k]
          BY <2>3 DEF Free
        <4>2. Unused(t, v.free[i]) /\ v.free[i] # n
          BY <2>3, <4>1 DEF Owned
        <4> QED BY <3>1, <4>2
      <3>3. \A i \in DOMAIN u.orphans : Unused(u, u.orphans[i])
        BY <2>3, <2>9, <3>1 DEF Owned
      <3>4. \A i \in DOMAIN u.free, j \in DOMAIN u.orphans : u.free[i] # u.orphans[j]
        <4> SUFFICES ASSUME NEW i \in DOMAIN v.free, NEW j \in DOMAIN t.orphans PROVE v.free[i] # t.orphans[j]
          BY <2>9
        <4>1. PICK k \in DOMAIN t.free : v.free[i] = t.free[k]
          BY <2>3 DEF Free
        <4> QED BY <4>1 DEF Owned
      <3>5. /\ u.next >= 3
            /\ u.prim = 0 \/ u.prim \in 3..(u.next - 1)
            /\ u.sec = 0 \/ u.sec \in 3..(u.next - 1)
            /\ u.prim # u.sec \/ u.prim = 0
        <4>1. /\ u.next \in Nat /\ u.next >= t.next /\ n \in 3..(u.next - 1) /\ u.prim \in Nat
              /\ u.sec = t.sec
          BY <2>2, <2>3, <2>4, <2>7, <2>9
        <4>2. /\ t.next >= 3
              /\ t.prim = 0 \/ t.prim \in 3..(t.next - 1)
              /\ t.sec = 0 \/ t.sec \in 3..(t.next - 1)
              /\ t.prim = t.sec => t.prim = 0
          BY DEF Owned
        <4>3. CASE t.prim = 0
          <5>1. u.prim = n
            BY <2>9, <2>a, <4>3
          <5> QED BY <1>1, <2>3, <4>1, <4>2, <5>1
        <4>4. CASE t.prim # 0
          <5>1. u.prim = t.prim
            BY <2>9, <2>a, <4>4
          <5> QED BY <1>1, <4>1, <4>2, <4>4, <5>1
        <4> QED BY <4>3, <4>4
      <3> QED BY <2>3, <2>9, <3>2, <3>3, <3>4, <3>5 DEF Owned
    <2>11. n \in DOMAIN c /\ c[n] = leaf /\ q # 0 /\ q \in DOMAIN c /\ n # 0
      BY <1>1, <2>3, <2>5, <2>6, <2>a
    <2>12. n >= t.next \/ Free(t, n)
      BY <1>1, <2>3
    <2>13. \A p \in DOMAIN u.cache : p \in DOMAIN t.cache \/ p \in 3..(u.next - 1)
      BY <1>1, <2>3, <2>4, <2>5, <2>6, <2>9 DEF Owned
    <2>14. ASSUME NEW p \in DOMAIN u.cache
           PROVE  \/ p \in DOMAIN t.cache /\ u.cache[p] = t.cache[p]
                  \/ p = n /\ u.cache[p] = leaf /\ (p >= t.next \/ Free(t, p))
                  \/ p = t.prim /\ p \notin DOMAIN t.cache /\ u.cache[p] = disk.node[p]
      <3>1. CASE p = n
        BY <2>9, <2>11, <2>12, <3>1
      <3>2. CASE p # n
        BY <2>5, <2>6, <2>9, <2>14, <3>2
      <3> QED BY <3>1, <3>2
    <2>15. /\ n \in 3..(u.next - 1) /\ n # u.sec /\ n # 0 /\ u.next >= t.next /\ n # t.prim
           /\ \A i \in DOMAIN u.free : u.free[i] # n /\ Free(t, u.free[i])
           /\ \A i \in DOMAIN u.orphans : u.orphans[i] # n
      BY <2>3, <2>9, <2>11
    <2>16. DOMAIN t.cache \subseteq DOMAIN u.cache
      BY <2>5, <2>6, <2>9
    <2>17. u.prim = (IF t.prim = 0 THEN n ELSE t.prim)
      BY <2>9, <2>a
    <2>18. u.cache[n].gen = writes /\ n \in DOMAIN u.cache /\ u.cache[n] = leaf /\ u.prim # 0 /\ u.prim \in DOMAIN u.cache
      BY <1>1, <2>9, <2>11
    <2>19. Claimed(t, u, n)
      BY <2>9, <2>10, <2>12, <2>13, <2>14, <2>15, <2>16, <2>17, <2>18 DEF Claimed, leaf
    <2> QED BY <2>1, <2>19 DEF u, page
  <1> QED BY <1>2, <1>3

\* The same for the secondary index, whose root keeps none of the keys.
LEMMA SecondaryMoves ==
  ASSUME NEW t \in Trees, Owned(t), writes \in Nat, disk.node \in Caches,
         t.sec = 0 \/ t.sec \in DOMAIN t.cache \/ t.sec \in DOMAIN disk.node
  PROVE  LET u == ChangeSecondary(t)
         IN  /\ Moves(t, u, {}, t.sec, Leaf(writes, NoEntries))
             /\ u.prim = t.prim
             /\ u.sec = t.sec \/ u.sec \in DOMAIN u.cache
  <1> DEFINE u == ChangeSecondary(t)
             leaf == Leaf(writes, NoEntries)
             n == NewPage(t)
             v == Register(t, leaf)
             o == IF t.sec = 0 THEN t.orphans ELSE Append(t.orphans, t.sec)
             c == Load(v.cache, t.sec)
  <1>1. /\ t.prim \in Nat /\ t.sec \in Nat /\ t.free \in Seq(Nat) /\ t.next \in Nat
        /\ t.cache \in Caches /\ t.orphans \in Seq(Nat) /\ leaf \in Leaves
    BY TreeFields, LeafType, NoEntriesType
  <1> HIDE DEF leaf
  <1>2. CASE InPlace(t, t.sec) \/ ~secondary
    <2>1. u = t
      BY <1>2 DEF ChangeSecondary
    <2>2. \A p \in DOMAIN t.cache : t.cache[p] = t.cache[p]
      OBVIOUS
    <2>3. Moves(t, t, {}, t.sec, leaf)
      BY <1>1 DEF Moves, Free
    <2> QED BY <2>1, <2>3 DEF leaf
  <1>3. CASE ~(InPlace(t, t.sec) \/ ~secondary)
    <2>1. u = [v EXCEPT !.sec = n, !.orphans = IF t.sec = 0 THEN @ ELSE Append(@, t.sec),
                        !.cache = Load(@, t.sec)]
      BY <1>3 DEF ChangeSecondary, leaf
    <2>2. /\ v \in Trees /\ n \in Nat /\ v.cache \in Caches
          /\ v.prim = t.prim /\ v.sec = t.sec
          /\ v.orphans = t.orphans /\ (v.open <=> t.open)
      <3>1. /\ v \in Trees /\ n \in Nat
            /\ v.prim = t.prim /\ v.sec = t.sec
            /\ v.orphans = t.orphans /\ (v.open <=> t.open)
        BY <1>1, RegisterIs
      <3> HIDE DEF v, n
      <3> QED BY <3>1, TreeFields
    <2>3. DOMAIN t.cache \subseteq DOMAIN v.cache
      <3>1. v.cache = Put(t.cache, n, leaf)
        BY <1>1, RegisterIs
      <3> QED BY <1>1, <2>2, <3>1 DEF Put
    <2> HIDE DEF u, v, n
    <2>4. o \in Seq(Nat)
      BY <1>1
    <2>5. c \in Caches
      BY <1>1, <2>2, <2>3, LoadIs
    <2>6. u = [v EXCEPT !.sec = n, !.orphans = o, !.cache = c]
      BY <2>1, <2>2 DEF Trees
    <2> HIDE DEF o, c
    <2>7. /\ u \in Trees /\ u.sec = n /\ u.prim = t.prim /\ u.free = v.free /\ u.next = v.next
          /\ u.orphans = o /\ (u.open <=> t.open) /\ u.cache = c
      BY <2>2, <2>4, <2>5, <2>6 DEF Trees
    <2>8. Copied(t, u, t.sec, leaf)
      BY <2>7 DEF Copied, n, v, o, c
    <2>9. /\ Moves(t, u, {}, t.sec, leaf)
          /\ n # 0 /\ n \in DOMAIN u.cache /\ u.cache[n] = leaf
      BY <1>1, <2>7, <2>8, CopyMoves DEF n
    <2> QED BY <2>7, <2>9 DEF u, leaf
  <1> QED BY <1>2, <1>3

\* The tree after both indexes are changed.
Replaced(t, v, entries) ==
    /\ v \in Trees /\ Owned(v) /\ (v.open <=> t.open) /\ v.next >= t.next
    /\ v.prim = change.page /\ v.prim # 0 /\ v.prim \in DOMAIN v.cache
    /\ v.cache[v.prim] = Filled(t, entries)
    /\ v.sec = 0 \/ v.sec \in DOMAIN v.cache \/ v.sec \in DOMAIN disk.node
    /\ DOMAIN t.cache \subseteq DOMAIN v.cache
    /\ \A p \in DOMAIN v.cache : p \in DOMAIN t.cache \/ p \in 3..(v.next - 1)
    /\ \A i \in DOMAIN v.free : Free(t, v.free[i])
    /\ \A p \in DOMAIN v.cache :
          \/ p \in DOMAIN t.cache /\ v.cache[p] = t.cache[p]
          \/ v.cache[p] = Leaf(writes, entries) /\ p = change.page
          \/ v.cache[p] = Leaf(writes, NoEntries) /\ (p >= t.next \/ Free(t, p))
          \/ p = t.sec /\ p \notin DOMAIN t.cache /\ v.cache[p] = disk.node[p]

\* ShadowInsert and ShadowDelete: both indexes are changed, and no page gets a second use.
LEMMA Changed ==
  ASSUME NEW t \in Trees, Owned(t), Ready(t), NEW entries \in [Keys -> Nat], writes \in Nat,
         disk.node \in Caches, change.page \in Nat,
         t.sec = 0 \/ t.sec \in DOMAIN t.cache \/ t.sec \in DOMAIN disk.node
  PROVE  Replaced(t, ChangeSecondary(ChangePrimary(t, entries)), entries)
  <1> DEFINE u == ChangePrimary(t, entries)
             v == ChangeSecondary(u)
             leaf == Leaf(writes, entries)
             none == Leaf(writes, NoEntries)
  <1>1. /\ Moves(t, u, {change.page}, t.prim, leaf)
        /\ u.sec = t.sec
        /\ u.prim = change.page /\ u.prim # 0 /\ u.prim \in DOMAIN u.cache
        /\ u.cache[u.prim] = Filled(t, entries)
        /\ DOMAIN u.cache = DOMAIN t.cache
        /\ \A p \in DOMAIN t.cache : p # change.page => u.cache[p] = t.cache[p]
    BY PrimaryMoves
  <1> HIDE DEF u
  <1>2. /\ u \in Trees /\ Owned(u) /\ (u.open <=> t.open) /\ u.next >= t.next
        /\ \A i \in DOMAIN u.free : Free(t, u.free[i])
        /\ \A p \in DOMAIN u.cache :
              \/ p \in DOMAIN t.cache /\ u.cache[p] = t.cache[p]
              \/ u.cache[p] = leaf /\ (p = change.page \/ p >= t.next \/ Free(t, p))
              \/ p = t.prim /\ p \notin DOMAIN t.cache /\ u.cache[p] = disk.node[p]
    BY <1>1 DEF Moves
  <1>a. \A p \in DOMAIN u.cache : \/ p \in DOMAIN t.cache /\ u.cache[p] = t.cache[p]
                                  \/ u.cache[p] = leaf /\ p = change.page
    <2>2. u.cache[change.page] = leaf \/ u.cache[change.page] = t.cache[change.page]
      BY <1>1 DEF Filled
    <2> QED BY <1>1, <2>2
  <1>3. u.sec = 0 \/ u.sec \in DOMAIN u.cache \/ u.sec \in DOMAIN disk.node
    BY <1>1, <1>2
  <1>4. /\ Moves(u, v, {}, u.sec, none)
        /\ v.prim = u.prim
        /\ v.sec = u.sec \/ v.sec \in DOMAIN v.cache
    BY <1>2, <1>3, SecondaryMoves
  <1> HIDE DEF v
  <1>5. /\ v \in Trees /\ Owned(v) /\ (v.open <=> u.open) /\ v.next >= u.next
        /\ DOMAIN u.cache \subseteq DOMAIN v.cache
        /\ \A p \in DOMAIN v.cache : p \in DOMAIN u.cache \/ p \in 3..(v.next - 1)
        /\ \A i \in DOMAIN v.free : Free(u, v.free[i])
        /\ \A p \in DOMAIN v.cache :
              \/ p \in DOMAIN u.cache /\ v.cache[p] = u.cache[p]
              \/ v.cache[p] = none /\ (p >= u.next \/ Free(u, p))
              \/ p = u.sec /\ p \notin DOMAIN u.cache /\ v.cache[p] = disk.node[p]
    BY <1>4 DEF Moves
  <1> HIDE DEF leaf, none
  <1>6. /\ t.next \in Nat /\ u.next \in Nat /\ v.next \in Nat
        /\ DOMAIN v.cache \subseteq Nat
    BY <1>2, <1>5, TreeFields, CacheFields
  <1>7. \A p : Free(u, p) => Free(t, p)
    BY <1>2 DEF Free
  <1>8. \A i \in DOMAIN v.free : Free(t, v.free[i])
    BY <1>5, <1>7
  <1>9. v.cache[v.prim] = Filled(t, entries)
    <2>1. u.prim \in Nat /\ u.prim < u.next /\ u.prim # u.sec /\ ~Free(u, u.prim)
      BY <1>1, <1>2, <1>6, TreeFields DEF Owned, Unused, Free
    <2> QED BY <1>1, <1>4, <1>5, <1>6, <2>1
  <1>10. ASSUME NEW p \in DOMAIN v.cache
         PROVE  \/ p \in DOMAIN t.cache /\ v.cache[p] = t.cache[p]
                \/ v.cache[p] = leaf /\ p = change.page
                \/ v.cache[p] = none /\ (p >= t.next \/ Free(t, p))
                \/ p = t.sec /\ p \notin DOMAIN t.cache /\ v.cache[p] = disk.node[p]
    <2>1. p \in Nat /\ (p >= u.next => p >= t.next)
      BY <1>2, <1>6
    <2>2. CASE p \in DOMAIN u.cache /\ v.cache[p] = u.cache[p]
      BY <1>a, <2>2
    <2>3. CASE v.cache[p] = none /\ (p >= u.next \/ Free(u, p))
      BY <1>7, <2>1, <2>3
    <2>4. CASE p = u.sec /\ p \notin DOMAIN u.cache /\ v.cache[p] = disk.node[p]
      BY <1>1, <1>2, <2>4
    <2> QED BY <1>5, <2>2, <2>3, <2>4
  <1>11. \A p \in DOMAIN v.cache : p \in DOMAIN t.cache \/ p \in 3..(v.next - 1)
    BY <1>1, <1>5, <1>6
  <1>12. /\ v.next >= t.next /\ (v.open <=> t.open)
         /\ DOMAIN t.cache \subseteq DOMAIN v.cache
    BY <1>1, <1>2, <1>5, <1>6
  <1>13. v.sec = 0 \/ v.sec \in DOMAIN v.cache \/ v.sec \in DOMAIN disk.node
    BY <1>3, <1>4, <1>5
  <1>14. Replaced(t, v, entries)
    BY <1>1, <1>4, <1>5, <1>8, <1>9, <1>10, <1>11, <1>12, <1>13 DEF Replaced, leaf, none
  <1> QED BY <1>14 DEF u, v

-----------------------------------------------------------------------------
\* The inductive invariant.
IInv ==
    /\ Types /\ Booleans
    /\ ChangeInv /\ TreesInv /\ Control /\ Versions
    /\ TreeLeads /\ DiskLeads /\ CommitDirty /\ Present /\ FullPrimary
    /\ CallsInv /\ Uncached /\ EventsInv /\ PageKept /\ MissInv /\ ErrInv /\ RightInv
    /\ Results

\* The open index and its entries.
LEMMA TreeType ==
  ASSUME Types, TreesInv, cached # 0
  PROVE  /\ cached \in DOMAIN trees /\ cached \in 1..Len(trees) /\ Tree \in Trees /\ Owned(Tree)
         /\ ~raced => Entries(Tree) \in [Keys -> Nat]
         /\ disk.node \in Caches
  <1>1. cached \in DOMAIN trees /\ cached \in 1..Len(trees) /\ Tree \in Trees
    BY DEF Types, Tree
  <1>2. Owned(Tree)
    BY DEF TreesInv
  <1>3. disk.node \in Caches
    BY DEF Types, Files
  <1>4. ASSUME ~raced PROVE Entries(Tree) \in [Keys -> Nat]
    <2>1. CASE Tree.prim = 0
      BY <2>1, NoEntriesType DEF Entries
    <2>2. CASE Tree.prim # 0
      <3>1. Tree.prim \in DOMAIN Tree.cache \/ Tree.prim \in DOMAIN disk.node
        BY <1>4, <2>2 DEF TreesInv
      <3>2. Node(Tree, Tree.prim) \in Leaves
        BY <1>1, <1>3, <3>1, CacheFields, TreeFields DEF Node, InCache
      <3> QED BY <2>2, <3>2 DEF Entries, Leaves
    <2> QED BY <2>1, <2>2
  <1> QED BY <1>1, <1>2, <1>3, <1>4

\* One of the index objects is replaced.
LEMMA OneTree ==
  ASSUME Types, NEW i \in DOMAIN trees, NEW t \in Trees, trees' = [trees EXCEPT ![i] = t]
  PROVE  /\ trees' \in Seq(Trees) /\ Len(trees') = Len(trees) /\ DOMAIN trees' = DOMAIN trees
         /\ trees'[i] = t
         /\ \A j \in DOMAIN trees : j # i => trees'[j] = trees[j]
  BY DEF Types

\* An index object is added.
LEMMA NewTree ==
  ASSUME Types, NEW t \in Trees, trees' = Append(trees, t)
  PROVE  /\ trees' \in Seq(Trees) /\ Len(trees') = Len(trees) + 1 /\ Len(trees) \in Nat
         /\ DOMAIN trees' = DOMAIN trees \cup {Len(trees) + 1}
         /\ DOMAIN trees = 1..Len(trees)
         /\ trees'[Len(trees) + 1] = t
         /\ \A j \in DOMAIN trees : trees'[j] = trees[j]
  BY DEF Types

\* The file opened.
LEMMA OpenTreeType ==
  ASSUME Types
  PROVE  /\ OpenTree(disk) \in Trees
         /\ OpenTree(disk).prim = disk.prim /\ OpenTree(disk).sec = disk.sec
         /\ OpenTree(disk).free = disk.free /\ OpenTree(disk).next = disk.next
         /\ OpenTree(disk).cache = <<>> /\ OpenTree(disk).orphans = <<>> /\ OpenTree(disk).open
         /\ DOMAIN OpenTree(disk).cache = {}
  <1>1. <<>> \in Caches /\ <<>> \in Seq(Nat)
    BY CacheFields
  <1>2. disk.prim \in Nat /\ disk.sec \in Nat /\ disk.free \in Seq(Nat) /\ disk.next \in Nat
    BY DEF Types, Files
  <1>3. OpenTree(disk) \in Trees
    BY <1>1, <1>2 DEF OpenTree, Trees
  <1> QED BY <1>3 DEF OpenTree

\* The open index after an entry of it is changed.
LEMMA TreeReplaced ==
  ASSUME Types, TreesInv, Control, ChangeInv, NEW k \in Keys, NEW e \in Nat, ChangeEntry(k, e),
         cached' = cached
  PROVE  /\ cached # 0 /\ ~raced /\ cached \in DOMAIN trees /\ pc \in {"apply", "insert", "refill"}
         /\ [change.entries EXCEPT ![k] = e] \in [Keys -> Nat]
         /\ Replaced(Tree, trees'[cached], [change.entries EXCEPT ![k] = e])
         /\ trees' \in Seq(Trees) /\ Len(trees') = Len(trees) /\ DOMAIN trees' = DOMAIN trees
         /\ \A j \in DOMAIN trees : j # cached => trees'[j] = trees[j]
         /\ change' = NoChange
  <1> DEFINE entries == [change.entries EXCEPT ![k] = e]
             v == ChangeSecondary(ChangePrimary(Tree, entries))
  <1>0. change.page # 0 /\ pc \in {"apply", "insert", "refill"} /\ Ready(Tree) /\ change' = NoChange
    BY DEF ChangeEntry, ChangeInv, ClaimedPage
  <1>1. cached # 0 /\ ~raced
    BY <1>0 DEF Control
  <1>2. /\ cached \in DOMAIN trees /\ Tree \in Trees /\ Owned(Tree) /\ disk.node \in Caches
    BY <1>1, TreeType
  <1>3. entries \in [Keys -> Nat] /\ change.page \in Nat
    BY DEF Types
  <1>7. trees' = [trees EXCEPT ![cached] = v]
    BY DEF ChangeEntry, UpdateTree
  <1> HIDE DEF entries
  <1>4. writes \in Nat
    BY DEF Types
  <1>5. Tree.sec = 0 \/ Tree.sec \in DOMAIN Tree.cache \/ Tree.sec \in DOMAIN disk.node
    BY <1>1 DEF TreesInv
  <1>6. Replaced(Tree, v, entries)
    BY <1>0, <1>2, <1>3, <1>4, <1>5, Changed
  <1> HIDE DEF v
  <1>8. v \in Trees
    BY <1>6 DEF Replaced
  <1> QED BY <1>0, <1>1, <1>2, <1>3, <1>6, <1>7, <1>8, OneTree DEF entries

\* What ClaimLeaf changes.
ClaimedStep ==
    /\ cached # 0 /\ ~raced /\ cached \in DOMAIN trees /\ pc \in {"apply", "insert", "refill"}
    /\ Tree \in Trees /\ Claimed(Tree, trees'[cached], change'.page)
    /\ change.page = 0
    /\ change' \in [page : Nat, entries : [Keys -> Nat]] /\ change'.entries = Entries(Tree)
    /\ trees' \in Seq(Trees) /\ Len(trees') = Len(trees) /\ DOMAIN trees' = DOMAIN trees
    /\ \A j \in DOMAIN trees : j # cached => trees'[j] = trees[j]
    /\ UNCHANGED <<storage, cached, pc, todo, ptrs, writes, raced, late, reader>>

\* ClaimLeaf.
LEMMA ClaimLeafIs ==
  ASSUME Types, TreesInv, Control, ClaimLeaf
  PROVE  ClaimedStep
  <1> DEFINE u == Claim(Tree)
             page == ClaimedPageOf(Tree)
  <1>1. pc \in {"apply", "insert", "refill"} /\ cached # 0 /\ ~raced
    BY DEF ClaimLeaf, Control
  <1>2. /\ cached \in DOMAIN trees /\ Tree \in Trees /\ Owned(Tree)
        /\ Entries(Tree) \in [Keys -> Nat] /\ disk.node \in Caches
    BY <1>1, TreeType
  <1>3. Tree.prim = 0 \/ Tree.prim \in DOMAIN Tree.cache \/ Tree.prim \in DOMAIN disk.node
    BY <1>1 DEF TreesInv
  <1>4. writes \in Nat
    BY DEF Types
  <1>5. Claimed(Tree, u, page)
    BY <1>2, <1>3, <1>4, ClaimIs
  <1>6. /\ trees' = [trees EXCEPT ![cached] = u]
        /\ change' = [page |-> page, entries |-> Entries(Tree)] /\ change.page = 0
        /\ UNCHANGED <<storage, cached, pc, todo, ptrs, writes, raced, late, reader>>
    BY DEF ClaimLeaf, UpdateTree, ClaimedPageOf
  <1> HIDE DEF u, page
  <1>7. u \in Trees /\ page \in Nat
    <2>1. u \in Trees /\ page \in 3..(u.next - 1)
      BY <1>5 DEF Claimed
    <2>2. u.next \in Nat
      BY <2>1, TreeFields
    <2> QED BY <2>1, <2>2
  <1>8. change'.page = page /\ change'.entries = Entries(Tree) /\ change' \in [page : Nat, entries : [Keys -> Nat]]
    BY <1>2, <1>6, <1>7
  <1> QED BY <1>1, <1>2, <1>5, <1>6, <1>7, <1>8, OneTree DEF ClaimedStep

-----------------------------------------------------------------------------
\* What a step of one call leaves of the others, and of its own record.
Advanced(r, place, page, node, ptr, events) ==
    /\ reader' \in [Readers -> Calls]
    /\ reader'[r].pc = place /\ reader'[r].page = page /\ reader'[r].node = node
    /\ reader'[r].ptr = ptr /\ reader'[r].events = events
    /\ reader'[r].key = reader[r].key /\ reader'[r].tree = reader[r].tree
    /\ reader'[r].seen = reader[r].seen /\ reader'[r].result = reader[r].result
    /\ \A q \in Readers : q # r => reader'[q] = reader[q]

\* The call has returned; the others are where they were.
Finished(r, result) ==
    /\ reader' \in [Readers -> Calls]
    /\ reader'[r].pc = "done" /\ reader'[r].result = result
    /\ reader'[r].key = reader[r].key /\ reader'[r].events = reader[r].events
    /\ reader'[r].seen = reader[r].seen
    /\ \A q \in Readers : q # r => reader'[q] = reader[q]

\* All calls on their way note an event.
Noted ==
    /\ reader' \in [Readers -> Calls]
    /\ \A r \in Readers :
          /\ ~Reading(r) => reader'[r] = reader[r]
          /\ reader'[r].pc = reader[r].pc /\ reader'[r].key = reader[r].key
          /\ reader'[r].tree = reader[r].tree /\ reader'[r].page = reader[r].page
          /\ reader'[r].node = reader[r].node /\ reader'[r].ptr = reader[r].ptr
          /\ reader'[r].result = reader[r].result
          /\ reader[r].seen \subseteq reader'[r].seen
          /\ reader[r].events \subseteq reader'[r].events

\* Where a call can be.
CallPcs == {"start", "root", "node", "fetched", "read", "done"}
\* What a call can return.
CallResults == {<<>>, <<"missing">>, <<"error">>} \cup Rows

\* The fields of a call.
LEMMA CallFields ==
  ASSUME NEW c \in Calls
  PROVE  /\ c.pc \in CallPcs /\ c.key \in Keys \cup {"none"} /\ c.tree \in Nat /\ c.page \in Nat
         /\ c.node \in Leaves /\ c.ptr \in Nat /\ c.seen \in SUBSET Nat
         /\ c.events \in SUBSET Events /\ c.result \in CallResults
  BY DEF Calls, CallPcs, CallResults

\* A call that has no page.
LEMMA CallType ==
  ASSUME NEW place \in CallPcs, NEW k \in Keys \cup {"none"}, NEW seen \in SUBSET Nat,
         NEW events \in SUBSET Events, NEW result \in CallResults
  PROVE  /\ Call(place, k, seen, events, result) \in Calls
         /\ Call(place, k, seen, events, result).pc = place
         /\ Call(place, k, seen, events, result).key = k
         /\ Call(place, k, seen, events, result).seen = seen
         /\ Call(place, k, seen, events, result).events = events
         /\ Call(place, k, seen, events, result).result = result
  <1>1. Leaf(0, NoEntries) \in Leaves
    BY LeafType, NoEntriesType
  <1>2. Call(place, k, seen, events, result) \in Calls
    BY <1>1 DEF Call, Calls, CallPcs, CallResults
  <1> QED BY <1>2 DEF Call

\* Finish returns the result and keeps what the call has met.
LEMMA FinishIs ==
  ASSUME Types, NEW r \in Readers, NEW result \in CallResults, Finish(r, result)
  PROVE  Finished(r, result)
  <1> DEFINE c == Call("done", reader[r].key, reader[r].seen, reader[r].events, result)
  <1>1. reader \in [Readers -> Calls] /\ reader[r] \in Calls
    BY DEF Types
  <1>2. /\ c \in Calls /\ c.pc = "done" /\ c.key = reader[r].key /\ c.seen = reader[r].seen
        /\ c.events = reader[r].events /\ c.result = result
    BY <1>1, CallFields, CallType DEF CallPcs
  <1>3. reader' = [reader EXCEPT ![r] = c]
    BY DEF Finish
  <1> HIDE DEF c
  <1>4. reader' \in [Readers -> Calls] /\ reader'[r] = c /\ \A q \in Readers : q # r => reader'[q] = reader[q]
    BY <1>1, <1>2, <1>3
  <1> QED BY <1>2, <1>4 DEF Finished

\* A step of a call that goes on.
LEMMA AdvanceIs ==
  ASSUME Types, NEW r \in Readers, NEW place \in CallPcs, NEW page \in Nat, NEW node \in Leaves,
         NEW ptr \in Nat, NEW events \in SUBSET Events,
         reader' = [reader EXCEPT ![r] = [reader[r] EXCEPT !.pc = place, !.page = page, !.node = node,
                                                           !.ptr = ptr, !.events = events]]
  PROVE  Advanced(r, place, page, node, ptr, events)
  <1> DEFINE c == [reader[r] EXCEPT !.pc = place, !.page = page, !.node = node,
                                    !.ptr = ptr, !.events = events]
  <1>1. reader \in [Readers -> Calls] /\ reader[r] \in Calls
    BY DEF Types
  <1>2. c \in Calls
    BY <1>1 DEF Calls, CallPcs
  <1>3. /\ c.pc = place /\ c.page = page /\ c.node = node /\ c.ptr = ptr /\ c.events = events
        /\ c.key = reader[r].key /\ c.tree = reader[r].tree
        /\ c.seen = reader[r].seen /\ c.result = reader[r].result
    BY <1>1 DEF Calls
  <1>4. reader' = [reader EXCEPT ![r] = c]
    OBVIOUS
  <1> HIDE DEF c
  <1>5. reader' \in [Readers -> Calls] /\ reader'[r] = c /\ \A q \in Readers : q # r => reader'[q] = reader[q]
    BY <1>1, <1>2, <1>4
  <1> QED BY <1>3, <1>5 DEF Advanced

\* Search returns nothing, or goes on with the pointer of the entry.
LEMMA SearchIs ==
  ASSUME Types, NEW r \in Readers, reader[r].key \in Keys, NEW leaf \in Leaves, Search(r, leaf)
  PROVE  LET ptr == leaf.entries[reader[r].key]
         IN  /\ ptr \in Nat
             /\ \/ ptr = 0 /\ Finished(r, <<"missing">>)
                \/ ptr # 0 /\ Advanced(r, "read", reader[r].page, reader[r].node, ptr, reader[r].events)
  <1> DEFINE ptr == leaf.entries[reader[r].key]
  <1>1. ptr \in Nat
    BY DEF Leaves
  <1>2. reader \in [Readers -> Calls] /\ reader[r] \in Calls
    BY DEF Types
  <1>3. CASE ptr = 0
    BY <1>1, <1>3, FinishIs DEF Search, CallResults
  <1>4. CASE ptr # 0
    <2>1. reader' = [reader EXCEPT ![r].pc = "read", ![r].ptr = ptr]
      BY <1>4 DEF Search
    <2> HIDE DEF ptr
    <2>2. reader' = [reader EXCEPT ![r] = [reader[r] EXCEPT !.pc = "read", !.page = reader[r].page,
                        !.node = reader[r].node, !.ptr = ptr, !.events = reader[r].events]]
      BY <1>2, <2>1 DEF Calls
    <2>3. Advanced(r, "read", reader[r].page, reader[r].node, ptr, reader[r].events)
      BY <1>1, <1>2, <2>2, CallFields, AdvanceIs DEF CallPcs
    <2> QED BY <1>1, <1>4, <2>3 DEF ptr
  <1> QED BY <1>3, <1>4

\* Note: every call under way meets the event, if it is about its key, and the version.
LEMMA NoteIs ==
  ASSUME Types, CallsInv, NEW event \in Events, NEW keys, NEW versions,
         \A k \in Keys : versions[k] \in Nat,
         Note(event, keys, versions)
  PROVE  /\ Noted
         /\ \A r \in Readers : Reading(r) =>
               /\ versions[reader[r].key] \in reader'[r].seen
               /\ reader[r].key \in keys => event \in reader'[r].events
               /\ "commit" \in reader'[r].events /\ event # "commit" => "reuse" \in reader'[r].events
               /\ reader'[r].seen = reader[r].seen \cup {versions[reader[r].key]}
               /\ reader'[r].events \subseteq reader[r].events \cup {event, "reuse"}
  <1> DEFINE ev(r) == reader[r].events \cup (IF reader[r].key \in keys THEN {event} ELSE {})
                         \cup (IF "commit" \in reader[r].events THEN {"reuse"} ELSE {})
             sn(r) == reader[r].seen \cup {versions[reader[r].key]}
             c(r) == [reader[r] EXCEPT !.events = ev(r), !.seen = sn(r)]
  <1>1. reader \in [Readers -> Calls]
    BY DEF Types
  <1>2. reader' = [r \in Readers |-> IF Reading(r) THEN c(r) ELSE reader[r]]
    BY <1>1 DEF Note, Calls
  <1>3. ASSUME NEW r \in Readers, Reading(r)
        PROVE  /\ c(r) \in Calls /\ c(r).events = ev(r) /\ c(r).seen = sn(r)
               /\ c(r).pc = reader[r].pc /\ c(r).key = reader[r].key
               /\ c(r).tree = reader[r].tree /\ c(r).page = reader[r].page
               /\ c(r).node = reader[r].node /\ c(r).ptr = reader[r].ptr
               /\ c(r).result = reader[r].result
    <2>1. reader[r] \in Calls /\ reader[r].key \in Keys
      BY <1>1, <1>3 DEF CallsInv, CallAt
    <2>2. ev(r) \in SUBSET Events /\ sn(r) \in SUBSET Nat
      BY <2>1, CallFields DEF Events
    <2> HIDE DEF ev, sn
    <2> QED BY <2>1, <2>2 DEF Calls
  <1> HIDE DEF c
  <1>4. reader' \in [Readers -> Calls]
    BY <1>1, <1>2, <1>3
  <1>5. \A r \in Readers : /\ Reading(r) => reader'[r] = c(r)
                           /\ ~Reading(r) => reader'[r] = reader[r]
    BY <1>2
  <1>6. Noted
    BY <1>3, <1>4, <1>5 DEF Noted
  <1>7. ASSUME NEW r \in Readers, Reading(r)
        PROVE  /\ versions[reader[r].key] \in reader'[r].seen
               /\ reader[r].key \in keys => event \in reader'[r].events
               /\ "commit" \in reader'[r].events /\ event # "commit" => "reuse" \in reader'[r].events
               /\ reader'[r].seen = reader[r].seen \cup {versions[reader[r].key]}
               /\ reader'[r].events \subseteq reader[r].events \cup {event, "reuse"}
    <2>1. reader'[r].events = ev(r) /\ reader'[r].seen = sn(r)
      BY <1>3, <1>5, <1>7
    <2> QED BY <2>1
  <1> QED BY <1>6, <1>7

\* NoteCommit: every call under way meets the commit.
LEMMA NoteCommitIs ==
  ASSUME Types, NoteCommit
  PROVE  /\ Noted
         /\ \A r \in Readers : Reading(r) => /\ "commit" \in reader'[r].events
                                             /\ reader'[r].seen = reader[r].seen
                                             /\ reader'[r].events = reader[r].events \cup {"commit"}
  <1> DEFINE ev(r) == reader[r].events \cup {"commit"}
             c(r) == [reader[r] EXCEPT !.events = ev(r)]
  <1>1. reader \in [Readers -> Calls]
    BY DEF Types
  <1>2. reader' = [r \in Readers |-> IF Reading(r) THEN c(r) ELSE reader[r]]
    BY <1>1 DEF NoteCommit, Calls
  <1>3. ASSUME NEW r \in Readers
        PROVE  /\ c(r) \in Calls /\ c(r).events = ev(r) /\ c(r).seen = reader[r].seen
               /\ c(r).pc = reader[r].pc /\ c(r).key = reader[r].key
               /\ c(r).tree = reader[r].tree /\ c(r).page = reader[r].page
               /\ c(r).node = reader[r].node /\ c(r).ptr = reader[r].ptr
               /\ c(r).result = reader[r].result
    <2>1. reader[r] \in Calls
      BY <1>1
    <2>2. ev(r) \in SUBSET Events
      BY <2>1, CallFields DEF Events
    <2> HIDE DEF ev
    <2> QED BY <2>1, <2>2 DEF Calls
  <1> HIDE DEF c
  <1>4. reader' \in [Readers -> Calls]
    BY <1>1, <1>2, <1>3
  <1>5. \A r \in Readers : /\ Reading(r) => reader'[r] = c(r)
                           /\ ~Reading(r) => reader'[r] = reader[r]
    BY <1>2
  <1>6. Noted
    BY <1>3, <1>4, <1>5 DEF Noted
  <1>7. \A r \in Readers : Reading(r) => reader'[r].events = ev(r) /\ reader'[r].seen = reader[r].seen
    BY <1>3, <1>5
  <1> QED BY <1>6, <1>7

-----------------------------------------------------------------------------
\* The order in which a map is iterated gives every key one place.
LEMMA OrderIs ==
  ASSUME NEW order \in Orders, NEW keys \in SUBSET Keys,
         \A i \in DOMAIN order : i <= Cardinality(keys) <=> order[i] \in keys
  PROVE  /\ Cardinality(keys) \in Nat
         /\ 1..Cardinality(keys) \subseteq DOMAIN order
         /\ \A i \in 1..Cardinality(keys) : order[i] \in keys
         /\ Place(order) \in [Keys -> Nat]
         /\ \A k \in keys : Place(order)[k] \in 1..Cardinality(keys) /\ order[Place(order)[k]] = k
  <1>1. /\ IsFiniteSet(keys) /\ Cardinality(keys) \in Nat /\ Cardinality(Keys) \in Nat
        /\ Cardinality(keys) <= Cardinality(Keys)
    BY ReadersAssumption, FS_Subset, FS_CardinalityType
  <1>2. /\ order \in [1..Cardinality(Keys) -> Keys] /\ DOMAIN order = 1..Cardinality(Keys)
        /\ \A k \in Keys : \E i \in DOMAIN order : order[i] = k
    BY DEF Orders
  <1>3. 1..Cardinality(keys) \subseteq DOMAIN order
    BY <1>1, <1>2
  <1>4. \A i \in 1..Cardinality(keys) : order[i] \in keys
    BY <1>1, <1>3
  <1>5. \A k \in Keys : Place(order)[k] \in DOMAIN order /\ order[Place(order)[k]] = k
    BY <1>2 DEF Place
  <1>6. Place(order) \in [Keys -> Nat]
    <2>1. DOMAIN Place(order) = Keys /\ \A k \in Keys : Place(order)[k] \in Nat
      BY <1>1, <1>2, <1>5 DEF Place
    <2> QED BY <2>1 DEF Place
  <1>7. \A k \in keys : Place(order)[k] \in 1..Cardinality(keys) /\ order[Place(order)[k]] = k
    <2> TAKE k \in keys
    <2>1. /\ Place(order)[k] \in DOMAIN order /\ order[Place(order)[k]] = k
          /\ Place(order)[k] <= Cardinality(keys)
      BY <1>5
    <2> QED BY <1>1, <1>2, <2>1
  <1> QED BY <1>1, <1>3, <1>4, <1>6, <1>7

\* Sequences given by their elements, and one after the other.
LEMMA RowSequence ==
  \A n \in Nat : \A f \in [1..n -> Rows] : f \in Seq(Rows) /\ Len(f) = n
  <1> TAKE n \in Nat
  <1> TAKE f \in [1..n -> Rows]
  <1> HIDE DEF Rows
  <1> QED OBVIOUS

\* Sequence u is s and then t.
Follows(u, s, t) ==
    /\ u \in Seq(Rows)
    /\ \A i \in DOMAIN s : i \in DOMAIN u /\ u[i] = s[i]
    /\ \A i \in 1..Len(t) : Len(s) + i \in DOMAIN u /\ u[Len(s) + i] = t[i]
    /\ \A i \in DOMAIN u : i \in DOMAIN s \/ \E j \in 1..Len(t) : i = Len(s) + j

\* Appending one sequence to the other.
LEMMA ConcatIs ==
  ASSUME NEW s \in Seq(Rows), NEW t \in Seq(Rows)
  PROVE  Follows(s \o t, s, t)
  <1>1. /\ s \o t \in Seq(Rows) /\ DOMAIN s = 1..Len(s) /\ DOMAIN (s \o t) = 1..(Len(s) + Len(t))
        /\ Len(s) \in Nat /\ Len(t) \in Nat
    OBVIOUS
  <1>2. \A i \in DOMAIN s : i \in DOMAIN (s \o t) /\ (s \o t)[i] = s[i]
    OBVIOUS
  <1>3. \A i \in 1..Len(t) : Len(s) + i \in DOMAIN (s \o t) /\ (s \o t)[Len(s) + i] = t[i]
    OBVIOUS
  <1>4. ASSUME NEW i \in DOMAIN (s \o t), i \notin DOMAIN s PROVE \E j \in 1..Len(t) : i = Len(s) + j
    <2>1. i - Len(s) \in 1..Len(t) /\ i = Len(s) + (i - Len(s))
      BY <1>1, <1>4
    <2> QED BY <2>1
  <1> QED BY <1>1, <1>2, <1>3, <1>4 DEF Follows

\* The table file with records of version v at its end, and the pointers to them.
Grown(keys, v) ==
    /\ file' \in Seq(Rows) /\ ptrs' \in [Keys -> Nat]
    /\ DOMAIN file \subseteq DOMAIN file' /\ \A i \in DOMAIN file : file'[i] = file[i]
    /\ \A i \in DOMAIN file' : i \in DOMAIN file \/ file'[i][2] = v
    /\ \A k \in keys : ptrs'[k] # 0 /\ ptrs'[k] \in DOMAIN file' /\ file'[ptrs'[k]] = <<k, v>>
    /\ \A k \in Keys : k \notin keys => ptrs'[k] = 0

\* The records of a transaction at the end of the table file.
LEMMA AppendIs ==
  ASSUME Types, NEW keys \in SUBSET Keys, NEW order \in Orders, NEW v \in Nat,
         \A i \in DOMAIN order : i <= Cardinality(keys) <=> order[i] \in keys,
         file' = file \o [i \in 1..Cardinality(keys) |-> <<order[i], v>>],
         ptrs' = [k \in Keys |-> IF k \in keys THEN Len(file) + Place(order)[k] ELSE 0]
  PROVE  Grown(keys, v)
  <1> DEFINE n == Cardinality(keys)
             new == [i \in 1..n |-> <<order[i], v>>]
  <1>1. /\ n \in Nat /\ \A i \in 1..n : order[i] \in keys
        /\ Place(order) \in [Keys -> Nat]
        /\ \A k \in keys : Place(order)[k] \in 1..n /\ order[Place(order)[k]] = k
    BY OrderIs
  <1> HIDE DEF n
  <1>2. file \in Seq(Rows) /\ Len(file) \in Nat /\ DOMAIN file = 1..Len(file)
    BY DEF Types
  <1>3. new \in Seq(Rows) /\ Len(new) = n /\ \A i \in 1..n : new[i] = <<order[i], v>>
    <2>1. new \in [1..n -> Rows]
      BY <1>1 DEF Rows
    <2>2. new \in Seq(Rows) /\ Len(new) = n
      <3> HIDE DEF new
      <3> QED BY <1>1, <2>1, RowSequence
    <2> QED BY <2>2
  <1>4. file' = file \o new
    BY DEF n
  <1> HIDE DEF new
  <1>5. /\ file' \in Seq(Rows)
        /\ \A i \in DOMAIN file : i \in DOMAIN file' /\ file'[i] = file[i]
        /\ \A i \in 1..n : Len(file) + i \in DOMAIN file' /\ file'[Len(file) + i] = new[i]
        /\ \A i \in DOMAIN file' : i \in DOMAIN file \/ \E j \in 1..n : i = Len(file) + j
    <2>1. Follows(file \o new, file, new)
      BY <1>2, <1>3, ConcatIs
    <2>2. Follows(file', file, new)
      BY <1>4, <2>1
    <2> QED BY <1>3, <2>2 DEF Follows
  <1>6. ptrs' \in [Keys -> Nat] /\ \A k \in Keys : k \notin keys => ptrs'[k] = 0
    BY <1>1, <1>2
  <1>7. ASSUME NEW i \in DOMAIN file', i \notin DOMAIN file PROVE file'[i][2] = v
    <2>1. PICK j \in 1..n : i = Len(file) + j
      BY <1>5, <1>7
    <2>2. file'[i] = <<order[j], v>>
      BY <1>3, <1>5, <2>1
    <2>3. <<order[j], v>>[2] = v
      OBVIOUS
    <2> QED BY <2>2, <2>3
  <1>8. ASSUME NEW k \in keys
        PROVE  ptrs'[k] # 0 /\ ptrs'[k] \in DOMAIN file' /\ file'[ptrs'[k]] = <<k, v>>
    <2>1. Place(order)[k] \in 1..n /\ order[Place(order)[k]] = k /\ ptrs'[k] = Len(file) + Place(order)[k]
      BY <1>1
    <2>2. ptrs'[k] # 0
      BY <1>1, <1>2, <2>1
    <2>3. ptrs'[k] \in DOMAIN file' /\ file'[ptrs'[k]] = new[Place(order)[k]]
      BY <1>5, <2>1
    <2> QED BY <1>3, <2>1, <2>2, <2>3
  <1> QED BY <1>5, <1>6, <1>7, <1>8 DEF Grown

\* The table file with only the records that the index leads to.
Squeezed(entries, kept) ==
    /\ file' \in Seq(Rows) /\ ptrs' \in [Keys -> Nat]
    /\ \A i \in DOMAIN file' : \E j \in DOMAIN file : file'[i] = file[j]
    /\ \A k \in kept : ptrs'[k] # 0 /\ ptrs'[k] \in DOMAIN file' /\ file'[ptrs'[k]] = file[entries[k]]
    /\ \A k \in Keys : k \notin kept => ptrs'[k] = 0

\* The records that the index leads to, in a file of their own.
LEMMA CompactIs ==
  ASSUME Types, NEW entries \in [Keys -> Nat], NEW kept \in SUBSET Keys, NEW order \in Orders,
         \A k \in kept : entries[k] \in DOMAIN file,
         \A i \in DOMAIN order : i <= Cardinality(kept) <=> order[i] \in kept,
         file' = [i \in 1..Cardinality(kept) |-> file[entries[order[i]]]],
         ptrs' = [k \in Keys |-> IF k \in kept THEN Place(order)[k] ELSE 0]
  PROVE  Squeezed(entries, kept)
  <1> DEFINE n == Cardinality(kept)
  <1>1. /\ n \in Nat /\ \A i \in 1..n : order[i] \in kept
        /\ Place(order) \in [Keys -> Nat]
        /\ \A k \in kept : Place(order)[k] \in 1..n /\ order[Place(order)[k]] = k
    BY OrderIs
  <1>2. file' = [i \in 1..n |-> file[entries[order[i]]]]
    OBVIOUS
  <1> HIDE DEF n
  <1>3. file \in Seq(Rows) /\ \A j \in DOMAIN file : file[j] \in Rows
    BY DEF Types
  <1>4. DOMAIN file' = 1..n /\ \A i \in 1..n : entries[order[i]] \in DOMAIN file /\ file'[i] = file[entries[order[i]]]
    BY <1>1, <1>2
  <1>5. file' \in [1..n -> Rows]
    BY <1>2, <1>3, <1>4
  <1>6. file' \in Seq(Rows)
    BY <1>1, <1>5, RowSequence
  <1>7. ptrs' \in [Keys -> Nat] /\ \A k \in Keys : k \notin kept => ptrs'[k] = 0
    BY <1>1
  <1>8. ASSUME NEW k \in kept
        PROVE  ptrs'[k] # 0 /\ ptrs'[k] \in DOMAIN file' /\ file'[ptrs'[k]] = file[entries[k]]
    <2>1. Place(order)[k] \in 1..n /\ order[Place(order)[k]] = k /\ ptrs'[k] = Place(order)[k]
      BY <1>1
    <2>2. ptrs'[k] # 0
      BY <1>1, <2>1
    <2> QED BY <1>4, <2>1, <2>2
  <1> QED BY <1>4, <1>6, <1>7, <1>8 DEF Squeezed

-----------------------------------------------------------------------------
\* What ShadowCommit leaves: the pages given up are free, the dirty ones in the file.
CommitTree(t, u) ==
    /\ u \in Trees /\ Owned(u)
    /\ u.prim = t.prim /\ u.sec = t.sec /\ u.next = t.next /\ u.cache = t.cache
    /\ u.open <=> t.open

\* What the commit of index object t leaves in the file: the pages it made, and all others as they were.
CommitFile(t) ==
    /\ disk' \in Files
    /\ disk'.prim = t.prim
    /\ Owned(OpenTree(disk'))
    /\ DOMAIN disk.node \subseteq DOMAIN disk'.node
    /\ \A p \in DOMAIN disk.node : p \notin DOMAIN t.cache => disk'.node[p] = disk.node[p]
    /\ \A p \in DOMAIN t.cache : t.cache[p].gen = writes =>
          p \in DOMAIN disk'.node /\ disk'.node[p] = t.cache[p]

\* The free list and the pages given up have no page twice.
LEMMA JoinIs ==
  ASSUME NEW s \in Seq(Nat), NEW o \in Seq(Nat), Distinct(s), Distinct(o),
         \A i \in DOMAIN s, j \in DOMAIN o : s[i] # o[j]
  PROVE  /\ s \o o \in Seq(Nat) /\ Distinct(s \o o)
         /\ \A i \in DOMAIN (s \o o) : \/ \E j \in DOMAIN s : (s \o o)[i] = s[j]
                                       \/ \E j \in DOMAIN o : (s \o o)[i] = o[j]
  <1> DEFINE u == s \o o
  <1>1. /\ u \in Seq(Nat) /\ Len(s) \in Nat /\ Len(o) \in Nat
        /\ DOMAIN s = 1..Len(s) /\ DOMAIN o = 1..Len(o) /\ DOMAIN u = 1..(Len(s) + Len(o))
        /\ \A i \in 1..Len(s) : u[i] = s[i]
        /\ \A i \in 1..(Len(s) + Len(o)) : i > Len(s) => u[i] = o[i - Len(s)]
    OBVIOUS
  <1> HIDE DEF u
  <1>2. \A i \in DOMAIN u : \/ i \in DOMAIN s /\ u[i] = s[i]
                            \/ i > Len(s) /\ i - Len(s) \in DOMAIN o /\ u[i] = o[i - Len(s)]
    <2> TAKE i \in DOMAIN u
    <2>1. i \in Int /\ 1 <= i /\ i <= Len(s) + Len(o)
      BY <1>1
    <2>2. CASE i <= Len(s)
      <3>1. i \in 1..Len(s)
        BY <1>1, <2>1, <2>2
      <3> QED BY <1>1, <3>1
    <2>3. CASE i > Len(s)
      <3>1. i - Len(s) \in 1..Len(o)
        BY <1>1, <2>1, <2>3
      <3> QED BY <1>1, <2>3, <3>1
    <2> QED BY <1>1, <2>1, <2>2, <2>3
  <1>3. ASSUME NEW i \in DOMAIN u, NEW j \in DOMAIN u, u[i] = u[j] PROVE i = j
    <2>1. CASE i \in DOMAIN s /\ u[i] = s[i] /\ j \in DOMAIN s /\ u[j] = s[j]
      BY <1>3, <2>1 DEF Distinct
    <2>2. CASE /\ i - Len(s) \in DOMAIN o /\ u[i] = o[i - Len(s)]
               /\ j - Len(s) \in DOMAIN o /\ u[j] = o[j - Len(s)]
      <3>1. i - Len(s) = j - Len(s)
        BY <1>3, <2>2 DEF Distinct
      <3> QED BY <1>1, <3>1
    <2>3. CASE i \in DOMAIN s /\ u[i] = s[i] /\ j - Len(s) \in DOMAIN o /\ u[j] = o[j - Len(s)]
      BY <1>3, <2>3
    <2>4. CASE j \in DOMAIN s /\ u[j] = s[j] /\ i - Len(s) \in DOMAIN o /\ u[i] = o[i - Len(s)]
      BY <1>3, <2>4
    <2> QED BY <1>2, <2>1, <2>2, <2>3, <2>4
  <1>4. Distinct(u)
    BY <1>3 DEF Distinct
  <1> QED BY <1>1, <1>2, <1>4 DEF u

\* Committed frees the pages given up and changes nothing else.
LEMMA CommittedIs ==
  ASSUME NEW t \in Trees, Owned(t)
  PROVE  CommitTree(t, Committed(t)) /\ Committed(t).orphans = <<>>
  <1> DEFINE u == Committed(t)
             f == t.free \o t.orphans
  <1>1. t.free \in Seq(Nat) /\ t.orphans \in Seq(Nat)
    BY TreeFields
  <1>2. /\ f \in Seq(Nat) /\ Distinct(f)
        /\ \A i \in DOMAIN f : \/ \E j \in DOMAIN t.free : f[i] = t.free[j]
                               \/ \E j \in DOMAIN t.orphans : f[i] = t.orphans[j]
    BY <1>1, JoinIs DEF Owned
  <1>3. u = [t EXCEPT !.free = f, !.orphans = <<>>]
    BY DEF Committed, Trees
  <1> HIDE DEF f, u
  <1>4. <<>> \in Seq(Nat) /\ DOMAIN <<>> = {}
    OBVIOUS
  <1>5. /\ u \in Trees /\ u.free = f /\ u.orphans = <<>> /\ u.prim = t.prim /\ u.sec = t.sec
        /\ u.next = t.next /\ u.cache = t.cache /\ (u.open <=> t.open)
    BY <1>2, <1>3, <1>4 DEF Trees
  <1>6. \A i \in DOMAIN u.free : Unused(t, u.free[i])
    BY <1>2, <1>5 DEF Owned
  <1>7. Owned(u)
    <2>1. \A i \in DOMAIN u.free : Unused(u, u.free[i])
      BY <1>5, <1>6 DEF Unused
    <2>2. Distinct(u.free) /\ Distinct(u.orphans)
      BY <1>2, <1>4, <1>5 DEF Distinct
    <2>3. \A i \in DOMAIN u.orphans : FALSE
      BY <1>4, <1>5
    <2>4. /\ u.next >= 3
          /\ u.prim = 0 \/ u.prim \in 3..(u.next - 1)
          /\ u.sec = 0 \/ u.sec \in 3..(u.next - 1)
          /\ u.prim = u.sec => u.prim = 0
      BY <1>5 DEF Owned
    <2> QED BY <2>1, <2>2, <2>3, <2>4 DEF Owned
  <1> QED BY <1>5, <1>7 DEF CommitTree, u

\* Written is the file after the commit.
LEMMA WrittenIs ==
  ASSUME Types, NEW t \in Trees, NEW u \in Trees, CommitTree(t, u), u.orphans = <<>>, disk' = Written(u)
  PROVE  CommitFile(t)
  <1> DEFINE dirty == {p \in DOMAIN u.cache : u.cache[p].gen = writes}
             node == [p \in dirty \cup DOMAIN disk.node |-> IF p \in dirty THEN u.cache[p] ELSE disk.node[p]]
  <1>1. disk' = [prim |-> u.prim, sec |-> u.sec, free |-> u.free, next |-> u.next, node |-> node]
    BY DEF Written
  <1>2. disk.node \in Caches /\ u.cache \in Caches
    BY TreeFields DEF Types, Files
  <1>3. node \in Caches
    <2>1. dirty \cup DOMAIN disk.node \in SUBSET Nat
      BY <1>2, CacheFields
    <2>2. node \in [dirty \cup DOMAIN disk.node -> Leaves]
      BY <1>2, CacheFields
    <2> QED BY <2>1, <2>2, CacheFields
  <1>4. /\ DOMAIN disk.node \subseteq DOMAIN node
        /\ \A p \in DOMAIN disk.node : p \notin DOMAIN u.cache => node[p] = disk.node[p]
        /\ \A p \in DOMAIN u.cache : u.cache[p].gen = writes => p \in DOMAIN node /\ node[p] = u.cache[p]
    OBVIOUS
  <1> HIDE DEF node
  <1>5. disk' \in Files /\ disk'.prim = u.prim /\ disk'.sec = u.sec /\ disk'.node = node
        /\ disk'.free = u.free /\ disk'.next = u.next
    BY <1>1, <1>3, TreeFields DEF Files
  <1>6. Owned(OpenTree(disk'))
    <2> DEFINE v == OpenTree(disk')
    <2>1. /\ v.prim = u.prim /\ v.sec = u.sec /\ v.next = u.next /\ v.free = u.free
          /\ v.orphans = u.orphans
      BY <1>5 DEF OpenTree
    <2> HIDE DEF v
    <2>2. Owned(v)
      BY <2>1 DEF Owned, Unused, CommitTree
    <2> QED BY <2>2 DEF v
  <1> QED BY <1>4, <1>5, <1>6 DEF CommitFile, CommitTree

\* ShadowCommit.
LEMMA CommitIs ==
  ASSUME Types, TreesInv, Control, ShadowCommit
  PROVE  /\ cached # 0 /\ cached \in DOMAIN trees /\ ~raced
         /\ Tree \in Trees /\ CommitTree(Tree, trees'[cached]) /\ CommitFile(Tree)
         /\ trees' \in Seq(Trees) /\ Len(trees') = Len(trees) /\ DOMAIN trees' = DOMAIN trees
         /\ \A j \in DOMAIN trees : j # cached => trees'[j] = trees[j]
         /\ Noted
         /\ \A r \in Readers : Reading(r) => /\ "commit" \in reader'[r].events
                                             /\ reader'[r].seen = reader[r].seen
                                             /\ reader'[r].events = reader[r].events \cup {"commit"}
  <1> DEFINE u == Committed(Tree)
  <1>1. cached # 0 /\ ~raced
    BY DEF Control, ShadowCommit
  <1>2. cached \in DOMAIN trees /\ Tree \in Trees /\ Owned(Tree)
    BY <1>1, TreeType
  <1>3. CommitTree(Tree, u) /\ u.orphans = <<>>
    BY <1>2, CommittedIs
  <1>4. trees' = [trees EXCEPT ![cached] = u] /\ disk' = Written(u)
    BY DEF ShadowCommit, UpdateTree
  <1> HIDE DEF u
  <1>5. u \in Trees
    BY <1>3 DEF CommitTree
  <1>6. CommitFile(Tree)
    BY <1>2, <1>3, <1>4, <1>5, WrittenIs
  <1>7. NoteCommit
    BY DEF ShadowCommit
  <1> QED BY <1>1, <1>2, <1>3, <1>4, <1>5, <1>6, <1>7, OneTree, NoteCommitIs

\* CacheNode: the leaf fetched is in the cache.
LEMMA CacheNodeIs ==
  ASSUME Types, CallsInv, NEW r \in Readers, CacheNode(r)
  PROVE  LET i == reader[r].tree
             leaf == reader[r].node
         IN  /\ i \in DOMAIN trees /\ Reading(r) /\ reader[r].pc = "fetched"
             /\ reader[r].page \in 3..(trees[i].next - 1)
             /\ trees' \in Seq(Trees) /\ Len(trees') = Len(trees) /\ DOMAIN trees' = DOMAIN trees
             /\ trees[i] \in Trees /\ trees'[i] \in Trees
             /\ \A j \in DOMAIN trees : j # i => trees'[j] = trees[j]
             /\ trees'[i].prim = trees[i].prim /\ trees'[i].sec = trees[i].sec
             /\ trees'[i].free = trees[i].free /\ trees'[i].next = trees[i].next
             /\ trees'[i].orphans = trees[i].orphans /\ (trees'[i].open <=> trees[i].open)
             /\ IsPut(trees'[i].cache, trees[i].cache, reader[r].page, leaf)
             /\ reader[r].key \in Keys
             /\ leaf \in Leaves
             /\ leaf.entries[reader[r].key] \in Nat
             /\ \/ leaf.entries[reader[r].key] = 0 /\ Finished(r, <<"missing">>)
                \/ /\ leaf.entries[reader[r].key] # 0
                   /\ Advanced(r, "read", reader[r].page, leaf, leaf.entries[reader[r].key],
                               reader[r].events)
  <1> DEFINE i == reader[r].tree
             leaf == reader[r].node
             page == reader[r].page
             t == trees[i]
             c == Put(t.cache, page, leaf)
             u == [t EXCEPT !.cache = c]
  <1>1. reader[r].pc = "fetched" /\ Reading(r) /\ Search(r, leaf)
    BY DEF CacheNode, Reading
  <1>2. i \in DOMAIN trees /\ page \in 3..(trees[i].next - 1) /\ reader[r].key \in Keys
    BY <1>1 DEF CallsInv, CallAt
  <1>3. page \in Nat /\ leaf \in Leaves /\ t \in Trees /\ trees \in Seq(Trees)
    BY <1>2, CallFields DEF Types
  <1>4. t.cache \in Caches
    BY <1>3, TreeFields
  <1>5. IsPut(c, t.cache, page, leaf)
    BY <1>3, <1>4, PutIs
  <1>6. c \in Caches
    BY <1>5 DEF IsPut
  <1>7. trees' = [trees EXCEPT ![i] = u]
    BY <1>2, <1>3 DEF CacheNode, Trees
  <1> HIDE DEF c
  <1>8. /\ u \in Trees /\ u.cache = c /\ u.prim = t.prim /\ u.sec = t.sec /\ u.free = t.free
        /\ u.next = t.next /\ u.orphans = t.orphans /\ (u.open <=> t.open)
    BY <1>3, <1>6 DEF Trees
  <1> HIDE DEF u
  <1>9. /\ trees' \in Seq(Trees) /\ Len(trees') = Len(trees) /\ DOMAIN trees' = DOMAIN trees
        /\ trees'[i] = u
        /\ \A j \in DOMAIN trees : j # i => trees'[j] = trees[j]
    BY <1>2, <1>7, <1>8, OneTree
  <1>10. /\ leaf.entries[reader[r].key] \in Nat
         /\ \/ leaf.entries[reader[r].key] = 0 /\ Finished(r, <<"missing">>)
            \/ /\ leaf.entries[reader[r].key] # 0
               /\ Advanced(r, "read", page, leaf, leaf.entries[reader[r].key], reader[r].events)
    BY <1>1, <1>2, <1>3, SearchIs
  <1> QED BY <1>1, <1>2, <1>3, <1>5, <1>8, <1>9, <1>10

-----------------------------------------------------------------------------
\* The steps of a call.
LEMMA FindRootIs ==
  ASSUME Types, CallsInv, NEW r \in Readers, FindRoot(r)
  PROVE  LET t == trees[reader[r].tree]
         IN  /\ reader[r].tree \in DOMAIN trees /\ t \in Trees /\ Reading(r) /\ reader[r].pc = "root"
             /\ \/ t.prim = 0 /\ Finished(r, <<"missing">>)
                \/ /\ t.prim # 0
                   /\ Advanced(r, "node", t.prim, reader[r].node, reader[r].ptr, reader[r].events)
  <1> DEFINE t == trees[reader[r].tree]
  <1>1. reader[r].pc = "root" /\ Reading(r)
    BY DEF FindRoot, Reading
  <1>2. reader[r].tree \in DOMAIN trees /\ t \in Trees
    BY <1>1 DEF CallsInv, CallAt, Types
  <1>3. t.prim \in Nat
    BY <1>2, TreeFields
  <1>4. reader \in [Readers -> Calls] /\ reader[r] \in Calls
    BY DEF Types
  <1>5. CASE t.prim = 0
    <2>1. Finish(r, <<"missing">>)
      BY <1>5 DEF FindRoot
    <2>2. Finished(r, <<"missing">>)
      BY <2>1, FinishIs DEF CallResults
    <2> QED BY <1>1, <1>2, <1>5, <2>2
  <1>6. CASE t.prim # 0
    <2>1. reader' = [reader EXCEPT ![r].pc = "node", ![r].page = t.prim]
      BY <1>6 DEF FindRoot
    <2>2. reader' = [reader EXCEPT ![r] = [reader[r] EXCEPT !.pc = "node", !.page = t.prim,
                        !.node = reader[r].node, !.ptr = reader[r].ptr, !.events = reader[r].events]]
      <3> HIDE DEF t
      <3> QED BY <1>4, <2>1 DEF Calls
    <2>3. Advanced(r, "node", t.prim, reader[r].node, reader[r].ptr, reader[r].events)
      <3> HIDE DEF t
      <3> QED BY <1>3, <1>4, <2>2, CallFields, AdvanceIs DEF CallPcs
    <2> QED BY <1>1, <1>2, <1>6, <2>3
  <1> QED BY <1>5, <1>6

\* FindNode reads the page from the cache.
LEMMA FindNodeIs ==
  ASSUME Types, CallsInv, NEW r \in Readers, FindNode(r)
  PROVE  LET t == trees[reader[r].tree]
             ptr == t.cache[reader[r].page].entries[reader[r].key]
         IN  /\ reader[r].tree \in DOMAIN trees /\ t \in Trees /\ Reading(r) /\ reader[r].pc = "node"
             /\ reader[r].page \in DOMAIN t.cache /\ reader[r].key \in Keys
             /\ ptr \in Nat
             /\ \/ ptr = 0 /\ Finished(r, <<"missing">>)
                \/ ptr # 0 /\ Advanced(r, "read", reader[r].page, reader[r].node, ptr, reader[r].events)
  <1> DEFINE t == trees[reader[r].tree]
             leaf == t.cache[reader[r].page]
  <1>1. reader[r].pc = "node" /\ Reading(r)
    BY DEF FindNode, Reading
  <1>2. reader[r].tree \in DOMAIN trees /\ t \in Trees /\ reader[r].key \in Keys
    BY <1>1 DEF CallsInv, CallAt, Types
  <1>3. reader[r].page \in DOMAIN t.cache /\ Search(r, leaf)
    BY DEF FindNode, InCache
  <1>4. leaf \in Leaves
    BY <1>2, <1>3, TreeFields, CacheFields
  <1> HIDE DEF leaf
  <1>5. LET ptr == leaf.entries[reader[r].key]
        IN  /\ ptr \in Nat
            /\ \/ ptr = 0 /\ Finished(r, <<"missing">>)
               \/ ptr # 0 /\ Advanced(r, "read", reader[r].page, reader[r].node, ptr, reader[r].events)
    BY <1>2, <1>3, <1>4, SearchIs
  <1> QED BY <1>1, <1>2, <1>3, <1>5 DEF leaf

\* FindTorn goes on with any outcome of the race.
LEMMA FindTornIs ==
  ASSUME Types, NEW r \in Readers, FindTorn(r)
  PROVE  /\ Reading(r) /\ reader[r].pc = "node"
         /\ \E ptr \in Nat : Advanced(r, "read", reader[r].page, reader[r].node, ptr,
                                      reader[r].events \cup {"torn"})
  <1>1. reader[r].pc = "node" /\ Reading(r)
    BY DEF FindTorn, Reading
  <1>3. \A k \in Keys : change.entries[k] \in Nat /\ ptrs[k] \in Nat
    BY DEF Types
  <1>4. reader \in [Readers -> Calls] /\ reader[r] \in Calls /\ Len(file) \in Nat
    BY DEF Types
  <1>5. PICK ptr \in {0, Len(file) + 1} \cup {change.entries[k] : k \in Keys}
                        \cup {ptrs[k] : k \in {l \in Keys : Insertable(l)}} :
           reader' = [reader EXCEPT ![r].pc = "read", ![r].ptr = ptr, ![r].events = @ \cup {"torn"}]
    BY DEF FindTorn
  <1>6. ptr \in Nat
    BY <1>3, <1>4
  <1>7. reader' = [reader EXCEPT ![r] = [reader[r] EXCEPT !.pc = "read", !.page = reader[r].page,
                        !.node = reader[r].node, !.ptr = ptr, !.events = reader[r].events \cup {"torn"}]]
    BY <1>4, <1>5 DEF Calls
  <1>8. reader[r].events \cup {"torn"} \in SUBSET Events
    BY <1>4, CallFields DEF Events
  <1>9. Advanced(r, "read", reader[r].page, reader[r].node, ptr, reader[r].events \cup {"torn"})
    BY <1>4, <1>6, <1>7, <1>8, CallFields, AdvanceIs DEF CallPcs
  <1> QED BY <1>1, <1>6, <1>9

\* FetchPage reads the page from the file, or fails.
LEMMA FetchPageIs ==
  ASSUME Types, CallsInv, NEW r \in Readers, FetchPage(r)
  PROVE  LET t == trees[reader[r].tree]
             page == reader[r].page
         IN  /\ reader[r].tree \in DOMAIN trees /\ t \in Trees /\ Reading(r) /\ reader[r].pc = "node"
             /\ page \notin DOMAIN t.cache
             /\ \/ ~(t.open /\ page \in DOMAIN disk.node) /\ Finished(r, <<"error">>)
                \/ /\ t.open /\ page \in DOMAIN disk.node
                   /\ Advanced(r, "fetched", page, disk.node[page], reader[r].ptr, reader[r].events)
  <1> DEFINE t == trees[reader[r].tree]
             page == reader[r].page
  <1>1. reader[r].pc = "node" /\ Reading(r) /\ page \notin DOMAIN t.cache
    BY DEF FetchPage, Reading, InCache
  <1>2. reader[r].tree \in DOMAIN trees /\ t \in Trees
    BY <1>1 DEF CallsInv, CallAt, Types
  <1>3. reader \in [Readers -> Calls] /\ reader[r] \in Calls
    BY DEF Types
  <1>4. CASE ~InFile(t, page)
    <2>1. Finish(r, <<"error">>)
      BY <1>4 DEF FetchPage
    <2>2. Finished(r, <<"error">>)
      BY <2>1, FinishIs DEF CallResults
    <2> QED BY <1>1, <1>2, <1>4, <2>2 DEF InFile
  <1>5. CASE InFile(t, page)
    <2> DEFINE leaf == disk.node[page]
    <2>1. reader' = [reader EXCEPT ![r].pc = "fetched", ![r].node = leaf]
      BY <1>5 DEF FetchPage
    <2>2. leaf \in Leaves
      BY <1>5, CacheFields DEF InFile, Types, Files
    <2>3. reader' = [reader EXCEPT ![r] = [reader[r] EXCEPT !.pc = "fetched", !.page = page,
                        !.node = leaf, !.ptr = reader[r].ptr, !.events = reader[r].events]]
      <3> HIDE DEF leaf
      <3> QED BY <1>3, <2>1 DEF Calls
    <2>4. Advanced(r, "fetched", page, leaf, reader[r].ptr, reader[r].events)
      <3> HIDE DEF leaf
      <3> QED BY <1>3, <2>2, <2>3, CallFields, AdvanceIs DEF CallPcs
    <2> QED BY <1>1, <1>2, <1>5, <2>4 DEF InFile
  <1> QED BY <1>4, <1>5

\* ReadRecord returns the record at the pointer, or fails beyond the end of the table file.
LEMMA ReadRecordIs ==
  ASSUME Types, NEW r \in Readers, ReadRecord(r)
  PROVE  /\ Reading(r) /\ reader[r].pc = "read"
         /\ \/ reader[r].ptr = 0 /\ Finished(r, <<"missing">>)
            \/ /\ reader[r].ptr # 0 /\ reader[r].ptr \in DOMAIN file
               /\ Finished(r, file[reader[r].ptr])
            \/ reader[r].ptr # 0 /\ reader[r].ptr \notin DOMAIN file /\ Finished(r, <<"error">>)
  <1> DEFINE ptr == reader[r].ptr
  <1>1. reader[r].pc = "read" /\ Reading(r)
    BY DEF ReadRecord, Reading
  <1>2. ptr \in DOMAIN file => file[ptr] \in CallResults
    BY DEF Types, CallResults
  <1>3. CASE ptr = 0
    <2>1. Finish(r, <<"missing">>)
      <3>1. ptr \notin DOMAIN file
        BY <1>3 DEF Types
      <3> QED BY <1>3, <3>1 DEF ReadRecord
    <2> QED BY <1>1, <1>3, <2>1, FinishIs DEF CallResults
  <1>4. CASE ptr # 0 /\ ptr \in DOMAIN file
    <2>1. Finish(r, file[ptr])
      BY <1>4 DEF ReadRecord
    <2> QED BY <1>1, <1>2, <1>4, <2>1, FinishIs
  <1>5. CASE ptr # 0 /\ ptr \notin DOMAIN file
    <2>1. Finish(r, <<"error">>)
      BY <1>5 DEF ReadRecord
    <2> QED BY <1>1, <1>5, <2>1, FinishIs DEF CallResults
  <1> QED BY <1>3, <1>4, <1>5

\* The file is opened again.
Opened ==
    /\ cached = 0
    /\ trees' \in Seq(Trees) /\ cached' = Len(trees) + 1 /\ Len(trees) \in Nat
    /\ Len(trees') = Len(trees) + 1
    /\ DOMAIN trees' = DOMAIN trees \cup {cached'} /\ DOMAIN trees = 1..Len(trees)
    /\ trees'[cached'] = OpenTree(disk)
    /\ \A j \in DOMAIN trees : trees'[j] = trees[j] /\ j # cached'

\* Opening the index file adds an index object with an empty cache.
LEMMA OpenedIs ==
  ASSUME Types, cached = 0, trees' = Append(trees, OpenTree(disk)), cached' = Len(trees) + 1
  PROVE  Opened
  <1>1. /\ trees' \in Seq(Trees) /\ Len(trees') = Len(trees) + 1 /\ Len(trees) \in Nat
        /\ DOMAIN trees' = DOMAIN trees \cup {Len(trees) + 1}
        /\ DOMAIN trees = 1..Len(trees)
        /\ trees'[Len(trees) + 1] = OpenTree(disk)
        /\ \A j \in DOMAIN trees : trees'[j] = trees[j]
    BY OpenTreeType, NewTree
  <1>2. \A j \in DOMAIN trees : j # cached'
    BY <1>1
  <1> QED BY <1>1, <1>2 DEF Opened

\* A call begins.
Started(r, k) ==
    /\ reader' \in [Readers -> Calls]
    /\ reader'[r].pc = "root" /\ reader'[r].key = k /\ reader'[r].tree = cached'
    /\ reader'[r].seen = {version[k], before[k]} /\ reader'[r].events = Underway(k)
    /\ \A q \in Readers : q # r => reader'[q] = reader[q]

\* GetIndex begins a call, with the open index or with one it opens.
LEMMA GetIndexIs ==
  ASSUME Types, NEW r \in Readers, NEW k \in Keys, GetIndex(r, k)
  PROVE  /\ ~Reading(r) /\ Started(r, k)
         /\ cached' # 0
         /\ \/ Opened
            \/ cached # 0 /\ trees' = trees /\ cached' = cached
  <1> DEFINE seen == {version[k], before[k]}
             events == Underway(k)
             c == Call("root", k, seen, events, <<>>)
             d == [c EXCEPT !.tree = cached']
  <1>1. ~Reading(r)
    BY DEF GetIndex, Reading
  <1>2. /\ cached' # 0
        /\ \/ Opened
           \/ cached # 0 /\ trees' = trees /\ cached' = cached
    <2>1. CASE cached = 0
      <3>1. Opened
        BY <2>1, OpenedIs DEF GetIndex
      <3>2. cached' # 0
        BY <3>1 DEF Opened
      <3> QED BY <3>1, <3>2
    <2>2. CASE cached # 0
      BY <2>2 DEF GetIndex, index
    <2> QED BY <2>1, <2>2
  <1>3. cached' \in Nat
    BY <1>2 DEF Opened, Types
  <1>4. seen \in SUBSET Nat /\ events \in SUBSET Events
    BY DEF Types, Underway, Events
  <1> HIDE DEF seen, events
  <1>a. "root" \in CallPcs /\ <<>> \in CallResults /\ k \in Keys \cup {"none"}
    BY DEF CallPcs, CallResults
  <1>5. /\ c \in Calls /\ c.pc = "root" /\ c.key = k /\ c.seen = seen /\ c.events = events
    BY <1>4, <1>a, CallType
  <1> HIDE DEF c
  <1>6. d \in Calls /\ d.pc = "root" /\ d.key = k /\ d.seen = seen /\ d.events = events /\ d.tree = cached'
    BY <1>3, <1>5 DEF Calls
  <1>7. reader' = [reader EXCEPT ![r] = d] /\ reader \in [Readers -> Calls]
    BY DEF GetIndex, c, seen, events, Types
  <1> HIDE DEF d
  <1>8. /\ reader' \in [Readers -> Calls] /\ reader'[r] = d
        /\ \A q \in Readers : q # r => reader'[q] = reader[q]
    BY <1>6, <1>7
  <1>9. Started(r, k)
    BY <1>6, <1>8 DEF Started, seen, events
  <1> QED BY <1>1, <1>2, <1>9

-----------------------------------------------------------------------------
\* What the calls on their way note of a write.
NotedWrite(event, keys, versions) ==
    /\ Noted
    /\ \A r \in Readers : Reading(r) =>
          /\ versions[reader[r].key] \in reader'[r].seen
          /\ reader[r].key \in keys => event \in reader'[r].events
          /\ "commit" \in reader'[r].events /\ event # "commit" => "reuse" \in reader'[r].events
          /\ reader'[r].seen = reader[r].seen \cup {versions[reader[r].key]}
          /\ reader'[r].events \subseteq reader[r].events \cup {event, "reuse"}

\* A write begins.
Began == pc = "idle" /\ ~raced /\ ~late /\ writes' = writes + 1 /\ writes' \in 0..MaxWrites

\* Begin, within the bound on writes.
LEMMA BeginIs ==
  ASSUME Types, Begin
  PROVE  Began
  BY ReadersAssumption DEF Types, Begin, Began

\* AppendRecords puts the new records at the end of the table file.
LEMMA AppendRecordsIs ==
  ASSUME Types, CallsInv, NEW keys \in SUBSET Keys, AppendRecords(keys)
  PROVE  /\ Began /\ Grown(keys, writes + 2) /\ NotedWrite("update", keys, version')
         /\ version' \in [Keys -> Nat] /\ pc' = "apply" /\ todo' = keys
         /\ \A k \in Keys : version'[k] = IF k \in keys THEN writes + 2 ELSE version[k]
  <1>1. Began
    BY BeginIs DEF AppendRecords
  <1>2. version' = [k \in Keys |-> IF k \in keys THEN writes + 2 ELSE version[k]]
    BY DEF AppendRecords
  <1>3. version \in [Keys -> Nat] /\ writes + 2 \in Nat
    BY DEF Types
  <1>4. version' \in [Keys -> Nat] /\ \A k \in Keys : version'[k] = IF k \in keys THEN writes + 2 ELSE version[k]
    BY <1>2, <1>3
  <1>5. PICK order \in Orders :
           /\ \A i \in DOMAIN order : i <= Cardinality(keys) <=> order[i] \in keys
           /\ file' = file \o [i \in 1..Cardinality(keys) |-> <<order[i], writes + 2>>]
           /\ ptrs' = [k \in Keys |-> IF k \in keys THEN Len(file) + Place(order)[k] ELSE 0]
    BY DEF AppendRecords
  <1>6. Grown(keys, writes + 2)
    <2> DEFINE v == writes + 2
    <2>1. file' = file \o [i \in 1..Cardinality(keys) |-> <<order[i], v>>] /\ v \in Nat
      BY <1>3, <1>5
    <2> HIDE DEF v
    <2>2. Grown(keys, v)
      BY <1>5, <2>1, AppendIs
    <2> QED BY <2>2 DEF v
  <1>7. Note("update", keys, version') /\ pc' = "apply" /\ todo' = keys
    BY DEF AppendRecords
  <1>8. NotedWrite("update", keys, version')
    BY <1>4, <1>7, NoteIs DEF NotedWrite, Events
  <1> QED BY <1>1, <1>4, <1>6, <1>7, <1>8

\* Clear leaves no key a version.
LEMMA ClearIs ==
  ASSUME Types, CallsInv, Clear
  PROVE  /\ Began /\ NotedWrite("clear", Keys, version')
         /\ version' \in [Keys -> Nat] /\ pc' = "remove"
         /\ \A k \in Keys : version'[k] = 0
  <1>1. Began
    BY BeginIs DEF Clear
  <1>2. version' = [k \in Keys |-> 0] /\ pc' = "remove" /\ Note("clear", Keys, version')
    BY DEF Clear
  <1>3. version' \in [Keys -> Nat] /\ \A k \in Keys : version'[k] = 0
    BY <1>2
  <1>4. NotedWrite("clear", Keys, version')
    BY <1>2, <1>3, NoteIs DEF NotedWrite, Events
  <1> QED BY <1>1, <1>2, <1>3, <1>4

\* Compact leaves the current record of every key in the table file.
LEMMA CompactRecordsIs ==
  ASSUME Types, TreesInv, Control, Present, CallsInv, Compact
  PROVE  /\ Began /\ NotedWrite("compact", Keys, version) /\ pc' = "remove"
         /\ cached # 0 /\ Entries(Tree) \in [Keys -> Nat]
         /\ \A k \in Keys : Entries(Tree)[k] # 0 => Entries(Tree)[k] \in DOMAIN file
         /\ Squeezed(Entries(Tree), {k \in Keys : Entries(Tree)[k] # 0})
  <1> DEFINE entries == Entries(Tree)
             kept == {k \in Keys : entries[k] # 0}
  <1>1. Began
    BY BeginIs DEF Compact
  <1>2. cached # 0 /\ ~raced /\ ~Clearing
    BY <1>1 DEF Began, Control, Clearing
  <1>3. entries \in [Keys -> Nat]
    BY <1>2, TreeType
  <1>4. \A k \in Keys : entries[k] # 0 => entries[k] \in DOMAIN file
    BY <1>2 DEF Present, PresentAt
  <1>5. PICK order \in Orders :
           /\ \A i \in DOMAIN order : i <= Cardinality(kept) <=> order[i] \in kept
           /\ file' = [i \in 1..Cardinality(kept) |-> file[entries[order[i]]]]
           /\ ptrs' = [k \in Keys |-> IF k \in kept THEN Place(order)[k] ELSE 0]
    BY DEF Compact
  <1> HIDE DEF entries
  <1>6. /\ kept \in SUBSET Keys
        /\ \A k \in kept : entries[k] \in DOMAIN file
    BY <1>4
  <1>8. Squeezed(entries, kept)
    <2> HIDE DEF kept
    <2> QED BY <1>3, <1>5, <1>6, CompactIs
  <1>9. Note("compact", Keys, version) /\ pc' = "remove"
    BY DEF Compact
  <1>10. NotedWrite("compact", Keys, version)
    BY <1>9, NoteIs DEF NotedWrite, Events, Types
  <1> QED BY <1>1, <1>2, <1>3, <1>4, <1>8, <1>9, <1>10 DEF entries

\* RemoveIndex.
LEMMA RemoveIndexIs ==
  ASSUME Types, TreesInv, Control, RemoveIndex
  PROVE  /\ cached # 0 /\ cached \in DOMAIN trees /\ Tree \in Trees /\ cached' = 0 /\ pc' = "truncate"
         /\ trees' \in Seq(Trees) /\ Len(trees') = Len(trees) /\ DOMAIN trees' = DOMAIN trees
         /\ ~trees'[cached].open
         /\ trees'[cached].prim = Tree.prim /\ trees'[cached].next = Tree.next
         /\ trees'[cached].cache = Tree.cache
         /\ \A j \in DOMAIN trees : j # cached => trees'[j] = trees[j]
  <1> DEFINE u == [Tree EXCEPT !.open = FALSE]
  <1>1. cached # 0
    BY DEF Control, RemoveIndex
  <1>2. cached \in DOMAIN trees /\ Tree \in Trees
    BY <1>1, TreeType
  <1>3. u \in Trees /\ ~u.open /\ u.prim = Tree.prim /\ u.next = Tree.next /\ u.cache = Tree.cache
    BY <1>2 DEF Trees
  <1>4. trees' = [trees EXCEPT ![cached] = u] /\ cached' = 0 /\ pc' = "truncate"
    BY DEF RemoveIndex, UpdateTree
  <1> HIDE DEF u
  <1> QED BY <1>1, <1>2, <1>3, <1>4, OneTree

\* Reopen.
LEMMA ReopenIs ==
  ASSUME Types, Control, Reopen
  PROVE  /\ disk = EmptyFile /\ disk' = disk /\ pc = "reopen" /\ cached' # 0
         /\ \/ Opened
            \/ cached # 0 /\ trees' = trees /\ cached' = cached
         /\ todo' = Waiting
         /\ \/ Waiting = {} /\ pc' = "idle" /\ before' = version
            \/ Waiting # {} /\ pc' = (IF raced THEN "stop" ELSE "refill") /\ before' = before
  <1>1. pc = "reopen" /\ disk = EmptyFile /\ disk' = disk
    BY DEF Reopen, Control
  <1>2. /\ cached' # 0
        /\ \/ Opened
           \/ cached # 0 /\ trees' = trees /\ cached' = cached
    <2>1. CASE cached = 0
      <3>1. Opened
        BY <2>1, OpenedIs DEF Reopen
      <3>2. cached' # 0
        BY <3>1 DEF Opened
      <3> QED BY <3>1, <3>2
    <2>2. CASE cached # 0
      BY <2>2 DEF Reopen, index
    <2> QED BY <2>1, <2>2
  <1>3. todo' = Waiting
    BY DEF Reopen, Waiting
  <1>4. \/ Waiting = {} /\ pc' = "idle" /\ before' = version
        \/ Waiting # {} /\ pc' = (IF raced THEN "stop" ELSE "refill") /\ before' = before
    BY <1>3 DEF Reopen
  <1> QED BY <1>1, <1>2, <1>3, <1>4

\* shadowInsertNoCommit as a change of one entry.
LEMMA InsertIs ==
  ASSUME Types, TreesInv, Control, ChangeInv, NEW k \in Keys, ShadowInsert(k)
  PROVE  /\ k \in todo /\ ptrs[k] \in Nat /\ change.page # 0 /\ change' = NoChange
         /\ cached # 0 /\ ~raced /\ cached \in DOMAIN trees /\ cached' = cached
         /\ [change.entries EXCEPT ![k] = ptrs[k]] \in [Keys -> Nat]
         /\ Replaced(Tree, trees'[cached], [change.entries EXCEPT ![k] = ptrs[k]])
         /\ trees' \in Seq(Trees) /\ Len(trees') = Len(trees) /\ DOMAIN trees' = DOMAIN trees
         /\ \A j \in DOMAIN trees : j # cached => trees'[j] = trees[j]
         /\ ptrs' \in [Keys -> Nat] /\ \A l \in Keys : ptrs'[l] = IF l = k THEN 0 ELSE ptrs[l]
         /\ Waiting' = Waiting \ {k}
         /\ todo' = Waiting'
         /\ \/ Waiting' = {} /\ pc' = "commit"
            \/ Waiting' # {} /\ pc = "refill" /\ pc' = "refill"
            \/ Waiting' # {} /\ pc \in {"apply", "insert"} /\ pc' = "apply"
  <1>1. /\ k \in todo /\ pc \in {"apply", "insert", "refill"} /\ cached' = cached
        /\ ChangeEntry(k, ptrs[k])
        /\ ptrs' = [ptrs EXCEPT ![k] = 0]
        /\ todo' = {l \in Keys : ptrs'[l] # 0}
        /\ pc' = IF todo' = {} THEN "commit" ELSE IF pc = "refill" THEN pc ELSE "apply"
        /\ change.page # 0
    BY DEF ShadowInsert, Insertable, ChangeEntry
  <1>2. ptrs \in [Keys -> Nat] /\ ptrs[k] \in Nat
    BY DEF Types
  <1>3. /\ cached # 0 /\ ~raced /\ cached \in DOMAIN trees /\ change' = NoChange
        /\ [change.entries EXCEPT ![k] = ptrs[k]] \in [Keys -> Nat]
        /\ Replaced(Tree, trees'[cached], [change.entries EXCEPT ![k] = ptrs[k]])
        /\ trees' \in Seq(Trees) /\ Len(trees') = Len(trees) /\ DOMAIN trees' = DOMAIN trees
        /\ \A j \in DOMAIN trees : j # cached => trees'[j] = trees[j]
    BY <1>1, <1>2, TreeReplaced
  <1>4. ptrs' \in [Keys -> Nat] /\ \A l \in Keys : ptrs'[l] = IF l = k THEN 0 ELSE ptrs[l]
    BY <1>1, <1>2
  <1>5. Waiting' = Waiting \ {k} /\ todo' = Waiting'
    BY <1>1, <1>4 DEF Waiting
  <1>6. \/ Waiting' = {} /\ pc' = "commit"
        \/ Waiting' # {} /\ pc = "refill" /\ pc' = "refill"
        \/ Waiting' # {} /\ pc \in {"apply", "insert"} /\ pc' = "apply"
    BY <1>1, <1>5
  <1> QED BY <1>1, <1>2, <1>3, <1>4, <1>5, <1>6

\* shadowDeleteNoCommit as a change of one entry.
LEMMA DeleteIs ==
  ASSUME Types, TreesInv, Control, ChangeInv, NEW k \in Keys, ShadowDelete(k)
  PROVE  /\ change.page # 0 /\ change' = NoChange
         /\ k \in todo /\ pc = "apply" /\ \A l \in todo : before[l] # 0
         /\ cached # 0 /\ ~raced /\ cached \in DOMAIN trees /\ cached' = cached
         /\ [change.entries EXCEPT ![k] = 0] \in [Keys -> Nat]
         /\ Replaced(Tree, trees'[cached], [change.entries EXCEPT ![k] = 0])
         /\ trees' \in Seq(Trees) /\ Len(trees') = Len(trees) /\ DOMAIN trees' = DOMAIN trees
         /\ \A j \in DOMAIN trees : j # cached => trees'[j] = trees[j]
         /\ ptrs' = ptrs /\ Waiting' = Waiting /\ todo' = {k} /\ pc' = "insert"
  <1>1. /\ k \in todo /\ pc = "apply" /\ cached' = cached
        /\ ChangeEntry(k, 0)
        /\ ptrs' = ptrs /\ todo' = {k} /\ pc' = "insert" /\ \A l \in todo : before[l] # 0
        /\ change.page # 0
    BY DEF ShadowDelete, ChangeEntry
  <1>2. /\ cached # 0 /\ ~raced /\ cached \in DOMAIN trees /\ change' = NoChange
        /\ [change.entries EXCEPT ![k] = 0] \in [Keys -> Nat]
        /\ Replaced(Tree, trees'[cached], [change.entries EXCEPT ![k] = 0])
        /\ trees' \in Seq(Trees) /\ Len(trees') = Len(trees) /\ DOMAIN trees' = DOMAIN trees
        /\ \A j \in DOMAIN trees : j # cached => trees'[j] = trees[j]
    <2>1. 0 \in Nat
      OBVIOUS
    <2> QED BY <1>1, <2>1, TreeReplaced
  <1>3. Waiting' = Waiting
    BY <1>1 DEF Waiting
  <1> QED BY <1>1, <1>2, <1>3

-----------------------------------------------------------------------------
\* The variables that a step of a call other than the first and CacheNode leaves alone.
Quiet == UNCHANGED <<storage, writer, index, raced, late>>

\* Where the writer can be.
Places == {"idle", "apply", "insert", "commit", "remove", "truncate", "reopen", "refill", "stop"}

\* No leaf is claimed.
LEMMA NoChangeType == NoChange \in [page : Nat, entries : [Keys -> Nat]] /\ NoChange.page = 0
  BY NoEntriesType DEF NoChange

\* Every step keeps the types.
LEMMA TypesNext ==
  ASSUME IInv, Next
  PROVE  Types'
  <1> USE DEF IInv
  <1>1. ASSUME NEW keys \in SUBSET Keys, AppendRecords(keys) PROVE Types'
    <2>1. /\ writes' \in 0..MaxWrites /\ file' \in Seq(Rows) /\ ptrs' \in [Keys -> Nat]
          /\ reader' \in [Readers -> Calls] /\ version' \in [Keys -> Nat] /\ pc' = "apply" /\ todo' = keys
      BY <1>1, AppendRecordsIs DEF Began, Grown, NotedWrite, Noted
    <2>2. UNCHANGED <<disk, trees, cached, before, change>>
      BY <1>1 DEF AppendRecords, index
    <2> QED BY <2>1, <2>2 DEF Types
  <1>2. ASSUME ClaimLeaf PROVE Types'
    <2>1. ClaimedStep
      BY <1>2, ClaimLeafIs
    <2>2. trees' \in Seq(Trees) /\ Len(trees') = Len(trees) /\ change' \in [page : Nat, entries : [Keys -> Nat]]
      BY <2>1 DEF ClaimedStep
    <2>3. UNCHANGED <<file, disk, cached, version, before, pc, todo, ptrs, writes, reader>>
      BY <2>1 DEF ClaimedStep, storage
    <2> QED BY <2>2, <2>3 DEF Types
  <1>3. ASSUME NEW k \in Keys, ShadowDelete(k) PROVE Types'
    <2>1. /\ trees' \in Seq(Trees) /\ Len(trees') = Len(trees) /\ cached' = cached
          /\ todo' = {k} /\ pc' = "insert" /\ ptrs' = ptrs /\ change' = NoChange
      BY <1>3, DeleteIs
    <2>2. UNCHANGED <<file, disk, version, before, writes, reader>>
      BY <1>3 DEF ShadowDelete, storage
    <2> QED BY <2>1, <2>2, NoChangeType DEF Types
  <1>4. ASSUME NEW k \in Keys, ShadowInsert(k) PROVE Types'
    <2>1. /\ trees' \in Seq(Trees) /\ Len(trees') = Len(trees) /\ cached' = cached
          /\ todo' = Waiting' /\ ptrs' \in [Keys -> Nat] /\ pc' \in {"commit", "refill", "apply"}
          /\ change' = NoChange
      BY <1>4, InsertIs
    <2>2. UNCHANGED <<file, disk, version, before, writes, reader>>
      BY <1>4 DEF ShadowInsert, storage
    <2>3. todo' \subseteq Keys
      BY <2>1 DEF Waiting
    <2> QED BY <2>1, <2>2, <2>3, NoChangeType DEF Types
  <1>5. ASSUME ShadowCommit PROVE Types'
    <2>1. /\ trees' \in Seq(Trees) /\ Len(trees') = Len(trees) /\ disk' \in Files
          /\ reader' \in [Readers -> Calls]
      BY <1>5, CommitIs DEF CommitFile, Noted
    <2>2. UNCHANGED <<file, cached, version, todo, change, ptrs, writes>> /\ before' = version /\ pc' = "idle"
      BY <1>5 DEF ShadowCommit
    <2> QED BY <2>1, <2>2 DEF Types
  <1>6. ASSUME Clear PROVE Types'
    <2>1. writes' \in 0..MaxWrites /\ reader' \in [Readers -> Calls] /\ version' \in [Keys -> Nat] /\ pc' = "remove"
      BY <1>6, ClearIs DEF Began, NotedWrite, Noted
    <2>2. UNCHANGED <<file, disk, trees, cached, before, todo, change, ptrs>>
      BY <1>6 DEF Clear, index
    <2> QED BY <2>1, <2>2 DEF Types
  <1>7. ASSUME Compact PROVE Types'
    <2>1. /\ writes' \in 0..MaxWrites /\ file' \in Seq(Rows) /\ ptrs' \in [Keys -> Nat]
          /\ reader' \in [Readers -> Calls] /\ pc' = "remove"
      BY <1>7, CompactRecordsIs DEF Began, Squeezed, NotedWrite, Noted
    <2>2. UNCHANGED <<disk, trees, cached, before, version, todo, change>>
      BY <1>7 DEF Compact, index
    <2> QED BY <2>1, <2>2 DEF Types
  <1>8. ASSUME RemoveIndex PROVE Types'
    <2>1. trees' \in Seq(Trees) /\ Len(trees') = Len(trees) /\ cached' = 0 /\ pc' = "truncate"
      BY <1>8, RemoveIndexIs
    <2>2. UNCHANGED <<file, disk, version, before, todo, change, ptrs, writes, reader>>
      BY <1>8 DEF RemoveIndex, storage
    <2> QED BY <2>1, <2>2 DEF Types
  <1>9. ASSUME Truncate PROVE Types'
    <2>1. EmptyFile \in Files
      BY CacheFields DEF EmptyFile, Files
    <2>2. /\ disk' = EmptyFile /\ pc' = "reopen"
          /\ UNCHANGED <<file, trees, cached, version, before, todo, change, ptrs, writes, reader>>
      BY <1>9 DEF Truncate, index
    <2> QED BY <2>1, <2>2 DEF Types
  <1>10. ASSUME Reopen PROVE Types'
    <2>1. /\ trees' \in Seq(Trees) /\ cached' \in 0..Len(trees') /\ todo' = Waiting
          /\ pc' \in Places /\ before' \in {before, version}
      BY <1>10, ReopenIs DEF Opened, Types, Places
    <2>2. UNCHANGED <<file, disk, version, change, ptrs, writes, reader>>
      BY <1>10 DEF Reopen
    <2> QED BY <2>1, <2>2 DEF Types, Places, Waiting
  <1>11. ASSUME NEW r \in Readers, NEW k \in Keys, GetIndex(r, k) PROVE Types'
    <2>1. trees' \in Seq(Trees) /\ cached' \in 0..Len(trees') /\ reader' \in [Readers -> Calls]
      BY <1>11, GetIndexIs DEF Opened, Types, Started
    <2>2. UNCHANGED <<file, disk, version, before, pc, todo, change, ptrs, writes>>
      BY <1>11 DEF GetIndex, storage, writer
    <2> QED BY <2>1, <2>2 DEF Types
  <1>12. ASSUME Quiet, reader' \in [Readers -> Calls] PROVE Types'
    BY <1>12 DEF Types, Quiet, storage, writer, index
  <1>13. ASSUME NEW r \in Readers, FindRoot(r) PROVE Types'
    <2>1. reader' \in [Readers -> Calls]
      BY <1>13, FindRootIs DEF Finished, Advanced
    <2> QED BY <1>12, <1>13, <2>1 DEF FindRoot, Quiet
  <1>14. ASSUME NEW r \in Readers, FindNode(r) PROVE Types'
    <2>1. reader' \in [Readers -> Calls]
      BY <1>14, FindNodeIs DEF Finished, Advanced
    <2> QED BY <1>12, <1>14, <2>1 DEF FindNode, Quiet
  <1>15. ASSUME NEW r \in Readers, FindTorn(r) PROVE Types'
    <2>1. reader' \in [Readers -> Calls]
      BY <1>15, FindTornIs DEF Finished, Advanced
    <2> QED BY <1>12, <1>15, <2>1 DEF FindTorn, Quiet
  <1>16. ASSUME NEW r \in Readers, FetchPage(r) PROVE Types'
    <2>1. reader' \in [Readers -> Calls]
      BY <1>16, FetchPageIs DEF Finished, Advanced
    <2> QED BY <1>12, <1>16, <2>1 DEF FetchPage, Quiet
  <1>17. ASSUME NEW r \in Readers, CacheNode(r) PROVE Types'
    <2>1. trees' \in Seq(Trees) /\ Len(trees') = Len(trees) /\ reader' \in [Readers -> Calls]
      BY <1>17, CacheNodeIs DEF Finished, Advanced
    <2>2. UNCHANGED <<file, disk, cached, version, before, pc, todo, change, ptrs, writes>>
      BY <1>17 DEF CacheNode, storage, writer
    <2> QED BY <2>1, <2>2 DEF Types
  <1>18. ASSUME NEW r \in Readers, ReadRecord(r) PROVE Types'
    <2>1. reader' \in [Readers -> Calls]
      BY <1>18, ReadRecordIs DEF Finished
    <2> QED BY <1>12, <1>18, <2>1 DEF ReadRecord, Quiet
  <1> QED BY <1>1, <1>2, <1>3, <1>4, <1>5, <1>6, <1>7, <1>8, <1>9, <1>10, <1>11,
             <1>13, <1>14, <1>15, <1>16, <1>17, <1>18 DEF Next

-----------------------------------------------------------------------------
\* Steps that leave alone all that the writer's part of the invariant is about.
Still == UNCHANGED <<storage, index, pc, todo, change, ptrs, writes, raced, late>>

\* The actions that change the files, the indexes or the place of the writer; all others are Still.
LEMMA Steps ==
  ASSUME Next
  PROVE  \/ \E keys \in SUBSET Keys : AppendRecords(keys) /\ keys # {}
         \/ ClaimLeaf
         \/ \E k \in Keys : ShadowDelete(k)
         \/ \E k \in Keys : ShadowInsert(k)
         \/ ShadowCommit \/ Clear \/ Compact \/ RemoveIndex \/ Truncate \/ Reopen
         \/ \E r \in Readers, k \in Keys : GetIndex(r, k)
         \/ \E r \in Readers : CacheNode(r)
         \/ Still
  <1>2. \A r \in Readers : FindRoot(r) \/ FindNode(r) \/ FindTorn(r) \/ FetchPage(r) \/ ReadRecord(r) => Still
    <2> TAKE r \in Readers
    <2>1. FindRoot(r) => Quiet
      BY DEF FindRoot, Quiet
    <2>2. FindNode(r) => Quiet
      BY DEF FindNode, Quiet
    <2>3. FindTorn(r) => Quiet
      BY DEF FindTorn, Quiet
    <2>4. FetchPage(r) => Quiet
      BY DEF FetchPage, Quiet
    <2>5. ReadRecord(r) => Quiet
      BY DEF ReadRecord, Quiet
    <2>6. Quiet => Still
      BY DEF Quiet, Still, writer
    <2> QED BY <2>1, <2>2, <2>3, <2>4, <2>5, <2>6
  <1>3. (\E keys \in (SUBSET Keys) \ {{}} : AppendRecords(keys)) =>
           \E keys \in SUBSET Keys : AppendRecords(keys) /\ keys # {}
    OBVIOUS
  <1>4. (\E r \in Readers : \/ \E k \in Keys : GetIndex(r, k)
                            \/ FindRoot(r) \/ FindNode(r) \/ FindTorn(r)
                            \/ FetchPage(r) \/ CacheNode(r) \/ ReadRecord(r)) =>
           \/ \E r \in Readers, k \in Keys : GetIndex(r, k)
           \/ \E r \in Readers : CacheNode(r)
           \/ Still
    BY <1>2
  <1>5. (\E k \in Keys : ShadowDelete(k) \/ ShadowInsert(k)) =>
           (\E k \in Keys : ShadowDelete(k)) \/ (\E k \in Keys : ShadowInsert(k))
    OBVIOUS
  <1> QED BY <1>3, <1>4, <1>5 DEF Next

\* Every step keeps Booleans.
LEMMA BooleansNext ==
  ASSUME IInv, Next
  PROVE  Booleans'
  <1> USE DEF IInv, Booleans
  <1>1. ASSUME NEW keys \in SUBSET Keys, AppendRecords(keys) PROVE Booleans'
    BY <1>1 DEF AppendRecords
  <1>2. ASSUME ClaimLeaf PROVE Booleans'
    BY <1>2 DEF ClaimLeaf, storage
  <1>3. ASSUME NEW k \in Keys, ShadowDelete(k) \/ ShadowInsert(k) PROVE Booleans'
    BY <1>3 DEF ShadowDelete, ShadowInsert, storage
  <1>4. ASSUME ShadowCommit \/ Clear \/ Compact PROVE Booleans'
    BY <1>4 DEF ShadowCommit, Clear, Compact, Begin
  <1>5. ASSUME RemoveIndex \/ Truncate \/ Reopen PROVE Booleans'
    BY <1>5 DEF RemoveIndex, Truncate, Reopen, storage
  <1>6. ASSUME NEW r \in Readers, NEW k \in Keys, GetIndex(r, k) PROVE Booleans'
    BY <1>6 DEF GetIndex, storage, writer
  <1>7. ASSUME NEW r \in Readers, FindRoot(r) \/ FindNode(r) \/ FindTorn(r) \/ FetchPage(r) \/ ReadRecord(r)
        PROVE  Booleans'
    <2>1. Quiet
      <3>1. FindRoot(r) => Quiet
        BY DEF FindRoot, Quiet
      <3>2. FindNode(r) => Quiet
        BY DEF FindNode, Quiet
      <3>3. FindTorn(r) => Quiet
        BY DEF FindTorn, Quiet
      <3>4. FetchPage(r) => Quiet
        BY DEF FetchPage, Quiet
      <3>5. ReadRecord(r) => Quiet
        BY DEF ReadRecord, Quiet
      <3> QED BY <1>7, <3>1, <3>2, <3>3, <3>4, <3>5
    <2> QED BY <2>1 DEF Quiet, storage, writer
  <1>8. ASSUME NEW r \in Readers, CacheNode(r) PROVE Booleans'
    BY <1>8 DEF CacheNode, storage, writer
  <1> QED BY <1>1, <1>2, <1>3, <1>4, <1>5, <1>6, <1>7, <1>8 DEF Next

\* The same, with what TreesInv says of every index object by a name of its own.
Bounded(t) ==
    /\ t.next >= 3
    /\ t.prim = 0 \/ t.prim \in 3..(t.next - 1)
    /\ \A p \in DOMAIN t.cache : p \in 3..(t.next - 1)

\* The roots can be read from the cache or from the file.
Rooted(t, file0) == \A p \in {t.prim, t.sec} : p = 0 \/ p \in DOMAIN t.cache \/ p \in DOMAIN file0.node

\* TreesInv by its parts.
LEMMA TreesParts ==
  TreesInv <=> /\ cached # 0 => Owned(Tree) /\ Tree.open
               /\ Owned(OpenTree(disk))
               /\ \A i \in DOMAIN trees : i # cached => ~trees[i].open
               /\ \A i \in DOMAIN trees : Bounded(trees[i])
               /\ cached # 0 /\ ~raced => Rooted(Tree, disk)
  BY DEF TreesInv, Bounded, Rooted

\* The open index after a change still owns its pages, and its roots can be read.
Regular(t, v) ==
    /\ v \in Trees /\ Owned(v) /\ (v.open <=> t.open) /\ v.next >= t.next
    /\ v.prim \in DOMAIN v.cache
    /\ v.sec = 0 \/ v.sec \in DOMAIN v.cache \/ v.sec \in DOMAIN disk.node
    /\ \A p \in DOMAIN v.cache : p \in DOMAIN t.cache \/ p \in 3..(v.next - 1)

\* Changing the indexes keeps TreesInv.
LEMMA ReplacedTrees ==
  ASSUME Types, TreesInv, cached # 0, cached \in DOMAIN trees,
         Regular(Tree, trees'[cached]), DOMAIN trees' = DOMAIN trees,
         \A j \in DOMAIN trees : j # cached => trees'[j] = trees[j],
         UNCHANGED <<cached, disk, raced>>
  PROVE  TreesInv'
  <1> DEFINE v == trees'[cached]
  <1>1. /\ v \in Trees /\ Owned(v) /\ (v.open <=> Tree.open) /\ v.next >= Tree.next
        /\ v.prim \in DOMAIN v.cache
        /\ v.sec = 0 \/ v.sec \in DOMAIN v.cache \/ v.sec \in DOMAIN disk.node
        /\ \A p \in DOMAIN v.cache : p \in DOMAIN Tree.cache \/ p \in 3..(v.next - 1)
    BY DEF Regular
  <1>2. Tree' = v
    BY DEF Tree
  <1> HIDE DEF v
  <1>3. Owned(OpenTree(disk))'
    BY DEF TreesInv
  <1>4. Owned(Tree') /\ Tree.open'
    BY <1>1, <1>2 DEF TreesInv
  <1>5. \A i \in DOMAIN trees' : i # cached' => ~trees'[i].open
    BY DEF TreesInv
  <1>6. Bounded(v)
    <2>1. Bounded(Tree) /\ Tree.next \in Nat /\ v.next \in Nat
      BY <1>1, TreeFields DEF TreesInv, Bounded, Tree, Types
    <2> QED BY <1>1, <2>1 DEF Bounded, Owned
  <1>7. \A i \in DOMAIN trees' : Bounded(trees'[i])
    BY <1>6, TreesParts DEF v
  <1>8. Rooted(v, disk)
    BY <1>1 DEF Rooted
  <1> QED BY <1>2, <1>3, <1>4, <1>5, <1>7, <1>8 DEF TreesInv, Bounded, Rooted

\* Every step keeps TreesInv.
LEMMA TreesNext ==
  ASSUME IInv, Next
  PROVE  TreesInv'
  <1> USE DEF IInv
  <1>0. ASSUME UNCHANGED <<trees, cached, disk, raced>> PROVE TreesInv'
    BY <1>0 DEF TreesInv, Tree
  <1>1. ASSUME NEW keys \in SUBSET Keys, AppendRecords(keys) PROVE TreesInv'
    BY <1>0, <1>1 DEF AppendRecords, index
  <1>2. ASSUME NEW k \in Keys, ShadowDelete(k) PROVE TreesInv'
    <2>1. UNCHANGED <<cached, disk, raced>>
      BY <1>2 DEF ShadowDelete, storage
    <2>2. /\ cached # 0 /\ cached \in DOMAIN trees /\ DOMAIN trees' = DOMAIN trees
          /\ Replaced(Tree, trees'[cached], [change.entries EXCEPT ![k] = 0])
          /\ \A j \in DOMAIN trees : j # cached => trees'[j] = trees[j]
      BY <1>2, DeleteIs
    <2>3. Regular(Tree, trees'[cached])
      BY <2>2 DEF Replaced, Regular
    <2> QED BY <2>1, <2>2, <2>3, ReplacedTrees
  <1>3. ASSUME NEW k \in Keys, ShadowInsert(k) PROVE TreesInv'
    <2>1. UNCHANGED <<cached, disk, raced>>
      BY <1>3 DEF ShadowInsert, storage
    <2>2. /\ cached # 0 /\ cached \in DOMAIN trees /\ DOMAIN trees' = DOMAIN trees
          /\ Replaced(Tree, trees'[cached], [change.entries EXCEPT ![k] = ptrs[k]])
          /\ \A j \in DOMAIN trees : j # cached => trees'[j] = trees[j]
      BY <1>3, InsertIs
    <2>3. Regular(Tree, trees'[cached])
      BY <2>2 DEF Replaced, Regular
    <2> QED BY <2>1, <2>2, <2>3, ReplacedTrees
  <1>4. ASSUME ShadowCommit PROVE TreesInv'
    <2> DEFINE u == trees'[cached]
    <2>1. /\ cached # 0 /\ cached \in DOMAIN trees /\ Tree \in Trees
          /\ CommitTree(Tree, u) /\ CommitFile(Tree)
          /\ DOMAIN trees' = DOMAIN trees
          /\ \A j \in DOMAIN trees : j # cached => trees'[j] = trees[j]
      BY <1>4, CommitIs
    <2>2. UNCHANGED <<cached, raced>> /\ Tree' = u
      BY <1>4 DEF ShadowCommit, Tree
    <2> HIDE DEF u
    <2>3. Owned(Tree') /\ Tree.open'
      BY <2>1, <2>2 DEF CommitTree, TreesInv
    <2>4. Owned(OpenTree(disk))'
      BY <2>1 DEF CommitFile
    <2>5. \A i \in DOMAIN trees' : i # cached' => ~trees'[i].open
      BY <2>1, <2>2 DEF TreesInv
    <2>6. Bounded(u)
      <3>1. Bounded(Tree)
        BY <2>1, TreesParts DEF Tree
      <3> QED BY <2>1, <3>1 DEF Bounded, CommitTree
    <2>7. \A i \in DOMAIN trees' : Bounded(trees'[i])
      BY <2>1, <2>6, TreesParts DEF u
    <2>8. ~raced => Rooted(u, disk')
      <3>1. ~raced => Rooted(Tree, disk)
        BY <2>1, TreesParts
      <3> QED BY <2>1, <3>1 DEF Rooted, CommitTree, CommitFile
    <2> QED BY <2>2, <2>3, <2>4, <2>5, <2>7, <2>8 DEF TreesInv, Bounded, Rooted
  <1>5. ASSUME Clear PROVE TreesInv'
    BY <1>0, <1>5 DEF Clear, index
  <1>6. ASSUME Compact PROVE TreesInv'
    BY <1>0, <1>6 DEF Compact, index
  <1>7. ASSUME RemoveIndex PROVE TreesInv'
    <2>1. /\ cached # 0 /\ cached \in DOMAIN trees /\ cached' = 0
          /\ DOMAIN trees' = DOMAIN trees /\ ~trees'[cached].open
          /\ trees'[cached].prim = Tree.prim /\ trees'[cached].next = Tree.next
          /\ trees'[cached].cache = Tree.cache
          /\ \A j \in DOMAIN trees : j # cached => trees'[j] = trees[j]
      BY <1>7, RemoveIndexIs
    <2>2. Owned(OpenTree(disk))'
      BY <1>7 DEF RemoveIndex, storage, TreesInv
    <2>3. \A i \in DOMAIN trees' : i # cached' => ~trees'[i].open
      BY <2>1 DEF TreesInv
    <2>4. Bounded(trees'[cached])
      <3>1. Bounded(Tree)
        BY <2>1, TreesParts DEF Tree
      <3> QED BY <2>1, <3>1 DEF Bounded
    <2>5. \A i \in DOMAIN trees' : Bounded(trees'[i])
      BY <2>1, <2>4, TreesParts
    <2> QED BY <2>1, <2>2, <2>3, <2>5 DEF TreesInv, Bounded, Rooted
  <1>8. ASSUME Truncate PROVE TreesInv'
    <2>1. disk' = EmptyFile /\ UNCHANGED <<trees, cached, raced>> /\ pc = "truncate"
      BY <1>8 DEF Truncate, index
    <2>2. Owned(OpenTree(disk'))
      BY <2>1 DEF OpenTree, EmptyFile, Owned, Distinct
    <2>3. cached # 0 => raced
      BY <2>1 DEF Control
    <2> QED BY <2>1, <2>2, <2>3 DEF TreesInv, Tree
  <1>9. ASSUME Opened, disk' = disk, ~raced' => ~raced /\ disk = EmptyFile PROVE TreesInv'
    <2>1. Tree' = OpenTree(disk)
      BY <1>9 DEF Opened, Tree
    <2>2. Owned(Tree') /\ Tree.open'
      BY <2>1, OpenTreeType DEF TreesInv
    <2>3. Owned(OpenTree(disk))'
      BY <1>9 DEF TreesInv
    <2>4. \A i \in DOMAIN trees' : i # cached' => ~trees'[i].open
      BY <1>9 DEF TreesInv, Opened
    <2>5. Bounded(OpenTree(disk))
      BY OpenTreeType DEF Bounded, TreesInv, Owned
    <2>6. \A i \in DOMAIN trees' : Bounded(trees'[i])
      BY <1>9, <2>5, TreesParts DEF Opened
    <2>7. disk = EmptyFile => Rooted(OpenTree(disk), disk)
      BY DEF Rooted, OpenTree, EmptyFile
    <2> QED BY <1>9, <2>1, <2>2, <2>3, <2>4, <2>6, <2>7 DEF TreesInv, Bounded, Rooted
  <1>10. ASSUME Reopen PROVE TreesInv'
    <2>1. disk = EmptyFile /\ disk' = disk /\ (Opened \/ (trees' = trees /\ cached' = cached))
      BY <1>10, ReopenIs
    <2>2. raced' = raced
      BY <1>10 DEF Reopen
    <2> QED BY <1>0, <1>9, <2>1, <2>2
  <1>11. ASSUME NEW r \in Readers, NEW k \in Keys, GetIndex(r, k) PROVE TreesInv'
    <2>1. Opened \/ (cached # 0 /\ trees' = trees /\ cached' = cached)
      BY <1>11, GetIndexIs
    <2>2. disk' = disk
      BY <1>11 DEF GetIndex, storage
    <2>3. CASE Opened
      <3>1. cached = 0 /\ pc \in {"truncate", "reopen"}
        BY <2>3 DEF Opened, Control
      <3>2. ~raced' => ~raced /\ pc # "truncate"
        BY <1>11, <3>1 DEF GetIndex
      <3>3. ~raced' => ~raced /\ disk = EmptyFile
        BY <3>1, <3>2 DEF Control
      <3> QED BY <1>9, <2>2, <2>3, <3>3
    <2>4. CASE cached # 0 /\ trees' = trees /\ cached' = cached
      <3>1. raced' = raced
        BY <1>11, <2>4 DEF GetIndex
      <3> QED BY <1>0, <2>2, <2>4, <3>1
    <2> QED BY <2>1, <2>3, <2>4
  <1>12. ASSUME NEW r \in Readers, CacheNode(r) PROVE TreesInv'
    <2> DEFINE i == reader[r].tree
    <2>1. /\ i \in DOMAIN trees
          /\ reader[r].page \in 3..(trees[i].next - 1)
          /\ DOMAIN trees' = DOMAIN trees /\ trees[i] \in Trees /\ trees'[i] \in Trees
          /\ \A j \in DOMAIN trees : j # i => trees'[j] = trees[j]
          /\ trees'[i].prim = trees[i].prim /\ trees'[i].sec = trees[i].sec
          /\ trees'[i].free = trees[i].free /\ trees'[i].next = trees[i].next
          /\ trees'[i].orphans = trees[i].orphans /\ (trees'[i].open <=> trees[i].open)
          /\ IsPut(trees'[i].cache, trees[i].cache, reader[r].page, reader[r].node)
      BY <1>12, CacheNodeIs
    <2>2. UNCHANGED <<cached, raced, disk>>
      BY <1>12 DEF CacheNode, storage
    <2> HIDE DEF i
    <2>3. \A j \in DOMAIN trees :    /\ trees'[j].prim = trees[j].prim /\ trees'[j].sec = trees[j].sec
                                     /\ trees'[j].free = trees[j].free /\ trees'[j].next = trees[j].next
                                     /\ trees'[j].orphans = trees[j].orphans
                                     /\ (trees'[j].open <=> trees[j].open)
                                     /\ DOMAIN trees[j].cache \subseteq DOMAIN trees'[j].cache
      <3> TAKE j \in DOMAIN trees
      <3>1. CASE j = i
        BY <2>1, <3>1 DEF IsPut
      <3>2. CASE j # i
        BY <2>1, <3>2
      <3> QED BY <3>1, <3>2
    <2>4. \A j \in DOMAIN trees : Owned(trees[j]) => Owned(trees'[j])
      BY <2>3 DEF Owned, Unused
    <2>5. cached # 0 => Owned(Tree') /\ Tree.open'
      <3>1. cached # 0 => cached \in DOMAIN trees
        BY DEF Types
      <3> QED BY <2>2, <2>3, <2>4, <3>1 DEF TreesInv, Tree
    <2>6. Owned(OpenTree(disk))'
      BY <2>2 DEF TreesInv
    <2>7. \A j \in DOMAIN trees' : j # cached' => ~trees'[j].open
      BY <2>1, <2>2, <2>3 DEF TreesInv
    <2>8. Bounded(trees'[i])
      <3>1. Bounded(trees[i])
        BY <2>1, TreesParts
      <3> QED BY <2>1, <3>1 DEF Bounded, IsPut
    <2>9. \A j \in DOMAIN trees' : Bounded(trees'[j])
      BY <2>1, <2>8, TreesParts
    <2>10. cached # 0 /\ ~raced => Rooted(Tree', disk)
      <3>1. cached # 0 => cached \in DOMAIN trees
        BY DEF Types
      <3>2. cached # 0 /\ ~raced => Rooted(trees[cached], disk)
        BY TreesParts DEF Tree
      <3> QED BY <2>2, <2>3, <3>1, <3>2 DEF Rooted, Tree
    <2> QED BY <2>2, <2>5, <2>6, <2>7, <2>9, <2>10 DEF TreesInv, Bounded, Rooted
  <1>13. ASSUME Still PROVE TreesInv'
    BY <1>0, <1>13 DEF Still, storage, index
  <1>14. ASSUME ClaimLeaf PROVE TreesInv'
    <2>1. ClaimedStep
      BY <1>14, ClaimLeafIs
    <2>2. /\ cached # 0 /\ ~raced /\ cached \in DOMAIN trees /\ DOMAIN trees' = DOMAIN trees
          /\ Claimed(Tree, trees'[cached], change'.page)
          /\ \A j \in DOMAIN trees : j # cached => trees'[j] = trees[j]
      BY <2>1 DEF ClaimedStep
    <2>3. UNCHANGED <<cached, disk, raced>>
      BY <2>1 DEF ClaimedStep, storage
    <2>4. Tree.sec = 0 \/ Tree.sec \in DOMAIN Tree.cache \/ Tree.sec \in DOMAIN disk.node
      BY <2>2 DEF TreesInv
    <2>5. Regular(Tree, trees'[cached])
      BY <2>2, <2>4 DEF Claimed, Regular
    <2> QED BY <2>2, <2>3, <2>5, ReplacedTrees
  <1> QED BY <1>1, <1>2, <1>3, <1>4, <1>5, <1>6, <1>7, <1>8, <1>10, <1>11, <1>12, <1>13, <1>14, Steps

-----------------------------------------------------------------------------
\* Opening the index file between its removal and its truncation is what races.
LEMMA RacedIs ==
  ASSUME NEW r \in Readers, NEW k \in Keys, GetIndex(r, k)
  PROVE  /\ ~raced' => ~raced
         /\ cached = 0 /\ pc = "truncate" => raced'
         /\ cached # 0 => raced' = raced
         /\ raced' => raced \/ (cached = 0 /\ pc = "truncate")
  <1>1. CASE cached = 0
    BY <1>1 DEF GetIndex
  <1>2. CASE cached # 0
    BY <1>2 DEF GetIndex
  <1> QED BY <1>1, <1>2

\* Every step keeps Control.
LEMMA ControlNext ==
  ASSUME IInv, Next
  PROVE  Control'
  <1> USE DEF IInv
  <1>1. ASSUME NEW keys \in SUBSET Keys, AppendRecords(keys) /\ keys # {} PROVE Control'
    <2>1. Began /\ Grown(keys, writes + 2) /\ pc' = "apply" /\ todo' = keys
      BY <1>1, AppendRecordsIs
    <2>2. UNCHANGED <<cached, raced>> /\ cached # 0 /\ ~raced
      BY <1>1, <2>1 DEF AppendRecords, index, Began, Control
    <2>3. Waiting' = keys
      BY <2>1 DEF Waiting, Grown
    <2> QED BY <1>1, <2>1, <2>2, <2>3 DEF Control
  <1>2. ASSUME NEW k \in Keys, ShadowDelete(k) PROVE Control'
    <2>1. k \in todo /\ pc = "apply" /\ cached # 0 /\ ~raced /\ Waiting' = Waiting /\ todo' = {k} /\ pc' = "insert"
      BY <1>2, DeleteIs
    <2>2. UNCHANGED <<cached, raced>> /\ k \in Waiting
      BY <1>2, <2>1 DEF ShadowDelete, Control
    <2> QED BY <2>1, <2>2 DEF Control
  <1>3. ASSUME NEW k \in Keys, ShadowInsert(k) PROVE Control'
    <2>1. /\ cached # 0 /\ ~raced /\ todo' = Waiting' /\ cached' = cached
          /\ \/ Waiting' = {} /\ pc' = "commit"
             \/ Waiting' # {} /\ pc' \in {"refill", "apply"}
      BY <1>3, InsertIs
    <2>2. raced' = raced
      BY <1>3 DEF ShadowInsert
    <2> QED BY <2>1, <2>2 DEF Control
  <1>4. ASSUME ShadowCommit PROVE Control'
    <2>1. cached # 0 /\ ~raced
      BY <1>4, CommitIs
    <2>2. UNCHANGED <<cached, raced, ptrs, version>> /\ before' = version /\ pc' = "idle" /\ pc = "commit"
      BY <1>4 DEF ShadowCommit
    <2>3. Waiting' = {}
      BY <2>2 DEF Waiting, Control
    <2> QED BY <2>1, <2>2, <2>3 DEF Control
  <1>5. ASSUME Clear \/ Compact PROVE Control'
    <2>1. Began /\ pc' = "remove"
      BY <1>5, ClearIs, CompactRecordsIs
    <2>2. UNCHANGED <<cached, raced>>
      BY <1>5 DEF Clear, Compact, index
    <2> QED BY <2>1, <2>2 DEF Control, Began
  <1>6. ASSUME RemoveIndex PROVE Control'
    <2>1. cached' = 0 /\ pc' = "truncate"
      BY <1>6, RemoveIndexIs
    <2> QED BY <2>1 DEF Control
  <1>7. ASSUME Truncate PROVE Control'
    <2>1. disk' = EmptyFile /\ UNCHANGED <<cached, raced>> /\ pc = "truncate" /\ pc' = "reopen"
      BY <1>7 DEF Truncate, index
    <2> QED BY <2>1 DEF Control
  <1>8. ASSUME Reopen PROVE Control'
    <2>1. /\ pc = "reopen" /\ cached' # 0
          /\ \/ Waiting = {} /\ pc' = "idle" /\ before' = version
             \/ Waiting # {} /\ pc' = (IF raced THEN "stop" ELSE "refill") /\ before' = before
          /\ todo' = Waiting
      BY <1>8, ReopenIs
    <2>2. UNCHANGED <<raced, version, ptrs>>
      BY <1>8 DEF Reopen
    <2>3. Waiting' = Waiting
      BY <2>2 DEF Waiting
    <2>4. CASE Waiting = {}
      <3>1. \A k \in Keys : version[k] = 0
        BY <2>1, <2>4 DEF Versions, Clearing
      <3>2. pc' = "idle" /\ before' = version'
        BY <2>1, <2>2, <2>4
      <3> QED BY <2>1, <2>2, <2>3, <2>4, <3>1, <3>2 DEF Control
    <2>5. CASE Waiting # {} /\ raced
      BY <2>1, <2>2, <2>3, <2>5 DEF Control
    <2>6. CASE Waiting # {} /\ ~raced
      BY <2>1, <2>2, <2>3, <2>6 DEF Control
    <2> QED BY <2>4, <2>5, <2>6
  <1>9. ASSUME NEW r \in Readers, NEW k \in Keys, GetIndex(r, k) PROVE Control'
    <2>1. UNCHANGED <<pc, disk, ptrs, todo, before, version>> /\ Waiting' = Waiting
      BY <1>9 DEF GetIndex, storage, writer, Waiting
    <2>2. cached' # 0 /\ (Opened \/ (cached # 0 /\ trees' = trees /\ cached' = cached))
      BY <1>9, GetIndexIs
    <2>3. pc = "reopen" /\ ~raced' => Tree.prim' = 0 /\ Tree.sec' = 0
      <3>1. CASE Opened /\ pc = "reopen"
        <4>1. Tree' = OpenTree(EmptyFile)
          BY <2>1, <3>1 DEF Control, Opened, Tree
        <4> QED BY <4>1 DEF OpenTree, EmptyFile
      <3>2. CASE cached # 0 /\ trees' = trees /\ cached' = cached
        BY <1>9, <3>2, RacedIs DEF Control, Tree
      <3> QED BY <2>2, <3>1, <3>2
    <2>4. pc = "truncate" => raced'
      <3>1. cached = 0 \/ raced' = raced
        BY <1>9, RacedIs
      <3> QED BY <1>9, <3>1, RacedIs DEF Control
    <2>5. raced' => pc \in {"truncate", "reopen", "stop"} \/ (pc = "idle" /\ \A l \in Keys : version[l] = 0)
      BY <1>9, RacedIs DEF Control
    <2> QED BY <2>1, <2>2, <2>3, <2>4, <2>5 DEF Control
  <1>10. ASSUME NEW r \in Readers, CacheNode(r) PROVE Control'
    <2>1. UNCHANGED <<cached, raced, pc, disk, ptrs, todo, before, version>> /\ Waiting' = Waiting
      BY <1>10 DEF CacheNode, storage, writer, Waiting
    <2>2. cached # 0 => Tree.prim' = Tree.prim /\ Tree.sec' = Tree.sec
      <3>1. cached # 0 => cached \in DOMAIN trees
        BY DEF Types
      <3>2. \A j \in DOMAIN trees : trees'[j].prim = trees[j].prim /\ trees'[j].sec = trees[j].sec
        BY <1>10, CacheNodeIs
      <3> QED BY <2>1, <3>1, <3>2 DEF Tree
    <2> QED BY <2>1, <2>2 DEF Control
  <1>11. ASSUME Still PROVE Control'
    BY <1>11 DEF Still, storage, index, Control, Waiting, Tree
  <1>12. ASSUME ClaimLeaf PROVE Control'
    <2>1. UNCHANGED <<cached, raced, pc, disk, ptrs, todo, before, version>> /\ pc # "reopen"
      BY <1>12 DEF ClaimLeaf, storage
    <2>2. Waiting' = Waiting
      BY <2>1 DEF Waiting
    <2> QED BY <2>1, <2>2 DEF Control
  <1> QED BY <1>1, <1>2, <1>3, <1>4, <1>5, <1>6, <1>7, <1>8, <1>9, <1>10, <1>11, <1>12, Steps

\* Every step keeps Versions.
LEMMA VersionsNext ==
  ASSUME IInv, Next
  PROVE  Versions'
  <1> USE DEF IInv
  <1>0. /\ version \in [Keys -> Nat] /\ before \in [Keys -> Nat] /\ writes \in Nat
        /\ file \in Seq(Rows) /\ ptrs \in [Keys -> Nat]
    BY DEF Types
  <1>a. ASSUME UNCHANGED <<version, before, writes, ptrs, file>>,
               pc' \in {"apply", "insert"} => pc \in {"apply", "insert"},
               Clearing' \/ pc' = "stop" => Clearing \/ pc = "stop"
        PROVE  Versions'
    BY <1>a DEF Versions, Waiting
  <1>1. ASSUME NEW keys \in SUBSET Keys, AppendRecords(keys) PROVE Versions'
    <2>1. /\ Began /\ Grown(keys, writes + 2) /\ pc' = "apply"
          /\ \A k \in Keys : version'[k] = IF k \in keys THEN writes + 2 ELSE version[k]
      BY <1>1, AppendRecordsIs
    <2>2. before' = before /\ writes' = writes + 1
      BY <1>1, <2>1 DEF AppendRecords, Began
    <2>3. Waiting' = keys
      BY <2>1 DEF Waiting, Grown
    <2>4. \A k \in Keys : version[k] \in Nat /\ before[k] \in Nat /\ version[k] <= writes + 1 /\ before[k] <= writes + 1
      BY <1>0 DEF Versions
    <2>5. \A k \in Keys : version'[k] <= writes' + 1 /\ before'[k] <= writes' + 1
      <3> TAKE k \in Keys
      <3>1. version'[k] \in {writes + 2, version[k]} /\ before'[k] = before[k]
        BY <2>1, <2>2
      <3>2. /\ version[k] \in Nat /\ before[k] \in Nat
            /\ version[k] <= writes + 1 /\ before[k] <= writes + 1
        BY <2>4
      <3> QED BY <1>0, <2>2, <3>1, <3>2
    <2>6. \A k \in keys : version'[k] = writes' + 1 /\ before'[k] <= writes' /\ version'[k] # 0
      BY <1>0, <2>1, <2>2, <2>4
    <2>7. \A k \in keys : ptrs'[k] \in DOMAIN file' /\ file'[ptrs'[k]] = <<k, version'[k]>>
      BY <2>1 DEF Grown
    <2>8. \A i \in DOMAIN file' : file'[i][2] \in 1..(writes' + 1)
      <3> TAKE i \in DOMAIN file'
      <3>1. CASE i \in DOMAIN file
        <4>1. file'[i] = file[i] /\ file[i][2] \in 1..(writes + 1)
          BY <2>1, <3>1 DEF Grown, Versions
        <4> QED BY <1>0, <2>2, <4>1
      <3>2. CASE i \notin DOMAIN file
        <4>1. file'[i][2] = writes + 2
          BY <2>1, <3>2 DEF Grown
        <4> QED BY <1>0, <2>2, <4>1
      <3> QED BY <3>1, <3>2
    <2>9. ~(Clearing' \/ pc' = "stop")
      BY <2>1 DEF Clearing
    <2> QED BY <2>3, <2>5, <2>6, <2>7, <2>8, <2>9 DEF Versions
  <1>2. ASSUME NEW k \in Keys, ShadowDelete(k) PROVE Versions'
    <2>1. UNCHANGED <<version, before, writes, ptrs, file>> /\ pc' = "insert" /\ pc = "apply"
      BY <1>2 DEF ShadowDelete, storage
    <2> QED BY <1>a, <2>1 DEF Clearing
  <1>3. ASSUME NEW k \in Keys, ShadowInsert(k) PROVE Versions'
    <2>1. /\ Waiting' = Waiting \ {k} /\ \A l \in Keys : ptrs'[l] = IF l = k THEN 0 ELSE ptrs[l]
          /\ \/ pc' \in {"commit", "refill"}
             \/ pc \in {"apply", "insert"} /\ pc' = "apply"
      BY <1>3, InsertIs
    <2>2. UNCHANGED <<version, before, writes, file>>
      BY <1>3 DEF ShadowInsert, storage
    <2>3. \A l \in Waiting' : l \in Waiting /\ ptrs'[l] = ptrs[l]
      BY <2>1 DEF Waiting
    <2>4. ~(Clearing' \/ pc' = "stop")
      BY <2>1 DEF Clearing
    <2> QED BY <2>1, <2>2, <2>3, <2>4 DEF Versions
  <1>4. ASSUME ShadowCommit PROVE Versions'
    <2>1. UNCHANGED <<version, writes, ptrs, file>> /\ before' = version /\ pc' = "idle"
      BY <1>4 DEF ShadowCommit
    <2> QED BY <2>1 DEF Versions, Waiting, Clearing
  <1>5. ASSUME Clear PROVE Versions'
    <2>1. Began /\ pc' = "remove" /\ \A k \in Keys : version'[k] = 0
      BY <1>5, ClearIs
    <2>2. UNCHANGED <<before, ptrs, file>> /\ writes' = writes + 1
      BY <1>5, <2>1 DEF Clear, Began
    <2>3. Waiting' = {}
      BY <2>1, <2>2 DEF Waiting, Control, Began
    <2>4. \A k \in Keys : version'[k] <= writes' + 1 /\ before'[k] <= writes' + 1
      BY <1>0, <2>1, <2>2 DEF Versions
    <2>5. \A i \in DOMAIN file' : file'[i][2] \in 1..(writes' + 1)
      BY <1>0, <2>2 DEF Versions
    <2> QED BY <2>1, <2>3, <2>4, <2>5 DEF Versions
  <1>6. ASSUME Compact PROVE Versions'
    <2> DEFINE e == Entries(Tree)
               kept == {k \in Keys : e[k] # 0}
    <2>1. /\ Began /\ pc' = "remove" /\ cached # 0 /\ e \in [Keys -> Nat]
          /\ Squeezed(e, kept)
      BY <1>6, CompactRecordsIs
    <2>2. UNCHANGED <<before, version>> /\ writes' = writes + 1
      BY <1>6, <2>1 DEF Compact, Began
    <2>3. \A k \in Keys : Points(e[k], k, version[k])
      BY <2>1 DEF TreeLeads, LeadsAt, Began
    <2> HIDE DEF e
    <2>4. Waiting' = kept
      BY <2>1 DEF Waiting, Squeezed
    <2>5. 0 \notin DOMAIN file
      BY <1>0
    <2>6. \A k \in Keys : /\ version[k] # 0 => k \in kept
                          /\ k \in kept => version[k] # 0 /\ file[e[k]] = <<k, version[k]>>
      BY <2>3, <2>5 DEF Points
    <2>7. \A k \in kept : ptrs'[k] \in DOMAIN file' /\ file'[ptrs'[k]] = <<k, version[k]>>
      BY <2>1, <2>6 DEF Squeezed
    <2>8. \A i \in DOMAIN file' : file'[i][2] \in 1..(writes' + 1)
      <3> TAKE i \in DOMAIN file'
      <3>1. PICK j \in DOMAIN file : file'[i] = file[j]
        BY <2>1 DEF Squeezed
      <3>2. file[j][2] \in 1..(writes + 1)
        BY DEF Versions
      <3> QED BY <1>0, <2>2, <3>1, <3>2
    <2>9. \A k \in Keys : version'[k] <= writes' + 1 /\ before'[k] <= writes' + 1
      BY <1>0, <2>2 DEF Versions
    <2> QED BY <2>1, <2>2, <2>4, <2>6, <2>7, <2>8, <2>9 DEF Versions
  <1>7. ASSUME RemoveIndex PROVE Versions'
    <2>1. UNCHANGED <<version, before, writes, ptrs, file>> /\ pc = "remove" /\ pc' = "truncate"
      BY <1>7 DEF RemoveIndex, storage
    <2> QED BY <1>a, <2>1 DEF Clearing
  <1>8. ASSUME Truncate PROVE Versions'
    <2>1. UNCHANGED <<version, before, writes, ptrs, file>> /\ pc = "truncate" /\ pc' = "reopen"
      BY <1>8 DEF Truncate
    <2> QED BY <1>a, <2>1 DEF Clearing
  <1>9. ASSUME Reopen PROVE Versions'
    <2>1. /\ pc = "reopen" /\ pc' \in {"idle", "stop", "refill"}
          /\ before' \in {before, version}
      BY <1>9, ReopenIs
    <2>2. UNCHANGED <<version, writes, ptrs, file>>
      BY <1>9 DEF Reopen
    <2>3. Clearing /\ ~Clearing'
      BY <2>1 DEF Clearing
    <2>4. Waiting' = Waiting
      BY <2>2 DEF Waiting
    <2>5. \A k \in Keys : version'[k] <= writes' + 1 /\ before'[k] <= writes' + 1
      BY <2>1, <2>2 DEF Versions
    <2> QED BY <2>1, <2>2, <2>3, <2>4, <2>5 DEF Versions
  <1>10. ASSUME NEW r \in Readers, NEW k \in Keys, GetIndex(r, k) PROVE Versions'
    BY <1>a, <1>10 DEF GetIndex, storage, writer, Clearing
  <1>11. ASSUME NEW r \in Readers, CacheNode(r) PROVE Versions'
    BY <1>a, <1>11 DEF CacheNode, storage, writer, Clearing
  <1>12. ASSUME Still PROVE Versions'
    BY <1>a, <1>12 DEF Still, storage, Clearing
  <1>13. ASSUME ClaimLeaf PROVE Versions'
    BY <1>a, <1>13 DEF ClaimLeaf, storage, Clearing
  <1> QED BY <1>1, <1>2, <1>3, <1>4, <1>5, <1>6, <1>7, <1>8, <1>9, <1>10, <1>11, <1>12, <1>13, Steps

-----------------------------------------------------------------------------
\* The entries of the primary index after a change, unless a call has put another node in its place.
LEMMA EntriesReplaced ==
  ASSUME ChangeInv, change.page # 0, NEW entries, Replaced(Tree, trees'[cached], entries), cached' = cached
  PROVE  /\ Tree.prim' # 0 /\ Tree.prim' \in DOMAIN Tree.cache'
         /\ ~late => Entries(Tree)' = entries /\ Tree.cache'[Tree.prim'].gen = writes
         /\ \/ Entries(Tree)' = entries
            \/ late /\ Full(Tree.cache[change.page]) /\ Entries(Tree)' = Tree.cache[change.page].entries
  <1> DEFINE v == trees'[cached]
             leaf == Tree.cache[change.page]
  <1>1. v.prim # 0 /\ v.prim \in DOMAIN v.cache /\ v.cache[v.prim] = Filled(Tree, entries)
    BY DEF Replaced
  <1>2. Tree' = v
    BY DEF Tree
  <1> HIDE DEF v
  <1>3. Entries(Tree)' = Filled(Tree, entries).entries
    BY <1>1, <1>2 DEF Entries, Node, InCache
  <1>4. Leaf(writes, entries).entries = entries /\ Leaf(writes, entries).gen = writes
    BY DEF Leaf
  <1>5. leaf.gen = writes \/ (late /\ Full(leaf))
    BY DEF ChangeInv, ClaimedPage
  <1>6. Filled(Tree, entries) = IF leaf.gen = writes THEN Leaf(writes, entries) ELSE leaf
    BY DEF Filled
  <1> HIDE DEF leaf
  <1>7. CASE leaf.gen = writes
    BY <1>1, <1>2, <1>3, <1>4, <1>6, <1>7
  <1>8. CASE leaf.gen # writes
    BY <1>1, <1>2, <1>3, <1>5, <1>6, <1>8 DEF leaf
  <1> QED BY <1>7, <1>8

\* Claiming a leaf changes no entry.
LEMMA EntriesClaimed ==
  ASSUME ClaimedStep
  PROVE  /\ Entries(Tree)' = Entries(Tree)
         /\ Tree' = trees'[cached] /\ Tree.prim' # 0 /\ Tree.prim' \in DOMAIN Tree.cache'
         /\ Tree.prim' = (IF Tree.prim = 0 THEN change'.page ELSE Tree.prim)
  <1> DEFINE u == trees'[cached]
             page == change'.page
  <1>1. Claimed(Tree, u, page) /\ cached' = cached /\ disk' = disk
    BY DEF ClaimedStep, storage
  <1>2. Tree' = u
    BY <1>1 DEF Tree
  <1> HIDE DEF u, page
  <1>3. /\ u.prim = (IF Tree.prim = 0 THEN page ELSE Tree.prim) /\ u.prim # 0 /\ u.prim \in DOMAIN u.cache
        /\ \/ page = Tree.prim
           \/ page # Tree.prim /\ u.cache[page] = Leaf(writes, NoEntries)
        /\ page # 0 /\ DOMAIN Tree.cache \subseteq DOMAIN u.cache
        /\ \A p \in DOMAIN u.cache :
              \/ p \in DOMAIN Tree.cache /\ u.cache[p] = Tree.cache[p]
              \/ p = page /\ u.cache[p] = Leaf(writes, NoEntries)
              \/ p = Tree.prim /\ p \notin DOMAIN Tree.cache /\ u.cache[p] = disk.node[p]
        /\ \/ page = Tree.prim /\ page \in DOMAIN Tree.cache /\ u.cache[page] = Tree.cache[page]
           \/ page # Tree.prim
    BY <1>1 DEF Claimed
  <1>4. Entries(Tree)' = u.cache[u.prim].entries
    BY <1>2, <1>3 DEF Entries, Node, InCache
  <1>5. CASE Tree.prim = 0
    <2>1. u.prim = page /\ u.cache[page] = Leaf(writes, NoEntries)
      BY <1>3, <1>5
    <2>2. u.cache[u.prim].entries = NoEntries
      BY <2>1 DEF Leaf
    <2>3. Entries(Tree) = NoEntries
      BY <1>5 DEF Entries
    <2> QED BY <1>2, <1>3, <1>4, <2>2, <2>3 DEF u, page
  <1>6. CASE Tree.prim # 0
    <2>1. u.prim = Tree.prim
      BY <1>3, <1>6
    <2>2. u.cache[Tree.prim] = Node(Tree, Tree.prim)
      BY <1>3, <2>1 DEF Node, InCache
    <2>3. Entries(Tree) = Node(Tree, Tree.prim).entries
      BY <1>6 DEF Entries
    <2> QED BY <1>2, <1>3, <1>4, <2>1, <2>2, <2>3 DEF u, page
  <1> QED BY <1>5, <1>6

\* The entries stay when neither the indexes nor the file change.
LEMMA EntriesKept ==
  ASSUME UNCHANGED <<trees, cached, disk>>
  PROVE  Entries(Tree)' = Entries(Tree) /\ Tree' = Tree
  BY DEF Entries, Tree, Node, InCache

\* A commit keeps the entries.
LEMMA EntriesCommitted ==
  ASSUME CommitTree(Tree, trees'[cached]), CommitFile(Tree), cached' = cached, Rooted(Tree, disk)
  PROVE  Entries(Tree)' = Entries(Tree)
  <1> DEFINE u == trees'[cached]
  <1>1. Tree' = u /\ u.prim = Tree.prim /\ u.cache = Tree.cache
    BY DEF Tree, CommitTree
  <1> HIDE DEF u
  <1>2. CASE Tree.prim = 0
    BY <1>1, <1>2 DEF Entries
  <1>3. CASE Tree.prim \in DOMAIN Tree.cache
    BY <1>1, <1>3 DEF Entries, Node, InCache
  <1>4. CASE Tree.prim # 0 /\ Tree.prim \notin DOMAIN Tree.cache
    <2>1. disk'.node[Tree.prim] = disk.node[Tree.prim]
      BY <1>4 DEF CommitFile, Rooted
    <2> QED BY <1>1, <1>4, <2>1 DEF Entries, Node, InCache
  <1> QED BY <1>2, <1>3, <1>4

\* An emptied file is opened as an index without entries.
LEMMA EntriesOpened ==
  ASSUME disk = EmptyFile, disk' = disk, Opened
  PROVE  Tree.prim' = 0 /\ Entries(Tree)' = NoEntries
  <1>1. Tree' = OpenTree(EmptyFile)
    BY DEF Opened, Tree
  <1>2. OpenTree(EmptyFile).prim = 0
    BY DEF OpenTree, EmptyFile
  <1> QED BY <1>1, <1>2 DEF Entries

\* A node cached by a read is the one in the file, the one in the cache, or comes late.
LEMMA EntriesCached ==
  ASSUME IInv, NEW r \in Readers, CacheNode(r), cached # 0, ~raced
  PROVE  /\ Tree.prim' = Tree.prim /\ DOMAIN Tree.cache \subseteq DOMAIN Tree.cache'
         /\ \/ Entries(Tree)' = Entries(Tree)
            \/ late' /\ reader[r].tree = cached /\ Entries(Tree)' = reader[r].node.entries
         /\ ~late' => \A p \in DOMAIN Tree.cache : Tree.cache'[p] = Tree.cache[p]
  <1> USE DEF IInv
  <1> DEFINE i == reader[r].tree
             page == reader[r].page
             leaf == reader[r].node
  <1>1. /\ i \in DOMAIN trees /\ reader[r].pc = "fetched"
        /\ \A j \in DOMAIN trees : j # i => trees'[j] = trees[j]
        /\ trees'[i].prim = trees[i].prim
        /\ IsPut(trees'[i].cache, trees[i].cache, page, leaf)
    BY CacheNodeIs
  <1>2. cached' = cached /\ disk' = disk /\ cached \in DOMAIN trees
    BY DEF CacheNode, storage, Types
  <1>3. late' <=> (late \/ (page \in DOMAIN trees[i].cache /\ trees[i].cache[page] # leaf))
    BY DEF CacheNode, InCache
  <1>4. CASE i # cached
    <2>1. Tree' = Tree
      BY <1>1, <1>2, <1>4 DEF Tree
    <2>2. Entries(Tree)' = Entries(Tree)
      BY <1>2, <2>1 DEF Entries, Node, InCache
    <2> QED BY <2>1, <2>2
  <1>5. CASE i = cached
    <2> DEFINE c == Tree.cache
               d == Tree.cache'
    <2>1. Tree.prim' = Tree.prim /\ IsPut(d, c, page, leaf)
      BY <1>1, <1>2, <1>5 DEF Tree
    <2>2. page \notin DOMAIN c => page = Tree.prim /\ leaf = disk.node[page]
      BY <1>1, <1>5 DEF Uncached, UncachedAt
    <2>3. late' <=> (late \/ (page \in DOMAIN c /\ c[page] # leaf))
      BY <1>3, <1>5 DEF Tree
    <2> HIDE DEF c, d, page, leaf
    <2>4. /\ DOMAIN d = DOMAIN c \cup {page} /\ d[page] = leaf
          /\ \A p \in DOMAIN c : p # page => d[p] = c[p]
      BY <2>1 DEF IsPut
    <2>5. ~late' => \A p \in DOMAIN c : d[p] = c[p]
      BY <2>3, <2>4
    <2>6. Entries(Tree) = (IF Tree.prim = 0 THEN NoEntries
                           ELSE IF Tree.prim \in DOMAIN c THEN c[Tree.prim].entries
                           ELSE disk.node[Tree.prim].entries)
      BY DEF Entries, Node, InCache, c
    <2>7. Entries(Tree)' = (IF Tree.prim = 0 THEN NoEntries
                            ELSE IF Tree.prim \in DOMAIN d THEN d[Tree.prim].entries
                            ELSE disk.node[Tree.prim].entries)
      BY <1>2, <2>1 DEF Entries, Node, InCache, d
    <2>8. CASE Tree.prim # page
      BY <2>1, <2>4, <2>5, <2>6, <2>7, <2>8 DEF c, d
    <2>9. CASE Tree.prim = page /\ page \notin DOMAIN c
      BY <2>1, <2>2, <2>4, <2>5, <2>6, <2>7, <2>9 DEF c, d
    <2>10. CASE Tree.prim = page /\ page \in DOMAIN c
      <3>1. Tree.prim # 0 => Entries(Tree) = c[page].entries /\ Entries(Tree)' = leaf.entries
        BY <2>4, <2>6, <2>7, <2>10
      <3>2. Tree.prim = 0 => Entries(Tree)' = Entries(Tree)
        BY <2>6, <2>7
      <3>3. c[page] = leaf \/ late'
        BY <2>3, <2>10
      <3> QED BY <1>5, <2>1, <2>4, <2>5, <3>1, <3>2, <3>3 DEF c, d, leaf
    <2> QED BY <2>8, <2>9, <2>10
  <1> QED BY <1>4, <1>5

-----------------------------------------------------------------------------
\* Every step keeps TreeLeads.
LEMMA LeadsNext ==
  ASSUME IInv, Next
  PROVE  TreeLeads'
  <1> USE DEF IInv
  <1>0. ASSUME UNCHANGED <<file, version, before, pc, todo, ptrs>>,
               ~raced' => ~raced, ~late' => ~late, cached' # 0 /\ ~raced' /\ ~late' => cached # 0,
               cached' # 0 /\ ~raced' /\ ~late' => Entries(Tree)' = Entries(Tree)
        PROVE  TreeLeads'
    <2> SUFFICES ASSUME ~raced', ~late', cached' # 0, NEW k \in Keys
                 PROVE  LeadsAt(Entries(Tree)[k], k)'
      BY DEF TreeLeads
    <2>1. LeadsAt(Entries(Tree)[k], k)
      BY <1>0 DEF TreeLeads
    <2>2. Entries(Tree)'[k] = Entries(Tree)[k]
      BY <1>0
    <2> QED BY <1>0, <2>1, <2>2 DEF LeadsAt, Points, Waiting
  <1>1. ASSUME NEW keys \in SUBSET Keys, AppendRecords(keys) PROVE TreeLeads'
    <2>1. /\ Began /\ Grown(keys, writes + 2) /\ pc' = "apply"
          /\ \A k \in Keys : version'[k] = IF k \in keys THEN writes + 2 ELSE version[k]
      BY <1>1, AppendRecordsIs
    <2>2. UNCHANGED <<before, trees, cached, disk>> /\ cached # 0 /\ before = version
      BY <1>1, <2>1 DEF AppendRecords, index, Control, Began
    <2>3. Waiting' = keys
      BY <2>1 DEF Waiting, Grown
    <2>4. Entries(Tree)' = Entries(Tree)
      BY <2>2, EntriesKept
    <2> SUFFICES ASSUME NEW k \in Keys
                 PROVE  LeadsAt(Entries(Tree)[k], k)'
      BY DEF TreeLeads
    <2>5. Points(Entries(Tree)[k], k, version[k])
      BY <2>1, <2>2 DEF TreeLeads, LeadsAt, Began
    <2> DEFINE e == Entries(Tree)[k]
    <2>7. e' = e
      BY <2>4
    <2> HIDE DEF e
    <2>8. k \notin keys => version'[k] = version[k]
      BY <2>1
    <2>9. e \in DOMAIN file /\ file[e] = <<k, version[k]>> => e \in DOMAIN file' /\ file'[e] = <<k, version[k]>>
      BY <2>1 DEF Grown
    <2>10. Points(e, k, version[k])
      BY <2>5 DEF e
    <2>11. LeadsAt(e, k)'
      BY <2>1, <2>2, <2>3, <2>7, <2>8, <2>9, <2>10 DEF LeadsAt, Points
    <2> QED BY <2>11 DEF e
  <1>2. ASSUME NEW k \in Keys, ShadowDelete(k) PROVE TreeLeads'
    <2>1. /\ k \in todo /\ pc = "apply" /\ cached # 0 /\ ~raced /\ cached' = cached
          /\ [change.entries EXCEPT ![k] = 0] \in [Keys -> Nat]
          /\ Replaced(Tree, trees'[cached], [change.entries EXCEPT ![k] = 0])
          /\ Waiting' = Waiting /\ todo' = {k} /\ pc' = "insert" /\ change.page # 0
      BY <1>2, DeleteIs
    <2>2. UNCHANGED <<file, version, before, raced, late>> /\ k \in Waiting
      BY <1>2, <2>1 DEF ShadowDelete, storage, Control
    <2>3. ~late => Entries(Tree)' = [Entries(Tree) EXCEPT ![k] = 0]
      BY <2>1, EntriesReplaced DEF ChangeInv
    <2>4. Entries(Tree) \in [Keys -> Nat]
      BY <2>1, TreeType
    <2> SUFFICES ASSUME ~raced', ~late', NEW l \in Keys
                 PROVE  LeadsAt(Entries(Tree)[l], l)'
      BY DEF TreeLeads
    <2>5. LeadsAt(Entries(Tree)[l], l)
      BY <2>1, <2>2 DEF TreeLeads
    <2>6. CASE l = k
      <3>1. Entries(Tree)'[l] = 0
        BY <2>2, <2>3, <2>4, <2>6
      <3> QED BY <2>1, <2>2, <2>6, <3>1 DEF LeadsAt, Points
    <2>7. CASE l # k
      <3>1. Entries(Tree)'[l] = Entries(Tree)[l]
        BY <2>2, <2>3, <2>4, <2>7
      <3> QED BY <2>1, <2>2, <2>5, <2>7, <3>1 DEF LeadsAt, Points
    <2> QED BY <2>6, <2>7
  <1>3. ASSUME NEW k \in Keys, ShadowInsert(k) PROVE TreeLeads'
    <2>1. /\ k \in todo /\ cached # 0 /\ ~raced /\ cached' = cached
          /\ Replaced(Tree, trees'[cached], [change.entries EXCEPT ![k] = ptrs[k]])
          /\ Waiting' = Waiting \ {k} /\ todo' = Waiting'
          /\ \/ Waiting' = {} /\ pc' = "commit"
             \/ Waiting' # {} /\ pc = "refill" /\ pc' = "refill"
             \/ Waiting' # {} /\ pc \in {"apply", "insert"} /\ pc' = "apply"
          /\ change.page # 0
      BY <1>3, InsertIs
    <2>2. UNCHANGED <<file, version, before, raced, late>> /\ pc \in {"apply", "insert", "refill"}
      BY <1>3 DEF ShadowInsert, storage
    <2>3. ~late => Entries(Tree)' = [Entries(Tree) EXCEPT ![k] = ptrs[k]]
      BY <2>1, EntriesReplaced DEF ChangeInv
    <2>4. Entries(Tree) \in [Keys -> Nat]
      BY <2>1, TreeType
    <2>5. k \in Waiting /\ (pc = "insert" => todo = {k})
      BY <2>1, <2>2 DEF Control
    <2> SUFFICES ASSUME ~raced', ~late', NEW l \in Keys
                 PROVE  LeadsAt(Entries(Tree)[l], l)'
      BY DEF TreeLeads
    <2>6. LeadsAt(Entries(Tree)[l], l)
      BY <2>1, <2>2 DEF TreeLeads
    <2>7. CASE l = k
      <3>1. Entries(Tree)'[l] = ptrs[k]
        BY <2>2, <2>3, <2>4, <2>7
      <3>2. ptrs[k] \in DOMAIN file /\ file[ptrs[k]] = <<k, version[k]>> /\ version[k] # 0
        BY <2>5 DEF Versions
      <3>3. l \notin Waiting' /\ pc' \in {"commit", "refill", "apply"}
        BY <2>1, <2>7
      <3> QED BY <2>2, <2>7, <3>1, <3>2, <3>3 DEF LeadsAt, Points
    <2>8. CASE l # k
      <3>1. Entries(Tree)'[l] = Entries(Tree)[l]
        BY <2>2, <2>3, <2>4, <2>8
      <3>2. l \in Waiting' <=> l \in Waiting
        BY <2>1, <2>8
      <3>3. l \notin Waiting' => Points(Entries(Tree)[l], l, version[l])
        BY <2>2, <2>6, <3>2 DEF LeadsAt
      <3>4. l \in Waiting' /\ pc' = "apply" => Points(Entries(Tree)[l], l, before[l])
        BY <2>1, <2>5, <2>6, <2>8, <3>2 DEF LeadsAt
      <3>5. l \in Waiting' /\ pc' = "refill" => Entries(Tree)[l] = 0
        BY <2>1, <2>6, <3>2 DEF LeadsAt
      <3> QED BY <2>1, <2>2, <3>1, <3>3, <3>4, <3>5 DEF LeadsAt, Points
    <2> QED BY <2>7, <2>8
  <1>4. ASSUME ShadowCommit PROVE TreeLeads'
    <2>1. cached # 0 /\ ~raced /\ CommitTree(Tree, trees'[cached]) /\ CommitFile(Tree)
      BY <1>4, CommitIs
    <2>2. UNCHANGED <<file, version, raced, late, cached>> /\ pc' = "idle" /\ pc = "commit"
      BY <1>4 DEF ShadowCommit
    <2>3. Entries(Tree)' = Entries(Tree)
      BY <2>1, <2>2, TreesParts, EntriesCommitted
    <2> SUFFICES ASSUME ~late', NEW k \in Keys PROVE LeadsAt(Entries(Tree)[k], k)'
      BY DEF TreeLeads
    <2>4. Points(Entries(Tree)[k], k, version[k])
      BY <2>1, <2>2 DEF TreeLeads, LeadsAt
    <2> QED BY <2>2, <2>3, <2>4 DEF LeadsAt, Points
  <1>5. ASSUME Clear PROVE TreeLeads'
    <2>1. Began /\ pc' = "remove"
      BY <1>5, ClearIs
    <2>2. UNCHANGED <<file, before, trees, cached, disk>> /\ cached # 0 /\ before = version
      BY <1>5, <2>1 DEF Clear, index, Control, Began
    <2>3. Entries(Tree)' = Entries(Tree)
      BY <2>2, EntriesKept
    <2> SUFFICES ASSUME NEW k \in Keys PROVE LeadsAt(Entries(Tree)[k], k)'
      BY DEF TreeLeads
    <2>4. Points(Entries(Tree)[k], k, before[k])
      BY <2>1, <2>2 DEF TreeLeads, LeadsAt, Began
    <2> QED BY <2>1, <2>2, <2>3, <2>4 DEF LeadsAt, Points
  <1>6. ASSUME Compact PROVE TreeLeads'
    <2> DEFINE e == Entries(Tree)
    <2>1. /\ Began /\ pc' = "remove" /\ cached # 0
          /\ Squeezed(e, {k \in Keys : e[k] # 0})
      BY <1>6, CompactRecordsIs
    <2>2. UNCHANGED <<before, trees, cached, disk>> /\ before = version
      BY <1>6, <2>1 DEF Compact, index, Control, Began
    <2>3. Entries(Tree)' = Entries(Tree)
      BY <2>2, EntriesKept
    <2> SUFFICES ASSUME NEW k \in Keys PROVE LeadsAt(Entries(Tree)[k], k)'
      BY DEF TreeLeads
    <2>4. Points(e[k], k, before[k])
      BY <2>1, <2>2 DEF TreeLeads, LeadsAt, Began
    <2>5. Waiting' = {} => e[k] = 0
      BY <2>1 DEF Squeezed, Waiting
    <2>6. e[k] = 0 => before[k] = 0
      BY <2>4 DEF Points, Types
    <2> HIDE DEF e
    <2>7. Entries(Tree)'[k] = e[k]
      BY <2>3 DEF e
    <2> QED BY <2>1, <2>2, <2>5, <2>6, <2>7 DEF LeadsAt, Points
  <1>7. ASSUME RemoveIndex PROVE TreeLeads'
    BY <1>7, RemoveIndexIs DEF TreeLeads
  <1>8. ASSUME Truncate PROVE TreeLeads'
    <2>1. UNCHANGED <<cached, raced>> /\ pc = "truncate"
      BY <1>8 DEF Truncate, index
    <2> QED BY <2>1 DEF TreeLeads, Control
  <1>9. ASSUME Reopen PROVE TreeLeads'
    <2>1. /\ disk = EmptyFile /\ disk' = disk /\ pc = "reopen"
          /\ \/ Opened
             \/ cached # 0 /\ trees' = trees /\ cached' = cached
          /\ \/ Waiting = {} /\ pc' = "idle"
             \/ Waiting # {} /\ pc' \in {"stop", "refill"}
      BY <1>9, ReopenIs
    <2>2. UNCHANGED <<version, ptrs, raced>>
      BY <1>9 DEF Reopen
    <2>3. Waiting' = Waiting /\ \A k \in Keys : version[k] # 0 => k \in Waiting
      BY <2>1, <2>2 DEF Waiting, Versions, Clearing
    <2>4. ~raced' => Entries(Tree)' = NoEntries
      <3>1. CASE Opened
        BY <2>1, <3>1, EntriesOpened
      <3>2. CASE cached # 0 /\ trees' = trees /\ cached' = cached
        <4>1. ~raced => Tree.prim = 0
          BY <2>1, <3>2 DEF Control
        <4>2. ~raced => Entries(Tree) = NoEntries
          BY <4>1 DEF Entries
        <4> QED BY <2>1, <2>2, <3>2, <4>2, EntriesKept
      <3> QED BY <2>1, <3>1, <3>2
    <2> SUFFICES ASSUME ~raced', NEW k \in Keys PROVE LeadsAt(Entries(Tree)[k], k)'
      BY DEF TreeLeads
    <2>5. Entries(Tree)'[k] = 0
      BY <2>4 DEF NoEntries
    <2>6. k \notin Waiting => version'[k] = 0
      BY <2>2, <2>3
    <2> QED BY <2>1, <2>3, <2>5, <2>6 DEF LeadsAt, Points
  <1>10. ASSUME NEW r \in Readers, NEW k \in Keys, GetIndex(r, k) PROVE TreeLeads'
    <2>1. /\ UNCHANGED <<file, version, before, pc, todo, ptrs, disk>> /\ late' = late
      BY <1>10 DEF GetIndex, storage, writer
    <2>2. Opened \/ (cached # 0 /\ trees' = trees /\ cached' = cached)
      BY <1>10, GetIndexIs
    <2>3. ~raced' => ~raced
      BY <1>10, RacedIs
    <2>4. CASE cached # 0 /\ trees' = trees /\ cached' = cached
      <3>1. Entries(Tree)' = Entries(Tree)
        BY <2>1, <2>4, EntriesKept
      <3> QED BY <1>0, <2>1, <2>3, <2>4, <3>1
    <2>5. CASE Opened
      <3>1. cached = 0 /\ pc \in {"truncate", "reopen"}
        BY <2>5 DEF Opened, Control
      <3>2. pc = "truncate" => raced'
        BY <1>10, <3>1, RacedIs
      <3> SUFFICES ASSUME ~raced', NEW l \in Keys PROVE LeadsAt(Entries(Tree)[l], l)'
        BY DEF TreeLeads
      <3> QED BY <2>1, <3>1, <3>2 DEF LeadsAt
    <2> QED BY <2>2, <2>4, <2>5
  <1>11. ASSUME NEW r \in Readers, CacheNode(r) PROVE TreeLeads'
    <2>1. UNCHANGED <<file, version, before, pc, todo, ptrs, cached>> /\ raced' = raced
      BY <1>11 DEF CacheNode, storage, writer
    <2>2. ~late' => ~late
      BY <1>11 DEF CacheNode
    <2>3. cached # 0 /\ ~raced /\ ~late' => Entries(Tree)' = Entries(Tree)
      BY <1>11, EntriesCached
    <2> QED BY <1>0, <2>1, <2>2, <2>3
  <1>12. ASSUME Still PROVE TreeLeads'
    <2>1. UNCHANGED <<file, version, before, pc, todo, ptrs, cached, trees, disk>> /\ raced' = raced /\ late' = late
      BY <1>12 DEF Still, storage, index
    <2>2. Entries(Tree)' = Entries(Tree)
      BY <2>1, EntriesKept
    <2> QED BY <1>0, <2>1, <2>2
  <1>13. ASSUME ClaimLeaf PROVE TreeLeads'
    <2>1. ClaimedStep
      BY <1>13, ClaimLeafIs
    <2>2. UNCHANGED <<file, version, before, pc, todo, ptrs, cached>> /\ raced' = raced /\ late' = late
      BY <2>1 DEF ClaimedStep, storage
    <2>3. Entries(Tree)' = Entries(Tree)
      BY <2>1, EntriesClaimed
    <2> QED BY <1>0, <2>2, <2>3
  <1> QED BY <1>1, <1>2, <1>3, <1>4, <1>5, <1>6, <1>7, <1>8, <1>9, <1>10, <1>11, <1>12, <1>13, Steps

\* Every step keeps DiskLeads.
LEMMA DiskLeadsNext ==
  ASSUME IInv, Next
  PROVE  DiskLeads'
  <1> USE DEF IInv
  <1>0. ASSUME UNCHANGED <<file, version, pc, disk>>, ~raced' => ~raced, ~late' => ~late
        PROVE  DiskLeads'
    BY <1>0 DEF DiskLeads, Leads, Entries, Node, InCache
  <1>1. ASSUME NEW keys \in SUBSET Keys, AppendRecords(keys) PROVE DiskLeads'
    BY <1>1 DEF AppendRecords, DiskLeads
  <1>2. ASSUME NEW k \in Keys, ShadowDelete(k) PROVE DiskLeads'
    BY <1>2 DEF ShadowDelete, DiskLeads
  <1>3. ASSUME NEW k \in Keys, ShadowInsert(k) PROVE DiskLeads'
    <2>1. pc' # "idle"
      BY <1>3, InsertIs
    <2> QED BY <2>1 DEF DiskLeads
  <1>4. ASSUME ShadowCommit PROVE DiskLeads'
    <2>1. cached # 0 /\ ~raced /\ CommitFile(Tree)
      BY <1>4, CommitIs
    <2>2. UNCHANGED <<file, version, late>> /\ pc = "commit"
      BY <1>4 DEF ShadowCommit
    <2> SUFFICES ASSUME ~late PROVE Leads(OpenTree(disk))'
      BY <2>2 DEF DiskLeads
    <2>3. /\ Tree.prim # 0 /\ Tree.prim \in DOMAIN Tree.cache
          /\ Tree.cache[Tree.prim].gen = writes
      BY <2>2 DEF CommitDirty
    <2>4. disk'.prim = Tree.prim /\ disk'.node[Tree.prim] = Tree.cache[Tree.prim]
      BY <2>1, <2>3 DEF CommitFile
    <2>5. OpenTree(disk').prim = disk'.prim /\ DOMAIN OpenTree(disk').cache = {}
      BY DEF OpenTree
    <2>6. Entries(OpenTree(disk))' = Entries(Tree)
      BY <2>3, <2>4, <2>5 DEF Entries, Node, InCache
    <2>7. \A k \in Keys : Points(Entries(Tree)[k], k, version[k])
      BY <2>1, <2>2 DEF TreeLeads, LeadsAt
    <2> QED BY <2>2, <2>6, <2>7 DEF Leads, Points
  <1>5. ASSUME Clear \/ Compact \/ RemoveIndex \/ Truncate PROVE DiskLeads'
    BY <1>5 DEF Clear, Compact, RemoveIndex, Truncate, DiskLeads
  <1>6. ASSUME Reopen PROVE DiskLeads'
    <2>1. /\ disk = EmptyFile /\ disk' = disk /\ pc = "reopen"
          /\ Waiting = {} \/ pc' # "idle"
      BY <1>6, ReopenIs
    <2>2. version' = version
      BY <1>6 DEF Reopen
    <2>3. Waiting = {} => \A k \in Keys : version[k] = 0
      BY <2>1 DEF Versions, Clearing
    <2>4. Entries(OpenTree(disk))' = NoEntries
      BY <2>1 DEF Entries, OpenTree, EmptyFile
    <2> SUFFICES ASSUME pc' = "idle" PROVE Leads(OpenTree(disk))'
      BY DEF DiskLeads
    <2> QED BY <2>1, <2>2, <2>3, <2>4 DEF Leads, NoEntries
  <1>7. ASSUME NEW r \in Readers, NEW k \in Keys, GetIndex(r, k) PROVE DiskLeads'
    <2>1. UNCHANGED <<file, version, pc, disk>> /\ late' = late
      BY <1>7 DEF GetIndex, storage, writer
    <2>2. ~raced' => ~raced
      BY <1>7, RacedIs
    <2> QED BY <1>0, <2>1, <2>2
  <1>8. ASSUME NEW r \in Readers, CacheNode(r) PROVE DiskLeads'
    <2>1. UNCHANGED <<file, version, pc, disk>> /\ raced' = raced
      BY <1>8 DEF CacheNode, storage, writer
    <2>2. ~late' => ~late
      BY <1>8 DEF CacheNode
    <2> QED BY <1>0, <2>1, <2>2
  <1>9. ASSUME Still PROVE DiskLeads'
    BY <1>0, <1>9 DEF Still, storage
  <1>10. ASSUME ClaimLeaf PROVE DiskLeads'
    BY <1>0, <1>10 DEF ClaimLeaf, storage
  <1> QED BY <1>1, <1>2, <1>3, <1>4, <1>5, <1>6, <1>7, <1>8, <1>9, <1>10, Steps

\* Every step keeps CommitDirty.
LEMMA CommitDirtyNext ==
  ASSUME IInv, Next
  PROVE  CommitDirty'
  <1> USE DEF IInv
  <1>1. ASSUME NEW keys \in SUBSET Keys, AppendRecords(keys) PROVE CommitDirty'
    BY <1>1 DEF AppendRecords, CommitDirty
  <1>2. ASSUME NEW k \in Keys, ShadowDelete(k) PROVE CommitDirty'
    BY <1>2 DEF ShadowDelete, CommitDirty
  <1>3. ASSUME NEW k \in Keys, ShadowInsert(k) PROVE CommitDirty'
    <2>1. /\ cached' = cached /\ Replaced(Tree, trees'[cached], [change.entries EXCEPT ![k] = ptrs[k]])
          /\ change.page # 0
      BY <1>3, InsertIs
    <2>2. writes' = writes /\ late' = late
      BY <1>3 DEF ShadowInsert
    <2> QED BY <2>1, <2>2, EntriesReplaced DEF CommitDirty
  <1>4. ASSUME ShadowCommit \/ Clear \/ Compact \/ RemoveIndex \/ Truncate PROVE CommitDirty'
    BY <1>4 DEF ShadowCommit, Clear, Compact, RemoveIndex, Truncate, CommitDirty
  <1>5. ASSUME Reopen PROVE CommitDirty'
    <2>1. pc' # "commit"
      BY <1>5, ReopenIs
    <2> QED BY <2>1 DEF CommitDirty
  <1>6. ASSUME NEW r \in Readers, NEW k \in Keys, GetIndex(r, k) PROVE CommitDirty'
    <2>1. UNCHANGED <<pc, writes>> /\ late' = late
      BY <1>6 DEF GetIndex, writer
    <2>2. pc = "commit" => cached # 0
      BY DEF Control
    <2>3. cached # 0 => trees' = trees /\ cached' = cached
      BY <1>6 DEF GetIndex, index
    <2> QED BY <2>1, <2>2, <2>3 DEF CommitDirty, Tree
  <1>7. ASSUME NEW r \in Readers, CacheNode(r) PROVE CommitDirty'
    <2>1. UNCHANGED <<pc, writes>>
      BY <1>7 DEF CacheNode, writer
    <2>2. ~late' => ~late
      BY <1>7 DEF CacheNode
    <2> SUFFICES ASSUME pc = "commit", ~late'
                 PROVE  /\ Tree.prim' # 0 /\ Tree.prim' \in DOMAIN Tree.cache'
                        /\ Tree.cache'[Tree.prim'].gen = writes
      BY <2>1 DEF CommitDirty
    <2>3. /\ Tree.prim # 0 /\ Tree.prim \in DOMAIN Tree.cache
          /\ Tree.cache[Tree.prim].gen = writes /\ cached # 0 /\ ~raced
      BY <2>2 DEF CommitDirty, Control
    <2>4. /\ Tree.prim' = Tree.prim /\ DOMAIN Tree.cache \subseteq DOMAIN Tree.cache'
          /\ \A p \in DOMAIN Tree.cache : Tree.cache'[p] = Tree.cache[p]
      BY <1>7, <2>3, EntriesCached
    <2> QED BY <2>3, <2>4
  <1>8. ASSUME Still PROVE CommitDirty'
    BY <1>8 DEF Still, index, CommitDirty, Tree
  <1>9. ASSUME ClaimLeaf PROVE CommitDirty'
    <2>1. pc' # "commit"
      BY <1>9 DEF ClaimLeaf
    <2> QED BY <2>1 DEF CommitDirty
  <1> QED BY <1>1, <1>2, <1>3, <1>4, <1>5, <1>6, <1>7, <1>8, <1>9, Steps

\* Every step keeps Present.
LEMMA PresentNext ==
  ASSUME IInv, Next
  PROVE  Present'
  <1> USE DEF IInv
  <1>0. ASSUME UNCHANGED <<file, version, before, pc, todo, ptrs>>,
               ~raced' => ~raced, cached' # 0 /\ ~Clearing' => cached # 0,
               cached' # 0 /\ ~raced' /\ ~Clearing' => Entries(Tree)' = Entries(Tree)
        PROVE  Present'
    <2> SUFFICES ASSUME ~raced', cached' # 0, ~Clearing', NEW k \in Keys
                 PROVE  PresentAt(Entries(Tree)[k], k)'
      BY DEF Present
    <2>1. PresentAt(Entries(Tree)[k], k)
      BY <1>0 DEF Present, Clearing
    <2>2. Entries(Tree)'[k] = Entries(Tree)[k]
      BY <1>0
    <2> QED BY <1>0, <2>1, <2>2 DEF PresentAt, Waiting
  <1>a. 0 \notin DOMAIN file
    BY DEF Types
  <1>1. ASSUME NEW keys \in SUBSET Keys, AppendRecords(keys) PROVE Present'
    <2>1. /\ Began /\ Grown(keys, writes + 2) /\ pc' = "apply"
          /\ \A k \in Keys : version'[k] = IF k \in keys THEN writes + 2 ELSE version[k]
      BY <1>1, AppendRecordsIs
    <2>2. UNCHANGED <<before, trees, cached, disk>> /\ cached # 0 /\ before = version /\ Waiting = {}
      BY <1>1, <2>1 DEF AppendRecords, index, Control, Began
    <2>3. Waiting' = keys
      BY <2>1 DEF Waiting, Grown
    <2>4. Entries(Tree)' = Entries(Tree)
      BY <2>2, EntriesKept
    <2> SUFFICES ASSUME NEW k \in Keys PROVE PresentAt(Entries(Tree)[k], k)'
      BY DEF Present
    <2> DEFINE e == Entries(Tree)[k]
    <2>5. (version[k] # 0 => e # 0) /\ (e = 0 \/ e \in DOMAIN file)
      BY <2>1, <2>2 DEF Present, PresentAt, Began, Clearing
    <2>6. e \in DOMAIN file => e \in DOMAIN file'
      <3> HIDE DEF e
      <3> QED BY <2>1 DEF Grown
    <2>7. e' = e
      BY <2>4
    <2> HIDE DEF e
    <2>8. k \notin keys => version'[k] = version[k]
      BY <2>1
    <2>9. PresentAt(e, k)'
      BY <2>2, <2>3, <2>5, <2>6, <2>7, <2>8 DEF PresentAt
    <2> QED BY <2>9 DEF e
  <1>2. ASSUME NEW k \in Keys, ShadowDelete(k) PROVE Present'
    <2>1. /\ k \in todo /\ pc = "apply" /\ cached # 0 /\ ~raced /\ cached' = cached
          /\ Replaced(Tree, trees'[cached], [change.entries EXCEPT ![k] = 0])
          /\ Waiting' = Waiting /\ todo' = {k} /\ pc' = "insert" /\ change.page # 0
      BY <1>2, DeleteIs
    <2>2. UNCHANGED <<file, version, before>> /\ k \in Waiting
      BY <1>2, <2>1 DEF ShadowDelete, storage, Control
    <2>3. \/ Entries(Tree)' = [change.entries EXCEPT ![k] = 0]
          \/ Full(Tree.cache[change.page]) /\ Entries(Tree)' = Tree.cache[change.page].entries
      BY <2>1, EntriesReplaced
    <2>4. change.entries \in [Keys -> Nat]
      BY DEF Types
    <2> SUFFICES ASSUME NEW l \in Keys PROVE PresentAt(Entries(Tree)[l], l)'
      BY DEF Present
    <2>5. PresentAt(change.entries[l], l)
      BY <2>1 DEF ChangeInv
    <2>6. CASE Full(Tree.cache[change.page]) /\ Entries(Tree)' = Tree.cache[change.page].entries
      <3>1. Entries(Tree)'[l] \in DOMAIN file
        BY <2>6 DEF Full
      <3> QED BY <1>a, <2>2, <3>1 DEF PresentAt
    <2>7. CASE Entries(Tree)' = [change.entries EXCEPT ![k] = 0] /\ l = k
      <3>1. Entries(Tree)'[l] = 0
        BY <2>4, <2>7
      <3> QED BY <2>1, <2>2, <2>7, <3>1 DEF PresentAt
    <2>8. CASE Entries(Tree)' = [change.entries EXCEPT ![k] = 0] /\ l # k
      <3>1. Entries(Tree)'[l] = change.entries[l]
        BY <2>4, <2>8
      <3> QED BY <2>1, <2>2, <2>5, <2>8, <3>1 DEF PresentAt
    <2> QED BY <2>3, <2>6, <2>7, <2>8
  <1>3. ASSUME NEW k \in Keys, ShadowInsert(k) PROVE Present'
    <2>1. /\ k \in todo /\ cached # 0 /\ ~raced /\ cached' = cached /\ change.page # 0
          /\ Replaced(Tree, trees'[cached], [change.entries EXCEPT ![k] = ptrs[k]])
          /\ Waiting' = Waiting \ {k} /\ todo' = Waiting'
          /\ \/ pc' \in {"commit", "refill"}
             \/ pc \in {"apply", "insert"} /\ pc' = "apply"
      BY <1>3, InsertIs
    <2>2. UNCHANGED <<file, version, before>> /\ pc \in {"apply", "insert", "refill"}
      BY <1>3 DEF ShadowInsert, storage
    <2>3. \/ Entries(Tree)' = [change.entries EXCEPT ![k] = ptrs[k]]
          \/ Full(Tree.cache[change.page]) /\ Entries(Tree)' = Tree.cache[change.page].entries
      BY <2>1, EntriesReplaced
    <2>4. change.entries \in [Keys -> Nat]
      BY DEF Types
    <2>5. k \in Waiting /\ (pc = "insert" => todo = {k})
      BY <2>1, <2>2 DEF Control
    <2> SUFFICES ASSUME NEW l \in Keys PROVE PresentAt(Entries(Tree)[l], l)'
      BY DEF Present
    <2>6. PresentAt(change.entries[l], l)
      BY <2>1 DEF ChangeInv
    <2>7. CASE Entries(Tree)' = [change.entries EXCEPT ![k] = ptrs[k]] /\ l = k
      <3>1. Entries(Tree)'[l] = ptrs[k]
        BY <2>4, <2>7
      <3>2. ptrs[k] \in DOMAIN file /\ ptrs[k] # 0
        BY <1>a, <2>5 DEF Versions
      <3> QED BY <2>2, <3>1, <3>2 DEF PresentAt
    <2>8. CASE Entries(Tree)' = [change.entries EXCEPT ![k] = ptrs[k]] /\ l # k
      <3>1. Entries(Tree)'[l] = change.entries[l]
        BY <2>4, <2>8
      <3>2. l \in Waiting' <=> l \in Waiting
        BY <2>1, <2>8
      <3>3. pc' = "apply" => pc = "apply" \/ (pc = "insert" /\ l \notin todo)
        BY <2>1, <2>5, <2>8
      <3>4. pc' # "insert"
        BY <2>1
      <3> QED BY <2>2, <2>6, <3>1, <3>2, <3>3, <3>4 DEF PresentAt
    <2>9. CASE Full(Tree.cache[change.page]) /\ Entries(Tree)' = Tree.cache[change.page].entries
      <3>1. Entries(Tree)'[l] \in DOMAIN file
        BY <2>9 DEF Full
      <3> QED BY <1>a, <2>2, <3>1 DEF PresentAt
    <2> QED BY <2>3, <2>7, <2>8, <2>9
  <1>4. ASSUME ShadowCommit PROVE Present'
    <2>1. cached # 0 /\ ~raced /\ CommitTree(Tree, trees'[cached]) /\ CommitFile(Tree)
      BY <1>4, CommitIs
    <2>2. UNCHANGED <<file, version, cached, ptrs>> /\ pc' = "idle" /\ pc = "commit"
      BY <1>4 DEF ShadowCommit
    <2>3. Entries(Tree)' = Entries(Tree) /\ Waiting' = Waiting
      BY <2>1, <2>2, TreesParts, EntriesCommitted DEF Waiting
    <2> SUFFICES ASSUME NEW k \in Keys PROVE PresentAt(Entries(Tree)[k], k)'
      BY DEF Present
    <2>4. PresentAt(Entries(Tree)[k], k)
      BY <2>1, <2>2 DEF Present, Clearing
    <2> QED BY <2>2, <2>3, <2>4 DEF PresentAt
  <1>5. ASSUME Clear \/ Compact \/ RemoveIndex \/ Truncate PROVE Present'
    <2>1. Clearing'
      BY <1>5 DEF Clear, Compact, RemoveIndex, Truncate, Clearing
    <2> QED BY <2>1 DEF Present
  <1>6. ASSUME Reopen PROVE Present'
    <2>1. /\ disk = EmptyFile /\ disk' = disk /\ pc = "reopen"
          /\ \/ Opened
             \/ cached # 0 /\ trees' = trees /\ cached' = cached
          /\ pc' \in {"idle", "stop", "refill"}
      BY <1>6, ReopenIs
    <2>2. UNCHANGED <<version, ptrs, raced>>
      BY <1>6 DEF Reopen
    <2>3. Waiting' = Waiting /\ \A k \in Keys : version[k] # 0 => k \in Waiting
      BY <2>1, <2>2 DEF Waiting, Versions, Clearing
    <2>4. ~raced' => Entries(Tree)' = NoEntries
      <3>1. CASE Opened
        BY <2>1, <3>1, EntriesOpened
      <3>2. CASE cached # 0 /\ trees' = trees /\ cached' = cached
        <4>1. ~raced => Tree.prim = 0
          BY <2>1, <3>2 DEF Control
        <4>2. ~raced => Entries(Tree) = NoEntries
          BY <4>1 DEF Entries
        <4> QED BY <2>1, <2>2, <3>2, <4>2, EntriesKept
      <3> QED BY <2>1, <3>1, <3>2
    <2> SUFFICES ASSUME ~raced', NEW k \in Keys PROVE PresentAt(Entries(Tree)[k], k)'
      BY DEF Present
    <2>5. Entries(Tree)'[k] = 0
      BY <2>4 DEF NoEntries
    <2> QED BY <2>1, <2>2, <2>3, <2>5 DEF PresentAt
  <1>7. ASSUME NEW r \in Readers, NEW k \in Keys, GetIndex(r, k) PROVE Present'
    <2>1. UNCHANGED <<file, version, before, pc, todo, ptrs, disk>>
      BY <1>7 DEF GetIndex, storage, writer
    <2>2. ~raced' => ~raced
      BY <1>7, RacedIs
    <2>3. ~Clearing' => cached # 0
      BY <2>1 DEF Clearing, Control
    <2>4. cached # 0 => trees' = trees /\ cached' = cached
      BY <1>7 DEF GetIndex, index
    <2>5. cached # 0 => Entries(Tree)' = Entries(Tree)
      BY <2>1, <2>4, EntriesKept
    <2> QED BY <1>0, <2>1, <2>2, <2>3, <2>5
  <1>8. ASSUME NEW r \in Readers, CacheNode(r) PROVE Present'
    <2>1. UNCHANGED <<file, version, before, pc, todo, ptrs, cached>> /\ raced' = raced
      BY <1>8 DEF CacheNode, storage, writer
    <2>2. CASE cached # 0 /\ ~raced /\ ~Clearing /\ Entries(Tree)' # Entries(Tree)
      <3>1. reader[r].tree = cached /\ Entries(Tree)' = reader[r].node.entries /\ reader[r].pc = "fetched"
        BY <1>8, <2>2, EntriesCached DEF CacheNode
      <3>2. Full(reader[r].node)
        BY <2>2, <3>1 DEF Uncached, UncachedAt
      <3> SUFFICES ASSUME NEW k \in Keys PROVE PresentAt(Entries(Tree)[k], k)'
        BY DEF Present
      <3>3. Entries(Tree)'[k] \in DOMAIN file
        BY <3>1, <3>2 DEF Full
      <3> QED BY <1>a, <2>1, <3>3 DEF PresentAt
    <2>3. CASE cached # 0 /\ ~raced /\ ~Clearing => Entries(Tree)' = Entries(Tree)
      BY <1>0, <2>1, <2>3 DEF Clearing
    <2> QED BY <2>2, <2>3
  <1>9. ASSUME Still PROVE Present'
    <2>1. UNCHANGED <<file, version, before, pc, todo, ptrs, cached, trees, disk>> /\ raced' = raced
      BY <1>9 DEF Still, storage, index
    <2>2. Entries(Tree)' = Entries(Tree)
      BY <2>1, EntriesKept
    <2> QED BY <1>0, <2>1, <2>2
  <1>10. ASSUME ClaimLeaf PROVE Present'
    <2>1. ClaimedStep
      BY <1>10, ClaimLeafIs
    <2>2. UNCHANGED <<file, version, before, pc, todo, ptrs, cached>> /\ raced' = raced
      BY <2>1 DEF ClaimedStep, storage
    <2>3. Entries(Tree)' = Entries(Tree)
      BY <2>1, EntriesClaimed
    <2> QED BY <1>0, <2>2, <2>3
  <1> QED BY <1>1, <1>2, <1>3, <1>4, <1>5, <1>6, <1>7, <1>8, <1>9, <1>10, Steps

\* Every step keeps ChangeInv.
LEMMA ChangeNext ==
  ASSUME IInv, Next
  PROVE  ChangeInv'
  <1> USE DEF IInv
  <1>0. ASSUME UNCHANGED <<file, version, before, pc, todo, change, ptrs, writes, trees, cached, disk>>, late' <=> late,
               change.page # 0
        PROVE  ChangeInv'
    <2>1. Entries(Tree)' = Entries(Tree) /\ Tree' = Tree
      BY <1>0, EntriesKept
    <2>2. (\A k \in Keys : PresentAt(change.entries[k], k))' <=> \A k \in Keys : PresentAt(change.entries[k], k)
      BY <1>0 DEF PresentAt, Waiting
    <2>3. ClaimedPage' <=> ClaimedPage
      BY <1>0, <2>1 DEF ClaimedPage, Ready, Full
    <2> QED BY <1>0, <2>1, <2>2, <2>3 DEF ChangeInv
  <1>a. ASSUME change'.page = 0 PROVE ChangeInv'
    BY <1>a DEF ChangeInv
  <1>b. ASSUME change' = change, pc \notin {"apply", "insert", "refill"} PROVE ChangeInv'
    BY <1>a, <1>b DEF ChangeInv
  <1>c. NoChange.page = 0
    BY DEF NoChange
  <1>1. ASSUME NEW keys \in SUBSET Keys, AppendRecords(keys) PROVE ChangeInv'
    BY <1>1, <1>b DEF AppendRecords, Begin
  <1>2. ASSUME NEW k \in Keys, ShadowDelete(k) PROVE ChangeInv'
    BY <1>2, <1>a, <1>c, DeleteIs
  <1>3. ASSUME NEW k \in Keys, ShadowInsert(k) PROVE ChangeInv'
    BY <1>3, <1>a, <1>c, InsertIs
  <1>4. ASSUME ShadowCommit \/ Clear \/ Compact \/ RemoveIndex \/ Truncate \/ Reopen PROVE ChangeInv'
    <2>1. ShadowCommit => change' = change /\ pc = "commit"
      BY DEF ShadowCommit
    <2>2. Clear => change' = change /\ pc = "idle"
      BY DEF Clear, Begin
    <2>3. Compact => change' = change /\ pc = "idle"
      BY DEF Compact, Begin
    <2>4. RemoveIndex => change' = change /\ pc = "remove"
      BY DEF RemoveIndex
    <2>5. Truncate => change' = change /\ pc = "truncate"
      BY DEF Truncate
    <2>6. Reopen => change' = change /\ pc = "reopen"
      BY DEF Reopen
    <2>7. change' = change /\ pc \notin {"apply", "insert", "refill"}
      BY <1>4, <2>1, <2>2, <2>3, <2>4, <2>5, <2>6
    <2> QED BY <1>b, <2>7
  <1>5. ASSUME NEW r \in Readers, NEW k \in Keys, GetIndex(r, k) PROVE ChangeInv'
    <2>1. UNCHANGED <<file, version, before, pc, todo, change, ptrs, writes, disk>> /\ late' = late
      BY <1>5 DEF GetIndex, storage, writer
    <2> SUFFICES ASSUME change.page # 0 PROVE ChangeInv'
      BY <1>a, <2>1
    <2>2. cached # 0
      BY DEF ChangeInv, Control
    <2>3. trees' = trees /\ cached' = cached
      BY <1>5, <2>2 DEF GetIndex, index
    <2> QED BY <1>0, <2>1, <2>3
  <1>6. ASSUME NEW r \in Readers, CacheNode(r) PROVE ChangeInv'
    <2>1. UNCHANGED <<file, version, before, pc, todo, change, ptrs, writes, disk, cached>> /\ raced' = raced
      BY <1>6 DEF CacheNode, storage, writer
    <2> SUFFICES ASSUME change.page # 0 PROVE ChangeInv'
      BY <1>a, <2>1
    <2>2. cached # 0 /\ ~raced /\ ~Clearing /\ pc \in {"apply", "insert", "refill"}
      BY DEF ChangeInv, Control, Clearing
    <2>3. ~late' => ~late
      BY <1>6 DEF CacheNode
    <2>4. (\A k \in Keys : PresentAt(change.entries[k], k))'
      <3>1. \A k \in Keys : PresentAt(change.entries[k], k)
        BY DEF ChangeInv
      <3> QED BY <2>1, <3>1 DEF PresentAt, Waiting
    <2>5. ~late' => Entries(Tree)' = Entries(Tree)
      BY <1>6, <2>2, EntriesCached
    <2>6. ClaimedPage /\ (~late => change.entries = Entries(Tree))
      BY DEF ChangeInv
    <2>7. /\ Tree.prim' = Tree.prim /\ Tree.sec' = Tree.sec /\ Tree.free' = Tree.free
          /\ Tree.next' = Tree.next /\ Tree.orphans' = Tree.orphans
          /\ DOMAIN Tree.cache \subseteq DOMAIN Tree.cache'
          /\ \A p \in DOMAIN Tree.cache :
                \/ Tree.cache'[p] = Tree.cache[p]
                \/ late' /\ reader[r].tree = cached /\ reader[r].pc = "fetched" /\ Tree.cache'[p] = reader[r].node
      <3> DEFINE i == reader[r].tree
                 page == reader[r].page
                 leaf == reader[r].node
      <3>1. /\ i \in DOMAIN trees /\ reader[r].pc = "fetched"
            /\ \A j \in DOMAIN trees : j # i => trees'[j] = trees[j]
            /\ trees'[i].prim = trees[i].prim /\ trees'[i].sec = trees[i].sec
            /\ trees'[i].free = trees[i].free /\ trees'[i].next = trees[i].next
            /\ trees'[i].orphans = trees[i].orphans
            /\ IsPut(trees'[i].cache, trees[i].cache, page, leaf)
        BY <1>6, CacheNodeIs
      <3>2. cached \in DOMAIN trees
        BY <2>2 DEF Types
      <3>3. late' <=> (late \/ (page \in DOMAIN trees[i].cache /\ trees[i].cache[page] # leaf))
        BY <1>6 DEF CacheNode, InCache
      <3> HIDE DEF i, page, leaf
      <3>4. CASE i # cached
        BY <2>1, <3>1, <3>2, <3>4 DEF Tree
      <3>5. CASE i = cached
        <4>1. /\ DOMAIN trees[i].cache \subseteq DOMAIN trees'[i].cache
              /\ \A p \in DOMAIN trees[i].cache :
                    \/ trees'[i].cache[p] = trees[i].cache[p]
                    \/ late' /\ trees'[i].cache[p] = leaf
          BY <3>1, <3>3 DEF IsPut
        <4> QED BY <2>1, <3>1, <3>5, <4>1 DEF Tree, i, leaf
      <3> QED BY <3>4, <3>5
    <2>8. Ready(Tree)'
      <3>1. Ready(Tree)
        BY <2>6 DEF ClaimedPage
      <3> QED BY <2>1, <2>7, <3>1 DEF Ready
    <2>9. Tree.cache'[change.page].gen = writes \/ (late' /\ Full(Tree.cache[change.page])')
      <3>1. /\ change.page \in DOMAIN Tree.cache
            /\ Tree.cache[change.page].gen = writes \/ (late /\ Full(Tree.cache[change.page]))
        BY <2>6 DEF ClaimedPage, Ready
      <3>2. CASE Tree.cache'[change.page] = Tree.cache[change.page]
        BY <2>1, <2>3, <3>1, <3>2 DEF Full
      <3>3. CASE late' /\ reader[r].tree = cached /\ reader[r].pc = "fetched"
                 /\ Tree.cache'[change.page] = reader[r].node
        <4>1. Full(reader[r].node)
          BY <2>2, <3>3 DEF Uncached, UncachedAt
        <4> QED BY <2>1, <3>3, <4>1 DEF Full
      <3> QED BY <2>7, <3>1, <3>2, <3>3
    <2>10. ClaimedPage'
      BY <2>1, <2>8, <2>9 DEF ClaimedPage
    <2>11. ~late' => change'.entries = Entries(Tree)'
      BY <2>1, <2>3, <2>5, <2>6
    <2> QED BY <2>1, <2>2, <2>4, <2>10, <2>11 DEF ChangeInv
  <1>7. ASSUME Still PROVE ChangeInv'
    <2>1. UNCHANGED <<file, version, before, pc, todo, change, ptrs, writes, trees, cached, disk>> /\ late' = late
      BY <1>7 DEF Still, storage, index
    <2> QED BY <1>0, <1>a, <2>1
  <1>8. ASSUME ClaimLeaf PROVE ChangeInv'
    <2>1. ClaimedStep
      BY <1>8, ClaimLeafIs
    <2>2. /\ UNCHANGED <<file, version, before, pc, todo, ptrs, writes, cached>> /\ pc \in {"apply", "insert", "refill"}
          /\ cached # 0 /\ ~raced /\ change'.entries = Entries(Tree)
          /\ Claimed(Tree, trees'[cached], change'.page)
      BY <2>1 DEF ClaimedStep, storage
    <2>3. Entries(Tree)' = Entries(Tree) /\ Tree' = trees'[cached]
      BY <2>1, EntriesClaimed
    <2>4. ClaimedPage'
      BY <2>2, <2>3 DEF Claimed, ClaimedPage, Ready
    <2>5. \A k \in Keys : PresentAt(Entries(Tree)[k], k)
      BY <2>2 DEF Present, Clearing
    <2>6. (\A k \in Keys : PresentAt(change.entries[k], k))'
      BY <2>2, <2>5 DEF PresentAt, Waiting
    <2> QED BY <2>2, <2>3, <2>4, <2>6 DEF ChangeInv
  <1> QED BY <1>1, <1>2, <1>3, <1>4, <1>5, <1>6, <1>7, <1>8, Steps

\* Every step keeps FullPrimary.
LEMMA FullPrimaryNext ==
  ASSUME IInv, Next
  PROVE  FullPrimary'
  <1> USE DEF IInv
  <1>0. ASSUME cached' # 0 /\ ~raced' /\ ~Clearing' => cached # 0 /\ ~raced /\ ~Clearing,
               cached' # 0 /\ ~raced' /\ ~Clearing' => Tree.prim' = Tree.prim /\ DOMAIN Tree.cache \subseteq DOMAIN Tree.cache',
               DOMAIN file \subseteq DOMAIN file',
               Tree.prim # 0 /\ Tree.prim \notin DOMAIN Tree.cache /\ cached # 0 /\ ~raced =>
                   disk'.node[Tree.prim] = disk.node[Tree.prim]
        PROVE  FullPrimary'
    <2> SUFFICES ASSUME ~raced', cached' # 0, ~Clearing', Tree.prim' # 0, Tree.prim' \notin DOMAIN Tree.cache'
                 PROVE  Full(disk.node[Tree.prim])'
      BY DEF FullPrimary
    <2>1. /\ Tree.prim' = Tree.prim /\ cached # 0 /\ ~raced /\ ~Clearing
          /\ Tree.prim # 0 /\ Tree.prim \notin DOMAIN Tree.cache
      BY <1>0
    <2>2. Full(disk.node[Tree.prim])
      BY <2>1 DEF FullPrimary
    <2>3. disk'.node[Tree.prim'] = disk.node[Tree.prim]
      BY <1>0, <2>1
    <2> QED BY <1>0, <2>2, <2>3 DEF Full
  <1>a. ASSUME Tree.prim' = 0 \/ Tree.prim' \in DOMAIN Tree.cache' PROVE FullPrimary'
    BY <1>a DEF FullPrimary
  <1>1. ASSUME NEW keys \in SUBSET Keys, AppendRecords(keys) PROVE FullPrimary'
    <2>1. Began /\ Grown(keys, writes + 2)
      BY <1>1, AppendRecordsIs
    <2>2. UNCHANGED <<trees, cached, disk>> /\ raced' = raced /\ ~Clearing
      BY <1>1, <2>1 DEF AppendRecords, index, Began, Clearing
    <2>3. DOMAIN file \subseteq DOMAIN file' /\ Tree' = Tree
      BY <2>1, <2>2 DEF Grown, Tree
    <2> QED BY <1>0, <2>2, <2>3
  <1>2. ASSUME NEW k \in Keys, ShadowDelete(k) PROVE FullPrimary'
    BY <1>2, <1>a, DeleteIs, EntriesReplaced
  <1>3. ASSUME NEW k \in Keys, ShadowInsert(k) PROVE FullPrimary'
    BY <1>3, <1>a, InsertIs, EntriesReplaced
  <1>4. ASSUME ShadowCommit PROVE FullPrimary'
    <2>1. cached # 0 /\ ~raced /\ CommitTree(Tree, trees'[cached]) /\ CommitFile(Tree)
      BY <1>4, CommitIs
    <2>2. UNCHANGED <<file, cached>> /\ pc = "commit"
      BY <1>4 DEF ShadowCommit
    <2>3. Tree.prim' = Tree.prim /\ Tree.cache' = Tree.cache
      BY <2>1, <2>2 DEF Tree, CommitTree
    <2>4. Tree.prim # 0 /\ Tree.prim \notin DOMAIN Tree.cache => disk'.node[Tree.prim] = disk.node[Tree.prim]
      BY <2>1 DEF CommitFile, TreesInv
    <2>5. ~Clearing
      BY <2>2 DEF Clearing
    <2> QED BY <1>0, <2>1, <2>2, <2>3, <2>4, <2>5
  <1>5. ASSUME Clear \/ Compact \/ RemoveIndex \/ Truncate PROVE FullPrimary'
    <2>1. Clearing'
      BY <1>5 DEF Clear, Compact, RemoveIndex, Truncate, Clearing
    <2> QED BY <2>1 DEF FullPrimary
  <1>6. ASSUME Reopen PROVE FullPrimary'
    <2>1. /\ disk = EmptyFile /\ disk' = disk /\ pc = "reopen"
          /\ \/ Opened
             \/ cached # 0 /\ trees' = trees /\ cached' = cached
      BY <1>6, ReopenIs
    <2>2. raced' = raced
      BY <1>6 DEF Reopen
    <2>3. ~raced' => Tree.prim' = 0
      <3>1. CASE Opened
        BY <2>1, <3>1, EntriesOpened
      <3>2. CASE cached # 0 /\ trees' = trees /\ cached' = cached
        BY <2>1, <2>2, <3>2 DEF Control, Tree
      <3> QED BY <2>1, <3>1, <3>2
    <2> QED BY <2>3 DEF FullPrimary
  <1>7. ASSUME NEW r \in Readers, NEW k \in Keys, GetIndex(r, k) PROVE FullPrimary'
    <2>1. UNCHANGED <<file, pc, disk>> /\ (Clearing' <=> Clearing)
      BY <1>7 DEF GetIndex, storage, writer, Clearing
    <2>2. ~raced' => ~raced
      BY <1>7, RacedIs
    <2>3. ~Clearing => cached # 0
      BY DEF Clearing, Control
    <2>4. cached # 0 => trees' = trees /\ cached' = cached /\ Tree' = Tree
      BY <1>7 DEF GetIndex, index, Tree
    <2> QED BY <1>0, <2>1, <2>2, <2>3, <2>4
  <1>8. ASSUME NEW r \in Readers, CacheNode(r) PROVE FullPrimary'
    <2>1. UNCHANGED <<file, pc, disk, cached>> /\ raced' = raced /\ (Clearing' <=> Clearing)
      BY <1>8 DEF CacheNode, storage, writer, Clearing
    <2>2. cached # 0 /\ ~raced => Tree.prim' = Tree.prim /\ DOMAIN Tree.cache \subseteq DOMAIN Tree.cache'
      BY <1>8, EntriesCached
    <2> QED BY <1>0, <2>1, <2>2
  <1>9. ASSUME Still PROVE FullPrimary'
    <2>1. UNCHANGED <<file, pc, cached, trees, disk>> /\ raced' = raced /\ (Clearing' <=> Clearing)
      BY <1>9 DEF Still, storage, index, Clearing
    <2>2. Tree' = Tree
      BY <2>1 DEF Tree
    <2> QED BY <1>0, <2>1, <2>2
  <1>10. ASSUME ClaimLeaf PROVE FullPrimary'
    <2>1. ClaimedStep
      BY <1>10, ClaimLeafIs
    <2> QED BY <1>a, <2>1, EntriesClaimed
  <1> QED BY <1>1, <1>2, <1>3, <1>4, <1>5, <1>6, <1>7, <1>8, <1>9, <1>10, Steps

-----------------------------------------------------------------------------
\* The steps, those of readers one by one.
LEMMA ReaderSteps ==
  ASSUME Next
  PROVE  \/ \E keys \in SUBSET Keys : AppendRecords(keys) /\ keys # {}
         \/ ClaimLeaf
         \/ \E k \in Keys : ShadowDelete(k)
         \/ \E k \in Keys : ShadowInsert(k)
         \/ ShadowCommit \/ Clear \/ Compact \/ RemoveIndex \/ Truncate \/ Reopen
         \/ \E r \in Readers, k \in Keys : GetIndex(r, k)
         \/ \E r \in Readers : CacheNode(r)
         \/ \E r \in Readers : FindRoot(r)
         \/ \E r \in Readers : FindNode(r)
         \/ \E r \in Readers : FindTorn(r)
         \/ \E r \in Readers : FetchPage(r)
         \/ \E r \in Readers : ReadRecord(r)
  <1>1. (\E keys \in (SUBSET Keys) \ {{}} : AppendRecords(keys)) =>
           \E keys \in SUBSET Keys : AppendRecords(keys) /\ keys # {}
    OBVIOUS
  <1>2. (\E k \in Keys : ShadowDelete(k) \/ ShadowInsert(k)) =>
           (\E k \in Keys : ShadowDelete(k)) \/ (\E k \in Keys : ShadowInsert(k))
    OBVIOUS
  <1> QED BY <1>1, <1>2 DEF Next

\* A step of one reader that changes nothing but its call.
LEMMA QuietSteps ==
  ASSUME NEW r \in Readers,
         FindRoot(r) \/ FindNode(r) \/ FindTorn(r) \/ FetchPage(r) \/ ReadRecord(r)
  PROVE  Quiet
  <1>1. FindRoot(r) => Quiet
    BY DEF FindRoot, Quiet
  <1>2. FindNode(r) => Quiet
    BY DEF FindNode, Quiet
  <1>3. FindTorn(r) => Quiet
    BY DEF FindTorn, Quiet
  <1>4. FetchPage(r) => Quiet
    BY DEF FetchPage, Quiet
  <1>5. ReadRecord(r) => Quiet
    BY DEF ReadRecord, Quiet
  <1> QED BY <1>1, <1>2, <1>3, <1>4, <1>5

\* Index objects stay, and their pages too.
Grow ==
    /\ DOMAIN trees \subseteq DOMAIN trees'
    /\ \A i \in DOMAIN trees : trees[i].next \in Int /\ trees'[i].next \in Int /\ trees'[i].next >= trees[i].next

\* Every step keeps the index objects and never lowers their next page.
LEMMA TreesGrow ==
  ASSUME IInv, Next
  PROVE  Grow
  <1> USE DEF IInv
  <1>a. \A i \in DOMAIN trees : trees[i] \in Trees
    BY DEF Types
  <1>0. \A i \in DOMAIN trees : trees[i].next \in Int
    BY <1>a, TreeFields
  <1>1. ASSUME trees' = trees PROVE Grow
    BY <1>0, <1>1 DEF Grow
  <1>2. ASSUME Opened PROVE Grow
    BY <1>0, <1>2 DEF Grow, Opened
  <1>3. ASSUME DOMAIN trees' = DOMAIN trees, NEW i \in DOMAIN trees, trees'[i].next \in Int,
               trees'[i].next >= trees[i].next,
               \A j \in DOMAIN trees : j # i => trees'[j] = trees[j]
        PROVE  Grow
    BY <1>0, <1>3 DEF Grow
  <1>4. ASSUME NEW keys \in SUBSET Keys, AppendRecords(keys) PROVE Grow
    BY <1>1, <1>4 DEF AppendRecords, index
  <1>5. ASSUME NEW entries, cached \in DOMAIN trees, Replaced(Tree, trees'[cached], entries),
               DOMAIN trees' = DOMAIN trees,
               \A j \in DOMAIN trees : j # cached => trees'[j] = trees[j]
        PROVE  Grow
    <2>1. trees'[cached] \in Trees /\ trees'[cached].next >= Tree.next
      BY <1>5 DEF Replaced
    <2>2. trees'[cached].next \in Int
      BY <2>1, TreeFields
    <2> QED BY <1>3, <1>5, <2>1, <2>2 DEF Tree
  <1>6. ASSUME NEW k \in Keys, ShadowDelete(k) PROVE Grow
    BY <1>5, <1>6, DeleteIs
  <1>7. ASSUME NEW k \in Keys, ShadowInsert(k) PROVE Grow
    BY <1>5, <1>7, InsertIs
  <1>8. ASSUME ShadowCommit PROVE Grow
    <2>1. /\ cached \in DOMAIN trees /\ CommitTree(Tree, trees'[cached]) /\ DOMAIN trees' = DOMAIN trees
          /\ \A j \in DOMAIN trees : j # cached => trees'[j] = trees[j]
      BY <1>8, CommitIs
    <2>2. trees'[cached].next = trees[cached].next
      BY <2>1 DEF CommitTree, Tree
    <2> QED BY <1>0, <1>3, <2>1, <2>2
  <1>9. ASSUME Clear \/ Compact \/ Truncate PROVE Grow
    BY <1>1, <1>9 DEF Clear, Compact, Truncate, index
  <1>10. ASSUME RemoveIndex PROVE Grow
    <2>1. /\ cached \in DOMAIN trees /\ DOMAIN trees' = DOMAIN trees /\ trees'[cached].next = Tree.next
          /\ \A j \in DOMAIN trees : j # cached => trees'[j] = trees[j]
      BY <1>10, RemoveIndexIs
    <2> QED BY <1>0, <1>3, <2>1 DEF Tree
  <1>11. ASSUME Reopen PROVE Grow
    BY <1>1, <1>2, <1>11, ReopenIs
  <1>12. ASSUME NEW r \in Readers, NEW k \in Keys, GetIndex(r, k) PROVE Grow
    BY <1>1, <1>2, <1>12, GetIndexIs
  <1>13. ASSUME NEW r \in Readers, CacheNode(r) PROVE Grow
    <2>1. /\ reader[r].tree \in DOMAIN trees /\ DOMAIN trees' = DOMAIN trees
          /\ trees'[reader[r].tree].next = trees[reader[r].tree].next
          /\ \A j \in DOMAIN trees : j # reader[r].tree => trees'[j] = trees[j]
      BY <1>13, CacheNodeIs
    <2> QED BY <1>0, <1>3, <2>1
  <1>14. ASSUME Still PROVE Grow
    BY <1>1, <1>14 DEF Still, index
  <1>15. ASSUME ClaimLeaf PROVE Grow
    <2>1. /\ cached \in DOMAIN trees /\ Claimed(Tree, trees'[cached], change'.page) /\ DOMAIN trees' = DOMAIN trees
          /\ \A j \in DOMAIN trees : j # cached => trees'[j] = trees[j]
      BY <1>15, ClaimLeafIs DEF ClaimedStep
    <2>2. trees'[cached] \in Trees /\ trees'[cached].next >= Tree.next
      BY <2>1 DEF Claimed
    <2>3. trees'[cached].next \in Int
      BY <2>2, TreeFields
    <2> QED BY <1>3, <2>1, <2>2, <2>3 DEF Tree
  <1> QED BY <1>4, <1>6, <1>7, <1>8, <1>9, <1>10, <1>11, <1>12, <1>13, <1>14, <1>15, Steps

\* A call goes on as it was, but for what it lives through.
Alike(r) ==
    /\ reader'[r].pc = reader[r].pc /\ reader'[r].key = reader[r].key
    /\ reader'[r].tree = reader[r].tree /\ reader'[r].page = reader[r].page
    /\ reader'[r].node = reader[r].node /\ reader'[r].ptr = reader[r].ptr
    /\ reader'[r].result = reader[r].result
    /\ reader[r].seen \subseteq reader'[r].seen
    /\ reader[r].events \subseteq reader'[r].events
    /\ ~Reading(r) => reader'[r] = reader[r]

\* Steps of the writer change no call otherwise.
LEMMA WriterAlike ==
  ASSUME IInv, NEW r \in Readers,
         \/ \E keys \in SUBSET Keys : AppendRecords(keys)
         \/ ClaimLeaf
         \/ \E k \in Keys : ShadowDelete(k)
         \/ \E k \in Keys : ShadowInsert(k)
         \/ ShadowCommit \/ Clear \/ Compact \/ RemoveIndex \/ Truncate \/ Reopen
  PROVE  Alike(r)
  <1> USE DEF IInv
  <1>1. ASSUME Noted PROVE Alike(r)
    BY <1>1 DEF Noted, Alike
  <1>2. ASSUME reader' = reader PROVE Alike(r)
    BY <1>2 DEF Alike
  <1>3. ASSUME NEW keys \in SUBSET Keys, AppendRecords(keys) PROVE Alike(r)
    BY <1>1, <1>3, AppendRecordsIs DEF NotedWrite
  <1>4. ASSUME NEW k \in Keys, ShadowDelete(k) \/ ShadowInsert(k) PROVE Alike(r)
    BY <1>2, <1>4 DEF ShadowDelete, ShadowInsert
  <1>5. ASSUME ShadowCommit PROVE Alike(r)
    BY <1>1, <1>5, CommitIs
  <1>6. ASSUME Clear PROVE Alike(r)
    BY <1>1, <1>6, ClearIs DEF NotedWrite
  <1>7. ASSUME Compact PROVE Alike(r)
    BY <1>1, <1>7, CompactRecordsIs DEF NotedWrite
  <1>8. ASSUME RemoveIndex \/ Truncate \/ Reopen \/ ClaimLeaf PROVE Alike(r)
    BY <1>2, <1>8 DEF RemoveIndex, Truncate, Reopen, ClaimLeaf
  <1> QED BY <1>3, <1>4, <1>5, <1>6, <1>7, <1>8

\* A step of another reader leaves the call alone.
LEMMA OtherAlike ==
  ASSUME IInv, NEW r \in Readers, NEW q \in Readers, q # r,
         \/ \E k \in Keys : GetIndex(r, k)
         \/ FindRoot(r) \/ FindNode(r) \/ FindTorn(r) \/ FetchPage(r) \/ CacheNode(r) \/ ReadRecord(r)
  PROVE  Alike(q) /\ reader'[q] = reader[q]
  <1> USE DEF IInv
  <1>0. ASSUME reader'[q] = reader[q] PROVE Alike(q) /\ reader'[q] = reader[q]
    BY <1>0 DEF Alike
  <1>1. ASSUME NEW k \in Keys, GetIndex(r, k) PROVE reader'[q] = reader[q]
    BY <1>1, GetIndexIs DEF Started
  <1>2. ASSUME FindRoot(r) PROVE reader'[q] = reader[q]
    BY <1>2, FindRootIs DEF Finished, Advanced
  <1>3. ASSUME FindNode(r) PROVE reader'[q] = reader[q]
    BY <1>3, FindNodeIs DEF Finished, Advanced
  <1>4. ASSUME FindTorn(r) PROVE reader'[q] = reader[q]
    BY <1>4, FindTornIs DEF Finished, Advanced
  <1>5. ASSUME FetchPage(r) PROVE reader'[q] = reader[q]
    BY <1>5, FetchPageIs DEF Finished, Advanced
  <1>6. ASSUME CacheNode(r) PROVE reader'[q] = reader[q]
    BY <1>6, CacheNodeIs DEF Finished, Advanced
  <1>7. ASSUME ReadRecord(r) PROVE reader'[q] = reader[q]
    BY <1>7, ReadRecordIs DEF Finished, Advanced
  <1> QED BY <1>0, <1>1, <1>2, <1>3, <1>4, <1>5, <1>6, <1>7

\* Every step keeps CallsInv.
LEMMA CallsNext ==
  ASSUME IInv, Next
  PROVE  CallsInv'
  <1> USE DEF IInv
  <1>g. Grow
    BY TreesGrow
  <1>0. ASSUME NEW q \in Readers, Alike(q) PROVE CallAt(q)'
    <2>1. CallAt(q)
      BY DEF CallsInv
    <2> QED BY <1>0, <1>g, <2>1 DEF Alike, CallAt, Reading, Grow
  <1>a. ASSUME NEW q \in Readers, reader'[q].pc = "done" PROVE CallAt(q)'
    BY <1>a DEF CallAt, Reading
  <1>b. ASSUME NEW q \in Readers, NEW place, NEW page, NEW node, NEW ptr, NEW events, Reading(q),
               Advanced(q, place, page, node, ptr, events),
               place \in {"node", "fetched"} => page \in 3..(trees[reader[q].tree].next - 1)
        PROVE  CallAt(q)'
    <2>1. reader[q].key \in Keys /\ reader[q].tree \in DOMAIN trees
      BY <1>b DEF CallsInv, CallAt
    <2> QED BY <1>b, <1>g, <2>1 DEF Advanced, CallAt, Grow
  <1>c. ASSUME NEW r \in Readers, CallAt(r)', \A q \in Readers : q # r => Alike(q) PROVE CallsInv'
    BY <1>c, <1>0 DEF CallsInv
  <1>1. ASSUME \/ \E keys \in SUBSET Keys : AppendRecords(keys)
               \/ ClaimLeaf
               \/ \E k \in Keys : ShadowDelete(k)
               \/ \E k \in Keys : ShadowInsert(k)
               \/ ShadowCommit \/ Clear \/ Compact \/ RemoveIndex \/ Truncate \/ Reopen
        PROVE  CallsInv'
    <2>1. \A q \in Readers : Alike(q)
      BY <1>1, WriterAlike
    <2> QED BY <1>0, <2>1 DEF CallsInv
  <1>2. ASSUME NEW r \in Readers, NEW k \in Keys, GetIndex(r, k) PROVE CallsInv'
    <2>1. Started(r, k) /\ cached' \in DOMAIN trees'
      <3>1. Types'
        BY TypesNext
      <3>2. Started(r, k) /\ cached' # 0
        BY <1>2, GetIndexIs
      <3> QED BY <3>1, <3>2 DEF Types
    <2>2. CallAt(r)'
      BY <2>1 DEF CallAt, Started
    <2> QED BY <1>2, <1>c, <2>2, OtherAlike
  <1>3. ASSUME NEW r \in Readers, CacheNode(r) PROVE CallsInv'
    <2>1. CallAt(r)'
      BY <1>3, <1>a, <1>b, CacheNodeIs DEF Finished
    <2> QED BY <1>3, <1>c, <2>1, OtherAlike
  <1>4. ASSUME NEW r \in Readers, FindRoot(r) PROVE CallsInv'
    <2>1. \A i \in DOMAIN trees : trees[i].prim = 0 \/ trees[i].prim \in 3..(trees[i].next - 1)
      BY DEF TreesInv
    <2>2. CallAt(r)'
      BY <1>4, <1>a, <1>b, <2>1, FindRootIs DEF Finished
    <2> QED BY <1>4, <1>c, <2>2, OtherAlike
  <1>5. ASSUME NEW r \in Readers, FindNode(r) PROVE CallsInv'
    <2>1. CallAt(r)'
      BY <1>5, <1>a, <1>b, FindNodeIs DEF Finished
    <2> QED BY <1>5, <1>c, <2>1, OtherAlike
  <1>6. ASSUME NEW r \in Readers, FindTorn(r) PROVE CallsInv'
    <2>1. CallAt(r)'
      BY <1>6, <1>a, <1>b, FindTornIs DEF Finished
    <2> QED BY <1>6, <1>c, <2>1, OtherAlike
  <1>7. ASSUME NEW r \in Readers, FetchPage(r) PROVE CallsInv'
    <2>1. CallAt(r)
      BY DEF CallsInv
    <2>2. CallAt(r)'
      BY <1>7, <1>a, <1>b, <2>1, FetchPageIs DEF Finished, CallAt
    <2> QED BY <1>7, <1>c, <2>2, OtherAlike
  <1>8. ASSUME NEW r \in Readers, ReadRecord(r) PROVE CallsInv'
    <2>1. CallAt(r)'
      BY <1>8, <1>a, ReadRecordIs DEF Finished
    <2> QED BY <1>8, <1>c, <2>1, OtherAlike
  <1> QED BY <1>1, <1>2, <1>3, <1>4, <1>5, <1>6, <1>7, <1>8, ReaderSteps

\* The call goes on or is over: it has the same key and index, and meets no more than torn.
Onward(r) ==
    /\ Reading(r) /\ reader'[r].key = reader[r].key
    /\ Reading(r)' => reader'[r].tree = reader[r].tree
    /\ reader'[r].seen = reader[r].seen /\ reader[r].events \subseteq reader'[r].events
    /\ reader'[r].events \subseteq reader[r].events \cup {"torn"}

\* A step of a call keeps its key, its index object and what it has met.
LEMMA OnwardIs ==
  ASSUME IInv, NEW r \in Readers,
         FindRoot(r) \/ FindNode(r) \/ FindTorn(r) \/ FetchPage(r) \/ CacheNode(r) \/ ReadRecord(r)
  PROVE  Onward(r)
  <1> USE DEF IInv
  <1>0. ASSUME NEW result, Finished(r, result), Reading(r) PROVE Onward(r)
    BY <1>0 DEF Finished, Reading, Onward
  <1>1. ASSUME NEW place, NEW page, NEW node, NEW ptr, NEW events, Advanced(r, place, page, node, ptr, events),
               Reading(r), events = reader[r].events \/ events = reader[r].events \cup {"torn"}
        PROVE  Onward(r)
    BY <1>1 DEF Advanced, Onward
  <1>2. CASE FindRoot(r)
    BY <1>2, <1>0, <1>1, FindRootIs
  <1>3. CASE FindNode(r)
    BY <1>3, <1>0, <1>1, FindNodeIs
  <1>4. CASE FindTorn(r)
    BY <1>4, <1>0, <1>1, FindTornIs
  <1>5. CASE FetchPage(r)
    BY <1>5, <1>0, <1>1, FetchPageIs
  <1>6. CASE CacheNode(r)
    BY <1>6, <1>0, <1>1, CacheNodeIs
  <1>7. CASE ReadRecord(r)
    BY <1>7, <1>0, <1>1, ReadRecordIs
  <1> QED BY <1>2, <1>3, <1>4, <1>5, <1>6, <1>7

\* What a reader that comes meets.
LEMMA UnderwayIs ==
  ASSUME NEW k \in Keys
  PROVE  /\ "update" \in Underway(k) <=> pc \in {"apply", "insert"} /\ version[k] # before[k]
         /\ "clear" \in Underway(k) <=> Clearing /\ ptrs = NoEntries
         /\ "compact" \in Underway(k) <=> (Clearing \/ pc \in {"refill", "stop"}) /\ ptrs # NoEntries
         /\ "commit" \notin Underway(k) /\ "torn" \notin Underway(k) /\ "reuse" \notin Underway(k)
  BY DEF Underway, Clearing

\* Nothing is waiting when the writer has no pointers.
LEMMA WaitingIs ==
  ASSUME Types
  PROVE  Waiting = {} <=> ptrs = NoEntries
  <1>1. ptrs \in [Keys -> Nat] /\ NoEntries \in [Keys -> Nat] /\ \A k \in Keys : NoEntries[k] = 0
    BY NoEntriesType DEF Types, NoEntries
  <1>2. ASSUME Waiting = {} PROVE ptrs = NoEntries
    <2>1. \A k \in Keys : ptrs[k] = NoEntries[k]
      BY <1>1, <1>2 DEF Waiting
    <2> QED BY <1>1, <2>1
  <1>3. ASSUME ptrs = NoEntries PROVE Waiting = {}
    BY <1>1, <1>3 DEF Waiting
  <1> QED BY <1>2, <1>3

\* Every step keeps EventsInv.
LEMMA EventsNext ==
  ASSUME IInv, Next
  PROVE  EventsInv'
  <1> USE DEF IInv
  <1>e. \A q \in Readers : EventsAt(q)
    BY DEF EventsInv
  <1>k. \A q \in Readers : Reading(q) => reader[q].key \in Keys
    BY DEF CallsInv, CallAt
  <1>0. ASSUME NEW q \in Readers, Reading(q)' => Reading(q), reader'[q].key = reader[q].key,
               Reading(q)' => reader'[q].tree = reader[q].tree,
               reader'[q].seen = reader[q].seen, reader[q].events \subseteq reader'[q].events,
               reader'[q].events \subseteq reader[q].events \cup {"torn"},
               UNCHANGED <<version, before, pc, ptrs, cached>>, raced' <=> raced
        PROVE  EventsAt(q)'
    <2> SUFFICES ASSUME Reading(q)' PROVE EventsAt(q)'
      BY DEF EventsAt
    <2>1. Waiting' = Waiting /\ (Clearing' <=> Clearing)
      BY <1>0 DEF Waiting, Clearing
    <2>2. EventsAt(q) /\ Reading(q)
      BY <1>0, <1>e
    <2>3. Met(q, {"clear", "compact"}) => Met(q, {"clear", "compact"})'
      BY <1>0 DEF Met
    <2> QED BY <1>0, <2>1, <2>2, <2>3 DEF EventsAt
  <1>1. ASSUME NEW keys \in SUBSET Keys, AppendRecords(keys) PROVE EventsInv'
    <2>1. /\ pc = "idle" /\ pc' = "apply" /\ Noted /\ Grown(keys, writes + 2)
          /\ UNCHANGED <<before, cached>> /\ (raced' <=> raced)
      BY <1>1, AppendRecordsIs DEF Began, NotedWrite, AppendRecords, index
    <2>2. Waiting' \subseteq keys /\ ~Clearing'
      BY <2>1 DEF Waiting, Clearing, Grown
    <2> SUFFICES ASSUME NEW q \in Readers, Reading(q)' PROVE EventsAt(q)'
      BY DEF EventsInv, EventsAt
    <2>3. Reading(q) /\ Alike(q) /\ EventsAt(q)
      BY <1>1, <1>e, WriterAlike DEF Alike, Reading
    <2>4. /\ version'[reader[q].key] \in reader'[q].seen
          /\ reader[q].key \in keys => "update" \in reader'[q].events
          /\ "commit" \in reader'[q].events => "reuse" \in reader'[q].events
          /\ reader'[q].events \subseteq reader[q].events \cup {"update", "reuse"}
      BY <1>1, <2>3, AppendRecordsIs DEF NotedWrite
    <2>5. Met(q, {"clear", "compact"}) => Met(q, {"clear", "compact"})'
      BY <2>3 DEF Met, Alike
    <2> QED BY <2>1, <2>2, <2>3, <2>4, <2>5 DEF EventsAt, Alike
  <1>2. ASSUME Clear PROVE EventsInv'
    <2>1. /\ pc = "idle" /\ pc' = "remove" /\ Noted /\ \A k \in Keys : version'[k] = 0
          /\ UNCHANGED <<before, cached, ptrs>> /\ (raced' <=> raced)
      BY <1>2, ClearIs DEF Began, NotedWrite, Clear, index
    <2>2. Waiting' = {}
      BY <2>1 DEF Waiting, Control
    <2> SUFFICES ASSUME NEW q \in Readers, Reading(q)' PROVE EventsAt(q)'
      BY DEF EventsInv, EventsAt
    <2>3. Reading(q) /\ Alike(q) /\ EventsAt(q)
      BY <1>2, <1>e, WriterAlike DEF Alike, Reading
    <2>4. /\ version'[reader[q].key] \in reader'[q].seen
          /\ reader[q].key \in Keys => "clear" \in reader'[q].events
          /\ "commit" \in reader'[q].events => "reuse" \in reader'[q].events
      BY <1>2, <2>3, ClearIs DEF NotedWrite
    <2>5. Met(q, {"clear", "compact"})' /\ 0 \in reader'[q].seen
      BY <1>k, <2>1, <2>3, <2>4 DEF Met
    <2> QED BY <2>1, <2>2, <2>3, <2>4, <2>5 DEF EventsAt, Alike
  <1>3. ASSUME Compact PROVE EventsInv'
    <2>1. /\ pc = "idle" /\ pc' = "remove" /\ Noted
          /\ UNCHANGED <<before, version, cached>> /\ (raced' <=> raced)
      BY <1>3, CompactRecordsIs DEF Began, NotedWrite, Compact, index
    <2> SUFFICES ASSUME NEW q \in Readers, Reading(q)' PROVE EventsAt(q)'
      BY DEF EventsInv, EventsAt
    <2>3. Reading(q) /\ Alike(q) /\ EventsAt(q)
      BY <1>3, <1>e, WriterAlike DEF Alike, Reading
    <2>4. /\ reader[q].key \in Keys => "compact" \in reader'[q].events
          /\ "commit" \in reader'[q].events => "reuse" \in reader'[q].events
          /\ reader'[q].events \subseteq reader[q].events \cup {"compact", "reuse"}
      BY <1>3, <2>3, CompactRecordsIs DEF NotedWrite
    <2>5. Met(q, {"clear", "compact"})' /\ "compact" \in reader'[q].events
      BY <1>k, <2>3, <2>4 DEF Met
    <2> QED BY <2>1, <2>3, <2>4, <2>5 DEF EventsAt, Alike
  <1>4. ASSUME ShadowCommit PROVE EventsInv'
    <2>1. /\ pc' = "idle" /\ before' = version
          /\ UNCHANGED <<version, cached>> /\ (raced' <=> raced)
      BY <1>4 DEF ShadowCommit
    <2>2. ~Clearing'
      BY <2>1 DEF Clearing
    <2> SUFFICES ASSUME NEW q \in Readers, Reading(q)' PROVE EventsAt(q)'
      BY DEF EventsInv, EventsAt
    <2>3. Reading(q) /\ Alike(q) /\ EventsAt(q)
      BY <1>4, <1>e, WriterAlike DEF Alike, Reading
    <2>4. reader'[q].events = reader[q].events \cup {"commit"}
      BY <1>4, <2>3, CommitIs
    <2>5. Met(q, {"clear", "compact"}) => Met(q, {"clear", "compact"})'
      BY <2>3 DEF Met, Alike
    <2> QED BY <2>1, <2>2, <2>3, <2>4, <2>5 DEF EventsAt, Alike
  <1>5. ASSUME NEW k \in Keys, ShadowDelete(k) \/ ShadowInsert(k) PROVE EventsInv'
    <2>1. UNCHANGED <<version, before, cached, reader>> /\ (raced' <=> raced)
      BY <1>5 DEF ShadowDelete, ShadowInsert, storage
    <2>2. /\ Waiting' \subseteq Waiting /\ ~Clearing' /\ pc' # "stop" /\ pc # "idle"
          /\ pc' = "refill" => pc = "refill"
          /\ pc' \in {"apply", "insert"} => pc \in {"apply", "insert"}
      <3>1. CASE ShadowDelete(k)
        BY <3>1, DeleteIs DEF Clearing
      <3>2. CASE ShadowInsert(k)
        <4>1. pc \in {"apply", "insert", "refill"}
          BY <3>2 DEF ShadowInsert
        <4> QED BY <3>2, <4>1, InsertIs DEF Clearing
      <3> QED BY <1>5, <3>1, <3>2
    <2> SUFFICES ASSUME NEW q \in Readers, Reading(q)' PROVE EventsAt(q)'
      BY DEF EventsInv, EventsAt
    <2>3. Reading(q) /\ EventsAt(q)
      BY <1>e, <2>1 DEF Reading
    <2>4. Met(q, {"clear", "compact"})' <=> Met(q, {"clear", "compact"})
      BY <2>1 DEF Met
    <2> QED BY <2>1, <2>2, <2>3, <2>4 DEF EventsAt
  <1>6. ASSUME RemoveIndex \/ Truncate \/ Reopen PROVE EventsInv'
    <2>1. UNCHANGED <<version, ptrs, reader>> /\ Clearing
      BY <1>6 DEF RemoveIndex, Truncate, Reopen, storage, Clearing
    <2>2. pc' \notin {"apply", "insert"} /\ before' \in {before, version}
      <3>1. CASE Reopen
        BY <3>1, ReopenIs
      <3>2. CASE RemoveIndex \/ Truncate
        BY <3>2 DEF RemoveIndex, Truncate, storage
      <3> QED BY <1>6, <3>1, <3>2
    <2> SUFFICES ASSUME NEW q \in Readers, Reading(q)' PROVE EventsAt(q)'
      BY DEF EventsInv, EventsAt
    <2>3. Reading(q) /\ EventsAt(q) /\ Waiting' = Waiting
      BY <1>e, <2>1 DEF Reading, Waiting
    <2>4. Met(q, {"clear", "compact"})'
      BY <2>1, <2>3 DEF Met, EventsAt
    <2>5. pc # "idle"
      BY <2>1 DEF Clearing
    <2> QED BY <2>1, <2>2, <2>3, <2>4, <2>5 DEF EventsAt
  <1>7. ASSUME NEW r \in Readers, NEW k \in Keys, GetIndex(r, k) PROVE EventsInv'
    <2>1. UNCHANGED <<version, before, pc, ptrs, writes>> /\ (~raced' => ~raced) /\ Started(r, k)
      BY <1>7, RacedIs, GetIndexIs DEF GetIndex, storage, writer
    <2>2. Waiting' = Waiting /\ (Clearing' <=> Clearing)
      BY <2>1 DEF Waiting, Clearing
    <2>3. EventsAt(r)'
      <3>1. /\ reader'[r].key = k /\ reader'[r].seen = {version[k], before[k]}
            /\ reader'[r].events = Underway(k) /\ reader'[r].tree = cached'
        BY <2>1 DEF Started
      <3>2. Waiting = {} <=> ptrs = NoEntries
        BY WaitingIs
      <3>3. "clear" \in Underway(k) => version[k] = 0
        BY <3>2, UnderwayIs DEF Versions
      <3>4. pc \in {"apply", "insert"} /\ k \in Waiting => version[k] # before[k]
        BY DEF Versions, Types
      <3>5. Clearing => Met(r, {"clear", "compact"})'
        BY <3>1, UnderwayIs DEF Met
      <3> QED BY <2>1, <2>2, <3>1, <3>2, <3>3, <3>4, <3>5, UnderwayIs DEF EventsAt
    <2>4. ASSUME NEW q \in Readers, q # r PROVE EventsAt(q)'
      <3>1. reader'[q] = reader[q] /\ EventsAt(q)
        BY <1>7, <1>e, <2>4, OtherAlike
      <3>2. (Reading(q)' <=> Reading(q)) /\ (Met(q, {"clear", "compact"})' <=> Met(q, {"clear", "compact"}))
        BY <3>1 DEF Met, Reading
      <3>3. cached = 0 => Clearing
        BY DEF Control, Clearing
      <3>4. cached # 0 => cached' = cached
        BY <1>7 DEF GetIndex, index
      <3> QED BY <2>1, <2>2, <3>1, <3>2, <3>3, <3>4 DEF EventsAt
    <2> QED BY <2>3, <2>4 DEF EventsInv
  <1>8. ASSUME ClaimLeaf PROVE EventsInv'
    <2>1. UNCHANGED <<version, before, pc, ptrs, cached, reader>> /\ (raced' <=> raced)
      BY <1>8 DEF ClaimLeaf, storage
    <2>2. \A q \in Readers : (Reading(q)' <=> Reading(q))
      BY <2>1 DEF Reading
    <2> QED BY <1>0, <2>1, <2>2 DEF EventsInv
  <1>9. ASSUME NEW r \in Readers,
               FindRoot(r) \/ FindNode(r) \/ FindTorn(r) \/ FetchPage(r) \/ CacheNode(r) \/ ReadRecord(r)
        PROVE  EventsInv'
    <2>1. UNCHANGED <<version, before, pc, ptrs, cached>> /\ (raced' <=> raced)
      <3>1. CASE CacheNode(r)
        BY <3>1 DEF CacheNode, storage, writer
      <3>2. CASE ~CacheNode(r)
        BY <1>9, <3>2, QuietSteps DEF Quiet, storage, writer, index
      <3> QED BY <3>1, <3>2
    <2>2. Onward(r)
      BY <1>9, OnwardIs
    <2>3. EventsAt(r)'
      BY <1>0, <2>1, <2>2 DEF Onward
    <2>4. ASSUME NEW q \in Readers, q # r PROVE EventsAt(q)'
      <3>1. reader'[q] = reader[q]
        BY <1>9, <2>4, OtherAlike
      <3>2. Reading(q)' <=> Reading(q)
        BY <3>1 DEF Reading
      <3> QED BY <1>0, <2>1, <3>1, <3>2
    <2> QED BY <2>3, <2>4 DEF EventsInv
  <1> QED BY <1>1, <1>2, <1>3, <1>4, <1>5, <1>6, <1>7, <1>8, <1>9, ReaderSteps

\* Every step keeps Uncached.
LEMMA UncachedNext ==
  ASSUME IInv, Next
  PROVE  Uncached'
  <1> USE DEF IInv
  <1>c. \A q \in Readers : Reading(q) => reader[q].tree \in DOMAIN trees
    BY DEF CallsInv, CallAt
  <1>p. \A q \in Readers : reader[q].pc \in {"node", "fetched"} => reader[q].page # 0
    <2>1. \A q \in Readers : reader[q].pc \in {"node", "fetched"} =>
             reader[q].page \in 3..(trees[reader[q].tree].next - 1)
      BY DEF CallsInv, CallAt, Reading
    <2> QED BY <2>1
  <1>0. ASSUME NEW q \in Readers, Alike(q), UncachedAt(q), cached' = cached, pc' # "reopen",
               ~Clearing' => ~Clearing, DOMAIN file \subseteq DOMAIN file',
               cached # 0 /\ reader[q].page # 0 /\ reader[q].page \notin DOMAIN Tree.cache' =>
                   reader[q].page \notin DOMAIN Tree.cache,
               cached # 0 /\ reader[q].page = Tree.prim /\ reader[q].page # 0
                   /\ reader[q].page \notin DOMAIN Tree.cache /\ reader[q].page \notin DOMAIN Tree.cache' =>
                   Tree.prim' = Tree.prim /\ disk'.node[Tree.prim] = disk.node[Tree.prim]
        PROVE  UncachedAt(q)'
    <2> SUFFICES ASSUME reader'[q].pc \in {"node", "fetched"}, reader'[q].tree = cached', cached' # 0
                 PROVE  UncachedAt(q)'
      BY DEF UncachedAt
    <2>1. /\ reader[q].pc = reader'[q].pc /\ reader[q].tree = cached /\ cached # 0
          /\ reader'[q].page = reader[q].page /\ reader'[q].node = reader[q].node /\ reader[q].page # 0
      BY <1>0, <1>p DEF Alike
    <2>2. /\ reader[q].page \notin DOMAIN Tree.cache =>
                 /\ reader[q].page = Tree.prim
                 /\ reader[q].pc = "fetched" => reader[q].node = disk.node[reader[q].page]
          /\ reader[q].pc = "fetched" /\ ~Clearing => Full(reader[q].node)
      BY <1>0, <2>1 DEF UncachedAt
    <2>3. reader'[q].page \notin DOMAIN Tree.cache' =>
                 /\ reader'[q].page = Tree.prim'
                 /\ reader'[q].pc = "fetched" => reader'[q].node = disk'.node[reader'[q].page]
      BY <1>0, <2>1, <2>2
    <2>4. reader'[q].pc = "fetched" /\ ~Clearing' => Full(reader[q].node)'
      BY <1>0, <2>1, <2>2 DEF Full
    <2> QED BY <1>0, <2>1, <2>3, <2>4 DEF UncachedAt
  <1>a. ASSUME NEW q \in Readers, reader'[q].pc \notin {"node", "fetched"} PROVE UncachedAt(q)'
    BY <1>a DEF UncachedAt
  <1>b. ASSUME cached' = 0 PROVE Uncached'
    BY <1>b DEF Uncached, UncachedAt
  <1>u. ASSUME ~raced' => ~raced, ~raced' /\ ~raced => \A q \in Readers : UncachedAt(q) => UncachedAt(q)'
        PROVE  Uncached'
    BY <1>u DEF Uncached
  <1>v. ASSUME ~raced' => ~raced, NEW r \in Readers, ~raced => UncachedAt(r)',
               ~raced' /\ ~raced => \A q \in Readers : UncachedAt(q) /\ q # r => UncachedAt(q)'
        PROVE  Uncached'
    BY <1>v DEF Uncached
  <1>1. ASSUME NEW keys \in SUBSET Keys, AppendRecords(keys) PROVE Uncached'
    <2>1. /\ UNCHANGED <<trees, cached, disk>> /\ (raced' <=> raced) /\ pc' = "apply" /\ pc = "idle"
          /\ DOMAIN file \subseteq DOMAIN file'
      BY <1>1, AppendRecordsIs DEF AppendRecords, index, Began, Grown
    <2>2. Tree' = Tree /\ ~Clearing
      BY <2>1 DEF Tree, Clearing
    <2>3. \A q \in Readers : Alike(q)
      BY <1>1, WriterAlike
    <2> QED BY <1>0, <1>u, <2>1, <2>2, <2>3
  <1>2. ASSUME NEW entries, cached # 0, change.page # 0, Replaced(Tree, trees'[cached], entries), \A q \in Readers : Alike(q),
               UNCHANGED <<cached, disk, file>>, raced' <=> raced, pc' # "reopen", ~Clearing
        PROVE  Uncached'
    <2>1. /\ DOMAIN Tree.cache \subseteq DOMAIN Tree.cache'
          /\ Tree.prim = 0 \/ Tree.prim \in DOMAIN Tree.cache'
      <3>1. DOMAIN Tree.cache \subseteq DOMAIN Tree.cache'
        BY <1>2 DEF Replaced, Tree
      <3>2. Tree.prim \in DOMAIN Tree.cache
        BY <1>2 DEF ChangeInv, ClaimedPage, Ready
      <3> QED BY <3>1, <3>2
    <2> QED BY <1>0, <1>2, <1>u, <2>1
  <1>3. ASSUME NEW k \in Keys, ShadowDelete(k) PROVE Uncached'
    <2>1. UNCHANGED <<disk, file>> /\ (raced' <=> raced) /\ pc = "apply"
      BY <1>3 DEF ShadowDelete, storage
    <2>2. \A q \in Readers : Alike(q)
      BY <1>3, WriterAlike
    <2>3. ~Clearing
      BY <2>1 DEF Clearing
    <2> QED BY <1>2, <1>3, <2>1, <2>2, <2>3, DeleteIs
  <1>4. ASSUME NEW k \in Keys, ShadowInsert(k) PROVE Uncached'
    <2>1. UNCHANGED <<disk, file>> /\ (raced' <=> raced) /\ pc \in {"apply", "insert", "refill"}
      BY <1>4 DEF ShadowInsert, storage
    <2>2. \A q \in Readers : Alike(q)
      BY <1>4, WriterAlike
    <2>3. ~Clearing
      BY <2>1 DEF Clearing
    <2>4. /\ cached # 0 /\ Replaced(Tree, trees'[cached], [change.entries EXCEPT ![k] = ptrs[k]])
          /\ pc' # "reopen" /\ cached' = cached /\ change.page # 0
      BY <1>4, InsertIs
    <2> QED BY <1>2, <2>1, <2>2, <2>3, <2>4
  <1>5. ASSUME ShadowCommit PROVE Uncached'
    <2>1. cached # 0 /\ CommitTree(Tree, trees'[cached]) /\ CommitFile(Tree) /\ ~raced
      BY <1>5, CommitIs
    <2>2. UNCHANGED <<file, cached>> /\ pc = "commit" /\ pc' = "idle" /\ (raced' <=> raced)
      BY <1>5 DEF ShadowCommit
    <2>3. Tree.prim' = Tree.prim /\ Tree.cache' = Tree.cache
      BY <2>1, <2>2 DEF Tree, CommitTree
    <2>4. Tree.prim # 0 /\ Tree.prim \notin DOMAIN Tree.cache => disk'.node[Tree.prim] = disk.node[Tree.prim]
      BY <2>1 DEF CommitFile, TreesInv
    <2>5. ~Clearing
      BY <2>2 DEF Clearing
    <2>6. \A q \in Readers : Alike(q)
      BY <1>5, WriterAlike
    <2> QED BY <1>0, <1>u, <2>1, <2>2, <2>3, <2>4, <2>5, <2>6
  <1>6. ASSUME Clear \/ Compact PROVE Uncached'
    <2>1. /\ UNCHANGED <<trees, cached, disk>> /\ (raced' <=> raced) /\ pc' = "remove" /\ pc = "idle"
      BY <1>6 DEF Clear, Compact, index, Begin
    <2>2. Tree' = Tree /\ Clearing'
      BY <2>1 DEF Tree, Clearing
    <2>3. \A q \in Readers : Alike(q)
      BY <1>6, WriterAlike
    <2>4. ASSUME NEW q \in Readers, UncachedAt(q) PROVE UncachedAt(q)'
      BY <2>1, <2>2, <2>3, <2>4 DEF UncachedAt, Alike
    <2> QED BY <1>u, <2>1, <2>4
  <1>7. ASSUME RemoveIndex PROVE Uncached'
    BY <1>7, <1>b DEF RemoveIndex
  <1>8. ASSUME Truncate PROVE Uncached'
    <2>1. pc = "truncate" /\ (raced' <=> raced) /\ cached' = cached
      BY <1>8 DEF Truncate, index
    <2>2. raced \/ cached' = 0
      BY <2>1 DEF Control
    <2> QED BY <1>b, <2>1, <2>2 DEF Uncached
  <1>9. ASSUME Reopen PROVE Uncached'
    <2>1. (raced' <=> raced) /\ pc = "reopen"
      BY <1>9 DEF Reopen
    <2> SUFFICES ASSUME ~raced, NEW q \in Readers, UncachedAt(q) PROVE UncachedAt(q)'
      BY <1>u, <2>1
    <2>2. Alike(q)
      BY <1>9, WriterAlike
    <2>3. CASE Opened
      <3>1. reader[q].pc \in {"node", "fetched"} => reader[q].tree # cached'
        BY <1>c, <2>3 DEF Opened, Reading
      <3> QED BY <2>2, <3>1 DEF UncachedAt, Alike
    <2>4. CASE cached # 0 /\ trees' = trees /\ cached' = cached
      BY <2>1, <2>2, <2>4 DEF UncachedAt, Alike
    <2> QED BY <1>9, <2>3, <2>4, ReopenIs
  <1>10. ASSUME NEW r \in Readers, NEW k \in Keys, GetIndex(r, k) PROVE Uncached'
    <2>1. UNCHANGED <<file, pc, disk>> /\ (Clearing' <=> Clearing) /\ (~raced' => ~raced)
      BY <1>10, RacedIs DEF GetIndex, storage, writer, Clearing
    <2>2. Started(r, k) /\ (Opened \/ (cached # 0 /\ trees' = trees /\ cached' = cached))
      BY <1>10, GetIndexIs
    <2>3. UncachedAt(r)'
      BY <1>a, <2>2 DEF Started
    <2>4. ASSUME NEW q \in Readers, UncachedAt(q), q # r PROVE UncachedAt(q)'
      <3>1. Alike(q)
        BY <1>10, <2>4, OtherAlike
      <3>2. CASE Opened
        <4>1. reader[q].pc \in {"node", "fetched"} => reader[q].tree # cached'
          BY <1>c, <3>2 DEF Opened, Reading
        <4> QED BY <3>1, <4>1 DEF UncachedAt, Alike
      <3>3. CASE cached # 0 /\ trees' = trees /\ cached' = cached
        <4>1. Tree' = Tree
          BY <3>3 DEF Tree
        <4> QED BY <2>1, <2>4, <3>1, <3>3, <4>1 DEF UncachedAt, Alike, Full
      <3> QED BY <2>2, <3>2, <3>3
    <2> QED BY <1>v, <2>1, <2>3, <2>4
  <1>11. ASSUME NEW r \in Readers, CacheNode(r) PROVE Uncached'
    <2>1. UNCHANGED <<file, pc, disk, cached>> /\ (raced' <=> raced) /\ (Clearing' <=> Clearing)
      BY <1>11 DEF CacheNode, storage, writer, Clearing
    <2>2. UncachedAt(r)'
      BY <1>11, <1>a, CacheNodeIs DEF Finished, Advanced
    <2>3. cached # 0 /\ ~raced => Tree.prim' = Tree.prim /\ DOMAIN Tree.cache \subseteq DOMAIN Tree.cache'
      BY <1>11, EntriesCached
    <2>4. ASSUME NEW q \in Readers, UncachedAt(q), q # r, ~raced PROVE UncachedAt(q)'
      <3>1. Alike(q)
        BY <1>11, <2>4, OtherAlike
      <3> QED BY <2>1, <2>3, <2>4, <3>1 DEF UncachedAt, Alike, Full
    <2> QED BY <1>v, <2>1, <2>2, <2>4
  <1>12. ASSUME ClaimLeaf PROVE Uncached'
    <2>1. ClaimedStep
      BY <1>12, ClaimLeafIs
    <2>2. /\ UNCHANGED <<cached, disk, file, pc>> /\ (raced' <=> raced) /\ cached # 0
          /\ pc \in {"apply", "insert", "refill"} /\ Claimed(Tree, trees'[cached], change'.page)
      BY <2>1 DEF ClaimedStep, storage
    <2>3. /\ DOMAIN Tree.cache \subseteq DOMAIN Tree.cache'
          /\ Tree.prim = 0 \/ Tree.prim \in DOMAIN Tree.cache'
      <3>1. Tree' = trees'[cached] /\ Tree.prim' \in DOMAIN Tree.cache'
            /\ Tree.prim' = (IF Tree.prim = 0 THEN change'.page ELSE Tree.prim)
        BY <2>1, EntriesClaimed
      <3>2. DOMAIN Tree.cache \subseteq DOMAIN Tree.cache'
        BY <2>2, <3>1 DEF Claimed
      <3> QED BY <3>1, <3>2
    <2>4. \A q \in Readers : Alike(q)
      BY <1>12, WriterAlike
    <2>5. ~Clearing
      BY <2>2 DEF Clearing
    <2> QED BY <1>0, <1>u, <2>2, <2>3, <2>4, <2>5
  <1>q. ASSUME Quiet, NEW r \in Readers, ~raced => UncachedAt(r)', \A q \in Readers : q # r => Alike(q)
        PROVE  Uncached'
    <2>1. UNCHANGED <<file, pc, cached, trees, disk>> /\ (raced' <=> raced) /\ (Clearing' <=> Clearing)
      BY <1>q DEF Quiet, storage, writer, index, Clearing
    <2>2. Tree' = Tree
      BY <2>1 DEF Tree
    <2>3. ASSUME NEW q \in Readers, UncachedAt(q), q # r PROVE UncachedAt(q)'
      <3>1. Alike(q)
        BY <1>q, <2>3
      <3> QED BY <2>1, <2>2, <2>3, <3>1 DEF UncachedAt, Alike, Full
    <2> QED BY <1>v, <1>q, <2>1, <2>3
  <1>13. ASSUME NEW r \in Readers, FindRoot(r) PROVE Uncached'
    <2>1. Quiet /\ \A q \in Readers : q # r => Alike(q)
      BY <1>13, QuietSteps, OtherAlike
    <2>2. ASSUME ~raced PROVE UncachedAt(r)'
      <3>1. CASE Finished(r, <<"missing">>)
        BY <1>a, <3>1 DEF Finished
      <3>2. CASE /\ trees[reader[r].tree].prim # 0
                 /\ Advanced(r, "node", trees[reader[r].tree].prim, reader[r].node, reader[r].ptr, reader[r].events)
        <4>1. UNCHANGED <<pc, cached, trees>>
          BY <2>1 DEF Quiet, writer, index
        <4>2. /\ reader'[r].pc = "node" /\ reader'[r].tree = reader[r].tree
              /\ reader'[r].page = trees[reader[r].tree].prim
          BY <3>2 DEF Advanced
        <4>3. pc = "reopen" /\ cached # 0 => Tree.prim = 0
          BY <2>2 DEF Control
        <4> QED BY <3>2, <4>1, <4>2, <4>3 DEF UncachedAt, Tree
      <3> QED BY <1>13, <3>1, <3>2, FindRootIs
    <2> QED BY <1>q, <2>1, <2>2
  <1>14. ASSUME NEW r \in Readers, FindNode(r) \/ FindTorn(r) \/ ReadRecord(r) PROVE Uncached'
    <2>1. Quiet /\ \A q \in Readers : q # r => Alike(q)
      BY <1>14, QuietSteps, OtherAlike
    <2>2. reader'[r].pc \in {"done", "read"}
      <3>1. CASE FindNode(r)
        BY <3>1, FindNodeIs DEF Finished, Advanced
      <3>2. CASE FindTorn(r)
        BY <3>2, FindTornIs DEF Finished, Advanced
      <3>3. CASE ReadRecord(r)
        BY <3>3, ReadRecordIs DEF Finished, Advanced
      <3> QED BY <1>14, <3>1, <3>2, <3>3
    <2> QED BY <1>a, <1>q, <2>1, <2>2
  <1>15. ASSUME NEW r \in Readers, FetchPage(r) PROVE Uncached'
    <2>1. Quiet /\ \A q \in Readers : q # r => Alike(q)
      BY <1>15, QuietSteps, OtherAlike
    <2>2. ASSUME ~raced PROVE UncachedAt(r)'
      <3>1. CASE Finished(r, <<"error">>)
        BY <1>a, <3>1 DEF Finished
      <3>2. CASE Advanced(r, "fetched", reader[r].page, disk.node[reader[r].page], reader[r].ptr, reader[r].events)
        <4>1. UNCHANGED <<pc, cached, trees, disk, file>> /\ (Clearing' <=> Clearing)
          BY <2>1 DEF Quiet, writer, index, storage, Clearing
        <4>2. /\ reader'[r].pc = "fetched" /\ reader'[r].tree = reader[r].tree
              /\ reader'[r].page = reader[r].page /\ reader'[r].node = disk.node[reader[r].page]
          BY <3>2 DEF Advanced
        <4>3. reader[r].pc = "node" /\ reader[r].page \notin DOMAIN trees[reader[r].tree].cache
          BY <1>15, FetchPageIs
        <4>4. UncachedAt(r) /\ reader[r].page # 0
          BY <1>p, <2>2, <4>3 DEF Uncached
        <4> SUFFICES ASSUME cached # 0, reader[r].tree = cached PROVE UncachedAt(r)'
          BY <4>1, <4>2 DEF UncachedAt
        <4>5. reader[r].page = Tree.prim /\ pc # "reopen" /\ Tree' = Tree /\ reader[r].page \notin DOMAIN Tree.cache
          BY <4>1, <4>3, <4>4 DEF UncachedAt, Tree
        <4>6. ~Clearing => Full(disk.node[reader[r].page])
          BY <2>2, <4>4, <4>5 DEF FullPrimary
        <4> QED BY <4>1, <4>2, <4>5, <4>6 DEF UncachedAt, Full
      <3> QED BY <1>15, <3>1, <3>2, FetchPageIs
    <2> QED BY <1>q, <2>1, <2>2
  <1> QED BY <1>1, <1>3, <1>4, <1>5, <1>6, <1>7, <1>8, <1>9, <1>10, <1>11, <1>12, <1>13, <1>14, <1>15, ReaderSteps

\* Every step keeps PageKept.
LEMMA PageKeptNext ==
  ASSUME IInv, Next
  PROVE  PageKept'
  <1> USE DEF IInv
  <1>c. \A q \in Readers : Reading(q) => reader[q].tree \in DOMAIN trees
    BY DEF CallsInv, CallAt
  <1>p. \A q \in Readers : reader[q].pc = "node" => reader[q].page # 0
    <2>1. \A q \in Readers : reader[q].pc = "node" => reader[q].page \in 3..(trees[reader[q].tree].next - 1)
      BY DEF CallsInv, CallAt, Reading
    <2> QED BY <2>1
  <1>n. NoChange.page = 0
    BY DEF NoChange
  <1>0. ASSUME NEW q \in Readers, Alike(q), KeptAt(q), cached' = cached,
               cached # 0 => \A i \in DOMAIN Tree.free' : Free(Tree, Tree.free'[i]),
               change'.page = 0 \/ (change' = change /\ (cached # 0 => Tree.prim' = Tree.prim))
        PROVE  KeptAt(q)'
    <2> SUFFICES ASSUME reader'[q].pc = "node", reader'[q].tree = cached', cached' # 0, ~Met(q, {"commit", "reuse"})'
                 PROVE  /\ \A i \in DOMAIN Tree.free' : Tree.free'[i] # reader'[q].page
                        /\ change'.page = reader'[q].page => change'.page = Tree.prim'
      BY DEF KeptAt
    <2>1. /\ reader[q].pc = "node" /\ reader[q].tree = cached /\ cached # 0 /\ ~Met(q, {"commit", "reuse"})
          /\ reader'[q].page = reader[q].page /\ reader[q].page # 0
      BY <1>0, <1>p DEF Alike, Met
    <2>2. /\ \A i \in DOMAIN Tree.free : Tree.free[i] # reader[q].page
          /\ change.page = reader[q].page => change.page = Tree.prim
      BY <1>0, <2>1 DEF KeptAt
    <2>3. \A i \in DOMAIN Tree.free' : Tree.free'[i] # reader'[q].page
      BY <1>0, <2>1, <2>2 DEF Free
    <2>4. change'.page = reader'[q].page => change'.page = Tree.prim'
      BY <1>0, <2>1, <2>2
    <2> QED BY <2>3, <2>4
  <1>a. ASSUME NEW q \in Readers, reader'[q].pc # "node" PROVE KeptAt(q)'
    BY <1>a DEF KeptAt
  <1>u. ASSUME ~raced' => ~raced, \A q \in Readers : KeptAt(q) => KeptAt(q)' PROVE PageKept'
    BY <1>u DEF PageKept
  <1>v. ASSUME ~raced' => ~raced, NEW r \in Readers, KeptAt(r)',
               \A q \in Readers : KeptAt(q) /\ q # r => KeptAt(q)'
        PROVE  PageKept'
    BY <1>v DEF PageKept
  <1>s. ASSUME Tree' = Tree PROVE \A i \in DOMAIN Tree.free' : Free(Tree, Tree.free'[i])
    BY <1>s DEF Free
  <1>1. ASSUME \E keys \in SUBSET Keys : AppendRecords(keys) \/ Clear \/ Compact \/ Truncate PROVE PageKept'
    <2>1. UNCHANGED <<trees, cached, change>> /\ (raced' <=> raced)
      BY <1>1 DEF AppendRecords, Clear, Compact, Truncate, index
    <2>2. Tree' = Tree
      BY <2>1 DEF Tree
    <2>3. \A q \in Readers : Alike(q)
      BY <1>1, WriterAlike
    <2> QED BY <1>0, <1>s, <1>u, <2>1, <2>2, <2>3
  <1>2. ASSUME NEW entries, Replaced(Tree, trees'[cached], entries), \A q \in Readers : Alike(q),
               cached' = cached, raced' <=> raced, change' = NoChange
        PROVE  PageKept'
    <2>1. \A i \in DOMAIN Tree.free' : Free(Tree, Tree.free'[i])
      BY <1>2 DEF Replaced, Tree
    <2> QED BY <1>0, <1>2, <1>n, <1>u, <2>1
  <1>3. ASSUME NEW k \in Keys, ShadowDelete(k) PROVE PageKept'
    <2>1. (raced' <=> raced) /\ \A q \in Readers : Alike(q)
      BY <1>3, WriterAlike DEF ShadowDelete
    <2> QED BY <1>2, <1>3, <2>1, DeleteIs
  <1>4. ASSUME NEW k \in Keys, ShadowInsert(k) PROVE PageKept'
    <2>1. (raced' <=> raced) /\ \A q \in Readers : Alike(q)
      BY <1>4, WriterAlike DEF ShadowInsert
    <2> QED BY <1>2, <1>4, <2>1, InsertIs
  <1>5. ASSUME ShadowCommit PROVE PageKept'
    <2>1. raced' <=> raced
      BY <1>5 DEF ShadowCommit
    <2>2. ASSUME NEW q \in Readers PROVE KeptAt(q)'
      <3>1. Alike(q) /\ (Reading(q) => "commit" \in reader'[q].events)
        BY <1>5, WriterAlike, CommitIs
      <3> QED BY <3>1 DEF KeptAt, Met, Alike, Reading
    <2> QED BY <1>u, <2>1, <2>2
  <1>6. ASSUME RemoveIndex PROVE PageKept'
    BY <1>6 DEF RemoveIndex, PageKept, KeptAt
  <1>7. ASSUME NEW q \in Readers, Alike(q), KeptAt(q), change' = change,
               Opened \/ (cached # 0 /\ trees' = trees /\ cached' = cached)
        PROVE  KeptAt(q)'
    <2>1. CASE Opened
      <3>1. reader[q].pc = "node" => reader[q].tree # cached'
        BY <1>c, <2>1 DEF Opened, Reading
      <3> QED BY <1>7, <3>1 DEF KeptAt, Alike
    <2>2. CASE cached # 0 /\ trees' = trees /\ cached' = cached
      <3>1. Tree' = Tree
        BY <2>2 DEF Tree
      <3> QED BY <1>0, <1>7, <1>s, <2>2, <3>1
    <2> QED BY <1>7, <2>1, <2>2
  <1>8. ASSUME Reopen PROVE PageKept'
    <2>1. (raced' <=> raced) /\ change' = change /\ \A q \in Readers : Alike(q)
      BY <1>8, WriterAlike DEF Reopen
    <2> QED BY <1>7, <1>8, <1>u, <2>1, ReopenIs
  <1>9. ASSUME NEW r \in Readers, NEW k \in Keys, GetIndex(r, k) PROVE PageKept'
    <2>1. (~raced' => ~raced) /\ change' = change /\ \A q \in Readers : q # r => Alike(q)
      BY <1>9, RacedIs, OtherAlike DEF GetIndex, writer
    <2>2. Started(r, k) /\ (Opened \/ (cached # 0 /\ trees' = trees /\ cached' = cached))
      BY <1>9, GetIndexIs
    <2>3. KeptAt(r)'
      BY <1>a, <2>2 DEF Started
    <2> QED BY <1>7, <1>v, <2>1, <2>2, <2>3
  <1>10. ASSUME NEW r \in Readers, CacheNode(r) PROVE PageKept'
    <2>1. (raced' <=> raced) /\ cached' = cached /\ change' = change /\ \A q \in Readers : q # r => Alike(q)
      BY <1>10, OtherAlike DEF CacheNode, writer
    <2>2. KeptAt(r)'
      BY <1>10, <1>a, CacheNodeIs DEF Finished, Advanced
    <2>3. cached # 0 => Tree.free' = Tree.free /\ Tree.prim' = Tree.prim
      <3>1. cached # 0 => cached \in DOMAIN trees
        BY DEF Types
      <3> QED BY <1>10, <2>1, <3>1, CacheNodeIs DEF Tree
    <2>4. cached # 0 => \A i \in DOMAIN Tree.free' : Free(Tree, Tree.free'[i])
      BY <2>3 DEF Free
    <2> QED BY <1>0, <1>v, <2>1, <2>2, <2>3, <2>4
  <1>q. ASSUME Quiet, NEW r \in Readers, KeptAt(r)', \A q \in Readers : q # r => Alike(q)
        PROVE  PageKept'
    <2>1. UNCHANGED <<cached, trees, change>> /\ (raced' <=> raced)
      BY <1>q DEF Quiet, index, writer
    <2>2. Tree' = Tree
      BY <2>1 DEF Tree
    <2> QED BY <1>0, <1>s, <1>v, <1>q, <2>1, <2>2
  <1>11. ASSUME NEW r \in Readers, FindRoot(r) PROVE PageKept'
    <2>1. Quiet /\ \A q \in Readers : q # r => Alike(q)
      BY <1>11, QuietSteps, OtherAlike
    <2>2. KeptAt(r)'
      <3>1. CASE Finished(r, <<"missing">>)
        BY <1>a, <3>1 DEF Finished
      <3>2. CASE Advanced(r, "node", trees[reader[r].tree].prim, reader[r].node, reader[r].ptr, reader[r].events)
        <4>1. UNCHANGED <<cached, trees>>
          BY <2>1 DEF Quiet, index
        <4>2. reader'[r].tree = reader[r].tree /\ reader'[r].page = trees[reader[r].tree].prim
          BY <3>2 DEF Advanced
        <4>3. cached # 0 => \A i \in DOMAIN Tree.free : Tree.free[i] # Tree.prim
          BY DEF TreesInv, Owned, Unused
        <4> QED BY <4>1, <4>2, <4>3 DEF KeptAt, Tree
      <3> QED BY <1>11, <3>1, <3>2, FindRootIs
    <2> QED BY <1>q, <2>1, <2>2
  <1>12. ASSUME NEW r \in Readers, FindNode(r) \/ FindTorn(r) \/ ReadRecord(r) \/ FetchPage(r) PROVE PageKept'
    <2>1. Quiet /\ \A q \in Readers : q # r => Alike(q)
      BY <1>12, QuietSteps, OtherAlike
    <2>2. reader'[r].pc \in {"done", "read", "fetched"}
      <3>1. CASE FindNode(r)
        BY <3>1, FindNodeIs DEF Finished, Advanced
      <3>2. CASE FindTorn(r)
        BY <3>2, FindTornIs DEF Finished, Advanced
      <3>3. CASE ReadRecord(r)
        BY <3>3, ReadRecordIs DEF Finished, Advanced
      <3>4. CASE FetchPage(r)
        BY <3>4, FetchPageIs DEF Finished, Advanced
      <3> QED BY <1>12, <3>1, <3>2, <3>3, <3>4
    <2> QED BY <1>a, <1>q, <2>1, <2>2
  <1>13. ASSUME ClaimLeaf PROVE PageKept'
    <2>1. ClaimedStep
      BY <1>13, ClaimLeafIs
    <2>2. /\ cached' = cached /\ (raced' <=> raced) /\ reader' = reader
          /\ Claimed(Tree, trees'[cached], change'.page)
      BY <2>1 DEF ClaimedStep
    <2>3. Tree' = trees'[cached] /\ Tree.prim' = (IF Tree.prim = 0 THEN change'.page ELSE Tree.prim)
      BY <2>1, EntriesClaimed
    <2>4. ASSUME NEW q \in Readers, KeptAt(q) PROVE KeptAt(q)'
      <3> SUFFICES ASSUME reader[q].pc = "node", reader[q].tree = cached, cached # 0, ~Met(q, {"commit", "reuse"})
                   PROVE  /\ \A i \in DOMAIN Tree.free' : Tree.free'[i] # reader[q].page
                          /\ change'.page = reader[q].page => change'.page = Tree.prim'
        BY <2>2 DEF KeptAt, Met
      <3>1. ~Free(Tree, reader[q].page)
        BY <2>4 DEF KeptAt, Free
      <3>2. \A i \in DOMAIN Tree.free' : Free(Tree, Tree.free'[i])
        BY <2>2, <2>3 DEF Claimed
      <3>3. change'.page = Tree.prim \/ change'.page >= Tree.next \/ Free(Tree, change'.page)
        BY <2>2 DEF Claimed
      <3>4. ~(reader[q].page >= Tree.next)
        <4>1. reader[q].page \in 3..(Tree.next - 1)
          BY DEF CallsInv, CallAt, Tree, Reading
        <4>2. Tree.next \in Nat
          BY TreeType, TreeFields
        <4> QED BY <4>1, <4>2
      <3>5. change'.page = reader[q].page => change'.page = Tree.prim'
        BY <2>3, <3>1, <3>3, <3>4
      <3> QED BY <3>1, <3>2, <3>5
    <2> QED BY <1>u, <2>2, <2>4
  <1> QED BY <1>1, <1>3, <1>4, <1>5, <1>6, <1>8, <1>9, <1>10, <1>11, <1>12, <1>13, ReaderSteps

\* A call that has met nothing which would excuse a record it misses.
Unexcused(q) == Reading(q) /\ 0 \notin reader[q].seen /\ ~Met(q, {"update", "torn", "reuse", "compact"})

\* Such a call has the open index, which has its key.
LEMMA Calm ==
  ASSUME IInv, NEW q \in Readers, Unexcused(q)
  PROVE  /\ ~raced /\ ~Clearing /\ cached # 0 /\ reader[q].tree = cached
         /\ reader[q].key \in Keys /\ reader[q].key \notin Waiting
         /\ pc # "idle" => "commit" \notin reader[q].events
         /\ "reuse" \notin reader[q].events
         /\ Entries(Tree)[reader[q].key] # 0 /\ version[reader[q].key] # 0
  <1> USE DEF IInv
  <1>1. /\ Reading(q) /\ 0 \notin reader[q].seen /\ "update" \notin reader[q].events
        /\ "reuse" \notin reader[q].events /\ "compact" \notin reader[q].events
    BY DEF Unexcused, Met
  <1>2. EventsAt(q) /\ reader[q].key \in Keys
    BY <1>1 DEF EventsInv, CallsInv, CallAt
  <1>3. "clear" \notin reader[q].events /\ ~Met(q, {"clear", "compact"})
    BY <1>1, <1>2 DEF EventsAt, Met
  <1>4. ~Clearing
    BY <1>1, <1>2, <1>3 DEF EventsAt
  <1>5. version[reader[q].key] # 0
    BY <1>1, <1>2 DEF EventsAt
  <1>6. pc # "stop"
    BY <1>1, <1>2 DEF EventsAt, Control
  <1>7. ~raced
    BY <1>2, <1>4, <1>5, <1>6 DEF Control, Clearing
  <1>8. cached # 0 /\ reader[q].tree = cached
    BY <1>1, <1>2, <1>3, <1>4, <1>7 DEF Control, Clearing, EventsAt
  <1>9. reader[q].key \notin Waiting
    <2>1. pc \in {"idle", "commit", "apply", "insert", "refill"}
      BY <1>4, <1>6 DEF Types, Clearing
    <2> QED BY <1>1, <1>2, <2>1 DEF Control, EventsAt
  <1>10. Entries(Tree)[reader[q].key] # 0
    BY <1>2, <1>4, <1>5, <1>7, <1>8, <1>9 DEF Present, PresentAt
  <1>11. pc # "idle" => "commit" \notin reader[q].events
    BY <1>1, <1>2 DEF EventsAt
  <1> QED BY <1>1, <1>2, <1>4, <1>5, <1>7, <1>8, <1>9, <1>10, <1>11

\* What a page of the open index has for a key after the writer has changed one entry.
LEMMA PageChanged ==
  ASSUME IInv, NEW k \in Keys, NEW e \in Nat, NEW q \in Readers, ~raced, ~Clearing,
         Replaced(Tree, trees'[cached], [change.entries EXCEPT ![k] = e]),
         reader[q].pc = "node", reader[q].tree = cached, cached # 0, reader[q].key \in Keys,
         reader[q].page \in DOMAIN trees'[cached].cache
  PROVE  LET x == trees'[cached].cache[reader[q].page].entries[reader[q].key]
         IN  \/ /\ reader[q].page \in DOMAIN Tree.cache
                /\ x = Tree.cache[reader[q].page].entries[reader[q].key]
             \/ /\ x = IF reader[q].key = k THEN e ELSE change.entries[reader[q].key]
                /\ reader[q].page = change.page
             \/ x = 0 /\ Free(Tree, reader[q].page)
             \/ /\ reader[q].page \notin DOMAIN Tree.cache /\ x = disk.node[reader[q].page].entries[reader[q].key]
                /\ x \in DOMAIN file
  <1> USE DEF IInv
  <1> DEFINE p == reader[q].page
             v == trees'[cached]
             new == [change.entries EXCEPT ![k] = e]
  <1>1. \/ p \in DOMAIN Tree.cache /\ v.cache[p] = Tree.cache[p]
        \/ v.cache[p] = Leaf(writes, new) /\ p = change.page
        \/ v.cache[p] = Leaf(writes, NoEntries) /\ (p >= Tree.next \/ Free(Tree, p))
        \/ p \notin DOMAIN Tree.cache /\ v.cache[p] = disk.node[p]
    BY DEF Replaced
  <1>2. ~(p >= Tree.next)
    <2>1. p \in 3..(Tree.next - 1)
      BY DEF CallsInv, CallAt, Tree, Reading
    <2>2. Tree.next \in Nat
      BY TreeType, TreeFields
    <2> QED BY <2>1, <2>2
  <1>3. Leaf(writes, new).entries = new /\ new[reader[q].key] = IF reader[q].key = k THEN e ELSE change.entries[reader[q].key]
    BY DEF Leaf, Types
  <1>4. Leaf(writes, NoEntries).entries[reader[q].key] = 0
    BY DEF Leaf, NoEntries
  <1>5. p \notin DOMAIN Tree.cache => disk.node[p].entries[reader[q].key] \in DOMAIN file
    <2>1. p # 0
      BY DEF CallsInv, CallAt, Reading
    <2>2. p \notin DOMAIN Tree.cache => p = Tree.prim
      BY DEF Uncached, UncachedAt
    <2> QED BY <2>1, <2>2 DEF FullPrimary, Full
  <1> HIDE DEF p, v, new
  <1> QED BY <1>1, <1>2, <1>3, <1>4, <1>5 DEF p, v

\* The same after the writer has claimed a leaf.
LEMMA PageClaimed ==
  ASSUME IInv, NEW q \in Readers, ~raced, ~Clearing, Claimed(Tree, trees'[cached], change'.page),
         reader[q].pc = "node", reader[q].tree = cached, cached # 0, reader[q].key \in Keys,
         reader[q].page \in DOMAIN trees'[cached].cache
  PROVE  LET x == trees'[cached].cache[reader[q].page].entries[reader[q].key]
         IN  \/ /\ reader[q].page \in DOMAIN Tree.cache
                /\ x = Tree.cache[reader[q].page].entries[reader[q].key]
             \/ x = 0 /\ Free(Tree, reader[q].page)
             \/ /\ reader[q].page \notin DOMAIN Tree.cache /\ x = disk.node[reader[q].page].entries[reader[q].key]
                /\ x \in DOMAIN file
  <1> USE DEF IInv
  <1> DEFINE p == reader[q].page
             v == trees'[cached]
  <1>1. \/ p \in DOMAIN Tree.cache /\ v.cache[p] = Tree.cache[p]
        \/ v.cache[p] = Leaf(writes, NoEntries) /\ (p >= Tree.next \/ Free(Tree, p))
        \/ p \notin DOMAIN Tree.cache /\ v.cache[p] = disk.node[p]
    BY DEF Claimed
  <1>2. ~(p >= Tree.next)
    <2>1. p \in 3..(Tree.next - 1)
      BY DEF CallsInv, CallAt, Tree, Reading
    <2>2. Tree.next \in Nat
      BY TreeType, TreeFields
    <2> QED BY <2>1, <2>2
  <1>3. Leaf(writes, NoEntries).entries[reader[q].key] = 0
    BY DEF Leaf, NoEntries
  <1>4. p \notin DOMAIN Tree.cache => disk.node[p].entries[reader[q].key] \in DOMAIN file
    <2>1. p # 0
      BY DEF CallsInv, CallAt, Reading
    <2>2. p \notin DOMAIN Tree.cache => p = Tree.prim
      BY DEF Uncached, UncachedAt
    <2> QED BY <2>1, <2>2 DEF FullPrimary, Full
  <1> HIDE DEF p, v
  <1> QED BY <1>1, <1>2, <1>3, <1>4 DEF p, v

\* What a page in the cache of the open index has once a reader has put its node there.
LEMMA PageCached ==
  ASSUME IInv, NEW r \in Readers, CacheNode(r), NEW i \in DOMAIN trees, NEW page \in DOMAIN trees'[i].cache
  PROVE  \/ page \in DOMAIN trees[i].cache /\ trees'[i].cache[page] = trees[i].cache[page]
         \/ reader[r].tree = i /\ page = reader[r].page /\ trees'[i].cache[page] = reader[r].node
  <1> USE DEF IInv
  <1>1. /\ \A j \in DOMAIN trees : j # reader[r].tree => trees'[j] = trees[j]
        /\ IsPut(trees'[reader[r].tree].cache, trees[reader[r].tree].cache, reader[r].page, reader[r].node)
    BY CacheNodeIs
  <1> QED BY <1>1 DEF IsPut

\* Every step keeps MissInv.
LEMMA MissNext ==
  ASSUME IInv, Next
  PROVE  MissInv'
  <1> USE DEF IInv
  <1>c. \A q \in Readers : Reading(q) => reader[q].tree \in DOMAIN trees
    BY DEF CallsInv, CallAt
  \* A call that goes on: only what its page has can change.
  <1>0. ASSUME NEW q \in Readers, Alike(q),
               Unexcused(q) /\ reader[q].pc = "node" /\ reader[q].page \in DOMAIN trees'[reader[q].tree].cache =>
                   trees'[reader[q].tree].cache[reader[q].page].entries[reader[q].key] # 0
        PROVE  MissAt(q)'
    <2> SUFFICES ASSUME Unexcused(q)' PROVE MissAt(q)'
      BY DEF MissAt, Unexcused
    <2>1. Unexcused(q)
      BY <1>0 DEF Unexcused, Alike, Met, Reading
    <2>2. MissAt(q)
      BY DEF MissInv
    <2> QED BY <1>0, <2>1, <2>2 DEF MissAt, Alike, Unexcused
  <1>a. ASSUME NEW q \in Readers, Alike(q), Reading(q) => trees'[reader[q].tree].cache = trees[reader[q].tree].cache
        PROVE  MissAt(q)'
    <2>1. MissAt(q)
      BY DEF MissInv
    <2> QED BY <1>0, <1>a, <2>1 DEF MissAt, Unexcused
  <1>b. ASSUME NEW q \in Readers, ~(reader'[q].pc \in {"node", "read"}) PROVE MissAt(q)'
    BY <1>b DEF MissAt
  <1>v. ASSUME NEW r \in Readers, MissAt(r)', \A q \in Readers : q # r => MissAt(q)' PROVE MissInv'
    BY <1>v DEF MissInv
  <1>1. ASSUME (\E keys \in SUBSET Keys : AppendRecords(keys)) \/ Clear \/ Compact \/ Truncate PROVE MissInv'
    <2>1. trees' = trees /\ \A q \in Readers : Alike(q)
      BY <1>1, WriterAlike DEF AppendRecords, Clear, Compact, Truncate, index
    <2> QED BY <1>a, <2>1 DEF MissInv
  <1>2. ASSUME NEW k \in Keys, NEW e \in Nat, cached # 0, ~raced, \A q \in Readers : Alike(q),
               Replaced(Tree, trees'[cached], [change.entries EXCEPT ![k] = e]),
               k \in todo, pc \in {"apply", "insert", "refill"}, change.page # 0
        PROVE  MissInv'
    <2> SUFFICES ASSUME NEW q \in Readers PROVE MissAt(q)'
      BY DEF MissInv
    <2> SUFFICES ASSUME Unexcused(q), reader[q].pc = "node", reader[q].page \in DOMAIN trees'[reader[q].tree].cache
                 PROVE  trees'[reader[q].tree].cache[reader[q].page].entries[reader[q].key] # 0
      BY <1>0, <1>2
    <2>1. /\ ~raced /\ ~Clearing /\ cached # 0 /\ reader[q].tree = cached
          /\ reader[q].key \in Keys /\ reader[q].key \notin Waiting
          /\ pc # "idle" => "commit" \notin reader[q].events
          /\ "reuse" \notin reader[q].events
          /\ version[reader[q].key] # 0
      BY Calm
    <2>2. k \in Waiting
      BY <1>2 DEF Control
    <2>3. ~Free(Tree, reader[q].page)
      <3>1. ~Met(q, {"commit", "reuse"})
        BY <1>2, <2>1 DEF Met
      <3> QED BY <2>1, <3>1 DEF PageKept, KeptAt, Free
    <2>4. change.entries[reader[q].key] # 0
      BY <1>2, <2>1 DEF ChangeInv, PresentAt
    <2>5. /\ MissAt(q)
          /\ reader[q].page \in DOMAIN Tree.cache => Tree.cache[reader[q].page].entries[reader[q].key] # 0
      BY <2>1 DEF MissInv, MissAt, Unexcused, Tree
    <2>6. ~(0 \in DOMAIN file)
      BY DEF Types
    <2> QED BY <1>2, <2>1, <2>2, <2>3, <2>4, <2>5, <2>6, PageChanged
  <1>3. ASSUME NEW k \in Keys, ShadowDelete(k) PROVE MissInv'
    <2>1. \A q \in Readers : Alike(q)
      BY <1>3, WriterAlike
    <2> QED BY <1>2, <1>3, <2>1, DeleteIs
  <1>4. ASSUME NEW k \in Keys, ShadowInsert(k) PROVE MissInv'
    <2>1. pc \in {"apply", "insert", "refill"} /\ \A q \in Readers : Alike(q)
      BY <1>4, WriterAlike DEF ShadowInsert
    <2> QED BY <1>2, <1>4, <2>1, InsertIs
  <1>5. ASSUME ShadowCommit PROVE MissInv'
    <2>1. \A q \in Readers : Alike(q)
      BY <1>5, WriterAlike
    <2>2. \A j \in DOMAIN trees : trees'[j].cache = trees[j].cache
      <3>1. CommitTree(Tree, trees'[cached]) /\ \A j \in DOMAIN trees : j # cached => trees'[j] = trees[j]
        BY <1>5, CommitIs
      <3> QED BY <3>1 DEF CommitTree, Tree
    <2> QED BY <1>a, <1>c, <2>1, <2>2 DEF MissInv
  <1>6. ASSUME RemoveIndex PROVE MissInv'
    <2>1. \A q \in Readers : Alike(q)
      BY <1>6, WriterAlike
    <2>2. \A j \in DOMAIN trees : trees'[j].cache = trees[j].cache
      BY <1>6, RemoveIndexIs DEF Tree
    <2> QED BY <1>a, <1>c, <2>1, <2>2 DEF MissInv
  <1>7. ASSUME Reopen PROVE MissInv'
    <2>1. \A q \in Readers : Alike(q)
      BY <1>7, WriterAlike
    <2>2. \A j \in DOMAIN trees : trees'[j].cache = trees[j].cache
      BY <1>7, ReopenIs DEF Opened
    <2> QED BY <1>a, <1>c, <2>1, <2>2 DEF MissInv
  <1>8. ASSUME NEW r \in Readers, NEW k \in Keys, GetIndex(r, k) PROVE MissInv'
    <2>1. \A q \in Readers : q # r => Alike(q)
      BY <1>8, OtherAlike
    <2>2. \A j \in DOMAIN trees : trees'[j].cache = trees[j].cache
      BY <1>8, GetIndexIs DEF Opened
    <2>3. MissAt(r)'
      BY <1>8, <1>b, GetIndexIs DEF Started
    <2> QED BY <1>a, <1>c, <1>v, <2>1, <2>2, <2>3
  <1>9. ASSUME NEW r \in Readers, CacheNode(r) PROVE MissInv'
    <2>1. MissAt(r)'
      <3>1. CASE Finished(r, <<"missing">>)
        BY <1>b, <3>1 DEF Finished
      <3>2. CASE /\ reader[r].node.entries[reader[r].key] # 0
                 /\ Advanced(r, "read", reader[r].page, reader[r].node, reader[r].node.entries[reader[r].key],
                             reader[r].events)
        BY <3>2 DEF Advanced, MissAt
      <3> QED BY <1>9, <3>1, <3>2, CacheNodeIs
    <2>2. ASSUME NEW q \in Readers, q # r PROVE MissAt(q)'
      <3>1. Alike(q)
        BY <1>9, <2>2, OtherAlike
      <3> SUFFICES ASSUME Unexcused(q), reader[q].pc = "node", reader[q].page \in DOMAIN trees'[reader[q].tree].cache
                   PROVE  trees'[reader[q].tree].cache[reader[q].page].entries[reader[q].key] # 0
        BY <1>0, <3>1
      <3>2. ~raced /\ ~Clearing /\ cached # 0 /\ reader[q].tree = cached /\ reader[q].key \in Keys /\ cached \in DOMAIN trees
        BY Calm DEF Types
      <3>3. CASE /\ reader[q].page \in DOMAIN trees[cached].cache
                 /\ trees'[cached].cache[reader[q].page] = trees[cached].cache[reader[q].page]
        BY <3>2, <3>3 DEF MissInv, MissAt, Unexcused
      <3>4. CASE reader[r].tree = cached /\ trees'[cached].cache[reader[q].page] = reader[r].node
        <4>1. reader[r].pc = "fetched"
          BY <1>9, CacheNodeIs
        <4>2. Full(reader[r].node)
          BY <3>2, <3>4, <4>1 DEF Uncached, UncachedAt
        <4>3. ~(0 \in DOMAIN file)
          BY DEF Types
        <4> QED BY <3>2, <3>4, <4>2, <4>3 DEF Full
      <3> QED BY <1>9, <3>2, <3>3, <3>4, PageCached
    <2> QED BY <1>v, <2>1, <2>2
  <1>q. ASSUME Quiet, NEW r \in Readers, MissAt(r)', \A q \in Readers : q # r => Alike(q) PROVE MissInv'
    <2>1. trees' = trees
      BY <1>q DEF Quiet, index
    <2> QED BY <1>a, <1>v, <1>q, <2>1
  <1>10. ASSUME NEW r \in Readers, FindRoot(r) PROVE MissInv'
    <2>1. Quiet /\ \A q \in Readers : q # r => Alike(q)
      BY <1>10, QuietSteps, OtherAlike
    <2>2. MissAt(r)'
      <3>1. CASE Finished(r, <<"missing">>)
        BY <1>b, <3>1 DEF Finished
      <3>2. CASE /\ trees[reader[r].tree].prim # 0
                 /\ Advanced(r, "node", trees[reader[r].tree].prim, reader[r].node, reader[r].ptr, reader[r].events)
        <4>1. /\ reader'[r].pc = "node" /\ reader'[r].tree = reader[r].tree /\ reader'[r].key = reader[r].key
              /\ reader'[r].page = trees[reader[r].tree].prim
              /\ reader'[r].events = reader[r].events /\ reader'[r].seen = reader[r].seen
          BY <3>2 DEF Advanced
        <4> SUFFICES ASSUME Unexcused(r)' PROVE MissAt(r)'
          BY DEF MissAt, Unexcused
        <4>2. Reading(r) /\ trees' = trees
          BY <1>10, <2>1, FindRootIs DEF Quiet, index
        <4>3. Unexcused(r)
          BY <4>1, <4>2 DEF Unexcused, Met
        <4>4. reader[r].tree = cached /\ Entries(Tree)[reader[r].key] # 0
          BY <4>3, Calm
        <4> QED BY <3>2, <4>1, <4>2, <4>4 DEF MissAt, Entries, Tree, Node, InCache
      <3> QED BY <1>10, <3>1, <3>2, FindRootIs
    <2> QED BY <1>q, <2>1, <2>2
  <1>11. ASSUME NEW r \in Readers, FindNode(r) PROVE MissInv'
    <2>1. Quiet /\ \A q \in Readers : q # r => Alike(q)
      BY <1>11, QuietSteps, OtherAlike
    <2>2. MissAt(r)'
      <3>1. CASE Finished(r, <<"missing">>)
        BY <1>b, <3>1 DEF Finished
      <3>2. ASSUME NEW ptr, ptr # 0, Advanced(r, "read", reader[r].page, reader[r].node, ptr, reader[r].events)
            PROVE  MissAt(r)'
        BY <3>2 DEF Advanced, MissAt
      <3> QED BY <1>11, <3>1, <3>2, FindNodeIs
    <2> QED BY <1>q, <2>1, <2>2
  <1>12. ASSUME NEW r \in Readers, FindTorn(r) PROVE MissInv'
    <2>1. Quiet /\ \A q \in Readers : q # r => Alike(q)
      BY <1>12, QuietSteps, OtherAlike
    <2>2. "torn" \in reader'[r].events
      BY <1>12, FindTornIs DEF Advanced
    <2>3. MissAt(r)'
      BY <2>2 DEF MissAt, Met
    <2> QED BY <1>q, <2>1, <2>3
  <1>13. ASSUME NEW r \in Readers, ReadRecord(r) \/ FetchPage(r) PROVE MissInv'
    <2>1. Quiet /\ \A q \in Readers : q # r => Alike(q)
      BY <1>13, QuietSteps, OtherAlike
    <2>2. reader'[r].pc \in {"done", "fetched"}
      <3>1. CASE ReadRecord(r)
        BY <3>1, ReadRecordIs DEF Finished, Advanced
      <3>2. CASE FetchPage(r)
        BY <3>2, FetchPageIs DEF Finished, Advanced
      <3> QED BY <1>13, <3>1, <3>2
    <2> QED BY <1>b, <1>q, <2>1, <2>2
  <1>14. ASSUME ClaimLeaf PROVE MissInv'
    <2> SUFFICES ASSUME NEW q \in Readers PROVE MissAt(q)'
      BY DEF MissInv
    <2>1. Alike(q)
      BY <1>14, WriterAlike
    <2> SUFFICES ASSUME Unexcused(q), reader[q].pc = "node", reader[q].page \in DOMAIN trees'[reader[q].tree].cache
                 PROVE  trees'[reader[q].tree].cache[reader[q].page].entries[reader[q].key] # 0
      BY <1>0, <2>1
    <2>2. pc \in {"apply", "insert", "refill"} /\ Claimed(Tree, trees'[cached], change'.page)
      BY <1>14, ClaimLeafIs DEF ClaimedStep
    <2>3. /\ ~raced /\ ~Clearing /\ cached # 0 /\ reader[q].tree = cached
          /\ reader[q].key \in Keys
          /\ pc # "idle" => "commit" \notin reader[q].events
          /\ "reuse" \notin reader[q].events
      BY Calm
    <2>4. ~Free(Tree, reader[q].page)
      <3>1. ~Met(q, {"commit", "reuse"})
        BY <2>2, <2>3 DEF Met
      <3> QED BY <2>3, <3>1 DEF PageKept, KeptAt, Free
    <2>5. reader[q].page \in DOMAIN Tree.cache => Tree.cache[reader[q].page].entries[reader[q].key] # 0
      BY <2>3 DEF MissInv, MissAt, Unexcused, Tree
    <2>6. ~(0 \in DOMAIN file)
      BY DEF Types
    <2> QED BY <2>2, <2>3, <2>4, <2>5, <2>6, PageClaimed
  <1> QED BY <1>1, <1>3, <1>4, <1>5, <1>6, <1>7, <1>8, <1>9, <1>10, <1>11, <1>12, <1>13, <1>14, ReaderSteps

\* A call that has met nothing which would excuse an error.
Smooth(q) == Reading(q) /\ ~Met(q, {"torn", "clear", "compact"})

\* Such a call has the open index.
LEMMA SmoothIs ==
  ASSUME IInv, NEW q \in Readers, Smooth(q), ~raced
  PROVE  /\ ~Clearing /\ cached # 0 /\ reader[q].tree = cached /\ cached \in DOMAIN trees
         /\ reader[q].key \in Keys
         /\ PresentAt(Entries(Tree)[reader[q].key], reader[q].key)
         /\ Entries(Tree) \in [Keys -> Nat]
  <1> USE DEF IInv
  <1>1. EventsAt(q) /\ reader[q].key \in Keys /\ ~Met(q, {"clear", "compact"}) /\ Reading(q)
    BY DEF EventsInv, CallsInv, CallAt, Smooth, Met
  <1>2. ~Clearing /\ reader[q].tree = cached
    BY <1>1 DEF EventsAt
  <1>3. cached # 0
    BY <1>2 DEF Control, Clearing
  <1>4. PresentAt(Entries(Tree)[reader[q].key], reader[q].key)
    BY <1>1, <1>2, <1>3 DEF Present
  <1> QED BY <1>1, <1>2, <1>3, <1>4, TreeType

\* Every step keeps ErrInv.
LEMMA ErrNext ==
  ASSUME IInv, Next
  PROVE  ErrInv'
  <1> USE DEF IInv
  <1>c. \A q \in Readers : Reading(q) => reader[q].tree \in DOMAIN trees
    BY DEF CallsInv, CallAt
  <1>e. \A q \in Readers : ~raced => ErrAt(q)
    BY DEF ErrInv
  \* A call that goes on: only what its page has can change.
  <1>0. ASSUME NEW q \in Readers, Alike(q), ~raced, DOMAIN file \subseteq DOMAIN file',
               Smooth(q) /\ reader[q].pc = "node" /\ reader[q].page \in DOMAIN trees'[reader[q].tree].cache =>
                   Within(trees'[reader[q].tree].cache[reader[q].page].entries[reader[q].key])
        PROVE  ErrAt(q)'
    <2> SUFFICES ASSUME Smooth(q)' PROVE ErrAt(q)'
      BY DEF ErrAt, Smooth
    <2>1. Smooth(q)
      BY <1>0 DEF Smooth, Alike, Met, Reading
    <2>2. ErrAt(q)
      BY <1>0, <1>e
    <2>4. /\ reader[q].pc = "node" /\ reader[q].page \in DOMAIN trees'[reader[q].tree].cache =>
                 Within(trees'[reader[q].tree].cache[reader[q].page].entries[reader[q].key])
          /\ reader[q].pc = "read" => Within(reader[q].ptr)
      BY <1>0, <2>1, <2>2 DEF ErrAt, Smooth
    <2>5. /\ reader'[q].pc = "node" /\ reader'[q].page \in DOMAIN trees'[reader'[q].tree].cache =>
                 Within(trees[reader[q].tree].cache[reader[q].page].entries[reader[q].key])'
          /\ reader'[q].pc = "read" => Within(reader[q].ptr)'
      BY <1>0, <2>4 DEF Alike, Within
    <2> QED BY <2>5 DEF ErrAt
  <1>a. ASSUME NEW q \in Readers, Alike(q), ~raced, DOMAIN file \subseteq DOMAIN file',
               Reading(q) => trees'[reader[q].tree].cache = trees[reader[q].tree].cache
        PROVE  ErrAt(q)'
    <2>1. ErrAt(q)
      BY <1>a, <1>e
    <2> QED BY <1>0, <1>a, <2>1 DEF ErrAt, Smooth
  <1>b. ASSUME NEW q \in Readers, ~(reader'[q].pc \in {"node", "read"}) \/ ~Smooth(q)' PROVE ErrAt(q)'
    BY <1>b DEF ErrAt, Smooth
  <1>v. ASSUME ~raced' => ~raced, NEW r \in Readers, ~raced => ErrAt(r)',
               ~raced => \A q \in Readers : q # r => ErrAt(q)'
        PROVE  ErrInv'
    BY <1>v DEF ErrInv
  <1>1. ASSUME NEW keys \in SUBSET Keys, AppendRecords(keys) PROVE ErrInv'
    <2>1. trees' = trees /\ (\A q \in Readers : Alike(q)) /\ (raced' <=> raced)
      BY <1>1, WriterAlike DEF AppendRecords, index
    <2>2. DOMAIN file \subseteq DOMAIN file'
      BY <1>1, AppendRecordsIs DEF Grown
    <2> QED BY <1>a, <2>1, <2>2 DEF ErrInv
  <1>2. ASSUME NEW k \in Keys, NEW e \in Nat, cached # 0, ~raced, \A q \in Readers : Alike(q),
               Replaced(Tree, trees'[cached], [change.entries EXCEPT ![k] = e]),
               Within(e), file' = file, change.page # 0
        PROVE  ErrInv'
    <2> SUFFICES ASSUME NEW q \in Readers PROVE ErrAt(q)'
      BY DEF ErrInv
    <2> SUFFICES ASSUME Smooth(q), reader[q].pc = "node", reader[q].page \in DOMAIN trees'[reader[q].tree].cache
                 PROVE  Within(trees'[reader[q].tree].cache[reader[q].page].entries[reader[q].key])
      BY <1>0, <1>2
    <2>1. ~Clearing /\ reader[q].tree = cached /\ reader[q].key \in Keys
      BY <1>2, SmoothIs
    <2>2. Within(change.entries[reader[q].key])
      BY <1>2, <2>1 DEF ChangeInv, PresentAt, Within
    <2>3. reader[q].page \in DOMAIN Tree.cache => Within(Tree.cache[reader[q].page].entries[reader[q].key])
      BY <1>2, <1>e, <2>1 DEF ErrAt, Smooth, Tree
    <2> QED BY <1>2, <2>1, <2>2, <2>3, PageChanged DEF Within
  <1>3. ASSUME NEW k \in Keys, ShadowDelete(k) PROVE ErrInv'
    <2>1. (\A q \in Readers : Alike(q)) /\ file' = file
      BY <1>3, WriterAlike DEF ShadowDelete, storage
    <2>2. Within(0)
      BY DEF Within
    <2> QED BY <1>2, <1>3, <2>1, <2>2, DeleteIs
  <1>4. ASSUME NEW k \in Keys, ShadowInsert(k) PROVE ErrInv'
    <2>1. pc \in {"apply", "insert", "refill"} /\ (\A q \in Readers : Alike(q)) /\ file' = file
      BY <1>4, WriterAlike DEF ShadowInsert, storage
    <2>2. k \in todo
      BY <1>4, InsertIs
    <2>3. k \in Waiting
      BY <2>1, <2>2 DEF Control
    <2>4. Within(ptrs[k])
      BY <2>3 DEF Versions, Within
    <2> QED BY <1>2, <1>4, <2>1, <2>4, InsertIs
  <1>5. ASSUME ShadowCommit PROVE ErrInv'
    <2>1. (\A q \in Readers : Alike(q)) /\ file' = file /\ (raced' <=> raced)
      BY <1>5, WriterAlike DEF ShadowCommit
    <2>2. \A j \in DOMAIN trees : trees'[j].cache = trees[j].cache
      <3>1. CommitTree(Tree, trees'[cached]) /\ \A j \in DOMAIN trees : j # cached => trees'[j] = trees[j]
        BY <1>5, CommitIs
      <3> QED BY <3>1 DEF CommitTree, Tree
    <2> QED BY <1>a, <1>c, <2>1, <2>2 DEF ErrInv
  <1>6. ASSUME Clear \/ Compact \/ RemoveIndex \/ Truncate \/ Reopen PROVE ErrInv'
    <2> SUFFICES ASSUME NEW q \in Readers, Smooth(q)' PROVE FALSE
      BY <1>b DEF ErrInv
    <2>1. Alike(q) /\ EventsAt(q) /\ CallAt(q)
      BY <1>6, WriterAlike DEF EventsInv, CallsInv
    <2>2. Reading(q) /\ ~Met(q, {"clear", "compact"})' /\ ~Met(q, {"clear", "compact"}) /\ reader[q].key \in Keys
      BY <2>1 DEF Smooth, Alike, Reading, Met, CallAt
    <2>3. CASE Clear
      BY <2>2, <2>3, ClearIs DEF NotedWrite, Met
    <2>4. CASE Compact
      BY <2>2, <2>4, CompactRecordsIs DEF NotedWrite, Met
    <2>5. CASE RemoveIndex \/ Truncate \/ Reopen
      <3>1. Clearing
        BY <2>5 DEF RemoveIndex, Truncate, Reopen, Clearing
      <3> QED BY <2>1, <2>2, <3>1 DEF EventsAt
    <2> QED BY <1>6, <2>3, <2>4, <2>5
  <1>7. ASSUME NEW r \in Readers, NEW k \in Keys, GetIndex(r, k) PROVE ErrInv'
    <2>1. (\A q \in Readers : q # r => Alike(q)) /\ (~raced' => ~raced) /\ file' = file
      BY <1>7, OtherAlike, RacedIs DEF GetIndex, storage
    <2>2. \A j \in DOMAIN trees : trees'[j].cache = trees[j].cache
      BY <1>7, GetIndexIs DEF Opened
    <2>3. ErrAt(r)'
      BY <1>7, <1>b, GetIndexIs DEF Started
    <2> QED BY <1>a, <1>c, <1>v, <2>1, <2>2, <2>3
  <1>8. ASSUME NEW r \in Readers, CacheNode(r) PROVE ErrInv'
    <2>0. file' = file /\ (raced' <=> raced)
      BY <1>8 DEF CacheNode, storage
    <2>1. ASSUME ~raced PROVE ErrAt(r)'
      <3>1. CASE Finished(r, <<"missing">>)
        BY <1>b, <3>1 DEF Finished
      <3>2. CASE Advanced(r, "read", reader[r].page, reader[r].node, reader[r].node.entries[reader[r].key],
                          reader[r].events)
        <4>1. /\ reader'[r].pc = "read" /\ reader'[r].ptr = reader[r].node.entries[reader[r].key]
              /\ reader'[r].events = reader[r].events
          BY <3>2 DEF Advanced
        <4> SUFFICES ASSUME Smooth(r)' PROVE ErrAt(r)'
          BY <1>b
        <4>2. Reading(r) /\ reader[r].pc = "fetched"
          BY <1>8, CacheNodeIs
        <4>3. Smooth(r)
          BY <4>1, <4>2 DEF Smooth, Met
        <4>4. ~Clearing /\ cached # 0 /\ reader[r].tree = cached /\ reader[r].key \in Keys
          BY <2>1, <4>3, SmoothIs
        <4>5. Full(reader[r].node)
          BY <2>1, <4>2, <4>4 DEF Uncached, UncachedAt
        <4> QED BY <2>0, <4>1, <4>4, <4>5 DEF ErrAt, Within, Full
      <3> QED BY <1>8, <3>1, <3>2, CacheNodeIs
    <2>2. ASSUME NEW q \in Readers, q # r, ~raced PROVE ErrAt(q)'
      <3>1. Alike(q)
        BY <1>8, <2>2, OtherAlike
      <3> SUFFICES ASSUME Smooth(q), reader[q].pc = "node", reader[q].page \in DOMAIN trees'[reader[q].tree].cache
                   PROVE  Within(trees'[reader[q].tree].cache[reader[q].page].entries[reader[q].key])
        BY <1>0, <2>0, <2>2, <3>1
      <3>2. ~Clearing /\ cached # 0 /\ reader[q].tree = cached /\ reader[q].key \in Keys /\ cached \in DOMAIN trees
        BY <2>2, SmoothIs
      <3>3. CASE /\ reader[q].page \in DOMAIN trees[cached].cache
                 /\ trees'[cached].cache[reader[q].page] = trees[cached].cache[reader[q].page]
        BY <1>e, <2>2, <3>2, <3>3 DEF ErrAt, Smooth
      <3>4. CASE reader[r].tree = cached /\ trees'[cached].cache[reader[q].page] = reader[r].node
        <4>1. reader[r].pc = "fetched"
          BY <1>8, CacheNodeIs
        <4>2. Full(reader[r].node)
          BY <2>2, <3>2, <3>4, <4>1 DEF Uncached, UncachedAt
        <4> QED BY <3>2, <3>4, <4>2 DEF Full, Within
      <3> QED BY <1>8, <3>2, <3>3, <3>4, PageCached
    <2> QED BY <1>v, <2>0, <2>1, <2>2
  <1>q. ASSUME Quiet, NEW r \in Readers, ~raced => ErrAt(r)', \A q \in Readers : q # r => Alike(q) PROVE ErrInv'
    <2>1. trees' = trees /\ file' = file /\ (raced' <=> raced)
      BY <1>q DEF Quiet, index, storage
    <2> QED BY <1>a, <1>v, <1>q, <2>1
  <1>9. ASSUME NEW r \in Readers, FindRoot(r) PROVE ErrInv'
    <2>1. Quiet /\ \A q \in Readers : q # r => Alike(q)
      BY <1>9, QuietSteps, OtherAlike
    <2>2. ASSUME ~raced PROVE ErrAt(r)'
      <3>1. CASE Finished(r, <<"missing">>)
        BY <1>b, <3>1 DEF Finished
      <3>2. CASE /\ trees[reader[r].tree].prim # 0
                 /\ Advanced(r, "node", trees[reader[r].tree].prim, reader[r].node, reader[r].ptr, reader[r].events)
        <4>1. /\ reader'[r].pc = "node" /\ reader'[r].tree = reader[r].tree /\ reader'[r].key = reader[r].key
              /\ reader'[r].page = trees[reader[r].tree].prim /\ reader'[r].events = reader[r].events
          BY <3>2 DEF Advanced
        <4> SUFFICES ASSUME Smooth(r)' PROVE ErrAt(r)'
          BY <1>b
        <4>2. Reading(r) /\ trees' = trees /\ file' = file
          BY <1>9, <2>1, FindRootIs DEF Quiet, index, storage
        <4>3. Smooth(r)
          BY <4>1, <4>2 DEF Smooth, Met
        <4>4. reader[r].tree = cached /\ PresentAt(Entries(Tree)[reader[r].key], reader[r].key)
          BY <2>2, <4>3, SmoothIs
        <4>5. Within(Entries(Tree)[reader[r].key])
          BY <4>4 DEF PresentAt, Within
        <4>6. Tree.prim \in DOMAIN Tree.cache => Entries(Tree) = Tree.cache[Tree.prim].entries
          BY <3>2, <4>4 DEF Entries, Tree, Node, InCache
        <4> QED BY <4>1, <4>2, <4>4, <4>5, <4>6 DEF ErrAt, Within, Tree
      <3> QED BY <1>9, <3>1, <3>2, FindRootIs
    <2> QED BY <1>q, <2>1, <2>2
  <1>10. ASSUME NEW r \in Readers, FindNode(r) PROVE ErrInv'
    <2>1. Quiet /\ \A q \in Readers : q # r => Alike(q)
      BY <1>10, QuietSteps, OtherAlike
    <2>2. ASSUME ~raced PROVE ErrAt(r)'
      <3>1. CASE Finished(r, <<"missing">>)
        BY <1>b, <3>1 DEF Finished
      <3>2. CASE Advanced(r, "read", reader[r].page, reader[r].node,
                          trees[reader[r].tree].cache[reader[r].page].entries[reader[r].key], reader[r].events)
        <4>1. /\ reader'[r].pc = "read"
              /\ reader'[r].ptr = trees[reader[r].tree].cache[reader[r].page].entries[reader[r].key]
              /\ reader'[r].events = reader[r].events
          BY <3>2 DEF Advanced
        <4> SUFFICES ASSUME Smooth(r)' PROVE ErrAt(r)'
          BY <1>b
        <4>2. /\ Reading(r) /\ reader[r].pc = "node" /\ file' = file
              /\ reader[r].page \in DOMAIN trees[reader[r].tree].cache
          BY <1>10, <2>1, FindNodeIs DEF Quiet, storage
        <4>3. Smooth(r)
          BY <4>1, <4>2 DEF Smooth, Met
        <4>4. Within(trees[reader[r].tree].cache[reader[r].page].entries[reader[r].key])
          BY <1>e, <2>2, <4>2, <4>3 DEF ErrAt, Smooth
        <4> QED BY <4>1, <4>2, <4>4 DEF ErrAt, Within
      <3> QED BY <1>10, <3>1, <3>2, FindNodeIs
    <2> QED BY <1>q, <2>1, <2>2
  <1>11. ASSUME NEW r \in Readers, FindTorn(r) PROVE ErrInv'
    <2>1. Quiet /\ \A q \in Readers : q # r => Alike(q)
      BY <1>11, QuietSteps, OtherAlike
    <2>2. "torn" \in reader'[r].events
      BY <1>11, FindTornIs DEF Advanced
    <2>3. ErrAt(r)'
      BY <2>2 DEF ErrAt, Met
    <2> QED BY <1>q, <2>1, <2>3
  <1>12. ASSUME NEW r \in Readers, ReadRecord(r) \/ FetchPage(r) PROVE ErrInv'
    <2>1. Quiet /\ \A q \in Readers : q # r => Alike(q)
      BY <1>12, QuietSteps, OtherAlike
    <2>2. reader'[r].pc \in {"done", "fetched"}
      <3>1. CASE ReadRecord(r)
        BY <3>1, ReadRecordIs DEF Finished, Advanced
      <3>2. CASE FetchPage(r)
        BY <3>2, FetchPageIs DEF Finished, Advanced
      <3> QED BY <1>12, <3>1, <3>2
    <2> QED BY <1>b, <1>q, <2>1, <2>2
  <1>13. ASSUME ClaimLeaf PROVE ErrInv'
    <2>1. ClaimedStep /\ \A q \in Readers : Alike(q)
      BY <1>13, ClaimLeafIs, WriterAlike
    <2>2. ~raced /\ file' = file /\ cached # 0 /\ Claimed(Tree, trees'[cached], change'.page)
      BY <2>1 DEF ClaimedStep, storage
    <2> SUFFICES ASSUME NEW q \in Readers PROVE ErrAt(q)'
      BY DEF ErrInv
    <2> SUFFICES ASSUME Smooth(q), reader[q].pc = "node", reader[q].page \in DOMAIN trees'[reader[q].tree].cache
                 PROVE  Within(trees'[reader[q].tree].cache[reader[q].page].entries[reader[q].key])
      BY <1>0, <2>1, <2>2
    <2>3. ~Clearing /\ reader[q].tree = cached /\ reader[q].key \in Keys
      BY <2>2, SmoothIs
    <2>4. reader[q].page \in DOMAIN Tree.cache => Within(Tree.cache[reader[q].page].entries[reader[q].key])
      BY <1>e, <2>2, <2>3 DEF ErrAt, Smooth, Tree
    <2> QED BY <2>2, <2>3, <2>4, PageClaimed DEF Within
  <1> QED BY <1>1, <1>3, <1>4, <1>5, <1>6, <1>7, <1>8, <1>9, <1>10, <1>11, <1>12, <1>13, ReaderSteps

\* The entry of key k leads to a record of the key whose version is in S.
Fits(k, S, e) == e = 0 \/ (e \in DOMAIN file /\ file[e][1] = k /\ file[e][2] \in S)

\* Outside a rebuild the open index leads to the version before the write or after it.
LEMMA GoodEntry ==
  ASSUME IInv, ~raced, ~late, cached # 0, NEW k \in Keys, NEW S, version[k] \in S, before[k] \in S,
         ~((Clearing \/ pc \in {"refill", "stop"}) /\ Waiting # {})
  PROVE  Fits(k, S, Entries(Tree)[k])
  <1> USE DEF IInv
  <1> DEFINE e == Entries(Tree)[k]
  <1>1. \A v \in S : Points(e, k, v) => Fits(k, S, e)
    BY DEF Points, Fits
  <1>2. LeadsAt(e, k)
    BY DEF TreeLeads
  <1>3. CASE pc \in {"idle", "commit", "apply", "insert"}
    <2>1. \/ Points(e, k, version[k]) \/ Points(e, k, before[k]) \/ Points(e, k, 0)
      BY <1>2, <1>3 DEF LeadsAt
    <2>2. Points(e, k, 0) => Fits(k, S, e)
      BY DEF Points, Fits
    <2> QED BY <1>1, <2>1, <2>2
  <1>4. CASE pc = "remove"
    <2>1. Waiting = {}
      BY <1>4 DEF Clearing
    <2> QED BY <1>1, <1>2, <1>4, <2>1 DEF LeadsAt
  <1>5. CASE pc = "reopen"
    <2>1. Tree.prim = 0
      BY <1>5 DEF Control
    <2>2. e = 0
      BY <2>1 DEF Entries, NoEntries
    <2> QED BY <2>2 DEF Fits
  <1>6. CASE pc \in {"truncate", "stop", "refill"}
    BY <1>6 DEF Control
  <1> HIDE DEF e
  <1> QED BY <1>3, <1>4, <1>5, <1>6 DEF Types, e

\* A call that has met nothing which would excuse a wrong record.
Trusting(q) == Reading(q) /\ ~Met(q, {"torn", "compact"})

\* What Good and Fine say of the next state, for a call and a page of this one.
GoodNext(q, e) ==
    e = 0 \/ (e \in DOMAIN file' /\ file'[e][1] = reader[q].key /\ file'[e][2] \in reader'[q].seen)

\* Fine, after the step.
FineNext(q, page) ==
    LET t == trees'[reader[q].tree]
    IN  /\ page \in DOMAIN t.cache => GoodNext(q, t.cache[page].entries[reader[q].key])
        /\ page \notin DOMAIN t.cache /\ t.open => GoodNext(q, disk'.node[page].entries[reader[q].key])
        /\ page \notin DOMAIN t.cache => \A p \in Readers :
              reader'[p].pc = "fetched" /\ reader'[p].tree = reader[q].tree /\ reader'[p].page = page =>
                  GoodNext(q, reader'[p].node.entries[reader[q].key])

\* Records stay where they are.
Lasting == \A i \in DOMAIN file : i \in DOMAIN file' /\ file'[i] = file[i]
\* No page is fetched in the step.
NoFetch == \A p \in Readers : reader'[p].pc = "fetched" =>
               /\ reader[p].pc = "fetched" /\ reader'[p].tree = reader[p].tree
               /\ reader'[p].page = reader[p].page /\ reader'[p].node = reader[p].node

\* A good pointer stays good while the table file only grows.
LEMMA GoodStays ==
  ASSUME NEW q \in Readers, Lasting, reader[q].seen \subseteq reader'[q].seen, NEW e, Good(q, e)
  PROVE  GoodNext(q, e)
  BY DEF Good, GoodNext, Lasting

\* A page that is fine stays so while its contents stay.
LEMMA FineStays ==
  ASSUME NEW q \in Readers, Lasting, reader[q].seen \subseteq reader'[q].seen, NoFetch,
         NEW page, Fine(q, page),
         trees'[reader[q].tree].cache = trees[reader[q].tree].cache,
         trees'[reader[q].tree].open => trees[reader[q].tree].open,
         page \notin DOMAIN trees[reader[q].tree].cache /\ trees[reader[q].tree].open
             /\ trees'[reader[q].tree].open => disk'.node[page] = disk.node[page]
  PROVE  FineNext(q, page)
  <1> DEFINE t == trees[reader[q].tree]
             u == trees'[reader[q].tree]
  <1>g. \A e : Good(q, e) => GoodNext(q, e)
    BY DEF Good, GoodNext, Lasting
  <1>1. page \in DOMAIN u.cache => GoodNext(q, u.cache[page].entries[reader[q].key])
    BY <1>g DEF Fine
  <1>2. page \notin DOMAIN u.cache /\ u.open => GoodNext(q, disk'.node[page].entries[reader[q].key])
    BY <1>g DEF Fine
  <1>3. ASSUME page \notin DOMAIN u.cache, NEW p \in Readers, reader'[p].pc = "fetched",
               reader'[p].tree = reader[q].tree, reader'[p].page = page
        PROVE  GoodNext(q, reader'[p].node.entries[reader[q].key])
    <2>1. /\ reader[p].pc = "fetched" /\ reader[p].tree = reader[q].tree /\ reader[p].page = page
          /\ reader'[p].node = reader[p].node
      BY <1>3 DEF NoFetch
    <2>2. Good(q, reader[p].node.entries[reader[q].key])
      BY <1>3, <2>1 DEF Fine
    <2> QED BY <1>g, <2>1, <2>2
  <1> QED BY <1>1, <1>2, <1>3 DEF FineNext

\* A call that goes on is right if its page still is.
LEMMA RightStays ==
  ASSUME NEW q \in Readers, Alike(q), Lasting, RightAt(q),
         Trusting(q) /\ reader[q].pc = "root" /\ trees'[reader[q].tree].prim # 0 =>
             FineNext(q, trees'[reader[q].tree].prim),
         Trusting(q) /\ reader[q].pc = "node" => FineNext(q, reader[q].page)
  PROVE  RightAt(q)'
  <1> SUFFICES ASSUME Trusting(q)' PROVE RightAt(q)'
    BY DEF RightAt, Trusting
  <1>1. Trusting(q)
    BY DEF Trusting, Alike, Met, Reading
  <1>2. /\ reader'[q].pc = reader[q].pc /\ reader'[q].key = reader[q].key
        /\ reader'[q].tree = reader[q].tree /\ reader'[q].page = reader[q].page
        /\ reader'[q].node = reader[q].node /\ reader'[q].ptr = reader[q].ptr
        /\ reader[q].seen \subseteq reader'[q].seen
    BY DEF Alike
  <1>3. reader'[q].pc = "root" /\ trees'[reader'[q].tree].prim # 0 => Fine(q, trees[reader[q].tree].prim)'
    BY <1>1, <1>2 DEF Fine, FineNext, Good, GoodNext
  <1>4. reader'[q].pc = "node" => Fine(q, reader[q].page)'
    BY <1>1, <1>2 DEF Fine, FineNext, Good, GoodNext
  <1>5. reader'[q].pc = "fetched" => Good(q, reader[q].node.entries[reader[q].key])'
    BY <1>1, <1>2 DEF RightAt, Trusting, Good, Lasting
  <1>6. reader'[q].pc = "read" => Good(q, reader[q].ptr)'
    BY <1>1, <1>2 DEF RightAt, Trusting, Good, Lasting
  <1> QED BY <1>3, <1>4, <1>5, <1>6 DEF RightAt

\* The same when the caches stay as they are.
LEMMA RightKept ==
  ASSUME NEW q \in Readers, Alike(q), Lasting, RightAt(q), NoFetch,
         Reading(q) => /\ trees'[reader[q].tree].cache = trees[reader[q].tree].cache
                       /\ trees'[reader[q].tree].prim = trees[reader[q].tree].prim
                       /\ trees'[reader[q].tree].open => trees[reader[q].tree].open,
         disk' = disk
  PROVE  RightAt(q)'
  <1>1. reader[q].seen \subseteq reader'[q].seen
    BY DEF Alike
  <1>2. Trusting(q) /\ reader[q].pc = "root" /\ trees'[reader[q].tree].prim # 0 =>
             FineNext(q, trees'[reader[q].tree].prim)
    <2> SUFFICES ASSUME Trusting(q), reader[q].pc = "root", trees'[reader[q].tree].prim # 0
                 PROVE  FineNext(q, trees[reader[q].tree].prim)
      BY DEF Trusting
    <2>1. Fine(q, trees[reader[q].tree].prim)
      BY DEF RightAt, Trusting
    <2> QED BY <1>1, <2>1, FineStays DEF Trusting
  <1>3. Trusting(q) /\ reader[q].pc = "node" => FineNext(q, reader[q].page)
    <2> SUFFICES ASSUME Trusting(q), reader[q].pc = "node" PROVE FineNext(q, reader[q].page)
      OBVIOUS
    <2>1. Fine(q, reader[q].page)
      BY DEF RightAt, Trusting
    <2> QED BY <1>1, <2>1, FineStays DEF Trusting
  <1> QED BY <1>2, <1>3, RightStays

\* The writer changes one entry of the open index.
LEMMA RightReplaced ==
  ASSUME IInv, NEW k \in Keys, NEW e \in Nat, ~raced, ~late, ~Clearing, cached # 0, cached \in DOMAIN trees,
         Replaced(Tree, trees'[cached], [change.entries EXCEPT ![k] = e]),
         \A j \in DOMAIN trees : j # cached => trees'[j] = trees[j],
         e = 0 \/ (e \in DOMAIN file /\ file[e] = <<k, version[k]>>),
         UNCHANGED <<file, disk, reader>>, change.page # 0,
         NEW q \in Readers
  PROVE  RightAt(q)'
  <1> USE DEF IInv
  <1>1. Alike(q) /\ Lasting /\ NoFetch /\ RightAt(q)
    BY DEF Alike, Lasting, NoFetch, RightInv
  <1>c. Reading(q) => reader[q].tree \in DOMAIN trees /\ reader[q].key \in Keys
    BY DEF CallsInv, CallAt
  <1>2. CASE reader[q].tree # cached
    BY <1>1, <1>2, <1>c, RightKept
  <1>3. CASE reader[q].tree = cached
    <2> DEFINE v == trees'[cached]
               key == reader[q].key
               new == [change.entries EXCEPT ![k] = e]
    <2>t. Entries(Tree) \in [Keys -> Nat] /\ Tree.open /\ change.entries = Entries(Tree)
      BY TreeType DEF TreesInv, ChangeInv
    <2>g. \A x : Good(q, x) <=> GoodNext(q, x)
      BY DEF Good, GoodNext
    <2>1. ASSUME Trusting(q) PROVE Good(q, new[key]) /\ key \in Keys
      <3>1. EventsAt(q) /\ Reading(q) /\ "compact" \notin reader[q].events /\ key \in Keys
        BY <1>c, <2>1 DEF EventsInv, Trusting, Met
      <3>2. Fits(key, reader[q].seen, Entries(Tree)[key])
        BY <3>1, GoodEntry DEF EventsAt
      <3>3. key = k => Good(q, e)
        BY <3>1 DEF EventsAt, Good
      <3> QED BY <2>t, <3>1, <3>2, <3>3 DEF Fits, Good
    <2>2. ASSUME Trusting(q), reader[q].pc = "root" PROVE FineNext(q, v.prim)
      <3>1. v.prim \in DOMAIN v.cache /\ v.cache[v.prim] = Leaf(writes, new)
        <4>1. v.prim \in DOMAIN v.cache /\ v.cache[v.prim] = Filled(Tree, new)
          BY DEF Replaced
        <4>2. Tree.cache[change.page].gen = writes
          BY DEF ChangeInv, ClaimedPage
        <4> QED BY <4>1, <4>2 DEF Filled
      <3>2. v.cache[v.prim].entries[key] = new[key]
        BY <3>1 DEF Leaf
      <3> HIDE DEF new
      <3> QED BY <1>3, <2>1, <2>2, <2>g, <3>1, <3>2 DEF FineNext
    <2>3. ASSUME Trusting(q), reader[q].pc = "node" PROVE FineNext(q, reader[q].page)
      <3>1. Fine(q, reader[q].page)
        BY <1>1, <2>3 DEF RightAt, Trusting
      <3>2. DOMAIN Tree.cache \subseteq DOMAIN v.cache
        BY DEF Replaced
      <3>3. ASSUME reader[q].page \in DOMAIN v.cache
            PROVE  GoodNext(q, v.cache[reader[q].page].entries[key])
        <4>1. /\ reader[q].page \in DOMAIN Tree.cache => Good(q, Tree.cache[reader[q].page].entries[key])
              /\ reader[q].page \notin DOMAIN Tree.cache => Good(q, disk.node[reader[q].page].entries[key])
          BY <1>3, <2>t, <3>1 DEF Fine, Tree
        <4>2. new[key] = IF key = k THEN e ELSE change.entries[key]
          BY <2>1, <2>3, <2>t
        <4>3. Good(q, 0)
          BY DEF Good
        <4> DEFINE x == v.cache[reader[q].page].entries[key]
        <4>4. Good(q, new[key]) /\ key \in Keys
          BY <2>1, <2>3
        <4>5. \/ reader[q].page \in DOMAIN Tree.cache /\ x = Tree.cache[reader[q].page].entries[key]
              \/ x = IF key = k THEN e ELSE change.entries[key]
              \/ x = 0
              \/ reader[q].page \notin DOMAIN Tree.cache /\ x = disk.node[reader[q].page].entries[key]
          BY <1>3, <2>3, <2>t, <3>3, <4>4, PageChanged
        <4> HIDE DEF new, x
        <4>6. Good(q, x)
          BY <4>1, <4>2, <4>3, <4>4, <4>5
        <4> QED BY <2>g, <4>6 DEF x
      <3>4. reader[q].page \notin DOMAIN v.cache => GoodNext(q, disk'.node[reader[q].page].entries[key])
        BY <1>3, <2>g, <2>t, <3>1, <3>2 DEF Fine, Tree
      <3>5. ASSUME reader[q].page \notin DOMAIN v.cache, NEW p \in Readers, reader'[p].pc = "fetched",
                   reader'[p].tree = reader[q].tree, reader'[p].page = reader[q].page
            PROVE  GoodNext(q, reader'[p].node.entries[key])
        BY <1>3, <2>g, <3>1, <3>2, <3>5 DEF Fine, Tree
      <3> QED BY <1>3, <3>3, <3>4, <3>5 DEF FineNext
    <2> QED BY <1>1, <1>3, <2>2, <2>3, RightStays
  <1> QED BY <1>2, <1>3

\* The writer claims a leaf of the open index: whoever is on the way to it finds the entries that
\* are there, or none.
LEMMA RightClaimed ==
  ASSUME IInv, ~late, ClaimedStep, NEW q \in Readers
  PROVE  RightAt(q)'
  <1> USE DEF IInv
  <1>0. /\ ~raced /\ ~Clearing /\ cached # 0 /\ cached \in DOMAIN trees /\ UNCHANGED <<file, disk, reader>>
        /\ Claimed(Tree, trees'[cached], change'.page)
        /\ \A j \in DOMAIN trees : j # cached => trees'[j] = trees[j]
    BY DEF ClaimedStep, storage, Clearing
  <1>1. Alike(q) /\ Lasting /\ NoFetch /\ RightAt(q)
    BY <1>0 DEF Alike, Lasting, NoFetch, RightInv
  <1>c. Reading(q) => reader[q].tree \in DOMAIN trees /\ reader[q].key \in Keys
    BY DEF CallsInv, CallAt
  <1>2. CASE reader[q].tree # cached
    BY <1>0, <1>1, <1>2, <1>c, RightKept
  <1>3. CASE reader[q].tree = cached
    <2> DEFINE v == trees'[cached]
               key == reader[q].key
    <2>t. Tree.open
      BY <1>0 DEF TreesInv
    <2>g. \A x : Good(q, x) <=> GoodNext(q, x)
      BY <1>0 DEF Good, GoodNext
    <2>1. ASSUME Trusting(q) PROVE Good(q, Entries(Tree)[key]) /\ key \in Keys
      <3>1. EventsAt(q) /\ Reading(q) /\ "compact" \notin reader[q].events /\ key \in Keys
        BY <1>c, <2>1 DEF EventsInv, Trusting, Met
      <3>2. Fits(key, reader[q].seen, Entries(Tree)[key])
        BY <1>0, <3>1, GoodEntry DEF EventsAt
      <3> QED BY <3>1, <3>2 DEF Fits, Good
    <2>2. ASSUME Trusting(q), reader[q].pc = "root" PROVE FineNext(q, v.prim)
      <3>1. v.prim \in DOMAIN v.cache /\ v.cache[v.prim].entries = Entries(Tree)
        <4>1. Entries(Tree)' = Entries(Tree) /\ Tree' = v /\ Tree.prim' # 0 /\ Tree.prim' \in DOMAIN Tree.cache'
          BY EntriesClaimed
        <4>2. Entries(Tree)' = Tree.cache'[Tree.prim'].entries
          BY <4>1 DEF Entries, Node, InCache
        <4> QED BY <4>1, <4>2
      <3> HIDE DEF v
      <3>2. GoodNext(q, v.cache[v.prim].entries[key])
        BY <2>1, <2>2, <2>g, <3>1
      <3> QED BY <1>3, <3>1, <3>2 DEF FineNext, v
    <2>3. ASSUME Trusting(q), reader[q].pc = "node" PROVE FineNext(q, reader[q].page)
      <3>1. Fine(q, reader[q].page)
        BY <1>1, <2>3 DEF RightAt, Trusting
      <3>2. DOMAIN Tree.cache \subseteq DOMAIN v.cache
        BY <1>0 DEF Claimed
      <3>3. ASSUME reader[q].page \in DOMAIN v.cache
            PROVE  GoodNext(q, v.cache[reader[q].page].entries[key])
        <4>1. /\ reader[q].page \in DOMAIN Tree.cache => Good(q, Tree.cache[reader[q].page].entries[key])
              /\ reader[q].page \notin DOMAIN Tree.cache => Good(q, disk.node[reader[q].page].entries[key])
          BY <1>3, <2>t, <3>1 DEF Fine, Tree
        <4>2. Good(q, 0)
          BY DEF Good
        <4> DEFINE x == v.cache[reader[q].page].entries[key]
        <4>3. key \in Keys
          BY <2>1, <2>3
        <4>4. \/ reader[q].page \in DOMAIN Tree.cache /\ x = Tree.cache[reader[q].page].entries[key]
              \/ x = 0
              \/ reader[q].page \notin DOMAIN Tree.cache /\ x = disk.node[reader[q].page].entries[key]
          BY <1>0, <1>3, <2>3, <3>3, <4>3, PageClaimed
        <4> HIDE DEF x
        <4>5. Good(q, x)
          BY <4>1, <4>2, <4>4
        <4> QED BY <2>g, <4>5 DEF x
      <3>4. reader[q].page \notin DOMAIN v.cache => GoodNext(q, disk'.node[reader[q].page].entries[key])
        BY <1>0, <1>3, <2>g, <2>t, <3>1, <3>2 DEF Fine, Tree
      <3>5. ASSUME reader[q].page \notin DOMAIN v.cache, NEW p \in Readers, reader'[p].pc = "fetched",
                   reader'[p].tree = reader[q].tree, reader'[p].page = reader[q].page
            PROVE  GoodNext(q, reader'[p].node.entries[key])
        BY <1>0, <1>3, <2>g, <3>1, <3>2, <3>5 DEF Fine, Tree
      <3> QED BY <1>3, <3>3, <3>4, <3>5 DEF FineNext
    <2> QED BY <1>1, <1>3, <2>2, <2>3, RightStays
  <1> QED BY <1>2, <1>3

\* A commit rewrites no page that a reader has yet to fetch.
LEMMA RightCommitted ==
  ASSUME IInv, ShadowCommit, ~raced, ~late, NEW q \in Readers
  PROVE  RightAt(q)'
  <1> USE DEF IInv
  <1>1. Alike(q) /\ RightAt(q) /\ Lasting /\ NoFetch
    <2>1. file' = file /\ \A p \in Readers : Alike(p)
      BY WriterAlike DEF ShadowCommit
    <2> QED BY <2>1 DEF Lasting, NoFetch, RightInv, Alike
  <1>2. /\ cached # 0 /\ CommitTree(Tree, trees'[cached]) /\ CommitFile(Tree)
        /\ \A j \in DOMAIN trees : j # cached => trees'[j] = trees[j]
    BY CommitIs
  <1>3. \A j \in DOMAIN trees : /\ trees'[j].cache = trees[j].cache /\ trees'[j].prim = trees[j].prim
                                /\ (trees'[j].open <=> trees[j].open)
    BY <1>2 DEF CommitTree, Tree
  <1>4. ASSUME Trusting(q), NEW page, Fine(q, page), page # 0,
               reader[q].tree = cached /\ page \notin DOMAIN Tree.cache => page = Tree.prim
        PROVE  FineNext(q, page)
    <2>1. reader[q].tree \in DOMAIN trees
      BY <1>4 DEF Trusting, CallsInv, CallAt
    <2>2. reader[q].seen \subseteq reader'[q].seen
      BY <1>1 DEF Alike
    <2>3. page \notin DOMAIN trees[reader[q].tree].cache /\ trees[reader[q].tree].open =>
              disk'.node[page] = disk.node[page]
      <3> SUFFICES ASSUME page \notin DOMAIN trees[reader[q].tree].cache, trees[reader[q].tree].open
                   PROVE  disk'.node[page] = disk.node[page]
        OBVIOUS
      <3>1. reader[q].tree = cached
        BY <2>1 DEF TreesInv
      <3>2. page = Tree.prim /\ page \notin DOMAIN Tree.cache
        BY <1>4, <3>1 DEF Tree
      <3>3. page \in DOMAIN disk.node
        BY <1>2, <1>4, <3>2 DEF TreesInv
      <3> QED BY <1>2, <3>2, <3>3 DEF CommitFile
    <2> QED BY <1>1, <1>3, <1>4, <2>1, <2>2, <2>3, FineStays
  <1>5. ASSUME Trusting(q), reader[q].pc = "root", trees'[reader[q].tree].prim # 0
        PROVE  FineNext(q, trees'[reader[q].tree].prim)
    <2>1. trees'[reader[q].tree].prim = trees[reader[q].tree].prim
      BY <1>3, <1>5 DEF Trusting, CallsInv, CallAt
    <2>2. Fine(q, trees[reader[q].tree].prim)
      BY <1>1, <1>5, <2>1 DEF RightAt, Trusting
    <2>3. FineNext(q, trees[reader[q].tree].prim)
      BY <1>4, <1>5, <2>1, <2>2 DEF Tree
    <2> QED BY <2>1, <2>3
  <1>6. ASSUME Trusting(q), reader[q].pc = "node" PROVE FineNext(q, reader[q].page)
    <2>1. Fine(q, reader[q].page)
      BY <1>1, <1>6 DEF RightAt, Trusting
    <2>2. reader[q].page \in 3..(trees[reader[q].tree].next - 1)
      BY <1>6 DEF Trusting, CallsInv, CallAt
    <2>3. reader[q].tree = cached /\ reader[q].page \notin DOMAIN Tree.cache => reader[q].page = Tree.prim
      BY <1>2, <1>6 DEF Uncached, UncachedAt
    <2>4. reader[q].page # 0
      BY <2>2
    <2> QED BY <1>4, <1>6, <2>1, <2>3, <2>4
  <1> QED BY <1>1, <1>5, <1>6, RightStays

\* A reader comes: what it finds is the open index, and the pages fetched of it.
LEMMA RightStarted ==
  ASSUME IInv, NEW r \in Readers, NEW k \in Keys, GetIndex(r, k), ~raced', ~late
  PROVE  RightAt(r)'
  <1> USE DEF IInv
  <1>1. /\ UNCHANGED <<file, disk, version, before, pc, ptrs>>
    BY DEF GetIndex, storage, writer
  <1>2. /\ reader'[r].pc = "root" /\ reader'[r].key = k /\ reader'[r].tree = cached'
        /\ reader'[r].seen = {version[k], before[k]} /\ reader'[r].events = Underway(k)
        /\ \A q \in Readers : q # r => reader'[q] = reader[q]
        /\ ~raced
    BY GetIndexIs, RacedIs DEF Started
  <1>3. CASE Opened
    <2>1. cached = 0 /\ pc # "truncate"
      BY <1>3, RacedIs DEF Opened
    <2>2. disk = EmptyFile
      BY <2>1 DEF Control
    <2>3. trees'[cached'].prim = 0
      BY <1>3, <2>2 DEF Opened, OpenTree, EmptyFile
    <2> QED BY <1>2, <2>3 DEF RightAt
  <1>4. CASE cached # 0 /\ trees' = trees /\ cached' = cached
    <2> SUFFICES ASSUME ~Met(r, {"torn", "compact"})', Tree.prim # 0 PROVE Fine(r, trees[reader[r].tree].prim)'
      BY <1>2, <1>4 DEF RightAt, Tree
    <2>1. "compact" \notin Underway(k)
      BY <1>2 DEF Met
    <2>2. ~((Clearing \/ pc \in {"refill", "stop"}) /\ Waiting # {})
      BY <2>1, UnderwayIs, WaitingIs
    <2>3. Fits(k, {version[k], before[k]}, Entries(Tree)[k])
      BY <1>2, <1>4, <2>2, GoodEntry
    <2>4. /\ Tree.prim \in DOMAIN Tree.cache => Entries(Tree) = Tree.cache[Tree.prim].entries
          /\ Tree.prim \notin DOMAIN Tree.cache => Entries(Tree) = disk.node[Tree.prim].entries
      BY DEF Entries, Node, InCache
    <2>5. ASSUME NEW q \in Readers, reader'[q].pc = "fetched", reader'[q].tree = cached, reader'[q].page = Tree.prim,
                 Tree.prim \notin DOMAIN Tree.cache
          PROVE  reader'[q].node.entries = Entries(Tree)
      <3>1. q # r /\ reader'[q] = reader[q]
        BY <1>2, <2>5
      <3>2. reader[q].node = disk.node[Tree.prim]
        BY <1>2, <1>4, <2>5, <3>1 DEF Uncached, UncachedAt
      <3> QED BY <2>4, <2>5, <3>1, <3>2
    <2>6. Good(r, Entries(Tree)[k])'
      <3>1. Entries(Tree)' = Entries(Tree)
        BY <1>1, <1>4, EntriesKept
      <3> QED BY <1>1, <1>2, <2>3, <3>1 DEF Fits, Good
    <2>7. Entries(Tree)' = Entries(Tree) /\ Tree' = Tree
      BY <1>1, <1>4, EntriesKept
    <2>8. /\ trees'[reader'[r].tree] = Tree /\ reader'[r].key = k /\ reader'[r].tree = cached /\ disk' = disk
      BY <1>1, <1>2, <1>4 DEF Tree
    <2> QED BY <2>4, <2>5, <2>6, <2>7, <2>8 DEF Fine, Good
  <1> QED BY <1>3, <1>4, GetIndexIs

\* A reader puts its node into the cache, where another one finds it.
LEMMA RightCached ==
  ASSUME IInv, NEW r \in Readers, CacheNode(r), ~raced, ~late', NEW q \in Readers, q # r
  PROVE  RightAt(q)'
  <1> USE DEF IInv
  <1> DEFINE i == reader[r].tree
             P == reader[r].page
  <1>1. /\ UNCHANGED <<file, disk>> /\ ~late
        /\ P \in DOMAIN trees[i].cache => trees[i].cache[P] = reader[r].node
    BY DEF CacheNode, storage, InCache
  <1>2. /\ i \in DOMAIN trees /\ reader[r].pc = "fetched"
        /\ \A j \in DOMAIN trees : j # i => trees'[j] = trees[j]
        /\ trees'[i].prim = trees[i].prim /\ (trees'[i].open <=> trees[i].open)
        /\ IsPut(trees'[i].cache, trees[i].cache, P, reader[r].node)
        /\ reader'[r].pc \in {"done", "read"}
    BY CacheNodeIs DEF Finished, Advanced
  <1>3. Alike(q) /\ Lasting /\ NoFetch /\ RightAt(q)
    <2>1. \A p \in Readers : p # r => reader'[p] = reader[p]
      BY OtherAlike
    <2>2. Alike(q)
      BY OtherAlike
    <2> QED BY <1>1, <1>2, <2>1, <2>2 DEF Lasting, NoFetch, RightInv
  <1>c. Reading(q) => reader[q].tree \in DOMAIN trees
    BY DEF CallsInv, CallAt
  <1>4. CASE reader[q].tree # i
    BY <1>1, <1>2, <1>3, <1>4, <1>c, RightKept
  <1>5. CASE reader[q].tree = i
    <2> DEFINE t == trees[i]
               u == trees'[i]
    <2>g. \A e : Good(q, e) => GoodNext(q, e)
      BY <1>3 DEF Good, GoodNext, Lasting, Alike
    <2>1. ASSUME NEW page, Fine(q, page) PROVE FineNext(q, page)
      <3>1. page \in DOMAIN u.cache => GoodNext(q, u.cache[page].entries[reader[q].key])
        <4>1. CASE page = P
          <5>1. Good(q, reader[r].node.entries[reader[q].key])
            BY <1>1, <1>2, <1>5, <2>1, <4>1 DEF Fine
          <5> QED BY <1>2, <2>g, <4>1, <5>1 DEF IsPut
        <4>2. CASE page # P
          <5>1. page \in DOMAIN u.cache => page \in DOMAIN t.cache /\ u.cache[page] = t.cache[page]
            BY <1>2, <4>2 DEF IsPut
          <5> QED BY <1>5, <2>1, <2>g, <5>1 DEF Fine
        <4> QED BY <4>1, <4>2
      <3>2. page \notin DOMAIN u.cache => page \notin DOMAIN t.cache
        BY <1>2 DEF IsPut
      <3>3. page \notin DOMAIN u.cache /\ u.open => GoodNext(q, disk'.node[page].entries[reader[q].key])
        BY <1>1, <1>2, <1>5, <2>1, <2>g, <3>2 DEF Fine
      <3>4. ASSUME page \notin DOMAIN u.cache, NEW p \in Readers, reader'[p].pc = "fetched",
                   reader'[p].tree = reader[q].tree, reader'[p].page = page
            PROVE  GoodNext(q, reader'[p].node.entries[reader[q].key])
        <4>1. /\ reader[p].pc = "fetched" /\ reader[p].tree = reader[q].tree /\ reader[p].page = page
              /\ reader'[p].node = reader[p].node
          BY <1>3, <3>4 DEF NoFetch
        <4>2. Good(q, reader[p].node.entries[reader[q].key])
          BY <1>5, <2>1, <3>2, <3>4, <4>1 DEF Fine
        <4> QED BY <2>g, <4>1, <4>2
      <3> QED BY <1>5, <3>1, <3>3, <3>4 DEF FineNext
    <2>2. Trusting(q) /\ reader[q].pc = "root" /\ trees'[reader[q].tree].prim # 0 =>
              FineNext(q, trees'[reader[q].tree].prim)
      BY <1>2, <1>3, <1>5, <2>1 DEF RightAt, Trusting
    <2>3. Trusting(q) /\ reader[q].pc = "node" => FineNext(q, reader[q].page)
      BY <1>3, <2>1 DEF RightAt, Trusting
    <2> QED BY <1>3, <2>2, <2>3, RightStays
  <1> QED BY <1>4, <1>5

\* A reader fetches a page that another one is on its way to.
LEMMA RightFetched ==
  ASSUME IInv, NEW r \in Readers, FetchPage(r), ~raced, ~late, NEW q \in Readers, q # r
  PROVE  RightAt(q)'
  <1> USE DEF IInv
  <1>1. UNCHANGED <<file, disk, trees>>
    BY QuietSteps DEF Quiet, storage, index
  <1>2. (\A p \in Readers : p # r => reader'[p] = reader[p]) /\ Alike(q)
    BY OtherAlike
  <1>3. Lasting /\ RightAt(q)
    BY <1>1 DEF Lasting, RightInv
  <1>4. reader'[r].pc = "fetched" =>
           /\ reader[r].page \notin DOMAIN trees[reader[r].tree].cache /\ trees[reader[r].tree].open
           /\ reader'[r].tree = reader[r].tree /\ reader'[r].page = reader[r].page
           /\ reader'[r].node = disk.node[reader[r].page]
    BY FetchPageIs DEF Finished, Advanced
  <1>g. \A e : Good(q, e) => GoodNext(q, e)
    BY <1>2, <1>3 DEF Good, GoodNext, Lasting, Alike
  <1>5. ASSUME NEW page, Fine(q, page) PROVE FineNext(q, page)
    <2> DEFINE t == trees[reader[q].tree]
    <2>1. page \in DOMAIN t.cache => GoodNext(q, t.cache[page].entries[reader[q].key])
      BY <1>5, <1>g DEF Fine
    <2>2. page \notin DOMAIN t.cache /\ t.open => GoodNext(q, disk.node[page].entries[reader[q].key])
      BY <1>5, <1>g DEF Fine
    <2>3. ASSUME page \notin DOMAIN t.cache, NEW p \in Readers, reader'[p].pc = "fetched",
                 reader'[p].tree = reader[q].tree, reader'[p].page = page
          PROVE  GoodNext(q, reader'[p].node.entries[reader[q].key])
      <3>1. CASE p = r
        BY <1>4, <2>2, <2>3, <3>1
      <3>2. CASE p # r
        BY <1>2, <1>5, <1>g, <2>3, <3>2 DEF Fine
      <3> QED BY <3>1, <3>2
    <2> QED BY <1>1, <2>1, <2>2, <2>3 DEF FineNext
  <1>6. Trusting(q) /\ reader[q].pc = "root" /\ trees'[reader[q].tree].prim # 0 =>
            FineNext(q, trees'[reader[q].tree].prim)
    BY <1>1, <1>3, <1>5 DEF RightAt, Trusting
  <1>7. Trusting(q) /\ reader[q].pc = "node" => FineNext(q, reader[q].page)
    BY <1>3, <1>5 DEF RightAt, Trusting
  <1> QED BY <1>2, <1>3, <1>6, <1>7, RightStays

\* A step of a reader that leaves all but its call alone, and the call with no page.
LEMMA RightQuiet ==
  ASSUME IInv, NEW r \in Readers, Quiet, reader'[r].pc # "fetched", ~raced, ~late,
         \A p \in Readers : p # r => Alike(p) /\ reader'[p] = reader[p],
         NEW q \in Readers, q # r
  PROVE  RightAt(q)'
  <1> USE DEF IInv
  <1>1. UNCHANGED <<file, disk, trees>>
    BY DEF Quiet, storage, index
  <1>2. Lasting /\ NoFetch /\ RightAt(q) /\ Alike(q)
    BY <1>1 DEF Lasting, NoFetch, RightInv
  <1> QED BY <1>1, <1>2, RightKept

\* Every step keeps RightInv.
LEMMA RightNext ==
  ASSUME IInv, Next
  PROVE  RightInv'
  <1> USE DEF IInv
  <1>c. \A q \in Readers : Reading(q) => reader[q].tree \in DOMAIN trees
    BY DEF CallsInv, CallAt
  <1>w. ASSUME ~raced, ~late, \A q \in Readers : Alike(q), Lasting, disk' = disk,
               \A j \in DOMAIN trees : /\ trees'[j].cache = trees[j].cache /\ trees'[j].prim = trees[j].prim
                                       /\ trees'[j].open => trees[j].open
        PROVE  \A q \in Readers : RightAt(q)'
    <2>1. NoFetch
      BY <1>w DEF NoFetch, Alike
    <2>2. \A q \in Readers : RightAt(q)
      BY <1>w DEF RightInv
    <2> QED BY <1>c, <1>w, <2>1, <2>2, RightKept
  <1>s. ASSUME file' = file PROVE Lasting
    BY <1>s DEF Lasting
  <1>b. ASSUME NEW q \in Readers, ~Trusting(q)' PROVE RightAt(q)'
    BY <1>b DEF RightAt, Trusting
  <1>1. ASSUME NEW keys \in SUBSET Keys, AppendRecords(keys) PROVE RightInv'
    <2>1. UNCHANGED <<disk, trees>> /\ (raced' <=> raced) /\ (late' <=> late)
      BY <1>1 DEF AppendRecords, index
    <2>2. Lasting
      BY <1>1, AppendRecordsIs DEF Grown, Lasting
    <2>3. \A q \in Readers : Alike(q)
      BY <1>1, WriterAlike
    <2> QED BY <1>w, <2>1, <2>2, <2>3 DEF RightInv
  <1>2. ASSUME NEW k \in Keys, ShadowDelete(k) PROVE RightInv'
    <2>1. UNCHANGED <<disk, file, reader>> /\ (raced' <=> raced) /\ (late' <=> late) /\ pc = "apply"
      BY <1>2 DEF ShadowDelete, storage
    <2>2. ~Clearing
      BY <2>1 DEF Clearing
    <2>3. ASSUME ~late, NEW q \in Readers PROVE RightAt(q)'
      BY <1>2, <2>1, <2>2, <2>3, DeleteIs, RightReplaced
    <2> QED BY <2>1, <2>3 DEF RightInv
  <1>3. ASSUME NEW k \in Keys, ShadowInsert(k) PROVE RightInv'
    <2>1. /\ UNCHANGED <<disk, file, reader>> /\ (raced' <=> raced) /\ (late' <=> late)
          /\ pc \in {"apply", "insert", "refill"}
      BY <1>3 DEF ShadowInsert, storage
    <2>2. ~Clearing
      BY <2>1 DEF Clearing
    <2>3. k \in Waiting
      BY <1>3, <2>1, InsertIs DEF Control
    <2>4. ptrs[k] \in DOMAIN file /\ file[ptrs[k]] = <<k, version[k]>>
      BY <2>3 DEF Versions
    <2>5. ASSUME ~late, NEW q \in Readers PROVE RightAt(q)'
      BY <1>3, <2>1, <2>2, <2>4, <2>5, InsertIs, RightReplaced
    <2> QED BY <2>1, <2>5 DEF RightInv
  <1>4. ASSUME ShadowCommit PROVE RightInv'
    <2>1. (raced' <=> raced) /\ (late' <=> late)
      BY <1>4 DEF ShadowCommit
    <2> QED BY <1>4, <2>1, RightCommitted DEF RightInv
  <1>5. ASSUME Clear PROVE RightInv'
    <2>1. UNCHANGED <<disk, trees, file>> /\ (raced' <=> raced) /\ (late' <=> late)
      BY <1>5 DEF Clear, index
    <2>2. \A q \in Readers : Alike(q)
      BY <1>5, WriterAlike
    <2> QED BY <1>s, <1>w, <2>1, <2>2 DEF RightInv
  <1>6. ASSUME Compact PROVE RightInv'
    <2>1. ASSUME NEW q \in Readers, Trusting(q)' PROVE FALSE
      <3>1. Alike(q) /\ CallAt(q)
        BY <1>6, WriterAlike DEF CallsInv
      <3>2. Reading(q) /\ "compact" \notin reader'[q].events /\ reader[q].key \in Keys
        BY <2>1, <3>1 DEF Trusting, Alike, Reading, Met, CallAt
      <3> QED BY <1>6, <3>2, CompactRecordsIs DEF NotedWrite
    <2> QED BY <1>b, <2>1 DEF RightInv
  <1>7. ASSUME RemoveIndex PROVE RightInv'
    <2>1. UNCHANGED <<disk, file>> /\ (raced' <=> raced) /\ (late' <=> late)
      BY <1>7 DEF RemoveIndex, storage
    <2>2. \A j \in DOMAIN trees : /\ trees'[j].cache = trees[j].cache /\ trees'[j].prim = trees[j].prim
                                  /\ trees'[j].open => trees[j].open
      <3>1. /\ ~trees'[cached].open
            /\ trees'[cached].prim = Tree.prim /\ trees'[cached].cache = Tree.cache
            /\ \A j \in DOMAIN trees : j # cached => trees'[j] = trees[j]
        BY <1>7, RemoveIndexIs
      <3> QED BY <3>1 DEF Tree
    <2>3. \A q \in Readers : Alike(q)
      BY <1>7, WriterAlike
    <2> QED BY <1>s, <1>w, <2>1, <2>2, <2>3 DEF RightInv
  <1>8. ASSUME Truncate PROVE RightInv'
    <2>1. UNCHANGED <<trees, file, reader>> /\ (raced' <=> raced) /\ (late' <=> late) /\ pc = "truncate"
      BY <1>8 DEF Truncate, index
    <2> SUFFICES ASSUME ~raced, ~late, NEW q \in Readers PROVE RightAt(q)'
      BY <2>1 DEF RightInv
    <2>2. RightAt(q) /\ Alike(q) /\ Lasting /\ NoFetch /\ reader[q].seen \subseteq reader'[q].seen
      BY <2>1 DEF RightInv, Alike, Lasting, NoFetch
    <2>3. cached = 0
      BY <2>1 DEF Control
    <2>4. Reading(q) => ~trees[reader[q].tree].open
      BY <1>c, <2>3 DEF TreesInv, Types
    <2>5. ASSUME NEW page, Fine(q, page), Reading(q) PROVE FineNext(q, page)
      BY <2>1, <2>2, <2>4, <2>5, FineStays
    <2> QED BY <2>1, <2>2, <2>5, RightStays DEF RightAt, Trusting
  <1>9. ASSUME Reopen PROVE RightInv'
    <2>1. UNCHANGED <<disk, file>> /\ (raced' <=> raced) /\ (late' <=> late)
      BY <1>9 DEF Reopen
    <2>2. \A j \in DOMAIN trees : trees'[j] = trees[j]
      BY <1>9, ReopenIs DEF Opened
    <2>3. \A q \in Readers : Alike(q)
      BY <1>9, WriterAlike
    <2> QED BY <1>s, <1>w, <2>1, <2>2, <2>3 DEF RightInv
  <1>10. ASSUME NEW r \in Readers, NEW k \in Keys, GetIndex(r, k) PROVE RightInv'
    <2>1. UNCHANGED <<disk, file>> /\ (~raced' => ~raced) /\ (late' <=> late)
      BY <1>10, RacedIs DEF GetIndex, storage
    <2>2. \A j \in DOMAIN trees : trees'[j] = trees[j]
      BY <1>10, GetIndexIs DEF Opened
    <2>3. Lasting /\ NoFetch
      <3>1. reader'[r].pc = "root"
        BY <1>10, GetIndexIs DEF Started
      <3>2. \A q \in Readers : q # r => reader'[q] = reader[q]
        BY <1>10, OtherAlike
      <3> QED BY <2>1, <3>1, <3>2 DEF Lasting, NoFetch
    <2>4. ASSUME ~raced, ~late, NEW q \in Readers, q # r PROVE RightAt(q)'
      <3>1. Alike(q) /\ RightAt(q)
        BY <1>10, <2>4, OtherAlike DEF RightInv
      <3> QED BY <1>c, <2>1, <2>2, <2>3, <3>1, RightKept
    <2>5. ~raced' /\ ~late => RightAt(r)'
      BY <1>10, RightStarted
    <2> QED BY <2>1, <2>4, <2>5 DEF RightInv
  <1>11. ASSUME NEW r \in Readers, CacheNode(r) PROVE RightInv'
    <2>1. file' = file /\ (raced' <=> raced) /\ (~late' => ~late)
      BY <1>11 DEF CacheNode, storage
    <2>2. ASSUME ~raced, ~late PROVE RightAt(r)'
      <3>1. CASE Finished(r, <<"missing">>)
        BY <1>b, <3>1 DEF Finished, Trusting, Reading
      <3>2. CASE Advanced(r, "read", reader[r].page, reader[r].node, reader[r].node.entries[reader[r].key],
                          reader[r].events)
        <4>1. /\ reader'[r].pc = "read" /\ reader'[r].ptr = reader[r].node.entries[reader[r].key]
              /\ reader'[r].events = reader[r].events /\ reader'[r].key = reader[r].key
              /\ reader'[r].seen = reader[r].seen
          BY <3>2 DEF Advanced
        <4> SUFFICES ASSUME Trusting(r)' PROVE RightAt(r)'
          BY <1>b
        <4>2. Reading(r) /\ reader[r].pc = "fetched" /\ ~Met(r, {"torn", "compact"})
          BY <1>11, <4>1, CacheNodeIs DEF Trusting, Met
        <4>3. Good(r, reader[r].node.entries[reader[r].key])
          BY <2>2, <4>2 DEF RightInv, RightAt
        <4> QED BY <2>1, <4>1, <4>3 DEF RightAt, Good
      <3> QED BY <1>11, <3>1, <3>2, CacheNodeIs
    <2>3. ASSUME ~raced, ~late', NEW q \in Readers, q # r PROVE RightAt(q)'
      BY <1>11, <2>3, RightCached
    <2> QED BY <2>1, <2>2, <2>3 DEF RightInv
  <1>q. ASSUME NEW r \in Readers, Quiet, \A p \in Readers : p # r => Alike(p) /\ reader'[p] = reader[p],
               reader'[r].pc # "fetched", ~raced /\ ~late => RightAt(r)'
        PROVE  RightInv'
    <2>1. (raced' <=> raced) /\ (late' <=> late)
      BY <1>q DEF Quiet
    <2> QED BY <1>q, <2>1, RightQuiet DEF RightInv
  <1>12. ASSUME NEW r \in Readers, FindRoot(r) PROVE RightInv'
    <2>1. Quiet /\ \A p \in Readers : p # r => Alike(p) /\ reader'[p] = reader[p]
      BY <1>12, QuietSteps, OtherAlike
    <2>2. CASE Finished(r, <<"missing">>)
      <3>1. reader'[r].pc = "done"
        BY <2>2 DEF Finished
      <3>2. RightAt(r)'
        BY <1>b, <3>1 DEF Trusting, Reading
      <3> QED BY <1>q, <2>1, <3>1, <3>2
    <2>3. CASE /\ trees[reader[r].tree].prim # 0
               /\ Advanced(r, "node", trees[reader[r].tree].prim, reader[r].node, reader[r].ptr, reader[r].events)
      <3>1. /\ reader'[r].pc = "node" /\ reader'[r].tree = reader[r].tree /\ reader'[r].key = reader[r].key
            /\ reader'[r].page = trees[reader[r].tree].prim /\ reader'[r].events = reader[r].events
            /\ reader'[r].seen = reader[r].seen
        BY <2>3 DEF Advanced
      <3>2. Reading(r) /\ reader[r].pc = "root" /\ UNCHANGED <<trees, file, disk>>
        BY <1>12, <2>1, FindRootIs DEF Quiet, index, storage
      <3>3. ASSUME ~raced, ~late, Trusting(r)' PROVE RightAt(r)'
        <4>1. Fine(r, trees[reader[r].tree].prim)
          BY <2>3, <3>1, <3>2, <3>3 DEF RightInv, RightAt, Trusting, Met
        <4>2. Lasting /\ NoFetch /\ reader[r].seen \subseteq reader'[r].seen
          BY <2>1, <3>1, <3>2 DEF Lasting, NoFetch
        <4>3. FineNext(r, trees[reader[r].tree].prim)
          BY <3>2, <4>1, <4>2, FineStays
        <4>4. Fine(r, reader[r].page)'
          BY <3>1, <4>3 DEF Fine, FineNext, Good, GoodNext
        <4> QED BY <3>1, <4>4 DEF RightAt
      <3> QED BY <1>b, <1>q, <2>1, <3>1, <3>3
    <2> QED BY <1>12, <2>2, <2>3, FindRootIs
  <1>13. ASSUME NEW r \in Readers, FindNode(r) PROVE RightInv'
    <2>1. Quiet /\ \A p \in Readers : p # r => Alike(p) /\ reader'[p] = reader[p]
      BY <1>13, QuietSteps, OtherAlike
    <2>2. CASE Finished(r, <<"missing">>)
      <3>1. reader'[r].pc = "done"
        BY <2>2 DEF Finished
      <3>2. RightAt(r)'
        BY <1>b, <3>1 DEF Trusting, Reading
      <3> QED BY <1>q, <2>1, <3>1, <3>2
    <2>3. CASE Advanced(r, "read", reader[r].page, reader[r].node,
                        trees[reader[r].tree].cache[reader[r].page].entries[reader[r].key], reader[r].events)
      <3>1. /\ reader'[r].pc = "read" /\ reader'[r].key = reader[r].key
            /\ reader'[r].ptr = trees[reader[r].tree].cache[reader[r].page].entries[reader[r].key]
            /\ reader'[r].events = reader[r].events /\ reader'[r].seen = reader[r].seen
        BY <2>3 DEF Advanced
      <3>2. /\ Reading(r) /\ reader[r].pc = "node" /\ file' = file
            /\ reader[r].page \in DOMAIN trees[reader[r].tree].cache
        BY <1>13, <2>1, FindNodeIs DEF Quiet, storage
      <3>3. ASSUME ~raced, ~late, Trusting(r)' PROVE RightAt(r)'
        <4>1. Fine(r, reader[r].page)
          BY <3>1, <3>2, <3>3 DEF RightInv, RightAt, Trusting, Met
        <4>2. Good(r, reader[r].ptr)'
          BY <3>1, <3>2, <4>1 DEF Fine, Good
        <4> QED BY <3>1, <4>2 DEF RightAt
      <3> QED BY <1>b, <1>q, <2>1, <3>1, <3>3
    <2> QED BY <1>13, <2>2, <2>3, FindNodeIs
  <1>14. ASSUME NEW r \in Readers, FindTorn(r) PROVE RightInv'
    <2>1. Quiet /\ \A p \in Readers : p # r => Alike(p) /\ reader'[p] = reader[p]
      BY <1>14, QuietSteps, OtherAlike
    <2>2. reader'[r].pc = "read" /\ "torn" \in reader'[r].events
      BY <1>14, FindTornIs DEF Advanced
    <2>3. RightAt(r)'
      BY <1>b, <2>2 DEF Trusting, Met
    <2> QED BY <1>q, <2>1, <2>2, <2>3
  <1>15. ASSUME NEW r \in Readers, ReadRecord(r) PROVE RightInv'
    <2>1. Quiet /\ \A p \in Readers : p # r => Alike(p) /\ reader'[p] = reader[p]
      BY <1>15, QuietSteps, OtherAlike
    <2>2. reader'[r].pc = "done"
      BY <1>15, ReadRecordIs DEF Finished
    <2>3. RightAt(r)'
      BY <1>b, <2>2 DEF Trusting, Reading
    <2> QED BY <1>q, <2>1, <2>2, <2>3
  <1>16. ASSUME NEW r \in Readers, FetchPage(r) PROVE RightInv'
    <2>1. UNCHANGED <<trees, file, disk>> /\ (raced' <=> raced) /\ (late' <=> late)
      BY <1>16, QuietSteps DEF Quiet, storage, index
    <2>2. ASSUME ~raced, ~late PROVE RightAt(r)'
      <3>1. CASE Finished(r, <<"error">>)
        BY <1>b, <3>1 DEF Finished, Trusting, Reading
      <3>2. CASE /\ trees[reader[r].tree].open
                 /\ Advanced(r, "fetched", reader[r].page, disk.node[reader[r].page], reader[r].ptr, reader[r].events)
        <4>1. /\ reader'[r].pc = "fetched" /\ reader'[r].node = disk.node[reader[r].page]
              /\ reader'[r].events = reader[r].events /\ reader'[r].key = reader[r].key
              /\ reader'[r].seen = reader[r].seen
          BY <3>2 DEF Advanced
        <4> SUFFICES ASSUME Trusting(r)' PROVE RightAt(r)'
          BY <1>b
        <4>2. /\ Reading(r) /\ reader[r].pc = "node" /\ ~Met(r, {"torn", "compact"})
              /\ reader[r].page \notin DOMAIN trees[reader[r].tree].cache
          BY <1>16, <4>1, FetchPageIs DEF Trusting, Met
        <4>3. Good(r, disk.node[reader[r].page].entries[reader[r].key])
          BY <2>2, <3>2, <4>2 DEF RightInv, RightAt, Fine
        <4> QED BY <2>1, <4>1, <4>3 DEF RightAt, Good
      <3> QED BY <1>16, <3>1, <3>2, FetchPageIs
    <2>3. ASSUME ~raced, ~late, NEW q \in Readers, q # r PROVE RightAt(q)'
      BY <1>16, <2>3, RightFetched
    <2> QED BY <2>1, <2>2, <2>3 DEF RightInv
  <1>17. ASSUME ClaimLeaf PROVE RightInv'
    <2>1. ClaimedStep
      BY <1>17, ClaimLeafIs
    <2>2. (raced' <=> raced) /\ (late' <=> late)
      BY <2>1 DEF ClaimedStep
    <2> QED BY <2>1, <2>2, RightClaimed DEF RightInv
  <1> QED BY <1>1, <1>2, <1>3, <1>4, <1>5, <1>6, <1>7, <1>8, <1>9, <1>10, <1>11, <1>12, <1>13, <1>14,
             <1>15, <1>16, <1>17, ReaderSteps

\* What a call has returned is one of the three results, or excused.
ResultAt(r) ==
    Done(r) =>
        /\ Len(Result(r)) = 2 =>
              \/ Result(r)[1] = reader[r].key /\ Result(r)[2] \in reader[r].seen
              \/ Met(r, {"torn", "compact"}) \/ late \/ raced
        /\ Result(r) = <<"missing">> =>
              0 \in reader[r].seen \/ Met(r, {"update", "torn", "reuse", "compact"})
        /\ Result(r) = <<"error">> => Met(r, {"torn", "clear", "compact"}) \/ raced

\* Every step keeps what the calls have returned.
LEMMA ResultsNext ==
  ASSUME IInv, Next
  PROVE  Results'
  <1> USE DEF IInv
  <1> SUFFICES \A q \in Readers : ResultAt(q)'
    BY DEF Results, RightRecord, MissingOnly, ErrorOnly, ResultAt
  <1>r. \A q \in Readers : ResultAt(q)
    BY DEF Results, RightRecord, MissingOnly, ErrorOnly, ResultAt
  <1>0. ASSUME NEW q \in Readers, reader'[q] = reader[q] \/ reader'[q].pc # "done",
               raced => raced', late => late'
        PROVE  ResultAt(q)'
    <2>1. CASE reader'[q] = reader[q]
      BY <1>0, <1>r, <2>1 DEF ResultAt, Done, Result, Met
    <2>2. CASE reader'[q].pc # "done"
      BY <2>2 DEF ResultAt, Done
    <2> QED BY <1>0, <2>1, <2>2
  <1>1. (raced => raced') /\ (late => late')
    <2>1. ASSUME NEW keys \in SUBSET Keys, AppendRecords(keys) PROVE (raced => raced') /\ (late => late')
      BY <2>1 DEF AppendRecords
    <2>2. ASSUME NEW k \in Keys, ShadowDelete(k) \/ ShadowInsert(k) PROVE (raced => raced') /\ (late => late')
      BY <2>2 DEF ShadowDelete, ShadowInsert
    <2>3. ASSUME ShadowCommit \/ Clear \/ Compact \/ RemoveIndex \/ Truncate \/ Reopen
          PROVE  (raced => raced') /\ (late => late')
      BY <2>3 DEF ShadowCommit, Clear, Compact, RemoveIndex, Truncate, Reopen
    <2>4. ASSUME NEW r \in Readers, NEW k \in Keys, GetIndex(r, k) PROVE (raced => raced') /\ (late => late')
      BY <2>4, RacedIs DEF GetIndex
    <2>5. ASSUME NEW r \in Readers, CacheNode(r) PROVE (raced => raced') /\ (late => late')
      BY <2>5 DEF CacheNode
    <2>6. ASSUME Still PROVE (raced => raced') /\ (late => late')
      BY <2>6 DEF Still
    <2>7. ASSUME ClaimLeaf PROVE (raced => raced') /\ (late => late')
      BY <2>7 DEF ClaimLeaf
    <2> QED BY <2>1, <2>2, <2>3, <2>4, <2>5, <2>6, <2>7, Steps
  <1>2. ASSUME \/ \E keys \in SUBSET Keys : AppendRecords(keys)
               \/ ClaimLeaf
               \/ \E k \in Keys : ShadowDelete(k)
               \/ \E k \in Keys : ShadowInsert(k)
               \/ ShadowCommit \/ Clear \/ Compact \/ RemoveIndex \/ Truncate \/ Reopen,
               NEW q \in Readers
        PROVE  ResultAt(q)'
    <2>1. Alike(q)
      BY <1>2, WriterAlike
    <2>2. reader'[q] = reader[q] \/ reader'[q].pc # "done"
      BY <2>1 DEF Alike, Reading
    <2> QED BY <1>0, <1>1, <2>2
  <1>3. ASSUME NEW r \in Readers, NEW q \in Readers, q # r,
               \/ \E k \in Keys : GetIndex(r, k)
               \/ FindRoot(r) \/ FindNode(r) \/ FindTorn(r) \/ FetchPage(r) \/ CacheNode(r) \/ ReadRecord(r)
        PROVE  ResultAt(q)'
    BY <1>0, <1>1, <1>3, OtherAlike
  <1>m. ASSUME NEW r \in Readers, Finished(r, <<"missing">>), ~Unexcused(r), Reading(r) PROVE ResultAt(r)'
    <2>1. Result(r)' = <<"missing">> /\ reader'[r].events = reader[r].events /\ reader'[r].seen = reader[r].seen
      BY <1>m DEF Finished, Result
    <2>2. Len(<<"missing">>) # 2 /\ <<"missing">> # <<"error">>
      OBVIOUS
    <2> QED BY <1>m, <2>1, <2>2 DEF ResultAt, Unexcused, Met
  <1>e. ASSUME NEW r \in Readers, Finished(r, <<"error">>), ~Smooth(r) \/ raced, Reading(r) PROVE ResultAt(r)'
    <2>1. Result(r)' = <<"error">> /\ reader'[r].events = reader[r].events
      BY <1>e DEF Finished, Result
    <2>2. Len(<<"error">>) # 2 /\ <<"missing">> # <<"error">>
      OBVIOUS
    <2> QED BY <1>1, <1>e, <2>1, <2>2 DEF ResultAt, Smooth, Met
  <1>a. ASSUME NEW r \in Readers, NEW place, place # "done", NEW page, NEW node, NEW ptr, NEW events,
               Advanced(r, place, page, node, ptr, events)
        PROVE  ResultAt(r)'
    BY <1>0, <1>1, <1>a DEF Advanced
  <1>4. ASSUME NEW r \in Readers, NEW k \in Keys, GetIndex(r, k) PROVE ResultAt(r)'
    <2>1. reader'[r].pc = "root"
      BY <1>4, GetIndexIs DEF Started
    <2> QED BY <1>0, <1>1, <2>1
  <1>5. ASSUME NEW r \in Readers, FindRoot(r) PROVE ResultAt(r)'
    <2>1. CASE trees[reader[r].tree].prim = 0 /\ Finished(r, <<"missing">>)
      <3>1. ~Unexcused(r)
        <4> SUFFICES ASSUME Unexcused(r) PROVE FALSE
          OBVIOUS
        <4>1. reader[r].tree = cached /\ Entries(Tree)[reader[r].key] # 0 /\ reader[r].key \in Keys
          BY Calm
        <4> QED BY <2>1, <4>1 DEF Entries, Tree, NoEntries
      <3> QED BY <1>5, <1>m, <2>1, <3>1, FindRootIs
    <2>2. CASE Advanced(r, "node", trees[reader[r].tree].prim, reader[r].node, reader[r].ptr, reader[r].events)
      BY <1>a, <2>2
    <2> QED BY <1>5, <2>1, <2>2, FindRootIs
  <1>6. ASSUME NEW r \in Readers, FindNode(r) PROVE ResultAt(r)'
    <2> DEFINE ptr == trees[reader[r].tree].cache[reader[r].page].entries[reader[r].key]
    <2>1. CASE ptr = 0 /\ Finished(r, <<"missing">>)
      <3>1. reader[r].pc = "node" /\ reader[r].page \in DOMAIN trees[reader[r].tree].cache /\ Reading(r)
        BY <1>6, FindNodeIs
      <3>2. ~Unexcused(r)
        BY <2>1, <3>1 DEF MissInv, MissAt, Unexcused
      <3> QED BY <1>m, <2>1, <3>1, <3>2
    <2>2. CASE Advanced(r, "read", reader[r].page, reader[r].node, ptr, reader[r].events)
      BY <1>a, <2>2
    <2> QED BY <1>6, <2>1, <2>2, FindNodeIs
  <1>7. ASSUME NEW r \in Readers, FindTorn(r) PROVE ResultAt(r)'
    BY <1>7, <1>a, FindTornIs
  <1>8. ASSUME NEW r \in Readers, FetchPage(r) PROVE ResultAt(r)'
    <2>1. CASE /\ ~(trees[reader[r].tree].open /\ reader[r].page \in DOMAIN disk.node)
               /\ Finished(r, <<"error">>)
      <3>1. reader[r].pc = "node" /\ reader[r].page \notin DOMAIN trees[reader[r].tree].cache /\ Reading(r)
        BY <1>8, FetchPageIs
      <3>2. ASSUME Smooth(r), ~raced PROVE FALSE
        <4>1. cached # 0 /\ reader[r].tree = cached
          BY <3>2, SmoothIs
        <4>2. reader[r].page = Tree.prim
          BY <3>1, <3>2, <4>1 DEF Uncached, UncachedAt, Tree
        <4>3. reader[r].page \in 3..(trees[reader[r].tree].next - 1)
          BY <3>1 DEF CallsInv, CallAt
        <4>4. Tree.prim # 0
          BY <4>2, <4>3
        <4>5. Tree.open /\ Tree.prim \in DOMAIN disk.node
          BY <3>1, <3>2, <4>1, <4>2, <4>4 DEF TreesInv, Tree
        <4> QED BY <2>1, <4>1, <4>2, <4>5 DEF Tree
      <3> QED BY <1>e, <2>1, <3>1, <3>2
    <2>2. CASE Advanced(r, "fetched", reader[r].page, disk.node[reader[r].page], reader[r].ptr, reader[r].events)
      BY <1>a, <2>2
    <2> QED BY <1>8, <2>1, <2>2, FetchPageIs
  <1>9. ASSUME NEW r \in Readers, CacheNode(r) PROVE ResultAt(r)'
    <2>1. CASE reader[r].node.entries[reader[r].key] = 0 /\ Finished(r, <<"missing">>)
      <3>1. reader[r].pc = "fetched" /\ Reading(r)
        BY <1>9, CacheNodeIs
      <3>2. ASSUME Unexcused(r) PROVE FALSE
        <4>1. ~raced /\ ~Clearing /\ cached # 0 /\ reader[r].tree = cached /\ reader[r].key \in Keys
          BY <3>2, Calm
        <4>2. Full(reader[r].node)
          BY <3>1, <4>1 DEF Uncached, UncachedAt
        <4>3. ~(0 \in DOMAIN file)
          BY DEF Types
        <4> QED BY <2>1, <4>1, <4>2, <4>3 DEF Full
      <3> QED BY <1>m, <2>1, <3>1, <3>2
    <2>2. CASE Advanced(r, "read", reader[r].page, reader[r].node, reader[r].node.entries[reader[r].key],
                        reader[r].events)
      BY <1>a, <2>2
    <2> QED BY <1>9, <2>1, <2>2, CacheNodeIs
  <1>10. ASSUME NEW r \in Readers, ReadRecord(r) PROVE ResultAt(r)'
    <2>0. Reading(r) /\ reader[r].pc = "read"
      BY <1>10, ReadRecordIs
    <2>1. CASE reader[r].ptr = 0 /\ Finished(r, <<"missing">>)
      <3>1. ~Unexcused(r)
        BY <2>0, <2>1 DEF MissInv, MissAt, Unexcused
      <3> QED BY <1>m, <2>0, <2>1, <3>1
    <2>2. CASE reader[r].ptr # 0 /\ reader[r].ptr \in DOMAIN file /\ Finished(r, file[reader[r].ptr])
      <3>1. /\ Result(r)' = file[reader[r].ptr] /\ reader'[r].key = reader[r].key
            /\ reader'[r].events = reader[r].events /\ reader'[r].seen = reader[r].seen
        BY <2>2 DEF Finished, Result
      <3>2. file[reader[r].ptr] \in Rows
        BY <2>2 DEF Types
      <3>3. file[reader[r].ptr] # <<"missing">> /\ file[reader[r].ptr] # <<"error">>
        BY <3>2 DEF Rows
      <3>4. ~Met(r, {"torn", "compact"}) /\ ~late /\ ~raced => Good(r, reader[r].ptr)
        BY <2>0 DEF RightInv, RightAt
      <3>5. \/ file[reader[r].ptr][1] = reader[r].key /\ file[reader[r].ptr][2] \in reader[r].seen
            \/ Met(r, {"torn", "compact"}) \/ late \/ raced
        BY <2>2, <3>4 DEF Good
      <3> QED BY <1>1, <3>1, <3>3, <3>5 DEF ResultAt, Met
    <2>3. CASE reader[r].ptr # 0 /\ reader[r].ptr \notin DOMAIN file /\ Finished(r, <<"error">>)
      <3>1. ~Smooth(r) \/ raced
        BY <2>0, <2>3 DEF ErrInv, ErrAt, Smooth, Within
      <3> QED BY <1>e, <2>0, <2>3, <3>1
    <2> QED BY <1>10, <2>1, <2>2, <2>3, ReadRecordIs
  <1>11. ASSUME NEW r \in Readers, NEW q \in Readers,
               \/ \E k \in Keys : GetIndex(r, k)
               \/ FindRoot(r) \/ FindNode(r) \/ FindTorn(r) \/ FetchPage(r) \/ CacheNode(r) \/ ReadRecord(r)
        PROVE  ResultAt(q)'
    <2>1. CASE q # r
      BY <1>3, <1>11, <2>1
    <2>2. CASE q = r
      BY <1>4, <1>5, <1>6, <1>7, <1>8, <1>9, <1>10, <1>11, <2>2
    <2> QED BY <2>1, <2>2
  <1> QED BY <1>2, <1>11, ReaderSteps

-----------------------------------------------------------------------------
\* The entry of a key leads to the record that is appended for it.
LEMMA PlaceIs ==
  ASSUME NEW order \in Orders
  PROVE  /\ DOMAIN order = 1..Cardinality(Keys) /\ Cardinality(Keys) \in Nat
         /\ \A i \in DOMAIN order : order[i] \in Keys
         /\ Place(order) \in [Keys -> Nat]
         /\ \A k \in Keys : Place(order)[k] \in DOMAIN order /\ order[Place(order)[k]] = k
  <1>1. Cardinality(Keys) \in Nat
    BY ReadersAssumption, FS_CardinalityType
  <1>2. DOMAIN order = 1..Cardinality(Keys) /\ \A i \in DOMAIN order : order[i] \in Keys
    BY DEF Orders
  <1>3. \A k \in Keys : \E i \in DOMAIN order : order[i] = k
    BY DEF Orders
  <1>4. \A k \in Keys : Place(order)[k] \in DOMAIN order /\ order[Place(order)[k]] = k
    BY <1>3 DEF Place
  <1>5. DOMAIN order \subseteq Nat
    BY <1>1, <1>2
  <1>6. Place(order) \in [Keys -> Nat]
    <2>1. Place(order) = [k \in Keys |-> Place(order)[k]]
      BY DEF Place
    <2> QED BY <1>4, <1>5, <2>1
  <1> QED BY <1>1, <1>2, <1>4, <1>6

\* The invariant holds initially.
LEMMA InitInv ==
  ASSUME Init
  PROVE  IInv
  <1>1. PICK order \in Orders :
        /\ secondary \in BOOLEAN
        /\ file = [i \in DOMAIN order |-> <<order[i], 1>>]
        /\ disk = [prim |-> 3, sec |-> IF secondary THEN 4 ELSE 0, free |-> <<>>, next |-> 5,
                   node |-> [p \in {3, 4} |-> Leaf(0, IF p = 3 THEN Place(order) ELSE NoEntries)]]
        /\ trees = <<OpenTree(disk)>>
        /\ cached = 1
        /\ version = [k \in Keys |-> 1]
        /\ before = version
        /\ pc = "idle"
        /\ todo = {}
        /\ change = NoChange
        /\ ptrs = NoEntries
        /\ writes = 0
        /\ raced = FALSE
        /\ late = FALSE
        /\ reader = [r \in Readers |-> NoCall]
    BY DEF Init
  <1>2. /\ DOMAIN order = 1..Cardinality(Keys) /\ Cardinality(Keys) \in Nat
        /\ \A i \in DOMAIN order : order[i] \in Keys
        /\ Place(order) \in [Keys -> Nat]
        /\ \A k \in Keys : Place(order)[k] \in DOMAIN order /\ order[Place(order)[k]] = k
    BY PlaceIs
  <1>3. file \in Seq(Rows) /\ DOMAIN file = DOMAIN order /\ \A i \in DOMAIN file : file[i] = <<order[i], 1>>
    <2>1. file \in [1..Cardinality(Keys) -> Rows]
      BY <1>1, <1>2 DEF Rows
    <2> QED BY <1>1, <1>2, <2>1, RowSequence
  <1>4. /\ disk.node \in Caches /\ disk.node[3].entries = Place(order) /\ DOMAIN disk.node = {3, 4}
    <2>1. disk.node = [p \in {3, 4} |-> Leaf(0, IF p = 3 THEN Place(order) ELSE NoEntries)]
      BY <1>1
    <2>2. \A p \in {3, 4} : (IF p = 3 THEN Place(order) ELSE NoEntries) \in [Keys -> Nat]
      BY <1>2, NoEntriesType
    <2>3. disk.node \in [{3, 4} -> Leaves]
      BY <2>1, <2>2, LeafType
    <2>4. disk.node[3] = Leaf(0, Place(order)) /\ DOMAIN disk.node = {3, 4}
      BY <2>1
    <2>5. disk.node[3].entries = Place(order)
      BY <1>2, <2>4, LeafType
    <2>6. {3, 4} \in SUBSET Nat
      OBVIOUS
    <2> QED BY <2>3, <2>4, <2>5, <2>6, CacheFields
  <1>5. /\ disk.prim = 3 /\ disk.sec \in {0, 4} /\ disk.free = <<>> /\ disk.next = 5 /\ disk \in Files
    BY <1>1, <1>4 DEF Files
  <1>6. reader \in [Readers -> Calls] /\ \A r \in Readers : reader[r].pc = "start"
    <2>1. NoCall \in Calls /\ NoCall.pc = "start"
      <3>1. "start" \in CallPcs /\ <<>> \in CallResults /\ "none" \in Keys \cup {"none"}
        BY DEF CallPcs, CallResults
      <3>2. {} \in SUBSET Nat /\ {} \in SUBSET Events
        OBVIOUS
      <3> QED BY <3>1, <3>2, CallType DEF NoCall
    <2> QED BY <1>1, <2>1
  <1>7. Types
    <2>1. OpenTree(disk) \in Trees
      BY <1>5, CacheFields DEF OpenTree, Trees, Files
    <2>2. trees \in Seq(Trees) /\ Len(trees) = 1
      BY <1>1, <2>1
    <2>3. version \in [Keys -> Nat] /\ before \in [Keys -> Nat] /\ writes \in 0..MaxWrites /\ ptrs \in [Keys -> Nat]
      BY <1>1, ReadersAssumption, NoEntriesType
    <2> QED BY <1>1, <1>3, <1>5, <1>6, <2>2, <2>3, NoChangeType DEF Types
  <1>8. Booleans /\ ChangeInv
    BY <1>1 DEF Booleans, ChangeInv, NoChange
  <1>9. /\ Tree = OpenTree(disk) /\ Tree.prim = 3 /\ Tree.sec \in {0, 4} /\ Tree.free = <<>> /\ Tree.next = 5
        /\ Tree.cache = <<>> /\ DOMAIN Tree.cache = {} /\ Tree.orphans = <<>> /\ Tree.open
        /\ trees[1] = Tree /\ DOMAIN trees = {1}
    <2>1. Tree = OpenTree(disk) /\ trees[1] = Tree /\ DOMAIN trees = {1}
      BY <1>1 DEF Tree
    <2> QED BY <1>5, <1>7, <2>1, OpenTreeType
  <1>10. TreesInv
    <2>1. Owned(Tree)
      BY <1>9 DEF Owned, Distinct
    <2>2. Rooted(Tree, disk) /\ Bounded(Tree)
      BY <1>4, <1>9 DEF Rooted, Bounded
    <2> QED BY <1>1, <1>9, <2>1, <2>2, TreesParts
  <1>11. Waiting = {}
    BY <1>1 DEF Waiting, NoEntries
  <1>12. Control
    BY <1>1, <1>11 DEF Control
  <1>13. Versions
    BY <1>1, <1>3, <1>11 DEF Versions, Clearing
  <1>14. Entries(Tree) = Place(order) /\ Entries(OpenTree(disk)) = Place(order)
    BY <1>4, <1>9 DEF Entries, Node, InCache
  <1>15. \A k \in Keys : Place(order)[k] \in DOMAIN file /\ file[Place(order)[k]] = <<k, 1>> /\ Place(order)[k] # 0
    BY <1>2, <1>3
  <1>16. TreeLeads /\ DiskLeads
    <2>1. \A k \in Keys : version[k] = 1 /\ Points(Place(order)[k], k, version[k])
      BY <1>1, <1>15 DEF Points
    <2>2. \A k \in Keys : LeadsAt(Entries(Tree)[k], k)
      BY <1>1, <1>14, <2>1 DEF LeadsAt
    <2>3. Leads(OpenTree(disk))
      BY <1>14, <1>15, <2>1 DEF Leads
    <2> QED BY <2>2, <2>3 DEF TreeLeads, DiskLeads
  <1>17. CommitDirty /\ Present /\ FullPrimary
    BY <1>1, <1>4, <1>9, <1>11, <1>14, <1>15 DEF CommitDirty, Present, PresentAt, FullPrimary, Full
  <1>18. CallsInv /\ Uncached /\ EventsInv /\ PageKept /\ MissInv /\ ErrInv /\ RightInv
    BY <1>6 DEF CallsInv, CallAt, Uncached, UncachedAt, EventsInv, EventsAt, PageKept, KeptAt, MissInv, MissAt,
                ErrInv, ErrAt, RightInv, RightAt, Reading
  <1>19. Results
    BY <1>6 DEF Results, RightRecord, MissingOnly, ErrorOnly, Done
  <1> QED BY <1>7, <1>8, <1>10, <1>12, <1>13, <1>16, <1>17, <1>18, <1>19 DEF IInv

\* Every step keeps the invariant.
LEMMA NextInv ==
  ASSUME IInv, [Next]_vars
  PROVE  IInv'
  <1>1. CASE Next
    BY <1>1, TypesNext, BooleansNext, ChangeNext, TreesNext, ControlNext, VersionsNext, LeadsNext, DiskLeadsNext,
       CommitDirtyNext, PresentNext, FullPrimaryNext, CallsNext, UncachedNext, EventsNext, PageKeptNext,
       MissNext, ErrNext, RightNext, ResultsNext DEF IInv
  <1>2. CASE UNCHANGED vars
    <2>1. UNCHANGED <<secondary, file, disk, trees, cached, version, before, pc, todo, change, ptrs, writes,
                      raced, late, reader>>
      BY <1>2 DEF vars, storage, writer, index
    <2> USE <2>1 DEF IInv
    <2>2. Types'
      BY DEF Types
    <2>3. Booleans'
      BY DEF Booleans
    <2>4. TreesInv' /\ Control' /\ Versions'
      BY DEF TreesInv, Control, Versions, Tree, Waiting, Clearing
    <2>e. Entries(Tree)' = Entries(Tree) /\ Tree' = Tree /\ Waiting' = Waiting /\ (Clearing' <=> Clearing)
      BY EntriesKept DEF Waiting, Clearing
    <2>d. Entries(OpenTree(disk))' = Entries(OpenTree(disk))
      BY DEF Entries, OpenTree, Node, InCache
    <2>5. TreeLeads' /\ DiskLeads' /\ CommitDirty' /\ Present' /\ FullPrimary'
      <3>1. TreeLeads'
        BY <2>e DEF TreeLeads, LeadsAt, Points
      <3>2. DiskLeads'
        BY <2>d DEF DiskLeads, Leads
      <3>3. CommitDirty' /\ FullPrimary'
        BY <2>e DEF CommitDirty, FullPrimary, Full
      <3>4. Present'
        BY <2>e DEF Present, PresentAt
      <3> QED BY <3>1, <3>2, <3>3, <3>4
    <2>c. ChangeInv'
      <3>1. ClaimedPage' <=> ClaimedPage
        BY <2>e DEF ClaimedPage, Ready, Full
      <3>2. (\A k \in Keys : PresentAt(change.entries[k], k))' <=> \A k \in Keys : PresentAt(change.entries[k], k)
        BY <2>e DEF PresentAt
      <3> QED BY <2>e, <3>1, <3>2 DEF ChangeInv
    <2>6. CallsInv' /\ Uncached' /\ EventsInv' /\ PageKept'
      BY DEF CallsInv, Uncached, EventsInv, PageKept, CallAt, UncachedAt, EventsAt, KeptAt, Full, Tree, Waiting,
             Clearing, Reading, Met
    <2>7. MissInv' /\ ErrInv' /\ RightInv'
      <3>1. MissInv'
        BY DEF MissInv, MissAt, Reading, Met
      <3>2. ErrInv'
        BY DEF ErrInv, ErrAt, Within, Reading, Met
      <3>3. Lasting /\ NoFetch /\ \A q \in Readers : Alike(q)
        BY DEF Lasting, NoFetch, Alike
      <3>4. ASSUME ~raced, ~late, NEW q \in Readers PROVE RightAt(q)'
        BY <3>3, <3>4, RightKept DEF RightInv
      <3> QED BY <3>1, <3>2, <3>4 DEF RightInv
    <2>8. Results'
      BY DEF Results, RightRecord, MissingOnly, ErrorOnly, Done, Result, Met
    <2> QED BY <2>2, <2>3, <2>4, <2>5, <2>6, <2>7, <2>8, <2>c
  <1> QED BY <1>1, <1>2

\* Every step of the writer and of the lock-free readers, in any interleaving, keeps the
\* inductive invariant.
THEOREM Invariant == Spec => []IInv
  BY InitInv, NextInv, PTL DEF Spec

\* Every variable stays in its set, and the pages in the cache of every index object are below its next page.
THEOREM TypeCorrect == Spec => []TypeOK
  <1>1. IInv => TypeOK
    <2> SUFFICES ASSUME IInv PROVE TypeOK
      OBVIOUS
    <2> USE DEF IInv
    <2>1. \A k \in Keys : version[k] \in 0..MaxWrites + 1 /\ before[k] \in 0..MaxWrites + 1
      BY ReadersAssumption DEF Types, Versions
    <2>2. version \in [Keys -> 0..MaxWrites + 1] /\ before \in [Keys -> 0..MaxWrites + 1]
      BY <2>1 DEF Types
    <2>3. \A i \in DOMAIN file : file[i] \in Keys \X (1..MaxWrites + 1)
      <3> TAKE i \in DOMAIN file
      <3>1. file[i] \in Rows /\ file[i][2] \in 1..(writes + 1)
        BY DEF Types, Versions
      <3>2. file[i][2] \in 1..(MaxWrites + 1)
        BY <3>1, ReadersAssumption DEF Types
      <3> QED BY <3>1, <3>2 DEF Rows
    <2>4. \A i \in DOMAIN trees : \A p \in DOMAIN trees[i].cache : p \in 3..trees[i].next - 1
      BY DEF TreesInv
    <2> QED BY <2>2, <2>3, <2>4 DEF Types, Booleans, TypeOK
  <1> QED BY <1>1, Invariant, PTL

\* FindByID, which takes no lock, returns the record asked for as it was at some time during
\* the call, unless the leaf was being filled or changed as it was read, the table file was compacted, or a
\* reader had put an old node into the cache or opened the index file too early.
THEOREM RightRecordHolds == Spec => []RightRecord
  <1>1. IInv => RightRecord
    BY DEF IInv, Results
  <1> QED BY <1>1, Invariant, PTL

\* FindByID misses a record that existed throughout the call only while an update of the record
\* is under way, the leaf is filled or changed, when a write took the page it was about to read, or
\* when Compact rebuilds the index.
THEOREM MissingOnlyHolds == Spec => []MissingOnly
  <1>1. IInv => MissingOnly
    BY DEF IInv, Results
  <1> QED BY <1>1, Invariant, PTL

\* FindByID fails only while shadowClear or Compact rebuilds the index or its leaf is filled or
\* changed, or once the index file was opened between its removal and its truncation.
THEOREM ErrorOnlyHolds == Spec => []ErrorOnly
  <1>1. IInv => ErrorOnly
    BY DEF IInv, Results
  <1> QED BY <1>1, Invariant, PTL

\* Once a write is applied, the open index and the index file as it would be opened next lead to
\* the current record of every key, whatever reads went on meanwhile, unless one of them opened
\* the file too early or cached a node too late.
THEOREM WritesArriveHolds == Spec => []WritesArrive
  <1>1. IInv => WritesArrive
    <2> SUFFICES ASSUME IInv, pc = "idle", ~raced, ~late PROVE (cached # 0 => Leads(Tree)) /\ Leads(OpenTree(disk))
      BY DEF WritesArrive
    <2>1. Leads(OpenTree(disk))
      BY DEF IInv, DiskLeads
    <2>2. cached # 0 => Leads(Tree)
      BY DEF IInv, TreeLeads, LeadsAt, Points, Leads
    <2> QED BY <2>1, <2>2
  <1> QED BY <1>1, Invariant, PTL
=============================================================================

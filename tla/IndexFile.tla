------------------------------ MODULE IndexFile -------------------------------
(***************************************************************************)
(* The pages of one index file: how a commit writes the changed nodes, the *)
(* catalog and a superblock, which pages it recycles, and what a crash     *)
(* between two page writes leaves for NewDiskBPlusTree and for the replay  *)
(* of the WAL, which runs every transaction again with its old generation. *)
(* Each named index of the file is a single leaf; what the leaf holds is   *)
(* the number of the transaction that wrote it.                            *)
(***************************************************************************)
EXTENDS Integers, Sequences, SequencesExt

CONSTANTS
    Names,          \* the named indexes of one table
    Primary,        \* the one a transaction changes first
    MaxFree,        \* free pages the catalog page has room for
    MaxTransactions,    \* bound: transactions
    MaxCrashes          \* bound: crashes

ASSUME IndexFileAssumption ==
    /\ Primary \in Names
    /\ MaxFree \in Nat /\ MaxTransactions \in Nat /\ MaxCrashes \in Nat

\* The generation of a transaction: the first one of a table registers the table.
Generation(i) == i + 1

None == [kind |-> "none"]
Torn == [kind |-> "torn"]
Superblock(gen, catalog, next) == [kind |-> "super", gen |-> gen, catalog |-> catalog, next |-> next]
Catalog(gen, roots, free) == [kind |-> "catalog", gen |-> gen, roots |-> roots, free |-> free]
Node(name, val, gen) == [kind |-> "node", name |-> name, val |-> val, gen |-> gen]

VARIABLES
    pages,      \* page -> what the file holds there; pages 0 and 1 are the superblocks
    roots,      \* catalog: name -> root page, 0 when the index does not exist
    free,       \* freeList
    orphans,    \* orphanedList
    next,       \* nextPageID
    catalog,    \* catalogRoot
    cache,      \* nodeCache: the nodes of the running transaction
    dirty,      \* dirtyNodes
    log,        \* transactions in the WAL, each the set of names it changes
    pc,         \* where the writer or Open is
    at,         \* the transaction that is applied
    todo,       \* names it has still to change
    recovering, \* it is replayed
    crashes,
    torn,       \* which write a crash cut off
    latest      \* slot of the superblock written last, 2 when a catalog came after it

memory == <<roots, free, orphans, next, catalog, cache, dirty>>
vars == <<pages, memory, log, pc, at, todo, recovering, crashes, torn, latest>>

NoRoots == [n \in Names |-> 0]
Page(p) == IF p \in DOMAIN pages THEN pages[p] ELSE None
With(f, p, content) == [q \in DOMAIN f \cup {p} |-> IF q = p THEN content ELSE f[q]]

Init ==
    /\ pages = <<>>
    /\ roots = NoRoots /\ free = <<>> /\ orphans = <<>> /\ next = 0 /\ catalog = 0
    /\ cache = <<>> /\ dirty = {}
    /\ log = <<>>
    /\ pc = "down" /\ at = 0 /\ todo = {} /\ recovering = FALSE
    /\ crashes = 0 /\ torn = "nothing" /\ latest = 2

\* Every variable stays in its set; superblocks are only in the first two pages.
TypeOK ==
    /\ \A p \in DOMAIN pages : p \in Nat /\ (pages[p].kind = "super" => p \in {0, 1})
    /\ roots \in [Names -> Nat]
    /\ free \in Seq(Nat) /\ orphans \in Seq(Nat)
    /\ next \in Nat /\ catalog \in Nat
    /\ dirty \subseteq DOMAIN cache
    /\ \A p \in DOMAIN cache : cache[p].kind = "node"
    /\ log \in Seq(SUBSET Names)
    /\ pc \in {"down", "created", "open", "idle", "apply", "write", "catalog", "unopenable"}
    /\ at \in 0..Len(log)
    /\ todo \subseteq Names
    /\ recovering \in BOOLEAN
    /\ crashes \in 0..MaxCrashes
    /\ torn \in {"nothing", "creation", "node", "replayed node", "catalog"}
    /\ latest \in 0..2

-----------------------------------------------------------------------------
(* NewDiskBPlusTree. *)

\* An empty file: the catalog comes first, so that until the superblock is there
\* the file has no superblock at all.
CreateCatalog ==
    /\ pc = "down"
    /\ pages = <<>>
    /\ pages' = With(pages, 2, Catalog(1, NoRoots, <<>>))
    /\ pc' = "created"
    /\ UNCHANGED <<memory, log, at, todo, recovering, crashes, torn, latest>>

\* Without a WAL the table is served at once, else its replay begins.
CreateSuperblock ==
    /\ pc = "created"
    /\ pages' = With(pages, 0, Superblock(1, 2, 3))
    /\ roots' = NoRoots /\ free' = <<>> /\ orphans' = <<>> /\ next' = 3 /\ catalog' = 2
    /\ cache' = <<>> /\ dirty' = {}
    /\ pc' = "open"
    /\ latest' = 0
    /\ UNCHANGED <<log, at, todo, recovering, crashes, torn>>

\* Mutant: always the first one.
ActiveFirst == IF Page(0).kind # "super" THEN 1 ELSE 0

\* The valid superblock of the higher generation, the first one when they tie.
Active ==
    IF Page(0).kind # "super" THEN 1
    ELSE IF Page(1).kind # "super" THEN 0
    ELSE IF Page(0).gen >= Page(1).gen THEN 0 ELSE 1

\* Mutant: both superblocks must be valid.
ReadableBoth ==
    /\ Page(0).kind = "super" /\ Page(1).kind = "super"
    /\ Page(Page(Active).catalog).kind = "catalog"

Readable ==
    /\ Page(Active).kind = "super"
    /\ Page(Page(Active).catalog).kind = "catalog"

Open ==
    /\ pc = "down"
    /\ pages # <<>>
    /\ Readable
    /\ LET super == Page(Active)
           loaded == Page(super.catalog)
       IN  /\ roots' = loaded.roots
           /\ free' = loaded.free
           /\ catalog' = super.catalog
           /\ next' = super.next
    /\ orphans' = <<>> /\ cache' = <<>> /\ dirty' = {}
    /\ pc' = "open"
    /\ UNCHANGED <<pages, log, at, todo, recovering, crashes, torn, latest>>

OpenFails ==
    /\ pc = "down"
    /\ pages # <<>>
    /\ ~Readable
    /\ pc' = "unopenable"
    /\ UNCHANGED <<pages, memory, log, at, todo, recovering, crashes, torn, latest>>

-----------------------------------------------------------------------------
(* A transaction. *)

\* The catalog just loaded names a page behind NextPageID.
NextLost ==
    \/ catalog >= next
    \/ \E n \in Names : roots[n] >= next
    \/ \E i \in DOMAIN free : free[i] >= next

\* The WAL has the transaction before the index changes.  A behaviour ends where
\* NextPageID is lost.
Begin(S) ==
    /\ pc = "idle"
    /\ Len(log) < MaxTransactions
    /\ log' = Append(log, S)
    /\ at' = Len(log) + 1
    /\ todo' = S
    /\ pc' = "apply"
    /\ UNCHANGED <<pages, memory, recovering, crashes, torn, latest>>

MoreToReplay == at < Len(log)

\* The next transaction of the WAL, or the end of recovery.
Replay ==
    /\ pc = "open"
    /\ ~NextLost
    /\ IF MoreToReplay
       THEN /\ at' = at + 1
            /\ todo' = log[at + 1]
            /\ pc' = "apply"
            /\ UNCHANGED recovering
       ELSE /\ pc' = "idle"
            /\ recovering' = FALSE
            /\ UNCHANGED <<at, todo>>
    /\ UNCHANGED <<pages, memory, log, crashes, torn, latest>>

InPlace(node) == node.gen = Generation(at)

\* Mutant: the first free page.
FirstPage == IF free # <<>> THEN Head(free) ELSE next

\* allocatePageID.
NewPage == IF free # <<>> THEN Last(free) ELSE next
Allocate ==
    /\ free' = IF free # <<>> THEN Front(free) ELSE free
    /\ next' = IF free # <<>> THEN next ELSE next + 1

markOrphaned(page) == IF page < 3 THEN orphans ELSE Append(orphans, page)

Cached(p) == IF p \in DOMAIN cache THEN cache[p] ELSE Page(p)

\* insertNamedNoCommitLocked: a new leaf, the leaf itself, or a copy of it.
Insert(n) ==
    /\ pc = "apply"
    /\ n \in todo
    /\ Primary \in todo => n = Primary
    /\ LET old == roots[n]
           new == Node(n, at, Generation(at))
       IN  \/ /\ old = 0
              /\ Allocate
              /\ cache' = With(cache, NewPage, new)
              /\ dirty' = dirty \cup {NewPage}
              /\ roots' = [roots EXCEPT ![n] = NewPage]
              /\ UNCHANGED orphans
           \/ /\ old # 0
              /\ Cached(old).kind = "node"
              /\ InPlace(Cached(old))
              /\ cache' = With(cache, old, new)
              /\ dirty' = dirty \cup {old}
              /\ UNCHANGED <<roots, free, next, orphans>>
           \/ /\ old # 0
              /\ Cached(old).kind = "node"
              /\ ~InPlace(Cached(old))
              /\ Allocate
              /\ cache' = With(cache, NewPage, new)
              /\ dirty' = dirty \cup {NewPage}
              /\ roots' = [roots EXCEPT ![n] = NewPage]
              /\ orphans' = markOrphaned(old)
    /\ todo' = todo \ {n}
    /\ pc' = IF todo' = {} THEN "write" ELSE "apply"
    /\ UNCHANGED <<pages, catalog, log, at, recovering, crashes, torn, latest>>

\* getNode finds a torn page: Open returns an error.
InsertFails(n) ==
    /\ pc = "apply"
    /\ n \in todo
    /\ Primary \in todo => n = Primary
    /\ roots[n] # 0
    /\ Cached(roots[n]).kind # "node"
    /\ pc' = "unopenable"
    /\ UNCHANGED <<pages, memory, log, at, todo, recovering, crashes, torn, latest>>

-----------------------------------------------------------------------------
(* writeNewStateLocked. *)

\* The dirty nodes, in the order of a map.
WriteNode(p) ==
    /\ pc = "write"
    /\ p \in dirty
    /\ pages' = With(pages, p, cache[p])
    /\ dirty' = dirty \ {p}
    /\ UNCHANGED <<roots, free, orphans, next, catalog, cache, log, pc, at, todo, recovering,
                   crashes, torn, latest>>

\* The free list once the orphans and the old catalog page, last, are in it.
Freed == free \o markOrphaned(catalog)
CatalogPage == IF Freed # <<>> THEN Last(Freed) ELSE next

WriteCatalog ==
    /\ pc = "write"
    /\ dirty = {}
    /\ free' = IF Freed # <<>> THEN Front(Freed) ELSE Freed
    /\ next' = IF Freed # <<>> THEN next ELSE next + 1
    /\ orphans' = <<>>
    /\ catalog' = CatalogPage
    /\ pages' = With(pages, CatalogPage,
                     Catalog(Generation(at), roots,
                             SubSeq(free', 1, IF Len(free') < MaxFree THEN Len(free') ELSE MaxFree)))
    /\ pc' = "catalog"
    /\ latest' = 2
    /\ UNCHANGED <<roots, cache, dirty, log, at, todo, recovering, crashes, torn>>

\* Mutant: the count of pages before the catalog got its own.
NextBeforeCatalog == IF catalog = next - 1 THEN catalog ELSE next

NextToSave == next

\* The slot that is not valid, or that of the lower generation.
Target ==
    IF Page(0).kind # "super" THEN 0
    ELSE IF Page(1).kind # "super" THEN 1
    ELSE IF Page(0).gen <= Page(1).gen THEN 0 ELSE 1

WriteSuperblock ==
    /\ pc = "catalog"
    /\ pages' = With(pages, Target, Superblock(Generation(at), catalog, NextToSave))
    /\ pc' = IF recovering THEN "open" ELSE "idle"
    /\ latest' = Target
    /\ UNCHANGED <<memory, log, at, todo, recovering, crashes, torn>>

-----------------------------------------------------------------------------
(* Crashes.  The fields of a superblock are in the first 42 bytes of its    *)
(* page and written as a whole; any other page may be torn.                 *)

Down ==
    /\ pc \notin {"down", "unopenable"}
    /\ crashes < MaxCrashes
    /\ crashes' = crashes + 1
    /\ pc' = "down"
    /\ at' = 0
    /\ todo' = {}
    /\ recovering' = TRUE
    /\ UNCHANGED <<memory, log, latest>>

Crash ==
    /\ Down
    /\ torn' = IF pc = "created" THEN "creation" ELSE torn
    /\ UNCHANGED pages

\* The page that is being written is torn.
TornNode(p) ==
    /\ pc = "write"
    /\ p \in dirty
    /\ Down
    /\ pages' = With(pages, p, Torn)
    /\ torn' = IF recovering THEN "replayed node" ELSE "node"

TornCatalog ==
    /\ pc = "write"
    /\ dirty = {}
    /\ Down
    /\ pages' = With(pages, CatalogPage, Torn)
    /\ torn' = "catalog"

Next ==
    \/ CreateCatalog \/ CreateSuperblock \/ Open \/ OpenFails
    \/ \E S \in (SUBSET Names) \ {{}} : Begin(S)
    \/ Replay
    \/ \E n \in Names : Insert(n) \/ InsertFails(n)
    \/ \E p \in dirty : WriteNode(p) \/ TornNode(p)
    \/ WriteCatalog \/ WriteSuperblock
    \/ Crash \/ TornCatalog

Spec == Init /\ [][Next]_vars

-----------------------------------------------------------------------------
(* Properties. *)

Live == {roots[n] : n \in Names} \ {0}

\* While the file is open, no page has two uses: the leaves of the indexes are
\* different pages, none of them is free, orphaned or the catalog, no page is given
\* out twice, and all of them are pages that NextPageID has passed.
PagesOwned ==
    LET given == free \o orphans
    IN  pc \in {"open", "idle", "apply", "write", "catalog"} /\ ~NextLost =>
            /\ \A n, m \in Names : roots[n] = roots[m] /\ roots[n] # 0 => n = m
            /\ \A i, j \in DOMAIN given : given[i] = given[j] => i = j
            /\ Live \cap Range(given) = {}
            /\ catalog \notin Live \cup Range(given)
            /\ Live \cup Range(given) \subseteq 3..(next - 1)

\* The superblock written last, if no catalog was written after it, counts every page
\* its catalog names.  NextPageID is lost only when NewDiskBPlusTree takes another
\* one: after a crash between the two writes, or because replay wrote lower
\* generations than the other superblock has.
NextLostOnly == pc = "open" /\ NextLost => Active # latest

\* The file can be opened again unless a crash hit its creation, a catalog page or a
\* node that replay changed in place.
UnopenableOnly ==
    pc = "unopenable" => torn \in {"creation", "catalog", "replayed node"}

\* What the file holds for the next NewDiskBPlusTree.
Content ==
    LET super == Page(Active)
        found == IF super.kind = "super" THEN Page(super.catalog) ELSE None
    IN  IF pages = <<>> \/ pc = "created" THEN NoRoots
        ELSE IF found.kind = "catalog"
        THEN [n \in Names |-> IF Page(found.roots[n]).kind = "node" THEN Page(found.roots[n]).val ELSE 0]
        ELSE [n \in Names |-> -1]

\* The index file changes as AtomicIndex promises, as long as NextPageID is not lost.
Atomic == INSTANCE AtomicIndex WITH content <- Content, serving <- ~recovering
ImplementsAtomic == Atomic!Spec
=============================================================================

--------------------------- MODULE IndexFileProofs ----------------------------
(***************************************************************************)
(* Proofs about IndexFile, for any set of indexes, any room for free pages *)
(* and any number of transactions and crashes: no page of an open file has *)
(* two uses, NextPageID is lost and the file cannot be opened only in the  *)
(* cases IndexFile names, and IndexFile implements AtomicIndex.  All of it *)
(* follows from FileInv, which relates the superblocks, the catalogs and   *)
(* nodes on disk, memory and the WAL.                                      *)
(***************************************************************************)
EXTENDS IndexFile, TLAPS

\* The process has the file open.
Working == pc \in {"open", "idle", "apply", "write", "catalog"}

\* The catalog page NewDiskBPlusTree finds: that of every superblock but the first.
Home == IF Page(1).kind = "super" THEN Page(1).catalog ELSE 2

\* The fields of a page have their types, superblocks are in the first two pages.
PageTypes ==
    /\ DOMAIN pages \subseteq Nat
    /\ \A p \in Nat :
          /\ Page(p).kind \in {"super", "catalog", "node", "torn", "none"}
          /\ Page(p).kind \in {"super", "none"} \/ p >= 2
          /\ Page(p).kind = "super" =>
                /\ p \in {0, 1}
                /\ Page(p).gen \in Nat \ {0} /\ Page(p).next \in Nat
                /\ Page(p).catalog \in Nat \ {0, 1}
          /\ Page(p).kind = "catalog" =>
                Page(p).roots \in [Names -> Nat] /\ Page(p).free \in Seq(Nat)

\* No page is in the list twice.
Distinct(s) == \A i, j \in DOMAIN s : s[i] = s[j] => i = j

\* No page has two uses among index roots, two lists of pages and the catalog page.
Owned(r, s, t, c) ==
    /\ c >= 2
    /\ \A n \in Names : r[n] # 0 => r[n] >= 3 /\ r[n] # c
    /\ \A n, m \in Names : r[n] = r[m] /\ r[n] # 0 => n = m
    /\ Distinct(s) /\ Distinct(t)
    /\ \A i \in DOMAIN s : s[i] >= 3 /\ s[i] # c
    /\ \A i \in DOMAIN t : t[i] >= 3 /\ t[i] # c
    /\ \A i \in DOMAIN s, j \in DOMAIN t : s[i] # t[j]
    /\ \A n \in Names : (\A i \in DOMAIN s : s[i] # r[n]) /\ (\A i \in DOMAIN t : t[i] # r[n])

\* A catalog on disk, the current one or not, gives every page one use.
CatalogsOwned ==
    \A p \in Nat : Page(p).kind = "catalog" => Owned(Page(p).roots, Page(p).free, <<>>, p)

\* So does memory.
MemoryOwned == Working => Owned(roots, free, orphans, catalog)

\* Every page that a catalog names is below NextPageID.
Below(r, s, c, limit) ==
    /\ c < limit
    /\ \A n \in Names : r[n] < limit
    /\ \A i \in DOMAIN s : s[i] < limit

\* NextPageID is right in memory from the moment a transaction may run.
MemoryBelow ==
    pc \in {"idle", "apply", "write", "catalog"} =>
        /\ Below(roots, free, catalog, next)
        /\ \A i \in DOMAIN orphans : orphans[i] < next

\* The superblock written last counts all pages of its catalog.
LatestBelow ==
    latest # 2 =>
        LET super == Page(latest)
            found == Page(super.catalog)
        IN  /\ super.kind = "super"
            /\ found.kind = "catalog" => Below(found.roots, found.free, super.catalog, super.next)

\* The first superblock is in slot 0 and leads to the empty catalog on page 2;
\* all others lead to one page.
SlotInv ==
    /\ Page(1).kind = "super" => Page(0).kind = "super"
    /\ pages # <<>> => Page(2) = Catalog(1, NoRoots, <<>>)
    /\ Page(0).kind = "super" /\ Page(1).kind # "super" => Page(0).gen = 1 /\ Page(0).catalog = 2
    /\ Page(1).kind = "super" =>
          /\ Page(1).gen >= 2 /\ Page(1).catalog >= 3
          /\ (Page(0).gen = 1 /\ Page(0).catalog = 2) \/ Page(0).catalog = Page(1).catalog

\* NewDiskBPlusTree can open the file.
Usable == Page(0).kind = "super" /\ Page(Home).kind = "catalog"

\* Where the writer is, and what that says about memory and disk.
ControlInv ==
    /\ pages = <<>> => pc = "down" /\ log = <<>> /\ ~recovering
    /\ pages # <<>> => \/ Usable /\ pc # "created"
                       \/ pc = "created" /\ Page(0).kind # "super"
                       \/ pc \in {"down", "unopenable"} /\ torn \in {"creation", "catalog"}
    /\ pc = "created" => log = <<>> /\ ~recovering
    /\ pc = "down" /\ pages # <<>> => recovering
    /\ pc \in {"created", "down", "open"} /\ ~recovering => at = 0 /\ log = <<>>
    /\ ~recovering => at = Len(log)
    /\ pc = "down" => at = 0
    /\ pc = "apply" => at >= 1 /\ todo \subseteq log[at]
    /\ pc \in {"write", "catalog"} => at >= 1
    /\ pc # "apply" /\ pc # "unopenable" => todo = {}
    /\ pc \in {"open", "idle", "catalog"} => dirty = {}
    /\ pc \in {"open", "idle", "catalog"} => orphans = <<>>
    /\ pc = "idle" => ~recovering
    /\ pc = "unopenable" => torn \in {"creation", "catalog", "replayed node"}

\* What memory has of the catalog on disk.
CatalogInv ==
    /\ pc \in {"open", "idle", "apply", "write"} => catalog = Home
    /\ pc \in {"open", "idle"} => roots = Page(Home).roots
    /\ pc = "catalog" =>
          /\ catalog = Home \/ Page(1).kind # "super"
          /\ catalog >= 3
          /\ Page(catalog).kind = "catalog"
          /\ Page(catalog).roots = roots
          /\ \A i \in DOMAIN Page(catalog).free : \E j \in DOMAIN free : Page(catalog).free[i] = free[j]
    /\ pc \in {"apply", "write"} =>
          \A n \in Names : LET d == Page(Home).roots[n] IN
              d # 0 => roots[n] = d \/ \E i \in DOMAIN orphans : orphans[i] = d

\* A dirty node belongs to the running transaction and is the leaf of an index; a
\* cached one that is not dirty is what the file holds.
CacheInv ==
    /\ DOMAIN cache \subseteq Nat
    /\ Working =>
          /\ \A p \in dirty :
                /\ p \in DOMAIN cache /\ p # 0
                /\ cache[p].gen = Generation(at)
                /\ \E n \in Names : roots[n] = p
          /\ \A n \in Names : roots[n] # 0 /\ roots[n] \in DOMAIN cache /\ roots[n] \notin dirty =>
                Page(roots[n]) = cache[roots[n]]

\* A node that transaction c.val wrote, which changes n.
Valid(n, c) ==
    /\ c.kind = "node"
    /\ c.val \in 1..Len(log)
    /\ n \in log[c.val]
    /\ c.gen = Generation(c.val)

\* A crash may have torn a node that the catalog on disk names.
Bad == recovering /\ torn \in {"catalog", "replayed node"}

\* What the catalog on disk leads to.
DiskInv ==
    Usable => \A n \in Names : LET d == Page(Home).roots[n] IN
        d # 0 => \/ Valid(n, Page(d))
                 \/ Page(d).kind = "torn" /\ Bad /\ \E j \in DOMAIN log : n \in log[j]

\* A transaction that changes n has still to be replayed or finished.
Pending(n) == n \in todo \/ \E j \in (at + 1)..Len(log) : n \in log[j]

\* What the roots in memory lead to: a torn node only until its transaction comes.
MemInv ==
    Working => \A n \in Names : roots[n] # 0 =>
        \/ Valid(n, Cached(roots[n]))
        \/ Cached(roots[n]).kind = "torn" /\ Bad /\ Pending(n)

\* The transactions that changed n so far.
Applied(n) == {j \in 1..at : n \in log[j] /\ (j = at => n \notin todo)}

\* An index has the value of the last of them.
ValueInv ==
    Working => \A n \in Names : \A j \in Applied(n) :
        roots[n] # 0 /\ Cached(roots[n]).val \in Applied(n) /\ Cached(roots[n]).val >= j

\* Without a replay a transaction never changes a node that the file's catalog names.
FreshInv ==
    pc \in {"apply", "write"} /\ ~recovering =>
        /\ \A n \in todo : roots[n] # 0 => Cached(roots[n]).val # at
        /\ \A n \in Names : roots[n] # 0 /\ roots[n] = Page(Home).roots[n] => roots[n] \notin dirty

\* The inductive invariant.
FileInv ==
    /\ TypeOK /\ PageTypes /\ CatalogsOwned /\ MemoryOwned /\ MemoryBelow /\ LatestBelow
    /\ SlotInv /\ ControlInv /\ CatalogInv /\ CacheInv /\ DiskInv /\ MemInv /\ ValueInv /\ FreshInv
    /\ NextLostOnly

-----------------------------------------------------------------------------
(* Operators. *)

\* The part of the type invariant that has numbers and sequences in it.
LEMMA TypeFacts ==
    ASSUME TypeOK
    PROVE  /\ \A p \in DOMAIN pages : p \in Nat
           /\ roots \in [Names -> Nat] /\ \A n \in Names : roots[n] \in Nat
           /\ free \in Seq(Nat) /\ DOMAIN free = 1..Len(free) /\ Len(free) \in Nat
           /\ \A i \in DOMAIN free : free[i] \in Nat
           /\ orphans \in Seq(Nat) /\ DOMAIN orphans = 1..Len(orphans) /\ Len(orphans) \in Nat
           /\ \A i \in DOMAIN orphans : orphans[i] \in Nat
           /\ next \in Nat /\ catalog \in Nat
           /\ dirty \subseteq DOMAIN cache
           /\ log \in Seq(SUBSET Names) /\ DOMAIN log = 1..Len(log) /\ Len(log) \in Nat
           /\ at \in 0..Len(log) /\ at \in Nat
           /\ todo \subseteq Names
           /\ latest \in 0..2
  <1>1. /\ \A p \in DOMAIN pages : p \in Nat
        /\ roots \in [Names -> Nat] /\ free \in Seq(Nat) /\ orphans \in Seq(Nat)
        /\ next \in Nat /\ catalog \in Nat /\ dirty \subseteq DOMAIN cache
        /\ log \in Seq(SUBSET Names) /\ at \in 0..Len(log) /\ todo \subseteq Names
        /\ latest \in 0..2
    BY DEF TypeOK
  <1> QED BY <1>1

\* What PageTypes says about superblocks, in the words of TypeOK.
LEMMA SuperblockPages ==
    ASSUME PageTypes
    PROVE  \A p \in DOMAIN pages : p \in Nat /\ (pages[p].kind = "super" => p \in {0, 1})
  BY DEF PageTypes, Page

\* A page write changes one page.
LEMMA PageWith ==
    ASSUME NEW p, NEW c, pages' = With(pages, p, c)
    PROVE  /\ \A q : Page(q)' = IF q = p THEN c ELSE Page(q)
           /\ DOMAIN pages' = DOMAIN pages \cup {p}
           /\ pages' # <<>>
  <1>1. DOMAIN pages' = DOMAIN pages \cup {p}
    BY DEF With
  <1>2. \A q : Page(q)' = IF q = p THEN c ELSE Page(q)
    BY DEF With, Page
  <1> QED BY <1>1, <1>2

\* A change to the node cache changes what getNode finds for one page.
LEMMA CachedWith ==
    ASSUME NEW p, NEW c, cache' = With(cache, p, c), pages' = pages
    PROVE  /\ \A q : Cached(q)' = IF q = p THEN c ELSE Cached(q)
           /\ DOMAIN cache' = DOMAIN cache \cup {p}
           /\ cache'[p] = c
           /\ \A q \in DOMAIN cache : q # p => cache'[q] = cache[q]
  BY DEF With, Cached, Page

\* The last page of a list, and the list without it, as allocatePageID takes them.
LEMMA LastFront ==
    ASSUME NEW s \in Seq(Nat), s # <<>>
    PROVE  /\ Len(s) \in Nat \ {0}
           /\ Last(s) \in Nat /\ Last(s) = s[Len(s)]
           /\ Front(s) \in Seq(Nat)
           /\ DOMAIN Front(s) = 1..(Len(s) - 1)
           /\ \A i \in 1..(Len(s) - 1) : Front(s)[i] = s[i]
           /\ DOMAIN s = 1..Len(s)
  BY DEF Last, Front

\* The page NewDiskBPlusTree chooses leads home.
LEMMA ActiveHome ==
    ASSUME PageTypes, SlotInv, Page(0).kind = "super"
    PROVE  /\ Active \in {0, 1}
           /\ Page(Active).kind = "super"
           /\ Page(Active).catalog = Home
           /\ Page(Active).next \in Nat
           /\ Home \in Nat /\ Home >= 2
  BY DEF PageTypes, SlotInv, Active, Home

\* The invariants about the file alone.
LEMMA SamePages ==
    ASSUME pages' = pages
    PROVE  /\ \A q : Page(q)' = Page(q)
           /\ Home' = Home /\ Usable' = Usable /\ Active' = Active
           /\ PageTypes' = PageTypes /\ CatalogsOwned' = CatalogsOwned /\ SlotInv' = SlotInv
           /\ latest' = latest => LatestBelow' = LatestBelow
  <1>1. \A q : Page(q)' = Page(q)
    BY DEF Page
  <1>2. Home' = Home /\ Active' = Active
    BY <1>1 DEF Home, Active
  <1>3. Usable' = Usable /\ PageTypes' = PageTypes /\ CatalogsOwned' = CatalogsOwned /\ SlotInv' = SlotInv
    BY <1>1, <1>2 DEF Usable, PageTypes, CatalogsOwned, SlotInv
  <1>4. latest' = latest => LatestBelow' = LatestBelow
    BY <1>1 DEF LatestBelow
  <1> QED BY <1>1, <1>2, <1>3, <1>4

-----------------------------------------------------------------------------
(* Steps that write no page. *)

\* A directory without the file satisfies FileInv.
LEMMA InitHolds == Init => FileInv
  <1> SUFFICES ASSUME Init PROVE FileInv
    OBVIOUS
  <1>1. TypeOK
    <2>1. recovering \in BOOLEAN
      BY DEF Init
    <2>2. DOMAIN pages = {} /\ DOMAIN cache = {}
      BY DEF Init
    <2>3. roots \in [Names -> Nat] /\ crashes \in 0..MaxCrashes /\ log \in Seq(SUBSET Names) /\ at \in 0..Len(log)
      BY IndexFileAssumption DEF Init, NoRoots
    <2>4. free \in Seq(Nat) /\ orphans \in Seq(Nat) /\ next \in Nat /\ catalog \in Nat
      BY DEF Init
    <2> QED BY <2>1, <2>2, <2>3, <2>4 DEF Init, TypeOK
  <1>2. DOMAIN pages = {} /\ \A q : Page(q) = None
    BY DEF Init, Page
  <1>3. PageTypes /\ CatalogsOwned /\ SlotInv /\ LatestBelow
    BY <1>2 DEF Init, PageTypes, CatalogsOwned, SlotInv, LatestBelow, None
  <1>4. MemoryOwned /\ MemoryBelow /\ ControlInv /\ CatalogInv
    BY <1>2 DEF Init, MemoryOwned, MemoryBelow, ControlInv, CatalogInv, Working, None
  <1>5. CacheInv /\ MemInv /\ ValueInv /\ FreshInv /\ NextLostOnly
    BY DEF Init, CacheInv, MemInv, ValueInv, FreshInv, NextLostOnly, Working
  <1>6. DiskInv
    BY <1>2 DEF DiskInv, Usable, None
  <1> QED BY <1>1, <1>3, <1>4, <1>5, <1>6 DEF FileInv

\* NewDiskBPlusTree loads a catalog that has no page in two uses, and whose page and
\* nodes are what DiskInv says.
LEMMA OpenKeeps == FileInv /\ Open => FileInv'
  <1> SUFFICES ASSUME FileInv, Open PROVE FileInv'
    OBVIOUS
  <1> USE DEF FileInv
  <1>1. Page(0).kind = "super" /\ Usable /\ recovering
    <2>1. Page(0).kind = "super"
      BY DEF Open, Readable, Active, SlotInv
    <2>2. Page(Home).kind = "catalog"
      BY <2>1, ActiveHome DEF Open, Readable
    <2> QED BY <2>1, <2>2 DEF Usable, Open, ControlInv
  <1>2. /\ roots' = Page(Home).roots /\ free' = Page(Home).free
        /\ catalog' = Home /\ next' = Page(Active).next
        /\ Page(Home).kind = "catalog" /\ Home \in Nat
        /\ roots' \in [Names -> Nat] /\ free' \in Seq(Nat) /\ next' \in Nat
    BY <1>1, ActiveHome DEF Open, PageTypes, Usable
  <1>3. pages' = pages /\ latest' = latest
    BY DEF Open
  <1>4. PageTypes' /\ CatalogsOwned' /\ SlotInv' /\ LatestBelow' /\ Usable'
    BY <1>1, <1>3, SamePages
  <1>5. TypeOK'
    <2>1. recovering' \in BOOLEAN
      BY DEF TypeOK, Open
    <2>2. DOMAIN cache' = {} /\ orphans' \in Seq(Nat)
      BY DEF Open
    <2> QED BY <1>2, <2>1, <2>2 DEF TypeOK, Open
  <1>6. MemoryOwned' /\ MemoryBelow'
    BY <1>2 DEF CatalogsOwned, MemoryOwned, MemoryBelow, Open
  <1>7. ControlInv'
    BY <1>1, <1>3, <1>4 DEF ControlInv, Open
  <1>8. CatalogInv' /\ FreshInv'
    BY <1>2, <1>3, SamePages DEF CatalogInv, FreshInv, Open
  <1>9. CacheInv'
    BY DEF CacheInv, Open
  <1>10. DiskInv'
    BY <1>3, SamePages DEF DiskInv, Open, Valid, Bad
  <1>11. \A q : Cached(q)' = Page(q)
    BY <1>3, SamePages DEF Open, Cached
  <1>12. MemInv'
    <2>1. \A n : (\E j \in DOMAIN log : n \in log[j]) => Pending(n)'
      <3>1. at' = 0 /\ log' = log /\ DOMAIN log = 1..Len(log)
        BY TypeFacts DEF Open, ControlInv
      <3> QED BY <3>1 DEF Pending
    <2>2. \A n : (\A c : Valid(n, c)' = Valid(n, c)) /\ Bad' = Bad
      BY DEF Open, Valid, Bad
    <2>3. \A n \in Names : roots'[n] # 0 =>
              \/ Valid(n, Page(roots'[n]))
              \/ Page(roots'[n]).kind = "torn" /\ Bad /\ \E j \in DOMAIN log : n \in log[j]
      BY <1>1, <1>2 DEF DiskInv
    <2>4. \A n \in Names : Cached(roots[n])' = Page(roots'[n])
      BY <1>11
    <2> QED BY <2>1, <2>2, <2>3, <2>4 DEF MemInv
  <1>13. ValueInv'
    BY DEF ValueInv, Applied, Open, ControlInv
  <1>14. NextLostOnly'
    <2> SUFFICES ASSUME latest = Active
                 PROVE  ~NextLost'
      BY <1>3, SamePages DEF NextLostOnly
    <2>1. Below(roots', free', catalog', next')
      BY <1>1, <1>2, ActiveHome DEF LatestBelow
    <2>2. (\A n \in Names : roots'[n] \in Nat) /\ (\A i \in DOMAIN free' : free'[i] \in Nat)
          /\ catalog' \in Nat /\ next' \in Nat
      BY <1>2
    <2> HIDE DEF FileInv
    <2> QED BY <2>1, <2>2 DEF Below, NextLost
  <1> QED BY <1>4, <1>5, <1>6, <1>7, <1>8, <1>9, <1>10, <1>12, <1>13, <1>14

\* Open fails only on a file that a crash damaged in one of the three places.
LEMMA FailsKeeps == FileInv /\ (OpenFails \/ \E n \in Names : InsertFails(n)) => FileInv'
  <1> SUFFICES ASSUME FileInv, OpenFails \/ \E n \in Names : InsertFails(n) PROVE FileInv'
    OBVIOUS
  <1> USE DEF FileInv
  <1>1. /\ pc' = "unopenable"
        /\ UNCHANGED <<pages, memory, log, at, todo, recovering, crashes, torn, latest>>
    BY DEF OpenFails, InsertFails
  <1>2. PageTypes' /\ CatalogsOwned' /\ SlotInv' /\ LatestBelow' /\ Usable' = Usable
    BY <1>1, SamePages
  <1>3. TypeOK'
    BY <1>1 DEF TypeOK, memory
  <1>4. torn \in {"creation", "catalog", "replayed node"} /\ pages # <<>>
    <2>1. CASE OpenFails
      BY <2>1, ActiveHome DEF OpenFails, ControlInv, Readable, Usable
    <2>2. ASSUME NEW n \in Names, InsertFails(n)
          PROVE  torn \in {"creation", "catalog", "replayed node"} /\ pages # <<>>
      BY <2>2 DEF InsertFails, MemInv, Working, Valid, Bad, ControlInv
    <2> QED BY <2>1, <2>2
  <1>5. MemoryOwned' /\ MemoryBelow' /\ CatalogInv' /\ MemInv' /\ ValueInv' /\ FreshInv' /\ NextLostOnly'
    BY <1>1 DEF MemoryOwned, MemoryBelow, CatalogInv, MemInv, ValueInv, FreshInv, NextLostOnly, Working
  <1>6. ControlInv'
    BY <1>1, <1>2, <1>4 DEF ControlInv, memory, OpenFails, InsertFails
  <1>7. CacheInv'
    BY <1>1 DEF CacheInv, Working, memory
  <1>8. DiskInv'
    BY <1>1, <1>2, SamePages DEF DiskInv, Valid, Bad
  <1> QED BY <1>8, <1>2, <1>3, <1>5, <1>6, <1>7

\* The first of the two writes that create a file.
LEMMA CreateCatalogKeeps == FileInv /\ CreateCatalog => FileInv'
  <1> SUFFICES ASSUME FileInv, CreateCatalog PROVE FileInv'
    OBVIOUS
  <1> USE DEF FileInv
  <1>1. /\ \A q : Page(q) = None
        /\ \A q : Page(q)' = IF q = 2 THEN Catalog(1, NoRoots, <<>>) ELSE None
        /\ DOMAIN pages' = {2} /\ pages' # <<>>
    <2>1. DOMAIN pages = {} /\ \A q : Page(q) = None
      BY DEF CreateCatalog, Page
    <2> QED BY <2>1, PageWith DEF CreateCatalog
  <1>2. /\ pc' = "created" /\ ~recovering /\ log = <<>>
        /\ UNCHANGED <<roots, free, orphans, next, catalog, cache, dirty>>
        /\ UNCHANGED <<log, at, todo, crashes, torn, latest>>
        /\ (recovering' <=> recovering)
    BY DEF CreateCatalog, ControlInv, memory
  <1>3. TypeOK'
    <2>1. recovering' \in BOOLEAN
      BY DEF TypeOK, CreateCatalog
    <2>2. \A p \in DOMAIN pages' : p \in Nat /\ (pages'[p].kind = "super" => p \in {0, 1})
      BY <1>1 DEF Page, Catalog
    <2> QED BY <1>2, <2>1, <2>2 DEF TypeOK
  <1>4. PageTypes' /\ SlotInv' /\ ~Usable'
    <2>1. Page(2)' = Catalog(1, NoRoots, <<>>) /\ \A q : q # 2 => Page(q)'.kind = "none"
      BY <1>1 DEF None
    <2>2. /\ Catalog(1, NoRoots, <<>>).kind = "catalog"
          /\ Catalog(1, NoRoots, <<>>).roots \in [Names -> Nat]
          /\ Catalog(1, NoRoots, <<>>).free \in Seq(Nat)
      BY DEF Catalog, NoRoots
    <2>3. PageTypes'
      BY <1>1, <2>1, <2>2 DEF PageTypes
    <2> QED BY <2>1, <2>3 DEF SlotInv, Usable
  <1>10. CatalogsOwned'
    <2>1. Owned(NoRoots, <<>>, <<>>, 2)
      BY DEF Owned, NoRoots, Distinct
    <2> QED BY <1>1, <2>1 DEF CatalogsOwned, Catalog, None
  <1>5. LatestBelow'
    BY <1>1, <1>2 DEF LatestBelow, None
  <1>6. ControlInv'
    BY <1>1, <1>2, <1>4 DEF ControlInv, CreateCatalog, None
  <1>7. MemoryOwned' /\ MemoryBelow' /\ CatalogInv' /\ MemInv' /\ ValueInv' /\ FreshInv' /\ NextLostOnly'
    BY <1>2 DEF MemoryOwned, MemoryBelow, CatalogInv, MemInv, ValueInv, FreshInv, NextLostOnly, Working
  <1>8. CacheInv'
    BY <1>2 DEF CacheInv, Working
  <1>9. DiskInv'
    BY <1>4 DEF DiskInv
  <1> QED BY <1>3, <1>4, <1>5, <1>6, <1>7, <1>8, <1>9, <1>10

\* The second of them: both superblocks are now decided by SlotInv.
LEMMA CreateSuperblockKeeps == FileInv /\ CreateSuperblock => FileInv'
  <1> SUFFICES ASSUME FileInv, CreateSuperblock PROVE FileInv'
    OBVIOUS
  <1> USE DEF FileInv
  <1>1. Page(0).kind # "super" /\ Page(1).kind # "super" /\ pages # <<>> /\ Page(2) = Catalog(1, NoRoots, <<>>)
    BY DEF CreateSuperblock, ControlInv, SlotInv
  <1>2. /\ \A q : Page(q)' = IF q = 0 THEN Superblock(1, 2, 3) ELSE Page(q)
        /\ DOMAIN pages' = DOMAIN pages \cup {0} /\ pages' # <<>>
    BY PageWith DEF CreateSuperblock
  <1>3. /\ pc' = "open" /\ ~recovering' /\ log' = <<>> /\ at' = 0 /\ todo' = {} /\ latest' = 0
        /\ roots' = NoRoots /\ free' = <<>> /\ orphans' = <<>> /\ next' = 3 /\ catalog' = 2
        /\ cache' = <<>> /\ dirty' = {}
        /\ UNCHANGED <<crashes, torn>>
    BY DEF CreateSuperblock, ControlInv
  <1>4. /\ Page(0)' = Superblock(1, 2, 3) /\ Page(1)'.kind # "super" /\ Page(2)' = Catalog(1, NoRoots, <<>>)
        /\ Home' = 2 /\ Page(Home)' = Catalog(1, NoRoots, <<>>) /\ Usable'
    BY <1>1, <1>2 DEF Home, Usable, Superblock, Catalog
  <1>5. TypeOK'
    <2>1. recovering' \in BOOLEAN
      BY DEF TypeOK, CreateSuperblock
    <2>2. \A p \in DOMAIN pages' : p \in Nat /\ (pages'[p].kind = "super" => p \in {0, 1})
      <3>1. \A p \in DOMAIN pages : p \in Nat /\ (pages[p].kind = "super" => p \in {0, 1})
        BY SuperblockPages
      <3>2. \A p \in DOMAIN pages : p # 0 => pages'[p] = pages[p]
        BY DEF CreateSuperblock, With
      <3> QED BY <1>2, <3>1, <3>2
    <2>3. roots' \in [Names -> Nat] /\ free' \in Seq(Nat) /\ orphans' \in Seq(Nat) /\ log' \in Seq(SUBSET Names)
          /\ DOMAIN cache' = {} /\ Len(log') = 0
      BY <1>3 DEF NoRoots
    <2>4. at' \in 0..Len(log') /\ dirty' \subseteq DOMAIN cache' /\ todo' \subseteq Names
      BY <1>3, <2>3
    <2>5. next' \in Nat /\ catalog' \in Nat /\ latest' \in 0..2 /\ pc' = "open"
      BY <1>3
    <2>6. crashes' \in 0..MaxCrashes /\ torn' \in {"nothing", "creation", "node", "replayed node", "catalog"}
      BY <1>3 DEF TypeOK
    <2> QED BY <2>1, <2>2, <2>3, <2>4, <2>5, <2>6 DEF TypeOK
  <1>6. PageTypes'
    BY <1>2 DEF PageTypes, Superblock
  <1>7. CatalogsOwned'
    BY <1>2 DEF CatalogsOwned, Superblock
  <1>8. SlotInv'
    BY <1>2, <1>4 DEF SlotInv, Superblock
  <1>9. MemoryOwned' /\ MemoryBelow'
    BY <1>3 DEF MemoryOwned, MemoryBelow, Owned, Distinct, NoRoots
  <1>10. LatestBelow'
    BY <1>3, <1>4 DEF LatestBelow, Superblock, Catalog, NoRoots, Below
  <1>11. ControlInv'
    BY <1>2, <1>3, <1>4 DEF ControlInv
  <1>12. CatalogInv' /\ FreshInv'
    BY <1>3, <1>4 DEF CatalogInv, FreshInv, Catalog
  <1>13. CacheInv' /\ MemInv' /\ ValueInv'
    BY <1>3 DEF CacheInv, MemInv, ValueInv, NoRoots, Applied
  <1>14. DiskInv'
    BY <1>4 DEF DiskInv, Catalog, NoRoots
  <1>15. NextLostOnly'
    BY <1>3 DEF NextLostOnly, NextLost, NoRoots
  <1> QED BY <1>5, <1>6, <1>7, <1>8, <1>9, <1>10, <1>11, <1>12, <1>13, <1>14, <1>15

\* A transaction begins only when every earlier one is on disk, so nothing in memory
\* bears its number yet.
LEMMA BeginKeeps ==
    ASSUME FileInv, NEW S \in SUBSET Names, Begin(S)
    PROVE  FileInv'
  <1> USE DEF FileInv
  <1>1. /\ pc = "idle" /\ pc' = "apply" /\ log' = Append(log, S) /\ at' = Len(log) + 1 /\ todo' = S
        /\ UNCHANGED <<pages, roots, free, orphans, next, catalog, cache, dirty>>
        /\ UNCHANGED <<crashes, torn, latest>> /\ (recovering' <=> recovering)
    BY DEF Begin, memory
  <1>2. ~recovering /\ todo = {} /\ at = Len(log) /\ dirty = {} /\ catalog = Home /\ roots = Page(Home).roots
    BY <1>1 DEF ControlInv, CatalogInv
  <1>3. /\ Len(log') = Len(log) + 1 /\ log' \in Seq(SUBSET Names)
        /\ \A j \in 1..Len(log) : log'[j] = log[j]
        /\ log'[Len(log) + 1] = S
        /\ Len(log) \in Nat
    BY <1>1, TypeFacts
  <1>4. TypeOK'
    <2>1. recovering' \in BOOLEAN
      BY DEF TypeOK, Begin
    <2>2. at' \in 0..Len(log') /\ todo' \subseteq Names
      BY <1>1, <1>3
    <2> QED BY <1>1, <1>3, <2>1, <2>2 DEF TypeOK
  <1>5. PageTypes' /\ CatalogsOwned' /\ SlotInv' /\ LatestBelow' /\ Usable' = Usable
    BY <1>1, SamePages
  <1>6. MemoryOwned'
    BY <1>1 DEF MemoryOwned, Working
  <1>7. MemoryBelow'
    BY <1>1 DEF MemoryBelow
  <1>8. ControlInv'
    BY <1>1, <1>2, <1>3, <1>5 DEF ControlInv
  <1>9. Home' = Home /\ (\A q : Page(q)' = Page(q)) /\ (\A q : Cached(q)' = Cached(q))
    BY <1>1, SamePages DEF Cached
  <1>10. CatalogInv'
    BY <1>1, <1>2, <1>9 DEF CatalogInv
  <1>11. CacheInv'
    BY <1>1, <1>2, <1>9 DEF CacheInv, Working
  <1>12. \A n, c : Valid(n, c) => Valid(n, c)'
    BY <1>3 DEF Valid
  <1>13. DiskInv'
    BY <1>2, <1>5, <1>9, <1>12 DEF DiskInv, Bad
  <1>14. \A n \in Names : roots[n] # 0 => Valid(n, Cached(roots[n]))
    BY <1>1, <1>2 DEF MemInv, Bad, Working
  <1>15. MemInv'
    BY <1>1, <1>9, <1>12, <1>14 DEF MemInv
  <1>16. ValueInv'
    <2>1. \A n \in Names : Applied(n)' = Applied(n)
      BY <1>1, <1>2, <1>3 DEF Applied
    <2> QED BY <1>1, <1>9, <2>1 DEF ValueInv, Working
  <1>17. FreshInv'
    BY <1>1, <1>2, <1>3, <1>9, <1>14 DEF FreshInv, Valid
  <1>18. NextLostOnly'
    BY <1>1 DEF NextLostOnly
  <1> QED BY <1>4, <1>5, <1>6, <1>7, <1>8, <1>10, <1>11, <1>13, <1>15, <1>16, <1>17, <1>18

\* At the end of the replay no index is left whose node is torn: the last
\* transaction that changes it has replaced it.
LEMMA ReplayKeeps == FileInv /\ Replay => FileInv'
  <1> SUFFICES ASSUME FileInv, Replay PROVE FileInv'
    OBVIOUS
  <1> USE DEF FileInv
  <1>1. /\ pc = "open" /\ ~NextLost
        /\ UNCHANGED <<pages, roots, free, orphans, next, catalog, cache, dirty>>
        /\ UNCHANGED <<log, crashes, torn, latest>>
    BY DEF Replay, memory
  <1>2. todo = {} /\ dirty = {} /\ orphans = <<>> /\ catalog = Home /\ roots = Page(Home).roots /\ Usable
    BY <1>1 DEF ControlInv, CatalogInv
  <1>3. \/ /\ at < Len(log) /\ at' = at + 1 /\ todo' = log[at + 1] /\ pc' = "apply"
           /\ recovering /\ recovering'
        \/ at = Len(log) /\ at' = at /\ todo' = {} /\ pc' = "idle" /\ ~recovering'
    <2>1. CASE at < Len(log)
      BY <1>1, <2>1, TypeFacts DEF Replay, ControlInv, MoreToReplay
    <2>2. CASE ~(at < Len(log))
      BY <1>2, <2>2, TypeFacts DEF Replay, MoreToReplay
    <2> QED BY <2>1, <2>2
  <1>4. TypeOK'
    <2>1. recovering' \in BOOLEAN
      BY DEF TypeOK, Replay
    <2>2. at' \in 0..Len(log') /\ todo' \subseteq Names /\ pc' \in {"apply", "idle"}
      BY <1>1, <1>3, TypeFacts
    <2> QED BY <1>1, <2>1, <2>2 DEF TypeOK
  <1>5. PageTypes' /\ CatalogsOwned' /\ SlotInv' /\ LatestBelow' /\ Usable' = Usable
    BY <1>1, SamePages
  <1>6. MemoryOwned'
    BY <1>1, <1>3 DEF MemoryOwned, Working
  <1>7. MemoryBelow'
    BY <1>1, <1>2, TypeFacts DEF MemoryBelow, Below, NextLost
  <1>8. ControlInv'
    <2>1. pages' # <<>> /\ Usable' /\ dirty' = {} /\ at \in Nat
      BY <1>1, <1>2, <1>5, TypeFacts DEF ControlInv
    <2>2. CASE recovering'
      BY <1>1, <1>3, <2>1, <2>2 DEF ControlInv
    <2>3. CASE ~recovering'
      BY <1>1, <1>3, <2>1, <2>3 DEF ControlInv
    <2> QED BY <2>2, <2>3
  <1>9. Home' = Home /\ (\A q : Page(q)' = Page(q)) /\ (\A q : Cached(q)' = Cached(q))
    BY <1>1, SamePages DEF Cached
  <1>10. CatalogInv'
    BY <1>1, <1>2, <1>3, <1>9 DEF CatalogInv
  <1>11. CacheInv'
    BY <1>1, <1>2, <1>3, <1>9 DEF CacheInv, Working
  <1>12. \A n, c : Valid(n, c) <=> Valid(n, c)'
    BY <1>1 DEF Valid
  <1>13. \A n \in Names : roots[n] # 0 => Cached(roots[n]) = Page(roots[n])
    BY <1>1, <1>2 DEF CacheInv, Working, Cached
  <1>14. MemInv' /\ DiskInv'
    <2>1. CASE recovering /\ recovering' /\ at' = at + 1 /\ todo' = log[at + 1] /\ pc' = "apply" /\ at < Len(log)
      <3>1. \A n : Pending(n) => Pending(n)'
        BY <1>1, <1>2, <2>1, TypeFacts DEF Pending
      <3>2. Bad => Bad'
        BY <1>1, <2>1 DEF Bad
      <3>3. MemInv'
        BY <1>1, <1>9, <1>12, <3>1, <3>2 DEF MemInv, Working
      <3>4. DiskInv'
        BY <1>1, <1>5, <1>9, <1>12, <3>2 DEF DiskInv
      <3> QED BY <3>3, <3>4
    <2>2. CASE at = Len(log) /\ pc' = "idle"
      <3>1. \A n \in Names : roots[n] # 0 => Valid(n, Cached(roots[n]))
        BY <1>1, <1>2, <2>2, TypeFacts DEF MemInv, Working, Pending
      <3>2. MemInv'
        BY <1>1, <1>9, <1>12, <3>1 DEF MemInv
      <3>3. DiskInv'
        BY <1>2, <1>9, <1>12, <1>13, <3>1 DEF DiskInv
      <3> QED BY <3>2, <3>3
    <2> QED BY <1>3, <2>1, <2>2
  <1>15. ValueInv'
    <2>1. \A n \in Names : Applied(n)' = Applied(n)
      BY <1>1, <1>2, <1>3, TypeFacts DEF Applied
    <2> QED BY <1>1, <1>9, <2>1 DEF ValueInv, Working
  <1>16. FreshInv' /\ NextLostOnly'
    BY <1>1, <1>3 DEF FreshInv, NextLostOnly
  <1> QED BY <1>4, <1>5, <1>6, <1>7, <1>8, <1>10, <1>11, <1>14, <1>15, <1>16

\* The page given out by allocatePageID had no use.
LEMMA Allocated ==
    ASSUME TypeOK, MemoryOwned, MemoryBelow, pc = "apply", Allocate
    PROVE  /\ NewPage \in Nat /\ NewPage >= 3 /\ NewPage # catalog /\ NewPage < next'
           /\ \A n \in Names : roots[n] # NewPage
           /\ \A i \in DOMAIN orphans : orphans[i] # NewPage
           /\ next' \in Nat /\ next' >= next
           /\ free' \in Seq(Nat)
           /\ \A i \in DOMAIN free' : i \in DOMAIN free /\ free'[i] = free[i] /\ free'[i] # NewPage
  <1>1. /\ Owned(roots, free, orphans, catalog) /\ Below(roots, free, catalog, next)
        /\ \A i \in DOMAIN orphans : orphans[i] < next
    BY DEF MemoryOwned, MemoryBelow, Working
  <1>2. CASE free = <<>>
    <2>1. NewPage = next /\ free' = <<>> /\ next' = next + 1
      BY <1>2 DEF NewPage, Allocate
    <2> QED BY <1>1, <2>1, TypeFacts DEF Owned, Below
  <1>3. CASE free # <<>>
    <2>1. NewPage = Last(free) /\ free' = Front(free) /\ next' = next
      BY <1>3 DEF NewPage, Allocate
    <2>2. /\ Len(free) \in Nat \ {0} /\ Len(free) \in DOMAIN free /\ NewPage = free[Len(free)]
          /\ NewPage \in Nat
          /\ free' \in Seq(Nat) /\ DOMAIN free' = 1..(Len(free) - 1)
          /\ \A i \in DOMAIN free' : i \in DOMAIN free /\ free'[i] = free[i] /\ i # Len(free)
      <3>1. free \in Seq(Nat)
        BY TypeFacts
      <3>2. /\ Len(free) \in Nat \ {0} /\ Last(free) \in Nat /\ Last(free) = free[Len(free)]
            /\ Front(free) \in Seq(Nat) /\ DOMAIN Front(free) = 1..(Len(free) - 1)
            /\ \A i \in 1..(Len(free) - 1) : Front(free)[i] = free[i]
            /\ DOMAIN free = 1..Len(free)
        BY <1>3, <3>1, LastFront
      <3> QED BY <2>1, <3>2
    <2>3. \A i \in DOMAIN free' : free'[i] # NewPage
      BY <1>1, <2>2 DEF Owned, Distinct
    <2>4. NewPage >= 3 /\ NewPage # catalog /\ \A i \in DOMAIN orphans : orphans[i] # NewPage
      BY <1>1, <2>2 DEF Owned
    <2>5. \A n \in Names : roots[n] # NewPage
      BY <1>1, <2>2 DEF Owned
    <2>6. NewPage < next' /\ next' \in Nat /\ next' >= next
      BY <1>1, <2>1, <2>2, TypeFacts DEF Below
    <2> QED BY <2>2, <2>3, <2>4, <2>5, <2>6
  <1> QED BY <1>2, <1>3

\* The two ways Insert changes a named index: a leaf on a new page, or in place.
LEMMA InsertCases ==
    ASSUME FileInv, NEW n \in Names, Insert(n)
    PROVE  \E p \in Nat :
              /\ cache' = With(cache, p, Node(n, at, Generation(at)))
              /\ dirty' = dirty \cup {p}
              /\ \/ /\ p = NewPage /\ Allocate
                    /\ roots[n] \notin dirty
                    /\ roots' = [roots EXCEPT ![n] = p]
                    /\ orphans' = IF roots[n] = 0 THEN orphans ELSE Append(orphans, roots[n])
                 \/ /\ p = roots[n] /\ p # 0 /\ recovering
                    /\ UNCHANGED <<roots, free, next, orphans>>
  <1> USE DEF FileInv
  <1>1. pc = "apply" /\ n \in todo /\ Working
    BY DEF Insert, Working
  <1>2. CASE roots[n] = 0
    BY <1>1, <1>2, Allocated DEF Insert, CacheInv
  <1>3. CASE roots[n] # 0 /\ InPlace(Cached(roots[n])) /\ Cached(roots[n]).kind = "node"
    <2>1. Cached(roots[n]).gen = at + 1
      BY <1>3 DEF InPlace, Generation
    <2>2. Valid(n, Cached(roots[n]))
      BY <1>1, <1>3 DEF MemInv
    <2>3. Cached(roots[n]).val = at
      BY <2>1, <2>2, TypeFacts DEF Valid, Generation
    <2>4. recovering
      BY <1>1, <1>3, <2>3 DEF FreshInv
    <2> QED BY <1>1, <1>3, <2>4, TypeFacts DEF Insert
  <1>4. CASE roots[n] # 0 /\ ~InPlace(Cached(roots[n]))
    <2>1. roots[n] >= 3
      BY <1>1, <1>4 DEF MemoryOwned, Owned
    <2>2. roots[n] \notin dirty
      BY <1>1, <1>4 DEF CacheInv, InPlace, Cached
    <2>3. markOrphaned(roots[n]) = Append(orphans, roots[n])
      BY <2>1, TypeFacts DEF markOrphaned
    <2> QED BY <1>1, <1>4, <2>2, <2>3, Allocated DEF Insert
  <1>5. roots[n] = 0 \/ Cached(roots[n]).kind = "node"
    BY DEF Insert
  <1> QED BY <1>2, <1>3, <1>4, <1>5

\* Insert takes a page that nobody uses, or, while the WAL is replayed, changes the
\* leaf in place.
LEMMA InsertKeeps ==
    ASSUME FileInv, NEW n \in Names, Insert(n)
    PROVE  FileInv'
  <1> USE DEF FileInv
  <1> DEFINE new == Node(n, at, Generation(at))
  <1>1. /\ pc = "apply" /\ n \in todo /\ todo' = todo \ {n}
        /\ pc' = IF todo' = {} THEN "write" ELSE "apply"
        /\ UNCHANGED <<pages, catalog, log, at, crashes, torn, latest>> /\ (recovering' <=> recovering)
    BY DEF Insert
  <1>2. PICK p \in Nat :
              /\ cache' = With(cache, p, new)
              /\ dirty' = dirty \cup {p}
              /\ \/ /\ p = NewPage /\ Allocate
                    /\ roots[n] \notin dirty
                    /\ roots' = [roots EXCEPT ![n] = p]
                    /\ orphans' = IF roots[n] = 0 THEN orphans ELSE Append(orphans, roots[n])
                 \/ /\ p = roots[n] /\ p # 0 /\ recovering
                    /\ UNCHANGED <<roots, free, next, orphans>>
    BY InsertCases
  <1> DEFINE Copied == /\ p = NewPage /\ Allocate
                       /\ roots[n] \notin dirty
                       /\ roots' = [roots EXCEPT ![n] = p]
                       /\ orphans' = IF roots[n] = 0 THEN orphans ELSE Append(orphans, roots[n])
             InPlaced == p = roots[n] /\ p # 0 /\ recovering /\ UNCHANGED <<roots, free, next, orphans>>
  <1>3. Owned(roots, free, orphans, catalog) /\ Below(roots, free, catalog, next)
        /\ \A i \in DOMAIN orphans : orphans[i] < next
    BY <1>1 DEF MemoryOwned, MemoryBelow, Working
  <1>4. /\ p >= 3 /\ p # catalog /\ p < next'
        /\ \A m \in Names : m # n => roots[m] # p
        /\ roots' \in [Names -> Nat] /\ roots'[n] = p
        /\ \A m \in Names : m # n => roots'[m] = roots[m]
        /\ free' \in Seq(Nat) /\ next' \in Nat /\ next' >= next
        /\ \A i \in DOMAIN free' : i \in DOMAIN free /\ free'[i] = free[i] /\ free'[i] # p
    <2>1. CASE Copied
      BY <1>1, <2>1, Allocated, TypeFacts
    <2>2. CASE InPlaced
      BY <1>3, <2>2, TypeFacts DEF Owned, Below
    <2> QED BY <1>2, <2>1, <2>2
  <1>5. /\ orphans' \in Seq(Nat)
        /\ \A i \in DOMAIN orphans' :
              /\ orphans'[i] # p
              /\ \/ orphans'[i] = roots[n] /\ roots[n] # 0
                 \/ i \in DOMAIN orphans /\ orphans'[i] = orphans[i]
        /\ \A i \in DOMAIN orphans : i \in DOMAIN orphans' /\ orphans'[i] = orphans[i]
        /\ \A i, j \in DOMAIN orphans' : orphans'[i] = orphans'[j] => i = j
        /\ roots[n] # 0 => (roots'[n] = roots[n] \/ \E i \in DOMAIN orphans' : orphans'[i] = roots[n])
    <2>1. CASE Copied /\ roots[n] = 0
      BY <1>1, <1>3, <2>1, Allocated, TypeFacts DEF Owned, Distinct
    <2>2. CASE Copied /\ roots[n] # 0
      <3>1. /\ orphans' = Append(orphans, roots[n]) /\ roots[n] \in Nat /\ roots[n] # p
            /\ \A i \in DOMAIN orphans : orphans[i] # p
        BY <1>1, <2>2, Allocated, TypeFacts
      <3>2. /\ orphans' \in Seq(Nat) /\ DOMAIN orphans' = 1..(Len(orphans) + 1)
            /\ DOMAIN orphans = 1..Len(orphans) /\ Len(orphans) \in Nat
            /\ \A i \in 1..Len(orphans) : orphans'[i] = orphans[i]
            /\ orphans'[Len(orphans) + 1] = roots[n]
        BY <3>1, TypeFacts
      <3>3. \A i \in DOMAIN orphans' : i \in DOMAIN orphans \/ i = Len(orphans) + 1
        BY <3>2
      <3>4. Len(orphans) + 1 \in DOMAIN orphans' /\ DOMAIN orphans \subseteq DOMAIN orphans'
        BY <3>2
      <3>5. \A i, j \in DOMAIN orphans' : orphans'[i] = orphans'[j] => i = j
        BY <1>3, <3>2, <3>3 DEF Owned, Distinct
      <3>6. \A i \in DOMAIN orphans' :
              /\ orphans'[i] # p
              /\ \/ orphans'[i] = roots[n] /\ roots[n] # 0
                 \/ i \in DOMAIN orphans /\ orphans'[i] = orphans[i]
        BY <2>2, <3>1, <3>2, <3>3
      <3>7. \E i \in DOMAIN orphans' : orphans'[i] = roots[n]
        BY <3>2, <3>4
      <3>8. \A i \in DOMAIN orphans : i \in DOMAIN orphans' /\ orphans'[i] = orphans[i]
        BY <3>2, <3>4
      <3> QED BY <3>2, <3>5, <3>6, <3>7, <3>8
    <2>3. CASE InPlaced
      BY <1>3, <2>3, TypeFacts DEF Owned, Distinct
    <2> QED BY <1>2, <2>1, <2>2, <2>3
  <1>6. /\ \A q : Cached(q)' = IF q = p THEN new ELSE Cached(q)
        /\ DOMAIN cache' = DOMAIN cache \cup {p}
        /\ cache'[p] = new
        /\ \A q \in DOMAIN cache : q # p => cache'[q] = cache[q]
    BY <1>1, <1>2, CachedWith
  <1>7. new.kind = "node" /\ new.val = at /\ new.gen = Generation(at)
    BY DEF Node
  <1> HIDE DEF new
  <1>8. at \in 1..Len(log) /\ n \in log[at] /\ at \in Nat /\ Len(log) \in Nat
    BY <1>1, TypeFacts DEF ControlInv
  <1>9. TypeOK'
    <2>1. recovering' \in BOOLEAN
      BY DEF TypeOK, Insert
    <2>2. \A q \in DOMAIN cache' : cache'[q].kind = "node"
      BY <1>6, <1>7 DEF TypeOK
    <2>3. dirty' \subseteq DOMAIN cache' /\ todo' \subseteq Names /\ pc' \in {"apply", "write"}
      BY <1>1, <1>2, <1>6, TypeFacts
    <2> QED BY <1>1, <1>4, <1>5, <2>1, <2>2, <2>3 DEF TypeOK
  <1>10. /\ PageTypes' /\ CatalogsOwned' /\ SlotInv' /\ LatestBelow' /\ Usable' = Usable /\ Home' = Home
         /\ \A q : Page(q)' = Page(q)
    BY <1>1, SamePages
  <1>11. Owned(roots', free', orphans', catalog')
    <2>1. \A m \in Names : roots'[m] # 0 => roots'[m] >= 3 /\ roots'[m] # catalog
      BY <1>3, <1>4 DEF Owned
    <2>2. \A m, l \in Names : roots'[m] = roots'[l] /\ roots'[m] # 0 => m = l
      BY <1>3, <1>4 DEF Owned
    <2>3. Distinct(free') /\ \A i \in DOMAIN free' : free'[i] >= 3 /\ free'[i] # catalog
      BY <1>3, <1>4 DEF Owned, Distinct
    <2>4. Distinct(orphans') /\ \A i \in DOMAIN orphans' : orphans'[i] >= 3 /\ orphans'[i] # catalog
      BY <1>3, <1>5 DEF Owned, Distinct
    <2>5. \A i \in DOMAIN free', j \in DOMAIN orphans' : free'[i] # orphans'[j]
      BY <1>3, <1>4, <1>5 DEF Owned
    <2>6. \A m \in Names : \A i \in DOMAIN free' : free'[i] # roots'[m]
      BY <1>3, <1>4 DEF Owned
    <2>7. \A m \in Names : \A i \in DOMAIN orphans' : orphans'[i] # roots'[m]
      <3>a. roots'[n] = p /\ (\A i \in DOMAIN orphans' : orphans'[i] # p) /\ \A m \in Names : m # n => roots'[m] = roots[m]
        BY <1>4, <1>5
      <3> SUFFICES ASSUME NEW m \in Names, NEW i \in DOMAIN orphans', m # n PROVE orphans'[i] # roots[m]
        BY <3>a
      <3>1. CASE orphans'[i] = roots[n] /\ roots[n] # 0
        BY <1>3, <3>1 DEF Owned
      <3>2. CASE i \in DOMAIN orphans /\ orphans'[i] = orphans[i]
        BY <1>3, <3>2 DEF Owned
      <3> QED BY <1>5, <3>1, <3>2
    <2> QED BY <1>1, <1>3, <2>1, <2>2, <2>3, <2>4, <2>5, <2>6, <2>7 DEF Owned
  <1>12. MemoryOwned'
    BY <1>11 DEF MemoryOwned
  <1>13. MemoryBelow'
    <2>1. catalog < next' /\ \A m \in Names : roots'[m] < next'
      <3>1. catalog \in Nat /\ next \in Nat /\ \A m \in Names : roots[m] \in Nat
        BY TypeFacts
      <3> QED BY <1>3, <1>4, <3>1 DEF Below
    <2>2. \A i \in DOMAIN free' : free'[i] < next'
      BY <1>3, <1>4, TypeFacts DEF Below
    <2>3. \A i \in DOMAIN orphans' : orphans'[i] < next'
      <3>1. next \in Nat /\ (\A m \in Names : roots[m] \in Nat) /\ \A i \in DOMAIN orphans : orphans[i] \in Nat
        BY TypeFacts
      <3> QED BY <1>3, <1>4, <1>5, <3>1 DEF Below
    <2> QED BY <1>1, <2>1, <2>2, <2>3 DEF Below, MemoryBelow
  <1>14. ControlInv'
    BY <1>1, <1>8, <1>10 DEF ControlInv
  <1>15. CatalogInv'
    <2>1. \A m \in Names : LET d == Page(Home).roots[m] IN
              d # 0 => roots'[m] = d \/ \E i \in DOMAIN orphans' : orphans'[i] = d
      <3>1. \A m \in Names : Page(Home).roots[m] # 0 =>
               (roots[m] = Page(Home).roots[m] \/ \E i \in DOMAIN orphans : orphans[i] = Page(Home).roots[m])
        BY <1>1 DEF CatalogInv
      <3>2. \A m \in Names : roots[m] # 0 => (roots'[m] = roots[m] \/ \E i \in DOMAIN orphans' : orphans'[i] = roots[m])
        BY <1>4, <1>5
      <3>3. \A i \in DOMAIN orphans : \E j \in DOMAIN orphans' : orphans'[j] = orphans[i]
        BY <1>5
      <3> QED BY <3>1, <3>2, <3>3
    <2> QED BY <1>1, <1>10, <2>1 DEF CatalogInv
  <1>16. CacheInv'
    <2>1. \A q \in dirty' : q \in DOMAIN cache' /\ q # 0 /\ cache'[q].gen = Generation(at)
      BY <1>1, <1>2, <1>4, <1>6, <1>7 DEF CacheInv, Working
    <2>2. \A q \in dirty' : \E m \in Names : roots'[m] = q
      <3> SUFFICES ASSUME NEW q \in dirty PROVE \E m \in Names : roots'[m] = q
        BY <1>2, <1>4
      <3>1. PICK m \in Names : roots[m] = q
        BY <1>1 DEF CacheInv, Working
      <3>2. CASE m # n
        BY <1>4, <3>1, <3>2
      <3>3. CASE m = n
        BY <1>2, <1>4, <3>1, <3>3
      <3> QED BY <3>2, <3>3
    <2>3. \A m \in Names : roots'[m] # 0 /\ roots'[m] \in DOMAIN cache' /\ roots'[m] \notin dirty' =>
             Page(roots'[m]) = cache'[roots'[m]]
      BY <1>1, <1>2, <1>4, <1>6 DEF CacheInv, Working
    <2>4. DOMAIN cache' \subseteq Nat
      BY <1>6 DEF CacheInv
    <2>5. \A m \in Names : Page(roots[m])' = Page(roots'[m])
      BY <1>10
    <2> QED BY <1>1, <2>1, <2>2, <2>3, <2>4, <2>5 DEF CacheInv
  <1>17. \A m, c : Valid(m, c) <=> Valid(m, c)'
    BY <1>1 DEF Valid
  <1>18. DiskInv'
    BY <1>1, <1>10, <1>17 DEF DiskInv, Bad
  <1>19. Cached(roots[n])' = new /\ \A m \in Names : m # n => Cached(roots[m])' = Cached(roots[m])
    BY <1>4, <1>6
  <1>20. MemInv'
    <2>1. Valid(n, new)
      BY <1>7, <1>8 DEF Valid
    <2>2. (Bad <=> Bad') /\ \A m \in Names : m # n /\ Pending(m) => Pending(m)'
      BY <1>1 DEF Bad, Pending
    <2>3. \A m \in Names : m # n /\ roots'[m] # 0 =>
              \/ Valid(m, Cached(roots[m]))
              \/ Cached(roots[m]).kind = "torn" /\ Bad /\ Pending(m)
      BY <1>1, <1>4 DEF MemInv, Working
    <2> QED BY <1>17, <1>19, <2>1, <2>2, <2>3 DEF MemInv
  <1>21. ValueInv'
    <2>1. \A m \in Names : m # n => Applied(m)' = Applied(m)
      BY <1>1 DEF Applied
    <2>2. Applied(n)' \subseteq 1..at /\ at \in Applied(n)'
      BY <1>1, <1>8 DEF Applied
    <2>3. \A m \in Names : m # n => \A j \in Applied(m) :
              roots'[m] # 0 /\ Cached(roots[m]).val \in Applied(m) /\ Cached(roots[m]).val >= j
      BY <1>1, <1>4 DEF ValueInv, Working
    <2>4. \A j \in Applied(n)' : roots'[n] # 0 /\ new.val \in Applied(n)' /\ new.val >= j
      BY <1>4, <1>7, <1>8, <2>2
    <2> QED BY <1>19, <2>1, <2>3, <2>4 DEF ValueInv
  <1>22. FreshInv'
    <2> SUFFICES ASSUME ~recovering
                 PROVE  /\ \A m \in todo' : roots'[m] # 0 => Cached(roots[m])'.val # at
                        /\ \A m \in Names : roots'[m] # 0 /\ roots'[m] = Page(Home).roots[m] => roots'[m] \notin dirty'
      BY <1>1, <1>10 DEF FreshInv
    <2>1. \A m \in todo' : roots'[m] # 0 => Cached(roots[m])'.val # at
      BY <1>1, <1>4, <1>19, TypeFacts DEF FreshInv
    <2>2. Page(Home).roots[n] # p
      <3>1. Page(Home).roots[n] # 0 =>
               (roots[n] = Page(Home).roots[n] \/ \E i \in DOMAIN orphans : orphans[i] = Page(Home).roots[n])
        BY <1>1 DEF CatalogInv
      <3>2. roots[n] # p /\ p # 0 /\ \A i \in DOMAIN orphans : orphans[i] # p
        BY <1>1, <1>2, <1>4, Allocated
      <3> QED BY <3>1, <3>2
    <2>3. \A m \in Names : roots'[m] # 0 /\ roots'[m] = Page(Home).roots[m] => roots'[m] \notin dirty'
      <3>1. \A m \in Names : roots[m] # 0 /\ roots[m] = Page(Home).roots[m] => roots[m] \notin dirty
        BY <1>1 DEF FreshInv
      <3>2. dirty' = dirty \cup {p}
        BY <1>2
      <3> QED BY <1>4, <2>2, <3>1, <3>2
    <2> QED BY <2>1, <2>3
  <1>23. NextLostOnly'
    BY <1>1 DEF NextLostOnly
  <1> QED BY <1>9, <1>10, <1>12, <1>13, <1>14, <1>15, <1>16, <1>18, <1>20, <1>21, <1>22, <1>23

-----------------------------------------------------------------------------
(* Steps that write a page. *)

\* A write to a dirty node, whole or torn, changes no superblock and no catalog.
LEMMA NodeWritten ==
    ASSUME FileInv, pc = "write", NEW p \in dirty, NEW c, c.kind \in {"node", "torn"},
           pages' = With(pages, p, c), latest' = latest
    PROVE  /\ p \in Nat /\ p >= 3 /\ p # Home
           /\ \A q : Page(q)' = IF q = p THEN c ELSE Page(q)
           /\ Home' = Home /\ Page(Home)' = Page(Home) /\ Usable /\ Usable'
           /\ pages' # <<>> /\ PageTypes' /\ CatalogsOwned' /\ SlotInv' /\ LatestBelow'
           /\ \A m \in Names : Page(Home).roots[m] = p => roots[m] = p /\ Valid(m, cache[p])
  <1> USE DEF FileInv
  <1>1. PICK n \in Names : roots[n] = p
    BY DEF CacheInv, Working
  <1>2. p \in Nat /\ p >= 3 /\ p # catalog /\ catalog = Home /\ p \in DOMAIN cache
    BY <1>1, TypeFacts DEF MemoryOwned, Owned, Working, CacheInv, CatalogInv
  <1>3. /\ \A q : Page(q)' = IF q = p THEN c ELSE Page(q)
        /\ DOMAIN pages' = DOMAIN pages \cup {p} /\ pages' # <<>>
    BY PageWith
  <1>4. Page(0)' = Page(0) /\ Page(1)' = Page(1) /\ Page(2)' = Page(2)
    BY <1>2, <1>3
  <1>5. Home' = Home /\ Page(Home)' = Page(Home)
    BY <1>2, <1>3, <1>4 DEF Home
  <1>6. pages # <<>> /\ Usable
    BY DEF ControlInv
  <1>7. PageTypes'
    BY <1>2, <1>3 DEF PageTypes
  <1>8. CatalogsOwned'
    BY <1>3 DEF CatalogsOwned
  <1>9. SlotInv' /\ Usable'
    BY <1>4, <1>5, <1>6 DEF SlotInv, Usable
  <1>10. LatestBelow'
    <2>1. latest # 2 => latest \in {0, 1}
      BY TypeFacts
    <2>2. latest # 2 => Page(latest)' = Page(latest)
      BY <1>4, <2>1
    <2> QED BY <1>3, <2>2 DEF LatestBelow
  <1>11. ASSUME NEW m \in Names, Page(Home).roots[m] = p
         PROVE  roots[m] = p /\ Valid(m, cache[p])
    <2>1. roots[m] = p
      BY <1>1, <1>2, <1>11 DEF CatalogInv, MemoryOwned, Owned, Working
    <2>2. Cached(roots[m]) = cache[p] /\ cache[p].kind = "node"
      BY <1>2, <2>1 DEF Cached, TypeOK
    <2> QED BY <1>2, <2>1, <2>2 DEF MemInv, Working
  <1> QED BY <1>2, <1>3, <1>5, <1>6, <1>7, <1>8, <1>9, <1>10, <1>11

\* A dirty node reaches the file.
LEMMA WriteNodeKeeps ==
    ASSUME FileInv, NEW p \in dirty, WriteNode(p)
    PROVE  FileInv'
  <1> USE DEF FileInv
  <1>1. /\ pc = "write" /\ pc' = pc /\ dirty' = dirty \ {p} /\ pages' = With(pages, p, cache[p])
        /\ UNCHANGED <<roots, free, orphans, next, catalog, cache, log, at, todo, crashes, torn, latest>>
        /\ (recovering' <=> recovering)
    BY DEF WriteNode
  <1>2. cache[p].kind = "node" /\ p \in DOMAIN cache
    BY DEF TypeOK
  <1>3. /\ p \in Nat /\ p >= 3 /\ p # Home
        /\ \A q : Page(q)' = IF q = p THEN cache[p] ELSE Page(q)
        /\ Home' = Home /\ Page(Home)' = Page(Home) /\ Usable /\ Usable' /\ pages' # <<>>
        /\ PageTypes' /\ CatalogsOwned' /\ SlotInv' /\ LatestBelow'
        /\ \A m \in Names : Page(Home).roots[m] = p => roots[m] = p /\ Valid(m, cache[p])
    BY <1>1, <1>2, NodeWritten
  <1>4. TypeOK'
    <2>1. recovering' \in BOOLEAN
      BY DEF TypeOK, WriteNode
    <2>2. \A q \in DOMAIN pages' : q \in Nat /\ (pages'[q].kind = "super" => q \in {0, 1})
      BY <1>3 DEF PageTypes, Page
    <2> QED BY <1>1, <2>1, <2>2 DEF TypeOK
  <1>5. MemoryOwned' /\ MemoryBelow'
    BY <1>1 DEF MemoryOwned, MemoryBelow, Working
  <1>6. ControlInv'
    BY <1>1, <1>3 DEF ControlInv
  <1>7. CatalogInv'
    BY <1>1, <1>3 DEF CatalogInv
  <1>8. \A q : Cached(q)' = Cached(q)
    BY <1>1, <1>2, <1>3 DEF Cached
  <1>9. CacheInv'
    BY <1>1, <1>3 DEF CacheInv, Working
  <1>10. (Bad <=> Bad') /\ \A n, c : Valid(n, c) <=> Valid(n, c)'
    BY <1>1 DEF Valid, Bad
  <1>11. DiskInv'
    BY <1>1, <1>3, <1>10 DEF DiskInv
  <1>12. MemInv'
    BY <1>1, <1>8, <1>10 DEF MemInv, Pending, Working
  <1>13. ValueInv'
    BY <1>1, <1>8 DEF ValueInv, Applied, Working
  <1>14. FreshInv'
    BY <1>1, <1>3, <1>8 DEF FreshInv
  <1>15. NextLostOnly'
    BY <1>1 DEF NextLostOnly
  <1> QED BY <1>3, <1>4, <1>5, <1>6, <1>7, <1>9, <1>11, <1>12, <1>13, <1>14, <1>15

\* What a crash leaves on disk.
Remains ==
    /\ PageTypes /\ pages # <<>>
    /\ torn \in {"nothing", "creation", "node", "replayed node", "catalog"}
    /\ Usable \/ torn \in {"creation", "catalog"}

\* Nothing is said of memory once the process is gone.
LEMMA DownKeeps ==
    ASSUME FileInv, Down, Remains'
    PROVE  /\ TypeOK' /\ MemoryOwned' /\ MemoryBelow' /\ ControlInv' /\ CatalogInv' /\ CacheInv'
           /\ MemInv' /\ ValueInv' /\ FreshInv' /\ NextLostOnly'
           /\ log' = log /\ latest' = latest /\ recovering'
  <1> USE DEF FileInv
  <1>1. /\ crashes' = crashes + 1 /\ crashes < MaxCrashes /\ pc' = "down" /\ at' = 0 /\ todo' = {} /\ recovering'
        /\ UNCHANGED <<roots, free, orphans, next, catalog, cache, dirty, log, latest>>
    BY DEF Down, memory
  <1>2. TypeOK'
    <2>1. recovering' \in BOOLEAN
      BY DEF Down
    <2>2. \A q \in DOMAIN pages' : q \in Nat /\ (pages'[q].kind = "super" => q \in {0, 1})
      BY DEF PageTypes, Page, Remains
    <2>3. crashes' \in 0..MaxCrashes
      <3>1. crashes \in 0..MaxCrashes
        BY DEF TypeOK
      <3>2. crashes' = crashes + 1 /\ crashes < MaxCrashes
        BY <1>1
      <3> QED BY <3>1, <3>2, IndexFileAssumption
    <2>4. at' \in 0..Len(log') /\ todo' \subseteq Names
      <3>1. at' = 0 /\ log' = log /\ todo' = {}
        BY <1>1
      <3> QED BY <3>1, TypeFacts
    <2> QED BY <1>1, <2>1, <2>2, <2>3, <2>4 DEF TypeOK, Remains
  <1>3. MemoryOwned' /\ MemoryBelow' /\ CatalogInv' /\ MemInv' /\ ValueInv' /\ FreshInv' /\ NextLostOnly'
    BY <1>1 DEF MemoryOwned, MemoryBelow, CatalogInv, MemInv, ValueInv, FreshInv, NextLostOnly, Working
  <1>4. CacheInv'
    BY <1>1 DEF CacheInv, Working
  <1>5. ControlInv'
    BY <1>1 DEF ControlInv, Remains
  <1> QED BY <1>1, <1>2, <1>3, <1>4, <1>5

\* A crash between two page writes leaves the file as it is.
LEMMA CrashKeeps == FileInv /\ Crash => FileInv'
  <1> SUFFICES ASSUME FileInv, Crash PROVE FileInv'
    OBVIOUS
  <1> USE DEF FileInv
  <1>1. /\ Down /\ pages' = pages /\ latest' = latest /\ log' = log
        /\ torn' = IF pc = "created" THEN "creation" ELSE torn
        /\ pc \notin {"down", "unopenable"}
    BY DEF Crash, Down
  <1>2. PageTypes' /\ CatalogsOwned' /\ SlotInv' /\ LatestBelow' /\ Usable' = Usable /\ Home' = Home
        /\ \A q : Page(q)' = Page(q)
    BY <1>1, SamePages
  <1>3. pages # <<>> /\ (pc # "created" => Usable) /\ (pc = "created" => ~Usable)
    <2>1. pages # <<>>
      BY <1>1 DEF ControlInv
    <2>2. (pc # "created" => Usable) /\ (pc = "created" => Page(0).kind # "super")
      BY <1>1, <2>1 DEF ControlInv
    <2> QED BY <2>1, <2>2 DEF Usable
  <1>4. torn \in {"nothing", "creation", "node", "replayed node", "catalog"}
    BY DEF TypeOK
  <1>5. Remains'
    BY <1>1, <1>2, <1>3, <1>4 DEF Remains
  <1>6. /\ TypeOK' /\ MemoryOwned' /\ MemoryBelow' /\ ControlInv' /\ CatalogInv' /\ CacheInv'
        /\ MemInv' /\ ValueInv' /\ FreshInv' /\ NextLostOnly' /\ recovering'
    BY <1>1, <1>5, DownKeeps
  <1>7. DiskInv'
    <2>1. \A n, c : Valid(n, c) <=> Valid(n, c)'
      BY <1>1 DEF Valid
    <2>2. Usable /\ Bad => Bad'
      BY <1>1, <1>3, <1>6 DEF Bad
    <2> QED BY <1>1, <1>2, <2>1, <2>2 DEF DiskInv
  <1> QED BY <1>2, <1>6, <1>7

\* A torn node is one that the catalog on disk names only if replay changed it in
\* place.
LEMMA TornNodeKeeps ==
    ASSUME FileInv, NEW p \in dirty, TornNode(p)
    PROVE  FileInv'
  <1> USE DEF FileInv
  <1>1. /\ Down /\ pages' = With(pages, p, Torn) /\ latest' = latest /\ log' = log
        /\ torn' = IF recovering THEN "replayed node" ELSE "node"
        /\ pc = "write"
    BY DEF TornNode, Down
  <1>2. Torn.kind = "torn"
    BY DEF Torn
  <1>3. /\ p \in Nat /\ p >= 3 /\ p # Home
        /\ \A q : Page(q)' = IF q = p THEN Torn ELSE Page(q)
        /\ Home' = Home /\ Page(Home)' = Page(Home) /\ Usable /\ Usable' /\ pages' # <<>>
        /\ PageTypes' /\ CatalogsOwned' /\ SlotInv' /\ LatestBelow'
        /\ \A m \in Names : Page(Home).roots[m] = p => roots[m] = p /\ Valid(m, cache[p])
    <2>1. pc = "write" /\ pages' = With(pages, p, Torn) /\ latest' = latest /\ Torn.kind \in {"node", "torn"}
      BY <1>1, <1>2
    <2> HIDE DEF FileInv
    <2> QED BY <2>1, NodeWritten
  <1>4. Remains'
    BY <1>1, <1>3 DEF Remains
  <1>5. /\ TypeOK' /\ MemoryOwned' /\ MemoryBelow' /\ ControlInv' /\ CatalogInv' /\ CacheInv'
        /\ MemInv' /\ ValueInv' /\ FreshInv' /\ NextLostOnly' /\ recovering'
    BY <1>1, <1>4, DownKeeps
  <1>6. DiskInv'
    <2> SUFFICES ASSUME NEW m \in Names, Page(Home).roots[m] # 0
                 PROVE  \/ Valid(m, Page(Page(Home).roots[m]))'
                        \/ Page(Page(Home).roots[m])'.kind = "torn" /\ Bad' /\ \E j \in DOMAIN log : m \in log[j]
      BY <1>1, <1>3 DEF DiskInv
    <2>1. recovering => Bad'
      BY <1>1, <1>5 DEF Bad
    <2>2. \A n, c : Valid(n, c) <=> Valid(n, c)'
      BY <1>1 DEF Valid
    <2>3. CASE Page(Home).roots[m] # p
      <3>1. Page(Page(Home).roots[m])' = Page(Page(Home).roots[m])
        BY <1>3, <2>3
      <3> QED BY <1>3, <2>1, <2>2, <3>1 DEF DiskInv, Bad
    <2>4. CASE Page(Home).roots[m] = p
      <3>1. roots[m] = p /\ Valid(m, cache[p]) /\ p # 0
        BY <1>3, <2>4
      <3>2. recovering
        BY <1>1, <2>4, <3>1 DEF FreshInv
      <3>3. Page(Page(Home).roots[m])' = Torn
        BY <1>3, <2>4
      <3>4. \E j \in DOMAIN log : m \in log[j]
        BY <3>1, TypeFacts DEF Valid
      <3> QED BY <1>2, <2>1, <3>2, <3>3, <3>4
    <2> QED BY <2>3, <2>4
  <1> QED BY <1>3, <1>5, <1>6

\* The page of the new catalog: the old one's, or one that no index uses.
LEMMA CatalogPlaced ==
    ASSUME FileInv, pc = "write"
    PROVE  /\ Freed \in Seq(Nat)
           /\ CatalogPage \in Nat /\ CatalogPage >= 3
           /\ catalog >= 3 => CatalogPage = catalog
           /\ \A n \in Names : roots[n] # CatalogPage
           /\ \A i \in DOMAIN Freed : Freed[i] < next /\ Freed[i] >= 3 /\ \A n \in Names : Freed[i] # roots[n]
           /\ Distinct(Freed)
           /\ IF Freed = <<>> THEN CatalogPage = next
              ELSE Len(Freed) \in Nat \ {0} /\ CatalogPage = Freed[Len(Freed)]
  <1> USE DEF FileInv
  <1>1. /\ Owned(roots, free, orphans, catalog) /\ Below(roots, free, catalog, next)
        /\ \A i \in DOMAIN orphans : orphans[i] < next
    BY DEF MemoryOwned, MemoryBelow, Working
  <1> DEFINE given == markOrphaned(catalog)
  <1>2. /\ given \in Seq(Nat)
        /\ \A i \in DOMAIN given : /\ given[i] < next /\ given[i] >= 3
                                   /\ \A n \in Names : given[i] # roots[n]
                                   /\ \A j \in DOMAIN free : given[i] # free[j]
        /\ Distinct(given)
        /\ catalog >= 3 => Len(given) \in Nat \ {0} /\ given[Len(given)] = catalog
    <2>1. CASE catalog < 3
      BY <1>1, <2>1, TypeFacts DEF markOrphaned, Owned
    <2>2. CASE catalog >= 3
      <3>1. given = Append(orphans, catalog)
        <4>1. catalog \in Nat
          BY TypeFacts
        <4> QED BY <2>2, <4>1 DEF markOrphaned
      <3> HIDE DEF given
      <3>2. /\ given \in Seq(Nat) /\ DOMAIN given = 1..(Len(orphans) + 1) /\ Len(given) = Len(orphans) + 1
            /\ DOMAIN orphans = 1..Len(orphans) /\ Len(orphans) \in Nat
            /\ \A i \in 1..Len(orphans) : given[i] = orphans[i]
            /\ given[Len(orphans) + 1] = catalog
        BY <3>1, TypeFacts
      <3>3. \A i \in DOMAIN given : (i \in DOMAIN orphans /\ given[i] = orphans[i])
                                    \/ (i = Len(orphans) + 1 /\ given[i] = catalog)
        BY <3>2
      <3>4. Distinct(given)
        BY <1>1, <3>3 DEF Owned, Distinct
      <3>5. \A i \in DOMAIN given : given[i] < next /\ given[i] >= 3
        BY <1>1, <2>2, <3>3 DEF Owned, Below
      <3>6. \A i \in DOMAIN given : \A n \in Names : given[i] # roots[n]
        BY <1>1, <2>2, <3>3 DEF Owned
      <3>7. \A i \in DOMAIN given : \A j \in DOMAIN free : given[i] # free[j]
        BY <1>1, <3>3 DEF Owned
      <3> QED BY <3>2, <3>4, <3>5, <3>6, <3>7
    <2> QED BY <2>1, <2>2, TypeFacts
  <1>3. Freed = free \o given
    BY DEF Freed
  <1> HIDE DEF given
  <1>4. /\ Freed \in Seq(Nat) /\ Len(Freed) = Len(free) + Len(given) /\ DOMAIN Freed = 1..(Len(free) + Len(given))
        /\ DOMAIN free = 1..Len(free) /\ Len(free) \in Nat /\ DOMAIN given = 1..Len(given) /\ Len(given) \in Nat
        /\ \A i \in 1..Len(free) : Freed[i] = free[i]
        /\ \A i \in 1..(Len(free) + Len(given)) : i > Len(free) => Freed[i] = given[i - Len(free)]
    BY <1>2, <1>3, TypeFacts
  <1>5. \A i \in DOMAIN Freed : (i \in DOMAIN free /\ Freed[i] = free[i])
            \/ (i > Len(free) /\ i - Len(free) \in DOMAIN given /\ Freed[i] = given[i - Len(free)])
    BY <1>4
  <1>6. \A i \in DOMAIN Freed : Freed[i] < next /\ Freed[i] >= 3 /\ \A n \in Names : Freed[i] # roots[n]
    BY <1>1, <1>2, <1>5 DEF Owned, Below
  <1>7. Distinct(Freed)
    <2> SUFFICES ASSUME NEW i \in DOMAIN Freed, NEW j \in DOMAIN Freed, Freed[i] = Freed[j] PROVE i = j
      BY DEF Distinct
    <2>a. i \in Nat /\ j \in Nat /\ Len(free) \in Nat
      BY <1>4
    <2>1. CASE i \in DOMAIN free /\ j \in DOMAIN free
      BY <1>1, <1>4, <2>1 DEF Owned, Distinct
    <2>2. CASE i > Len(free) /\ j > Len(free)
      <3>1. given[i - Len(free)] = given[j - Len(free)] /\ i - Len(free) \in DOMAIN given /\ j - Len(free) \in DOMAIN given
        <4>1. i \notin DOMAIN free /\ j \notin DOMAIN free
          BY <1>4, <2>a, <2>2
        <4> QED BY <1>5, <4>1
      <3>2. i - Len(free) = j - Len(free)
        BY <1>2, <3>1 DEF Distinct
      <3> QED BY <2>a, <3>2
    <2>3. CASE i \in DOMAIN free /\ j > Len(free)
      <3>1. j \notin DOMAIN free /\ Freed[i] = free[i]
        BY <1>4, <2>a, <2>3
      <3> QED BY <1>2, <1>5, <2>3, <3>1
    <2>4. CASE j \in DOMAIN free /\ i > Len(free)
      <3>1. i \notin DOMAIN free /\ Freed[j] = free[j]
        BY <1>4, <2>a, <2>4
      <3> QED BY <1>2, <1>5, <2>4, <3>1
    <2> QED BY <1>5, <2>1, <2>2, <2>3, <2>4
  <1>8. CASE Freed = <<>>
    <2>1. Len(given) = 0
      BY <1>4, <1>8
    <2>2. CatalogPage = next /\ ~(catalog >= 3)
      BY <1>2, <1>8, <2>1 DEF CatalogPage
    <2>3. next \in Nat /\ next >= 3 /\ \A n \in Names : roots[n] # next
      BY <1>1, TypeFacts DEF Owned, Below
    <2> QED BY <1>4, <1>6, <1>7, <1>8, <2>2, <2>3
  <1>9. CASE Freed # <<>>
    <2>1. Len(Freed) \in Nat \ {0} /\ CatalogPage = Freed[Len(Freed)] /\ Len(Freed) \in DOMAIN Freed
      <3>1. Freed \in Seq(Nat)
        BY <1>4
      <3>2. Len(Freed) \in Nat \ {0} /\ Last(Freed) = Freed[Len(Freed)] /\ DOMAIN Freed = 1..Len(Freed)
        BY <1>9, <3>1, LastFront
      <3> QED BY <1>9, <3>2 DEF CatalogPage
    <2>2. catalog >= 3 => CatalogPage = catalog
      <3> SUFFICES ASSUME catalog >= 3 PROVE Freed[Len(Freed)] = catalog
        BY <2>1
      <3>1. Len(given) \in Nat \ {0} /\ given[Len(given)] = catalog
        BY <1>2
      <3>2. Len(Freed) > Len(free) /\ Len(Freed) - Len(free) = Len(given)
        BY <1>4, <3>1
      <3>3. Len(Freed) \notin DOMAIN free
        BY <1>4, <3>2
      <3> QED BY <1>5, <2>1, <3>1, <3>2, <3>3
    <2> QED BY <1>4, <1>6, <1>7, <1>9, <2>1, <2>2
  <1> QED BY <1>8, <1>9

\* The catalog is written to a page that is neither a leaf nor in the list it stores.
LEMMA WriteCatalogKeeps == FileInv /\ WriteCatalog => FileInv'
  <1> SUFFICES ASSUME FileInv, WriteCatalog PROVE FileInv'
    OBVIOUS
  <1> USE DEF FileInv
  <1> DEFINE kept == SubSeq(free', 1, IF Len(free') < MaxFree THEN Len(free') ELSE MaxFree)
  <1> DEFINE written == Catalog(Generation(at), roots, kept)
  <1>1. /\ pc = "write" /\ pc' = "catalog" /\ dirty = {} /\ dirty' = {} /\ latest' = 2
        /\ orphans' = <<>> /\ catalog' = CatalogPage
        /\ pages' = With(pages, CatalogPage, written)
        /\ UNCHANGED <<roots, cache, log, at, todo, crashes, torn>> /\ (recovering' <=> recovering)
    BY DEF WriteCatalog
  <1>2. /\ free' = IF Freed # <<>> THEN Front(Freed) ELSE Freed
        /\ next' = IF Freed # <<>> THEN next ELSE next + 1
    BY DEF WriteCatalog
  <1>3. /\ Freed \in Seq(Nat)
        /\ CatalogPage \in Nat /\ CatalogPage >= 3
        /\ catalog >= 3 => CatalogPage = catalog
        /\ \A n \in Names : roots[n] # CatalogPage
        /\ \A i \in DOMAIN Freed : Freed[i] < next /\ Freed[i] >= 3 /\ \A n \in Names : Freed[i] # roots[n]
        /\ Distinct(Freed)
        /\ IF Freed = <<>> THEN CatalogPage = next
           ELSE Len(Freed) \in Nat \ {0} /\ CatalogPage = Freed[Len(Freed)]
    BY <1>1, CatalogPlaced
  <1>4. /\ free' \in Seq(Nat) /\ next' \in Nat /\ next' >= next /\ CatalogPage < next'
        /\ \A i \in DOMAIN free' : i \in DOMAIN Freed /\ free'[i] = Freed[i] /\ free'[i] # CatalogPage
    <2>1. next \in Nat
      BY TypeFacts
    <2>2. CASE Freed = <<>>
      BY <1>2, <1>3, <2>1, <2>2
    <2>3. CASE Freed # <<>>
      <3>1. /\ Len(Freed) \in Nat \ {0} /\ Len(Freed) \in DOMAIN Freed
            /\ Front(Freed) \in Seq(Nat) /\ DOMAIN Front(Freed) = 1..(Len(Freed) - 1)
            /\ \A i \in 1..(Len(Freed) - 1) : Front(Freed)[i] = Freed[i]
            /\ DOMAIN Freed = 1..Len(Freed)
        BY <1>3, <2>3, LastFront
      <3>2. free' = Front(Freed) /\ next' = next /\ CatalogPage = Freed[Len(Freed)]
        BY <1>2, <1>3, <2>3
      <3>3. \A i \in DOMAIN free' : i \in DOMAIN Freed /\ i # Len(Freed) /\ free'[i] = Freed[i]
        BY <3>1, <3>2
      <3> QED BY <1>3, <2>1, <3>1, <3>2, <3>3 DEF Distinct
    <2> QED BY <2>2, <2>3
  <1>5. /\ kept \in Seq(Nat)
        /\ \A i \in DOMAIN kept : i \in DOMAIN free' /\ kept[i] = free'[i]
    BY <1>4, IndexFileAssumption
  <1>6. written.kind = "catalog" /\ written.roots = roots /\ written.free = kept
    BY DEF Catalog
  <1> HIDE DEF kept, written
  <1>7. /\ \A q : Page(q)' = IF q = CatalogPage THEN written ELSE Page(q)
        /\ DOMAIN pages' = DOMAIN pages \cup {CatalogPage} /\ pages' # <<>>
    BY <1>1, PageWith
  <1>8. Page(0)' = Page(0) /\ Page(1)' = Page(1) /\ Page(2)' = Page(2) /\ Home' = Home
    BY <1>3, <1>7 DEF Home
  <1>9. catalog = Home /\ Usable /\ pages # <<>> /\ todo = {} /\ at >= 1
    BY <1>1 DEF ControlInv, CatalogInv
  <1>10. \/ Home = CatalogPage /\ Page(Home)' = written
         \/ Home = 2 /\ Page(1).kind # "super" /\ Page(Home)' = Catalog(1, NoRoots, <<>>)
    <2>1. CASE catalog >= 3
      BY <1>3, <1>7, <1>8, <1>9, <2>1
    <2>2. CASE ~(catalog >= 3)
      <3>1. Home = 2 /\ Page(1).kind # "super"
        BY <1>9, <2>2 DEF Home, SlotInv
      <3> QED BY <1>8, <1>9, <3>1 DEF SlotInv
    <2> QED BY <2>1, <2>2
  <1>11. Usable'
    BY <1>6, <1>8, <1>9, <1>10 DEF Usable, Catalog
  <1>12. \A s : /\ DOMAIN s \subseteq DOMAIN free'
                /\ \A i \in DOMAIN s : s[i] = free'[i]
                => Owned(roots, s, <<>>, CatalogPage)
    <2> SUFFICES ASSUME NEW s, DOMAIN s \subseteq DOMAIN free', \A i \in DOMAIN s : s[i] = free'[i]
                 PROVE  Owned(roots, s, <<>>, CatalogPage)
      OBVIOUS
    <2>1. Owned(roots, free, orphans, catalog)
      BY <1>1 DEF MemoryOwned, Working
    <2>2. /\ \A n \in Names : roots[n] # 0 => roots[n] >= 3 /\ roots[n] # CatalogPage
          /\ \A n, m \in Names : roots[n] = roots[m] /\ roots[n] # 0 => n = m
      BY <1>3, <2>1 DEF Owned
    <2>3. Distinct(s)
      BY <1>3, <1>4 DEF Distinct
    <2>4. \A i \in DOMAIN s : s[i] >= 3 /\ s[i] # CatalogPage /\ \A n \in Names : s[i] # roots[n]
      BY <1>3, <1>4
    <2>5. Distinct(<<>>) /\ DOMAIN <<>> = {}
      BY DEF Distinct
    <2> QED BY <1>3, <2>2, <2>3, <2>4, <2>5 DEF Owned
  <1>13. TypeOK'
    <2>1. recovering' \in BOOLEAN
      BY DEF TypeOK, WriteCatalog
    <2>2. \A p \in DOMAIN pages' : p \in Nat /\ (pages'[p].kind = "super" => p \in {0, 1})
      <3>1. \A p \in DOMAIN pages : p \in Nat /\ (pages[p].kind = "super" => p \in {0, 1})
        BY SuperblockPages
      <3>2. pages'[CatalogPage] = written /\ \A p \in DOMAIN pages : p # CatalogPage => pages'[p] = pages[p]
        BY <1>1 DEF With
      <3> QED BY <1>3, <1>6, <1>7, <3>1, <3>2
    <2>3. orphans' \in Seq(Nat) /\ dirty' \subseteq DOMAIN cache' /\ latest' \in 0..2
      BY <1>1
    <2> QED BY <1>1, <1>3, <1>4, <2>1, <2>2, <2>3 DEF TypeOK
  <1>14. PageTypes'
    <2>1. roots \in [Names -> Nat]
      BY TypeFacts
    <2> QED BY <1>3, <1>5, <1>6, <1>7, <2>1 DEF PageTypes
  <1>15. CatalogsOwned'
    <2>1. Owned(roots, kept, <<>>, CatalogPage)
      BY <1>5, <1>12
    <2> QED BY <1>6, <1>7, <2>1 DEF CatalogsOwned
  <1>16. MemoryOwned'
    BY <1>1, <1>12 DEF MemoryOwned
  <1>17. MemoryBelow'
    <2>1. Below(roots, free, catalog, next)
      BY <1>1 DEF MemoryBelow
    <2>2. next \in Nat /\ \A n \in Names : roots[n] \in Nat
      BY TypeFacts
    <2>3. \A n \in Names : roots[n] < next'
      BY <1>4, <2>1, <2>2 DEF Below
    <2>4. \A i \in DOMAIN free' : free'[i] < next'
      BY <1>3, <1>4, <2>2
    <2> QED BY <1>1, <1>4, <2>3, <2>4 DEF MemoryBelow, Below
  <1>18. LatestBelow' /\ NextLostOnly' /\ FreshInv'
    BY <1>1 DEF LatestBelow, NextLostOnly, FreshInv
  <1>19. SlotInv'
    BY <1>7, <1>8, <1>9 DEF SlotInv
  <1>20. ControlInv'
    BY <1>1, <1>7, <1>9, <1>11 DEF ControlInv
  <1>21. CatalogInv'
    <2>1. catalog' = Home' \/ Page(1)'.kind # "super"
      BY <1>1, <1>8, <1>10
    <2>2. Page(catalog)' = written
      BY <1>1, <1>7
    <2>3. \A i \in DOMAIN kept : \E j \in DOMAIN free' : kept[i] = free'[j]
      BY <1>5
    <2> QED BY <1>1, <1>3, <1>6, <2>1, <2>2, <2>3 DEF CatalogInv
  <1>22. \A n \in Names : Page(roots[n])' = Page(roots[n]) /\ Cached(roots[n])' = Cached(roots[n])
    BY <1>1, <1>3, <1>7 DEF Cached
  <1>23. CacheInv'
    BY <1>1, <1>22 DEF CacheInv, Working
  <1>24. (Bad <=> Bad') /\ \A n, c : Valid(n, c) <=> Valid(n, c)'
    BY <1>1 DEF Valid, Bad
  <1>25. MemInv'
    BY <1>1, <1>22, <1>24 DEF MemInv, Pending, Working
  <1>26. ValueInv'
    BY <1>1, <1>22 DEF ValueInv, Applied, Working
  <1>27. DiskInv'
    <2>1. CASE Page(Home)' = Catalog(1, NoRoots, <<>>)
      BY <2>1, <1>8 DEF DiskInv, Catalog, NoRoots
    <2>2. CASE Page(Home)' = written
      <3>1. \A n \in Names : roots[n] # 0 => Cached(roots[n]) = Page(roots[n])
        BY <1>1 DEF CacheInv, Working, Cached
      <3>2. \A n : Pending(n) => \E j \in DOMAIN log : n \in log[j]
        <4>1. at \in Nat /\ DOMAIN log = 1..Len(log) /\ todo = {}
          BY <1>9, TypeFacts
        <4> QED BY <4>1 DEF Pending
      <3>3. \A n \in Names : roots[n] # 0 =>
                \/ Valid(n, Page(roots[n]))
                \/ Page(roots[n]).kind = "torn" /\ Bad /\ \E j \in DOMAIN log : n \in log[j]
        BY <1>1, <3>1, <3>2 DEF MemInv, Working
      <3>4. Page(Home)'.roots = roots /\ log' = log
        BY <1>1, <1>6, <2>2
      <3>5. \A n \in Names : Page(Page(Home).roots[n])' = Page(roots[n])
        BY <1>3, <1>7, <3>4
      <3> QED BY <1>24, <3>3, <3>4, <3>5 DEF DiskInv
    <2> QED BY <1>10, <2>1, <2>2
  <1> QED BY <1>13, <1>14, <1>15, <1>16, <1>17, <1>18, <1>19, <1>20, <1>21, <1>23, <1>25, <1>26, <1>27

\* A torn catalog makes the file unusable, unless it is the first one to be written.
LEMMA TornCatalogKeeps == FileInv /\ TornCatalog => FileInv'
  <1> SUFFICES ASSUME FileInv, TornCatalog PROVE FileInv'
    OBVIOUS
  <1> USE DEF FileInv
  <1>1. /\ pc = "write" /\ Down /\ pages' = With(pages, CatalogPage, Torn) /\ torn' = "catalog"
        /\ log' = log /\ latest' = latest
    BY DEF TornCatalog, Down
  <1>2. CatalogPage \in Nat /\ CatalogPage >= 3 /\ (catalog >= 3 => CatalogPage = catalog)
    BY <1>1, CatalogPlaced
  <1>3. /\ \A q : Page(q)' = IF q = CatalogPage THEN Torn ELSE Page(q)
        /\ DOMAIN pages' = DOMAIN pages \cup {CatalogPage} /\ pages' # <<>>
    BY <1>1, PageWith
  <1>4. Page(0)' = Page(0) /\ Page(1)' = Page(1) /\ Page(2)' = Page(2) /\ Home' = Home
    BY <1>2, <1>3 DEF Home
  <1>5. Torn.kind = "torn"
    BY DEF Torn
  <1>6. PageTypes'
    BY <1>2, <1>3, <1>5 DEF PageTypes
  <1>7. CatalogsOwned'
    BY <1>3, <1>5 DEF CatalogsOwned
  <1>8. SlotInv'
    <2>1. pages # <<>>
      BY <1>1 DEF ControlInv
    <2> QED BY <1>4, <2>1 DEF SlotInv
  <1>9. LatestBelow'
    <2>1. latest # 2 => Page(latest)' = Page(latest)
      <3>1. latest \in 0..2
        BY TypeFacts
      <3> QED BY <1>1, <1>4, <3>1
    <2> QED BY <1>1, <1>3, <1>5, <2>1 DEF LatestBelow
  <1>10. Remains'
    BY <1>1, <1>3, <1>6 DEF Remains
  <1>11. /\ TypeOK' /\ MemoryOwned' /\ MemoryBelow' /\ ControlInv' /\ CatalogInv' /\ CacheInv'
         /\ MemInv' /\ ValueInv' /\ FreshInv' /\ NextLostOnly'
    BY <1>1, <1>10, DownKeeps
  <1>12. DiskInv'
    <2>1. catalog = Home /\ pages # <<>>
      BY <1>1 DEF CatalogInv, ControlInv
    <2>2. CASE catalog >= 3
      BY <1>2, <1>3, <1>4, <1>5, <2>1, <2>2 DEF DiskInv, Usable
    <2>3. CASE ~(catalog >= 3)
      <3>1. Home = 2 /\ Page(2) = Catalog(1, NoRoots, <<>>)
        BY <2>1, <2>3 DEF Home, SlotInv
      <3> QED BY <1>4, <3>1 DEF DiskInv, Catalog, NoRoots
    <2> QED BY <2>2, <2>3
  <1> QED BY <1>6, <1>7, <1>8, <1>9, <1>11, <1>12

\* The superblock goes to a slot that keeps SlotInv: the empty catalog of a new file
\* is never left to the older generation once both slots are valid.
LEMMA WriteSuperblockKeeps == FileInv /\ WriteSuperblock => FileInv'
  <1> SUFFICES ASSUME FileInv, WriteSuperblock PROVE FileInv'
    OBVIOUS
  <1> USE DEF FileInv
  <1> DEFINE written == Superblock(Generation(at), catalog, next)
  <1>1. /\ pc = "catalog" /\ pages' = With(pages, Target, written) /\ latest' = Target
        /\ UNCHANGED <<roots, free, orphans, next, catalog, cache, dirty, log, at, todo, crashes, torn>>
    BY DEF WriteSuperblock, NextToSave, memory
  <1>2. /\ pc' = IF recovering THEN "open" ELSE "idle"
        /\ (recovering' <=> recovering)
    BY DEF WriteSuperblock
  <1>3. /\ Usable /\ at >= 1 /\ catalog >= 3 /\ Page(catalog).kind = "catalog" /\ Page(catalog).roots = roots
        /\ catalog = Home \/ Page(1).kind # "super"
        /\ \A i \in DOMAIN Page(catalog).free : \E j \in DOMAIN free : Page(catalog).free[i] = free[j]
        /\ todo = {} /\ dirty = {} /\ orphans = <<>>
    <2>1. pages # <<>>
      BY <1>1 DEF ControlInv
    <2> QED BY <1>1, <2>1 DEF ControlInv, CatalogInv
  <1>4. written.kind = "super" /\ written.gen = at + 1 /\ written.catalog = catalog /\ written.next = next
    BY DEF Superblock, Generation
  <1> HIDE DEF written
  <1>5. at \in Nat /\ catalog \in Nat /\ next \in Nat
    BY TypeFacts
  <1>6. /\ Page(0).kind = "super" /\ Page(0).gen \in Nat
        /\ Page(1).kind = "super" => Page(1).gen \in Nat
    BY <1>3 DEF Usable, PageTypes
  <1>7. Target \in {0, 1} /\ (Page(1).kind # "super" => Target = 1)
    BY <1>6 DEF Target
  <1>8. /\ \A q : Page(q)' = IF q = Target THEN written ELSE Page(q)
        /\ DOMAIN pages' = DOMAIN pages \cup {Target} /\ pages' # <<>>
    BY <1>1, PageWith
  <1>9. Page(catalog)' = Page(catalog) /\ Page(2)' = Page(2)
    BY <1>1, <1>3, <1>5, <1>7, <1>8
  <1>10. SlotInv' /\ Home' = catalog /\ Page(0)'.kind = "super"
    <2>1. Page(2) = Catalog(1, NoRoots, <<>>)
      BY <1>1 DEF SlotInv, ControlInv
    <2>2. CASE Page(1).kind # "super"
      <3>1. Page(1)' = written /\ Page(0)' = Page(0) /\ Page(0).gen = 1 /\ Page(0).catalog = 2
        BY <1>6, <1>7, <1>8, <2>2 DEF SlotInv
      <3> QED BY <1>3, <1>4, <1>5, <1>6, <1>9, <2>1, <3>1 DEF SlotInv, Home
    <2>3. CASE Page(1).kind = "super" /\ Target = 0
      <3>1. Page(0)' = written /\ Page(1)' = Page(1) /\ Page(1).catalog = catalog /\ Page(1).gen >= 2
        BY <1>3, <1>8, <2>3 DEF SlotInv, Home
      <3> QED BY <1>3, <1>4, <1>5, <1>9, <2>1, <2>3, <3>1 DEF SlotInv, Home
    <2>4. CASE Page(1).kind = "super" /\ Target = 1
      <3>1. Page(1)' = written /\ Page(0)' = Page(0) /\ Page(1).catalog = catalog /\ Page(1).gen >= 2
        BY <1>3, <1>8, <2>4 DEF SlotInv, Home
      <3>2. Page(0).gen > Page(1).gen
        BY <1>6, <2>4 DEF Target
      <3>3. Page(0).catalog = catalog
        BY <1>6, <2>4, <3>1, <3>2 DEF SlotInv
      <3> QED BY <1>3, <1>4, <1>5, <1>6, <1>9, <2>1, <3>1, <3>3 DEF SlotInv, Home
    <2> QED BY <1>7, <2>2, <2>3, <2>4
  <1>11. Page(Home)' = Page(catalog) /\ Usable'
    <2>1. Page(Home)' = Page(catalog)
      BY <1>1, <1>9, <1>10
    <2> QED BY <1>3, <1>10, <2>1 DEF Usable
  <1>12. TypeOK'
    <2>1. recovering' \in BOOLEAN
      BY DEF TypeOK, WriteSuperblock
    <2>2. \A p \in DOMAIN pages' : p \in Nat /\ (pages'[p].kind = "super" => p \in {0, 1})
      <3>1. \A p \in DOMAIN pages : p \in Nat /\ (pages[p].kind = "super" => p \in {0, 1})
        BY SuperblockPages
      <3>2. \A p \in DOMAIN pages : p # Target => pages'[p] = pages[p]
        BY <1>1 DEF With
      <3> QED BY <1>7, <1>8, <3>1, <3>2
    <2>3. latest' \in 0..2 /\ pc' \in {"open", "idle"}
      BY <1>1, <1>2, <1>7
    <2> QED BY <1>1, <2>1, <2>2, <2>3 DEF TypeOK
  <1>13. PageTypes'
    BY <1>3, <1>4, <1>5, <1>7, <1>8 DEF PageTypes
  <1>14. CatalogsOwned'
    BY <1>4, <1>8 DEF CatalogsOwned
  <1>15. MemoryOwned'
    BY <1>1 DEF MemoryOwned, Working
  <1>16. Below(roots, free, catalog, next)
    BY <1>1 DEF MemoryBelow
  <1>17. MemoryBelow'
    BY <1>1, <1>3, <1>16 DEF MemoryBelow
  <1>18. LatestBelow'
    <2>1. Page(latest)' = written
      BY <1>1, <1>8
    <2>2. Below(roots, Page(catalog).free, catalog, next)
      BY <1>3, <1>16 DEF Below
    <2>3. Page(Page(latest).catalog)' = Page(catalog) /\ Page(latest)'.catalog = catalog
          /\ Page(latest)'.kind = "super" /\ Page(latest)'.next = next
      BY <1>1, <1>4, <1>9, <2>1
    <2> QED BY <1>3, <2>2, <2>3 DEF LatestBelow
  <1>19. ControlInv'
    <2>1. recovering \in BOOLEAN
      BY DEF TypeOK
    <2>2. CASE recovering
      BY <1>1, <1>2, <1>3, <1>8, <1>11, <2>2 DEF ControlInv
    <2>3. CASE ~recovering
      BY <1>1, <1>2, <1>3, <1>8, <1>11, <2>3 DEF ControlInv
    <2> QED BY <2>2, <2>3
  <1>20. pc' \in {"open", "idle"}
    BY <1>2
  <1>21. CatalogInv'
    BY <1>1, <1>3, <1>10, <1>11, <1>20 DEF CatalogInv
  <1>22. \A n \in Names : roots[n] # 0 => Page(roots[n])' = Page(roots[n]) /\ Cached(roots[n])' = Cached(roots[n])
    <2>1. \A n \in Names : roots[n] # 0 => roots[n] >= 3
      BY <1>1 DEF MemoryOwned, Owned, Working
    <2>2. \A n \in Names : roots[n] # 0 => roots[n] # Target
      BY <1>7, <2>1
    <2> QED BY <1>1, <1>8, <2>2 DEF Cached
  <1>23. CacheInv'
    BY <1>1, <1>3, <1>22 DEF CacheInv, Working
  <1>24. (Bad <=> Bad') /\ \A n, c : Valid(n, c) <=> Valid(n, c)'
    BY <1>1, <1>2 DEF Valid, Bad
  <1>25. MemInv'
    BY <1>1, <1>22, <1>24 DEF MemInv, Pending, Working
  <1>26. ValueInv'
    BY <1>1, <1>22 DEF ValueInv, Applied, Working
  <1>27. DiskInv'
    <2>1. \A n \in Names : roots[n] # 0 => Cached(roots[n]) = Page(roots[n])
      BY <1>1, <1>3 DEF CacheInv, Working, Cached
    <2>2. \A n : Pending(n) => \E j \in DOMAIN log : n \in log[j]
      <3>1. at \in Nat /\ DOMAIN log = 1..Len(log) /\ todo = {}
        BY <1>3, TypeFacts
      <3> QED BY <3>1 DEF Pending
    <2>3. \A n \in Names : roots[n] # 0 =>
              \/ Valid(n, Page(roots[n]))
              \/ Page(roots[n]).kind = "torn" /\ Bad /\ \E j \in DOMAIN log : n \in log[j]
      BY <1>1, <2>1, <2>2 DEF MemInv, Working
    <2>4. Page(Home)'.roots = roots /\ log' = log /\ roots' = roots
      BY <1>1, <1>3, <1>11
    <2>5. \A n \in Names : roots[n] # 0 => Page(Page(Home).roots[n])' = Page(roots[n])
      BY <1>22, <2>4
    <2> QED BY <1>24, <2>3, <2>4, <2>5 DEF DiskInv
  <1>28. FreshInv'
    BY <1>20 DEF FreshInv
  <1>29. NextLostOnly'
    <2>1. (\A n \in Names : roots[n] \in Nat) /\ \A i \in DOMAIN free : free[i] \in Nat
      BY TypeFacts
    <2>2. ~NextLost
      BY <1>5, <1>16, <2>1 DEF NextLost, Below
    <2>3. ~NextLost'
      BY <1>1, <2>2 DEF NextLost
    <2> QED BY <2>3 DEF NextLostOnly
  <1> QED BY <1>10, <1>12, <1>13, <1>14, <1>15, <1>17, <1>18, <1>19, <1>21, <1>23, <1>25, <1>26, <1>27, <1>28, <1>29

-----------------------------------------------------------------------------
(* The theorems. *)

\* Every step keeps FileInv.
LEMMA StepKeeps == FileInv /\ [Next]_vars => FileInv'
  <1> SUFFICES ASSUME FileInv, [Next]_vars PROVE FileInv'
    OBVIOUS
  <1>1. CASE CreateCatalog
    BY <1>1, CreateCatalogKeeps
  <1>2. CASE CreateSuperblock
    BY <1>2, CreateSuperblockKeeps
  <1>3. CASE Open
    BY <1>3, OpenKeeps
  <1>4. CASE OpenFails
    BY <1>4, FailsKeeps
  <1>5. ASSUME NEW S \in (SUBSET Names) \ {{}}, Begin(S) PROVE FileInv'
    BY <1>5, BeginKeeps
  <1>6. CASE Replay
    BY <1>6, ReplayKeeps
  <1>7. ASSUME NEW n \in Names, Insert(n) PROVE FileInv'
    BY <1>7, InsertKeeps
  <1>8. ASSUME NEW n \in Names, InsertFails(n) PROVE FileInv'
    BY <1>8, FailsKeeps
  <1>9. ASSUME NEW p \in dirty, WriteNode(p) PROVE FileInv'
    BY <1>9, WriteNodeKeeps
  <1>10. ASSUME NEW p \in dirty, TornNode(p) PROVE FileInv'
    BY <1>10, TornNodeKeeps
  <1>11. CASE WriteCatalog
    BY <1>11, WriteCatalogKeeps
  <1>12. CASE WriteSuperblock
    BY <1>12, WriteSuperblockKeeps
  <1>13. CASE Crash
    BY <1>13, CrashKeeps
  <1>14. CASE TornCatalog
    BY <1>14, TornCatalogKeeps
  <1>15. CASE UNCHANGED vars
    <2>1. /\ UNCHANGED <<pages, roots, free, orphans, next, catalog, cache, dirty>>
          /\ UNCHANGED <<log, pc, at, todo, recovering, crashes, torn, latest>>
      BY <1>15 DEF vars, memory
    <2>2. (\A q : Page(q)' = Page(q)) /\ (\A q : Cached(q)' = Cached(q)) /\ Home' = Home /\ Usable' = Usable
          /\ PageTypes' = PageTypes /\ CatalogsOwned' = CatalogsOwned /\ SlotInv' = SlotInv
          /\ LatestBelow' = LatestBelow /\ Active' = Active
      BY <2>1, SamePages DEF Cached
    <2>3. TypeOK' = TypeOK /\ MemoryOwned' = MemoryOwned /\ MemoryBelow' = MemoryBelow
      BY <2>1 DEF TypeOK, MemoryOwned, MemoryBelow, Working
    <2>4. ControlInv' = ControlInv /\ CatalogInv' = CatalogInv
      BY <2>1, <2>2 DEF ControlInv, CatalogInv
    <2>5. CacheInv' = CacheInv /\ DiskInv' = DiskInv
      BY <2>1, <2>2 DEF CacheInv, DiskInv, Working, Valid, Bad
    <2>6. MemInv' = MemInv /\ ValueInv' = ValueInv
      BY <2>1, <2>2 DEF MemInv, ValueInv, Working, Valid, Bad, Pending, Applied
    <2>7. FreshInv' = FreshInv /\ NextLostOnly' = NextLostOnly
      BY <2>1, <2>2 DEF FreshInv, NextLostOnly, NextLost
    <2> QED BY <2>2, <2>3, <2>4, <2>5, <2>6, <2>7 DEF FileInv
  <1> QED BY <1>1, <1>2, <1>3, <1>4, <1>5, <1>6, <1>7, <1>8, <1>9, <1>10, <1>11, <1>12, <1>13, <1>14, <1>15 DEF Next

\* FileInv holds in every state of the index file.
THEOREM FileInvariant == Spec => []FileInv
  BY InitHolds, StepKeeps, PTL DEF Spec

\* NewDiskBPlusTree, insertNamedNoCommitLocked, writeNewStateLocked and a crash keep
\* every variable in its set.
THEOREM IndexFileTypes == Spec => []TypeOK
  BY FileInvariant, PTL DEF FileInv

\* PagesOwned is part of what FileInv says of memory.
LEMMA OwnedPages == FileInv => PagesOwned
  <1> SUFFICES ASSUME FileInv, Working, ~NextLost
               PROVE  LET given == free \o orphans
                      IN  /\ \A n, m \in Names : roots[n] = roots[m] /\ roots[n] # 0 => n = m
                          /\ \A i, j \in DOMAIN given : given[i] = given[j] => i = j
                          /\ Live \cap Range(given) = {}
                          /\ catalog \notin Live \cup Range(given)
                          /\ Live \cup Range(given) \subseteq 3..(next - 1)
    BY DEF PagesOwned, Working
  <1> USE DEF FileInv
  <1> DEFINE given == free \o orphans
  <1>1. Owned(roots, free, orphans, catalog)
    BY DEF MemoryOwned
  <1>2. /\ (\A n \in Names : roots[n] < next) /\ (\A i \in DOMAIN free : free[i] < next)
        /\ \A i \in DOMAIN orphans : orphans[i] < next
    <2>1. (\A n \in Names : roots[n] < next) /\ (\A i \in DOMAIN free : free[i] < next)
      <3>1. next \in Nat /\ (\A n \in Names : roots[n] \in Nat) /\ (\A i \in DOMAIN free : free[i] \in Nat)
        BY TypeFacts
      <3> QED BY <3>1 DEF NextLost
    <2>2. CASE pc = "open"
      BY <2>1, <2>2 DEF ControlInv
    <2>3. CASE pc # "open"
      BY <2>1, <2>3 DEF MemoryBelow, Working
    <2> QED BY <2>2, <2>3
  <1>3. /\ DOMAIN free = 1..Len(free) /\ Len(free) \in Nat
        /\ DOMAIN orphans = 1..Len(orphans) /\ Len(orphans) \in Nat
        /\ DOMAIN given = 1..(Len(free) + Len(orphans))
        /\ \A i \in 1..Len(free) : given[i] = free[i]
        /\ \A i \in 1..(Len(free) + Len(orphans)) : i > Len(free) => given[i] = orphans[i - Len(free)]
    BY TypeFacts
  <1> HIDE DEF given
  <1>4. \A i \in DOMAIN given : (i \in DOMAIN free /\ given[i] = free[i])
            \/ (i > Len(free) /\ i - Len(free) \in DOMAIN orphans /\ given[i] = orphans[i - Len(free)])
    BY <1>3
  <1>5. \A i, j \in DOMAIN given : given[i] = given[j] => i = j
    <2> SUFFICES ASSUME NEW i \in DOMAIN given, NEW j \in DOMAIN given, given[i] = given[j] PROVE i = j
      OBVIOUS
    <2>0. i \in Nat /\ j \in Nat /\ Len(free) \in Nat
      BY <1>3
    <2>1. CASE i \in DOMAIN free /\ j \in DOMAIN free
      BY <1>1, <1>3, <2>1 DEF Owned, Distinct
    <2>2. CASE i \notin DOMAIN free /\ j \notin DOMAIN free
      <3>1. given[i] = orphans[i - Len(free)] /\ given[j] = orphans[j - Len(free)]
            /\ i - Len(free) \in DOMAIN orphans /\ j - Len(free) \in DOMAIN orphans
        BY <1>4, <2>2
      <3>2. i - Len(free) = j - Len(free)
        BY <1>1, <3>1 DEF Owned, Distinct
      <3> QED BY <2>0, <3>2
    <2>3. CASE i \in DOMAIN free /\ j \notin DOMAIN free
      BY <1>1, <1>3, <1>4, <2>3 DEF Owned
    <2>4. CASE i \notin DOMAIN free /\ j \in DOMAIN free
      BY <1>1, <1>3, <1>4, <2>4 DEF Owned
    <2> QED BY <2>1, <2>2, <2>3, <2>4
  <1>6. \A i \in DOMAIN given : given[i] >= 3 /\ given[i] < next /\ given[i] # catalog /\ given[i] \in Nat
    <2>1. (\A i \in DOMAIN free : free[i] \in Nat) /\ \A i \in DOMAIN orphans : orphans[i] \in Nat
      BY TypeFacts
    <2> QED BY <1>1, <1>2, <1>4, <2>1 DEF Owned
  <1>7. \A i \in DOMAIN given : \A n \in Names : given[i] # roots[n]
    BY <1>1, <1>4 DEF Owned
  <1>8. \A n \in Names : roots[n] # 0 => roots[n] >= 3 /\ roots[n] # catalog /\ roots[n] < next /\ roots[n] \in Nat
    BY <1>1, <1>2, TypeFacts DEF Owned
  <1>9. next \in Nat
    BY TypeFacts
  <1>10. Live \cap Range(given) = {}
    BY <1>7 DEF Live, Range
  <1>11. catalog \notin Live \cup Range(given)
    BY <1>6, <1>8 DEF Live, Range
  <1>12. Live \cup Range(given) \subseteq 3..(next - 1)
    <2>1. \A i \in DOMAIN given : given[i] \in 3..(next - 1)
      BY <1>6, <1>9
    <2>2. \A n \in Names : roots[n] # 0 => roots[n] \in 3..(next - 1)
      BY <1>8, <1>9
    <2> QED BY <2>1, <2>2 DEF Live, Range
  <1>13. \A n, m \in Names : roots[n] = roots[m] /\ roots[n] # 0 => n = m
    BY <1>1 DEF Owned
  <1> QED BY <1>5, <1>10, <1>11, <1>12, <1>13 DEF given

\* Whatever crashes and replays came before, no page of an open file has two uses.
THEOREM IndexFilePagesOwned == Spec => []PagesOwned
  BY FileInvariant, OwnedPages, PTL

\* NextPageID is lost only when NewDiskBPlusTree does not take the superblock that
\* was written last, or a catalog was written after it.
THEOREM IndexFileNextLost == Spec => []NextLostOnly
  BY FileInvariant, PTL DEF FileInv

\* A file that cannot be opened was hit by a crash in one of three places.
THEOREM IndexFileUnopenable == Spec => []UnopenableOnly
  <1>1. FileInv => UnopenableOnly
    BY DEF FileInv, ControlInv, UnopenableOnly
  <1> QED BY <1>1, FileInvariant, PTL
-----------------------------------------------------------------------------
(* IndexFile implements AtomicIndex: what the file holds for the next      *)
(* NewDiskBPlusTree changes with a transaction's last write, while its WAL *)
(* is replayed, or when a crash destroys the file, and at no other time.   *)

\* What the catalog that NewDiskBPlusTree finds leads to.
Held == [n \in Names |-> IF Page(Page(Home).roots[n]).kind = "node" THEN Page(Page(Home).roots[n]).val ELSE 0]

\* What memory has of the indexes.
Remembered == [n \in Names |-> IF roots[n] # 0 /\ Cached(roots[n]).kind = "node" THEN Cached(roots[n]).val ELSE 0]

\* What Content is: the empty indexes of a file that is not complete, what the
\* catalog leads to, or lost.
LEMMA ContentCases ==
    ASSUME FileInv
    PROVE  /\ pages = <<>> \/ pc = "created" => Content = NoRoots
           /\ Usable => pages # <<>> /\ pc # "created" /\ Content = Held
           /\ pages # <<>> /\ pc # "created" /\ ~Usable => Content = Atomic!Lost
  <1> USE DEF FileInv
  <1>1. pages = <<>> \/ pc = "created" => Content = NoRoots
    BY DEF Content
  <1>2. ASSUME Usable
        PROVE  pages # <<>> /\ pc # "created" /\ Content = Held
    <2>1. pages # <<>>
      BY <1>2 DEF Usable, Page, None
    <2>2. pc # "created"
      BY <1>2, <2>1 DEF ControlInv, Usable
    <2>3. Page(Active).kind = "super" /\ Page(Active).catalog = Home /\ Page(Home).kind = "catalog"
      BY <1>2, ActiveHome DEF Usable
    <2> QED BY <2>1, <2>2, <2>3 DEF Content, Held
  <1>3. ASSUME pages # <<>>, pc # "created", ~Usable
        PROVE  Content = Atomic!Lost
    <2>1. CASE Page(0).kind = "super"
      <3>1. Page(Active).kind = "super" /\ Page(Active).catalog = Home /\ Page(Home).kind # "catalog"
        BY <1>3, <2>1, ActiveHome DEF Usable
      <3> QED BY <1>3, <3>1 DEF Content, Atomic!Lost
    <2>2. CASE Page(0).kind # "super"
      <3>1. Page(Active).kind # "super"
        BY <2>2 DEF SlotInv, Active
      <3>2. None.kind # "catalog"
        BY DEF None
      <3> QED BY <1>3, <3>1, <3>2 DEF Content, Atomic!Lost
    <2> QED BY <2>1, <2>2
  <1> QED BY <1>1, <1>2, <1>3

\* While the file is usable, each index holds nothing or a transaction that changed it.
LEMMA HeldTyped ==
    ASSUME FileInv, Usable
    PROVE  /\ Content = Held
           /\ Held \in [Names -> 0..Len(log)]
           /\ \A n \in Names : Held[n] # 0 => n \in log[Held[n]]
           /\ Held # Atomic!Lost
  <1> USE DEF FileInv
  <1>1. Content = Held
    BY ContentCases
  <1>2. Page(0).kind = "super" /\ Len(log) \in Nat
    BY TypeFacts DEF Usable
  <1>3. ASSUME NEW n \in Names
        PROVE  Held[n] \in 0..Len(log) /\ (Held[n] # 0 => n \in log[Held[n]])
    <2>1. CASE Page(Home).roots[n] = 0
      <3>1. Held[n] = 0
        BY <1>2, <2>1 DEF Held
      <3> QED BY <1>2, <3>1
    <2>2. CASE Page(Home).roots[n] # 0
      <3>1. CASE Valid(n, Page(Page(Home).roots[n]))
        BY <1>2, <3>1 DEF Valid, Held
      <3>2. CASE Page(Page(Home).roots[n]).kind = "torn"
        <4>1. Held[n] = 0
          BY <3>2 DEF Held
        <4> QED BY <1>2, <4>1
      <3> QED BY <2>2, <3>1, <3>2 DEF DiskInv
    <2> QED BY <2>1, <2>2
  <1>4. Held \in [Names -> 0..Len(log)]
    <2>1. Held = [n \in Names |-> Held[n]]
      BY DEF Held
    <2> QED BY <1>3, <2>1
  <1>5. Held # Atomic!Lost
    <2>1. Held[Primary] \in 0..Len(log) /\ Atomic!Lost[Primary] = -1
      BY <1>3, IndexFileAssumption DEF Atomic!Lost
    <2> QED BY <1>2, <2>1
  <1> QED BY <1>1, <1>3, <1>4, <1>5

\* Once every transaction is applied, memory has what they left.
LEMMA RememberedLatest ==
    ASSUME FileInv, Working, at = Len(log), todo = {}
    PROVE  Remembered = Atomic!After(Len(log))
  <1> USE DEF FileInv
  <1>1. at \in Nat /\ DOMAIN log = 1..Len(log) /\ Len(log) \in Nat
    BY TypeFacts
  <1>2. ASSUME NEW n \in Names
        PROVE  Remembered[n] = Atomic!LastWrite(Len(log), n)
    <2> DEFINE writes == {i \in 1..Len(log) : n \in log[i]}
    <2>1. Applied(n) = writes
      BY DEF Applied
    <2>2. ~Pending(n)
      BY <1>1 DEF Pending
    <2>3. roots[n] # 0 => Valid(n, Cached(roots[n]))
      BY <2>2 DEF MemInv
    <2>4. roots[n] # 0 => Remembered[n] = Cached(roots[n]).val /\ Cached(roots[n]).val \in writes
      BY <2>3 DEF Remembered, Valid
    <2>5. CASE writes = {}
      <3>1. roots[n] = 0
        BY <2>4, <2>5
      <3>2. Remembered[n] = 0
        BY <3>1 DEF Remembered
      <3> QED BY <2>5, <3>2 DEF Atomic!LastWrite
    <2>6. CASE writes # {}
      <3>1. PICK i \in writes : TRUE
        BY <2>6
      <3>2. roots[n] # 0 /\ \A j \in writes : Cached(roots[n]).val >= j
        BY <2>1, <3>1 DEF ValueInv
      <3> DEFINE v == Cached(roots[n]).val
      <3>3. v \in writes /\ Remembered[n] = v /\ \A j \in writes : j <= v
        BY <2>4, <3>2
      <3> HIDE DEF v
      <3>4. \A k \in writes : (\A j \in writes : j <= k) => k = v
        BY <3>3, <1>1
      <3>5. Atomic!LastWrite(Len(log), n) = CHOOSE k \in writes : \A j \in writes : j <= k
        BY <2>6 DEF Atomic!LastWrite
      <3> QED BY <3>3, <3>4, <3>5
    <2> QED BY <2>5, <2>6
  <1>3. Remembered = [n \in Names |-> Remembered[n]]
    BY DEF Remembered
  <1> QED BY <1>2, <1>3 DEF Atomic!After

\* When every transaction is applied and memory and the catalog on disk agree, the
\* file holds what the transactions left.
Settled == Usable /\ Working /\ dirty = {} /\ todo = {} /\ at = Len(log) /\ roots = Page(Home).roots

\* A settled file holds what AtomicIndex wants of it.
LEMMA SettledLatest == FileInv /\ Settled => Content = Atomic!After(Len(log))
  <1> SUFFICES ASSUME FileInv, Settled PROVE Content = Atomic!After(Len(log))
    OBVIOUS
  <1> USE DEF FileInv, Settled
  <1>1. Page(0).kind # "node"
    BY DEF Usable
  <1>2. \A n \in Names : roots[n] # 0 => Cached(roots[n]) = Page(roots[n])
    BY DEF CacheInv, Cached
  <1>3. \A n \in Names : Held[n] = Remembered[n]
    BY <1>1, <1>2 DEF Held, Remembered
  <1>4. Held = Remembered
    BY <1>3 DEF Held, Remembered
  <1> QED BY <1>4, ContentCases, RememberedLatest

-----------------------------------------------------------------------------
(* Every step of IndexFile is a step of AtomicIndex or a stuttering step. *)

\* Nothing that AtomicIndex sees changes.
Stutters == log' = log /\ Content' = Content /\ (recovering' <=> recovering)

\* A step that AtomicIndex does not see.
LEMMA StutterStep == Stutters => [Atomic!Next]_Atomic!vars
  BY DEF Stutters, Atomic!vars

\* The catalog NewDiskBPlusTree finds in a new file leads nowhere.
LEMMA EmptyHeld == FileInv /\ Usable /\ Page(Home) = Catalog(1, NoRoots, <<>>) => Held = NoRoots
  <1> SUFFICES ASSUME FileInv, Usable, Page(Home) = Catalog(1, NoRoots, <<>>) PROVE Held = NoRoots
    OBVIOUS
  <1>1. \A n \in Names : Page(Home).roots[n] = 0
    BY DEF Catalog, NoRoots
  <1>2. Page(0).kind # "node"
    BY DEF Usable
  <1> QED BY <1>1, <1>2 DEF Held, NoRoots

\* The cases of Content as implications, for the next state.
LEMMA ContentUsable == FileInv /\ Usable => Content = Held
  BY ContentCases

\* HeldTyped as an implication, for the next state.
LEMMA HeldInLog ==
    FileInv /\ Usable => /\ Content = Held
                         /\ Held \in [Names -> 0..Len(log)]
                         /\ \A n \in Names : Held[n] # 0 => n \in log[Held[n]]
  BY HeldTyped

\* A file that cannot be opened is lost.
LEMMA ContentLost == FileInv /\ pages # <<>> /\ pc # "created" /\ ~Usable => Content = Atomic!Lost
  BY ContentCases

\* Steps that write no page and do not end a process.
LEMMA QuietStep ==
    ASSUME FileInv, FileInv', pages' = pages, log' = log, recovering' <=> recovering,
           pc # "created", pc' # "created"
    PROVE  Stutters
  BY SamePages DEF Stutters, Content

\* The two writes that create the file: it is empty before and after.
LEMMA CreateStep ==
    ASSUME FileInv, FileInv', CreateCatalog \/ CreateSuperblock
    PROVE  Stutters
  <1>1. CASE CreateCatalog
    <2>1. Content = NoRoots /\ Content' = NoRoots
      BY <1>1 DEF CreateCatalog, Content
    <2> QED BY <1>1, <2>1 DEF Stutters, CreateCatalog
  <1>2. CASE CreateSuperblock
    <2>1. Content = NoRoots /\ pc' = "open" /\ pages' # <<>>
      BY <1>2, PageWith DEF CreateSuperblock, Content
    <2>2. Usable' /\ Home' = 2 /\ Page(2)' = Catalog(1, NoRoots, <<>>)
      <3>1. Page(1)'.kind # "super"
        <4>1. Page(0).kind # "super"
          BY <1>2 DEF FileInv, ControlInv, CreateSuperblock
        <4>2. Page(1)' = Page(1)
          <5>1. pages' = With(pages, 0, Superblock(1, 2, 3))
            BY <1>2 DEF CreateSuperblock
          <5>2. \A q : Page(q)' = IF q = 0 THEN Superblock(1, 2, 3) ELSE Page(q)
            BY <5>1, PageWith
          <5> QED BY <5>2
        <4> QED BY <4>1, <4>2 DEF FileInv, SlotInv
      <3>2. Home' = 2
        BY <3>1 DEF Home
      <3>3. Page(2)' = Catalog(1, NoRoots, <<>>)
        BY <2>1 DEF FileInv, SlotInv
      <3>4. Page(0)' = Superblock(1, 2, 3)
        BY <1>2, PageWith DEF CreateSuperblock
      <3>5. Page(Home)' = Catalog(1, NoRoots, <<>>)
        BY <3>2, <3>3
      <3> QED BY <3>2, <3>3, <3>4, <3>5 DEF Usable, Superblock, Catalog
    <2>3. Content' = NoRoots
      <3>1. Page(Home)' = Catalog(1, NoRoots, <<>>)
        BY <2>2
      <3>2. Held' = NoRoots
        <4>1. (FileInv /\ Usable /\ Page(Home) = Catalog(1, NoRoots, <<>>) => Held = NoRoots)'
          BY EmptyHeld, PTL
        <4> QED BY <2>2, <3>1, <4>1
      <3>3. Content' = Held'
        <4>1. (FileInv /\ Usable => Content = Held)'
          BY ContentUsable, PTL
        <4> QED BY <2>2, <4>1
      <3> QED BY <3>2, <3>3
    <2> QED BY <1>2, <2>1, <2>3 DEF Stutters, CreateSuperblock
  <1> QED BY <1>1, <1>2

\* Begin: the transaction is in the WAL, the file still as the others left it.
LEMMA BeginStep ==
    ASSUME FileInv, FileInv', NEW S \in SUBSET Names, Begin(S)
    PROVE  Atomic!Next
  <1> USE DEF FileInv
  <1>1. ~recovering /\ ~recovering' /\ Settled
    <2>1. ~recovering /\ ~recovering' /\ Usable /\ Working /\ dirty = {} /\ todo = {} /\ at = Len(log)
      BY DEF Begin, ControlInv, Working
    <2> QED BY <2>1 DEF Settled, CatalogInv, Begin
  <1>2. Content = Atomic!After(Len(log))
    BY <1>1, SettledLatest
  <1>3. Content' = Content
    BY SamePages DEF Begin, Content
  <1>4. Atomic!Log(S)
    BY <1>1, <1>2, <1>3 DEF Begin, Atomic!Log
  <1> QED BY <1>4 DEF Atomic!Next

\* Replay: the next transaction, or the end of recovery.
LEMMA ReplayStep ==
    ASSUME FileInv, FileInv', Replay
    PROVE  [Atomic!Next]_Atomic!vars
  <1> USE DEF FileInv
  <1>1. pages' = pages /\ log' = log /\ pc = "open" /\ pc' # "created"
    BY DEF Replay
  <1>2. CASE MoreToReplay
    <2>1. recovering' <=> recovering
      BY <1>2 DEF Replay
    <2> QED BY <1>1, <2>1, QuietStep, StutterStep
  <1>3. CASE ~MoreToReplay
    <2>1. Settled
      <3>1. at = Len(log)
        BY <1>3, TypeFacts DEF MoreToReplay
      <3>2. Usable /\ Working /\ dirty = {} /\ todo = {} /\ roots = Page(Home).roots
        BY <1>1 DEF ControlInv, CatalogInv, Working
      <3> QED BY <3>1, <3>2 DEF Settled
    <2>2. Content' = Content
      BY <1>1, SamePages DEF Content
    <2>3. Content = Atomic!After(Len(log))
      BY <2>1, SettledLatest
    <2>4. ~recovering'
      BY <1>3 DEF Replay
    <2>5. Atomic!Serve
      BY <1>1, <2>2, <2>3, <2>4 DEF Atomic!Serve
    <2> QED BY <2>5 DEF Atomic!Next
  <1> QED BY <1>2, <1>3

\* A write during recovery: some transaction's value for each index, or none.
LEMMA RecoveringStep ==
    ASSUME FileInv, FileInv', Usable, Usable', log' = log, recovering, recovering'
    PROVE  Atomic!Next
  <1>1. Content = Held /\ Held # Atomic!Lost
    BY HeldTyped
  <1>2. /\ Content' = Held'
        /\ Held' \in [Names -> 0..Len(log')]
        /\ \A n \in Names : Held'[n] # 0 => n \in log'[Held'[n]]
    <2>1. (FileInv /\ Usable => /\ Content = Held
                                /\ Held \in [Names -> 0..Len(log)]
                                /\ \A n \in Names : Held[n] # 0 => n \in log[Held[n]])'
      BY HeldInLog, PTL
    <2> QED BY <2>1
  <1>3. Atomic!Replay
    BY <1>1, <1>2 DEF Atomic!Replay
  <1> QED BY <1>3 DEF Atomic!Next

\* The last write of a transaction makes it visible.
LEMMA CommitStep ==
    ASSUME FileInv', Settled', log' = log, ~recovering, ~recovering'
    PROVE  Atomic!Next
  <1>1. (FileInv /\ Settled => Content = Atomic!After(Len(log)))'
    BY SettledLatest, PTL
  <1>2. Atomic!After(Len(log))' = Atomic!After(Len(log))
    BY DEF Atomic!After, Atomic!LastWrite
  <1>3. Content' = Atomic!After(Len(log))
    BY <1>1, <1>2
  <1>4. Atomic!Commit
    BY <1>3 DEF Atomic!Commit
  <1> QED BY <1>4 DEF Atomic!Next

\* A node that is written, or torn, while no WAL is replayed is not in the file's
\* indexes yet.
LEMMA FreshNode ==
    ASSUME FileInv, FileInv', pc = "write", ~recovering, NEW p \in dirty, NEW c, c.kind \in {"node", "torn"},
           pages' = With(pages, p, c), latest' = latest
    PROVE  Content' = Content
  <1>1. /\ \A q : Page(q)' = IF q = p THEN c ELSE Page(q)
        /\ Page(Home)' = Page(Home) /\ Usable /\ Usable' /\ p # 0
        /\ \A m \in Names : Page(Home).roots[m] = p => roots[m] = p
    BY NodeWritten
  <1>2. \A m \in Names : Page(Home).roots[m] # p
    BY <1>1 DEF FileInv, FreshInv
  <1>3. \A m \in Names : Page(Page(Home).roots[m])' = Page(Page(Home).roots[m])
    BY <1>1, <1>2
  <1>4. Held' = Held
    BY <1>3 DEF Held
  <1>5. (FileInv /\ Usable => Content = Held)'
    BY ContentUsable, PTL
  <1> QED BY <1>1, <1>4, <1>5, ContentUsable

\* A node written by a transaction is invisible, one written by replay may not be.
LEMMA WriteNodeStep ==
    ASSUME FileInv, FileInv', NEW p \in dirty, WriteNode(p)
    PROVE  [Atomic!Next]_Atomic!vars
  <1>1. /\ pc = "write" /\ pages' = With(pages, p, cache[p]) /\ latest' = latest /\ log' = log
        /\ cache[p].kind \in {"node", "torn"}
    BY DEF WriteNode, FileInv, TypeOK
  <1>2. recovering' <=> recovering
    BY DEF WriteNode
  <1>3. CASE ~recovering
    <2>1. Content' = Content
      BY <1>1, <1>3, FreshNode
    <2> QED BY <1>1, <1>2, <2>1, StutterStep DEF Stutters
  <1>4. CASE recovering
    <2>1. Usable /\ Usable'
      BY <1>1, NodeWritten
    <2> QED BY <1>1, <1>2, <1>4, <2>1, RecoveringStep
  <1> QED BY <1>3, <1>4

\* A torn node: the transaction never happened, or replay loses a value for now.
LEMMA TornNodeStep ==
    ASSUME FileInv, FileInv', NEW p \in dirty, TornNode(p)
    PROVE  Atomic!Next
  <1>1. /\ pc = "write" /\ pages' = With(pages, p, Torn) /\ latest' = latest /\ log' = log
        /\ Torn.kind \in {"node", "torn"}
    BY DEF TornNode, Down, Torn
  <1>2. recovering'
    BY DEF TornNode, Down
  <1>3. CASE ~recovering
    <2>1. Content' = Content
      BY <1>1, <1>3, FreshNode
    <2>2. Atomic!Crash
      BY <1>1, <1>2, <2>1 DEF Atomic!Crash
    <2> QED BY <2>2 DEF Atomic!Next
  <1>4. CASE recovering
    <2>1. Usable /\ Usable'
      BY <1>1, NodeWritten
    <2> QED BY <1>1, <1>2, <1>4, <2>1, RecoveringStep
  <1> QED BY <1>3, <1>4

\* The new catalog replaces the old one on its page, or waits for its superblock.
LEMMA WriteCatalogStep ==
    ASSUME FileInv, FileInv', WriteCatalog
    PROVE  [Atomic!Next]_Atomic!vars
  <1>1. /\ pc = "write" /\ pc' = "catalog" /\ dirty = {} /\ dirty' = {} /\ log' = log /\ catalog' = CatalogPage
        /\ at' = at /\ todo' = todo
    BY DEF WriteCatalog
  <1>2. recovering' <=> recovering
    BY DEF WriteCatalog
  <1>3. Usable /\ Usable' /\ catalog = Home /\ todo = {} /\ (~recovering => at = Len(log))
    BY <1>1 DEF FileInv, ControlInv, CatalogInv
  <1>4. CASE recovering
    BY <1>1, <1>2, <1>3, <1>4, RecoveringStep
  <1>5. CASE ~recovering /\ catalog >= 3
    <2>1. CatalogPage = catalog /\ CatalogPage \in Nat /\ CatalogPage >= 3
      BY <1>1, <1>5, CatalogPlaced
    <2>2. Home' = Home
      <3>1. PICK c : pages' = With(pages, CatalogPage, c)
        BY DEF WriteCatalog
      <3>2. Page(1)' = Page(1)
        <4>1. \A q : Page(q)' = IF q = CatalogPage THEN c ELSE Page(q)
          BY <3>1, PageWith
        <4> QED BY <2>1, <4>1
      <3> QED BY <3>2 DEF Home
    <2>3. Settled'
      BY <1>1, <1>2, <1>3, <1>5, <2>1, <2>2 DEF Settled, Working, FileInv, CatalogInv
    <2> QED BY <1>1, <1>2, <1>5, <2>3, CommitStep
  <1>6. CASE ~recovering /\ ~(catalog >= 3)
    <2>1. Home = 2 /\ Page(1).kind # "super" /\ Page(2) = Catalog(1, NoRoots, <<>>)
      BY <1>1, <1>3, <1>6 DEF Home, FileInv, SlotInv, ControlInv
    <2>2. CatalogPage \in Nat /\ CatalogPage >= 3
      BY <1>1, CatalogPlaced
    <2>3. Home' = 2 /\ Page(Home)' = Catalog(1, NoRoots, <<>>)
      <3>1. PICK c : pages' = With(pages, CatalogPage, c)
        BY DEF WriteCatalog
      <3>2. Page(1)' = Page(1) /\ Page(2)' = Page(2)
        <4>1. \A q : Page(q)' = IF q = CatalogPage THEN c ELSE Page(q)
          BY <3>1, PageWith
        <4> QED BY <2>2, <4>1
      <3> QED BY <2>1, <3>2 DEF Home
    <2>4. (FileInv /\ Usable => Content = Held)' /\ (FileInv /\ Usable /\ Page(Home) = Catalog(1, NoRoots, <<>>) => Held = NoRoots)'
      BY ContentUsable, EmptyHeld, PTL
    <2>5. Content = NoRoots /\ Content' = NoRoots
      BY <1>3, <2>1, <2>3, <2>4, ContentUsable, EmptyHeld
    <2> QED BY <1>1, <1>2, <2>5, StutterStep DEF Stutters
  <1> QED BY <1>4, <1>5, <1>6

\* The superblock commits the transaction, or this step of the replay.
LEMMA WriteSuperblockStep ==
    ASSUME FileInv, FileInv', WriteSuperblock
    PROVE  Atomic!Next
  <1>1. /\ pc = "catalog" /\ log' = log /\ at' = at /\ todo' = todo
        /\ pc' = IF recovering THEN "open" ELSE "idle"
        /\ pages # <<>> /\ pages' # <<>>
    BY PageWith DEF WriteSuperblock, FileInv, ControlInv
  <1>2. recovering' <=> recovering
    BY DEF WriteSuperblock
  <1>3. Usable /\ Usable'
    <2>1. pc' \in {"open", "idle"}
      BY <1>1
    <2> QED BY <1>1, <2>1 DEF FileInv, ControlInv
  <1>4. CASE recovering
    BY <1>1, <1>2, <1>3, <1>4, RecoveringStep
  <1>5. CASE ~recovering
    <2>1. pc' = "idle"
      BY <1>1, <1>5
    <2>2. at' = Len(log') /\ todo' = {} /\ dirty' = {} /\ roots' = Page(Home)'.roots
      BY <1>2, <1>5, <2>1 DEF FileInv, ControlInv, CatalogInv
    <2>3. Settled'
      BY <1>3, <2>1, <2>2 DEF Settled, Working
    <2> QED BY <1>1, <1>2, <1>5, <2>3, CommitStep
  <1> QED BY <1>4, <1>5

\* A crash between two writes, or in the middle of the file's creation.
LEMMA CrashStep ==
    ASSUME FileInv, FileInv', Crash
    PROVE  Atomic!Next
  <1>1. pages' = pages /\ log' = log /\ pc' = "down" /\ pc \notin {"down", "unopenable"}
    BY DEF Crash, Down
  <1>2. recovering'
    BY DEF Crash, Down
  <1>3. CASE pc = "created"
    <2>1. pages # <<>> /\ ~Usable
      BY <1>1, <1>3 DEF FileInv, ControlInv, Usable
    <2>2. pages' # <<>> /\ pc' # "created" /\ ~Usable'
      BY <1>1, <2>1, SamePages
    <2>3. (FileInv /\ pages # <<>> /\ pc # "created" /\ ~Usable => Content = Atomic!Lost)'
      BY ContentLost, PTL
    <2>4. Content' = Atomic!Lost
      BY <2>2, <2>3 DEF Atomic!Lost
    <2>5. Atomic!Destroy
      BY <1>1, <1>2, <2>4 DEF Atomic!Destroy
    <2> QED BY <2>5 DEF Atomic!Next
  <1>4. CASE pc # "created"
    <2>1. Content' = Content
      BY <1>1, <1>4, SamePages DEF Content
    <2>2. Atomic!Crash
      BY <1>1, <1>2, <2>1 DEF Atomic!Crash
    <2> QED BY <2>2 DEF Atomic!Next
  <1> QED BY <1>3, <1>4

\* A torn catalog destroys the file, unless the superblock leads to another one.
LEMMA TornCatalogStep ==
    ASSUME FileInv, FileInv', TornCatalog
    PROVE  Atomic!Next
  <1>1. pages' = With(pages, CatalogPage, Torn) /\ log' = log /\ pc' = "down" /\ pc = "write"
    BY DEF TornCatalog, Down
  <1>2. recovering'
    BY DEF TornCatalog, Down
  <1>3. CatalogPage \in Nat /\ CatalogPage >= 3 /\ (catalog >= 3 => CatalogPage = catalog) /\ catalog = Home /\ Usable
    BY <1>1, CatalogPlaced DEF FileInv, CatalogInv, ControlInv
  <1>4. (\A q : Page(q)' = IF q = CatalogPage THEN Torn ELSE Page(q)) /\ pages' # <<>>
    BY <1>1, PageWith
  <1>5. Page(0)' = Page(0) /\ Page(1)' = Page(1) /\ Page(2)' = Page(2) /\ Home' = Home
    BY <1>3, <1>4 DEF Home
  <1>6. CASE catalog >= 3
    <2>1. ~Usable'
      <3>1. Page(Home)' = Torn
        BY <1>3, <1>4, <1>5, <1>6
      <3> QED BY <3>1 DEF Usable, Torn
    <2>2. (FileInv /\ pages # <<>> /\ pc # "created" /\ ~Usable => Content = Atomic!Lost)'
      BY ContentLost, PTL
    <2>3. Content' = Atomic!Lost
      BY <1>1, <1>4, <2>1, <2>2 DEF Atomic!Lost
    <2>4. Atomic!Destroy
      BY <1>1, <1>2, <2>3 DEF Atomic!Destroy
    <2> QED BY <2>4 DEF Atomic!Next
  <1>7. CASE ~(catalog >= 3)
    <2>1. Home = 2 /\ Page(2) = Catalog(1, NoRoots, <<>>)
      BY <1>1, <1>3, <1>7 DEF Home, FileInv, SlotInv, ControlInv
    <2>2. Page(Home)' = Catalog(1, NoRoots, <<>>) /\ Usable'
      <3>1. Page(Home)' = Catalog(1, NoRoots, <<>>)
        BY <1>5, <2>1
      <3> QED BY <1>3, <1>5, <3>1 DEF Usable, Catalog
    <2>3. (FileInv /\ Usable => Content = Held)' /\ (FileInv /\ Usable /\ Page(Home) = Catalog(1, NoRoots, <<>>) => Held = NoRoots)'
      BY ContentUsable, EmptyHeld, PTL
    <2>4. Content = NoRoots /\ Content' = NoRoots
      BY <1>3, <2>1, <2>2, <2>3, ContentUsable, EmptyHeld
    <2>5. Atomic!Crash
      BY <1>1, <1>2, <2>4 DEF Atomic!Crash
    <2> QED BY <2>5 DEF Atomic!Next
  <1> QED BY <1>6, <1>7

\* Every step is a step of AtomicIndex or invisible to it.
LEMMA AtomicStep == FileInv /\ FileInv' /\ [Next]_vars => [Atomic!Next]_Atomic!vars
  <1> SUFFICES ASSUME FileInv, FileInv', [Next]_vars PROVE [Atomic!Next]_Atomic!vars
    OBVIOUS
  <1>1. CASE CreateCatalog \/ CreateSuperblock
    BY <1>1, CreateStep, StutterStep
  <1>2. CASE Open \/ OpenFails
    <2>1. pages' = pages /\ log' = log /\ (recovering' <=> recovering) /\ pc # "created" /\ pc' # "created"
      BY <1>2 DEF Open, OpenFails
    <2> QED BY <2>1, QuietStep, StutterStep
  <1>3. ASSUME NEW S \in (SUBSET Names) \ {{}}, Begin(S) PROVE [Atomic!Next]_Atomic!vars
    BY <1>3, BeginStep
  <1>4. CASE Replay
    BY <1>4, ReplayStep
  <1>5. ASSUME NEW n \in Names, Insert(n) \/ InsertFails(n) PROVE [Atomic!Next]_Atomic!vars
    <2>1. pages' = pages /\ log' = log /\ (recovering' <=> recovering) /\ pc # "created" /\ pc' # "created"
      BY <1>5 DEF Insert, InsertFails
    <2> QED BY <2>1, QuietStep, StutterStep
  <1>6. ASSUME NEW p \in dirty, WriteNode(p) PROVE [Atomic!Next]_Atomic!vars
    BY <1>6, WriteNodeStep
  <1>7. ASSUME NEW p \in dirty, TornNode(p) PROVE [Atomic!Next]_Atomic!vars
    BY <1>7, TornNodeStep
  <1>8. CASE WriteCatalog
    BY <1>8, WriteCatalogStep
  <1>9. CASE WriteSuperblock
    BY <1>9, WriteSuperblockStep
  <1>10. CASE Crash
    BY <1>10, CrashStep
  <1>11. CASE TornCatalog
    BY <1>11, TornCatalogStep
  <1>12. CASE UNCHANGED vars
    <2>1. pages' = pages /\ log' = log /\ pc' = pc
      BY <1>12 DEF vars
    <2>2. (recovering' <=> recovering) /\ Content' = Content
      BY <1>12, <2>1, SamePages DEF vars, Content
    <2> QED BY <2>1, <2>2, StutterStep DEF Stutters
  <1> QED BY <1>1, <1>2, <1>3, <1>4, <1>5, <1>6, <1>7, <1>8, <1>9, <1>10, <1>11, <1>12 DEF Next

\* The index file changes as AtomicIndex promises.
THEOREM IndexFileIsAtomic == Spec => ImplementsAtomic
  <1>1. Init => Atomic!Init
    <2> SUFFICES ASSUME Init PROVE Atomic!Init
      OBVIOUS
    <2>1. Content = NoRoots
      BY DEF Init, Content
    <2>2. Atomic!After(0) = NoRoots
      BY DEF Atomic!After, Atomic!LastWrite, NoRoots
    <2> QED BY <2>1, <2>2 DEF Init, Atomic!Init
  <1> QED BY <1>1, AtomicStep, FileInvariant, PTL DEF Spec, ImplementsAtomic, Atomic!Spec
=============================================================================

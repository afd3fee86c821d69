------------------------------- MODULE BPlusTree ------------------------------
(***************************************************************************)
(* The copy-on-write B+ tree of one named index: insertion with splits,    *)
(* deletion with merges, lookup, range scan, and the part of a commit that *)
(* recycles pages.  A tree is a record                                     *)
(*   nodes    page -> the node last put there (nodeCache over the file)    *)
(*   root     root page of the index, 0 before its first entry             *)
(*   free, orphans, next, catalog   freeList, orphanedList, nextPageID,    *)
(*            catalogRoot                                                  *)
(*   gen      generation of the running transaction                        *)
(*   failed   an index out of range has stopped an operation, or a commit  *)
(*            met a node that does not fit on its page                     *)
(* A node of an older generation is copied to a new page before it is      *)
(* changed; a node of the current generation is changed in place.          *)
(***************************************************************************)
EXTENDS KeyOrder, Sequences, SequencesExt

CONSTANTS
    Keys,           \* the composite keys that occur
    Load,           \* keys inserted by the first transaction, in this order
    LoadSizes,      \* how many of them, a tree of each size
    Size(_),        \* the room a key takes on a page, more for a longer key
    LeafCapacity,   \* bound: room for keys on a leaf page
    NodeCapacity,   \* bound: room for keys on an internal page
    MergeLimit,     \* nodes are merged up to this many keys, 20 in the code
    MaxGeneration,  \* bound: transactions
    MaxOperations   \* bound: operations after the first transaction

ASSUME TreeAssumption ==
    /\ Keys \subseteq CompositeKeys
    /\ Load \in Seq(Keys)
    /\ \A k \in Keys : Size(k) \in Nat \ {0}
    \* decoded keys of different types are not compared with each other
    /\ \A k, l \in Keys :
          {HighByte(k), HighByte(l)} \subseteq 3..7 => HighByte(k) = HighByte(l)

VARIABLES
    tree,
    map,        \* key -> generation of its last insertion, for the keys present
    ops,        \* operations after the first transaction
    moved,      \* a leaf that has a left neighbour was copied to another page
    misfreed,   \* a delete found nothing and still gave pages away
    touched     \* the keys of all operations

vars == <<tree, map, ops, moved, misfreed, touched>>

Leaf(gen, keys, ptrs, right) ==
    [leaf |-> TRUE, gen |-> gen, keys |-> keys, ptrs |-> ptrs, kids |-> <<>>, right |-> right]
Internal(gen, keys, kids) ==
    [leaf |-> FALSE, gen |-> gen, keys |-> keys, ptrs |-> <<>>, kids |-> kids, right |-> 0]

\* Serialize succeeds: the cells of the node fit on its page.
Fits(node) ==
    FoldLeft(LAMBDA sum, k : sum + Size(k), 0, node.keys)
        <= IF node.leaf THEN LeafCapacity ELSE NodeCapacity

\* sort.Search: the first key that is not smaller, and the first that is greater.
SearchGE(keys, k) == 1 + Cardinality({i \in DOMAIN keys : compareByteKeys(keys[i], k) < 0})
SearchGT(keys, k) == 1 + Cardinality({i \in DOMAIN keys : compareByteKeys(keys[i], k) <= 0})

-----------------------------------------------------------------------------
(* Pages. *)

\* Mutant: pages are taken from the front of the free list and stay there.
FrontPage(t) == IF t.free # <<>> THEN Head(t.free) ELSE t.next

NewPage(t) == IF t.free # <<>> THEN Last(t.free) ELSE t.next

\* allocatePageID and registerNewNode.
Register(t, node) ==
    LET page == NewPage(t)
    IN  [t EXCEPT !.nodes = (page :> node) @@ @,
                  !.free = IF @ # <<>> THEN Front(@) ELSE @,
                  !.next = IF t.free # <<>> THEN @ ELSE @ + 1]

markOrphaned(t, page) == IF page < 3 THEN t ELSE [t EXCEPT !.orphans = Append(@, page)]

Put(t, page, node) == [t EXCEPT !.nodes[page] = node]

\* The node to change: the page itself, or a copy of it, which orphans it.
Writable(t, page) ==
    IF t.nodes[page].gen = t.gen
    THEN [t |-> t, page |-> page]
    ELSE [t |-> markOrphaned(Register(t, [t.nodes[page] EXCEPT !.gen = t.gen]), page),
          page |-> NewPage(t)]

\* The nodes of the transaction, all of which its commit writes.
DirtyNodes(t) == {p \in DOMAIN t.nodes : t.nodes[p].gen = t.gen}

\* The commit: old catalog and orphans become free, the nodes are written, the new
\* catalog takes the last free page.  It stops at a node that does not fit.
WriteNewState(t) ==
    LET orphaned == markOrphaned(t, t.catalog)
        freed == [orphaned EXCEPT !.free = @ \o orphaned.orphans, !.orphans = <<>>]
    IN  IF \E p \in DirtyNodes(t) : ~Fits(t.nodes[p]) THEN [freed EXCEPT !.failed = TRUE]
        ELSE [freed EXCEPT !.catalog = NewPage(freed),
                           !.free = IF @ # <<>> THEN Front(@) ELSE @,
                           !.next = IF freed.free # <<>> THEN @ ELSE @ + 1,
                           !.gen = @ + 1]

-----------------------------------------------------------------------------
(* Insertion. *)

Unsplit(t, page) == [t |-> t, page |-> page, split |-> FALSE]
Split(t, page, separator, right) ==
    [t |-> t, page |-> page, split |-> TRUE, separator |-> separator, right |-> right]

SplitLeaf(t, page, node) ==
    LET mid == Len(node.keys) \div 2
        right == Leaf(t.gen, SubSeq(node.keys, mid + 1, Len(node.keys)),
                      SubSeq(node.ptrs, mid + 1, Len(node.ptrs)), node.right)
        left == Leaf(node.gen, SubSeq(node.keys, 1, mid), SubSeq(node.ptrs, 1, mid), NewPage(t))
    IN  Split(Put(Register(t, right), page, left), page, right.keys[1], NewPage(t))

\* The middle key moves up.
SplitInternal(t, page, node) ==
    LET mid == Len(node.keys) \div 2 + 1
        right == Internal(t.gen, SubSeq(node.keys, mid + 1, Len(node.keys)),
                          SubSeq(node.kids, mid + 1, Len(node.kids)))
        left == Internal(node.gen, SubSeq(node.keys, 1, mid - 1), SubSeq(node.kids, 1, mid))
    IN  Split(Put(Register(t, right), page, left), page, node.keys[mid], NewPage(t))

WithEntry(node, k, ptr) ==
    LET i == SearchGE(node.keys, k)
    IN  IF i <= Len(node.keys) /\ node.keys[i] = k
        THEN [node EXCEPT !.ptrs[i] = ptr]
        ELSE [node EXCEPT !.keys = InsertAt(@, i, k), !.ptrs = InsertAt(@, i, ptr)]

\* Mutant: the separator goes behind the key it should precede.
WithChildMisplaced(node, i, r) ==
    LET kids == [node.kids EXCEPT ![i] = r.page]
    IN  IF r.split
        THEN [node EXCEPT !.keys = Append(@, r.separator), !.kids = InsertAt(kids, i + 1, r.right)]
        ELSE [node EXCEPT !.kids = kids]

WithChild(node, i, r) ==
    LET kids == [node.kids EXCEPT ![i] = r.page]
    IN  IF r.split
        THEN [node EXCEPT !.keys = InsertAt(@, i, r.separator), !.kids = InsertAt(kids, i + 1, r.right)]
        ELSE [node EXCEPT !.kids = kids]

RECURSIVE insertRecursive(_, _, _, _)
insertRecursive(t, page, k, ptr) ==
    LET w == Writable(t, page)
        node == w.t.nodes[w.page]
        i == SearchGT(node.keys, k)
        below == insertRecursive(w.t, node.kids[i], k, ptr)
        t2 == IF node.leaf THEN w.t ELSE below.t
        new == IF node.leaf THEN WithEntry(node, k, ptr) ELSE WithChild(node, i, below)
    IN  IF Fits(new) THEN Unsplit(Put(t2, w.page, new), w.page)
        ELSE IF node.leaf THEN SplitLeaf(t2, w.page, new)
        ELSE SplitInternal(t2, w.page, new)

insertNamed(t, k, ptr) ==
    LET rooted == IF t.root # 0 THEN t
                  ELSE [Register(t, Leaf(t.gen, <<>>, <<>>, 0)) EXCEPT !.root = NewPage(t)]
        r == insertRecursive(rooted, rooted.root, k, ptr)
    IN  IF r.split
        THEN [Register(r.t, Internal(t.gen, <<r.separator>>, <<r.page, r.right>>))
                EXCEPT !.root = NewPage(r.t)]
        ELSE [r.t EXCEPT !.root = r.page]

-----------------------------------------------------------------------------
(* Deletion. *)

\* The parent once its children i and i + 1 are merged into the left one, or copied.
MergedParent(node, i, left) ==
    [node EXCEPT !.keys = RemoveAt(@, i), !.kids = RemoveAt([@ EXCEPT ![i] = left], i + 1)]
RelinkedParent(node, i, left, right) == [node EXCEPT !.kids[i] = left, !.kids[i + 1] = right]

\* Mutant: the left leaf keeps pointing at the leaf merged into it.
MergeLeavesUnlinked(t, parent, i, l, r) ==
    LET left == t.nodes[l]
        right == t.nodes[r]
        merged == Leaf(left.gen, left.keys \o right.keys, left.ptrs \o right.ptrs, left.right)
    IN  markOrphaned(Put(Put(t, l, merged), parent, MergedParent(t.nodes[parent], i, l)), r)

MergeLeaves(t, parent, i, l, r) ==
    LET left == t.nodes[l]
        right == t.nodes[r]
        merged == Leaf(left.gen, left.keys \o right.keys, left.ptrs \o right.ptrs, right.right)
    IN  markOrphaned(Put(Put(t, l, merged), parent, MergedParent(t.nodes[parent], i, l)), r)

\* The first entry of the right leaf moves to the left one.
RedistributeLeaves(t, parent, i, l, r) ==
    LET left == t.nodes[l]
        right == t.nodes[r]
        shifted == Put(Put(t, l, [left EXCEPT !.keys = Append(@, right.keys[1]),
                                              !.ptrs = Append(@, right.ptrs[1])]),
                       r, [right EXCEPT !.keys = Tail(@), !.ptrs = Tail(@)])
        up == RelinkedParent(t.nodes[parent], i, l, r)
    IN  IF Len(right.keys) < 2 THEN [t EXCEPT !.failed = TRUE]
        ELSE Put(shifted, parent, [up EXCEPT !.keys[i] = right.keys[2]])

MergeInternal(t, parent, i, l, r) ==
    LET left == t.nodes[l]
        right == t.nodes[r]
        separator == t.nodes[parent].keys[i]
        merged == Internal(left.gen, Append(left.keys, separator) \o right.keys,
                           left.kids \o right.kids)
    IN  markOrphaned(Put(Put(t, l, merged), parent, MergedParent(t.nodes[parent], i, l)), r)

RedistributeInternal(t, parent, i, l, r) ==
    LET left == t.nodes[l]
        right == t.nodes[r]
        up == RelinkedParent(t.nodes[parent], i, l, r)
        shifted == Put(Put(t, l, [left EXCEPT !.keys = Append(@, up.keys[i]),
                                              !.kids = Append(@, right.kids[1])]),
                       r, [right EXCEPT !.keys = Tail(@), !.kids = Tail(@)])
    IN  IF right.keys = <<>> THEN [t EXCEPT !.failed = TRUE]
        ELSE Put(shifted, parent, [up EXCEPT !.keys[i] = right.keys[1]])

\* Mutants: nodes are merged one key late; nodes are merged up to more keys than a
\* page holds of the short ones.
MergesLate(keys) == keys < MergeLimit
MergesTooMuch(keys) == keys <= MergeLimit + 2

\* Nodes are merged by their number of keys, whatever the size of the keys.
Merges(keys) == keys <= MergeLimit

mergeOrRedistribute(t, parent, i) ==
    LET kids == t.nodes[parent].kids
        l == Writable(t, kids[i])
        r == Writable(l.t, kids[i + 1])
        left == r.t.nodes[l.page]
        right == r.t.nodes[r.page]
        sum == Len(left.keys) + Len(right.keys)
    IN  IF left.leaf
        THEN IF Merges(sum) THEN MergeLeaves(r.t, parent, i, l.page, r.page)
                                  ELSE RedistributeLeaves(r.t, parent, i, l.page, r.page)
        ELSE IF Merges(sum + 1) THEN MergeInternal(r.t, parent, i, l.page, r.page)
                                      ELSE RedistributeInternal(r.t, parent, i, l.page, r.page)

\* With the left neighbour, or the right one of a first child.
handleUnderflow(t, parent, i) ==
    LET kids == t.nodes[parent].kids
    IN  IF Len(t.nodes[kids[i]].keys) >= 2 THEN t
        ELSE IF i > 1 THEN mergeOrRedistribute(t, parent, i - 1)
        ELSE IF i < Len(kids) THEN mergeOrRedistribute(t, parent, i)
        ELSE t

RECURSIVE deleteRecursive(_, _, _)
deleteRecursive(t, page, k) ==
    LET w == Writable(t, page)
        node == w.t.nodes[w.page]
        at == SearchGE(node.keys, k)
        i == SearchGT(node.keys, k)
        below == deleteRecursive(w.t, node.kids[i], k)
        NotFound(t2) == [t |-> t2, page |-> page, found |-> FALSE]
        Found(t2) == [t |-> t2, page |-> w.page, found |-> TRUE]
    IN  IF node.leaf
        THEN IF at <= Len(node.keys) /\ node.keys[at] = k
             THEN Found(Put(w.t, w.page, [node EXCEPT !.keys = RemoveAt(@, at),
                                                      !.ptrs = RemoveAt(@, at)]))
             ELSE NotFound(w.t)
        ELSE IF below.found
             THEN LET new == Put(below.t, w.page, [node EXCEPT !.kids[i] = below.page])
                  IN  Found(IF new.failed THEN new ELSE handleUnderflow(new, w.page, i))
             ELSE NotFound(below.t)

\* An internal root without keys gives way to its only child.
deleteNamed(t, k) ==
    IF t.root = 0 THEN t
    ELSE LET r == deleteRecursive(t, t.root, k)
             node == r.t.nodes[r.page]
         IN  IF ~r.found \/ r.t.failed THEN r.t
             ELSE IF ~node.leaf /\ node.keys = <<>>
             THEN [markOrphaned(r.t, r.page) EXCEPT !.root = node.kids[1]]
             ELSE [r.t EXCEPT !.root = r.page]

-----------------------------------------------------------------------------
(* Reading. *)

RECURSIVE LeafFor(_, _, _)
LeafFor(t, page, k) ==
    IF t.nodes[page].leaf THEN page
    ELSE LeafFor(t, t.nodes[page].kids[SearchGT(t.nodes[page].keys, k)], k)

\* The generation a key was inserted in, 0 when it is not found.
findNamed(t, k) ==
    IF t.root = 0 THEN 0
    ELSE LET node == t.nodes[LeafFor(t, t.root, k)]
             i == SearchGE(node.keys, k)
         IN  IF i <= Len(node.keys) /\ node.keys[i] = k THEN node.ptrs[i] ELSE 0

\* The pages a scan visits from a leaf, along RightSibling.  A scan ends at an
\* internal page, where it has no pointer to hand out, and never at a page it
\* has visited before.
RECURSIVE Siblings(_, _, _)
Siblings(t, page, visited) ==
    IF page = 0 \/ ~t.nodes[page].leaf \/ page \in {visited[i] : i \in DOMAIN visited}
    THEN visited
    ELSE Siblings(t, t.nodes[page].right, Append(visited, page))

\* The entries of the leaves a scan visits.
EntriesFrom(t, page) ==
    LET pages == Siblings(t, page, <<>>)
    IN  FlattenSeq([i \in DOMAIN pages |->
            [j \in DOMAIN t.nodes[pages[i]].keys |->
                <<t.nodes[pages[i]].keys[j], t.nodes[pages[i]].ptrs[j]>>]])

RECURSIVE FirstLeaf(_, _)
FirstLeaf(t, page) ==
    IF t.nodes[page].leaf THEN page ELSE FirstLeaf(t, t.nodes[page].kids[1])

\* RangeNamed without bounds: every full scan, snapshot, compaction and export.
scan(t) == IF t.root = 0 THEN <<>> ELSE EntriesFrom(t, FirstLeaf(t, t.root))

\* RangeNamed from a start key.
rangeNamed(t, start) ==
    IF t.root = 0 THEN <<>>
    ELSE SelectSeq(EntriesFrom(t, LeafFor(t, t.root, start)),
                   LAMBDA e : compareByteKeys(e[1], start) >= 0)

SameValue(k, l) == k.len = l.len /\ k.head = l.head /\ k.tail = l.tail

\* The key of a value without a primary key.
StartKey(k) == [k EXCEPT !.prim = 0]

\* A query for one value of the field: the scan from its start key up to the first
\* entry of another value.
lookup(t, k) ==
    LET entries == rangeNamed(t, StartKey(k))
        n == Cardinality({i \in DOMAIN entries :
                            \A j \in 1..i : SameValue(entries[j][1], k)})
    IN  {entries[i][1] : i \in 1..n}

-----------------------------------------------------------------------------
(* The pages of a tree. *)

RECURSIVE PagesBelow(_, _)
PagesBelow(t, page) ==
    LET kids == t.nodes[page].kids
    IN  {page} \cup UNION {PagesBelow(t, kids[i]) : i \in DOMAIN kids}
Pages(t) == IF t.root = 0 THEN {} ELSE PagesBelow(t, t.root)

\* A leaf other than the first, written by an older generation, whose page is not
\* a page of the new tree.
LeafMoved(t, u) ==
    /\ t.root # 0
    /\ \E p \in Pages(t) \ Pages(u) :
          t.nodes[p].leaf /\ t.nodes[p].gen < t.gen /\ p # FirstLeaf(t, t.root)

-----------------------------------------------------------------------------
(* Transactions. *)

NewTree ==
    [nodes |-> <<>>, root |-> 0, free |-> <<>>, orphans |-> <<>>, next |-> 3, catalog |-> 2,
     gen |-> 1, failed |-> FALSE]

Init ==
    /\ tree = NewTree
    /\ map = <<>>
    /\ ops = 0
    /\ moved = FALSE
    /\ misfreed = FALSE
    /\ touched = {}

\* The keys that compareByteKeys does not order, two or three at a time.
Disordered ==
    {{t[1], t[2], t[3]} : t \in {u \in Keys \X Keys \X Keys : ~Ordered(u[1], u[2], u[3])}}

\* The first failure, lost page or confusion of keys ends a behaviour.
Sound == ~tree.failed /\ ~misfreed /\ \A K \in Disordered : ~(K \subseteq touched)

\* The first transaction may go on or end.
Filled == tree.gen > 1 \/ ops > 0 \/ Cardinality(touched) \in LoadSizes

\* The next insertion of the first transaction.
Fill ==
    LET n == Cardinality(touched) + 1
    IN  /\ tree.gen = 1
        /\ ops = 0
        /\ n \in DOMAIN Load
        /\ tree' = insertNamed(tree, Load[n], 1)
        /\ map' = (Load[n] :> 1) @@ map
        /\ touched' = touched \cup {Load[n]}
        /\ UNCHANGED <<ops, moved, misfreed>>

Operate(k, t) ==
    /\ Sound
    /\ Filled
    /\ ops < MaxOperations
    /\ ops' = ops + 1
    /\ tree' = t
    /\ moved' = (moved \/ LeafMoved(tree, t))
    /\ touched' = touched \cup {k}

Insert(k) ==
    /\ Operate(k, insertNamed(tree, k, tree.gen))
    /\ map' = (k :> tree.gen) @@ map
    /\ UNCHANGED misfreed

Delete(k) ==
    /\ Operate(k, deleteNamed(tree, k))
    /\ map' = [l \in DOMAIN map \ {k} |-> map[l]]
    /\ misfreed' = (misfreed \/ (k \notin DOMAIN map /\ tree' # tree))

Commit ==
    /\ Sound
    /\ tree.gen < MaxGeneration
    /\ Filled
    /\ tree' = WriteNewState(tree)
    /\ UNCHANGED <<map, ops, moved, misfreed, touched>>

Next == Fill \/ (\E k \in Keys : Insert(k) \/ Delete(k)) \/ Commit

Spec == Init /\ [][Next]_vars

-----------------------------------------------------------------------------
(* Properties. *)

\* Every node is well formed: a pointer per key of a leaf, a child more than the keys
\* of an internal node.
TypeOK ==
    /\ \A p \in DOMAIN tree.nodes :
          LET n == tree.nodes[p]
          IN  /\ n.keys \in Seq(Keys)
              /\ Len(n.ptrs) = IF n.leaf THEN Len(n.keys) ELSE 0
              /\ n.leaf \/ Len(n.kids) = Len(n.keys) + 1
              /\ n.gen \in 1..MaxGeneration
    /\ tree.free \in Seq(Nat) /\ tree.orphans \in Seq(Nat)
    /\ DOMAIN map \subseteq touched /\ touched \subseteq Keys
    /\ ops \in 0..MaxOperations
    /\ moved \in BOOLEAN /\ misfreed \in BOOLEAN

\* Whatever was split, merged, redistributed, copied and recycled, a lookup finds
\* exactly the keys that were inserted and not deleted, with their last pointer.
FindExact ==
    Sound => \A k \in Keys : findNamed(tree, k) = IF k \in DOMAIN map THEN map[k] ELSE 0

\* Every page behind the superblocks and the first catalog is exactly one of: a
\* page of the tree, the catalog, free, orphaned.  None leaks, none has two uses.
PagesAccounted ==
    LET given == tree.free \o tree.orphans
        used == Pages(tree) \cup ({tree.catalog} \ {2})
    IN  Sound => /\ {given[i] : i \in DOMAIN given} \cup used = 3..(tree.next - 1)
                 /\ Len(given) + Cardinality(used) = tree.next - 3

RECURSIVE Depths(_, _)
Depths(t, page) ==
    LET kids == t.nodes[page].kids
    IN  IF t.nodes[page].leaf THEN {0}
        ELSE {d + 1 : d \in UNION {Depths(t, kids[i]) : i \in DOMAIN kids}}

\* A key so long that a page does not hold as many of its size as nodes are merged to.
Long(k) == MergeLimit * Size(k) > IF LeafCapacity < NodeCapacity THEN LeafCapacity ELSE NodeCapacity

HoldsLong(node) == \E i \in DOMAIN node.keys : Long(node.keys[i])

\* Two children of a node that are not merged although the right one has too few keys:
\* it is the one that gives a key to the other.
RightTooShort(t, l, r) ==
    LET sum == Len(t.nodes[l].keys) + Len(t.nodes[r].keys)
    IN  /\ Len(t.nodes[r].keys) < 2
        /\ sum > MergeLimit \/ (~t.nodes[r].leaf /\ sum = MergeLimit)

Neighbours(t) ==
    UNION {{<<t.nodes[p].kids[i - 1], t.nodes[p].kids[i]>> : i \in 2..Len(t.nodes[p].kids)} :
             p \in DOMAIN t.nodes}

\* After any splits, merges and redistributions all leaves are equally deep, and a
\* node fits on its page unless it holds a long key, or is an internal node that got
\* a key from a right neighbour with too few.
Balanced ==
    Sound /\ tree.root # 0 =>
        /\ Cardinality(Depths(tree, tree.root)) = 1
        /\ \A p \in Pages(tree) :
              \/ Fits(tree.nodes[p])
              \/ HoldsLong(tree.nodes[p])
              \/ ~tree.nodes[p].leaf /\ \E n \in Neighbours(tree) :
                    n[1] = p /\ RightTooShort(tree, n[1], n[2])

\* As long as no leaf behind the first was copied to another page, a scan returns
\* every key once, in order, and a query for a value exactly its entries: splits,
\* merges and redistributions within a transaction keep the leaves linked.
ScanExact ==
    Sound /\ ~moved =>
        /\ LET entries == scan(tree)
           IN  /\ Len(entries) = Cardinality(DOMAIN map)
               /\ \A i \in DOMAIN entries : entries[i] = <<entries[i][1], map[entries[i][1]]>>
               /\ \A i \in 1..(Len(entries) - 1) :
                     compareByteKeys(entries[i][1], entries[i + 1][1]) < 0
        /\ \A k \in Keys : lookup(tree, k) = {l \in DOMAIN map : SameValue(k, l)}

\* Keys are told apart and ordered as long as no value takes 512 bytes or more.
ConfusedOnly == \A K \in Disordered : K \subseteq touched => \E k \in K : k.len >= 512

\* A delete panics, and a commit finds a node that cannot be written, only where the
\* right one of two neighbours has too few keys to redistribute, or where a node holds
\* a long key.
FailsOnly ==
    tree.failed =>
        \/ \E n \in Neighbours(tree) : RightTooShort(tree, n[1], n[2])
        \/ \E p \in DirtyNodes(tree) : ~Fits(tree.nodes[p]) /\ HoldsLong(tree.nodes[p])

\* A scan returns every committed key (README "read queries are 100% lock-free and
\* always run against an immutable snapshot of the database").
ScanComplete == Sound => Len(scan(tree)) = Cardinality(DOMAIN map)
=============================================================================

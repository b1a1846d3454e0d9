----------------------------- MODULE BtrfsTree ------------------------------
(***************************************************************************)
(* btrfs/writer.go and tree.go: the file system tree and the extent tree   *)
(* of a btrfs volume, their splits, and the allocation of blocks from what *)
(* the extent tree says is taken.                                          *)
(*                                                                         *)
(* Nodes are changed in place.  The roots of both trees are kept in memory *)
(* only: a mount takes them from the root tree, which is never written.    *)
(* b.mu is held for every operation, so each is one step.                  *)
(*                                                                         *)
(* An item is its key and, for its data, the number of units it takes; a   *)
(* block is one node.  Blocks nobody uses are assumed to hold zeros.       *)
(***************************************************************************)
EXTENDS Naturals, Sequences, FiniteSets, SequencesExt, FiniteSetsExt

CONSTANTS
    Keys,           \* keys of the file system tree, without the smallest
    Sizes,          \* sizes of its items
    MetaBlocks,     \* addresses of the metadata chunk, 1 .. n
    DataBlocks,     \* addresses of the data chunk, above
    LeafCap,        \* units that fit in a leaf
    PtrCap,         \* pointers that fit in an index node
    Extents,        \* bound: extents of file data; with the metadata blocks they
                    \* fit in one leaf of the extent tree
    MountAfterSplit \* TRUE if a volume may be mounted again after a root moved

FirstKey == 0       \* the inode item of the root directory
ExtentSize == 1     \* units of an item of the extent tree

ASSUME ChunksAssumption ==
    /\ \A m \in MetaBlocks, d \in DataBlocks : m < d
    /\ \A k \in Keys : k > FirstKey
    /\ {1, 2} \subseteq MetaBlocks

VARIABLES
    node,           \* the device: what is in each metadata block
    fs, ext,        \* address and level of the two roots, in memory
    (* history, not in the program *)
    items           \* what a walk of the file system tree meets

vars == <<node, fs, ext, items>>

Item(k, n) == [key |-> k, val |-> n]
Leaf(entries) == [level |-> 0, entries |-> entries]

\* What the root tree says, and goes on saying.
findFSTreeRoot == [addr |-> 1, lvl |-> 0]
findExtentTreeRoot == [addr |-> 2, lvl |-> 0]

\* A new volume: the root directory, and the two roots in the extent tree.
Init ==
    /\ node = [a \in MetaBlocks |->
                IF a = 1 THEN Leaf(<<Item(FirstKey, 1)>>)
                ELSE IF a = 2 THEN Leaf(<<Item(1, ExtentSize), Item(2, ExtentSize)>>)
                ELSE Leaf(<<>>)]
    /\ fs = findFSTreeRoot /\ ext = findExtentTreeRoot
    /\ items = node[1].entries

-----------------------------------------------------------------------------
(* Operators on t: the nodes, the roots, and ok: no error so far *)

Now == [node |-> node, fs |-> fs, ext |-> ext, ok |-> TRUE]
Fail(t) == [t EXCEPT !.ok = FALSE]

\* walkTree: the items of all leaves below a, from left to right.
RECURSIVE walkTree(_, _)
walkTree(t, a) ==
    LET n == t.node[a]
    IN  IF n.level = 0 THEN n.entries
        ELSE FlattenSeq([i \in DOMAIN n.entries |-> walkTree(t, n.entries[i].val)])

\* The level insertIntoLeaf and resolveLeaf take a tree to have.
LevelOf(t, a) == IF a = t.fs.addr THEN t.fs.lvl ELSE IF a = t.ext.addr THEN t.ext.lvl ELSE 0

\* The pointer whose key is below k (faulty).
BestBelow(entries, k) == Max({i \in DOMAIN entries : i = 1 \/ entries[i].key < k})

\* The pointer to follow for key k: the last whose key is not above k, or the first.
Best(entries, k) == Max({i \in DOMAIN entries : i = 1 \/ entries[i].key <= k})

\* findLeafWithPath: the nodes from a down to the leaf for k, with their levels.
RECURSIVE findLeafWithPath(_, _, _, _)
findLeafWithPath(t, a, lvl, k) ==
    LET es == t.node[a].entries
    IN  <<[addr |-> a, lvl |-> lvl]>> \o
        (IF lvl = 0 THEN <<>> ELSE findLeafWithPath(t, es[Best(es, k)].val, lvl - 1, k))

\* findLeaf follows the levels in the nodes.
RECURSIVE findLeaf(_, _, _, _)
findLeaf(t, a, lvl, k) ==
    LET n == t.node[a]
    IN  IF lvl = 0 \/ n.level = 0 THEN a
        ELSE findLeaf(t, n.entries[Best(n.entries, k)].val, n.level - 1, k)

resolveLeaf(t, a, k) == findLeaf(t, a, LevelOf(t, a), k)

\* e goes before the first entry whose key is not less.
InsertSorted(entries, e) ==
    LET at == Min({Len(entries) + 1} \union {i \in DOMAIN entries : entries[i].key >= e.key})
    IN  InsertAt(entries, at, e)

Units(entries) == FoldSeq(LAMBDA e, n : n + e.val, 0, entries)

KeysIn(entries) == {entries[i].key : i \in DOMAIN entries}

\* The addresses of chunk that no item of the extent tree names.
FreeIn(t, chunk) == chunk \ KeysIn(walkTree(t, t.ext.addr))

\* allocateSpace takes the lowest of them; nothing marks it as taken yet.
allocateSpace(t, chunk) == Min(FreeIn(t, chunk))

\* getNodeFirstKey.
getNodeFirstKey(t, a) == IF t.node[a].entries = <<>> THEN 0 ELSE t.node[a].entries[1].key

\* The cut of a split: the entries up to the middle, and the others.
Half(all) == Len(all) \div 2
Lower(all) == SubSeq(all, 1, Half(all))
UpperShort(all) == SubSeq(all, Half(all) + 2, Len(all))     \* (faulty)
Upper(all) == SubSeq(all, Half(all) + 1, Len(all))

RECURSIVE insertIntoLeaf(_, _, _), insertPtrIntoParent(_, _, _, _)

\* registerExtent, whose error the callers ignore.
registerExtent(t, a) ==
    [insertIntoLeaf(t, t.ext.addr, Item(a, ExtentSize)) EXCEPT !.ok = TRUE]

\* The new root is not registered, or has level 1 (faulty).
NewRootUnregistered(t, rootAddr, ptr) ==
    LET n == allocateSpace(t, MetaBlocks)
        top == [level |-> LevelOf(t, rootAddr) + 1,
                entries |-> <<Item(getNodeFirstKey(t, rootAddr), rootAddr), ptr>>]
        r == [t EXCEPT !.node[n] = top]
    IN  IF FreeIn(t, MetaBlocks) = {} THEN Fail(t)
        ELSE IF rootAddr = r.fs.addr THEN [r EXCEPT !.fs = [addr |-> n, lvl |-> @.lvl + 1]] ELSE r
NewRootLow(t, rootAddr, ptr) ==
    LET n == allocateSpace(t, MetaBlocks)
        top == [level |-> 1, entries |-> <<Item(getNodeFirstKey(t, rootAddr), rootAddr), ptr>>]
        r == registerExtent([t EXCEPT !.node[n] = top], n)
    IN  IF FreeIn(t, MetaBlocks) = {} THEN Fail(t)
        ELSE IF rootAddr = r.fs.addr THEN [r EXCEPT !.fs = [addr |-> n, lvl |-> @.lvl + 1]] ELSE r

\* The top of the tree was split: a new root over the old one and its new sibling.
\* The root in memory moves only if registering has not moved it already.
NewRoot(t, rootAddr, ptr) ==
    LET n == allocateSpace(t, MetaBlocks)
        top == [level |-> LevelOf(t, rootAddr) + 1,
                entries |-> <<Item(getNodeFirstKey(t, rootAddr), rootAddr), ptr>>]
        r == registerExtent([t EXCEPT !.node[n] = top], n)
        up(root) == [addr |-> n, lvl |-> root.lvl + 1]
    IN  IF FreeIn(t, MetaBlocks) = {} THEN Fail(t)
        ELSE IF rootAddr = r.fs.addr THEN [r EXCEPT !.fs = up(@)]
        ELSE IF rootAddr = r.ext.addr THEN [r EXCEPT !.ext = up(@)]
        ELSE r

\* The upper half of all goes to a new node beside a, which path leads to.
SplitNode(t, a, lvl, path, rootAddr, all) ==
    LET n == allocateSpace(t, MetaBlocks)
        w == [t EXCEPT !.node[a].entries = Lower(all), !.node[n] = [level |-> lvl, entries |-> Upper(all)]]
    IN  IF FreeIn(t, MetaBlocks) = {} THEN Fail(t)
        ELSE insertPtrIntoParent(registerExtent(w, n), path, rootAddr, Item(Upper(all)[1].key, n))

\* insertPtrIntoParent: path leads from the root to the parent, as it was before the split.
insertPtrIntoParent(t, path, rootAddr, ptr) ==
    IF path = <<>> THEN NewRoot(t, rootAddr, ptr)
    ELSE LET parent == Last(path)
             all == InsertSorted(t.node[parent.addr].entries, ptr)
         IN  IF Len(all) <= PtrCap THEN [t EXCEPT !.node[parent.addr].entries = all]
             ELSE SplitNode(t, parent.addr, parent.lvl, Front(path), rootAddr, all)

insertIntoLeaf(t, a, e) ==
    LET path == findLeafWithPath(t, a, LevelOf(t, a), e.key)
        leaf == Last(path).addr
        all == InsertSorted(t.node[leaf].entries, e)
    IN  IF Units(all) <= LeafCap THEN [t EXCEPT !.node[leaf].entries = all]
        ELSE SplitNode(t, leaf, t.node[leaf].level, Front(path), a, all)

\* The place of k in the leaf where it is looked for (the last of several), or 0.
Position(t, a, k) ==
    LET es == t.node[resolveLeaf(t, a, k)].entries
    IN  Max({0} \union {i \in DOMAIN es : es[i].key = k})

deleteFromLeaf(t, a, k) ==
    IF Position(t, a, k) = 0 THEN Fail(t)
    ELSE [t EXCEPT !.node[resolveLeaf(t, a, k)].entries = RemoveAt(@, Position(t, a, k))]

\* updateInLeaf: no split; data that has grown too much is refused.
updateInLeaf(t, a, k, n) ==
    LET leaf == resolveLeaf(t, a, k)
        all == [t.node[leaf].entries EXCEPT ![Position(t, a, k)].val = n]
    IN  IF Position(t, a, k) = 0 \/ Units(all) > LeafCap THEN Fail(t)
        ELSE [t EXCEPT !.node[leaf].entries = all]

-----------------------------------------------------------------------------
(* The steps: what the operations of fs.go do to the trees *)

Become(t) == \E u \in {t} :
    /\ node' = u.node /\ fs' = u.fs /\ ext' = u.ext
    /\ items' = walkTree(u, u.fs.addr)

\* Bound: the volume has a block for every node that an insert can split, and a root.
Room == Cardinality(FreeIn(Now, MetaBlocks)) >= fs.lvl + 2

\* fs.go only inserts keys that are new.
Insert(k, n) == k \notin KeysIn(items) /\ Room /\ Become(insertIntoLeaf(Now, fs.addr, Item(k, n)))
Delete(k) == Become(deleteFromLeaf(Now, fs.addr, k))
Update(k, n) == Become(updateInLeaf(Now, fs.addr, k, n))

\* Write and Truncate take an extent for file data; nothing ever gives one back.
NewExtent ==
    /\ Cardinality(DataBlocks) - Cardinality(FreeIn(Now, DataBlocks)) < Extents
    /\ Become(registerExtent(Now, allocateSpace(Now, DataBlocks)))

\* ReadSuperBlock at the next mount.  There is an extent root.
Mount ==
    /\ MountAfterSplit \/ (fs = findFSTreeRoot /\ ext = findExtentTreeRoot)
    /\ Become([Now EXCEPT !.fs = findFSTreeRoot, !.ext = findExtentTreeRoot])

Next ==
    \/ \E k \in Keys : Delete(k) \/ \E n \in Sizes : Insert(k, n) \/ Update(k, n)
    \/ NewExtent \/ Mount

Spec == Init /\ [][Next]_vars

-----------------------------------------------------------------------------
(* Properties *)

Map == INSTANCE ItemMap WITH First <- <<Item(FirstKey, 1)>>

\* The nodes below a, a included, each as often as it is pointed to.
RECURSIVE NodesBelow(_)
NodesBelow(a) ==
    LET n == node[a]
    IN  <<a>> \o (IF n.level = 0 THEN <<>>
                  ELSE FlattenSeq([i \in DOMAIN n.entries |-> NodesBelow(n.entries[i].val)]))

\* The type invariant: nodes and roots, pointers that lead one level down, and no
\* node with more than fits (a split cuts by number, not by size).
TypeOK ==
    /\ \A a \in MetaBlocks :
            IF node[a].level = 0 THEN Units(node[a].entries) <= LeafCap ELSE Len(node[a].entries) <= PtrCap
    /\ fs.addr \in MetaBlocks /\ ext.addr \in MetaBlocks
    /\ node[fs.addr].level = fs.lvl /\ node[ext.addr].level = ext.lvl
    /\ \A a \in MetaBlocks : \A i \in DOMAIN node[a].entries :
            LET e == node[a].entries[i]
            IN  IF node[a].level = 0 THEN e.val \in Sizes \union {1}
                ELSE e.val \in MetaBlocks /\ node[e.val].level = node[a].level - 1

\* No node is in two places of the trees, and each is named in the extent tree, so
\* that allocateSpace never gives it to another: also when the block of a split is
\* registered in a tree that changes meanwhile.  (It holds as long as the extent tree
\* itself is one leaf: a block that is registered by a split of that leaf is lost.)
NodesOwned ==
    LET all == NodesBelow(fs.addr) \o NodesBelow(ext.addr)
    IN  /\ IsInjective(all)
        /\ ToSet(all) \cap FreeIn(Now, MetaBlocks) = {}

\* Every item can be found again by its key: the keys in the index nodes, made from
\* the first keys of nodes at the time of a split and never corrected, still lead
\* deleteFromLeaf and updateInLeaf to the leaf where the item is.
ItemsFound ==
    /\ \A k \in KeysIn(items) : Position(Now, fs.addr, k) # 0
    /\ \A a \in MetaBlocks \ FreeIn(Now, MetaBlocks) : Position(Now, ext.addr, a) # 0

\* The README: the writer "transactionally commits updated roots directly to the
\* superblock".  An item that was there is there after the next mount.
ItemsSurviveMount == [][Mount => items' = items]_vars

\* Whatever splits it causes in either tree, an insert, a delete or an update of an
\* item has its effect on that item and on no other, and walkTree goes on to meet
\* all of them in the order of their keys.
ImplementsItemMap == Map!Spec
=============================================================================
